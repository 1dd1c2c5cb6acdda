------------------------ MODULE FileOperationsProofs ------------------------
(***************************************************************************)
(* Proofs about FileOperations: its types, OverlapNeedsStaleRequest,       *)
(* NothingLost and ReportIsTrue, for any number of items, workers, request *)
(* threads, requests and faults.                                           *)
(***************************************************************************)
EXTENDS FileOperations, TLAPS

USE TotalAssumption, NobodyAssumption, BoundsAssumption

-----------------------------------------------------------------------------
(* The inductive invariant *)

\* A worker that is at an item.
AtItem == {"examine", "clear", "transfer", "remove", "record"}

\* A worker that is in the middle of the items.
InLoop == AtItem \cup {"look", "replace"}

\* Where a worker is among the items.
Within ==
  \A w \in Workers :
    /\ worker[w].step \in AtItem => worker[w].next <= Total
    /\ worker[w].step \in {"boot", "prepare"} => worker[w].next = 1 /\ ~worker[w].errors

\* As long as no request has stored a status over another one, at most one request
\* thread or worker carries the operation, and none when it rests.
Carried ==
  /\ \A p \in Pages : page[p].step = "start" /\ page[p].status = "running" =>
       /\ row.status = "running"
       /\ \A w \in Workers : ~Live(w)
       /\ \A q \in Pages : /\ page[q].step # "spawn"
                           /\ page[q].step = "start" /\ page[q].status = "running" => q = p
  /\ row.status # "running" =>
       (\A w \in Workers : ~Live(w)) /\ (\A p \in Pages : page[p].step # "spawn")
  /\ \A p \in Pages : page[p].step = "spawn" =>
       (\A w \in Workers : ~Live(w)) /\ (\A q \in Pages : page[q].step = "spawn" => q = p)

\* The request threads remember the status that led them where they are.
Remembered ==
  \A p \in Pages :
    /\ page[p].step = "settle" => page[p].status = "paused"
    /\ page[p].step = "spawn" => page[p].status = "running"

OneWorker == \A v, w \in Workers : Live(v) /\ Live(w) => v = w

\* What is done of an item that a worker takes for done.
Holds(i) == IF Archiving THEN i \in archive.tmp ELSE Settled(i)

\* A place where the item is whole at its target, or at its source or its target, but
\* for what was half removed.
Copied(place) == "new" \in place.at \/ Halved(place)

Kept(place) == (place.src /\ ~place.cut) \/ Copied(place)

\* What a worker that is alone knows, from its first look at the row on.
Knows(w) ==
  /\ row.status # "success"
  /\ worker[w].step = "prepare" => worker[w].completed = {} /\ ~Incremental
  /\ worker[w].step \in {"prepare", "look"} \cup AtItem /\ order.action = "uncompress" =>
       ~worker[w].errors /\ (worker[w].step = "record" => worker[w].ok)
  /\ worker[w].step \in InLoop =>
       /\ row.done \subseteq worker[w].completed /\ worker[w].seen \subseteq worker[w].completed
       /\ \A i \in worker[w].completed : Holds(i)
       /\ Archiving => archive.owner = w
       /\ ~worker[w].errors => \A i \in Items : i < worker[w].next => i \in worker[w].completed
  /\ worker[w].step \in AtItem => worker[w].next \notin worker[w].completed
  /\ worker[w].step \in {"clear", "transfer"} /\ order.action \in {"copy", "move"} =>
       disk[worker[w].next].src
  /\ worker[w].step = "clear" =>
       order.action \in {"copy", "move", "uncompress"} /\ order.policy = "overwrite"
  /\ worker[w].step = "transfer" =>
       /\ order.action # "delete"
       /\ order.action \in {"copy", "move"} /\ order.policy = "skip" => disk[worker[w].next].at = {}
  /\ worker[w].step = "remove" =>
       /\ order.action \in {"delete", "move"}
       /\ order.action = "move" => Copied(disk[worker[w].next])
  /\ worker[w].step = "record" /\ worker[w].ok => Holds(worker[w].next)
  /\ worker[w].step = "replace" => Archiving /\ worker[w].next = Total + 1
  /\ worker[w].step = "finish" /\ (order.action = "uncompress" \/ ~worker[w].errors) =>
       /\ ~worker[w].errors
       /\ \/ \A i \in Items : Settled(i)
          \/ order.action = "compress" /\ order.policy = "skip" /\ archive.final # {}

Truth ==
  /\ OneWorker
  /\ \A w \in Workers : worker[w].step \notin {"off", "boot", "fail"} => Knows(w)

IInv ==
  /\ TypeOK /\ Within /\ Remembered
  /\ OverlapNeedsStaleRequest
  /\ ~hist.stale => Carried
  /\ ~hist.overlap => Truth
  /\ NothingLost /\ CompletedIsTrue /\ SuccessIsWhole

-----------------------------------------------------------------------------
(* Types *)

\* What a step that touches neither order nor requests may leave.
LEMMA ItemsAreNumbers ==
  /\ Items \subseteq Nat /\ 1 \in Items /\ 1 \in 1..(Total + 1) /\ Total + 1 \in 1..(Total + 1)
  /\ \A n \in 1..(Total + 1) : n <= Total => n \in Items /\ n + 1 \in 1..(Total + 1)
  /\ \A n \in 1..(Total + 1) : n > Total => n = Total + 1
  BY DEF Items

LEMMA WithType ==
  ASSUME NEW at \in SUBSET Contents, NEW c \in Contents
  PROVE  With(at, c) \in SUBSET Contents /\ c \in With(at, c)
  BY DEF With

LEMMA OffType == /\ Off \in WorkerState /\ Off.step = "off" /\ Off.next = 1 /\ ~Off.errors
                 /\ Off.completed = {}
  BY ItemsAreNumbers DEF Off, WorkerState, WorkerSteps

\* A worker as a step leaves it.
WorkerOK(x) ==
  /\ x \in WorkerState
  /\ x.step \in AtItem => x.next <= Total
  /\ x.step \in {"boot", "prepare"} => x.next = 1 /\ ~x.errors

Typed == TypeOK /\ Within /\ Remembered

\* A worker's step.
LEMMA WorkerTypes ==
  ASSUME Typed, NEW w \in Workers, NEW x, WorkerOK(x), worker' = [worker EXCEPT ![w] = x],
         row' \in Row, disk' \in [Items -> Place], archive' \in Archive, hist' \in History,
         faults' \in 0..MaxFaults, UNCHANGED <<order, page, requests>>
  PROVE  Typed'
<1>1. x \in WorkerState
  BY DEF WorkerOK
<1>2. TypeOK'
  BY <1>1 DEF Typed, TypeOK
<1>3. \A v \in Workers : worker'[v] = IF v = w THEN x ELSE worker[v]
  BY DEF Typed, TypeOK
<1>4. Within'
  BY <1>3 DEF Typed, Within, WorkerOK
<1>5. Remembered'
  BY DEF Typed, Remembered
<1>6. QED
  BY <1>2, <1>4, <1>5 DEF Typed

\* A request's step.
LEMMA PageTypes ==
  ASSUME Typed, NEW p \in Pages, NEW x \in PageState, page' = [page EXCEPT ![p] = x],
         x.step = "settle" => x.status = "paused", x.step = "spawn" => x.status = "running",
         row' \in Row, hist' \in History, requests' \in 0..MaxRequests, faults' \in 0..MaxFaults,
         UNCHANGED <<order, disk, archive, worker>>
  PROVE  Typed'
<1>1. TypeOK'
  BY DEF Typed, TypeOK
<1>2. \A q \in Pages : page'[q] = IF q = p THEN x ELSE page[q]
  BY DEF Typed, TypeOK
<1>3. Remembered'
  BY <1>2 DEF Typed, Remembered
<1>4. Within'
  BY DEF Typed, Within
<1>5. QED
  BY <1>1, <1>3, <1>4 DEF Typed

LEMMA RequestTypes ==
  ASSUME Typed, NEW p \in Pages, Request(p) \/ Serve(p) \/ PageDies(p) PROVE Typed'
<1>1. /\ row \in Row /\ page[p] \in PageState /\ hist \in History /\ requests \in 0..MaxRequests
      /\ faults \in 0..MaxFaults
  BY DEF Typed, TypeOK
<1>2. Resting \in PageState /\ Resting.step = "idle"
  BY DEF Resting, PageState, PageSteps
<1>3. /\ \A st \in {"pause", "cancel", "start"}, v \in Verdicts \cup {"running"} :
           [step |-> st, status |-> v] \in PageState
      /\ [step |-> "spawn", status |-> "running"] \in PageState
  BY DEF PageState, PageSteps
<1>4. CASE Request(p)
  <2>1. PICK st \in {"pause", "cancel", "start"} :
          /\ page' = [page EXCEPT ![p] = [step |-> st, status |-> row.status]]
          /\ requests < MaxRequests /\ requests' = requests + 1
          /\ UNCHANGED <<order, row, disk, archive, worker, hist, faults>>
    BY <1>4 DEF Request, AskPause, AskCancel, AskResume, Ask
  <2>2. row.status \in Verdicts \cup {"running"}
    BY <1>1 DEF Row
  <2>3. requests' \in 0..MaxRequests
    BY <1>1, <2>1
  <2> DEFINE x == [step |-> st, status |-> row.status]
  <2>4. x \in PageState /\ x.step = st
    BY <1>3, <2>2
  <2> HIDE DEF x
  <2>5. QED
    BY <1>1, <2>1, <2>3, <2>4, PageTypes DEF x
<1>5. CASE Pause(p)
  <2>1. row' \in Row
    BY <1>1, <1>5 DEF Pause, Row
  <2>2. QED
    BY <1>1, <1>2, <1>5, <2>1, PageTypes DEF Pause
<1>6. CASE Cancel(p)
  <2>1. row' \in Row
    BY <1>1, <1>6 DEF Cancel, Row
  <2> DEFINE x == IF page[p].status = "paused" THEN [page[p] EXCEPT !.step = "settle"] ELSE Resting
  <2>2. /\ x \in PageState /\ x.step \in {"settle", "idle"}
        /\ x.step = "settle" => x.status = "paused"
    BY <1>1, <1>2 DEF PageState, PageSteps
  <2>3. page' = [page EXCEPT ![p] = x]
    BY <1>6 DEF Cancel
  <2> HIDE DEF x
  <2>4. QED
    BY <1>1, <1>6, <2>1, <2>2, <2>3, PageTypes DEF Cancel
<1>7. CASE Settle(p)
  <2>1. row' \in Row /\ hist' \in History
    BY <1>1, <1>7 DEF Settle, Row, Verdicts, History
  <2>2. QED
    BY <1>1, <1>2, <1>7, <2>1, PageTypes DEF Settle
<1>8. CASE Start(p)
  <2>1. row' \in Row /\ hist' \in History
    BY <1>1, <1>8 DEF Start, Row, History
  <2> DEFINE x == [step |-> "spawn", status |-> "running"]
  <2>2. x \in PageState /\ x.step = "spawn" /\ x.status = "running"
    BY <1>3
  <2>3. page' = [page EXCEPT ![p] = x]
    BY <1>8 DEF Start
  <2> HIDE DEF x
  <2>4. QED
    BY <1>1, <1>8, <2>1, <2>2, <2>3, PageTypes DEF Start
<1>9. CASE Spawn(p)
  <2>1. PICK w \in Workers : worker' = [worker EXCEPT ![w] = [Off EXCEPT !.step = "boot"]]
    BY <1>9 DEF Spawn
  <2> DEFINE x == [Off EXCEPT !.step = "boot"]
  <2>2. x \in WorkerState /\ x.step = "boot" /\ x.next = 1 /\ ~x.errors
    BY ItemsAreNumbers DEF Off, WorkerState, WorkerSteps
  <2> HIDE DEF x
  <2>3. \A v \in Workers : worker'[v] = IF v = w THEN x ELSE worker[v]
    BY <2>1 DEF Typed, TypeOK, x
  <2>4. worker' \in [Workers -> WorkerState]
    BY <2>1, <2>2 DEF Typed, TypeOK, x
  <2>5. hist' \in History
    BY <1>1, <1>9 DEF Spawn, History
  <2>6. page' = [page EXCEPT ![p] = Resting] /\ UNCHANGED <<order, row, disk, archive, requests, faults>>
    BY <1>9 DEF Spawn
  <2>7. TypeOK'
    BY <1>2, <2>4, <2>5, <2>6 DEF Typed, TypeOK
  <2>8. Within'
    BY <2>2, <2>3 DEF Typed, Within, AtItem
  <2>9. Remembered'
    BY <1>2, <2>6 DEF Typed, TypeOK, Remembered
  <2>10. QED
    BY <2>7, <2>8, <2>9 DEF Typed
<1>10. CASE PageDies(p)
  <2>1. faults' \in 0..MaxFaults
    BY <1>1, <1>10 DEF PageDies, Fault
  <2>2. \A b \in BOOLEAN : [hist EXCEPT !.dead = b] \in History
    BY <1>1 DEF History
  <2>3. hist' \in History
    BY <1>1, <1>10, <2>2 DEF PageDies, History
  <2>4. QED
    BY <1>1, <1>2, <1>10, <2>1, <2>3, PageTypes DEF PageDies
<1>11. QED
  BY <1>4, <1>5, <1>6, <1>7, <1>8, <1>9, <1>10 DEF Serve

\* The parts of the state that a worker sees.
LEMMA Seen ==
  ASSUME Typed, NEW w \in Workers
  PROVE  /\ order \in Orders /\ row \in Row /\ archive \in Archive /\ hist \in History
         /\ disk \in [Items -> Place] /\ worker[w] \in WorkerState /\ faults \in 0..MaxFaults
         /\ row.done \subseteq Items /\ row.status \in Verdicts \cup {"running"}
         /\ worker[w].next \in 1..(Total + 1) /\ worker[w].completed \subseteq Items
         /\ worker[w].seen \subseteq Items /\ worker[w].verdict \in {"paused", "cancelled"}
         /\ worker[w].step \in AtItem =>
              /\ worker[w].next \in Items /\ worker[w].next + 1 \in 1..(Total + 1)
              /\ disk[worker[w].next] \in Place /\ disk[worker[w].next].at \in SUBSET Contents
<1>1. /\ order \in Orders /\ row \in Row /\ archive \in Archive /\ hist \in History
      /\ disk \in [Items -> Place] /\ worker[w] \in WorkerState /\ faults \in 0..MaxFaults
  BY DEF Typed, TypeOK
<1>2. /\ row.done \subseteq Items /\ row.status \in Verdicts \cup {"running"}
      /\ worker[w].next \in 1..(Total + 1) /\ worker[w].completed \subseteq Items
      /\ worker[w].seen \subseteq Items /\ worker[w].verdict \in {"paused", "cancelled"}
  BY <1>1 DEF Row, WorkerState
<1>3. ASSUME worker[w].step \in AtItem
      PROVE  worker[w].next \in Items /\ worker[w].next + 1 \in 1..(Total + 1)
  BY <1>2, <1>3, ItemsAreNumbers DEF Typed, Within
<1>4. \A i \in Items : disk[i] \in Place /\ disk[i].at \in SUBSET Contents
  BY <1>1 DEF Place
<1>5. QED
  BY <1>1, <1>2, <1>3, <1>4

\* A worker that only goes to another step, with the same item.
LEMMA GoesTo ==
  ASSUME Typed, NEW w \in Workers, NEW st \in WorkerSteps \ {"boot", "prepare"},
         st \in AtItem => worker[w].step \in AtItem
  PROVE  /\ WorkerOK([worker[w] EXCEPT !.step = st])
         /\ \A b \in BOOLEAN : WorkerOK([worker[w] EXCEPT !.step = st, !.ok = b])
         /\ \A v \in {"paused", "cancelled"} : WorkerOK([worker[w] EXCEPT !.step = st, !.verdict = v])
<1>1. worker[w] \in WorkerState /\ (st \in AtItem => worker[w].next <= Total)
  BY Seen DEF Typed, Within
<1> DEFINE a == [worker[w] EXCEPT !.step = st]
           b(x) == [worker[w] EXCEPT !.step = st, !.ok = x]
           c(x) == [worker[w] EXCEPT !.step = st, !.verdict = x]
<1>2. a \in WorkerState /\ a.step = st /\ a.next = worker[w].next
  BY <1>1 DEF WorkerState
<1>3. \A x \in BOOLEAN : b(x) \in WorkerState /\ b(x).step = st /\ b(x).next = worker[w].next
  BY <1>1 DEF WorkerState
<1>4. \A x \in {"paused", "cancelled"} :
        c(x) \in WorkerState /\ c(x).step = st /\ c(x).next = worker[w].next
  BY <1>1 DEF WorkerState
<1> HIDE DEF a, b, c
<1>5. WorkerOK(a)
  BY <1>1, <1>2 DEF WorkerOK
<1>6. \A x \in BOOLEAN : WorkerOK(b(x))
  BY <1>1, <1>3 DEF WorkerOK
<1>7. \A x \in {"paused", "cancelled"} : WorkerOK(c(x))
  BY <1>1, <1>4 DEF WorkerOK
<1>8. QED
  BY <1>5, <1>6, <1>7 DEF a, b, c

LEMMA OffOK == WorkerOK(Off)
  BY OffType DEF WorkerOK, AtItem

LEMMA ErredTypes ==
  ASSUME Typed, NEW w \in Workers, worker[w].step \in AtItem, Erred(w)
  PROVE  \E x : WorkerOK(x) /\ worker' = [worker EXCEPT ![w] = x]
<1> DEFINE st == IF order.action = "uncompress" THEN "fail" ELSE "record"
<1>1. st \in WorkerSteps \ {"boot", "prepare"}
  BY DEF WorkerSteps
<1>2. worker' = [worker EXCEPT ![w] = [worker[w] EXCEPT !.step = st, !.ok = FALSE]]
  BY DEF Erred
<1> HIDE DEF st
<1>3. WorkerOK([worker[w] EXCEPT !.step = st, !.ok = FALSE])
  BY <1>1, GoesTo
<1>4. QED
  BY <1>2, <1>3

\* The steps that change nothing but the worker.
LEMMA PlainTypes ==
  ASSUME Typed, NEW w \in Workers, NEW x, WorkerOK(x), worker' = [worker EXCEPT ![w] = x],
         faults' \in 0..MaxFaults, UNCHANGED <<order, row, disk, archive, page, hist, requests>>
  PROVE  Typed'
  BY WorkerTypes, Seen

LEMMA FaultType == ASSUME Typed, Fault PROVE faults' \in 0..MaxFaults
  BY DEF Typed, TypeOK, Fault

LEMMA BeginTypes ==
  ASSUME Typed, NEW w \in Workers, Boot(w) \/ PrepareSkipped(w) \/ Prepare(w) PROVE Typed'
<1>1. CASE Boot(w)
  <2>1. row' \in Row
    BY <1>1, Seen DEF Boot, Row
  <2> DEFINE x == [worker[w] EXCEPT !.step = IF Incremental THEN "look" ELSE "prepare",
                                    !.completed = IF Incremental THEN row.done ELSE {},
                                    !.seen = row.done]
  <2>2. x \in WorkerState /\ x.step \in {"look", "prepare"} /\ x.next = worker[w].next
        /\ x.errors = worker[w].errors
    BY Seen DEF WorkerState, WorkerSteps
  <2>3. worker' = [worker EXCEPT ![w] = x]
    BY <1>1 DEF Boot
  <2> HIDE DEF x
  <2>4. WorkerOK(x)
    BY <1>1, <2>2 DEF WorkerOK, Typed, Within, AtItem, Boot
  <2>5. QED
    BY <1>1, <2>1, <2>3, <2>4, WorkerTypes, Seen DEF Boot
<1>2. CASE PrepareSkipped(w)
  <2>1. worker' = [worker EXCEPT ![w] = [worker[w] EXCEPT !.step = "finish"]]
    BY <1>2 DEF PrepareSkipped
  <2>2. WorkerOK([worker[w] EXCEPT !.step = "finish"])
    BY GoesTo DEF WorkerSteps, AtItem
  <2>3. QED
    BY <1>2, <2>1, <2>2, PlainTypes, Seen DEF PrepareSkipped
<1>3. CASE Prepare(w)
  <2>1. row' \in Row
    BY <1>3, Seen DEF Prepare, Row
  <2>2. archive' \in Archive
    <3>1. \A f \in SUBSET (Items \cup {OldArchive}) : [owner |-> w, tmp |-> {}, final |-> f] \in Archive
      BY DEF Archive
    <3>2. archive.final \in SUBSET (Items \cup {OldArchive})
      BY Seen DEF Archive
    <3>3. QED
      BY <1>3, <3>1, <3>2, Seen DEF Prepare
  <2> DEFINE x == [worker[w] EXCEPT !.step = "look", !.seen = {}]
  <2>3. x \in WorkerState /\ x.step = "look"
    BY Seen DEF WorkerState, WorkerSteps
  <2>4. worker' = [worker EXCEPT ![w] = x]
    BY <1>3 DEF Prepare
  <2> HIDE DEF x
  <2>5. WorkerOK(x)
    BY <2>3 DEF WorkerOK, AtItem
  <2>6. QED
    BY <1>3, <2>1, <2>2, <2>4, <2>5, WorkerTypes, Seen DEF Prepare
<1>4. QED
  BY <1>1, <1>2, <1>3

\* Where Look and Record leave the worker.
LEMMA LookGoes ==
  ASSUME Typed, NEW w \in Workers, Look(w)
  PROVE  \E x \in WorkerState :
           /\ worker' = [worker EXCEPT ![w] = x]
           /\ x.seen = row.done /\ x.completed = worker[w].completed
           /\ x.errors = worker[w].errors
           /\ x.step \in {"look", "stop", "examine"} /\ (x.step = "examine" => x.next <= Total)
           /\ IF worker[w].next \in worker[w].completed
              THEN x.step = "look" /\ x.next = worker[w].next + 1
              ELSE x.step # "look" /\ x.next = worker[w].next
<1> DEFINE x == [worker[w] EXCEPT
       !.seen = row.done,
       !.next = IF worker[w].next \in worker[w].completed
                THEN worker[w].next + 1 ELSE worker[w].next,
       !.step = IF worker[w].next \in worker[w].completed THEN "look"
                ELSE IF row.cancel \/ row.pause THEN "stop" ELSE "examine",
       !.verdict = IF row.cancel THEN "cancelled" ELSE "paused"]
           n == IF worker[w].next \in worker[w].completed THEN worker[w].next + 1
                ELSE worker[w].next
<1>1. worker' = [worker EXCEPT ![w] = x]
  BY DEF Look
<1>2. worker[w] \in WorkerState /\ row.done \in SUBSET Items /\ worker[w].next <= Total
      /\ worker[w].next \in 1..(Total + 1)
  BY Seen DEF Look
<1>3. n \in 1..(Total + 1) /\ n \in Nat
  BY <1>2, ItemsAreNumbers
<1>4. /\ x.seen = row.done /\ x.completed = worker[w].completed
      /\ x.errors = worker[w].errors /\ x.ok = worker[w].ok /\ x.next = n
      /\ x.step = IF worker[w].next \in worker[w].completed THEN "look"
                  ELSE IF row.cancel \/ row.pause THEN "stop" ELSE "examine"
      /\ x.verdict = IF row.cancel THEN "cancelled" ELSE "paused"
  BY <1>2 DEF WorkerState
<1>5. x \in WorkerState
  <2> HIDE DEF n
  <2>1. QED
    BY <1>2, <1>3, <1>4 DEF WorkerState, WorkerSteps
<1> HIDE DEF x
<1>6. QED
  BY <1>1, <1>2, <1>4, <1>5

LEMMA RecordGoes ==
  ASSUME Typed, NEW w \in Workers, Record(w)
  PROVE  \E x \in WorkerState :
           /\ worker' = [worker EXCEPT ![w] = x]
           /\ x.step = "look" /\ x.next = worker[w].next + 1 /\ x.seen = worker[w].seen
           /\ x.completed = IF worker[w].ok THEN worker[w].completed \cup {worker[w].next}
                            ELSE worker[w].completed
           /\ x.errors <=> (worker[w].errors \/ ~worker[w].ok)
<1> DEFINE x == [worker[w] EXCEPT
       !.step = "look", !.next = worker[w].next + 1,
       !.completed = IF worker[w].ok THEN worker[w].completed \cup {worker[w].next}
                     ELSE worker[w].completed,
       !.errors = worker[w].errors \/ ~worker[w].ok]
           c == IF worker[w].ok THEN worker[w].completed \cup {worker[w].next}
                ELSE worker[w].completed
<1>1. worker' = [worker EXCEPT ![w] = x]
  BY DEF Record
<1>2. /\ worker[w] \in WorkerState /\ worker[w].next \in Items
      /\ worker[w].next + 1 \in 1..(Total + 1)
  BY Seen DEF Record, AtItem
<1>3. c \subseteq Items
  BY <1>2, Seen
<1>4. /\ x.step = "look" /\ x.next = worker[w].next + 1 /\ x.seen = worker[w].seen
      /\ x.completed = c /\ x.errors \in BOOLEAN
      /\ x.errors <=> (worker[w].errors \/ ~worker[w].ok)
  BY <1>2 DEF WorkerState
<1>5. x \in WorkerState
  <2> HIDE DEF c
  <2>1. QED
    BY <1>2, <1>3, <1>4 DEF WorkerState, WorkerSteps
<1> HIDE DEF x
<1>6. QED
  BY <1>1, <1>4, <1>5

LEMMA LookTypes ==
  ASSUME Typed, NEW w \in Workers, NoneLeft(w) \/ Look(w) \/ Stop(w) PROVE Typed'
<1>1. CASE NoneLeft(w)
  <2> DEFINE st == IF Archiving THEN "replace" ELSE "finish"
  <2>1. worker' = [worker EXCEPT ![w] = [worker[w] EXCEPT !.step = st]]
    BY <1>1 DEF NoneLeft
  <2>2. st \in WorkerSteps \ {"boot", "prepare"} /\ st \notin AtItem
    BY DEF WorkerSteps, AtItem
  <2> HIDE DEF st
  <2>3. WorkerOK([worker[w] EXCEPT !.step = st])
    BY <2>2, GoesTo
  <2>4. QED
    BY <1>1, <2>1, <2>3, PlainTypes, Seen DEF NoneLeft
<1>2. CASE Look(w)
  <2>1. PICK x \in WorkerState :
          /\ worker' = [worker EXCEPT ![w] = x]
          /\ x.step \in {"look", "stop", "examine"} /\ (x.step = "examine" => x.next <= Total)
    BY <1>2, LookGoes
  <2>2. WorkerOK(x)
    BY <2>1 DEF WorkerOK, AtItem
  <2>3. QED
    BY <1>2, <2>1, <2>2, PlainTypes, Seen DEF Look
<1>3. CASE Stop(w)
  <2>1. row' \in Row
    BY <1>3, Seen DEF Stop, Row, Verdicts
  <2>2. QED
    BY <1>3, <2>1, OffOK, WorkerTypes, Seen DEF Stop
<1>4. QED
  BY <1>1, <1>2, <1>3

LEMMA ExamineTypes ==
  ASSUME Typed, NEW w \in Workers, ExamineMissing(w) \/ ExamineSkipped(w) \/ Examine(w)
  PROVE  Typed'
<1>1. worker[w].step \in AtItem
  BY DEF ExamineMissing, ExamineSkipped, Examine, AtItem
<1>2. CASE ExamineMissing(w) \/ ExamineSkipped(w)
  <2>1. PICK b \in BOOLEAN :
          worker' = [worker EXCEPT ![w] = [worker[w] EXCEPT !.step = "record", !.ok = b]]
    BY <1>2 DEF ExamineMissing, ExamineSkipped
  <2>2. WorkerOK([worker[w] EXCEPT !.step = "record", !.ok = b])
    BY <1>1, GoesTo DEF WorkerSteps
  <2>3. QED
    BY <1>2, <2>1, <2>2, PlainTypes, Seen DEF ExamineMissing, ExamineSkipped
<1>3. CASE Examine(w)
  <2>1. PICK st \in {"remove", "clear", "transfer"} :
          worker' = [worker EXCEPT ![w] = [worker[w] EXCEPT !.step = st]]
    BY <1>3 DEF Examine
  <2>2. WorkerOK([worker[w] EXCEPT !.step = st])
    BY <1>1, GoesTo DEF WorkerSteps
  <2>3. QED
    BY <1>3, <2>1, <2>2, PlainTypes, Seen DEF Examine
<1>4. QED
  BY <1>2, <1>3

LEMMA PlaceTypes ==
  ASSUME Typed, NEW w \in Workers, worker[w].step \in AtItem
  PROVE  /\ \A at \in SUBSET Contents :
              [disk EXCEPT ![worker[w].next].at = at] \in [Items -> Place]
         /\ \A b \in BOOLEAN, at \in SUBSET Contents :
              [disk EXCEPT ![worker[w].next].src = b, ![worker[w].next].at = at] \in [Items -> Place]
         /\ [disk EXCEPT ![worker[w].next].src = FALSE] \in [Items -> Place]
         /\ [disk EXCEPT ![worker[w].next].cut = TRUE] \in [Items -> Place]
  BY Seen DEF Place

\* What an item's step leaves when it stops on its way.
LEMMA HalfwayGoes ==
  ASSUME Typed, NEW w \in Workers, disk' \in Halfway(w), NEW i, i = worker[w].next
  PROVE  /\ disk' \in [Items -> Place]
         /\ \/ UNCHANGED disk
            \/ /\ worker[w].step \in {"clear", "transfer", "remove"}
               /\ \A j \in Items : j # i => disk'[j] = disk[j]
               /\ disk'[i].src = disk[i].src
               /\ \/ worker[w].step = "clear" /\ disk'[i].cut = disk[i].cut
                  \/ /\ worker[w].step = "transfer" /\ disk'[i].cut = disk[i].cut
                     /\ disk'[i].at = With(disk[i].at, "part")
                  \/ worker[w].step = "remove" /\ disk'[i].cut /\ disk'[i].at = disk[i].at
<1>1. disk \in [Items -> Place]
  BY Seen
<1>2. CASE UNCHANGED disk
  BY <1>1, <1>2
<1>3. CASE ~UNCHANGED disk
  <2>1. \/ worker[w].step = "transfer" /\ disk' = [disk EXCEPT ![i].at = With(@, "part")]
        \/ worker[w].step = "clear" /\ disk' = [disk EXCEPT ![i].at = {"part"}]
        \/ worker[w].step = "remove" /\ disk' = [disk EXCEPT ![i].cut = TRUE]
    <3>1. CASE worker[w].step = "transfer" /\ ~Archiving
      BY <1>3, <3>1 DEF Halfway
    <3>2. CASE worker[w].step = "clear"
      BY <1>3, <3>2 DEF Halfway
    <3>3. CASE worker[w].step = "remove"
      BY <1>3, <3>3 DEF Halfway
    <3>4. CASE ~(worker[w].step = "transfer" /\ ~Archiving)
               /\ worker[w].step # "clear" /\ worker[w].step # "remove"
      BY <1>3, <3>4 DEF Halfway
    <3>5. QED
      BY <3>1, <3>2, <3>3, <3>4
  <2>2. worker[w].step \in {"clear", "transfer", "remove"} /\ worker[w].step \in AtItem
    BY <2>1 DEF AtItem
  <2>3. i \in Items /\ disk[i] \in Place /\ disk[i].at \in SUBSET Contents
    BY <2>2, Seen
  <2>4. \A j \in Items : j # i => disk'[j] = disk[j]
    BY <1>1, <2>1
  <2>5. With(disk[i].at, "part") \in SUBSET Contents /\ {"part"} \in SUBSET Contents
    BY <2>3, WithType DEF Contents
  <2>6. CASE worker[w].step = "transfer" /\ disk' = [disk EXCEPT ![i].at = With(@, "part")]
    <3>1. disk' = [disk EXCEPT ![i].at = With(disk[i].at, "part")]
      BY <1>1, <2>3, <2>6
    <3>2. disk' \in [Items -> Place]
      BY <2>2, <2>5, <3>1, PlaceTypes
    <3>3. QED
      BY <1>1, <2>2, <2>3, <2>4, <2>6, <3>1, <3>2 DEF Place
  <2>7. CASE worker[w].step = "clear" /\ disk' = [disk EXCEPT ![i].at = {"part"}]
    <3>1. disk' \in [Items -> Place]
      BY <2>2, <2>5, <2>7, PlaceTypes
    <3>2. QED
      BY <1>1, <2>2, <2>3, <2>4, <2>7, <3>1 DEF Place
  <2>8. CASE worker[w].step = "remove" /\ disk' = [disk EXCEPT ![i].cut = TRUE]
    <3>1. disk' \in [Items -> Place]
      BY <2>2, <2>8, PlaceTypes
    <3>2. QED
      BY <1>1, <2>2, <2>3, <2>4, <2>8, <3>1 DEF Place
  <2>9. QED
    BY <2>1, <2>6, <2>7, <2>8
<1>4. QED
  BY <1>2, <1>3

LEMMA TransferTypes ==
  ASSUME Typed, NEW w \in Workers,
         \/ Clear(w) \/ Transfer(w) \/ TransferMissing(w) \/ ItemFails(w)
         \/ AddToArchive(w) \/ Interrupt(w) \/ Remove(w)
  PROVE  Typed'
<1> DEFINE i == worker[w].next
<1>1. worker[w].step \in AtItem
  BY DEF Clear, Transfer, TransferMissing, ItemFails, AddToArchive, Interrupt, Remove, AtItem
<1>2. disk[i].at \in SUBSET Contents /\ disk[i].src \in BOOLEAN /\ i \in Items
  BY <1>1, Seen DEF Place
<1>3. \A c \in Contents : With(disk[i].at, c) \in SUBSET Contents
  BY <1>2, WithType
<1>4. CASE Clear(w)
  <2>1. disk' = [disk EXCEPT ![i].at = {}]
    BY <1>4 DEF Clear
  <2>2. disk' \in [Items -> Place]
    BY <1>1, <2>1, PlaceTypes
  <2>3. WorkerOK([worker[w] EXCEPT !.step = "transfer"])
    BY <1>1, GoesTo DEF WorkerSteps
  <2>4. Erred(w) \/ worker' = [worker EXCEPT ![w] = [worker[w] EXCEPT !.step = "transfer"]]
    BY <1>4 DEF Clear
  <2>5. PICK x : WorkerOK(x) /\ worker' = [worker EXCEPT ![w] = x]
    BY <1>1, <2>3, <2>4, ErredTypes
  <2>6. QED
    BY <1>4, <2>2, <2>5, WorkerTypes, Seen DEF Clear
<1>5. CASE Transfer(w)
  <2>1. PICK renamed \in BOOLEAN :
          /\ disk' = [disk EXCEPT ![i].src = @ /\ ~renamed,
               ![i].at = With(@, IF order.action = "move" /\ disk[i].cut THEN "part" ELSE "new")]
          /\ worker' = [worker EXCEPT ![w] =
               [worker[w] EXCEPT !.step = IF order.action = "move" /\ ~renamed THEN "remove"
                                          ELSE "record", !.ok = TRUE]]
    BY <1>5 DEF Transfer
  <2> DEFINE st == IF order.action = "move" /\ ~renamed THEN "remove" ELSE "record"
             b == disk[i].src /\ ~renamed
             c == IF order.action = "move" /\ disk[i].cut THEN "part" ELSE "new"
             at == With(disk[i].at, c)
  <2>2. disk' = [disk EXCEPT ![i].src = b, ![i].at = at]
    BY <2>1
  <2>3. b \in BOOLEAN /\ at \in SUBSET Contents
    BY <1>2, <1>3 DEF Contents
  <2>4. disk' \in [Items -> Place]
    <3> HIDE DEF b, at
    <3>1. QED
      BY <1>1, <2>2, <2>3, PlaceTypes
  <2>5. st \in {"remove", "record"}
    OBVIOUS
  <2>6. worker' = [worker EXCEPT ![w] = [worker[w] EXCEPT !.step = st, !.ok = TRUE]]
    BY <2>1
  <2> HIDE DEF st
  <2>7. WorkerOK([worker[w] EXCEPT !.step = st, !.ok = TRUE])
    BY <1>1, <2>5, GoesTo DEF WorkerSteps
  <2>8. QED
    BY <1>5, <2>4, <2>6, <2>7, WorkerTypes, Seen DEF Transfer
<1>6. CASE TransferMissing(w)
  <2>1. PICK x : WorkerOK(x) /\ worker' = [worker EXCEPT ![w] = x]
    BY <1>1, <1>6, ErredTypes DEF TransferMissing
  <2>2. QED
    BY <1>6, <2>1, Seen, PlainTypes DEF TransferMissing
<1>7. CASE ItemFails(w)
  <2>1. disk' \in [Items -> Place]
    BY <1>7, HalfwayGoes DEF ItemFails
  <2>2. PICK x : WorkerOK(x) /\ worker' = [worker EXCEPT ![w] = x]
    BY <1>1, <1>7, ErredTypes DEF ItemFails
  <2>3. faults' \in 0..MaxFaults
    BY <1>7, FaultType DEF ItemFails
  <2>4. QED
    BY <1>7, <2>1, <2>2, <2>3, WorkerTypes, Seen DEF ItemFails
<1>8. CASE AddToArchive(w)
  <2>1. archive' \in Archive
    BY <1>2, <1>8, Seen DEF AddToArchive, Archive
  <2>2. worker' = [worker EXCEPT ![w] = [worker[w] EXCEPT !.step = "record", !.ok = TRUE]]
    BY <1>8 DEF AddToArchive
  <2>3. WorkerOK([worker[w] EXCEPT !.step = "record", !.ok = TRUE])
    BY <1>1, GoesTo DEF WorkerSteps
  <2>4. QED
    BY <1>8, <2>1, <2>2, <2>3, WorkerTypes, Seen DEF AddToArchive
<1>9. CASE Interrupt(w)
  <2>3. disk' \in [Items -> Place]
    BY <1>9, HalfwayGoes DEF Interrupt
  <2> DEFINE v == IF row.cancel THEN "cancelled" ELSE "paused"
  <2>4. worker' = [worker EXCEPT ![w] = [worker[w] EXCEPT !.step = "stop", !.verdict = v]]
    BY <1>9 DEF Interrupt
  <2>5. v \in {"paused", "cancelled"}
    OBVIOUS
  <2> HIDE DEF v
  <2>6. WorkerOK([worker[w] EXCEPT !.step = "stop", !.verdict = v])
    BY <1>1, <2>5, GoesTo DEF WorkerSteps
  <2>7. QED
    BY <1>9, <2>3, <2>4, <2>6, WorkerTypes, Seen DEF Interrupt
<1>10. CASE Remove(w)
  <2>1. disk' = [disk EXCEPT ![i].src = FALSE]
    BY <1>10 DEF Remove
  <2>2. disk' \in [Items -> Place]
    BY <1>1, <2>1, PlaceTypes
  <2>3. worker' = [worker EXCEPT ![w] = [worker[w] EXCEPT !.step = "record", !.ok = disk[i].src]]
    BY <1>10 DEF Remove
  <2>4. WorkerOK([worker[w] EXCEPT !.step = "record", !.ok = disk[i].src])
    BY <1>1, <1>2, GoesTo DEF WorkerSteps
  <2>5. QED
    BY <1>10, <2>2, <2>3, <2>4, WorkerTypes, Seen DEF Remove
<1>11. QED
  BY <1>4, <1>5, <1>6, <1>7, <1>8, <1>9, <1>10

LEMMA RecordTypes ==
  ASSUME Typed, NEW w \in Workers,
         Record(w) \/ Replace(w) \/ Finish(w) \/ Fail(w) \/ Locked(w) \/ Dies(w)
  PROVE  Typed'
<1>1. CASE Record(w)
  <2> DEFINE done == worker[w].completed \cup {worker[w].next}
  <2>1. done \subseteq Items
    BY <1>1, Seen DEF Record, AtItem
  <2>2. row' \in Row
    <3>1. row' = [row EXCEPT !.done = IF order.action = "uncompress" THEN row.done
                                      ELSE IF worker[w].ok THEN done ELSE worker[w].seen]
      BY <1>1 DEF Record
    <3> HIDE DEF done
    <3>2. QED
      BY <2>1, <3>1, Seen DEF Row
  <2>3. PICK x \in WorkerState : worker' = [worker EXCEPT ![w] = x] /\ x.step = "look"
    BY <1>1, RecordGoes
  <2>4. WorkerOK(x)
    BY <2>3 DEF WorkerOK, AtItem
  <2>5. QED
    BY <1>1, <2>2, <2>3, <2>4, WorkerTypes, Seen DEF Record
<1>2. CASE Replace(w)
  <2>1. PICK st \in {"fail", "finish"} :
          worker' = [worker EXCEPT ![w] = [worker[w] EXCEPT !.step = st]]
    BY <1>2 DEF Replace
  <2>2. WorkerOK([worker[w] EXCEPT !.step = st])
    BY GoesTo DEF WorkerSteps, AtItem
  <2>3. archive' \in Archive
    <3>1. archive.tmp \in SUBSET (Items \cup {OldArchive})
      BY Seen DEF Archive
    <3>2. [owner |-> Nobody, tmp |-> {}, final |-> archive.tmp] \in Archive
      BY <3>1 DEF Archive
    <3>3. QED
      BY <1>2, <3>2, Seen DEF Replace
  <2>4. QED
    BY <1>2, <2>1, <2>2, <2>3, WorkerTypes, Seen DEF Replace
<1>3. CASE Finish(w) \/ Fail(w)
  <2>1. row' \in Row
    BY <1>3, Seen DEF Finish, Fail, Row, Verdicts
  <2>2. QED
    BY <1>3, <2>1, OffOK, WorkerTypes, Seen DEF Finish, Fail
<1>4. CASE Locked(w)
  <2>1. worker' = [worker EXCEPT ![w] = [worker[w] EXCEPT !.step = "fail"]]
    BY <1>4 DEF Locked
  <2>2. WorkerOK([worker[w] EXCEPT !.step = "fail"])
    BY GoesTo DEF WorkerSteps, AtItem
  <2>3. QED
    BY <1>4, <2>1, <2>2, FaultType, PlainTypes DEF Locked
<1>5. CASE Dies(w)
  <2>1. hist' \in History /\ disk' \in [Items -> Place]
    BY <1>5, Seen, HalfwayGoes DEF Dies, History
  <2>2. QED
    BY <1>5, <2>1, OffOK, FaultType, WorkerTypes, Seen DEF Dies
<1>6. QED
  BY <1>1, <1>2, <1>3, <1>4, <1>5

LEMMA TypesKept == ASSUME Typed, [Next]_vars PROVE Typed'
<1>1. CASE UNCHANGED vars
  BY <1>1 DEF vars, Typed, TypeOK, Within, Remembered
<1>2. CASE Next
  BY <1>2, RequestTypes, BeginTypes, LookTypes, ExamineTypes, TransferTypes, RecordTypes
     DEF Next, Work, Mishap
<1>3. QED
  BY <1>1, <1>2

-----------------------------------------------------------------------------
(* One worker at a time *)

\* What ~hist.overlap buys.
Sound ==
  /\ ~hist.overlap /\ Truth
  /\ NothingLost /\ CompletedIsTrue /\ SuccessIsWhole

LEMMA SameFiles ==
  ASSUME UNCHANGED <<order, disk, archive>>
  PROVE  \A i : (Settled(i)' <=> Settled(i)) /\ (Holds(i)' <=> Holds(i))
  BY DEF Settled, Holds, AtTarget, Halved, Archiving

\* A step that leaves the files and what the row lists.
LEMMA SameReport ==
  ASSUME UNCHANGED <<order, disk, archive>>, hist'.overlap = hist.overlap, row'.done = row.done,
         row'.status = "success" => row.status = "success",
         NothingLost, CompletedIsTrue, SuccessIsWhole
  PROVE  NothingLost' /\ CompletedIsTrue' /\ SuccessIsWhole'
<1>1. \A i : Settled(i)' <=> Settled(i)
  BY SameFiles
<1>2. NothingLost'
  BY DEF NothingLost, Halved
<1>3. CompletedIsTrue'
  BY <1>1 DEF CompletedIsTrue
<1>4. SuccessIsWhole'
  BY <1>1 DEF SuccessIsWhole
<1>5. QED
  BY <1>2, <1>3, <1>4

\* What the others know does not depend on the requests.
LEMMA PageSound ==
  ASSUME Typed, Sound, UNCHANGED <<order, disk, archive>>, hist'.overlap = hist.overlap,
         row'.done = row.done, row'.status = "success" => row.status = "success", UNCHANGED worker
  PROVE  Sound'
<1>1. \A i : Holds(i)' <=> Holds(i)
  BY SameFiles
<1>2. \A i : Settled(i)' <=> Settled(i)
  BY SameFiles
<1>3. ASSUME NEW w \in Workers, worker'[w].step \notin {"off", "boot", "fail"}
      PROVE  Knows(w)'
  <2>1. Knows(w) /\ worker'[w] = worker[w]
    BY <1>3 DEF Sound, Truth
  <2>2. QED
    BY <1>1, <1>2, <2>1 DEF Knows, Copied, Halved, Incremental, Archiving
<1>4. OneWorker'
  BY DEF Sound, Truth, OneWorker, Live
<1>5. Truth'
  BY <1>3, <1>4 DEF Truth
<1>6. QED
  BY <1>5, SameReport DEF Sound

LEMMA WorkerSound ==
  ASSUME Typed, Sound, NEW w \in Workers, NEW x, Live(w), worker' = [worker EXCEPT ![w] = x],
         x.step \notin {"off", "boot", "fail"} => Knows(w)',
         hist'.overlap = hist.overlap, NothingLost', CompletedIsTrue', SuccessIsWhole'
  PROVE  Sound'
<1>1. \A v \in Workers : worker'[v] = IF v = w THEN x ELSE worker[v]
  BY DEF Typed, TypeOK
<1>2. \A v \in Workers : v # w => worker[v].step = "off"
  BY DEF Sound, Truth, OneWorker, Live
<1>3. OneWorker'
  BY <1>1, <1>2 DEF OneWorker, Live
<1>4. ASSUME NEW v \in Workers, worker'[v].step \notin {"off", "boot", "fail"}
      PROVE  Knows(v)'
  BY <1>1, <1>2, <1>4
<1>5. QED
  BY <1>3, <1>4 DEF Sound, Truth

\* A worker's step that changes nothing else.
LEMMA PlainSound ==
  ASSUME Typed, Sound, NEW w \in Workers, NEW x, Live(w), worker' = [worker EXCEPT ![w] = x],
         x.step \notin {"off", "boot", "fail"} => Knows(w)',
         UNCHANGED <<order, row, disk, archive>>, hist'.overlap = hist.overlap
  PROVE  Sound'
<1>1. NothingLost' /\ CompletedIsTrue' /\ SuccessIsWhole'
  BY SameReport DEF Sound
<1>2. QED
  BY <1>1, WorkerSound

\* A step that ends the worker or has it fail.
LEMMA EndSound ==
  ASSUME Typed, Sound, NEW w \in Workers, NEW x, Live(w), worker' = [worker EXCEPT ![w] = x],
         x.step \in {"off", "fail"}, UNCHANGED <<order, disk, archive>>,
         row'.done = row.done, row'.status = "success" => row.status = "success",
         hist'.overlap = hist.overlap
  PROVE  Sound'
<1>1. NothingLost' /\ CompletedIsTrue' /\ SuccessIsWhole'
  BY SameReport DEF Sound
<1>2. QED
  BY <1>1, WorkerSound

LEMMA BeginSound ==
  ASSUME Typed, Sound, NEW w \in Workers, Boot(w) \/ PrepareSkipped(w) \/ Prepare(w)
  PROVE  Sound'
<1>1. Live(w) /\ worker[w].step \in {"boot", "prepare"} /\ worker[w].next = 1 /\ ~worker[w].errors
  BY DEF Boot, PrepareSkipped, Prepare, Live, Typed, Within
<1>2. \A i \in Items : ~(i < 1)
  BY DEF Items
<1>3. CASE Boot(w)
  <2> DEFINE x == [worker[w] EXCEPT !.step = IF Incremental THEN "look" ELSE "prepare",
                                    !.completed = IF Incremental THEN row.done ELSE {},
                                    !.seen = row.done]
  <2>1. worker' = [worker EXCEPT ![w] = x]
    BY <1>3 DEF Boot
  <2>2. /\ x.step = IF Incremental THEN "look" ELSE "prepare"
        /\ x.completed = IF Incremental THEN row.done ELSE {}
        /\ x.seen = row.done /\ x.next = 1 /\ ~x.errors
    BY <1>1, Seen DEF WorkerState
  <2> HIDE DEF x
  <2>3. worker'[w] = x
    BY <2>1 DEF Typed, TypeOK
  <2>4. row' = [row EXCEPT !.status = "running"] /\ UNCHANGED <<order, disk, archive, hist>>
    BY <1>3 DEF Boot
  <2>5. row'.done = row.done /\ row'.status = "running"
    BY <2>4, Seen DEF Row
  <2>6. Incremental => \A i \in row.done : Holds(i)'
    <3>1. \A i \in row.done : Settled(i)
      BY DEF Sound, CompletedIsTrue
    <3>2. Incremental => \A i \in row.done : Holds(i)
      BY <3>1 DEF Incremental, Holds, Archiving
    <3>3. QED
      BY <2>4, <3>2, SameFiles
  <2>7. Knows(w)'
    BY <1>2, <2>2, <2>3, <2>4, <2>5, <2>6 DEF Knows, Incremental, Archiving, AtItem, InLoop
  <2>8. NothingLost' /\ CompletedIsTrue' /\ SuccessIsWhole'
    BY <2>4, <2>5, SameReport DEF Sound
  <2>9. QED
    BY <1>1, <2>1, <2>4, <2>7, <2>8, WorkerSound
<1>4. CASE PrepareSkipped(w)
  <2> DEFINE x == [worker[w] EXCEPT !.step = "finish"]
  <2>1. worker' = [worker EXCEPT ![w] = x]
    BY <1>4 DEF PrepareSkipped
  <2>2. x.step = "finish" /\ ~x.errors
    BY <1>1, Seen DEF WorkerState
  <2> HIDE DEF x
  <2>3. worker'[w] = x
    BY <2>1 DEF Typed, TypeOK
  <2>4. Knows(w) /\ UNCHANGED <<order, row, disk, archive, hist>>
    BY <1>4 DEF PrepareSkipped, Sound, Truth
  <2>5. Knows(w)'
    BY <1>4, <2>2, <2>3, <2>4 DEF Knows, AtItem, InLoop, PrepareSkipped
  <2>6. QED
    BY <1>1, <2>1, <2>4, <2>5, PlainSound
<1>5. CASE Prepare(w)
  <2> DEFINE x == [worker[w] EXCEPT !.step = "look", !.seen = {}]
  <2>1. worker' = [worker EXCEPT ![w] = x]
    BY <1>5 DEF Prepare
  <2>2. Knows(w) /\ worker[w].completed = {}
    BY <1>5 DEF Prepare, Sound, Truth, Knows
  <2>3. x.step = "look" /\ x.seen = {} /\ x.completed = {} /\ x.next = 1 /\ ~x.errors
    BY <1>1, <2>2, Seen DEF WorkerState
  <2> HIDE DEF x
  <2>4. worker'[w] = x
    BY <2>1 DEF Typed, TypeOK
  <2>5. row' = [row EXCEPT !.done = {}] /\ UNCHANGED <<order, disk, hist>>
    BY <1>5 DEF Prepare
  <2>6. row'.done = {} /\ row'.status = row.status
    BY <2>5, Seen DEF Row
  <2>7. Archiving' => archive'.owner = w
    BY <1>5 DEF Prepare, Archiving
  <2>8. Knows(w)'
    BY <1>2, <2>2, <2>3, <2>4, <2>6, <2>7 DEF Knows, Copied, Halved, AtItem, InLoop
  <2>9. NothingLost' /\ CompletedIsTrue' /\ SuccessIsWhole'
    BY <2>2, <2>5, <2>6 DEF Knows, Sound, NothingLost, Halved, CompletedIsTrue, SuccessIsWhole
  <2>10. QED
    BY <1>1, <2>1, <2>5, <2>8, <2>9, WorkerSound
<1>6. QED
  BY <1>3, <1>4, <1>5

LEMMA LookSound ==
  ASSUME Typed, Sound, NEW w \in Workers, NoneLeft(w) \/ Look(w) \/ Stop(w)
  PROVE  Sound'
<1>1. Live(w) /\ Knows(w) /\ worker[w].step \in {"look", "stop"}
  BY DEF NoneLeft, Look, Stop, Live, Sound, Truth
<1>2. CASE NoneLeft(w)
  <2> DEFINE x == [worker[w] EXCEPT !.step = IF Archiving THEN "replace" ELSE "finish"]
  <2>1. worker' = [worker EXCEPT ![w] = x]
    BY <1>2 DEF NoneLeft
  <2>2. /\ x.step = IF Archiving THEN "replace" ELSE "finish"
        /\ x.completed = worker[w].completed /\ x.seen = worker[w].seen
        /\ x.next = worker[w].next /\ x.errors = worker[w].errors
    BY Seen DEF WorkerState
  <2> HIDE DEF x
  <2>3. worker'[w] = x
    BY <2>1 DEF Typed, TypeOK
  <2>4. UNCHANGED <<order, row, disk, archive, hist>> /\ worker[w].step = "look"
    BY <1>2 DEF NoneLeft
  <2>5. worker[w].next = Total + 1 /\ \A i \in Items : i < Total + 1
    BY <1>2, Seen, ItemsAreNumbers DEF NoneLeft, Items
  <2>6. \A i : (Settled(i)' <=> Settled(i)) /\ (Holds(i)' <=> Holds(i))
    BY <2>4, SameFiles
  <2>7. CASE Archiving
    <3>1. Knows(w)'
      BY <1>1, <2>2, <2>3, <2>4, <2>5, <2>6, <2>7 DEF Knows, Copied, Halved, Archiving, AtItem, InLoop
    <3>2. QED
      BY <1>1, <2>1, <2>4, <3>1, PlainSound
  <2>8. CASE ~Archiving
    <3>1. ~worker[w].errors => \A i \in Items : Settled(i)
      BY <1>1, <2>4, <2>5, <2>8 DEF Knows, InLoop, Holds
    <3>2. order.action = "uncompress" => ~worker[w].errors
      BY <1>1, <2>4 DEF Knows
    <3>3. Knows(w)'
      BY <1>1, <2>2, <2>3, <2>4, <2>6, <2>8, <3>1, <3>2 DEF Knows, Copied, Halved, AtItem, InLoop
    <3>4. QED
      BY <1>1, <2>1, <2>4, <3>3, PlainSound
  <2>9. QED
    BY <2>7, <2>8
<1>3. CASE Look(w)
  <2>1. PICK x \in WorkerState :
           /\ worker' = [worker EXCEPT ![w] = x]
           /\ x.seen = row.done /\ x.completed = worker[w].completed
           /\ x.errors = worker[w].errors
           /\ x.step \in {"look", "stop", "examine"} /\ (x.step = "examine" => x.next <= Total)
           /\ IF worker[w].next \in worker[w].completed
              THEN x.step = "look" /\ x.next = worker[w].next + 1
              ELSE x.step # "look" /\ x.next = worker[w].next
    BY <1>3, LookGoes
  <2>2. worker'[w] = x
    BY <2>1 DEF Typed, TypeOK
  <2>3. UNCHANGED <<order, row, disk, archive, hist>> /\ worker[w].step = "look"
    BY <1>3 DEF Look
  <2>4. \A i : (Settled(i)' <=> Settled(i)) /\ (Holds(i)' <=> Holds(i))
    BY <2>3, SameFiles
  <2>5. \A i \in Items : i < worker[w].next + 1 => i < worker[w].next \/ i = worker[w].next
    BY Seen DEF Items
  <2>6. ~x.errors => \A i \in Items : i < x.next => i \in x.completed
    <3>1. ~worker[w].errors => \A i \in Items : i < worker[w].next => i \in worker[w].completed
      BY <1>1, <2>3 DEF Knows, InLoop
    <3>2. QED
      BY <2>1, <2>5, <3>1
  <2>7. Knows(w)'
    BY <1>1, <2>1, <2>2, <2>3, <2>4, <2>6 DEF Knows, Copied, Halved, Archiving, AtItem, InLoop
  <2>8. QED
    BY <1>1, <2>1, <2>3, <2>7, PlainSound
<1>4. CASE Stop(w)
  <2>1. /\ row' = [row EXCEPT !.status = worker[w].verdict] /\ worker' = [worker EXCEPT ![w] = Off]
        /\ UNCHANGED <<order, disk, archive, hist>>
    BY <1>4 DEF Stop
  <2>2. row'.done = row.done /\ row'.status # "success"
    BY <2>1, Seen DEF Row
  <2>3. QED
    BY <1>1, <2>1, <2>2, OffType, EndSound
<1>5. QED
  BY <1>2, <1>3, <1>4

LEMMA ExamineSound ==
  ASSUME Typed, Sound, NEW w \in Workers, ExamineMissing(w) \/ ExamineSkipped(w) \/ Examine(w)
  PROVE  Sound'
<1>1. /\ Live(w) /\ Knows(w) /\ worker[w].step = "examine"
      /\ UNCHANGED <<order, row, disk, archive, hist>>
  BY DEF ExamineMissing, ExamineSkipped, Examine, Live, Sound, Truth
<1>2. \A i : (Settled(i)' <=> Settled(i)) /\ (Holds(i)' <=> Holds(i))
  BY <1>1, SameFiles
<1>3. CASE ExamineMissing(w) \/ ExamineSkipped(w)
  <2>1. PICK b \in BOOLEAN :
          /\ worker' = [worker EXCEPT ![w] = [worker[w] EXCEPT !.step = "record", !.ok = b]]
          /\ b => ExamineSkipped(w)
          /\ ~b => ExamineMissing(w)
    BY <1>3 DEF ExamineMissing, ExamineSkipped
  <2> DEFINE x == [worker[w] EXCEPT !.step = "record", !.ok = b]
  <2>2. /\ x.step = "record" /\ x.ok = b
        /\ x.completed = worker[w].completed /\ x.seen = worker[w].seen
        /\ x.next = worker[w].next /\ x.errors = worker[w].errors
    BY Seen DEF WorkerState
  <2>3. worker' = [worker EXCEPT ![w] = x]
    BY <2>1
  <2> HIDE DEF x
  <2>4. worker'[w] = x
    BY <2>3 DEF Typed, TypeOK
  <2>5. b => Holds(worker[w].next)
    BY <2>1 DEF ExamineSkipped, Holds, Archiving, Settled, AtTarget
  <2>6. ~b => order.action # "uncompress"
    BY <2>1 DEF ExamineMissing
  <2>7. Knows(w)'
    BY <1>1, <1>2, <2>2, <2>4, <2>5, <2>6 DEF Knows, Copied, Halved, Archiving, AtItem, InLoop
  <2>8. QED
    BY <1>1, <2>3, <2>7, PlainSound
<1>4. CASE Examine(w)
  <2>1. PICK st \in {"remove", "clear", "transfer"} :
          /\ worker' = [worker EXCEPT ![w] = [worker[w] EXCEPT !.step = st]]
          /\ st = "remove" => order.action = "delete"
          /\ st = "clear" => order.action \in {"copy", "move", "uncompress"} /\ order.policy = "overwrite"
          /\ st = "transfer" =>
               /\ order.action # "delete"
               /\ order.action \in {"copy", "move"} /\ order.policy = "skip" => disk[worker[w].next].at = {}
    BY <1>4 DEF Examine
  <2>2. order.action # "uncompress" => disk[worker[w].next].src
    BY <1>4 DEF Examine
  <2> DEFINE x == [worker[w] EXCEPT !.step = st]
  <2>3. /\ x.step = st /\ x.completed = worker[w].completed /\ x.seen = worker[w].seen
        /\ x.next = worker[w].next /\ x.errors = worker[w].errors
    BY Seen DEF WorkerState
  <2>4. worker' = [worker EXCEPT ![w] = x]
    BY <2>1
  <2> HIDE DEF x
  <2>5. worker'[w] = x
    BY <2>4 DEF Typed, TypeOK
  <2>6. Knows(w)'
    BY <1>1, <1>2, <2>1, <2>2, <2>3, <2>5 DEF Knows, Copied, Halved, Archiving, AtItem, InLoop
  <2>7. QED
    BY <1>1, <2>1, <2>4, <2>6, PlainSound
<1>5. QED
  BY <1>3, <1>4

\* The worker as Erred leaves it.
LEMMA ErredGoes ==
  ASSUME Typed, NEW w \in Workers, Erred(w)
  PROVE  \E x :
           /\ worker' = [worker EXCEPT ![w] = x] /\ worker'[w] = x
           /\ x.step = IF order.action = "uncompress" THEN "fail" ELSE "record"
           /\ ~x.ok /\ x.completed = worker[w].completed /\ x.seen = worker[w].seen
           /\ x.next = worker[w].next /\ x.errors = worker[w].errors
<1> DEFINE x == [worker[w] EXCEPT !.step = IF order.action = "uncompress" THEN "fail" ELSE "record",
                                  !.ok = FALSE]
<1>1. worker' = [worker EXCEPT ![w] = x]
  BY DEF Erred
<1>2. /\ x.step = IF order.action = "uncompress" THEN "fail" ELSE "record"
      /\ ~x.ok /\ x.completed = worker[w].completed /\ x.seen = worker[w].seen
      /\ x.next = worker[w].next /\ x.errors = worker[w].errors
  BY Seen DEF WorkerState
<1> HIDE DEF x
<1>3. worker'[w] = x
  BY <1>1 DEF Typed, TypeOK
<1>4. QED
  BY <1>1, <1>2, <1>3

\* A step that touches the worker's current item: the others are as they were, and
\* what the row lists is among them.
LEMMA OthersKept ==
  ASSUME Typed, Sound, NEW w \in Workers, worker[w].step \in {"clear", "transfer", "remove"},
         \A i \in Items : i # worker[w].next => disk'[i] = disk[i],
         UNCHANGED <<order, archive>>, row'.done = row.done, row'.status = row.status,
         hist'.overlap = hist.overlap,
         order.action \in {"copy", "move"} => Kept(disk'[worker[w].next])
  PROVE  /\ \A i \in Items : i # worker[w].next => (Holds(i)' <=> Holds(i))
         /\ NothingLost' /\ CompletedIsTrue' /\ SuccessIsWhole'
<1>1. Knows(w)
  BY DEF Sound, Truth
<1>2. \A i \in Items : i # worker[w].next => (Settled(i)' <=> Settled(i))
  BY DEF Settled, AtTarget, Halved, Archiving
<1>3. \A i \in Items : i # worker[w].next => (Holds(i)' <=> Holds(i))
  BY <1>2 DEF Holds, Archiving
<1>4. NothingLost'
  BY DEF NothingLost, Sound, Kept, Copied, Halved
<1>5. CompletedIsTrue'
  <2>1. worker[w].next \notin row.done /\ row.done \subseteq Items
    BY <1>1, Seen DEF Knows, InLoop, AtItem
  <2>2. QED
    BY <1>2, <2>1 DEF Sound, CompletedIsTrue
<1>6. SuccessIsWhole'
  BY <1>1 DEF Knows, SuccessIsWhole
<1>7. QED
  BY <1>3, <1>4, <1>5, <1>6

\* An error of the item, whatever became of its target.
LEMMA ErredSound ==
  ASSUME Typed, Sound, NEW w \in Workers, worker[w].step \in {"clear", "transfer", "remove"},
         Erred(w), UNCHANGED <<order, row, archive, hist>>,
         \A i \in Items : i # worker[w].next => disk'[i] = disk[i],
         order.action \in {"copy", "move"} => Kept(disk'[worker[w].next])
  PROVE  Sound'
<1>1. Knows(w) /\ Live(w)
  BY DEF Sound, Truth, Live
<1>2. PICK x :
           /\ worker' = [worker EXCEPT ![w] = x] /\ worker'[w] = x
           /\ x.step = IF order.action = "uncompress" THEN "fail" ELSE "record"
           /\ ~x.ok /\ x.completed = worker[w].completed /\ x.seen = worker[w].seen
           /\ x.next = worker[w].next /\ x.errors = worker[w].errors
  BY ErredGoes
<1>3. /\ \A i \in Items : i # worker[w].next => (Holds(i)' <=> Holds(i))
      /\ NothingLost' /\ CompletedIsTrue' /\ SuccessIsWhole'
  BY OthersKept
<1>4. \A i \in worker[w].completed : i \in Items /\ i # worker[w].next
  BY <1>1, Seen DEF Knows, AtItem
<1>5. x.step = "record" => Knows(w)'
  BY <1>1, <1>2, <1>3, <1>4 DEF Knows, Copied, Halved, Archiving, AtItem, InLoop
<1>6. QED
  BY <1>1, <1>2, <1>3, <1>5, WorkerSound

\* The item that Holds from now on, or whose source is still to go.
LEMMA DoneSound ==
  ASSUME Typed, Sound, NEW w \in Workers, worker[w].step \in {"transfer", "remove"},
         NEW x, worker' = [worker EXCEPT ![w] = x], x.step \in {"record", "remove"},
         x.completed = worker[w].completed, x.seen = worker[w].seen,
         x.next = worker[w].next, x.errors = worker[w].errors,
         order.action # "uncompress" \/ x.ok,
         x.step = "record" /\ x.ok => Holds(worker[w].next)',
         x.step = "remove" =>
           order.action = "move" /\ Copied(disk'[worker[w].next]),
         \A i \in Items : i # worker[w].next => disk'[i] = disk[i],
         UNCHANGED <<order, row, archive, hist>>,
         order.action \in {"copy", "move"} => Kept(disk'[worker[w].next])
  PROVE  Sound'
<1>1. Knows(w) /\ Live(w) /\ worker'[w] = x
  BY DEF Sound, Truth, Live, Typed, TypeOK
<1>2. /\ \A i \in Items : i # worker[w].next => (Holds(i)' <=> Holds(i))
      /\ NothingLost' /\ CompletedIsTrue' /\ SuccessIsWhole'
  BY OthersKept
<1>3. \A i \in worker[w].completed : i \in Items /\ i # worker[w].next
  BY <1>1, Seen DEF Knows, AtItem
<1>4. Knows(w)'
  BY <1>1, <1>2, <1>3 DEF Knows, Copied, Halved, Archiving, AtItem, InLoop
<1>5. QED
  BY <1>1, <1>2, <1>4, WorkerSound

\* The item of a copy, a move, an extraction or a delete, once it is done.
LEMMA DoneHolds ==
  ASSUME NEW i, order' = order, ~Archiving, order.action \in Actions,
         order.action = "delete" => ~disk'[i].src,
         order.action = "move" => Copied(disk'[i]) /\ ~disk'[i].src,
         order.action \in {"copy", "uncompress"} => "new" \in disk'[i].at
  PROVE  Holds(i)'
<1>1. ~Archiving'
  BY DEF Archiving
<1>2. SUFFICES Settled(i)'
  BY <1>1 DEF Holds
<1>3. CASE order.action = "delete"
  BY <1>1, <1>3 DEF Settled
<1>4. CASE order.action = "move"
  BY <1>1, <1>4 DEF Settled, AtTarget, Copied, Halved
<1>5. CASE order.action \in {"copy", "uncompress"}
  BY <1>1, <1>5 DEF Settled, AtTarget
<1>6. QED
  BY <1>3, <1>4, <1>5 DEF Actions, Archiving

\* The item of a copy or a move, where one worker is at it.
LEMMA ItemKept ==
  ASSUME Typed, Sound, NEW w \in Workers, worker[w].step \in {"clear", "transfer", "remove"},
         order.action \in {"copy", "move"}
  PROVE  /\ Kept(disk[worker[w].next])
         /\ worker[w].step # "remove" => disk[worker[w].next].src
         /\ worker[w].step = "clear" => order.policy = "overwrite"
         /\ worker[w].step = "transfer" /\ order.policy = "skip" => disk[worker[w].next].at = {}
         /\ worker[w].step = "remove" => Copied(disk[worker[w].next])
<1>1. Knows(w) /\ worker[w].next \in Items
  BY Seen DEF Sound, Truth, AtItem
<1>2. Kept(disk[worker[w].next])
  BY <1>1 DEF Sound, NothingLost, Kept, Copied
<1>3. QED
  BY <1>1, <1>2 DEF Knows

\* Whatever a transfer brings to the target: what was half removed has its copy beside
\* it, or overwrites.
LEMMA BroughtKept ==
  ASSUME Typed, Sound, NEW w \in Workers, worker[w].step = "transfer",
         order.action \in {"copy", "move"}, disk'[worker[w].next].cut = disk[worker[w].next].cut,
         NEW c, disk'[worker[w].next].at = With(disk[worker[w].next].at, c)
  PROVE  disk[worker[w].next].cut => Copied(disk'[worker[w].next])
<1>1. /\ Kept(disk[worker[w].next])
      /\ order.policy = "skip" => disk[worker[w].next].at = {}
  BY ItemKept
<1>2. order.policy \in Policies
  BY Seen DEF Orders
<1>3. QED
  BY <1>1, <1>2 DEF Kept, Copied, Halved, With, Policies

\* A step that stops on its way loses nothing.
LEMMA HalfwayKept ==
  ASSUME Typed, Sound, NEW w \in Workers, worker[w].step \in {"clear", "transfer", "remove"},
         disk' \in Halfway(w), order.action \in {"copy", "move"}
  PROVE  Kept(disk'[worker[w].next])
<1> DEFINE i == worker[w].next
<1>1. /\ Kept(disk[i])
      /\ worker[w].step # "remove" => disk[i].src
      /\ worker[w].step = "clear" => order.policy = "overwrite"
      /\ worker[w].step = "remove" => Copied(disk[i])
  BY ItemKept
<1>2. CASE UNCHANGED disk
  BY <1>1, <1>2
<1>3. CASE /\ disk'[i].src = disk[i].src /\ disk'[i].cut = disk[i].cut
           /\ worker[w].step = "clear"
  BY <1>1, <1>3 DEF Kept, Copied, Halved
<1>4. CASE /\ disk'[i].src = disk[i].src /\ disk'[i].cut = disk[i].cut
           /\ worker[w].step = "transfer" /\ disk'[i].at = With(disk[i].at, "part")
  <2>1. disk[i].cut => Copied(disk'[i])
    BY <1>4, BroughtKept
  <2>2. QED
    BY <1>1, <1>4, <2>1 DEF Kept
<1>5. CASE worker[w].step = "remove" /\ disk'[i].cut /\ disk'[i].at = disk[i].at
  BY <1>1, <1>5 DEF Kept, Copied, Halved
<1>6. QED
  BY <1>2, <1>3, <1>4, <1>5, HalfwayGoes

LEMMA TransferSound ==
  ASSUME Typed, Sound, NEW w \in Workers,
         Clear(w) \/ Transfer(w) \/ TransferMissing(w)
  PROVE  Sound'
<1> DEFINE i == worker[w].next
<1>1. Knows(w) /\ Live(w) /\ worker[w].step \in {"clear", "transfer"}
  BY DEF Clear, Transfer, TransferMissing, Live, Sound, Truth
<1>2. i \in Items /\ disk[i] \in Place /\ disk[i].at \in SUBSET Contents
  BY <1>1, Seen DEF AtItem
<1>3. order.action \in {"copy", "move"} => disk[i].src /\ Kept(disk[i])
  BY <1>1, ItemKept
<1>4. CASE Clear(w)
  <2>1. disk' = [disk EXCEPT ![i].at = {}] /\ UNCHANGED <<order, row, archive, hist>>
    BY <1>4 DEF Clear
  <2>2. /\ \A j \in Items : j # i => disk'[j] = disk[j]
        /\ disk'[i].src = disk[i].src /\ disk'[i].cut = disk[i].cut
    BY <1>2, <2>1, Seen DEF Place
  <2>6. worker[w].step = "clear" /\ order.policy = "overwrite"
    BY <1>1, <1>4 DEF Clear, Knows
  <2>7. order.action \in {"copy", "move"} => Kept(disk'[i])
    BY <1>3, <2>2, <2>6 DEF Kept, Copied, Halved
  <2>3. CASE Erred(w)
    BY <1>1, <2>1, <2>2, <2>3, <2>7, ErredSound
  <2>4. CASE worker' = [worker EXCEPT ![w] = [worker[w] EXCEPT !.step = "transfer"]]
    <3> DEFINE x == [worker[w] EXCEPT !.step = "transfer"]
    <3>1. /\ x.step = "transfer" /\ x.completed = worker[w].completed /\ x.seen = worker[w].seen
          /\ x.next = worker[w].next /\ x.errors = worker[w].errors
      BY Seen DEF WorkerState
    <3>2. worker' = [worker EXCEPT ![w] = x]
      BY <2>4
    <3> HIDE DEF x
    <3>3. worker'[w] = x
      BY <3>2 DEF Typed, TypeOK
    <3>4. /\ \A j \in Items : j # i => (Holds(j)' <=> Holds(j))
          /\ NothingLost' /\ CompletedIsTrue' /\ SuccessIsWhole'
      BY <1>1, <2>1, <2>2, <2>7, OthersKept
    <3>5. \A j \in worker[w].completed : j \in Items /\ j # worker[w].next
      BY <1>1, Seen DEF Knows, AtItem
    <3>6. order.action \in {"copy", "move", "uncompress"}
      BY <1>1, <1>4 DEF Clear, Knows
    <3>7. Knows(w)'
      BY <1>1, <1>3, <2>1, <2>2, <2>6, <3>1, <3>3, <3>4, <3>5, <3>6 DEF Knows, Copied, Halved, Archiving, AtItem, InLoop
    <3>8. QED
      BY <1>1, <2>1, <3>2, <3>4, <3>7, WorkerSound
  <2>5. QED
    BY <1>4, <2>3, <2>4 DEF Clear
<1>5. CASE Transfer(w)
  <2>1. PICK renamed \in BOOLEAN :
          /\ renamed => order.action = "move"
          /\ disk' = [disk EXCEPT ![i].src = @ /\ ~renamed,
               ![i].at = With(@, IF order.action = "move" /\ disk[i].cut THEN "part" ELSE "new")]
          /\ worker' = [worker EXCEPT ![w] =
               [worker[w] EXCEPT !.step = IF order.action = "move" /\ ~renamed THEN "remove"
                                          ELSE "record", !.ok = TRUE]]
    BY <1>5 DEF Transfer
  <2> DEFINE x == [worker[w] EXCEPT !.step = IF order.action = "move" /\ ~renamed THEN "remove"
                                             ELSE "record", !.ok = TRUE]
             c == IF order.action = "move" /\ disk[i].cut THEN "part" ELSE "new"
  <2>2. /\ x.step = (IF order.action = "move" /\ ~renamed THEN "remove" ELSE "record") /\ x.ok
        /\ x.completed = worker[w].completed /\ x.seen = worker[w].seen
        /\ x.next = worker[w].next /\ x.errors = worker[w].errors
    BY Seen DEF WorkerState
  <2>3. worker' = [worker EXCEPT ![w] = x]
    BY <2>1
  <2> HIDE DEF x
  <2>4. /\ \A j \in Items : j # i => disk'[j] = disk[j]
        /\ (disk'[i].src <=> disk[i].src /\ ~renamed) /\ disk'[i].cut = disk[i].cut
        /\ disk'[i].at = With(disk[i].at, c)
    BY <1>2, <2>1, Seen DEF Place
  <2>5. UNCHANGED <<order, row, archive, hist>> /\ ~Archiving /\ worker[w].step = "transfer"
        /\ order.action \in Actions
    BY <1>5, Seen DEF Transfer, Orders
  <2>6. order.action # "delete"
    BY <1>1, <2>5 DEF Knows
  <2>7. c = "new" => "new" \in disk'[i].at
    BY <1>2, <2>4, WithType DEF Contents
  <2>8. order.action \in {"copy", "move"} => Copied(disk'[i]) /\ Kept(disk'[i])
    <3>1. CASE c = "new"
      BY <2>7, <3>1 DEF Kept, Copied
    <3>2. CASE order.action = "move" /\ disk[i].cut
      BY <2>4, <2>5, <3>2, BroughtKept DEF Kept
    <3>3. QED
      BY <3>1, <3>2
  <2>9. order.action \in {"copy", "uncompress"} => "new" \in disk'[i].at
    BY <2>7
  <2> HIDE DEF c
  <2>10. x.step = "record" => Holds(i)'
    <3>1. worker'[w].next = worker[w].next
      BY <2>2, <2>3 DEF Typed, TypeOK
    <3>2. x.step = "record" /\ order.action = "move" => ~disk'[i].src
      BY <2>1, <2>2, <2>4
    <3>3. x.step = "record" => \A k : k = worker[w].next => Holds(k)'
      BY <2>5, <2>6, <2>8, <2>9, <3>2, DoneHolds
    <3>4. QED
      BY <3>1, <3>3
  <2>11. x.step = "remove" => order.action = "move" /\ Copied(disk'[i])
    BY <2>2, <2>8
  <2>12. QED
    BY <1>1, <2>2, <2>3, <2>4, <2>5, <2>8, <2>10, <2>11, DoneSound
<1>6. CASE TransferMissing(w)
  <2>1. UNCHANGED <<order, row, disk, archive, hist>> /\ Erred(w)
    BY <1>6 DEF TransferMissing
  <2>2. QED
    BY <1>1, <1>3, <2>1, ErredSound
<1>7. QED
  BY <1>4, <1>5, <1>6

LEMMA ArchiveSound ==
  ASSUME Typed, Sound, NEW w \in Workers, AddToArchive(w) \/ Interrupt(w)
  PROVE  Sound'
<1> DEFINE i == worker[w].next
<1>1. Knows(w) /\ Live(w) /\ worker[w].step = "transfer"
  BY DEF AddToArchive, Interrupt, Live, Sound, Truth
<1>2. i \in Items /\ disk[i] \in Place /\ disk[i].at \in SUBSET Contents
  BY <1>1, Seen DEF AtItem
<1>4. CASE AddToArchive(w)
  <2>1. /\ worker' = [worker EXCEPT ![w] = [worker[w] EXCEPT !.step = "record", !.ok = TRUE]]
        /\ UNCHANGED <<order, row, disk, hist>> /\ Archiving
    BY <1>4 DEF AddToArchive
  <2>2. archive' = [archive EXCEPT !.tmp = archive.tmp \cup {i}] /\ archive.owner = w
    BY <1>1, <1>4, <2>1 DEF AddToArchive, Knows, InLoop, AtItem
  <2>3. archive'.tmp = archive.tmp \cup {i} /\ archive'.final = archive.final /\ archive'.owner = w
    BY <2>2, Seen DEF Archive
  <2> DEFINE x == [worker[w] EXCEPT !.step = "record", !.ok = TRUE]
  <2>4. /\ x.step = "record" /\ x.ok /\ x.completed = worker[w].completed /\ x.seen = worker[w].seen
        /\ x.next = worker[w].next /\ x.errors = worker[w].errors
    BY Seen DEF WorkerState
  <2>5. worker' = [worker EXCEPT ![w] = x]
    BY <2>1
  <2> HIDE DEF x
  <2>6. worker'[w] = x
    BY <2>5 DEF Typed, TypeOK
  <2>7. Holds(i)' /\ \A j : Holds(j) => Holds(j)'
    BY <2>1, <2>3 DEF Holds, Archiving
  <2>8. \A j : Settled(j) => Settled(j)'
    BY <2>1, <2>3 DEF Settled, Archiving
  <2>9. Knows(w)'
    BY <1>1, <2>1, <2>3, <2>4, <2>6, <2>7 DEF Knows, Copied, Halved, Archiving, AtItem, InLoop
  <2>10. NothingLost' /\ CompletedIsTrue' /\ SuccessIsWhole'
    BY <1>1, <2>1, <2>8 DEF Knows, Sound, NothingLost, Halved, CompletedIsTrue, SuccessIsWhole
  <2>11. QED
    BY <1>1, <2>1, <2>5, <2>9, <2>10, WorkerSound
<1>6. CASE Interrupt(w)
  <2>1. disk' \in Halfway(w)
    BY <1>6 DEF Interrupt
  <2>2. /\ \A j \in Items : j # i => disk'[j] = disk[j]
        /\ order.action \in {"copy", "move"} => Kept(disk'[i])
    BY <1>1, <2>1, HalfwayGoes, HalfwayKept
  <2> DEFINE x == [worker[w] EXCEPT !.step = "stop",
                                    !.verdict = IF row.cancel THEN "cancelled" ELSE "paused"]
  <2>3. UNCHANGED <<order, row, archive, hist>> /\ worker' = [worker EXCEPT ![w] = x]
    BY <1>6 DEF Interrupt
  <2>4. x.step = "stop"
    BY Seen DEF WorkerState
  <2> HIDE DEF x
  <2>5. worker'[w] = x
    BY <2>3 DEF Typed, TypeOK
  <2>6. NothingLost' /\ CompletedIsTrue' /\ SuccessIsWhole'
    BY <1>1, <2>2, <2>3, OthersKept
  <2>7. Knows(w)'
    BY <1>1, <2>3, <2>4, <2>5 DEF Knows, Copied, Halved, AtItem, InLoop
  <2>8. QED
    BY <1>1, <2>3, <2>6, <2>7, WorkerSound
<1>7. QED
  BY <1>4, <1>6

\* An item that fails on its way.
LEMMA FailsSound == ASSUME Typed, Sound, NEW w \in Workers, ItemFails(w) PROVE Sound'
<1>1. /\ worker[w].step \in {"clear", "transfer", "remove"} /\ disk' \in Halfway(w) /\ Erred(w)
      /\ UNCHANGED <<order, row, archive, hist>>
  BY DEF ItemFails
<1>2. \A i \in Items : i # worker[w].next => disk'[i] = disk[i]
  BY <1>1, HalfwayGoes
<1>3. order.action \in {"copy", "move"} => Kept(disk'[worker[w].next])
  BY <1>1, HalfwayKept
<1>4. QED
  BY <1>1, <1>2, <1>3, ErredSound

LEMMA RemoveSound ==
  ASSUME Typed, Sound, NEW w \in Workers, Remove(w)
  PROVE  Sound'
<1> DEFINE i == worker[w].next
<1>1. /\ Knows(w) /\ Live(w) /\ worker[w].step = "remove"
      /\ order.action \in {"delete", "move"} /\ (order.action = "move" => Copied(disk[i]))
  BY DEF Remove, Live, Sound, Truth, Knows
<1>2. i \in Items /\ disk[i] \in Place /\ disk[i].at \in SUBSET Contents
  BY <1>1, Seen DEF AtItem
<1>3. CASE Remove(w)
  <2> DEFINE x == [worker[w] EXCEPT !.step = "record", !.ok = disk[i].src]
  <2>1. /\ worker' = [worker EXCEPT ![w] = x] /\ disk' = [disk EXCEPT ![i].src = FALSE]
        /\ UNCHANGED <<order, row, archive, hist>>
    BY <1>3 DEF Remove
  <2>2. /\ x.step = "record" /\ x.completed = worker[w].completed /\ x.seen = worker[w].seen
        /\ x.next = worker[w].next /\ x.errors = worker[w].errors
    BY Seen DEF WorkerState
  <2> HIDE DEF x
  <2>3. /\ \A j \in Items : j # i => disk'[j] = disk[j]
        /\ ~disk'[i].src /\ disk'[i].at = disk[i].at /\ disk'[i].cut = disk[i].cut
    BY <1>2, <2>1, Seen DEF Place
  <2>6. order.action = "move" => Copied(disk'[i]) /\ Kept(disk'[i])
    BY <1>1, <2>3 DEF Kept, Copied, Halved
  <2>4. Holds(i)'
    <3>1. order' = order /\ ~Archiving /\ order.action \in Actions
      BY <1>1, <2>1 DEF Archiving, Actions
    <3>2. worker'[w].next = worker[w].next
      BY <2>1, <2>2 DEF Typed, TypeOK
    <3>3. \A k : k = worker[w].next => Holds(k)'
      BY <1>1, <2>3, <2>6, <3>1, DoneHolds
    <3>4. QED
      BY <3>2, <3>3
  <2>5. QED
    BY <1>1, <2>1, <2>2, <2>3, <2>4, <2>6, DoneSound
<1>4. QED
  BY <1>3

LEMMA RecordSound == ASSUME Typed, Sound, NEW w \in Workers, Record(w) PROVE Sound'
<1>1. /\ Knows(w) /\ Live(w) /\ worker[w].step = "record"
      /\ UNCHANGED <<order, disk, archive, hist>>
  BY DEF Record, Live, Sound, Truth
<1>2. PICK x \in WorkerState :
           /\ worker' = [worker EXCEPT ![w] = x]
           /\ x.step = "look" /\ x.next = worker[w].next + 1 /\ x.seen = worker[w].seen
           /\ x.completed = IF worker[w].ok THEN worker[w].completed \cup {worker[w].next}
                            ELSE worker[w].completed
           /\ x.errors <=> (worker[w].errors \/ ~worker[w].ok)
  BY RecordGoes
<1>3. worker'[w] = x
  BY <1>2 DEF Typed, TypeOK
<1>4. row' = [row EXCEPT !.done = IF order.action = "uncompress" THEN row.done
                                  ELSE IF worker[w].ok
                                  THEN worker[w].completed \cup {worker[w].next}
                                  ELSE worker[w].seen]
  BY DEF Record
<1>5. row'.status = row.status /\ row'.done \in {row.done, x.completed, worker[w].seen}
  BY <1>2, <1>4, Seen DEF Row
<1>6. row'.done \subseteq x.completed
  BY <1>1, <1>2, <1>5 DEF Knows, InLoop, AtItem
<1>7. \A i : (Settled(i)' <=> Settled(i)) /\ (Holds(i)' <=> Holds(i))
  BY <1>1, SameFiles
<1>8. \A i \in x.completed : Holds(i)
  BY <1>1, <1>2 DEF Knows, InLoop, AtItem
<1>9. ~x.errors => \A i \in Items : i < x.next => i \in x.completed
  <2>1. \A i \in Items : i < worker[w].next + 1 => i < worker[w].next \/ i = worker[w].next
    BY Seen DEF Items
  <2>2. ~worker[w].errors => \A i \in Items : i < worker[w].next => i \in worker[w].completed
    BY <1>1 DEF Knows, InLoop, AtItem
  <2>3. QED
    BY <1>2, <2>1, <2>2
<1>10. order.action = "uncompress" => ~x.errors
  BY <1>1, <1>2 DEF Knows, AtItem
<1>11. Knows(w)'
  BY <1>1, <1>2, <1>3, <1>5, <1>6, <1>7, <1>8, <1>9, <1>10 DEF Knows, Copied, Halved, Archiving, AtItem, InLoop
<1>12. NothingLost'
  BY <1>1 DEF Sound, NothingLost, Halved
<1>13. CompletedIsTrue'
  <2>1. \A i \in x.completed : Settled(i)
    <3>1. CASE ~Archiving
      BY <1>8, <3>1 DEF Holds
    <3>2. CASE Archiving
      BY <1>8, <3>2 DEF Holds, Settled, Archiving
    <3>3. QED
      BY <3>1, <3>2
  <2>2. QED
    BY <1>6, <1>7, <2>1 DEF CompletedIsTrue
<1>14. SuccessIsWhole'
  BY <1>1, <1>5 DEF Knows, SuccessIsWhole
<1>15. QED
  BY <1>1, <1>2, <1>11, <1>12, <1>13, <1>14, WorkerSound

LEMMA ReplaceSound == ASSUME Typed, Sound, NEW w \in Workers, Replace(w) PROVE Sound'
<1>1. /\ Knows(w) /\ Live(w) /\ worker[w].step = "replace" /\ worker[w].next = Total + 1
      /\ Archiving /\ archive.owner = w
      /\ UNCHANGED <<order, row, disk, hist>>
  BY DEF Replace, Live, Sound, Truth, Knows, InLoop
<1> DEFINE x == [worker[w] EXCEPT !.step = "finish"]
<1>2. /\ worker' = [worker EXCEPT ![w] = x]
      /\ archive' = [owner |-> Nobody, tmp |-> {}, final |-> archive.tmp]
  BY <1>1 DEF Replace
<1>3. x.step = "finish" /\ x.errors = worker[w].errors
  BY Seen DEF WorkerState
<1> HIDE DEF x
<1>4. worker'[w] = x
  BY <1>2 DEF Typed, TypeOK
<1>5. /\ \A i \in worker[w].completed : i \in archive.tmp
      /\ row.done \subseteq worker[w].completed
  BY <1>1 DEF Knows, InLoop, Holds
<1>6. \A i : Settled(i)' <=> i \in archive.tmp
  BY <1>1, <1>2 DEF Settled, Archiving
<1>7. ~worker[w].errors => \A i \in Items : i \in archive.tmp
  <2>1. \A i \in Items : i < Total + 1
    BY DEF Items
  <2>2. QED
    BY <1>1, <1>5, <2>1 DEF Knows, InLoop
<1>8. Knows(w)'
  BY <1>1, <1>3, <1>4, <1>6, <1>7 DEF Knows, Copied, Halved, Archiving, AtItem, InLoop
<1>9. CompletedIsTrue'
  BY <1>1, <1>5, <1>6 DEF CompletedIsTrue
<1>10. NothingLost' /\ SuccessIsWhole'
  BY <1>1 DEF Knows, Sound, NothingLost, Halved, SuccessIsWhole
<1>11. QED
  BY <1>1, <1>2, <1>8, <1>9, <1>10, WorkerSound

LEMMA FinishSound == ASSUME Typed, Sound, NEW w \in Workers, Finish(w) PROVE Sound'
<1>1. /\ Knows(w) /\ Live(w) /\ worker[w].step = "finish"
      /\ UNCHANGED <<order, disk, archive, hist>> /\ worker' = [worker EXCEPT ![w] = Off]
  BY DEF Finish, Live, Sound, Truth
<1>2. row' = [row EXCEPT !.status = IF worker[w].errors THEN "failed" ELSE "success",
                         !.done = IF order.action = "uncompress" THEN Items ELSE row.done]
  BY DEF Finish
<1>3. /\ row'.status = IF worker[w].errors THEN "failed" ELSE "success"
      /\ row'.done = IF order.action = "uncompress" THEN Items ELSE row.done
  BY <1>2, Seen DEF Row
<1>4. \A i : Settled(i)' <=> Settled(i)
  BY <1>1, SameFiles
<1>5. order.action = "uncompress" \/ ~worker[w].errors =>
        \/ \A i \in Items : Settled(i)
        \/ order.action = "compress" /\ order.policy = "skip" /\ archive.final # {}
  BY <1>1 DEF Knows
<1>6. CompletedIsTrue'
  BY <1>3, <1>4, <1>5 DEF Sound, CompletedIsTrue
<1>7. SuccessIsWhole'
  BY <1>1, <1>3, <1>4, <1>5 DEF SuccessIsWhole
<1>8. NothingLost'
  BY <1>1 DEF Sound, NothingLost, Halved
<1>9. QED
  BY <1>1, <1>6, <1>7, <1>8, OffType, WorkerSound

LEMMA EndsSound ==
  ASSUME Typed, Sound, NEW w \in Workers, Fail(w) \/ Locked(w) \/ Dies(w) PROVE Sound'
<1>1. Live(w) /\ UNCHANGED <<order, archive>> /\ (Fail(w) \/ Locked(w) => UNCHANGED disk)
  BY DEF Fail, Locked, Dies, Live
<1>2. CASE Fail(w)
  <2>1. row' = [row EXCEPT !.status = "failed"] /\ worker' = [worker EXCEPT ![w] = Off]
        /\ UNCHANGED hist
    BY <1>2 DEF Fail
  <2>2. row'.done = row.done /\ row'.status # "success"
    BY <2>1, Seen DEF Row
  <2>3. QED
    BY <1>1, <1>2, <2>1, <2>2, OffType, EndSound
<1>3. CASE Locked(w)
  <2> DEFINE x == [worker[w] EXCEPT !.step = "fail"]
  <2>1. worker' = [worker EXCEPT ![w] = x] /\ UNCHANGED <<row, hist>>
    BY <1>3 DEF Locked
  <2>2. x.step = "fail"
    BY Seen DEF WorkerState
  <2> HIDE DEF x
  <2>3. QED
    BY <1>1, <1>3, <2>1, <2>2, EndSound
<1>4. CASE Dies(w)
  <2>1. hist' = [hist EXCEPT !.dead = TRUE] /\ worker' = [worker EXCEPT ![w] = Off]
        /\ UNCHANGED row
    BY <1>4 DEF Dies
  <2>2. hist'.overlap = hist.overlap
    BY <2>1, Seen DEF History
  <2>3. disk' \in Halfway(w)
    BY <1>4 DEF Dies
  <2>4. CASE UNCHANGED disk
    BY <1>1, <2>1, <2>2, <2>4, OffType, EndSound
  <2>5. CASE ~UNCHANGED disk
    <3>1. /\ worker[w].step \in {"clear", "transfer", "remove"}
          /\ \A i \in Items : i # worker[w].next => disk'[i] = disk[i]
      BY <2>3, <2>5, HalfwayGoes
    <3>2. order.action \in {"copy", "move"} => Kept(disk'[worker[w].next])
      BY <2>3, <3>1, HalfwayKept
    <3>3. NothingLost' /\ CompletedIsTrue' /\ SuccessIsWhole'
      BY <1>1, <2>1, <2>2, <3>1, <3>2, OthersKept
    <3>4. QED
      BY <1>1, <2>1, <2>2, <3>3, OffType, WorkerSound
  <2>6. QED
    BY <2>4, <2>5
<1>5. QED
  BY <1>2, <1>3, <1>4

LEMMA WorkSound ==
  ASSUME Typed, Sound, NEW w \in Workers, Work(w) \/ Mishap(w) PROVE Sound'
  BY BeginSound, LookSound, ExamineSound, TransferSound, ArchiveSound, RemoveSound,
     FailsSound, RecordSound, ReplaceSound, FinishSound, EndsSound DEF Work, Mishap

-----------------------------------------------------------------------------
(* Who carries the operation *)

\* What a request's step writes.
LEMMA ServeWrites ==
  ASSUME Typed, NEW p \in Pages, Request(p) \/ Serve(p) \/ PageDies(p), ~Spawn(p)
  PROVE  /\ UNCHANGED <<order, disk, archive, worker>> /\ hist'.overlap = hist.overlap
         /\ row'.done = row.done /\ (row'.status = "success" => row.status = "success")
<1>1. row \in Row /\ hist \in History
  BY DEF Typed, TypeOK
<1>2. CASE Request(p) \/ PageDies(p)
  <2>1. UNCHANGED <<order, disk, archive, worker, row>>
    BY <1>2 DEF Request, Ask, AskPause, AskCancel, AskResume, PageDies
  <2>2. hist'.overlap = hist.overlap
    BY <1>1, <1>2 DEF Request, Ask, AskPause, AskCancel, AskResume, PageDies, History
  <2>3. QED
    BY <2>1, <2>2
<1>3. CASE Pause(p) \/ Cancel(p)
  BY <1>1, <1>3 DEF Pause, Cancel, Row
<1>4. CASE Settle(p) \/ Start(p)
  <2>1. UNCHANGED <<order, disk, archive, worker>> /\ hist'.overlap = hist.overlap
    BY <1>1, <1>4 DEF Settle, Start, History
  <2>2. row'.done = row.done /\ row'.status \in {"cancelled", "running"}
    BY <1>1, <1>4 DEF Settle, Start, Row
  <2>3. QED
    BY <2>1, <2>2
<1>5. QED
  BY <1>2, <1>3, <1>4 DEF Serve

\* A worker's step leaves no status but its own verdict, when it ends.
LEMMA WorkWrites ==
  ASSUME Typed, NEW w \in Workers, Work(w) \/ Mishap(w)
  PROVE  /\ Live(w) /\ UNCHANGED page
         /\ hist'.overlap = hist.overlap /\ hist'.stale = hist.stale
         /\ \A v \in Workers : v # w => worker'[v] = worker[v]
         /\ row'.status = row.status \/ row'.status = "running" \/ worker'[w].step = "off"
<1>1. Live(w) /\ UNCHANGED page
  BY DEF Work, Mishap, Live, Boot, PrepareSkipped, Prepare, NoneLeft, Look, Stop, ExamineMissing,
     ExamineSkipped, Examine, Clear, Transfer, TransferMissing, AddToArchive, Interrupt, Remove,
     Record, Replace, Finish, Fail, ItemFails, Locked, Dies
<1>2. \E x : worker' = [worker EXCEPT ![w] = x]
  BY DEF Work, Mishap, Erred, Boot, PrepareSkipped, Prepare, NoneLeft, Look, Stop, ExamineMissing,
     ExamineSkipped, Examine, Clear, Transfer, TransferMissing, AddToArchive, Interrupt, Remove,
     Record, Replace, Finish, Fail, ItemFails, Locked, Dies
<1>3. \A v \in Workers : v # w => worker'[v] = worker[v]
  BY <1>2 DEF Typed, TypeOK
<1>4. hist'.overlap = hist.overlap /\ hist'.stale = hist.stale
  <2>1. UNCHANGED hist \/ hist' = [hist EXCEPT !.dead = TRUE]
    BY DEF Work, Mishap, Boot, PrepareSkipped, Prepare, NoneLeft, Look, Stop, ExamineMissing,
       ExamineSkipped, Examine, Clear, Transfer, TransferMissing, AddToArchive, Interrupt, Remove,
       Record, Replace, Finish, Fail, ItemFails, Locked, Dies
  <2>2. QED
    BY <2>1, Seen DEF History
<1>5. row'.status = row.status \/ row'.status = "running" \/ worker'[w].step = "off"
  <2>1. \/ UNCHANGED row \/ \E d : row' = [row EXCEPT !.done = d]
        \/ row' = [row EXCEPT !.status = "running"]
        \/ worker' = [worker EXCEPT ![w] = Off]
    BY DEF Work, Mishap, Boot, PrepareSkipped, Prepare, NoneLeft, Look, Stop, ExamineMissing,
       ExamineSkipped, Examine, Clear, Transfer, TransferMissing, AddToArchive, Interrupt, Remove,
       Record, Replace, Finish, Fail, ItemFails, Locked, Dies
  <2>2. row \in Row
    BY Seen
  <2>3. QED
    BY <2>1, <2>2, OffType DEF Row, Typed, TypeOK
<1>6. QED
  BY <1>1, <1>3, <1>4, <1>5

LEMMA WorkCarried ==
  ASSUME Typed, Carried, OneWorker, NEW w \in Workers, Work(w) \/ Mishap(w)
  PROVE  Carried'
<1>1. /\ Live(w) /\ UNCHANGED page
      /\ \A v \in Workers : v # w => worker'[v] = worker[v]
      /\ row'.status = row.status \/ row'.status = "running" \/ worker'[w].step = "off"
  BY WorkWrites
<1>2. \A p \in Pages : page[p].step # "spawn" /\ ~(page[p].step = "start" /\ page[p].status = "running")
  BY <1>1 DEF Carried
<1>3. row.status = "running"
  BY <1>1 DEF Carried
<1>4. \A v \in Workers : v # w => worker'[v].step = "off"
  BY <1>1 DEF OneWorker, Live
<1>5. row'.status # "running" => \A v \in Workers : ~Live(v)'
  BY <1>1, <1>3, <1>4 DEF Live
<1>6. QED
  BY <1>1, <1>2, <1>5 DEF Carried

LEMMA ServeCarried ==
  ASSUME Typed, Carried, NEW p \in Pages, Request(p) \/ Serve(p) \/ PageDies(p),
         ~hist.stale'
  PROVE  Carried' /\ ~hist.stale /\ (hist'.overlap = hist.overlap)
<1>1. row \in Row /\ page \in [Pages -> PageState] /\ hist \in History
  BY DEF Typed, TypeOK
<1>2. Resting.step = "idle"
  BY DEF Resting
<1>3. CASE Request(p)
  <2>1. PICK st \in {"pause", "cancel", "start"} :
          /\ page' = [page EXCEPT ![p] = [step |-> st, status |-> row.status]]
          /\ st = "start" => row.status # "running"
          /\ UNCHANGED <<row, worker, hist>>
    BY <1>3 DEF Request, AskPause, AskCancel, AskResume, Ask
  <2>2. \A q \in Pages : page'[q] = IF q = p THEN [step |-> st, status |-> row.status] ELSE page[q]
    BY <1>1, <2>1
  <2>3. Carried'
    BY <2>1, <2>2 DEF Carried, Live
  <2>4. QED
    BY <2>1, <2>3
<1>4. CASE Pause(p) \/ PageDies(p)
  <2>1. /\ page' = [page EXCEPT ![p] = Resting] /\ UNCHANGED worker
        /\ row' = row \/ row' = [row EXCEPT !.pause = TRUE]
        /\ hist' = hist \/ hist' = [hist EXCEPT !.dead = hist.dead \/ page[p].step \in {"start", "spawn"}]
    BY <1>4 DEF Pause, PageDies
  <2>2. row'.status = row.status /\ hist'.stale = hist.stale /\ hist'.overlap = hist.overlap
    BY <1>1, <2>1 DEF Row, History
  <2>3. \A q \in Pages : page'[q] = IF q = p THEN Resting ELSE page[q]
    BY <1>1, <2>1
  <2>4. Carried'
    BY <1>2, <2>1, <2>2, <2>3 DEF Carried, Live
  <2>5. QED
    BY <2>2, <2>4
<1>5. CASE Cancel(p)
  <2> DEFINE x == IF page[p].status = "paused" THEN [page[p] EXCEPT !.step = "settle"] ELSE Resting
  <2>1. page' = [page EXCEPT ![p] = x] /\ UNCHANGED <<worker, hist>> /\ row' = [row EXCEPT !.cancel = TRUE]
    BY <1>5 DEF Cancel
  <2>2. x.step \in {"settle", "idle"}
    BY <1>1, <1>2 DEF PageState
  <2> HIDE DEF x
  <2>3. row'.status = row.status
    BY <1>1, <2>1 DEF Row
  <2>4. \A q \in Pages : page'[q] = IF q = p THEN x ELSE page[q]
    BY <1>1, <2>1
  <2>5. Carried'
    BY <2>1, <2>2, <2>3, <2>4 DEF Carried, Live
  <2>6. QED
    BY <2>1, <2>5
<1>6. CASE Settle(p)
  <2>1. /\ page' = [page EXCEPT ![p] = Resting] /\ UNCHANGED worker /\ page[p].step = "settle"
        /\ row' = [row EXCEPT !.status = "cancelled"]
        /\ hist' = [hist EXCEPT !.stale = hist.stale \/ row.status # page[p].status]
    BY <1>6 DEF Settle
  <2>2. row'.status = "cancelled" /\ hist'.overlap = hist.overlap
        /\ ~hist.stale /\ row.status = page[p].status
    BY <1>1, <2>1 DEF Row, History
  <2>3. row.status = "paused"
    BY <2>1, <2>2 DEF Typed, Remembered
  <2>4. \A q \in Pages : page'[q] = IF q = p THEN Resting ELSE page[q]
    BY <1>1, <2>1
  <2>5. Carried'
    BY <1>2, <2>1, <2>2, <2>3, <2>4 DEF Carried, Live
  <2>6. QED
    BY <2>2, <2>5
<1>7. CASE Start(p)
  <2> DEFINE x == [step |-> "spawn", status |-> "running"]
  <2>1. /\ page' = [page EXCEPT ![p] = x] /\ UNCHANGED worker /\ page[p].step = "start"
        /\ row' = [row EXCEPT !.status = "running", !.cancel = FALSE, !.pause = FALSE]
        /\ hist' = [hist EXCEPT !.stale = hist.stale \/ row.status # page[p].status]
    BY <1>7 DEF Start
  <2>2. row'.status = "running" /\ hist'.overlap = hist.overlap
        /\ ~hist.stale /\ row.status = page[p].status
    BY <1>1, <2>1 DEF Row, History
  <2>3. /\ \A w \in Workers : ~Live(w)
        /\ \A q \in Pages : /\ page[q].step # "spawn"
                            /\ page[q].step = "start" /\ page[q].status = "running" => q = p
    BY <2>1, <2>2 DEF Carried
  <2>4. x.step = "spawn"
    OBVIOUS
  <2> HIDE DEF x
  <2>5. \A q \in Pages : page'[q] = IF q = p THEN x ELSE page[q]
    BY <1>1, <2>1
  <2>6. Carried'
    BY <2>1, <2>2, <2>3, <2>4, <2>5 DEF Carried, Live
  <2>7. QED
    BY <2>2, <2>6
<1>8. CASE Spawn(p)
  <2>1. /\ page' = [page EXCEPT ![p] = Resting] /\ UNCHANGED row /\ page[p].step = "spawn"
        /\ hist' = [hist EXCEPT !.overlap = hist.overlap \/ \E w \in Workers : Live(w)]
    BY <1>8 DEF Spawn
  <2>2. (\A w \in Workers : ~Live(w)) /\ (\A q \in Pages : page[q].step = "spawn" => q = p)
    BY <2>1 DEF Carried
  <2>3. hist'.overlap = hist.overlap /\ ~hist.stale
    BY <1>1, <2>1, <2>2 DEF History
  <2>4. row.status = "running"
        /\ \A q \in Pages : ~(page[q].step = "start" /\ page[q].status = "running")
    BY <2>1 DEF Carried
  <2>5. \A q \in Pages : page'[q] = IF q = p THEN Resting ELSE page[q]
    BY <1>1, <2>1
  <2>6. Carried'
    BY <1>2, <2>1, <2>2, <2>4, <2>5 DEF Carried
  <2>7. QED
    BY <2>3, <2>6
<1>9. QED
  BY <1>3, <1>4, <1>5, <1>6, <1>7, <1>8 DEF Serve

-----------------------------------------------------------------------------
(* The theorems *)

LEMMA SpawnSound ==
  ASSUME Typed, NEW p \in Pages, Spawn(p), ~hist.overlap => Sound
  PROVE  (hist.overlap => hist'.overlap) /\ (~hist'.overlap => Sound')
<1>1. PICK w \in Workers : worker' = [worker EXCEPT ![w] = [Off EXCEPT !.step = "boot"]]
  BY DEF Spawn
<1>2. [Off EXCEPT !.step = "boot"].step = "boot"
  BY DEF Off
<1>3. \A v \in Workers : worker'[v] = IF v = w THEN [Off EXCEPT !.step = "boot"] ELSE worker[v]
  BY <1>1 DEF Typed, TypeOK
<1>4. hist' = [hist EXCEPT !.overlap = hist.overlap \/ \E v \in Workers : Live(v)]
      /\ UNCHANGED <<order, row, disk, archive>>
  BY DEF Spawn
<1>5. hist'.overlap <=> (hist.overlap \/ \E v \in Workers : Live(v))
  BY <1>4 DEF History, Typed, TypeOK
<1>6. ASSUME ~hist'.overlap PROVE Sound'
  <2>1. ~hist.overlap /\ Sound /\ \A v \in Workers : worker[v].step = "off"
    BY <1>5, <1>6 DEF Live
  <2>2. Truth'
    BY <1>2, <1>3, <2>1 DEF Truth, OneWorker, Live
  <2>3. NothingLost' /\ CompletedIsTrue' /\ SuccessIsWhole'
    <3>1. hist'.overlap = FALSE /\ hist.overlap = FALSE
      BY <1>4, <1>6, <2>1 DEF History, Typed, TypeOK, Live
    <3>2. QED
      BY <1>4, <2>1, <3>1, SameReport DEF Sound
  <2>4. QED
    BY <1>6, <2>2, <2>3 DEF Sound
<1>7. QED
  BY <1>5, <1>6

LEMMA Initially == Init => IInv
<1> SUFFICES ASSUME Init PROVE IInv
  OBVIOUS
<1>1. /\ row = [status |-> "running", done |-> {}, cancel |-> FALSE, pause |-> FALSE]
      /\ worker = [w \in Workers |-> Off] /\ order \in Orders
      /\ hist = [overlap |-> FALSE, stale |-> FALSE, dead |-> FALSE]
      /\ requests = 0 /\ faults = 0
  BY DEF Init
<1>2. PICK there \in SUBSET Items :
        disk = [i \in Items |-> [src |-> TRUE, cut |-> FALSE, at |-> IF i \in there THEN {"old"} ELSE {}]]
  BY DEF Init
<1>3. PICK old \in SUBSET {OldArchive} : archive = [owner |-> Nobody, tmp |-> {}, final |-> old]
  BY DEF Init
<1>4. PICK p \in Pages : page = [q \in Pages |-> IF q = p THEN [Resting EXCEPT !.step = "start"]
                                                          ELSE Resting]
  BY DEF Init
<1>5. /\ [Resting EXCEPT !.step = "start"] = [step |-> "start", status |-> "running"]
      /\ Resting = [step |-> "idle", status |-> "running"]
  BY DEF Resting
<1>6. \A q \in Pages : page[q] = IF q = p THEN [step |-> "start", status |-> "running"]
                                 ELSE [step |-> "idle", status |-> "running"]
  BY <1>4, <1>5
<1>7. \A w \in Workers : worker[w] = Off /\ ~Live(w)
  BY <1>1, OffType DEF Live
<1>8. TypeOK
  <2>1. row \in Row
    BY <1>1 DEF Row, Verdicts
  <2>2. disk \in [Items -> Place]
    <3>1. \A i \in Items : [src |-> TRUE, cut |-> FALSE, at |-> IF i \in there THEN {"old"} ELSE {}] \in Place
      BY DEF Place, Contents
    <3>2. QED
      BY <1>2, <3>1
  <2>3. archive \in Archive
    BY <1>3 DEF Archive
  <2>4. worker \in [Workers -> WorkerState]
    BY <1>1, OffType
  <2>5. page \in [Pages -> PageState]
    <3>1. /\ [step |-> "start", status |-> "running"] \in PageState
          /\ [step |-> "idle", status |-> "running"] \in PageState
      BY DEF PageState, PageSteps
    <3>2. QED
      BY <1>4, <1>5, <3>1
  <2>6. hist \in History /\ requests \in 0..MaxRequests /\ faults \in 0..MaxFaults
    BY <1>1 DEF History
  <2>7. QED
    BY <1>1, <2>1, <2>2, <2>3, <2>4, <2>5, <2>6 DEF TypeOK
<1>9. Within /\ Remembered
  BY <1>6, <1>7, OffType DEF Within, Remembered, AtItem
<1>10. OverlapNeedsStaleRequest
  BY <1>1 DEF OverlapNeedsStaleRequest
<1>11. Carried
  BY <1>1, <1>6, <1>7 DEF Carried
<1>12. Truth
  BY <1>7, OffType DEF Truth, OneWorker
<1>13. NothingLost /\ CompletedIsTrue /\ SuccessIsWhole
  BY <1>1, <1>2 DEF NothingLost, CompletedIsTrue, SuccessIsWhole
<1>14. QED
  BY <1>8, <1>9, <1>10, <1>11, <1>12, <1>13 DEF IInv

LEMMA Inductive == ASSUME IInv, [Next]_vars PROVE IInv'
<1>1. Typed /\ Typed' /\ (~hist.overlap => Sound) /\ (~hist.stale => Carried /\ ~hist.overlap)
      /\ hist \in History
  BY TypesKept DEF IInv, Typed, Sound, OverlapNeedsStaleRequest, TypeOK
<1> SUFFICES (~hist.stale' => Carried' /\ ~hist.overlap') /\ (~hist.overlap' => Sound')
  BY <1>1 DEF IInv, Typed, Sound, OverlapNeedsStaleRequest, NothingLost, CompletedIsTrue, SuccessIsWhole
<1>2. CASE UNCHANGED vars
  <2>1. Sound => Sound'
    BY <1>1, <1>2, PageSound DEF vars
  <2>2. Carried => Carried'
    BY <1>2 DEF vars, Carried, Live
  <2>3. QED
    BY <1>1, <1>2, <2>1, <2>2 DEF vars
<1>3. ASSUME NEW w \in Workers, Work(w) \/ Mishap(w)
      PROVE  (~hist.stale' => Carried' /\ ~hist.overlap') /\ (~hist.overlap' => Sound')
  <2>1. hist'.overlap = hist.overlap /\ hist'.stale = hist.stale
    BY <1>1, <1>3, WorkWrites
  <2>2. Sound => Sound'
    BY <1>1, <1>3, WorkSound
  <2>3. Carried /\ Sound => Carried'
    BY <1>1, <1>3, WorkCarried DEF Sound, Truth
  <2>4. QED
    BY <1>1, <2>1, <2>2, <2>3
<1>4. ASSUME NEW p \in Pages, Request(p) \/ Serve(p) \/ PageDies(p)
      PROVE  (~hist.stale' => Carried' /\ ~hist.overlap') /\ (~hist.overlap' => Sound')
  <2>1. ~hist.overlap' => Sound'
    <3>1. CASE Spawn(p)
      BY <1>1, <3>1, SpawnSound
    <3>2. CASE ~Spawn(p)
      BY <1>1, <1>4, <3>2, ServeWrites, PageSound
    <3>3. QED
      BY <3>1, <3>2
  <2>2. ASSUME ~hist.stale' PROVE Carried' /\ ~hist.overlap'
    <3>1. hist.stale => hist.stale'
      BY <1>1, <1>4 DEF Request, Serve, Ask, AskPause, AskCancel, AskResume, Pause, Cancel, Settle,
         Start, Spawn, PageDies, History
    <3>2. Carried
      BY <1>1, <2>2, <3>1
    <3>3. Carried' /\ ~hist.stale /\ hist'.overlap = hist.overlap
      BY <1>1, <1>4, <2>2, <3>2, ServeCarried
    <3>4. QED
      BY <1>1, <3>3
  <2>3. QED
    BY <2>1, <2>2
<1>5. QED
  BY <1>2, <1>3, <1>4 DEF Next

\* The invariant holds throughout, however requests and workers interleave and whatever fails.
THEOREM Invariance == Spec => []IInv
<1>1. IInv /\ [Next]_vars => IInv'
  BY Inductive
<1>2. QED
  BY <1>1, Initially, PTL DEF Spec

\* The variables keep their types: a status, a step, a set of items are never anything else.
THEOREM TypeCorrect == Spec => []TypeOK
<1>1. IInv => TypeOK
  BY DEF IInv
<1>2. QED
  BY <1>1, Invariance, PTL

\* Two workers are alive on one operation only after a request has stored its status over one
\* that had changed since it loaded the row (pause, cancel and resume take no lock).
THEOREM OverlapsAreStale == Spec => []OverlapNeedsStaleRequest
<1>1. IInv => OverlapNeedsStaleRequest
  BY DEF IInv
<1>2. QED
  BY <1>1, Invariance, PTL

\* Under one worker at a time, an item that is copied or moved is whole at its source or its
\* target, whatever fails, stops or dies between examining, clearing, transferring and removing,
\* but for a folder that was half removed and overwrites its copy.
THEOREM ItemsSurvive == Spec => []NothingLost
<1>1. IInv => NothingLost
  BY DEF IInv
<1>2. QED
  BY <1>1, Invariance, PTL

\* Under one worker at a time, completed_sources and a success tell what was done, across
\* pauses, resumptions by other workers, crashes and lost writes.
THEOREM ReportsAreTrue == Spec => []ReportIsTrue
<1>1. IInv => ReportIsTrue
  BY DEF IInv, ReportIsTrue
<1>2. QED
  BY <1>1, Invariance, PTL

-----------------------------------------------------------------------------
(* What a step may never do *)

\* At an item, a worker that is alone remembers the progress that the row has.
StoredIsSeen ==
  ~hist.overlap => \A w \in Workers : worker[w].step \in AtItem => row.done \subseteq worker[w].seen

\* The files that a worker's step touches are those of its item; the progress it stores is
\* its own or what it has seen.
LEMMA WorkTouches ==
  ASSUME Typed, NEW w \in Workers, Work(w) \/ Mishap(w)
  PROVE  /\ \/ UNCHANGED disk
            \/ /\ worker[w].step \in {"clear", "transfer", "remove"}
               /\ \A i \in Items : i # worker[w].next => disk'[i] = disk[i]
         /\ \/ row'.done = row.done
            \/ Record(w)
            \/ worker[w].step = "prepare"
            \/ worker[w].step = "finish" /\ order.action = "uncompress"
         /\ worker'[w].step \in AtItem =>
              \/ worker[w].step \in AtItem /\ worker'[w].seen = worker[w].seen /\ row'.done = row.done
              \/ worker'[w].seen = row.done /\ row'.done = row.done
<1>1. worker \in [Workers -> WorkerState] /\ disk \in [Items -> Place] /\ row \in Row
  BY DEF Typed, TypeOK
<1>2. worker[w] \in WorkerState
  BY <1>1
<1>3. CASE Boot(w)
  BY <1>1, <1>2, <1>3 DEF Boot, AtItem, WorkerState, Row
<1>4. CASE PrepareSkipped(w)
  BY <1>1, <1>2, <1>4 DEF PrepareSkipped, AtItem, WorkerState
<1>5. CASE Prepare(w)
  BY <1>1, <1>2, <1>5 DEF Prepare, AtItem, WorkerState, Row
<1>6. CASE NoneLeft(w)
  BY <1>1, <1>2, <1>6 DEF NoneLeft, AtItem, WorkerState
<1>7. CASE Look(w)
  BY <1>1, <1>2, <1>7 DEF Look, AtItem, WorkerState
<1>8. CASE Stop(w)
  BY <1>1, <1>2, <1>8 DEF Stop, AtItem, WorkerState, Off, Row
<1>9. CASE ExamineMissing(w)
  BY <1>1, <1>2, <1>9 DEF ExamineMissing, AtItem, WorkerState
<1>10. CASE ExamineSkipped(w)
  BY <1>1, <1>2, <1>10 DEF ExamineSkipped, AtItem, WorkerState
<1>11. CASE Examine(w)
  BY <1>1, <1>2, <1>11 DEF Examine, AtItem, WorkerState
<1>12. CASE TransferMissing(w)
  BY <1>1, <1>2, <1>12 DEF TransferMissing, AtItem, WorkerState, Erred
<1>13. CASE AddToArchive(w)
  BY <1>1, <1>2, <1>13 DEF AddToArchive, AtItem, WorkerState
<1>16. CASE Clear(w)
  <2>1. worker[w].step \in AtItem /\ UNCHANGED row /\ worker'[w].seen = worker[w].seen
    <3>1. worker[w].step \in AtItem /\ UNCHANGED row
      BY <1>16 DEF Clear, AtItem
    <3>2. CASE Erred(w)
      BY <1>1, <1>2, <3>1, <3>2 DEF Erred, WorkerState
    <3>3. CASE worker' = [worker EXCEPT ![w].step = "transfer"]
      BY <1>1, <1>2, <3>1, <3>3 DEF WorkerState
    <3>4. QED
      BY <1>16, <3>2, <3>3 DEF Clear
  <2>2. \A i \in Items : i # worker[w].next => disk'[i] = disk[i]
    BY <1>1, <1>16 DEF Clear
  <2>3. QED
    BY <1>16, <2>1, <2>2 DEF Clear
<1>17. CASE Transfer(w)
  <2>1. worker[w].step \in AtItem /\ UNCHANGED row /\ worker'[w].seen = worker[w].seen
    BY <1>1, <1>2, <1>17 DEF Transfer, AtItem, WorkerState
  <2>2. \A i \in Items : i # worker[w].next => disk'[i] = disk[i]
    BY <1>1, <1>17 DEF Transfer
  <2>3. QED
    BY <1>17, <2>1, <2>2 DEF Transfer
<1>18. CASE ItemFails(w)
  <2>1. worker[w].step \in AtItem /\ UNCHANGED row /\ worker'[w].seen = worker[w].seen
    BY <1>1, <1>2, <1>18 DEF ItemFails, AtItem, WorkerState, Erred
  <2>2. disk' \in Halfway(w)
    BY <1>18 DEF ItemFails
  <2>3. QED
    BY <2>1, <2>2, HalfwayGoes
<1>19. CASE Interrupt(w)
  <2>1. worker[w].step \in AtItem /\ UNCHANGED row /\ worker'[w].seen = worker[w].seen
    BY <1>1, <1>2, <1>19 DEF Interrupt, AtItem, WorkerState
  <2>2. disk' \in Halfway(w)
    BY <1>19 DEF Interrupt
  <2>3. QED
    BY <2>1, <2>2, HalfwayGoes
<1>20. CASE Remove(w)
  <2>1. worker[w].step \in AtItem /\ UNCHANGED row /\ worker'[w].seen = worker[w].seen
    BY <1>1, <1>2, <1>20 DEF Remove, AtItem, WorkerState
  <2>2. \A i \in Items : i # worker[w].next => disk'[i] = disk[i]
    BY <1>1, <1>20 DEF Remove
  <2>3. QED
    BY <1>20, <2>1, <2>2 DEF Remove
<1>21. CASE Record(w)
  BY <1>1, <1>2, <1>21 DEF Record, AtItem, WorkerState
<1>22. CASE Replace(w)
  BY <1>1, <1>2, <1>22 DEF Replace, AtItem, WorkerState
<1>23. CASE Finish(w)
  BY <1>1, <1>2, <1>23 DEF Finish, AtItem, WorkerState, Off, Row
<1>24. CASE Fail(w)
  BY <1>1, <1>2, <1>24 DEF Fail, AtItem, WorkerState, Off, Row
<1>25. CASE Locked(w)
  BY <1>1, <1>2, <1>25 DEF Locked, AtItem, WorkerState
<1>26. CASE Dies(w)
  <2>1. UNCHANGED row /\ worker'[w].step \notin AtItem /\ disk' \in Halfway(w)
    BY <1>1, <1>2, <1>26 DEF Dies, AtItem, Off
  <2>2. QED
    BY <2>1, HalfwayGoes
<1>27. QED
  BY <1>3, <1>4, <1>5, <1>6, <1>7, <1>8, <1>9, <1>10, <1>11, <1>12, <1>13, <1>16,
     <1>17, <1>18, <1>19, <1>20, <1>21, <1>22, <1>23, <1>24, <1>25, <1>26 DEF Work, Mishap

\* A resume finds an operation that has not ended as a success.
Resumable == \A p \in Pages : page[p].step = "start" => page[p].status # "success"

LEMMA ResumableKept ==
  ASSUME Typed, Resumable, [Next]_vars
  PROVE  Resumable'
<1>1. page \in [Pages -> PageState] /\ Resting.step = "idle"
  BY DEF Typed, TypeOK, Resting
<1>2. CASE UNCHANGED vars
  BY <1>2 DEF vars, Resumable
<1>3. ASSUME NEW w \in Workers, Work(w) \/ Mishap(w) PROVE Resumable'
  BY <1>3, WorkWrites DEF Resumable
<1>4. ASSUME NEW p \in Pages, Request(p) \/ Serve(p) \/ PageDies(p) PROVE Resumable'
  <2>1. CASE AskResume(p)
    BY <1>1, <2>1 DEF AskResume, Ask, Resumable
  <2>2. CASE AskPause(p) \/ AskCancel(p)
    BY <1>1, <2>2 DEF AskPause, AskCancel, Ask, Resumable
  <2>3. CASE Serve(p) \/ PageDies(p)
    BY <1>1, <2>3 DEF Serve, PageDies, Pause, Cancel, Settle, Start, Spawn, Resumable, PageState
  <2>4. QED
    BY <1>4, <2>1, <2>2, <2>3 DEF Request
<1>5. QED
  BY <1>2, <1>3, <1>4 DEF Next

LEMMA StoredIsSeenKept ==
  ASSUME IInv, StoredIsSeen, [Next]_vars
  PROVE  StoredIsSeen'
<1>1. Typed /\ (~hist.overlap => Truth)
  BY DEF IInv, Typed
<1>2. CASE UNCHANGED vars
  BY <1>2 DEF vars, StoredIsSeen
<1>3. ASSUME NEW w \in Workers, Work(w) \/ Mishap(w), ~hist'.overlap,
             NEW v \in Workers, worker'[v].step \in AtItem
      PROVE  row'.done \subseteq worker'[v].seen
  <2>1. /\ Live(w) /\ ~hist.overlap
        /\ \A u \in Workers : u # w => worker'[u] = worker[u]
    BY <1>1, <1>3, WorkWrites
  <2>2. v = w
    <3>1. v # w => Live(v)
      BY <1>3, <2>1 DEF Live, AtItem
    <3>2. QED
      BY <1>1, <2>1, <3>1 DEF Truth, OneWorker
  <2>3. QED
    BY <1>1, <1>3, <2>1, <2>2, WorkTouches DEF StoredIsSeen
<1>4. ASSUME NEW p \in Pages, Request(p) \/ Serve(p) \/ PageDies(p), ~hist'.overlap,
             NEW v \in Workers, worker'[v].step \in AtItem
      PROVE  row'.done \subseteq worker'[v].seen
  <2>1. CASE Spawn(p)
    <3>1. PICK w \in Workers : worker' = [worker EXCEPT ![w] = [Off EXCEPT !.step = "boot"]]
      BY <2>1 DEF Spawn
    <3>2. v # w
      BY <1>1, <1>4, <3>1 DEF Typed, TypeOK, AtItem, Off
    <3>3. worker'[v] = worker[v] /\ UNCHANGED row /\ (hist.overlap => hist'.overlap)
      BY <1>1, <2>1, <3>1, <3>2 DEF Spawn, Typed, TypeOK, History
    <3>4. QED
      BY <1>4, <3>3 DEF StoredIsSeen
  <2>2. CASE ~Spawn(p)
    BY <1>1, <1>4, <2>2, ServeWrites DEF StoredIsSeen
  <2>3. QED
    BY <2>1, <2>2
<1>5. QED
  BY <1>2, <1>3, <1>4 DEF Next, StoredIsSeen

\* A step under one worker at a time.
LEMMA DoneStays ==
  ASSUME IInv, StoredIsSeen, [Next]_vars, ~hist'.overlap, Incremental
  PROVE  /\ row.done \subseteq row'.done
         /\ \A i \in row.done : disk'[i] = disk[i]
<1>1. Typed /\ (~hist.overlap => Truth) /\ row.done \subseteq Items /\ order.action # "uncompress"
  BY DEF IInv, Typed, TypeOK, Row, Incremental
<1>2. CASE UNCHANGED vars
  BY <1>2 DEF vars
<1>3. ASSUME NEW w \in Workers, Work(w) \/ Mishap(w)
      PROVE  row.done \subseteq row'.done /\ \A i \in row.done : disk'[i] = disk[i]
  <2>1. Live(w) /\ ~hist.overlap
    BY <1>1, <1>3, WorkWrites
  <2>2. worker[w].step \notin {"off", "boot", "fail"} => Knows(w)
    BY <1>1, <2>1 DEF Truth
  <2>3. worker[w].step # "prepare"
    BY <2>2 DEF Knows
  <2>4. /\ worker[w].step \in AtItem => /\ row.done \subseteq worker[w].completed
                                       /\ worker[w].next \notin row.done
                                       /\ row.done \subseteq worker[w].seen
    BY <2>1, <2>2 DEF Knows, AtItem, InLoop, StoredIsSeen
  <2>5. \A i \in row.done : disk'[i] = disk[i]
    BY <1>1, <1>3, <2>4, WorkTouches DEF AtItem
  <2>6. row.done \subseteq row'.done
    <3>1. CASE Record(w)
      <4>1. row'.done = IF worker[w].ok THEN worker[w].completed \cup {worker[w].next}
                        ELSE worker[w].seen
        BY <1>1, <3>1 DEF Record, Typed, TypeOK, Row
      <4>2. worker[w].step \in AtItem
        BY <3>1 DEF Record, AtItem
      <4>3. QED
        BY <2>4, <4>1, <4>2
    <3>2. CASE ~Record(w)
      BY <1>1, <1>3, <2>3, <3>2, WorkTouches
    <3>3. QED
      BY <3>1, <3>2
  <2>7. QED
    BY <2>5, <2>6
<1>4. ASSUME NEW p \in Pages, Request(p) \/ Serve(p) \/ PageDies(p)
      PROVE  row.done \subseteq row'.done /\ \A i \in row.done : disk'[i] = disk[i]
  <2>1. CASE Spawn(p)
    BY <2>1 DEF Spawn
  <2>2. CASE ~Spawn(p)
    BY <1>1, <1>4, <2>2, ServeWrites
  <2>3. QED
    BY <2>1, <2>2
<1>5. QED
  BY <1>2, <1>3, <1>4 DEF Next

\* Across pauses, resumes, crashes and lost writes, what a copy, move or delete lists as
\* completed stays listed and no later worker touches it, unless two workers met.
THEOREM FinishedIsNotRedone == Spec => DoneStaysDone
<1>1. Init => StoredIsSeen
  BY DEF Init, StoredIsSeen, AtItem, Off
<1>2. IInv /\ StoredIsSeen /\ [Next]_vars => StoredIsSeen'
  BY StoredIsSeenKept
<1>3. IInv /\ StoredIsSeen /\ [Next]_vars =>
        [~hist.overlap' /\ Incremental =>
           /\ row.done \subseteq row.done'
           /\ \A i \in row.done : disk'[i] = disk[i]]_vars
  BY DoneStays
<1>4. QED
  BY <1>1, <1>2, <1>3, Invariance, PTL DEF Spec, DoneStaysDone

\* While every request finds the status it has loaded, a success is final, and what rests
\* goes on by a resume only, or is cancelled while it is paused.
THEOREM VerdictsStay == Spec => RestsAreKept
<1>1. Init => Resumable
  BY DEF Init, Resumable, Resting
<1>2. IInv /\ Resumable /\ [Next]_vars => Resumable'
  BY ResumableKept DEF IInv, Typed
<1>3. IInv /\ Resumable /\ [Next]_vars =>
        [~hist.stale' /\ row.status # "running" =>
           \/ row'.status = row.status
           \/ row.status \in {"paused", "failed", "cancelled"} /\ row'.status = "running"
           \/ row.status = "paused" /\ row'.status = "cancelled"]_vars
  <2> SUFFICES ASSUME IInv, Resumable, Next, ~hist.stale', row.status # "running"
               PROVE  \/ row'.status = row.status
                      \/ row.status \in {"paused", "failed", "cancelled"} /\ row'.status = "running"
                      \/ row.status = "paused" /\ row'.status = "cancelled"
    OBVIOUS
  <2>1. Typed /\ Remembered /\ row \in Row /\ hist \in History
    BY DEF IInv, Typed, TypeOK
  <2>2. ASSUME NEW w \in Workers, Work(w) \/ Mishap(w) PROVE FALSE
    <3>1. Live(w) /\ ~hist.stale
      BY <2>1, <2>2, WorkWrites
    <3>2. QED
      BY <3>1 DEF IInv, Carried
  <2>3. PICK p \in Pages : Request(p) \/ Serve(p) \/ PageDies(p)
    BY <2>2 DEF Next
  <2>4. CASE Request(p) \/ Pause(p) \/ Cancel(p) \/ Spawn(p) \/ PageDies(p)
    BY <2>1, <2>4 DEF Request, AskPause, AskCancel, AskResume, Ask, Pause, Cancel, Spawn, PageDies, Row
  <2>5. CASE Settle(p)
    <3>1. row'.status = "cancelled" /\ row.status = page[p].status
      BY <2>1, <2>5 DEF Settle, Row, History
    <3>2. QED
      BY <2>1, <2>5, <3>1 DEF Settle, Remembered
  <2>6. CASE Start(p)
    <3>1. row'.status = "running" /\ row.status = page[p].status
      BY <2>1, <2>6 DEF Start, Row, History
    <3>2. QED
      BY <2>1, <2>6, <3>1 DEF Start, Resumable, Row, Verdicts
  <2>7. QED
    BY <2>3, <2>4, <2>5, <2>6 DEF Serve
<1>4. QED
  BY <1>1, <1>2, <1>3, Invariance, PTL DEF Spec, RestsAreKept
=============================================================================
