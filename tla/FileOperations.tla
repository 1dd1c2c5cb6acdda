--------------------------- MODULE FileOperations ---------------------------
(***************************************************************************)
(* One operation of the file manager: a row of FileOperation, the detached *)
(* worker that carries it out item by item, and the requests that pause,   *)
(* cancel and resume it by writing to the row.                             *)
(*                                                                         *)
(* Row and files are shared by processes that take no lock.  A request     *)
(* loads the row and writes it in a later statement; a worker reads it     *)
(* before every item and writes it afterwards; the state of the files is   *)
(* examined in one statement and changed in the next.  No code watches for *)
(* workers that died.                                                      *)
(*                                                                         *)
(* An item is a file, or a folder that is not merged with another.  What   *)
(* other programs do to the files meanwhile is left out.                   *)
(***************************************************************************)
EXTENDS Naturals, FiniteSets

CONSTANTS
  Total,        \* how many items are selected
  Workers,      \* processes that can run at a time (each can run again)
  Pages,        \* request threads
  Nobody,       \* no worker
  MaxRequests,  \* bounds the requests of one behaviour
  MaxFaults     \* bounds its crashes, locked databases and failed transfers

ASSUME TotalAssumption == Total \in Nat \ {0}
ASSUME NobodyAssumption == Nobody \notin Workers
ASSUME BoundsAssumption == MaxRequests \in Nat /\ MaxFaults \in Nat

VARIABLES
  order,    \* what was asked for: action, conflict policy, transfer method
  row,      \* the FileOperation row
  disk,     \* for each item, its source and what lies at its target
  archive,  \* the archive that compress and download build, and its .tmp
  worker,   \* the worker processes
  page,     \* the request threads
  hist,     \* history: what has happened to the operation
  requests, \* requests so far
  faults    \* faults so far

vars == <<order, row, disk, archive, worker, page, hist, requests, faults>>

Items == 1..Total

-----------------------------------------------------------------------------
(* Types *)

Actions == {"copy", "move", "delete", "uncompress", "compress", "download"}

Policies == {"overwrite", "skip", "rename"}

\* Downloads and deletes have no policy of their own; only copy and move use
\* rsync.  (uncompress: the items are the members of the one archive.)
Orders == {o \in [action : Actions, policy : Policies, rsync : BOOLEAN] :
             /\ o.action \in {"delete", "download"} => o.policy = "overwrite"
             /\ o.rsync => o.action \in {"copy", "move"}}

Verdicts == {"paused", "success", "failed", "cancelled"}

Row == [status : Verdicts \cup {"running"}, done : SUBSET Items,
        cancel : BOOLEAN, pause : BOOLEAN]

\* What lies under the target's name, and under the names beside it that the
\* policy "rename" finds: an older file, something that is not whole (an unfinished
\* copy, what a removal has left), the item itself.
Contents == {"old", "part", "new"}

\* cut: a removal of the source, a folder, has stopped half-way.
Place == [src : BOOLEAN, cut : BOOLEAN, at : SUBSET Contents]

OldArchive == 0

Archive == [owner : Workers \cup {Nobody}, tmp : SUBSET Items,
            final : SUBSET (Items \cup {OldArchive})]

WorkerSteps == {"off", "boot", "prepare", "look", "stop", "examine", "clear",
                "transfer", "remove", "record", "replace", "finish", "fail"}

\* completed: the worker's own set; seen: completed_sources of the row as it
\* last read it; ok: how the current item went; verdict: why it stops.
WorkerState == [step : WorkerSteps, next : 1..(Total + 1),
                completed : SUBSET Items, seen : SUBSET Items,
                ok : BOOLEAN, errors : BOOLEAN, verdict : {"paused", "cancelled"}]

PageSteps == {"idle", "pause", "cancel", "settle", "start", "spawn"}

\* status: what the request's copy of the row says.
PageState == [step : PageSteps, status : Verdicts \cup {"running"}]

\* overlap: two workers were alive at once; stale: a request stored a status
\* over one that was not the one it had loaded; dead: a worker or a request
\* ended without storing the status it owed.
History == [overlap : BOOLEAN, stale : BOOLEAN, dead : BOOLEAN]

TypeOK ==
  /\ order \in Orders
  /\ row \in Row
  /\ disk \in [Items -> Place]
  /\ archive \in Archive
  /\ worker \in [Workers -> WorkerState]
  /\ page \in [Pages -> PageState]
  /\ hist \in History
  /\ requests \in 0..MaxRequests
  /\ faults \in 0..MaxFaults

-----------------------------------------------------------------------------
(* State functions *)

Off == [step |-> "off", next |-> 1, completed |-> {}, seen |-> {},
        ok |-> TRUE, errors |-> FALSE, verdict |-> "paused"]

Resting == [step |-> "idle", status |-> "running"]

Live(w) == worker[w].step # "off"

\* The actions that go through the sources and remember which are done.
Incremental == order.action \in {"copy", "move", "delete"}

Archiving == order.action \in {"compress", "download"}

\* The target after a transfer, whole or cut off: a renamed target stands
\* beside what was there, any other replaces it.
With(at, content) == IF order.policy = "rename" THEN at \cup {content} ELSE {content}

\* What the worker's step may leave when it does not come to its end: a part at the
\* target, or part of what it was to remove.
Halfway(w) ==
  LET i == worker[w].next IN
  CASE worker[w].step = "transfer" /\ ~Archiving ->
         {disk, [disk EXCEPT ![i].at = With(@, "part")]}
    [] worker[w].step = "clear" -> {disk, [disk EXCEPT ![i].at = {"part"}]}
    [] worker[w].step = "remove" -> {disk, [disk EXCEPT ![i].cut = TRUE]}
    [] OTHER -> {disk}

Fault == faults < MaxFaults /\ faults' = faults + 1

-----------------------------------------------------------------------------
Init ==
  /\ order \in Orders
  /\ row = [status |-> "running", done |-> {}, cancel |-> FALSE, pause |-> FALSE]
  /\ \E there \in SUBSET Items :
       disk = [i \in Items |-> [src |-> TRUE, cut |-> FALSE, at |-> IF i \in there THEN {"old"} ELSE {}]]
  /\ \E old \in SUBSET {OldArchive} :
       archive = [owner |-> Nobody, tmp |-> {}, final |-> old]
  /\ worker = [w \in Workers |-> Off]
  \* create_file_operation has stored the row; its request goes on to start it.
  /\ \E p \in Pages :
       page = [q \in Pages |-> IF q = p THEN [Resting EXCEPT !.step = "start"]
                                        ELSE Resting]
  /\ hist = [overlap |-> FALSE, stale |-> FALSE, dead |-> FALSE]
  /\ requests = 0
  /\ faults = 0

-----------------------------------------------------------------------------
(* Requests *)

\* A request loads the row; the status it finds must allow what it asks.
Ask(p, step, statuses) ==
  /\ page[p].step = "idle"
  /\ requests < MaxRequests
  /\ row.status \in statuses
  /\ page' = [page EXCEPT ![p] = [step |-> step, status |-> row.status]]
  /\ requests' = requests + 1
  /\ UNCHANGED <<order, row, disk, archive, worker, hist, faults>>

AskPause(p) == Ask(p, "pause", {"running"})

AskCancel(p) == Ask(p, "cancel", {"running", "paused"})

\* Mutant of AskResume: what start_background_file_operation accepts.
AskResumeAny(p) == Ask(p, "start", {"running", "paused", "failed", "cancelled"})

AskResume(p) == Ask(p, "start", {"paused", "failed", "cancelled"})

\* pause_file_operation: stores the request.
Pause(p) ==
  /\ page[p].step = "pause"
  /\ row' = [row EXCEPT !.pause = TRUE]
  /\ page' = [page EXCEPT ![p] = Resting]
  /\ UNCHANGED <<order, disk, archive, worker, hist, requests, faults>>

\* cancel_file_operation: stores the request; an operation that was paused
\* when it was loaded is then cancelled on the spot.
Cancel(p) ==
  /\ page[p].step = "cancel"
  /\ row' = [row EXCEPT !.cancel = TRUE]
  /\ page' = [page EXCEPT ![p] = IF @.status = "paused" THEN [@ EXCEPT !.step = "settle"]
                                                         ELSE Resting]
  /\ UNCHANGED <<order, disk, archive, worker, hist, requests, faults>>

\* ... finalize_file_operation("cancelled").
Settle(p) ==
  /\ page[p].step = "settle"
  /\ row' = [row EXCEPT !.status = "cancelled"]
  /\ hist' = [hist EXCEPT !.stale = @ \/ row.status # page[p].status]
  /\ page' = [page EXCEPT ![p] = Resting]
  /\ UNCHANGED <<order, disk, archive, worker, requests, faults>>

\* start_background_file_operation: clears both requests and stores "running".
Start(p) ==
  /\ page[p].step = "start"
  /\ row' = [row EXCEPT !.status = "running", !.cancel = FALSE, !.pause = FALSE]
  /\ hist' = [hist EXCEPT !.stale = @ \/ row.status # page[p].status]
  /\ page' = [page EXCEPT ![p] = [step |-> "spawn", status |-> "running"]]
  /\ UNCHANGED <<order, disk, archive, worker, requests, faults>>

\* ... and its Popen.
Spawn(p) ==
  /\ page[p].step = "spawn"
  /\ \E w \in Workers :
       /\ ~Live(w)
       /\ worker' = [worker EXCEPT ![w] = [Off EXCEPT !.step = "boot"]]
  /\ hist' = [hist EXCEPT !.overlap = @ \/ \E w \in Workers : Live(w)]
  /\ page' = [page EXCEPT ![p] = Resting]
  /\ UNCHANGED <<order, row, disk, archive, requests, faults>>

\* The web container stops, the database is locked, or no process can be made.
PageDies(p) ==
  /\ page[p].step # "idle"
  /\ Fault
  /\ hist' = [hist EXCEPT !.dead = @ \/ page[p].step \in {"start", "spawn"}]
  /\ page' = [page EXCEPT ![p] = Resting]
  /\ UNCHANGED <<order, row, disk, archive, worker, requests>>

-----------------------------------------------------------------------------
(* The worker: execute_file_operation *)

\* run_file_operation loads the row, and the operation is "running" again.
Boot(w) ==
  /\ worker[w].step = "boot"
  /\ row' = [row EXCEPT !.status = "running"]
  /\ worker' = [worker EXCEPT ![w] =
       [@ EXCEPT !.step = IF Incremental THEN "look" ELSE "prepare",
                 !.completed = IF Incremental THEN row.done ELSE {},
                 !.seen = row.done]]
  /\ UNCHANGED <<order, disk, archive, page, hist, requests, faults>>

\* An archive that exists and may neither be replaced nor renamed ends a
\* compression with success, with the row's progress as it was.
PrepareSkipped(w) ==
  /\ worker[w].step = "prepare"
  /\ order.action = "compress" /\ order.policy = "skip" /\ archive.final # {}
  /\ worker' = [worker EXCEPT ![w].step = "finish"]
  /\ UNCHANGED <<order, row, disk, archive, page, hist, requests, faults>>

\* The .tmp of an earlier attempt is removed and a new one opened (renamed:
\* under a name nothing has yet); progress starts over.
Prepare(w) ==
  /\ worker[w].step = "prepare"
  /\ ~(order.action = "compress" /\ order.policy = "skip" /\ archive.final # {})
  /\ row' = [row EXCEPT !.done = {}]
  /\ archive' = IF Archiving
                THEN [owner |-> w, tmp |-> {},
                      final |-> IF order.policy = "rename" THEN {} ELSE archive.final]
                ELSE archive
  /\ worker' = [worker EXCEPT ![w] = [@ EXCEPT !.step = "look", !.seen = {}]]
  /\ UNCHANGED <<order, disk, page, hist, requests, faults>>

\* The sources are through; requests that come later than this are not seen.
NoneLeft(w) ==
  /\ worker[w].step = "look"
  /\ worker[w].next > Total
  /\ worker' = [worker EXCEPT ![w].step = IF Archiving THEN "replace" ELSE "finish"]
  /\ UNCHANGED <<order, row, disk, archive, page, hist, requests, faults>>

\* Before each item the row is read again: an item done by an earlier worker is
\* passed over, a request stops the operation, cancel before pause.
Look(w) ==
  /\ worker[w].step = "look"
  /\ worker[w].next <= Total
  /\ worker' = [worker EXCEPT ![w] =
       [@ EXCEPT !.seen = row.done,
                 !.next = IF worker[w].next \in worker[w].completed
                          THEN worker[w].next + 1 ELSE worker[w].next,
                 !.step = IF worker[w].next \in worker[w].completed THEN "look"
                          ELSE IF row.cancel \/ row.pause THEN "stop" ELSE "examine",
                 !.verdict = IF row.cancel THEN "cancelled" ELSE "paused"]]
  /\ UNCHANGED <<order, row, disk, archive, page, hist, requests, faults>>

\* Stores what the request asked for, and ends.
Stop(w) ==
  /\ worker[w].step = "stop"
  /\ row' = [row EXCEPT !.status = worker[w].verdict]
  /\ worker' = [worker EXCEPT ![w] = Off]
  /\ UNCHANGED <<order, disk, archive, page, hist, requests, faults>>

\* The source is gone: an error of this item (members have no source to lose).
ExamineMissing(w) ==
  /\ worker[w].step = "examine"
  /\ order.action # "uncompress" /\ ~disk[worker[w].next].src
  /\ worker' = [worker EXCEPT ![w] = [@ EXCEPT !.step = "record", !.ok = FALSE]]
  /\ UNCHANGED <<order, row, disk, archive, page, hist, requests, faults>>

\* Something lies at the target and stays: the item counts as done.
ExamineSkipped(w) ==
  /\ worker[w].step = "examine"
  /\ order.action \in {"copy", "move", "uncompress"} /\ order.policy = "skip"
  /\ order.action # "uncompress" => disk[worker[w].next].src
  /\ disk[worker[w].next].at # {}
  /\ worker' = [worker EXCEPT ![w] = [@ EXCEPT !.step = "record", !.ok = TRUE]]
  /\ UNCHANGED <<order, row, disk, archive, page, hist, requests, faults>>

\* Otherwise the item is taken on; what is to be overwritten goes first.
Examine(w) ==
  LET i == worker[w].next
      taken == order.action \in {"copy", "move", "uncompress"} /\ disk[i].at # {}
  IN
  /\ worker[w].step = "examine"
  /\ order.action # "uncompress" => disk[i].src
  /\ ~(taken /\ order.policy = "skip")
  /\ worker' = [worker EXCEPT ![w].step =
       IF order.action = "delete" THEN "remove"
       ELSE IF taken /\ order.policy = "overwrite" THEN "clear" ELSE "transfer"]
  /\ UNCHANGED <<order, row, disk, archive, page, hist, requests, faults>>

\* Mutant of Erred: the exit code of rsync is not looked at.
ErredUnnoticed(w) ==
  worker' = [worker EXCEPT ![w].step =
    IF order.action = "move" THEN "remove" ELSE "record"]

\* An item that cannot be done is an error of the item, but an extraction
\* fails as a whole.
Erred(w) ==
  worker' = [worker EXCEPT ![w] =
    [@ EXCEPT !.step = IF order.action = "uncompress" THEN "fail" ELSE "record",
              !.ok = FALSE]]

\* _delete_path of the target, if it is still there.
Clear(w) ==
  LET i == worker[w].next IN
  /\ worker[w].step = "clear"
  /\ IF disk[i].at = {}
     THEN Erred(w)
     ELSE worker' = [worker EXCEPT ![w].step = "transfer"]
  /\ disk' = [disk EXCEPT ![i].at = {}]
  /\ UNCHANGED <<order, row, archive, page, hist, requests, faults>>

\* The item, or what is left of it, reaches its target.  A move within a file system is one rename;
\* across file systems, or by rsync, the source is removed in a later step.
Transfer(w) ==
  LET i == worker[w].next IN
  /\ worker[w].step = "transfer"
  /\ ~Archiving
  /\ order.action # "uncompress" => disk[i].src
  /\ \E renamed \in IF order.action = "move" /\ ~order.rsync THEN BOOLEAN ELSE {FALSE} :
       /\ disk' = [disk EXCEPT ![i].src = @ /\ ~renamed,
                               ![i].at = With(@, IF order.action = "move" /\ disk[i].cut
                                                 THEN "part" ELSE "new")]
       /\ worker' = [worker EXCEPT ![w] =
            [@ EXCEPT !.step = IF order.action = "move" /\ ~renamed THEN "remove"
                               ELSE "record",
                      !.ok = TRUE]]
  /\ UNCHANGED <<order, row, archive, page, hist, requests, faults>>

\* The source went away since it was examined.
TransferMissing(w) ==
  /\ worker[w].step = "transfer"
  /\ order.action # "uncompress" /\ ~disk[worker[w].next].src
  /\ Erred(w)
  /\ UNCHANGED <<order, row, disk, archive, page, hist, requests, faults>>

\* The item is written to the open archive, whoever has replaced its .tmp.
AddToArchive(w) ==
  /\ worker[w].step = "transfer"
  /\ Archiving /\ disk[worker[w].next].src
  /\ archive' = IF archive.owner = w
                THEN [archive EXCEPT !.tmp = @ \cup {worker[w].next}] ELSE archive
  /\ worker' = [worker EXCEPT ![w] = [@ EXCEPT !.step = "record", !.ok = TRUE]]
  /\ UNCHANGED <<order, row, disk, page, hist, requests, faults>>

\* rsync and the walks over archived folders look at the requests on the way;
\* rsync keeps the part it has copied.
Interrupt(w) ==
  /\ worker[w].step = "transfer"
  /\ order.rsync \/ Archiving
  /\ row.cancel \/ row.pause
  /\ disk' \in Halfway(w)
  /\ worker' = [worker EXCEPT ![w] =
       [@ EXCEPT !.step = "stop",
                 !.verdict = IF row.cancel THEN "cancelled" ELSE "paused"]]
  /\ UNCHANGED <<order, row, archive, page, hist, requests, faults>>

\* _delete_path of the source: a delete, or the end of a move.
Remove(w) ==
  LET i == worker[w].next IN
  /\ worker[w].step = "remove"
  /\ disk' = [disk EXCEPT ![i].src = FALSE]
  /\ worker' = [worker EXCEPT ![w] = [@ EXCEPT !.step = "record", !.ok = disk[i].src]]
  /\ UNCHANGED <<order, row, archive, page, hist, requests, faults>>

\* A transfer, a copy to the archive or a removal fails on its way.
ItemFails(w) ==
  /\ worker[w].step \in {"clear", "transfer", "remove"}
  /\ Fault
  /\ disk' \in Halfway(w)
  /\ Erred(w)
  /\ UNCHANGED <<order, row, archive, page, hist, requests>>

\* Progress is stored: the worker's own set after a success, after an error
\* what the row said when it was read.  (Extractions store none.)
Record(w) ==
  LET done == worker[w].completed \cup {worker[w].next} IN
  /\ worker[w].step = "record"
  /\ row' = [row EXCEPT !.done = IF order.action = "uncompress" THEN @
                                 ELSE IF worker[w].ok THEN done ELSE worker[w].seen]
  /\ worker' = [worker EXCEPT ![w] =
       [@ EXCEPT !.step = "look", !.next = worker[w].next + 1,
                 !.completed = IF worker[w].ok THEN done ELSE worker[w].completed,
                 !.errors = worker[w].errors \/ ~worker[w].ok]]
  /\ UNCHANGED <<order, disk, archive, page, hist, requests, faults>>

\* The .tmp takes the place of the archive, if it is still there.
Replace(w) ==
  /\ worker[w].step = "replace"
  /\ IF archive.owner = Nobody
     THEN /\ worker' = [worker EXCEPT ![w].step = "fail"]
          /\ UNCHANGED archive
     ELSE /\ worker' = [worker EXCEPT ![w].step = "finish"]
          /\ archive' = [owner |-> Nobody, tmp |-> {}, final |-> archive.tmp]
  /\ UNCHANGED <<order, row, disk, page, hist, requests, faults>>

\* Mutants of Finish: the errors are forgotten; a status nobody knows.
FinishAlways(w) ==
  /\ worker[w].step = "finish"
  /\ row' = [row EXCEPT !.status = "success",
                        !.done = IF order.action = "uncompress" THEN Items ELSE @]
  /\ worker' = [worker EXCEPT ![w] = Off]
  /\ UNCHANGED <<order, disk, archive, page, hist, requests, faults>>

FinishUnknown(w) ==
  /\ worker[w].step = "finish"
  /\ row' = [row EXCEPT !.status = IF worker[w].errors THEN "error" ELSE "success"]
  /\ worker' = [worker EXCEPT ![w] = Off]
  /\ UNCHANGED <<order, disk, archive, page, hist, requests, faults>>

\* finalize_file_operation; an extraction names its archive as done before.
Finish(w) ==
  /\ worker[w].step = "finish"
  /\ row' = [row EXCEPT !.status = IF worker[w].errors THEN "failed" ELSE "success",
                        !.done = IF order.action = "uncompress" THEN Items ELSE @]
  /\ worker' = [worker EXCEPT ![w] = Off]
  /\ UNCHANGED <<order, disk, archive, page, hist, requests, faults>>

\* Mutant of Fail: the handler ends without a status.
FailSilently(w) ==
  /\ worker[w].step = "fail"
  /\ worker' = [worker EXCEPT ![w] = Off]
  /\ UNCHANGED <<order, row, disk, archive, page, hist, requests, faults>>

\* The exception reaches run_file_operation (or the extraction's handler).
Fail(w) ==
  /\ worker[w].step = "fail"
  /\ row' = [row EXCEPT !.status = "failed"]
  /\ worker' = [worker EXCEPT ![w] = Off]
  /\ UNCHANGED <<order, disk, archive, page, hist, requests, faults>>

\* The database is locked when the worker wants to write to the row.
Locked(w) ==
  /\ worker[w].step \in {"boot", "prepare", "look", "stop", "record", "finish"}
  /\ Fault
  /\ worker' = [worker EXCEPT ![w].step = "fail"]
  /\ UNCHANGED <<order, row, disk, archive, page, hist, requests>>

\* It is killed, or the database is locked when it stores its failure.
Dies(w) ==
  /\ Live(w)
  /\ Fault
  /\ disk' \in Halfway(w)
  /\ worker' = [worker EXCEPT ![w] = Off]
  /\ hist' = [hist EXCEPT !.dead = TRUE]
  /\ UNCHANGED <<order, row, archive, page, requests>>

-----------------------------------------------------------------------------
Request(p) ==
  \/ AskPause(p) \/ AskCancel(p) \/ AskResume(p)

Serve(p) ==
  \/ Pause(p) \/ Cancel(p) \/ Settle(p) \/ Start(p) \/ Spawn(p)

Work(w) ==
  \/ Boot(w) \/ PrepareSkipped(w) \/ Prepare(w) \/ NoneLeft(w) \/ Look(w) \/ Stop(w)
  \/ ExamineMissing(w) \/ ExamineSkipped(w) \/ Examine(w) \/ Clear(w) \/ Transfer(w)
  \/ TransferMissing(w) \/ AddToArchive(w) \/ Interrupt(w) \/ Remove(w) \/ Record(w)
  \/ Replace(w) \/ Finish(w) \/ Fail(w)

Mishap(w) ==
  \/ ItemFails(w) \/ Locked(w) \/ Dies(w)

Next ==
  \/ \E p \in Pages : Request(p) \/ Serve(p) \/ PageDies(p)
  \/ \E w \in Workers : Work(w) \/ Mishap(w)

Spec == Init /\ [][Next]_vars

\* Workers and requests that are under way go on.  (Nobody has to ask.)
FairSpec ==
  /\ Spec
  /\ \A p \in Pages : WF_vars(Serve(p))
  /\ \A w \in Workers : WF_vars(Work(w))

-----------------------------------------------------------------------------
(* Properties *)

\* A folder whose removal stopped half-way, and which overwrites its own copy when
\* the move is resumed.
Halved(place) == place.cut /\ order.policy = "overwrite"

\* The item's target is what the operation promises: the copy is whole, or the
\* policy left what it found.
AtTarget(i) ==
  "new" \in disk[i].at \/ (order.policy = "skip" /\ disk[i].at # {}) \/ Halved(disk[i])

Settled(i) ==
  /\ order.action = "delete" => ~disk[i].src
  /\ order.action \in {"copy", "move", "uncompress"} => AtTarget(i)
  /\ order.action = "move" /\ order.policy # "skip" => ~disk[i].src
  /\ Archiving => i \in archive.tmp \cup archive.final

\* While only one worker is at it, an item that is copied or moved exists as a
\* whole, at its source or at its target, whatever fails, stops or dies, but for a
\* folder that was half removed and overwrites its copy.
NothingLost ==
  (~hist.overlap /\ order.action \in {"copy", "move"})
    => \A i \in Items : \/ disk[i].src /\ ~disk[i].cut
                        \/ "new" \in disk[i].at
                        \/ Halved(disk[i])

\* What the row lists as completed has been done: the list follows the files
\* and never runs ahead of them, across pauses, crashes and lost writes.
CompletedIsTrue ==
  ~hist.overlap => \A i \in row.done : Settled(i)

\* An operation that ends as a success has done every item, in as many
\* workers as it took (an archive that was there may have been left alone).
SuccessIsWhole ==
  (~hist.overlap /\ row.status = "success")
    => \/ \A i \in Items : Settled(i)
       \/ order.action = "compress" /\ order.policy = "skip" /\ archive.final # {}

\* What the row reports is so: each item it lists as completed, and the whole
\* when it says success.
ReportIsTrue == CompletedIsTrue /\ SuccessIsWhole

\* Two workers meet on one operation only if a request stored a status over
\* one that had changed since it loaded the row.
OverlapNeedsStaleRequest == hist.overlap => hist.stale

\* Under one worker at a time, what a copy, move or delete lists as completed stays
\* listed, and is not touched any more, by whatever worker goes on with the rest.
DoneStaysDone ==
  [][~hist.overlap' /\ Incremental =>
       /\ row.done \subseteq row.done'
       /\ \A i \in row.done : disk'[i] = disk[i]]_vars

\* A success is final, and an operation that rests goes on only by a resume, or is
\* cancelled while it is paused, unless a request stores a status over another one.
RestsAreKept ==
  [][~hist.stale' /\ row.status # "running" =>
       \/ row'.status = row.status
       \/ row.status \in {"paused", "failed", "cancelled"} /\ row'.status = "running"
       \/ row.status = "paused" /\ row'.status = "cancelled"]_vars

\* A running operation ends or rests some day, unless a process that owed its
\* status died: nothing else looks after it.
OperationEnds ==
  (row.status = "running") ~> (row.status # "running" \/ hist.dead)

-----------------------------------------------------------------------------
(* What the code says of itself and does not keep: counterexamples in README. *)

\* "Partial transfers can be resumed": what an operation transferred in part
\* is not what it leaves when it ends as a success.
PartsAreResumed ==
  (row.status = "success" /\ order.action \in {"copy", "move"})
    => \A i \in Items : disk[i].at # {"part"}
=============================================================================
