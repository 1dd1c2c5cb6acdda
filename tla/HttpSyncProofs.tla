--------------------------- MODULE HttpSyncProofs ---------------------------
(***************************************************************************)
(* Proofs about HttpSync: its types, SameTimeSameContent, SuccessCopied,   *)
(* DeletedWasUnlisted and NeverOlder, for any tree, excluded files,        *)
(* handlers, retries, edits and faults.                                    *)
(***************************************************************************)
EXTENDS HttpSync, WellFoundedInduction, TLAPS

USE PathsAssumption, BoundsAssumption

-----------------------------------------------------------------------------
(* The inductive invariant *)

Running == sync.step # "idle"

\* A request the server has not done with, or whose answer is on its way.
Flying(h) == upload[h] # Free

UploadsTyped == upload \in [Handlers -> {Free} \cup {u \in Upload : u.step # "free"}]

Typed == TypeOK /\ UploadsTyped

\* A content that was read no earlier than the version it is stamped as.
Fits(p, meta, ver) ==
  /\ ver >= meta
  /\ meta # None /\ src[p].ver = meta => ver = meta

\* Versions are numbered as they come.
Numbered ==
  /\ \A p \in Paths :
       /\ src[p].ver <= edits /\ dst[p].meta <= edits /\ sync.listing[p] <= edits
       /\ src[p].ver # None => src[p].ver >= sync.listing[p]
  /\ \A h \in Handlers : Flying(h) => upload[h].meta <= edits

\* What is not in the manifest was missing or unlisted for some time.
Gaps ==
  /\ Running => \A p \in Paths : src[p].ver = None \/ ~src[p].plain => p \in hist.gap
  /\ \A p \in sync.scanned : sync.listing[p] = None => p \in Excluded \/ p \in hist.gap
  /\ sync.step \notin {"idle", "scan"} => sync.scanned = Paths
  /\ \A p \in sync.extra : p \notin Excluded /\ sync.listing[p] = None

\* Where the worker is in its loop, and what it holds.
Loop ==
  /\ sync.step \in {"place", "stamp", "wait"} \/ sync.attempt > 0 =>
       /\ sync.todo # {} /\ sync.content # None
       /\ Fits(Least(sync.todo), sync.listing[Least(sync.todo)], sync.content)
  /\ sync.step \in {"place", "stamp"} => job.direction = "pull"
  /\ sync.step \notin {"transfer", "wait", "place", "stamp"} =>
       sync.todo = {} /\ sync.attempt = 0
  /\ sync.step \in {"idle", "scan", "compare"} => sync.extra = {}
  /\ \A p \in sync.todo : sync.listing[p] # None

\* What a request that was sent carries, and how the worker stands to it.
Sent(h) ==
  /\ job.direction = "push"
  /\ Fits(upload[h].path, upload[h].meta, upload[h].ver)
  /\ upload[h].step \in {"ok", "error"} => upload[h].awaited
  /\ upload[h].awaited =>
       upload[h].current /\ sync.step = "wait" /\ upload[h].path = Least(sync.todo)
  /\ upload[h].current /\ Running =>
       /\ sync.step \notin {"scan", "compare"}
       /\ upload[h].meta = sync.listing[upload[h].path]
       /\ upload[h].path \in sync.todo =>
            /\ upload[h].path = Least(sync.todo) /\ upload[h].ver = sync.content
            /\ sync.step = "wait" \/ sync.attempt > 0

\* Two requests for a file in one run are a request and its repetition.
Repeated ==
  \A g, h \in Handlers : Flying(g) /\ Flying(h) =>
    /\ upload[g].awaited /\ upload[h].awaited => g = h
    /\ upload[g].current /\ upload[h].current /\ upload[g].path = upload[h].path
         => upload[g].ver = upload[h].ver

AllSent == \A h \in Handlers : Flying(h) => Sent(h)

\* What carries a version's time was read no earlier than that version.
Stamped == \A p \in Paths : dst[p].ver # None => Fits(p, dst[p].meta, dst[p].ver)

\* Between its content and its time a file keeps the content.
Replaced ==
  /\ \A h \in Handlers : Flying(h) /\ upload[h].current /\ upload[h].step \in {"stamp", "ok"}
       => dst[upload[h].path].ver = upload[h].ver
  /\ sync.step = "stamp" => dst[Least(sync.todo)].ver = sync.content

\* What the loop is through with is there, unless it has failed or vanished.
Copied ==
  sync.step \notin {"idle", "scan", "compare"} /\ ~sync.failed =>
    \A p \in Paths \ (sync.vanished \cup sync.todo) :
      sync.listing[p] # None => dst[p].ver >= sync.listing[p]

\* What the destination holds, as long as no request of an earlier run has come late.
Written == Stamped /\ Replaced /\ Copied

IInv ==
  /\ Typed /\ Numbered /\ Gaps /\ DeletedWasUnlisted /\ Loop /\ AllSent /\ Repeated
  /\ ~hist.late => Written

-----------------------------------------------------------------------------
(* Types *)

LEMMA LeastIn == ASSUME NEW S \in SUBSET Paths, S # {} PROVE Least(S) \in S
<1>1. PICK p \in S : \A q \in S : ~(<<q, p>> \in OpToRel(<, Nat))
  BY NatLessThanWellFounded, WFMin, Zenon
<1>2. \A q \in S : ~(q < p)
  BY <1>1, Zenon DEF OpToRel
<1>3. \A q \in S : p <= q
  BY <1>2
<1>4. QED
  BY <1>3 DEF Least

\* The parts of the state.
LEMMA Parts ==
  ASSUME Typed
  PROVE  /\ job \in Job /\ src \in [Paths -> SourceFile] /\ dst \in [Paths -> DestFile]
         /\ sync \in Sync /\ hist \in History /\ edits \in 1..MaxVersion /\ faults \in 0..MaxFaults
         /\ \A p \in Paths : /\ src[p] \in SourceFile /\ src[p].ver \in 0..MaxVersion
                             /\ src[p].plain \in BOOLEAN
                             /\ dst[p] \in DestFile /\ dst[p].ver \in 0..MaxVersion
                             /\ dst[p].meta \in 0..MaxVersion /\ dst[p].plain \in BOOLEAN
                             /\ sync.listing[p] \in 0..MaxVersion
         /\ sync.step \in SyncSteps /\ sync.listing \in [Paths -> 0..MaxVersion]
         /\ sync.scanned \subseteq Paths /\ sync.todo \subseteq Paths /\ sync.extra \subseteq Paths
         /\ sync.content \in 0..MaxVersion /\ sync.attempt \in 0..Retries
         /\ sync.failed \in BOOLEAN /\ sync.vanished \subseteq Paths
         /\ sync.todo # {} => Least(sync.todo) \in sync.todo /\ Least(sync.todo) \in Paths
<1>1. /\ job \in Job /\ src \in [Paths -> SourceFile] /\ dst \in [Paths -> DestFile]
      /\ sync \in Sync /\ hist \in History /\ edits \in 1..MaxVersion /\ faults \in 0..MaxFaults
  BY DEF Typed, TypeOK, Versions
<1>2. Versions \cup {None} = 0..MaxVersion /\ Versions \cup {JustWritten} = 0..MaxVersion
  BY DEF Versions, None, JustWritten
<1>3. \A p \in Paths : /\ src[p] \in SourceFile /\ src[p].ver \in 0..MaxVersion
                       /\ src[p].plain \in BOOLEAN
                       /\ dst[p] \in DestFile /\ dst[p].ver \in 0..MaxVersion
                       /\ dst[p].meta \in 0..MaxVersion /\ dst[p].plain \in BOOLEAN
  BY <1>1, <1>2 DEF SourceFile, DestFile
<1>4. /\ sync.step \in SyncSteps /\ sync.listing \in [Paths -> 0..MaxVersion]
      /\ sync.scanned \subseteq Paths /\ sync.todo \subseteq Paths /\ sync.extra \subseteq Paths
      /\ sync.content \in 0..MaxVersion /\ sync.attempt \in 0..Retries
      /\ sync.failed \in BOOLEAN /\ sync.vanished \subseteq Paths
  BY <1>1, <1>2 DEF Sync
<1>5. sync.todo # {} => Least(sync.todo) \in sync.todo
  BY <1>4, LeastIn
<1>6. QED
  BY <1>1, <1>3, <1>4, <1>5

LEMMA InFlight ==
  ASSUME Typed, NEW h \in Handlers, Flying(h)
  PROVE  /\ upload[h] \in Upload /\ upload[h].step \in {"receive", "stamp", "ok", "error"}
         /\ upload[h].path \in Paths /\ upload[h].ver \in 1..MaxVersion
         /\ upload[h].meta \in 1..MaxVersion /\ upload[h].awaited \in BOOLEAN
         /\ upload[h].current \in BOOLEAN
<1>1. upload[h] \in {u \in Upload : u.step # "free"}
  BY DEF Typed, UploadsTyped, Flying
<1>2. QED
  BY <1>1 DEF Upload, Versions

\* A record of the worker is one of Sync by its fields.
LEMMA SyncFields ==
  ASSUME NEW st \in SyncSteps, NEW l \in [Paths -> 0..MaxVersion], NEW sc \in SUBSET Paths,
         NEW t \in SUBSET Paths, NEW e \in SUBSET Paths, NEW c \in 0..MaxVersion,
         NEW a \in 0..Retries, NEW f \in BOOLEAN, NEW v \in SUBSET Paths
  PROVE  [step |-> st, listing |-> l, scanned |-> sc, todo |-> t, extra |-> e, content |-> c,
          attempt |-> a, failed |-> f, vanished |-> v] \in Sync
<1>1. Versions \cup {None} = 0..MaxVersion
  BY DEF Versions, None
<1>2. QED
  BY <1>1 DEF Sync

LEMMA IdleFields ==
  /\ Idle \in Sync /\ Idle.step = "idle" /\ Idle.listing = [p \in Paths |-> None]
  /\ Idle.scanned = {} /\ Idle.todo = {} /\ Idle.extra = {} /\ Idle.content = None
  /\ Idle.attempt = 0 /\ ~Idle.failed /\ Idle.vanished = {}
<1>1. [p \in Paths |-> None] \in [Paths -> 0..MaxVersion] /\ None \in 0..MaxVersion
      /\ 0 \in 0..Retries
  BY DEF None
<1>2. Idle \in Sync
  BY <1>1, SyncFields DEF Idle, SyncSteps
<1>3. QED
  BY <1>2 DEF Idle

\* What the worker changes at once when a file is through.
LEMMA SyncChanged ==
  ASSUME NEW s \in Sync, NEW st \in SyncSteps, NEW t \in SUBSET Paths, NEW a \in 0..Retries,
         NEW c \in Versions \cup {None}
  PROVE  [s EXCEPT !.step = st, !.todo = t, !.attempt = a, !.content = c] \in Sync
  BY Zenon DEF Sync

\* A file is through.
LEMMA NextFileFields ==
  ASSUME Typed
  PROVE  LET s == NextFile(sync) IN
         /\ s \in Sync /\ s.step = "transfer" /\ s.todo = sync.todo \ {Least(sync.todo)}
         /\ s.attempt = 0 /\ s.content = None /\ s.listing = sync.listing
         /\ s.scanned = sync.scanned /\ s.extra = sync.extra /\ s.failed = sync.failed
         /\ s.vanished = sync.vanished
<1> DEFINE s == [sync EXCEPT !.step = "transfer", !.todo = sync.todo \ {Least(sync.todo)},
                             !.attempt = 0, !.content = None]
<1>1. sync \in Sync /\ sync.todo \subseteq Paths
  BY Parts
<1>2. s \in Sync
  <2>1. "transfer" \in SyncSteps /\ None \in Versions \cup {None} /\ 0 \in 0..Retries
    BY DEF SyncSteps, None
  <2>2. sync.todo \ {Least(sync.todo)} \in SUBSET Paths
    BY <1>1
  <2>3. QED
    BY <1>1, <2>1, <2>2, SyncChanged
<1>3. /\ s.step = "transfer" /\ s.todo = sync.todo \ {Least(sync.todo)}
      /\ s.attempt = 0 /\ s.content = None /\ s.listing = sync.listing
      /\ s.scanned = sync.scanned /\ s.extra = sync.extra /\ s.failed = sync.failed
      /\ s.vanished = sync.vanished
  BY <1>1 DEF Sync
<1>4. NextFile(sync) = s
  BY DEF NextFile
<1>5. QED
  BY <1>2, <1>3, <1>4

-----------------------------------------------------------------------------
(* What leaves a part of the invariant as it is *)

LEMMA NumberedStays ==
  ASSUME Numbered, UNCHANGED <<src, edits>>, sync'.listing = sync.listing,
         \A p \in Paths : dst'[p].meta <= edits,
         \A h \in Handlers : Flying(h)' => Flying(h) /\ upload'[h].meta = upload[h].meta
  PROVE  Numbered'
  BY DEF Numbered

LEMMA GapsStay ==
  ASSUME Gaps, UNCHANGED src, hist'.gap = hist.gap, sync.step \notin {"idle", "scan"},
         sync'.listing = sync.listing, sync'.scanned = sync.scanned,
         sync'.extra \subseteq sync.extra
  PROVE  Gaps'
  BY DEF Gaps, Running

LEMMA DeletedStays ==
  ASSUME DeletedWasUnlisted, UNCHANGED job, hist'.gap = hist.gap, hist'.deleted = hist.deleted
  PROVE  DeletedWasUnlisted'
  BY DEF DeletedWasUnlisted

\* The worker goes on to the next file, or with nothing left to transfer.
LEMMA AllSentMoves ==
  ASSUME Typed, AllSent, UNCHANGED <<job, src, upload>>,
         sync.step \notin {"idle", "scan", "compare", "wait"},
         sync'.step \notin {"scan", "compare"}, sync'.listing = sync.listing,
         sync'.todo = sync.todo \ {Least(sync.todo)}
  PROVE  AllSent'
<1> SUFFICES ASSUME NEW h \in Handlers, Flying(h)
             PROVE  Sent(h)'
  BY DEF AllSent, Flying, Free
<1>1. Sent(h)
  BY DEF AllSent
<1>2. ~upload[h].awaited
  BY <1>1 DEF Sent
<1>3. upload'[h].current => upload[h].path \notin sync'.todo
  BY <1>1 DEF Sent, Running
<1>4. QED
  BY <1>1, <1>2, <1>3 DEF Sent, Fits, Running

\* Before the loop no request of this run has been sent.
LEMMA NoneSent ==
  ASSUME AllSent, sync.step \in {"scan", "compare"}, NEW h \in Handlers, Flying(h)
  PROVE  ~upload[h].awaited /\ ~upload[h].current
  BY DEF AllSent, Sent, Running

LEMMA AllSentEarlier ==
  ASSUME Typed, AllSent, UNCHANGED <<job, src, upload>>, sync.step \in {"scan", "compare"}
  PROVE  AllSent'
<1> SUFFICES ASSUME NEW h \in Handlers, Flying(h)
             PROVE  Sent(h)'
  BY DEF AllSent, Flying, Free
<1>1. Sent(h) /\ ~upload[h].awaited /\ ~upload[h].current
  BY NoneSent DEF AllSent
<1>2. QED
  BY <1>1 DEF Sent, Fits

LEMMA RepeatedStays ==
  ASSUME Repeated,
         \A h \in Handlers : Flying(h)' =>
            /\ Flying(h) /\ upload'[h].path = upload[h].path /\ upload'[h].ver = upload[h].ver
            /\ upload'[h].awaited => upload[h].awaited
            /\ upload'[h].current => upload[h].current
  PROVE  Repeated'
  BY DEF Repeated

\* Nothing is in flight for a pull, nothing is placed by the worker of a push.
LEMMA PullIsQuiet ==
  ASSUME AllSent, job.direction = "pull"
  PROVE  \A h \in Handlers : ~Flying(h)
  BY DEF AllSent, Sent

LEMMA QuietFrames ==
  ASSUME UNCHANGED upload, \A h \in Handlers : ~Flying(h)
  PROVE  AllSent' /\ Repeated' /\ \A h \in Handlers : ~Flying(h)'
  BY DEF AllSent, Repeated, Flying, Free

\* The types, from those of the variables that a step changes.
LEMMA TypedBySync ==
  ASSUME Typed, UNCHANGED <<job, src, dst, upload, hist, edits>>, sync' \in Sync,
         faults' \in 0..MaxFaults
  PROVE  Typed'
  BY DEF Typed, TypeOK, UploadsTyped, Upload, Free

LEMMA TypedByParts ==
  ASSUME Typed, UNCHANGED <<job, src>>, edits' \in 1..MaxVersion, faults' \in 0..MaxFaults,
         dst' \in [Paths -> DestFile], sync' \in Sync, hist' \in History, UploadsTyped'
  PROVE  Typed'
<1>1. \A h \in Handlers : upload'[h].step = "free" \/ upload'[h] \in Upload
  BY DEF UploadsTyped, Free, Upload
<1>2. TypeOK'
  BY <1>1 DEF Typed, TypeOK, Upload, Versions
<1>3. QED
  BY <1>2 DEF Typed

LEMMA FaultType == ASSUME Typed, Fault PROVE faults' \in 0..MaxFaults
  BY DEF Typed, TypeOK, Fault

-----------------------------------------------------------------------------
(* The worker before and around the loop *)

LEMMA ScanStep == ASSUME IInv, NEW p \in Paths, Scan(p) PROVE IInv'
<1> DEFINE v == IF Listed(src, p) THEN src[p].ver ELSE None
<1> USE DEF IInv
<1>1. /\ UNCHANGED <<job, src, dst, upload, hist, edits, faults>> /\ sync.step = "scan"
      /\ p \notin sync.scanned
      /\ sync' = [sync EXCEPT !.scanned = @ \cup {p}, !.listing[p] = v]
  BY DEF Scan
<1>2. v \in 0..MaxVersion /\ (v # None => v = src[p].ver)
      /\ (v = None => p \in Excluded \/ src[p].ver = None \/ ~src[p].plain)
  BY Parts DEF Listed, None
<1> HIDE DEF v
<1>3. /\ sync' \in Sync /\ sync'.step = "scan" /\ sync'.scanned = sync.scanned \cup {p}
      /\ sync'.listing = [sync.listing EXCEPT ![p] = v] /\ sync'.todo = sync.todo
      /\ sync'.extra = sync.extra /\ sync'.attempt = sync.attempt
  <2>1. sync \in Sync /\ Versions \cup {None} = 0..MaxVersion
    BY Parts DEF Versions, None
  <2>2. QED
    BY <1>1, <1>2, <2>1 DEF Sync
<1>4. Typed'
  BY <1>1, <1>3, TypedBySync, Parts
<1>5. Numbered'
  BY <1>1, <1>2, <1>3, Parts DEF Numbered, Flying, Free, None
<1>6. Gaps'
  BY <1>1, <1>2, <1>3, Parts DEF Gaps, Running, Loop
<1>7. DeletedWasUnlisted'
  BY <1>1, DeletedStays
<1>8. Loop'
  BY <1>1, <1>3 DEF Loop
<1>9. AllSent'
  BY <1>1, AllSentEarlier
<1>10. Repeated'
  BY <1>1, RepeatedStays DEF Flying, Free
<1>11. (~hist.late => Written)'
  BY <1>1, <1>3, NoneSent DEF Written, Stamped, Replaced, Copied, Fits, Flying, Free
<1>12. QED
  BY <1>4, <1>5, <1>6, <1>7, <1>8, <1>9, <1>10, <1>11

LEMMA ScannedStep == ASSUME IInv, Scanned PROVE IInv'
<1> USE DEF IInv
<1>1. /\ UNCHANGED <<job, src, dst, upload, hist, edits, faults>> /\ sync.step = "scan"
      /\ sync.scanned = Paths /\ sync' = [sync EXCEPT !.step = "compare"]
  BY DEF Scanned
<1>2. /\ sync' \in Sync /\ sync'.step = "compare" /\ sync'.scanned = sync.scanned
      /\ sync'.listing = sync.listing /\ sync'.todo = sync.todo
      /\ sync'.extra = sync.extra /\ sync'.attempt = sync.attempt
  BY <1>1, Parts DEF Sync, SyncSteps
<1>3. Typed'
  BY <1>1, <1>2, TypedBySync, Parts
<1>4. Numbered'
  BY <1>1, <1>2 DEF Numbered, Flying, Free
<1>5. Gaps'
  BY <1>1, <1>2 DEF Gaps, Running
<1>6. DeletedWasUnlisted'
  BY <1>1, DeletedStays
<1>7. Loop'
  BY <1>1, <1>2 DEF Loop
<1>8. AllSent'
  BY <1>1, AllSentEarlier
<1>9. Repeated'
  BY <1>1, RepeatedStays DEF Flying, Free
<1>10. (~hist.late => Written)'
  BY <1>1, <1>2, NoneSent DEF Written, Stamped, Replaced, Copied, Fits, Flying, Free
<1>11. QED
  BY <1>3, <1>4, <1>5, <1>6, <1>7, <1>8, <1>9, <1>10

LEMMA CompareStep == ASSUME IInv, Compare PROVE IInv'
<1> DEFINE e == IF job.direction = "pull" THEN Extra ELSE {}
           t == {p \in Paths : Differs(p)}
<1> USE DEF IInv
<1>1. /\ UNCHANGED <<job, src, dst, upload, hist, edits, faults>> /\ sync.step = "compare"
      /\ sync' = [sync EXCEPT !.step = "transfer", !.todo = t, !.extra = e]
  BY DEF Compare
<1>2. /\ t \subseteq Paths /\ \A p \in t : sync.listing[p] # None
      /\ \A p \in Paths \ t : sync.listing[p] # None =>
            dst[p].ver # None /\ dst[p].meta = sync.listing[p]
      /\ e \subseteq Paths /\ \A p \in e : p \notin Excluded /\ sync.listing[p] = None
  BY DEF Differs, Extra, Listed
<1> HIDE DEF e, t
<1>3. /\ sync' \in Sync /\ sync'.step = "transfer" /\ sync'.scanned = sync.scanned
      /\ sync'.listing = sync.listing /\ sync'.todo = t
      /\ sync'.extra = e /\ sync'.attempt = sync.attempt /\ sync'.content = sync.content
      /\ sync'.vanished = sync.vanished /\ sync'.failed = sync.failed
  BY <1>1, <1>2, Parts DEF Sync, SyncSteps
<1>4. Typed'
  BY <1>1, <1>3, TypedBySync, Parts
<1>5. Numbered'
  BY <1>1, <1>3 DEF Numbered, Flying, Free
<1>6. Gaps'
  BY <1>1, <1>2, <1>3 DEF Gaps, Running
<1>7. DeletedWasUnlisted'
  BY <1>1, DeletedStays
<1>8. Loop'
  BY <1>1, <1>2, <1>3 DEF Loop
<1>9. AllSent'
  BY <1>1, AllSentEarlier
<1>10. Repeated'
  BY <1>1, RepeatedStays DEF Flying, Free
<1>11. ~hist.late => Stamped' /\ Replaced'
  BY <1>1, <1>3, NoneSent DEF Written, Stamped, Replaced, Fits, Flying, Free
<1>12. ~hist.late => Copied'
  <2> SUFFICES ASSUME ~hist.late, NEW p \in Paths, p \notin t, sync.listing[p] # None
               PROVE  dst[p].ver >= sync.listing[p]
    BY <1>1, <1>3 DEF Copied
  <2>1. dst[p].ver # None /\ dst[p].meta = sync.listing[p]
    BY <1>2
  <2>2. QED
    BY <2>1 DEF Written, Stamped, Fits
<1>13. QED
  BY <1>1, <1>4, <1>5, <1>6, <1>7, <1>8, <1>9, <1>10, <1>11, <1>12 DEF Written

-----------------------------------------------------------------------------
(* The worker in the loop *)

\* A file is through without the destination being touched: it has failed, or
\* it has vanished.
LEMMA MovesOn ==
  ASSUME IInv, UNCHANGED <<job, src, dst, upload, hist, edits>>, faults' \in 0..MaxFaults,
         sync.step \in {"transfer", "place", "stamp"}, sync' \in Sync,
         sync'.step = "transfer", sync'.todo = sync.todo \ {Least(sync.todo)},
         sync'.attempt = 0, sync'.listing = sync.listing, sync'.scanned = sync.scanned,
         sync'.extra = sync.extra,
         \/ sync'.failed
         \/ /\ sync'.failed = sync.failed
            /\ sync'.vanished = sync.vanished \cup {Least(sync.todo)}
  PROVE  IInv'
<1> USE DEF IInv
<1>1. Typed'
  BY TypedBySync
<1>2. Numbered'
  BY DEF Numbered, Flying, Free
<1>3. Gaps'
  BY GapsStay
<1>4. DeletedWasUnlisted'
  BY DeletedStays
<1>5. Loop'
  BY DEF Loop
<1>6. AllSent'
  BY AllSentMoves
<1>7. Repeated'
  BY RepeatedStays DEF Flying, Free
<1>8. (~hist.late => Written)'
  BY DEF Written, Stamped, Replaced, Copied, Fits, Flying, Free
<1>9. QED
  BY <1>1, <1>2, <1>3, <1>4, <1>5, <1>6, <1>7, <1>8

LEMMA VanishedStep == ASSUME IInv, Vanished PROVE IInv'
<1> DEFINE s == NextFile(sync)
           v == sync.vanished \cup {Least(sync.todo)}
<1>1. Typed
  BY DEF IInv
<1>2. /\ UNCHANGED <<job, src, dst, upload, hist, edits, faults>> /\ sync.step = "transfer"
      /\ sync.todo # {} /\ sync' = [s EXCEPT !.vanished = v]
  BY <1>1, NextFileFields DEF Vanished
<1>3. /\ s \in Sync /\ s.step = "transfer" /\ s.todo = sync.todo \ {Least(sync.todo)}
      /\ s.attempt = 0 /\ s.listing = sync.listing
      /\ s.scanned = sync.scanned /\ s.extra = sync.extra /\ s.failed = sync.failed
  BY <1>1, NextFileFields
<1> HIDE DEF s
<1>4. v \subseteq Paths
  BY <1>1, <1>2, Parts
<1>5. /\ sync' \in Sync /\ sync'.step = s.step /\ sync'.todo = s.todo
      /\ sync'.attempt = s.attempt /\ sync'.listing = s.listing
      /\ sync'.scanned = s.scanned /\ sync'.extra = s.extra
      /\ sync'.failed = s.failed /\ sync'.vanished = v
  BY <1>2, <1>3, <1>4 DEF Sync
<1>6. faults' \in 0..MaxFaults
  BY <1>1, <1>2, Parts
<1>7. QED
  BY <1>2, <1>3, <1>5, <1>6, MovesOn

\* The record of a file that has failed.
LEMMA FailedFields ==
  ASSUME Typed
  PROVE  LET s == [NextFile(sync) EXCEPT !.failed = TRUE] IN
         /\ s \in Sync /\ s.step = "transfer" /\ s.todo = sync.todo \ {Least(sync.todo)}
         /\ s.attempt = 0 /\ s.listing = sync.listing
         /\ s.scanned = sync.scanned /\ s.extra = sync.extra /\ s.failed
<1> DEFINE n == NextFile(sync)
           s == [n EXCEPT !.failed = TRUE]
<1>1. /\ n \in Sync /\ n.step = "transfer" /\ n.todo = sync.todo \ {Least(sync.todo)}
      /\ n.attempt = 0 /\ n.listing = sync.listing
      /\ n.scanned = sync.scanned /\ n.extra = sync.extra
  BY NextFileFields
<1> HIDE DEF n
<1>2. s \in Sync /\ s.failed
  BY <1>1 DEF Sync
<1>3. /\ s.step = n.step /\ s.todo = n.todo /\ s.attempt = n.attempt
      /\ s.listing = n.listing /\ s.scanned = n.scanned /\ s.extra = n.extra
  BY <1>1 DEF Sync
<1> QED
  BY <1>1, <1>2, <1>3 DEF n

LEMMA TransferFailsStep == ASSUME IInv, TransferFails PROVE IInv'
<1>1. Typed
  BY DEF IInv
<1>2. /\ UNCHANGED <<job, src, dst, upload, hist, edits>> /\ Fault
      /\ sync.step \in {"transfer", "place", "stamp"}
      /\ sync' = [NextFile(sync) EXCEPT !.failed = TRUE]
  BY DEF TransferFails
<1>3. /\ sync' \in Sync /\ sync'.step = "transfer"
      /\ sync'.todo = sync.todo \ {Least(sync.todo)}
      /\ sync'.attempt = 0 /\ sync'.listing = sync.listing
      /\ sync'.scanned = sync.scanned /\ sync'.extra = sync.extra /\ sync'.failed
  BY <1>1, <1>2, FailedFields
<1>4. QED
  BY <1>1, <1>2, <1>3, FaultType, MovesOn

LEMMA FetchStep == ASSUME IInv, Fetch PROVE IInv'
<1> DEFINE p == Least(sync.todo)
<1> USE DEF IInv
<1>1. /\ UNCHANGED <<job, src, dst, upload, hist, edits, faults>> /\ sync.step = "transfer"
      /\ sync.todo # {} /\ job.direction = "pull" /\ faults' \in 0..MaxFaults
  BY Parts DEF Fetch
<1>2. p \in Paths /\ p \in sync.todo
  BY <1>1, Parts
<1>3. CASE src[p].ver = None
  <2>1. sync' = [NextFile(sync) EXCEPT !.failed = TRUE]
    BY <1>3 DEF Fetch
  <2>2. /\ sync' \in Sync /\ sync'.step = "transfer" /\ sync'.todo = sync.todo \ {p}
        /\ sync'.attempt = 0 /\ sync'.listing = sync.listing
        /\ sync'.scanned = sync.scanned /\ sync'.extra = sync.extra /\ sync'.failed
    BY <2>1, FailedFields
  <2>3. QED
    BY <1>1, <2>2, MovesOn
<1>4. CASE src[p].ver # None
  <2>1. sync' = [sync EXCEPT !.step = "place", !.content = src[p].ver]
    BY <1>4 DEF Fetch
  <2>2. src[p].ver \in Versions \cup {None} /\ sync \in Sync
    <3>1. src[p].ver \in 0..MaxVersion /\ sync \in Sync
      BY <1>2, Parts
    <3>2. Versions \cup {None} = 0..MaxVersion
      BY DEF Versions, None
    <3>3. QED
      BY <3>1, <3>2
  <2>3. /\ sync' \in Sync /\ sync'.step = "place" /\ sync'.scanned = sync.scanned
        /\ sync'.listing = sync.listing /\ sync'.todo = sync.todo
        /\ sync'.extra = sync.extra /\ sync'.attempt = sync.attempt
        /\ sync'.content = src[p].ver /\ sync'.failed = sync.failed
        /\ sync'.vanished = sync.vanished
    BY <2>1, <2>2 DEF Sync, SyncSteps
  <2>4. \A h \in Handlers : ~Flying(h)
    BY <1>1, PullIsQuiet
  <2>5. AllSent' /\ Repeated' /\ \A h \in Handlers : ~Flying(h)'
    BY <1>1, <2>4, QuietFrames
  <2>6. Typed'
    BY <1>1, <2>3, TypedBySync
  <2>7. Numbered'
    BY <1>1, <2>3 DEF Numbered, Flying, Free
  <2>8. Gaps' /\ DeletedWasUnlisted'
    BY <1>1, <2>3, GapsStay, DeletedStays
  <2>9. Loop'
    BY <1>1, <1>2, <1>4, <2>3 DEF Loop, Fits, Numbered
  <2>10. (~hist.late => Written)'
    BY <1>1, <2>3, <2>5 DEF Written, Stamped, Replaced, Copied, Fits
  <2>11. QED
    BY <2>5, <2>6, <2>7, <2>8, <2>9, <2>10
<1>5. QED
  BY <1>3, <1>4

\* The parts of the invariant once the worker is idle.
LEMMA IdleParts ==
  ASSUME IInv, sync' = Idle, UNCHANGED <<job, src, edits>>,
         hist'.gap = hist.gap,
         \A p \in Paths : dst'[p].meta <= edits
  PROVE  /\ sync' \in Sync /\ Gaps' /\ Loop' /\ Copied'
         /\ UNCHANGED upload => Numbered'
<1>1. /\ sync' \in Sync /\ sync'.step = "idle" /\ sync'.scanned = {} /\ sync'.todo = {}
      /\ sync'.extra = {} /\ sync'.attempt = 0
      /\ \A p \in Paths : sync'.listing[p] = None
  BY IdleFields
<1>2. Gaps' /\ Loop' /\ Copied'
  BY <1>1 DEF Gaps, Running, Loop, Copied
<1>3. Typed
  BY DEF IInv
<1>4. UNCHANGED upload => Numbered'
  BY <1>1, <1>3, Parts DEF Numbered, Flying, Free, None, IInv
<1>5. QED
  BY <1>1, <1>2, <1>4

LEMMA AllSentIdle ==
  ASSUME AllSent, sync'.step = "idle", UNCHANGED <<job, src, upload>>, sync.step # "wait"
  PROVE  AllSent'
<1> SUFFICES ASSUME NEW h \in Handlers, Flying(h)
             PROVE  Sent(h)'
  BY DEF AllSent, Flying, Free
<1>1. Sent(h)
  BY DEF AllSent
<1>2. QED
  BY <1>1 DEF Sent, Fits, Running

LEMMA TransferredStep == ASSUME IInv, Transferred PROVE IInv'
<1> DEFINE st == IF job.delete THEN "delete" ELSE "end"
<1>1. Typed /\ Numbered /\ Gaps /\ DeletedWasUnlisted /\ Loop /\ AllSent /\ Repeated
      /\ (~hist.late => Written)
  BY DEF IInv
<1>2. /\ UNCHANGED <<job, src, dst, upload, hist, edits, faults>> /\ sync.step = "transfer"
      /\ sync.todo = {} /\ sync' = [sync EXCEPT !.step = st]
  BY DEF Transferred
<1>3. st \in {"delete", "end"} /\ sync.todo \ {Least(sync.todo)} = {}
  BY <1>2
<1> HIDE DEF st
<1>4. /\ sync' \in Sync /\ sync'.step = st /\ sync'.scanned = sync.scanned
      /\ sync'.listing = sync.listing /\ sync'.todo = {}
      /\ sync'.extra = sync.extra /\ sync'.attempt = sync.attempt
      /\ sync'.failed = sync.failed /\ sync'.vanished = sync.vanished
  BY <1>1, <1>2, <1>3, Parts DEF Sync, SyncSteps
<1>5. Typed'
  BY <1>1, <1>2, <1>4, TypedBySync, Parts
<1>6. Numbered'
  BY <1>1, <1>2, <1>4 DEF Numbered, Flying, Free
<1>7. Gaps' /\ DeletedWasUnlisted'
  <2>1. Gaps'
    BY <1>1, <1>2, <1>4, GapsStay
  <2>2. DeletedWasUnlisted'
    BY <1>1, <1>2, DeletedStays
  <2>3. QED
    BY <2>1, <2>2
<1>8. Loop'
  BY <1>1, <1>2, <1>3, <1>4, Parts DEF Loop
<1>9. AllSent'
  BY <1>1, <1>2, <1>3, <1>4, AllSentMoves
<1>10. Repeated'
  BY <1>1, <1>2, RepeatedStays DEF Flying, Free
<1>11. (~hist.late => Written)'
  BY <1>1, <1>2, <1>3, <1>4 DEF Written, Stamped, Replaced, Copied, Fits, Flying, Free
<1>12. QED
  BY <1>5, <1>6, <1>7, <1>8, <1>9, <1>10, <1>11 DEF IInv

LEMMA EndSyncStep == ASSUME IInv, EndSync PROVE IInv'
<1>1. Typed /\ Numbered /\ DeletedWasUnlisted /\ AllSent /\ Repeated /\ (~hist.late => Written)
  BY DEF IInv
<1>2. /\ UNCHANGED <<job, src, dst, upload, hist, edits, faults>> /\ sync.step = "end"
      /\ sync' = Idle
  BY DEF EndSync
<1>3. sync' \in Sync /\ Gaps' /\ Loop' /\ Copied' /\ Numbered'
  BY <1>1, <1>2, IdleParts DEF Numbered
<1>4. Typed'
  BY <1>1, <1>2, <1>3, TypedBySync, Parts
<1>5. DeletedWasUnlisted'
  BY <1>1, <1>2, DeletedStays
<1>6. AllSent' /\ sync'.step = "idle"
  BY <1>1, <1>2, AllSentIdle, IdleFields
<1>7. Repeated'
  BY <1>1, <1>2, RepeatedStays DEF Flying, Free
<1>8. (~hist.late => Written)'
  BY <1>1, <1>2, <1>3, <1>6 DEF Written, Stamped, Replaced, Fits, Flying, Free
<1>9. QED
  BY <1>3, <1>4, <1>5, <1>6, <1>7, <1>8 DEF IInv

LEMMA StartSyncStep == ASSUME IInv, StartSync PROVE IInv'
<1>1. Typed /\ Numbered /\ AllSent /\ Repeated /\ (~hist.late => Written)
  BY DEF IInv
<1> DEFINE gaps == {p \in Paths : src[p].ver = None \/ ~src[p].plain}
           missing == {p \in Paths : src[p].ver = None}
<1>2. /\ UNCHANGED <<job, src, dst, edits, faults>> /\ sync.step = "idle"
      /\ sync' = [Idle EXCEPT !.step = "scan"]
      /\ upload' = [h \in Handlers |-> IF upload[h] = Free THEN Free
                                       ELSE [upload[h] EXCEPT !.current = FALSE]]
      /\ hist' = [hist EXCEPT !.gap = gaps, !.absent = missing, !.deleted = {}]
  BY DEF StartSync
<1>3. gaps \subseteq Paths /\ missing \subseteq Paths
      /\ \A p \in Paths : src[p].ver = None \/ ~src[p].plain => p \in gaps
  OBVIOUS
<1> HIDE DEF gaps, missing
<1>4. /\ hist' \in History /\ hist'.gap = gaps /\ hist'.deleted = {} /\ hist'.late = hist.late
  BY <1>1, <1>2, <1>3, Parts DEF History
<1>5. /\ sync' \in Sync /\ sync'.step = "scan" /\ sync'.scanned = {} /\ sync'.todo = {}
      /\ sync'.extra = {} /\ sync'.attempt = 0 /\ sync'.listing = [p \in Paths |-> None]
  BY <1>2, IdleFields DEF Sync, SyncSteps
<1>6. \A h \in Handlers :
        /\ Flying(h)' => /\ Flying(h) /\ upload'[h] = [upload[h] EXCEPT !.current = FALSE]
        /\ ~Flying(h) => upload'[h] = Free
  BY <1>2 DEF Flying, Free
<1>7. \A h \in Handlers : Flying(h) =>
        LET u == [upload[h] EXCEPT !.current = FALSE] IN
        /\ u \in Upload /\ u.step = upload[h].step /\ u.path = upload[h].path
        /\ u.ver = upload[h].ver /\ u.meta = upload[h].meta
        /\ u.awaited = upload[h].awaited /\ u.current = FALSE
  <2> SUFFICES ASSUME NEW h \in Handlers, Flying(h)
               PROVE  LET u == [upload[h] EXCEPT !.current = FALSE] IN
                      /\ u \in Upload /\ u.step = upload[h].step /\ u.path = upload[h].path
                      /\ u.ver = upload[h].ver /\ u.meta = upload[h].meta
                      /\ u.awaited = upload[h].awaited /\ u.current = FALSE
    OBVIOUS
  <2>1. upload[h] \in Upload
    BY <1>1, InFlight
  <2>2. QED
    BY <2>1 DEF Upload
<1>8. \A h \in Handlers : Flying(h)' =>
        /\ Flying(h) /\ upload'[h] \in Upload /\ upload'[h].step = upload[h].step
        /\ upload'[h].path = upload[h].path /\ upload'[h].ver = upload[h].ver
        /\ upload'[h].meta = upload[h].meta /\ upload'[h].awaited = upload[h].awaited
        /\ ~upload'[h].current /\ upload[h].step # "free"
  BY <1>1, <1>6, <1>7, InFlight
<1>9. Typed'
  <2>1. upload' \in [Handlers -> {Free} \cup {u \in Upload : u.step # "free"}]
    <3>1. \A h \in Handlers : upload'[h] = Free \/ upload'[h] \in {u \in Upload : u.step # "free"}
      BY <1>8 DEF Flying, Free
    <3>2. upload' = [h \in Handlers |-> upload'[h]]
      BY <1>2
    <3>3. QED
      BY <3>1, <3>2
  <2>2. UploadsTyped'
    BY <2>1 DEF UploadsTyped, Free, Upload
  <2>3. QED
    BY <1>1, <1>2, <1>4, <1>5, <2>2, TypedByParts, Parts
<1>10. Numbered'
  <2>1. \A p \in Paths : sync'.listing[p] = 0 /\ src[p].ver \in Nat /\ edits \in Nat
    BY <1>1, <1>5, Parts DEF None
  <2>2. \A h \in Handlers : Flying(h)' => upload'[h].meta <= edits
    BY <1>1, <1>8 DEF Numbered
  <2>3. \A p \in Paths : src[p].ver <= edits /\ dst[p].meta <= edits
    BY <1>1 DEF Numbered
  <2>4. QED
    BY <1>2, <2>1, <2>2, <2>3 DEF Numbered
<1>11. Gaps' /\ DeletedWasUnlisted' /\ Loop'
  BY <1>2, <1>3, <1>4, <1>5 DEF Gaps, Running, DeletedWasUnlisted, Loop
<1>12. AllSent'
  <2> SUFFICES ASSUME NEW h \in Handlers, Flying(h)'
               PROVE  Sent(h)'
    BY DEF AllSent
  <2>1. Sent(h) /\ ~upload[h].awaited
    BY <1>1, <1>2, <1>8 DEF AllSent, Sent
  <2>2. QED
    BY <1>2, <1>8, <2>1 DEF Sent, Fits
<1>13. Repeated'
  BY <1>1, <1>8, RepeatedStays
<1>14. (~hist.late => Written)'
  BY <1>1, <1>2, <1>4, <1>5, <1>8 DEF Written, Stamped, Replaced, Copied, Fits
<1>15. QED
  BY <1>9, <1>10, <1>11, <1>12, <1>13, <1>14 DEF IInv

-----------------------------------------------------------------------------
(* The worker writes into the destination *)

LEMMA RemovedFields ==
  ASSUME Typed, NEW gone \in SUBSET Paths
  PROVE  LET new == Removed(dst, gone) IN
         /\ new \in [Paths -> DestFile]
         /\ \A p \in gone : new[p].ver = None /\ new[p].meta = None
         /\ \A p \in Paths \ gone : new[p] = dst[p]
<1>1. NoFile \in DestFile /\ NoFile.ver = None /\ NoFile.meta = None
  BY DEF NoFile, DestFile, None, JustWritten
<1>2. dst \in [Paths -> DestFile]
  BY Parts
<1>3. QED
  BY <1>1, <1>2 DEF Removed

LEMMA StampsAreDests ==
  ASSUME NEW d \in DestFile, NEW m \in Versions \cup {JustWritten}
  PROVE  LET e == [d EXCEPT !.meta = m] IN e \in DestFile /\ e.meta = m /\ e.ver = d.ver
  BY DEF DestFile

\* Replacing a file and stamping it are typed.
LEMMA DestWritten ==
  ASSUME Typed, NEW p \in Paths, NEW v \in Versions,
         dst' = [dst EXCEPT ![p] = [ver |-> v, meta |-> JustWritten, plain |-> TRUE]]
  PROVE  /\ dst' \in [Paths -> DestFile] /\ dst'[p].ver = v /\ dst'[p].meta = None
         /\ \A q \in Paths \ {p} : dst'[q] = dst[q]
<1>1. [ver |-> v, meta |-> JustWritten, plain |-> TRUE] \in DestFile
  BY DEF DestFile, JustWritten
<1>2. dst \in [Paths -> DestFile]
  BY Parts
<1>3. QED
  BY <1>1, <1>2 DEF None, JustWritten

LEMMA DestStamped ==
  ASSUME Typed, NEW p \in Paths, NEW m \in Versions, dst' = [dst EXCEPT ![p].meta = m]
  PROVE  /\ dst' \in [Paths -> DestFile] /\ dst'[p].ver = dst[p].ver /\ dst'[p].meta = m
         /\ \A q \in Paths \ {p} : dst'[q] = dst[q]
<1> DEFINE e == [dst[p] EXCEPT !.meta = m]
<1>1. dst \in [Paths -> DestFile] /\ dst[p] \in DestFile
  BY Parts
<1>2. e \in DestFile /\ e.meta = m /\ e.ver = dst[p].ver
  BY <1>1, StampsAreDests
<1>3. dst' = [dst EXCEPT ![p] = e]
  OBVIOUS
<1> HIDE DEF e
<1>4. QED
  BY <1>1, <1>2, <1>3

LEMMA PlaceStep == ASSUME IInv, Place PROVE IInv'
<1> DEFINE p == Least(sync.todo)
<1>1. Typed /\ Numbered /\ Gaps /\ DeletedWasUnlisted /\ Loop /\ AllSent /\ Repeated
      /\ (~hist.late => Written)
  BY DEF IInv
<1>2. /\ UNCHANGED <<job, src, upload, hist, edits, faults>> /\ sync.step = "place"
      /\ dst' = [dst EXCEPT ![p] = [ver |-> sync.content, meta |-> JustWritten, plain |-> TRUE]]
      /\ sync' = [sync EXCEPT !.step = "stamp"]
  BY DEF Place
<1>3. /\ sync.todo # {} /\ sync.content # None /\ job.direction = "pull"
      /\ Fits(p, sync.listing[p], sync.content)
  BY <1>1, <1>2 DEF Loop
<1>4. p \in Paths /\ p \in sync.todo /\ sync.content \in Versions
  BY <1>1, <1>3, Parts DEF None, Versions
<1>5. /\ dst' \in [Paths -> DestFile] /\ dst'[p].ver = sync.content /\ dst'[p].meta = None
      /\ \A q \in Paths \ {p} : dst'[q] = dst[q]
  BY <1>1, <1>2, <1>4, DestWritten
<1> HIDE DEF p
<1>6. /\ sync' \in Sync /\ sync'.step = "stamp" /\ sync'.scanned = sync.scanned
      /\ sync'.listing = sync.listing /\ sync'.todo = sync.todo
      /\ sync'.extra = sync.extra /\ sync'.attempt = sync.attempt
      /\ sync'.content = sync.content /\ sync'.failed = sync.failed
      /\ sync'.vanished = sync.vanished
  BY <1>1, <1>2, Parts DEF Sync, SyncSteps
<1>7. \A h \in Handlers : ~Flying(h)
  BY <1>1, <1>3, PullIsQuiet
<1>8. AllSent' /\ Repeated' /\ \A h \in Handlers : ~Flying(h)'
  BY <1>2, <1>7, QuietFrames, <1>1
<1>9. Typed'
  <2>1. UploadsTyped'
    BY <1>1, <1>2 DEF Typed, UploadsTyped, Free, Upload
  <2>2. QED
    BY <1>1, <1>2, <1>5, <1>6, <2>1, TypedByParts, Parts
<1>10. Numbered'
  <2>1. \A q \in Paths : dst'[q].meta <= edits
    BY <1>1, <1>5, Parts DEF Numbered, None
  <2>2. QED
    BY <1>1, <1>2, <1>6, <1>8, <2>1, NumberedStays
<1>11. Gaps'
  BY <1>1, <1>2, <1>6, GapsStay
<1>12. DeletedWasUnlisted'
  BY <1>1, <1>2, DeletedStays
<1>13. Loop'
  BY <1>1, <1>2, <1>3, <1>6 DEF Loop, p, Fits
<1>14. ~hist.late => Stamped' /\ Copied'
  BY <1>1, <1>2, <1>4, <1>5, <1>6, Parts DEF Written, Stamped, Copied, Fits, None
<1>15. Replaced'
  BY <1>5, <1>6, <1>8 DEF Replaced, p
<1>16. QED
  BY <1>2, <1>8, <1>9, <1>10, <1>11, <1>12, <1>13, <1>14, <1>15 DEF IInv, Written

LEMMA StampStep == ASSUME IInv, Stamp PROVE IInv'
<1> DEFINE p == Least(sync.todo)
<1>1. Typed /\ Numbered /\ Gaps /\ DeletedWasUnlisted /\ Loop /\ AllSent /\ Repeated
      /\ (~hist.late => Written)
  BY DEF IInv
<1>2. /\ UNCHANGED <<job, src, upload, hist, edits, faults>> /\ sync.step = "stamp"
      /\ dst' = [dst EXCEPT ![p].meta = sync.listing[p]] /\ sync' = NextFile(sync)
  BY DEF Stamp
<1>3. /\ sync.todo # {} /\ sync.content # None /\ job.direction = "pull"
      /\ Fits(p, sync.listing[p], sync.content)
  BY <1>1, <1>2 DEF Loop
<1>4. p \in Paths /\ p \in sync.todo /\ sync.listing[p] \in Versions
  <2>1. p \in Paths /\ p \in sync.todo
    BY <1>1, <1>3, Parts
  <2>2. sync.listing[p] \in 0..MaxVersion /\ sync.listing[p] # None
    BY <1>1, <2>1, Parts DEF Loop
  <2>3. QED
    BY <2>1, <2>2 DEF None, Versions
<1>5. /\ dst' \in [Paths -> DestFile] /\ dst'[p].ver = dst[p].ver
      /\ dst'[p].meta = sync.listing[p] /\ \A q \in Paths \ {p} : dst'[q] = dst[q]
  BY <1>1, <1>2, <1>4, DestStamped
<1> HIDE DEF p
<1>6. /\ sync' \in Sync /\ sync'.step = "transfer" /\ sync'.scanned = sync.scanned
      /\ sync'.listing = sync.listing /\ sync'.todo = sync.todo \ {p}
      /\ sync'.extra = sync.extra /\ sync'.attempt = 0 /\ sync'.failed = sync.failed
      /\ sync'.vanished = sync.vanished
  BY <1>1, <1>2, NextFileFields DEF p
<1>7. \A h \in Handlers : ~Flying(h)
  BY <1>1, <1>3, PullIsQuiet
<1>8. AllSent' /\ Repeated' /\ \A h \in Handlers : ~Flying(h)'
  BY <1>2, <1>7, QuietFrames, <1>1
<1>9. Typed'
  <2>1. UploadsTyped'
    BY <1>1, <1>2 DEF Typed, UploadsTyped, Free, Upload
  <2>2. QED
    BY <1>1, <1>2, <1>5, <1>6, <2>1, TypedByParts, Parts
<1>10. Numbered'
  <2>1. \A q \in Paths : dst'[q].meta <= edits
    BY <1>1, <1>4, <1>5 DEF Numbered
  <2>2. QED
    BY <1>1, <1>2, <1>6, <1>8, <2>1, NumberedStays
<1>11. Gaps'
  BY <1>1, <1>2, <1>6, GapsStay
<1>12. DeletedWasUnlisted'
  BY <1>1, <1>2, DeletedStays
<1>13. Loop'
  BY <1>1, <1>2, <1>6 DEF Loop
<1>14. ASSUME ~hist.late PROVE Stamped' /\ Copied'
  <2>1. dst[p].ver = sync.content
    BY <1>1, <1>2, <1>14 DEF Written, Replaced, p
  <2>2. Stamped'
    BY <1>1, <1>2, <1>3, <1>5, <1>14, <2>1 DEF Written, Stamped, Fits
  <2>3. Copied'
    BY <1>1, <1>2, <1>3, <1>5, <1>6, <1>14, <2>1 DEF Written, Copied, Fits
  <2>4. QED
    BY <2>2, <2>3
<1>15. Replaced'
  BY <1>6, <1>8 DEF Replaced
<1>16. QED
  BY <1>2, <1>8, <1>9, <1>10, <1>11, <1>12, <1>13, <1>14, <1>15 DEF IInv, Written

\* Files go that the manifest does not list and that were missing or unlisted.
LEMMA GoneParts ==
  ASSUME IInv, NEW gone \in SUBSET Paths, dst' = Removed(dst, gone),
         UNCHANGED <<job, src, upload, edits>>,
         sync.step = "delete", \A p \in gone : sync.listing[p] = None,
         sync'.step \in {"idle", "delete", "end"},
         sync'.step # "idle" => /\ sync'.listing = sync.listing /\ sync'.failed = sync.failed
                                /\ sync'.todo = sync.todo /\ sync'.vanished = sync.vanished
  PROVE  /\ dst' \in [Paths -> DestFile] /\ UploadsTyped' /\ Repeated'
         /\ \A p \in Paths : dst'[p].meta <= edits
         /\ ~hist.late => Written'
<1>1. Typed /\ Numbered /\ AllSent /\ Repeated /\ (~hist.late => Written)
  BY DEF IInv
<1>2. /\ dst' \in [Paths -> DestFile]
      /\ \A p \in gone : dst'[p].ver = None /\ dst'[p].meta = None
      /\ \A p \in Paths \ gone : dst'[p] = dst[p]
  BY <1>1, RemovedFields
<1>3. UploadsTyped' /\ Repeated'
  BY <1>1 DEF Typed, UploadsTyped, Free, Upload, Repeated, Flying
<1>4. \A p \in Paths : dst'[p].meta <= edits
  BY <1>1, <1>2, Parts DEF Numbered, None
<1>5. ASSUME ~hist.late PROVE Written'
  <2>1. Stamped'
    BY <1>1, <1>2, <1>5 DEF Written, Stamped, Fits
  <2>2. Copied'
    BY <1>1, <1>2, <1>5 DEF Written, Copied
  <2>3. ASSUME NEW h \in Handlers, Flying(h), upload[h].current,
               upload[h].step \in {"stamp", "ok"}
        PROVE  dst'[upload[h].path].ver = upload[h].ver
    <3>1. sync.listing[upload[h].path] = upload[h].meta
      BY <1>1, <2>3 DEF AllSent, Sent, Running
    <3>2. upload[h].path \in Paths \ gone
      BY <1>1, <2>3, <3>1, InFlight DEF None
    <3>3. QED
      BY <1>1, <1>2, <1>5, <2>3, <3>2 DEF Written, Replaced
  <2>4. Replaced'
    BY <2>3 DEF Replaced, Flying, Free
  <2>5. QED
    BY <2>1, <2>2, <2>4 DEF Written
<1>6. QED
  BY <1>2, <1>3, <1>4, <1>5

LEMMA DeletedField ==
  ASSUME Typed, NEW gone \in SUBSET Paths, hist' = [hist EXCEPT !.deleted = @ \cup gone]
  PROVE  /\ hist' \in History /\ hist'.gap = hist.gap /\ hist'.late = hist.late
         /\ hist'.deleted = hist.deleted \cup gone
<1>1. hist \in History
  BY Parts
<1>2. QED
  BY <1>1 DEF History

\* What goes on while files are deleted.
LEMMA DeletingStays ==
  ASSUME IInv, sync.step = "delete", UNCHANGED <<job, src, edits, upload>>,
         hist'.gap = hist.gap, sync'.step \in {"delete", "end"}, sync'.listing = sync.listing,
         sync'.scanned = sync.scanned, sync'.todo = sync.todo, sync'.attempt = sync.attempt,
         sync'.extra \subseteq sync.extra, \A p \in Paths : dst'[p].meta <= edits
  PROVE  Numbered' /\ Gaps' /\ Loop' /\ AllSent'
<1>1. Typed /\ Numbered /\ Gaps /\ Loop /\ AllSent
  BY DEF IInv
<1>2. Numbered'
  BY <1>1 DEF Numbered, Flying, Free
<1>3. Gaps'
  BY <1>1, GapsStay
<1>4. Loop'
  BY <1>1 DEF Loop
<1>5. AllSent'
  <2>1. sync'.todo = sync.todo \ {Least(sync.todo)}
    BY <1>1 DEF Loop
  <2>2. QED
    BY <1>1, <2>1, AllSentMoves
<1>6. QED
  BY <1>2, <1>3, <1>4, <1>5

LEMMA DeleteStep == ASSUME IInv, Delete PROVE IInv'
<1>1. Typed /\ Gaps /\ DeletedWasUnlisted
  BY DEF IInv
<1>2. /\ UNCHANGED <<job, src, upload, edits, faults>> /\ sync.step = "delete"
      /\ job.direction = "pull"
  BY DEF Delete
<1>3. CASE sync.extra = {}
  <2>1. sync' = [sync EXCEPT !.step = "end"] /\ UNCHANGED <<dst, hist>>
    BY <1>3 DEF Delete
  <2>2. /\ sync' \in Sync /\ sync'.step = "end" /\ sync'.scanned = sync.scanned
        /\ sync'.listing = sync.listing /\ sync'.todo = sync.todo
        /\ sync'.extra = sync.extra /\ sync'.attempt = sync.attempt
        /\ sync'.failed = sync.failed /\ sync'.vanished = sync.vanished
    BY <1>1, <2>1, Parts DEF Sync, SyncSteps
  <2>3. Typed'
    BY <1>1, <1>2, <2>1, <2>2, TypedBySync, Parts
  <2>4. \A p \in Paths : dst'[p].meta <= edits
    BY <2>1 DEF Numbered, IInv
  <2>5. Numbered' /\ Gaps' /\ Loop' /\ AllSent'
    BY <1>2, <2>1, <2>2, <2>4, DeletingStays
  <2>6. DeletedWasUnlisted'
    BY <1>1, <1>2, <2>1, DeletedStays
  <2>7. Repeated'
    BY <1>2 DEF IInv, Repeated, Flying, Free
  <2>8. (~hist.late => Written)'
    BY <1>2, <2>1, <2>2 DEF IInv, Written, Stamped, Replaced, Copied, Fits, Flying, Free
  <2>9. QED
    BY <2>3, <2>5, <2>6, <2>7, <2>8 DEF IInv
<1>4. CASE sync.extra # {}
  <2> DEFINE p == Least(sync.extra)
             x == sync.extra \ {p}
  <2>1. /\ sync' = [sync EXCEPT !.extra = x] /\ dst' = Removed(dst, {p})
        /\ hist' = [hist EXCEPT !.deleted = @ \cup {p}]
    BY <1>4 DEF Delete
  <2>2. p \in sync.extra /\ p \in Paths
    BY <1>1, <1>4, Parts, LeastIn
  <2>3. p \notin Excluded /\ sync.listing[p] = None /\ p \in hist.gap
    BY <1>1, <1>2, <2>2 DEF Gaps
  <2> HIDE DEF p
  <2>4. x \subseteq Paths /\ x \subseteq sync.extra
    BY <1>1, Parts
  <2> HIDE DEF x
  <2>5. /\ sync' \in Sync /\ sync'.step = "delete" /\ sync'.scanned = sync.scanned
        /\ sync'.listing = sync.listing /\ sync'.todo = sync.todo
        /\ sync'.extra = x /\ sync'.attempt = sync.attempt
        /\ sync'.failed = sync.failed /\ sync'.vanished = sync.vanished
    BY <1>1, <1>2, <2>1, <2>4, Parts DEF Sync
  <2>6. /\ hist' \in History /\ hist'.gap = hist.gap /\ hist'.late = hist.late
        /\ hist'.deleted = hist.deleted \cup {p}
    BY <1>1, <2>1, <2>2, DeletedField
  <2>7. /\ dst' \in [Paths -> DestFile] /\ UploadsTyped' /\ Repeated'
        /\ \A q \in Paths : dst'[q].meta <= edits
        /\ ~hist.late => Written'
    <3>1. {p} \in SUBSET Paths /\ \A q \in {p} : sync.listing[q] = None
      BY <2>2, <2>3
    <3>2. /\ UNCHANGED <<job, src, upload, edits>> /\ sync'.step \in {"idle", "delete", "end"}
      BY <1>2, <2>5
    <3>3. QED
      BY <1>2, <2>1, <2>5, <3>1, <3>2, GoneParts
  <2>8. Typed'
    BY <1>1, <1>2, <2>5, <2>6, <2>7, TypedByParts, Parts
  <2>9. Numbered' /\ Gaps' /\ Loop' /\ AllSent'
    BY <1>2, <2>4, <2>5, <2>6, <2>7, DeletingStays
  <2>10. DeletedWasUnlisted'
    BY <1>1, <1>2, <2>3, <2>6 DEF DeletedWasUnlisted
  <2>11. QED
    BY <2>6, <2>7, <2>8, <2>9, <2>10 DEF IInv
<1>5. QED
  BY <1>3, <1>4

\* What a prune removes, or a part of it.
LEMMA PruneParts ==
  ASSUME IInv, job.direction = "push", UNCHANGED job, sync.step = "delete",
         NEW some \in SUBSET Pruned, hist'.gap = hist.gap,
         hist'.deleted = hist.deleted \cup some
  PROVE  some \subseteq Paths /\ (\A p \in some : sync.listing[p] = None) /\ DeletedWasUnlisted'
<1>1. \A p \in some :
        /\ p \in Paths /\ sync.listing[p] = None
        /\ p \in Excluded => \A q \in Paths : Folder[q] = Folder[p] => sync.listing[q] = None
  BY DEF Pruned
<1>2. \A p \in Paths : sync.listing[p] = None => p \in Excluded \/ p \in hist.gap
  BY DEF IInv, Gaps
<1>3. DeletedWasUnlisted'
  BY <1>1, <1>2 DEF IInv, DeletedWasUnlisted
<1>4. QED
  BY <1>1, <1>3

LEMMA PruneStep == ASSUME IInv, Prune PROVE IInv'
<1>1. Typed
  BY DEF IInv
<1>2. /\ UNCHANGED <<job, src, upload, edits, faults>> /\ sync.step = "delete"
      /\ job.direction = "push" /\ sync' = [sync EXCEPT !.step = "end"]
      /\ dst' = Removed(dst, Pruned) /\ hist' = [hist EXCEPT !.deleted = @ \cup Pruned]
  BY DEF Prune
<1>3. Pruned \subseteq Paths
  BY DEF Pruned
<1>4. /\ sync' \in Sync /\ sync'.step = "end" /\ sync'.scanned = sync.scanned
      /\ sync'.listing = sync.listing /\ sync'.todo = sync.todo
      /\ sync'.extra = sync.extra /\ sync'.attempt = sync.attempt
      /\ sync'.failed = sync.failed /\ sync'.vanished = sync.vanished
  BY <1>1, <1>2, Parts DEF Sync, SyncSteps
<1>5. /\ hist' \in History /\ hist'.gap = hist.gap /\ hist'.late = hist.late
      /\ hist'.deleted = hist.deleted \cup Pruned
  BY <1>1, <1>2, <1>3, DeletedField
<1>6. (\A p \in Pruned : sync.listing[p] = None) /\ DeletedWasUnlisted'
  BY <1>2, <1>5, PruneParts
<1>7. /\ dst' \in [Paths -> DestFile] /\ UploadsTyped' /\ Repeated'
      /\ \A q \in Paths : dst'[q].meta <= edits
      /\ ~hist.late => Written'
  BY <1>2, <1>3, <1>4, <1>6, GoneParts
<1>8. Typed'
  BY <1>1, <1>2, <1>4, <1>5, <1>7, TypedByParts, Parts
<1>9. Numbered' /\ Gaps' /\ Loop' /\ AllSent'
  BY <1>2, <1>4, <1>5, <1>7, DeletingStays
<1>10. QED
  BY <1>5, <1>6, <1>7, <1>8, <1>9 DEF IInv

LEMMA PruneFailsStep == ASSUME IInv, PruneFails PROVE IInv'
<1>1. Typed /\ AllSent
  BY DEF IInv
<1>2. /\ UNCHANGED <<job, src, upload, edits>> /\ sync.step = "delete" /\ Fault
      /\ job.direction = "push" /\ sync' = Idle
  BY DEF PruneFails
<1>3. PICK some \in SUBSET Pruned :
        dst' = Removed(dst, some) /\ hist' = [hist EXCEPT !.deleted = @ \cup some]
  BY DEF PruneFails
<1>4. some \subseteq Paths
  BY DEF Pruned
<1>5. /\ hist' \in History /\ hist'.gap = hist.gap /\ hist'.late = hist.late
      /\ hist'.deleted = hist.deleted \cup some
  BY <1>1, <1>3, <1>4, DeletedField
<1>6. (\A p \in some : sync.listing[p] = None) /\ DeletedWasUnlisted'
  BY <1>2, <1>5, PruneParts
<1>7. sync'.step = "idle"
  BY <1>2, IdleFields
<1>8. /\ dst' \in [Paths -> DestFile] /\ UploadsTyped' /\ Repeated'
      /\ \A q \in Paths : dst'[q].meta <= edits
      /\ ~hist.late => Written'
  BY <1>2, <1>3, <1>4, <1>6, <1>7, GoneParts
<1>9. sync' \in Sync /\ Gaps' /\ Loop' /\ Numbered'
  BY <1>2, <1>5, <1>8, IdleParts
<1>10. Typed'
  BY <1>1, <1>2, <1>5, <1>8, <1>9, TypedByParts, Parts, FaultType
<1>11. AllSent'
  BY <1>1, <1>2, <1>7, AllSentIdle
<1>12. QED
  BY <1>5, <1>6, <1>8, <1>9, <1>10, <1>11 DEF IInv

-----------------------------------------------------------------------------
(* Uploads *)

LEMMA UploadSet ==
  ASSUME Typed, NEW h \in Handlers, NEW x \in {Free} \cup {u \in Upload : u.step # "free"},
         upload' = [upload EXCEPT ![h] = x]
  PROVE  /\ UploadsTyped' /\ upload'[h] = x
         /\ \A g \in Handlers \ {h} : upload'[g] = upload[g]
<1>1. upload \in [Handlers -> {Free} \cup {u \in Upload : u.step # "free"}]
  BY DEF Typed, UploadsTyped
<1>2. upload' \in [Handlers -> {Free} \cup {u \in Upload : u.step # "free"}]
  BY <1>1
<1>3. UploadsTyped'
  BY <1>2 DEF UploadsTyped, Free, Upload
<1>4. QED
  BY <1>1, <1>3

\* A request goes on, or is no longer awaited.
LEMMA UploadGoesOn ==
  ASSUME NEW u \in Upload, NEW st \in {"stamp", "ok", "error"}
  PROVE  LET x == [u EXCEPT !.step = st] IN
         /\ x \in {v \in Upload : v.step # "free"} /\ x.step = st /\ x.path = u.path
         /\ x.ver = u.ver /\ x.meta = u.meta /\ x.awaited = u.awaited
         /\ x.current = u.current
<1>1. [u EXCEPT !.step = st] \in Upload
  BY DEF Upload
<1>2. QED
  BY <1>1 DEF Upload

LEMMA UploadUnawaited ==
  ASSUME NEW u \in Upload, u.step # "free"
  PROVE  LET x == [u EXCEPT !.awaited = FALSE] IN
         /\ x \in {v \in Upload : v.step # "free"} /\ x.step = u.step /\ x.path = u.path
         /\ x.ver = u.ver /\ x.meta = u.meta /\ ~x.awaited
         /\ x.current = u.current
<1>1. [u EXCEPT !.awaited = FALSE] \in Upload
  BY DEF Upload
<1>2. QED
  BY <1>1 DEF Upload

\* The one request the worker waits for.
LEMMA TheAwaited ==
  ASSUME IInv, NEW h \in Handlers, Flying(h), upload[h].awaited
  PROVE  /\ \A g \in Handlers \ {h} : Flying(g) => ~upload[g].awaited
         /\ upload[h].current /\ sync.step = "wait" /\ sync.todo # {}
         /\ upload[h].path = Least(sync.todo) /\ Least(sync.todo) \in Paths
         /\ upload[h].ver >= sync.listing[Least(sync.todo)] /\ upload[h].ver = sync.content
         /\ upload[h].meta = sync.listing[Least(sync.todo)] /\ job.direction = "push"
<1>1. Sent(h) /\ Repeated /\ Loop /\ Typed
  BY DEF IInv, AllSent
<1>2. upload[h].current /\ sync.step = "wait" /\ upload[h].path = Least(sync.todo)
      /\ job.direction = "push"
  BY <1>1 DEF Sent
<1>3. sync.todo # {} /\ Least(sync.todo) \in sync.todo /\ Least(sync.todo) \in Paths
  BY <1>1, <1>2, Parts DEF Loop
<1>4. upload[h].meta = sync.listing[Least(sync.todo)] /\ upload[h].ver = sync.content
      /\ upload[h].ver >= upload[h].meta
  BY <1>1, <1>2, <1>3 DEF Sent, Running, Fits
<1>5. \A g \in Handlers \ {h} : Flying(g) => ~upload[g].awaited
  BY <1>1 DEF Repeated
<1>6. QED
  BY <1>2, <1>3, <1>4, <1>5

\* After the last answer, or the last attempt, the worker goes on to the next file.
LEMMA WaitMoves ==
  ASSUME IInv, NEW h \in Handlers, Flying(h), upload[h].awaited,
         UNCHANGED <<job, src, dst, hist, edits>>, faults' \in 0..MaxFaults,
         sync' \in Sync, sync'.step = "transfer", sync'.attempt = 0,
         sync'.todo = sync.todo \ {Least(sync.todo)}, sync'.listing = sync.listing,
         sync'.scanned = sync.scanned, sync'.extra = sync.extra,
         sync'.vanished = sync.vanished, UploadsTyped',
         \A g \in Handlers \ {h} : upload'[g] = upload[g],
         Flying(h)' => /\ upload'[h].step = upload[h].step /\ upload'[h].path = upload[h].path
                       /\ upload'[h].ver = upload[h].ver /\ upload'[h].meta = upload[h].meta
                       /\ ~upload'[h].awaited /\ upload'[h].current = upload[h].current
                       /\ upload[h].step \notin {"ok", "error"},
         sync'.failed \/ (upload[h].step = "ok" /\ sync'.failed = sync.failed)
  PROVE  IInv'
<1>1. Typed /\ Numbered /\ Gaps /\ DeletedWasUnlisted /\ Loop /\ AllSent /\ Repeated
      /\ (~hist.late => Written)
  BY DEF IInv
<1>2. /\ \A g \in Handlers \ {h} : Flying(g) => ~upload[g].awaited
      /\ upload[h].current /\ sync.step = "wait" /\ sync.todo # {}
      /\ upload[h].path = Least(sync.todo) /\ Least(sync.todo) \in Paths
      /\ upload[h].ver >= sync.listing[Least(sync.todo)] /\ upload[h].ver = sync.content
      /\ upload[h].meta = sync.listing[Least(sync.todo)] /\ job.direction = "push"
  BY TheAwaited
<1>3. \A g \in Handlers : Flying(g)' =>
        /\ Flying(g) /\ upload'[g].step = upload[g].step /\ upload'[g].path = upload[g].path
        /\ upload'[g].ver = upload[g].ver /\ upload'[g].meta = upload[g].meta
        /\ ~upload'[g].awaited /\ upload'[g].current = upload[g].current
  <2>1. \A g \in Handlers \ {h} : Flying(g)' => Flying(g)
    BY DEF Flying, Free
  <2>2. QED
    BY <1>2, <2>1
<1>4. Typed'
  BY <1>1, TypedByParts, Parts
<1>5. Numbered'
  <2>1. \A p \in Paths : dst'[p].meta <= edits
    BY <1>1 DEF Numbered
  <2>2. QED
    BY <1>1, <1>3, <2>1, NumberedStays
<1>6. Gaps'
  BY <1>1, <1>2, GapsStay
<1>7. DeletedWasUnlisted'
  BY <1>1, DeletedStays
<1>8. Loop'
  BY <1>1 DEF Loop
<1>9. AllSent'
  <2> SUFFICES ASSUME NEW g \in Handlers, Flying(g)'
               PROVE  Sent(g)'
    BY DEF AllSent
  <2>1. Sent(g) /\ Flying(g)
    BY <1>1, <1>3 DEF AllSent
  <2>2. upload'[g].step \notin {"ok", "error"}
    BY <1>2, <1>3, <2>1 DEF Sent
  <2>3. upload'[g].current => upload[g].path \notin sync'.todo
    BY <1>2, <1>3, <2>1 DEF Sent, Running
  <2>4. QED
    BY <1>2, <1>3, <2>1, <2>2, <2>3 DEF Sent, Fits, Running
<1>10. Repeated'
  BY <1>1, <1>3, RepeatedStays
<1>11. ASSUME ~hist.late PROVE Written'
  <2>1. Stamped' /\ Replaced'
    <3>1. Stamped'
      BY <1>1, <1>11 DEF Written, Stamped, Fits
    <3>2. ASSUME NEW g \in Handlers, Flying(g)', upload'[g].current,
                 upload'[g].step \in {"stamp", "ok"}
          PROVE  dst[upload'[g].path].ver = upload'[g].ver
      BY <1>1, <1>3, <1>11, <3>2 DEF Written, Replaced
    <3>3. Replaced'
      BY <3>2 DEF Replaced
    <3>4. QED
      BY <3>1, <3>3
  <2>2. CASE sync'.failed
    BY <2>1, <2>2 DEF Copied, Written
  <2>3. CASE upload[h].step = "ok" /\ sync'.failed = sync.failed
    <3>1. dst[Least(sync.todo)].ver >= sync.listing[Least(sync.todo)]
      BY <1>1, <1>2, <1>11, <2>3 DEF Written, Replaced
    <3>2. Copied'
      BY <1>1, <1>2, <1>11, <2>3, <3>1 DEF Written, Copied
    <3>3. QED
      BY <2>1, <3>2 DEF Written
  <2>4. QED
    BY <2>1, <2>2, <2>3 DEF Written
<1>12. QED
  BY <1>4, <1>5, <1>6, <1>7, <1>8, <1>9, <1>10, <1>11 DEF IInv

LEMMA AnswerStep == ASSUME IInv, NEW h \in Handlers, Answer(h) PROVE IInv'
<1> DEFINE n == NextFile(sync)
           f == n.failed \/ upload[h].step = "error"
<1>1. Typed
  BY DEF IInv
<1>2. /\ UNCHANGED <<job, src, dst, hist, edits, faults>>
      /\ upload[h].step \in {"ok", "error"} /\ upload' = [upload EXCEPT ![h] = Free]
      /\ sync' = [n EXCEPT !.failed = f]
  BY DEF Answer
<1>3. Flying(h) /\ upload[h].awaited
  BY <1>2 DEF IInv, AllSent, Sent, Flying, Free
<1>4. /\ n \in Sync /\ n.step = "transfer" /\ n.todo = sync.todo \ {Least(sync.todo)}
      /\ n.attempt = 0 /\ n.listing = sync.listing /\ n.scanned = sync.scanned
      /\ n.extra = sync.extra /\ n.failed = sync.failed /\ n.vanished = sync.vanished
  BY <1>1, NextFileFields
<1>5. f \in BOOLEAN /\ (f \/ (upload[h].step = "ok" /\ f = sync.failed))
  BY <1>1, <1>2, <1>4, Parts
<1> HIDE DEF n, f
<1>6. /\ sync' \in Sync /\ sync'.failed = f
  <2>1. \A b \in BOOLEAN : [n EXCEPT !.failed = b] \in Sync
    BY <1>4 DEF Sync
  <2>2. sync' \in Sync
    BY <1>2, <1>5, <2>1
  <2>3. QED
    BY <1>2, <1>4, <2>2 DEF Sync
<1>7. /\ sync'.step = n.step /\ sync'.todo = n.todo /\ sync'.attempt = n.attempt
      /\ sync'.listing = n.listing /\ sync'.scanned = n.scanned /\ sync'.extra = n.extra
      /\ sync'.vanished = n.vanished
  BY <1>2, <1>4 DEF Sync
<1>8. /\ UploadsTyped' /\ upload'[h] = Free
      /\ \A g \in Handlers \ {h} : upload'[g] = upload[g]
  <2>1. Free \in {Free} \cup {u \in Upload : u.step # "free"}
    OBVIOUS
  <2>2. QED
    BY <1>1, <1>2, <2>1, UploadSet
<1>9. ~Flying(h)'
  BY <1>8 DEF Flying, Free
<1>10. faults' \in 0..MaxFaults
  BY <1>1, <1>2, Parts
<1>11. sync'.failed \/ (upload[h].step = "ok" /\ sync'.failed = sync.failed)
  BY <1>5, <1>6
<1>12. QED
  BY <1>2, <1>3, <1>4, <1>6, <1>7, <1>8, <1>9, <1>10, <1>11, WaitMoves

LEMMA TimesOutStep == ASSUME IInv, NEW h \in Handlers, TimesOut(h) PROVE IInv'
<1> DEFINE x == IF upload[h].step \in {"ok", "error"} THEN Free
                ELSE [upload[h] EXCEPT !.awaited = FALSE]
           s == IF sync.attempt < Retries
                THEN [sync EXCEPT !.step = "transfer", !.attempt = @ + 1]
                ELSE [NextFile(sync) EXCEPT !.failed = TRUE]
<1>1. Typed /\ Numbered /\ Gaps /\ DeletedWasUnlisted /\ Loop /\ AllSent /\ Repeated
      /\ (~hist.late => Written)
  BY DEF IInv
<1>2. /\ UNCHANGED <<job, src, dst, hist, edits>> /\ Fault /\ sync.step = "wait"
      /\ Flying(h) /\ upload[h].awaited
      /\ upload' = [upload EXCEPT ![h] = x] /\ sync' = s
  BY DEF TimesOut, Flying
<1>3. faults' \in 0..MaxFaults
  BY <1>1, <1>2, FaultType
<1>4. /\ x \in {Free} \cup {u \in Upload : u.step # "free"}
      /\ x # Free => /\ x.step = upload[h].step /\ x.path = upload[h].path
                     /\ x.ver = upload[h].ver /\ x.meta = upload[h].meta
                     /\ ~x.awaited /\ x.current = upload[h].current
                     /\ upload[h].step \notin {"ok", "error"}
  <2>1. upload[h] \in Upload /\ upload[h].step # "free"
    BY <1>1, <1>2, InFlight
  <2> DEFINE y == [upload[h] EXCEPT !.awaited = FALSE]
  <2>2. /\ y \in {v \in Upload : v.step # "free"} /\ y.step = upload[h].step
        /\ y.path = upload[h].path
        /\ y.ver = upload[h].ver /\ y.meta = upload[h].meta /\ ~y.awaited
        /\ y.current = upload[h].current
    BY <2>1, UploadUnawaited
  <2> HIDE DEF y
  <2>3. x = IF upload[h].step \in {"ok", "error"} THEN Free ELSE y
    BY DEF y
  <2>4. QED
    BY <2>2, <2>3
<1> HIDE DEF x
<1>5. /\ UploadsTyped' /\ upload'[h] = x
      /\ \A g \in Handlers \ {h} : upload'[g] = upload[g]
  BY <1>1, <1>2, <1>4, UploadSet
<1>6. Flying(h)' => /\ upload'[h].step = upload[h].step /\ upload'[h].path = upload[h].path
                    /\ upload'[h].ver = upload[h].ver /\ upload'[h].meta = upload[h].meta
                    /\ ~upload'[h].awaited /\ upload'[h].current = upload[h].current
                    /\ upload[h].step \notin {"ok", "error"}
  BY <1>4, <1>5 DEF Flying, Free
<1>7. CASE sync.attempt >= Retries
  <2>1. s = [NextFile(sync) EXCEPT !.failed = TRUE]
    BY <1>1, <1>7, Parts
  <2>2. /\ s \in Sync /\ s.step = "transfer" /\ s.todo = sync.todo \ {Least(sync.todo)}
        /\ s.attempt = 0 /\ s.listing = sync.listing
        /\ s.scanned = sync.scanned /\ s.extra = sync.extra /\ s.failed
    BY <1>1, <2>1, FailedFields
  <2>3. s.vanished = sync.vanished
    <3> DEFINE n == NextFile(sync)
    <3>1. n \in Sync /\ n.vanished = sync.vanished
      BY <1>1, NextFileFields
    <3> HIDE DEF n
    <3>2. s = [n EXCEPT !.failed = TRUE]
      BY <2>1 DEF n
    <3> HIDE DEF s
    <3>3. QED
      BY <3>1, <3>2 DEF Sync
  <2> HIDE DEF s
  <2>4. QED
    BY <1>2, <1>3, <1>5, <1>6, <2>2, <2>3, WaitMoves
<1>8. CASE sync.attempt < Retries
  <2>1. sync' = [sync EXCEPT !.step = "transfer", !.attempt = sync.attempt + 1]
    BY <1>2, <1>8
  <2>2. sync.attempt + 1 \in 0..Retries /\ sync.attempt + 1 > 0
    BY <1>1, <1>8, Parts
  <2>3. /\ sync' \in Sync /\ sync'.step = "transfer" /\ sync'.scanned = sync.scanned
        /\ sync'.listing = sync.listing /\ sync'.todo = sync.todo
        /\ sync'.extra = sync.extra /\ sync'.attempt = sync.attempt + 1
        /\ sync'.content = sync.content /\ sync'.failed = sync.failed
        /\ sync'.vanished = sync.vanished
    BY <1>1, <2>1, <2>2, Parts DEF Sync, SyncSteps
  <2>4. \A g \in Handlers : Flying(g)' =>
          /\ Flying(g) /\ upload'[g].step = upload[g].step /\ upload'[g].path = upload[g].path
          /\ upload'[g].ver = upload[g].ver /\ upload'[g].meta = upload[g].meta
          /\ ~upload'[g].awaited /\ upload'[g].current = upload[g].current
          /\ upload[g].step \notin {"ok", "error"}
    <3>1. \A g \in Handlers \ {h} : Flying(g)' => Flying(g)
      BY <1>5 DEF Flying, Free
    <3>2. \A g \in Handlers \ {h} : Flying(g) => ~upload[g].awaited
      BY <1>2, TheAwaited
    <3>3. \A g \in Handlers \ {h} : Flying(g) => upload[g].step \notin {"ok", "error"}
      BY <1>1, <3>2 DEF AllSent, Sent
    <3>4. QED
      BY <1>2, <1>5, <1>6, <3>1, <3>2, <3>3
  <2>5. Typed'
    BY <1>1, <1>2, <1>3, <1>5, <2>3, TypedByParts, Parts
  <2>6. Numbered'
    <3>1. \A p \in Paths : dst'[p].meta <= edits
      BY <1>1, <1>2 DEF Numbered
    <3>2. QED
      BY <1>1, <1>2, <2>3, <2>4, <3>1, NumberedStays
  <2>7. Gaps'
    BY <1>1, <1>2, <2>3, GapsStay
  <2>8. DeletedWasUnlisted'
    BY <1>1, <1>2, DeletedStays
  <2>9. Loop'
    BY <1>1, <1>2, <2>2, <2>3 DEF Loop, Fits
  <2>10. AllSent'
    <3> SUFFICES ASSUME NEW g \in Handlers, Flying(g)'
                 PROVE  Sent(g)'
      BY DEF AllSent
    <3>1. Sent(g) /\ Flying(g)
      BY <1>1, <2>4 DEF AllSent
    <3>2. QED
      BY <1>2, <2>2, <2>3, <2>4, <3>1 DEF Sent, Fits, Running
  <2>11. Repeated'
    BY <1>1, <2>4, RepeatedStays
  <2>12. ASSUME ~hist.late PROVE Written'
    <3>1. Stamped'
      BY <1>1, <1>2, <2>12 DEF Written, Stamped, Fits
    <3>2. ASSUME NEW g \in Handlers, Flying(g)', upload'[g].current,
                 upload'[g].step \in {"stamp", "ok"}
          PROVE  dst'[upload'[g].path].ver = upload'[g].ver
      BY <1>1, <1>2, <2>4, <2>12, <3>2 DEF Written, Replaced
    <3>3. Replaced'
      BY <2>3, <3>2 DEF Replaced
    <3>4. Copied'
      BY <1>1, <1>2, <2>3, <2>12 DEF Written, Copied
    <3>5. QED
      BY <3>1, <3>3, <3>4 DEF Written
  <2>13. QED
    BY <1>2, <2>5, <2>6, <2>7, <2>8, <2>9, <2>10, <2>11, <2>12 DEF IInv
<1>9. QED
  BY <1>1, <1>7, <1>8, Parts

LEMMA AbandonStep == ASSUME IInv, Abandon PROVE IInv'
<1>1. Typed /\ Numbered /\ Gaps /\ DeletedWasUnlisted /\ Loop /\ AllSent /\ Repeated
      /\ (~hist.late => Written)
  BY DEF IInv
<1>2. /\ UNCHANGED <<job, src, dst, hist, edits>> /\ Fault /\ sync' = Idle
      /\ upload' = [h \in Handlers |->
           IF upload[h] = Free \/ upload[h].step \in {"ok", "error"}
           THEN Free ELSE [upload[h] EXCEPT !.awaited = FALSE]]
  BY DEF Abandon
<1>3. faults' \in 0..MaxFaults
  BY <1>1, <1>2, FaultType
<1>4. \A h \in Handlers : Flying(h)' =>
        /\ Flying(h) /\ upload'[h] \in {u \in Upload : u.step # "free"}
        /\ upload'[h].step = upload[h].step /\ upload'[h].path = upload[h].path
        /\ upload'[h].ver = upload[h].ver /\ upload'[h].meta = upload[h].meta
        /\ ~upload'[h].awaited /\ upload'[h].current = upload[h].current
        /\ upload[h].step \notin {"ok", "error"}
  <2> SUFFICES ASSUME NEW h \in Handlers, Flying(h)'
               PROVE  /\ Flying(h) /\ upload'[h] \in {u \in Upload : u.step # "free"}
                      /\ upload'[h].step = upload[h].step /\ upload'[h].path = upload[h].path
                      /\ upload'[h].ver = upload[h].ver /\ upload'[h].meta = upload[h].meta
                      /\ ~upload'[h].awaited /\ upload'[h].current = upload[h].current
                      /\ upload[h].step \notin {"ok", "error"}
    OBVIOUS
  <2> DEFINE y == [upload[h] EXCEPT !.awaited = FALSE]
  <2>1. Flying(h) /\ upload[h].step \notin {"ok", "error"} /\ upload'[h] = y
    BY <1>2 DEF Flying, Free
  <2>2. upload[h] \in Upload /\ upload[h].step # "free"
    BY <1>1, <2>1, InFlight
  <2>3. /\ y \in {v \in Upload : v.step # "free"} /\ y.step = upload[h].step
        /\ y.path = upload[h].path
        /\ y.ver = upload[h].ver /\ y.meta = upload[h].meta /\ ~y.awaited
        /\ y.current = upload[h].current
    BY <2>2, UploadUnawaited
  <2> HIDE DEF y
  <2>4. QED
    BY <2>1, <2>3
<1>5. UploadsTyped'
  <2>1. \A h \in Handlers : upload'[h] = Free \/ upload'[h] \in {u \in Upload : u.step # "free"}
    BY <1>4 DEF Flying, Free
  <2>2. upload' = [h \in Handlers |-> upload'[h]]
    BY <1>2
  <2>3. upload' \in [Handlers -> {Free} \cup {u \in Upload : u.step # "free"}]
    BY <2>1, <2>2
  <2>4. QED
    BY <2>3 DEF UploadsTyped, Free, Upload
<1>6. sync' \in Sync /\ Gaps' /\ Loop' /\ Copied' /\ sync'.step = "idle"
  <2>1. \A p \in Paths : dst'[p].meta <= edits
    BY <1>1, <1>2 DEF Numbered
  <2>2. QED
    BY <1>2, <2>1, IdleParts, IdleFields
<1>7. Typed'
  BY <1>1, <1>2, <1>3, <1>5, <1>6, TypedByParts, Parts
<1>8. Numbered'
  <2>1. \A p \in Paths : sync'.listing[p] = 0 /\ src[p].ver \in Nat /\ edits \in Nat
    BY <1>1, <1>2, IdleFields, Parts DEF None
  <2>2. \A h \in Handlers : Flying(h)' => upload'[h].meta <= edits
    BY <1>1, <1>4 DEF Numbered
  <2>3. \A p \in Paths : src[p].ver <= edits /\ dst[p].meta <= edits
    BY <1>1 DEF Numbered
  <2>4. QED
    BY <1>2, <2>1, <2>2, <2>3 DEF Numbered
<1>9. DeletedWasUnlisted'
  BY <1>1, <1>2, DeletedStays
<1>10. AllSent'
  <2> SUFFICES ASSUME NEW h \in Handlers, Flying(h)'
               PROVE  Sent(h)'
    BY DEF AllSent
  <2>1. Sent(h)
    BY <1>1, <1>4 DEF AllSent
  <2>2. QED
    BY <1>2, <1>4, <1>6, <2>1 DEF Sent, Fits, Running
<1>11. Repeated'
  BY <1>1, <1>4, RepeatedStays
<1>12. ASSUME ~hist.late PROVE Written'
  <2>1. Stamped'
    BY <1>1, <1>2, <1>12 DEF Written, Stamped, Fits
  <2>2. ASSUME NEW g \in Handlers, Flying(g)', upload'[g].current,
               upload'[g].step \in {"stamp", "ok"}
        PROVE  dst[upload'[g].path].ver = upload'[g].ver
    BY <1>1, <1>4, <1>12, <2>2 DEF Written, Replaced
  <2>3. Replaced'
    BY <1>2, <1>6, <2>2 DEF Replaced
  <2>4. QED
    BY <1>6, <2>1, <2>3 DEF Written
<1>13. QED
  BY <1>2, <1>6, <1>7, <1>8, <1>9, <1>10, <1>11, <1>12 DEF IInv

LEMMA SendStep == ASSUME IInv, NEW h \in Handlers, Send(h) PROVE IInv'
<1> DEFINE p == Least(sync.todo)
           c == IF sync.attempt = 0 THEN src[p].ver ELSE sync.content
           x == [step |-> "receive", path |-> p, ver |-> c, meta |-> sync.listing[p],
                 awaited |-> TRUE, current |-> TRUE]
<1>1. Typed /\ Numbered /\ Gaps /\ DeletedWasUnlisted /\ Loop /\ AllSent /\ Repeated
      /\ (~hist.late => Written)
  BY DEF IInv
<1>2. /\ UNCHANGED <<job, src, dst, hist, edits, faults>> /\ sync.step = "transfer"
      /\ sync.todo # {} /\ job.direction = "push" /\ ~Flying(h)
      /\ sync.attempt = 0 => src[p].ver # None
      /\ upload' = [upload EXCEPT ![h] = x]
      /\ sync' = [sync EXCEPT !.step = "wait", !.content = c]
  BY DEF Send, Flying
<1>3. p \in Paths /\ p \in sync.todo /\ sync.listing[p] \in 1..MaxVersion
      /\ sync.listing[p] <= edits
  <2>1. p \in Paths /\ p \in sync.todo
    BY <1>1, <1>2, Parts
  <2>2. sync.listing[p] \in 0..MaxVersion /\ sync.listing[p] # None
    BY <1>1, <2>1, Parts DEF Loop
  <2>3. sync.listing[p] <= edits
    BY <1>1, <2>1 DEF Numbered
  <2>4. sync.listing[p] \in 1..MaxVersion
    BY <2>2 DEF None
  <2>5. QED
    BY <2>1, <2>3, <2>4
<1>4. c \in 1..MaxVersion /\ c # None /\ Fits(p, sync.listing[p], c)
      /\ (sync.attempt > 0 => c = sync.content)
  <2>1. CASE sync.attempt = 0
    BY <1>1, <1>2, <1>3, <2>1, Parts DEF Numbered, Fits, None
  <2>2. CASE sync.attempt > 0
    BY <1>1, <1>2, <1>3, <2>2, Parts DEF Loop, None
  <2>3. QED
    BY <1>1, <2>1, <2>2, Parts
<1>5. /\ x \in {u \in Upload : u.step # "free"} /\ x # Free /\ x.step = "receive"
      /\ x.path = p /\ x.ver = c /\ x.meta = sync.listing[p] /\ x.awaited /\ x.current
  BY <1>3, <1>4 DEF Upload, Versions, Free
<1>6. /\ sync' \in Sync /\ sync'.step = "wait" /\ sync'.scanned = sync.scanned
      /\ sync'.listing = sync.listing /\ sync'.todo = sync.todo
      /\ sync'.extra = sync.extra /\ sync'.attempt = sync.attempt
      /\ sync'.content = c /\ sync'.failed = sync.failed
      /\ sync'.vanished = sync.vanished
  <2>1. c \in Versions \cup {None} /\ sync \in Sync
    BY <1>1, <1>4, Parts DEF Versions
  <2> HIDE DEF c
  <2>2. QED
    BY <1>2, <2>1 DEF Sync, SyncSteps
<1> HIDE DEF x, c
<1>7. /\ UploadsTyped' /\ upload'[h] = x /\ Flying(h)'
      /\ \A g \in Handlers \ {h} : upload'[g] = upload[g]
  <2>1. UploadsTyped' /\ upload'[h] = x /\ \A g \in Handlers \ {h} : upload'[g] = upload[g]
    BY <1>1, <1>2, <1>5, UploadSet
  <2>2. QED
    BY <1>5, <2>1 DEF Flying, Free
<1>8. \A g \in Handlers \ {h} : Flying(g)' => Flying(g) /\ ~upload[g].awaited
  <2>1. \A g \in Handlers \ {h} : Flying(g)' => Flying(g)
    BY <1>7 DEF Flying, Free
  <2>2. QED
    BY <1>1, <1>2, <2>1 DEF AllSent, Sent
<1>9. Typed'
  BY <1>1, <1>2, <1>6, <1>7, TypedByParts, Parts
<1>10. Numbered'
  <2>1. \A g \in Handlers : Flying(g)' => upload'[g].meta <= edits
    BY <1>1, <1>3, <1>5, <1>7, <1>8 DEF Numbered
  <2>2. QED
    BY <1>1, <1>2, <1>6, <2>1 DEF Numbered
<1>11. Gaps'
  BY <1>1, <1>2, <1>6, GapsStay
<1>12. DeletedWasUnlisted'
  BY <1>1, <1>2, DeletedStays
<1>13. Loop'
  BY <1>1, <1>2, <1>4, <1>6 DEF Loop, Fits
<1>14. AllSent'
  <2> SUFFICES ASSUME NEW g \in Handlers, Flying(g)'
               PROVE  Sent(g)'
    BY DEF AllSent
  <2>1. CASE g = h
    BY <1>2, <1>4, <1>5, <1>6, <1>7, <2>1 DEF Sent, Fits, Running
  <2>2. CASE g # h
    <3>1. Sent(g) /\ ~upload[g].awaited /\ upload'[g] = upload[g]
      BY <1>1, <1>7, <1>8, <2>2 DEF AllSent
    <3>2. QED
      BY <1>2, <1>4, <1>6, <3>1 DEF Sent, Fits, Running
  <2>3. QED
    BY <2>1, <2>2
<1>15. Repeated'
  <2>1. \A g \in Handlers \ {h} : Flying(g)' /\ upload'[g].current /\ upload'[g].path = p
          => upload'[g].ver = c
    BY <1>1, <1>2, <1>3, <1>4, <1>7, <1>8 DEF AllSent, Sent, Running
  <2>2. \A g, k \in Handlers \ {h} : Flying(g)' /\ Flying(k)' =>
          /\ ~upload'[g].awaited
          /\ upload'[g].current /\ upload'[k].current /\ upload'[g].path = upload'[k].path
               => upload'[g].ver = upload'[k].ver
    BY <1>1, <1>7, <1>8 DEF Repeated
  <2>3. QED
    BY <1>5, <1>7, <2>1, <2>2 DEF Repeated
<1>16. ASSUME ~hist.late PROVE Written'
  <2>1. Stamped'
    BY <1>1, <1>2, <1>16 DEF Written, Stamped, Fits
  <2>2. ASSUME NEW g \in Handlers, Flying(g)', upload'[g].current,
               upload'[g].step \in {"stamp", "ok"}
        PROVE  dst[upload'[g].path].ver = upload'[g].ver
    BY <1>1, <1>5, <1>7, <1>8, <1>16, <2>2 DEF Written, Replaced
  <2>3. Replaced'
    BY <1>2, <1>6, <2>2 DEF Replaced
  <2>4. Copied'
    BY <1>1, <1>2, <1>6, <1>16 DEF Written, Copied
  <2>5. QED
    BY <2>1, <2>3, <2>4 DEF Written
<1>17. QED
  BY <1>2, <1>9, <1>10, <1>11, <1>12, <1>13, <1>14, <1>15, <1>16 DEF IInv

-----------------------------------------------------------------------------
(* The server, and the source's owner *)

LEMMA LateField ==
  ASSUME Typed, NEW b \in BOOLEAN, hist' = [hist EXCEPT !.late = @ \/ b]
  PROVE  /\ hist' \in History /\ hist'.gap = hist.gap /\ hist'.deleted = hist.deleted
         /\ hist'.late = (hist.late \/ b)
<1>1. hist \in History
  BY Parts
<1> DEFINE l == hist.late \/ b
<1>2. l \in BOOLEAN /\ hist' = [hist EXCEPT !.late = l]
  OBVIOUS
<1>3. \A x \in BOOLEAN : [hist EXCEPT !.late = x] \in History
  BY <1>1 DEF History
<1> HIDE DEF l
<1>4. hist' \in History
  BY <1>2, <1>3
<1>5. /\ hist'.gap = hist.gap /\ hist'.deleted = hist.deleted /\ hist'.late = l
  BY <1>1, <1>2 DEF History
<1>6. QED
  BY <1>4, <1>5 DEF l

\* The answer of a request: what it becomes, and that no other one changes.
LEMMA Replied ==
  ASSUME Typed, NEW h \in Handlers, Flying(h), NEW st \in {"ok", "error"}, Reply(h, st)
  PROVE  /\ UploadsTyped' /\ \A g \in Handlers \ {h} : upload'[g] = upload[g]
         /\ Flying(h)' =>
              /\ upload[h].awaited /\ upload'[h].step = st /\ upload'[h].path = upload[h].path
              /\ upload'[h].ver = upload[h].ver /\ upload'[h].meta = upload[h].meta
              /\ upload'[h].awaited = upload[h].awaited
              /\ upload'[h].current = upload[h].current
<1> DEFINE y == [upload[h] EXCEPT !.step = st]
           x == IF upload[h].awaited THEN y ELSE Free
<1>1. upload' = [upload EXCEPT ![h] = x]
  BY DEF Reply
<1>2. upload[h] \in Upload /\ st \in {"stamp", "ok", "error"}
  BY InFlight
<1>3. /\ y \in {v \in Upload : v.step # "free"} /\ y.step = st /\ y.path = upload[h].path
      /\ y.ver = upload[h].ver /\ y.meta = upload[h].meta /\ y.awaited = upload[h].awaited
      /\ y.current = upload[h].current
  BY ONLY <1>2, UploadGoesOn, Zenon
<1> HIDE DEF y
<1>4. x \in {Free} \cup {u \in Upload : u.step # "free"}
  BY <1>3
<1> HIDE DEF x
<1>5. /\ UploadsTyped' /\ upload'[h] = x /\ \A g \in Handlers \ {h} : upload'[g] = upload[g]
  BY <1>1, <1>4, UploadSet
<1>6. Flying(h)' => upload[h].awaited /\ upload'[h] = y
  BY <1>5 DEF Flying, Free, x
<1>7. QED
  BY <1>3, <1>5, <1>6

\* A request that goes on at the server changes nothing else than its file.
LEMMA Served ==
  ASSUME IInv, NEW h \in Handlers, Flying(h), upload[h].step \in {"receive", "stamp"},
         UNCHANGED <<job, src, sync, edits>>, faults' \in 0..MaxFaults,
         hist' \in History, hist'.gap = hist.gap, hist'.deleted = hist.deleted,
         dst' \in [Paths -> DestFile], \A p \in Paths : dst'[p].meta <= edits, UploadsTyped',
         \A g \in Handlers \ {h} : upload'[g] = upload[g],
         Flying(h)' =>
           /\ upload'[h].path = upload[h].path
           /\ upload'[h].ver = upload[h].ver /\ upload'[h].meta = upload[h].meta
           /\ upload'[h].awaited = upload[h].awaited /\ upload'[h].current = upload[h].current
           /\ upload'[h].step \in {"ok", "error"} => upload[h].awaited
  PROVE  /\ Typed' /\ Numbered' /\ Gaps' /\ DeletedWasUnlisted' /\ Loop' /\ AllSent' /\ Repeated'
<1>1. Typed /\ Numbered /\ Gaps /\ DeletedWasUnlisted /\ Loop /\ AllSent /\ Repeated
  BY DEF IInv
<1>2. \A g \in Handlers : Flying(g)' =>
        /\ Flying(g) /\ upload'[g].path = upload[g].path
        /\ upload'[g].ver = upload[g].ver /\ upload'[g].meta = upload[g].meta
        /\ upload'[g].awaited = upload[g].awaited /\ upload'[g].current = upload[g].current
        /\ upload'[g].step \in {"ok", "error"} =>
             upload[g].awaited \/ upload[g].step \in {"ok", "error"}
  <2>1. \A g \in Handlers \ {h} : Flying(g)' => Flying(g)
    BY DEF Flying, Free
  <2>2. QED
    BY <2>1
<1>3. Typed'
  BY <1>1, TypedByParts, Parts
<1>4. Numbered'
  BY <1>1, <1>2, NumberedStays
<1>5. Gaps' /\ Loop'
  BY <1>1 DEF Gaps, Loop, Running, Fits
<1>6. DeletedWasUnlisted'
  BY <1>1, DeletedStays
<1>7. AllSent'
  <2> SUFFICES ASSUME NEW g \in Handlers, Flying(g)'
               PROVE  Sent(g)'
    BY DEF AllSent
  <2>1. Sent(g)
    BY <1>1, <1>2 DEF AllSent
  <2>2. QED
    BY <1>2, <2>1 DEF Sent, Fits, Running
<1>8. Repeated'
  BY <1>1, <1>2, RepeatedStays
<1>9. QED
  BY <1>3, <1>4, <1>5, <1>6, <1>7, <1>8

LEMMA ReplaceStep == ASSUME IInv, NEW h \in Handlers, Replace(h) PROVE IInv'
<1> DEFINE u == upload[h]
           b == ~u.current
           y == [u EXCEPT !.step = "stamp"]
<1>1. Typed /\ Numbered /\ Loop /\ AllSent /\ Repeated /\ (~hist.late => Written)
  BY DEF IInv
<1>2. /\ UNCHANGED <<job, src, sync, edits, faults>> /\ u.step = "receive"
      /\ dst' = [dst EXCEPT ![u.path] = [ver |-> u.ver, meta |-> JustWritten, plain |-> TRUE]]
      /\ upload' = [upload EXCEPT ![h] = y]
      /\ hist' = [hist EXCEPT !.late = @ \/ b]
  BY DEF Replace
<1>3. Flying(h)
  BY <1>2 DEF Flying, Free
<1>4. /\ u \in Upload /\ u.path \in Paths /\ u.ver \in 1..MaxVersion /\ u.current \in BOOLEAN
  BY <1>1, <1>3, InFlight
<1>5. /\ y \in {v \in Upload : v.step # "free"} /\ y.step = "stamp" /\ y.path = u.path
      /\ y.ver = u.ver /\ y.meta = u.meta /\ y.awaited = u.awaited /\ y.current = u.current
  BY <1>4, UploadGoesOn
<1> HIDE DEF y
<1>6. /\ UploadsTyped' /\ upload'[h] = y /\ \A g \in Handlers \ {h} : upload'[g] = upload[g]
  BY <1>1, <1>2, <1>5, UploadSet
<1>7. /\ hist' \in History /\ hist'.gap = hist.gap /\ hist'.deleted = hist.deleted
      /\ hist'.late = (hist.late \/ b)
  <2>1. b \in BOOLEAN
    OBVIOUS
  <2> HIDE DEF b
  <2>2. QED
    BY <1>1, <1>2, <2>1, LateField
<1>8. /\ dst' \in [Paths -> DestFile] /\ dst'[u.path].ver = u.ver /\ dst'[u.path].meta = None
      /\ \A q \in Paths \ {u.path} : dst'[q] = dst[q]
  BY <1>1, <1>2, <1>4, DestWritten DEF Versions
<1>9. \A p \in Paths : dst'[p].meta <= edits
  BY <1>1, <1>8, Parts DEF Numbered, None
<1>10. Typed' /\ Numbered' /\ Gaps' /\ DeletedWasUnlisted' /\ Loop' /\ AllSent' /\ Repeated'
  <2>1. faults' \in 0..MaxFaults
    BY <1>1, <1>2, Parts
  <2>2. Flying(h)' =>
           /\ upload'[h].path = upload[h].path
           /\ upload'[h].ver = upload[h].ver /\ upload'[h].meta = upload[h].meta
           /\ upload'[h].awaited = upload[h].awaited /\ upload'[h].current = upload[h].current
           /\ upload'[h].step \in {"ok", "error"} => upload[h].awaited
    BY <1>5, <1>6
  <2>3. QED
    BY <1>2, <1>3, <1>6, <1>7, <1>8, <1>9, <2>1, <2>2, Served
<1>11. ASSUME ~hist'.late PROVE Written'
  <2>1. ~hist.late /\ u.current /\ Written /\ job.direction = "push"
    BY <1>1, <1>3, <1>7, <1>11 DEF AllSent, Sent
  <2>2. Stamped'
    BY <1>1, <1>2, <1>4, <1>8, <2>1 DEF Written, Stamped, Fits, None
  <2>3. ASSUME NEW g \in Handlers, Flying(g)', upload'[g].current,
               upload'[g].step \in {"stamp", "ok"}
        PROVE  dst'[upload'[g].path].ver = upload'[g].ver
    <3>1. CASE g = h
      BY <1>5, <1>6, <1>8, <3>1
    <3>2. CASE g # h
      <4>1. Flying(g) /\ upload'[g] = upload[g]
        BY <1>6, <2>3, <3>2 DEF Flying, Free
      <4>2. upload[g].path = u.path => upload[g].ver = u.ver
        BY <1>1, <1>3, <2>1, <2>3, <4>1 DEF Repeated
      <4>3. upload[g].path \in Paths /\ dst[upload[g].path].ver = upload[g].ver
        BY <1>1, <2>1, <2>3, <4>1, InFlight DEF Written, Replaced
      <4>4. QED
        BY <1>8, <4>1, <4>2, <4>3
    <3>3. QED
      BY <3>1, <3>2
  <2>4. Replaced'
    BY <1>1, <1>2, <2>1, <2>3 DEF Replaced, Loop
  <2>5. sync.step # "idle" => u.ver >= sync.listing[u.path] /\ sync.step \notin {"scan", "compare"}
    BY <1>1, <1>3, <2>1 DEF AllSent, Sent, Running, Fits
  <2>6. Copied'
    BY <1>2, <1>8, <2>1, <2>5 DEF Written, Copied
  <2>7. QED
    BY <2>2, <2>4, <2>6 DEF Written
<1>12. QED
  BY <1>10, <1>11 DEF IInv

LEMMA UtimeStep == ASSUME IInv, NEW h \in Handlers, Utime(h) PROVE IInv'
<1> DEFINE u == upload[h]
           b == ~u.current
           st == IF dst[u.path].ver = None THEN "error" ELSE "ok"
<1>1. Typed /\ Numbered /\ Loop /\ AllSent /\ Repeated /\ (~hist.late => Written)
  BY DEF IInv
<1>2. /\ UNCHANGED <<job, src, sync, edits, faults>> /\ u.step = "stamp"
      /\ hist' = [hist EXCEPT !.late = @ \/ b] /\ Reply(h, st)
      /\ dst[u.path].ver = None => UNCHANGED dst
      /\ dst[u.path].ver # None => dst' = [dst EXCEPT ![u.path].meta = u.meta]
  BY DEF Utime
<1>3. Flying(h)
  BY <1>2 DEF Flying, Free
<1>4. /\ u.path \in Paths /\ u.meta \in Versions /\ u.meta <= edits
  BY <1>1, <1>3, InFlight DEF Versions, Numbered
<1>5. st \in {"ok", "error"} /\ (st = "ok" => dst[u.path].ver # None)
  OBVIOUS
<1> HIDE DEF st
<1>6. /\ UploadsTyped' /\ \A g \in Handlers \ {h} : upload'[g] = upload[g]
      /\ Flying(h)' =>
           /\ upload[h].awaited /\ upload'[h].step = st /\ upload'[h].path = upload[h].path
           /\ upload'[h].ver = upload[h].ver /\ upload'[h].meta = upload[h].meta
           /\ upload'[h].awaited = upload[h].awaited /\ upload'[h].current = upload[h].current
  BY <1>1, <1>2, <1>3, <1>5, Replied
<1>7. /\ hist' \in History /\ hist'.gap = hist.gap /\ hist'.deleted = hist.deleted
      /\ hist'.late = (hist.late \/ b)
  <2>1. b \in BOOLEAN
    OBVIOUS
  <2> HIDE DEF b
  <2>2. QED
    BY <1>1, <1>2, <2>1, LateField
<1>8. /\ dst' \in [Paths -> DestFile] /\ \A q \in Paths : dst'[q].ver = dst[q].ver
      /\ \A q \in Paths \ {u.path} : dst'[q] = dst[q]
      /\ dst[u.path].ver # None => dst'[u.path].meta = u.meta
      /\ dst[u.path].ver = None => dst' = dst
  <2>1. CASE dst[u.path].ver = None
    BY <1>1, <1>2, <2>1, Parts
  <2>2. CASE dst[u.path].ver # None
    <3>1. /\ dst' \in [Paths -> DestFile] /\ dst'[u.path].ver = dst[u.path].ver
          /\ dst'[u.path].meta = u.meta /\ \A q \in Paths \ {u.path} : dst'[q] = dst[q]
      BY <1>1, <1>2, <1>4, <2>2, DestStamped
    <3>2. QED
      BY <2>2, <3>1
  <2>3. QED
    BY <2>1, <2>2
<1>9. \A p \in Paths : dst'[p].meta <= edits
  BY <1>1, <1>4, <1>8 DEF Numbered
<1>10. Typed' /\ Numbered' /\ Gaps' /\ DeletedWasUnlisted' /\ Loop' /\ AllSent' /\ Repeated'
  <2>1. faults' \in 0..MaxFaults
    BY <1>1, <1>2, Parts
  <2>2. QED
    BY <1>2, <1>3, <1>6, <1>7, <1>8, <1>9, <2>1, Served
<1>11. ASSUME ~hist'.late PROVE Written'
  <2>1. ~hist.late /\ u.current /\ Written /\ Fits(u.path, u.meta, u.ver)
    BY <1>1, <1>3, <1>7, <1>11 DEF AllSent, Sent
  <2>2. dst[u.path].ver = u.ver
    BY <1>2, <1>3, <2>1 DEF Written, Replaced
  <2>3. Stamped'
    BY <1>2, <1>8, <2>1, <2>2 DEF Written, Stamped, Fits
  <2>4. ASSUME NEW g \in Handlers, Flying(g)', upload'[g].current,
               upload'[g].step \in {"stamp", "ok"}
        PROVE  dst'[upload'[g].path].ver = upload'[g].ver
    <3>1. CASE g = h
      BY <1>4, <1>6, <1>8, <2>2, <2>4, <3>1
    <3>2. CASE g # h
      <4>1. Flying(g) /\ upload'[g] = upload[g]
        BY <1>6, <2>4, <3>2 DEF Flying, Free
      <4>2. upload[g].path \in Paths /\ dst[upload[g].path].ver = upload[g].ver
        BY <1>1, <2>1, <2>4, <4>1, InFlight DEF Written, Replaced
      <4>3. QED
        BY <1>8, <4>1, <4>2
    <3>3. QED
      BY <3>1, <3>2
  <2>5. Replaced'
    <3>1. sync.step = "stamp" => dst'[Least(sync.todo)].ver = sync.content
      BY <1>1, <1>8, <2>1, Parts DEF Written, Replaced, Loop
    <3>2. QED
      BY <1>2, <2>4, <3>1 DEF Replaced
  <2>6. Copied'
    BY <1>2, <1>8, <2>1 DEF Written, Copied
  <2>7. QED
    BY <2>3, <2>5, <2>6 DEF Written
<1>12. QED
  BY <1>10, <1>11 DEF IInv

LEMMA UploadFailsStep == ASSUME IInv, NEW h \in Handlers, UploadFails(h) PROVE IInv'
<1>1. Typed /\ Numbered /\ Loop /\ AllSent /\ Repeated /\ (~hist.late => Written)
  BY DEF IInv
<1>2. /\ UNCHANGED <<job, src, dst, sync, hist, edits>> /\ Fault
      /\ upload[h].step \in {"receive", "stamp"} /\ Reply(h, "error")
  BY DEF UploadFails
<1>3. Flying(h)
  BY <1>2 DEF Flying, Free
<1>4. /\ UploadsTyped' /\ \A g \in Handlers \ {h} : upload'[g] = upload[g]
      /\ Flying(h)' =>
           /\ upload[h].awaited /\ upload'[h].step = "error" /\ upload'[h].path = upload[h].path
           /\ upload'[h].ver = upload[h].ver /\ upload'[h].meta = upload[h].meta
           /\ upload'[h].awaited = upload[h].awaited /\ upload'[h].current = upload[h].current
  BY <1>1, <1>2, <1>3, Replied
<1>5. Typed' /\ Numbered' /\ Gaps' /\ DeletedWasUnlisted' /\ Loop' /\ AllSent' /\ Repeated'
  <2>1. faults' \in 0..MaxFaults /\ hist' \in History /\ dst' \in [Paths -> DestFile]
    BY <1>1, <1>2, FaultType, Parts
  <2>2. \A p \in Paths : dst'[p].meta <= edits
    BY <1>1, <1>2 DEF Numbered
  <2>3. QED
    BY <1>2, <1>3, <1>4, <2>1, <2>2, Served
<1>6. ASSUME ~hist.late PROVE Written'
  <2>1. ASSUME NEW g \in Handlers, Flying(g)', upload'[g].current,
               upload'[g].step \in {"stamp", "ok"}
        PROVE  dst[upload'[g].path].ver = upload'[g].ver
    <3>1. g # h
      BY <1>4, <2>1
    <3>2. Flying(g) /\ upload'[g] = upload[g]
      BY <1>4, <2>1, <3>1 DEF Flying, Free
    <3>3. QED
      BY <1>1, <1>6, <2>1, <3>2 DEF Written, Replaced
  <2>2. QED
    BY <1>1, <1>2, <1>6, <2>1 DEF Written, Stamped, Replaced, Copied, Fits
<1>7. QED
  BY <1>2, <1>5, <1>6 DEF IInv

LEMMA EditStep == ASSUME IInv, NEW p \in Paths, Edit(p) PROVE IInv'
<1>1. Typed /\ Numbered /\ Gaps /\ DeletedWasUnlisted /\ Loop /\ AllSent /\ Repeated
      /\ (~hist.late => Written)
  BY DEF IInv
<1>2. PICK there, plain \in BOOLEAN :
        /\ there \/ plain
        /\ src' = [src EXCEPT ![p] = [ver |-> IF there THEN edits + 1 ELSE None, plain |-> plain]]
        /\ hist' = [hist EXCEPT !.gap = IF there /\ plain THEN @ ELSE @ \cup {p},
                                !.absent = IF there THEN @ ELSE @ \cup {p}]
  BY DEF Edit
<1>3. /\ UNCHANGED <<job, dst, sync, upload, faults>> /\ edits' = edits + 1
      /\ edits < MaxVersion
  BY DEF Edit
<1> DEFINE v == IF there THEN edits + 1 ELSE None
           gaps == IF there /\ plain THEN hist.gap ELSE hist.gap \cup {p}
           missing == IF there THEN hist.absent ELSE hist.absent \cup {p}
<1>4. /\ edits \in Nat /\ edits' \in 1..MaxVersion
      /\ v \in 0..MaxVersion /\ (v = None \/ v = edits + 1)
      /\ (v = None \/ ~plain => p \in gaps)
  BY <1>1, <1>3, Parts DEF None
<1>5. hist \in History
  BY <1>1, Parts
<1>6. hist.gap \subseteq gaps /\ gaps \subseteq Paths /\ missing \subseteq Paths
  BY <1>5 DEF History
<1>7. src' = [src EXCEPT ![p] = [ver |-> v, plain |-> plain]]
      /\ hist' = [hist EXCEPT !.gap = gaps, !.absent = missing]
  BY <1>2
<1> HIDE DEF v, gaps, missing
<1>8. /\ src' \in [Paths -> SourceFile] /\ src'[p].ver = v /\ src'[p].plain = plain
      /\ \A q \in Paths \ {p} : src'[q] = src[q]
  <2>1. Versions \cup {None} = 0..MaxVersion /\ src \in [Paths -> SourceFile]
    BY <1>1, Parts DEF Versions, None
  <2>2. [ver |-> v, plain |-> plain] \in SourceFile
    BY <1>4, <2>1 DEF SourceFile
  <2>3. QED
    BY <1>7, <2>1, <2>2
<1>9. /\ hist' \in History /\ hist'.gap = gaps /\ hist'.deleted = hist.deleted
      /\ hist'.late = hist.late
  BY <1>5, <1>6, <1>7 DEF History
<1>10. UploadsTyped' /\ Repeated'
  BY <1>1, <1>3 DEF Typed, UploadsTyped, Free, Upload, Repeated, Flying
<1>11. Typed'
  <2>1. TypeOK'
    <3>1. /\ job' \in Job /\ dst' \in [Paths -> DestFile] /\ sync' \in Sync
          /\ faults' \in 0..MaxFaults /\ edits' \in Versions
      BY <1>1, <1>3, <1>4, Parts DEF Versions
    <3>2. \A h \in Handlers : upload'[h].step = "free" \/ upload'[h] \in Upload
      BY <1>10 DEF UploadsTyped, Free, Upload
    <3>3. QED
      BY <1>8, <1>9, <3>1, <3>2 DEF TypeOK, Upload, Versions
  <2>2. QED
    BY <1>10, <2>1 DEF Typed
<1>12. Numbered'
  <2>1. ASSUME NEW q \in Paths
        PROVE  /\ src'[q].ver <= edits + 1 /\ dst[q].meta <= edits + 1
               /\ sync.listing[q] <= edits + 1
               /\ src'[q].ver # None => src'[q].ver >= sync.listing[q]
    <3>1. /\ src[q].ver <= edits /\ dst[q].meta <= edits /\ sync.listing[q] <= edits
          /\ src[q].ver # None => src[q].ver >= sync.listing[q]
      BY <1>1 DEF Numbered
    <3>2. /\ src[q].ver \in Nat /\ dst[q].meta \in Nat /\ sync.listing[q] \in Nat
      BY <1>1, Parts
    <3>3. CASE q = p
      BY <1>4, <1>8, <3>1, <3>2, <3>3 DEF None
    <3>4. CASE q # p
      <4>1. src'[q] = src[q]
        BY <1>8, <3>4
      <4>2. QED
        BY <1>4, <3>1, <3>2, <4>1
    <3>5. QED
      BY <3>3, <3>4
  <2>2. ASSUME NEW h \in Handlers, Flying(h)
        PROVE  upload[h].meta <= edits + 1
    BY <1>1, <1>4, <2>2, InFlight DEF Numbered
  <2>3. QED
    BY <1>3, <2>1, <2>2 DEF Numbered, Flying, Free
<1>13. Gaps'
  <2>1. \A q \in Paths : src'[q].ver = None \/ ~src'[q].plain =>
          sync.step = "idle" \/ q \in gaps
    BY <1>1, <1>4, <1>6, <1>8 DEF Gaps, Running
  <2>2. QED
    BY <1>1, <1>3, <1>6, <1>9, <2>1 DEF Gaps, Running
<1>14. DeletedWasUnlisted'
  BY <1>1, <1>3, <1>6, <1>9 DEF DeletedWasUnlisted
\* A new version fits nothing that is there, and disturbs nothing.
<1>15. \A q \in Paths, m, w \in Nat : m <= edits /\ Fits(q, m, w) =>
          w >= m /\ (m # None /\ src'[q].ver = m => w = m)
  BY <1>4, <1>8 DEF Fits, None
<1>16. Loop'
  <2>1. sync.step \in {"place", "stamp", "wait"} \/ sync.attempt > 0 =>
          Fits(Least(sync.todo), sync.listing[Least(sync.todo)], sync.content)'
    <3> SUFFICES ASSUME sync.step \in {"place", "stamp", "wait"} \/ sync.attempt > 0
                 PROVE  Fits(Least(sync.todo), sync.listing[Least(sync.todo)], sync.content)'
      OBVIOUS
    <3> DEFINE l == Least(sync.todo)
           c == sync.content
    <3>1. l \in Paths /\ Fits(l, sync.listing[l], c)
      BY <1>1, Parts DEF Loop
    <3>2. sync.listing[l] \in 0..MaxVersion /\ c \in 0..MaxVersion
      BY <1>1, <3>1, Parts
    <3>3. sync.listing[l] <= edits
      BY <1>1, <3>1 DEF Numbered
    <3>4. c >= sync.listing[l]
          /\ (sync.listing[l] # None /\ src'[l].ver = sync.listing[l] => c = sync.listing[l])
      <4> HIDE DEF l, c
      <4>1. sync.listing[l] \in Nat /\ c \in Nat
        BY <3>2
      <4>2. QED
        BY <1>15, <3>1, <3>3, <4>1
    <3>5. QED
      BY <1>3, <3>4 DEF Fits
  <2>2. QED
    BY <1>1, <1>3, <2>1 DEF Loop
<1>17. AllSent'
  <2> SUFFICES ASSUME NEW h \in Handlers, Flying(h)
               PROVE  Sent(h)'
    BY <1>3 DEF AllSent, Flying, Free
  <2>1. Sent(h)
    BY <1>1 DEF AllSent
  <2>2. /\ upload[h].path \in Paths /\ upload[h].meta \in Nat /\ upload[h].ver \in Nat
        /\ upload[h].meta <= edits
    BY <1>1, InFlight DEF Numbered
  <2>3. Fits(upload[h].path, upload[h].meta, upload[h].ver)'
    <3> DEFINE q == upload[h].path
               m == upload[h].meta
               w == upload[h].ver
    <3>1. Fits(q, m, w) /\ q \in Paths /\ m \in Nat /\ w \in Nat /\ m <= edits
      BY <2>1, <2>2 DEF Sent
    <3> HIDE DEF q, m, w
    <3>2. w >= m /\ (m # None /\ src'[q].ver = m => w = m)
      BY <1>15, <3>1
    <3> USE DEF q, m, w
    <3>3. QED
      BY <1>3, <3>2 DEF Fits
  <2>4. QED
    BY <1>3, <2>1, <2>3 DEF Sent, Running
<1>18. ASSUME ~hist.late PROVE Written'
  <2>1. ASSUME NEW q \in Paths, dst[q].ver # None
        PROVE  Fits(q, dst[q].meta, dst[q].ver)'
    <3> DEFINE m == dst[q].meta
               w == dst[q].ver
    <3>1. Fits(q, m, w) /\ m \in Nat /\ w \in Nat /\ m <= edits
      <4>1. Fits(q, m, w)
        BY <1>1, <1>18, <2>1 DEF Written, Stamped
      <4>2. m \in Nat /\ w \in Nat
        BY <1>1, Parts
      <4>3. m <= edits
        BY <1>1 DEF Numbered
      <4>4. QED
        BY <4>1, <4>2, <4>3
    <3> HIDE DEF m, w
    <3>2. w >= m /\ (m # None /\ src'[q].ver = m => w = m)
      BY <1>15, <3>1
    <3> USE DEF m, w
    <3>3. QED
      BY <1>3, <3>2 DEF Fits
  <2>2. Stamped'
    BY <1>3, <2>1 DEF Stamped
  <2>3. Replaced' /\ Copied'
    BY <1>1, <1>3, <1>18 DEF Written, Replaced, Copied, Flying, Free
  <2>4. QED
    BY <2>2, <2>3 DEF Written
<1>19. QED
  BY <1>9, <1>10, <1>11, <1>12, <1>13, <1>14, <1>16, <1>17, <1>18 DEF IInv

-----------------------------------------------------------------------------
(* The invariant, and what it says *)

LEMMA InitIInv == Init => IInv
<1> SUFFICES ASSUME Init PROVE IInv
  OBVIOUS
<1>1. /\ job \in Job /\ sync = Idle /\ edits = 2 /\ faults = 0
      /\ upload = [h \in Handlers |-> Free]
      /\ hist = [gap |-> {}, absent |-> {}, deleted |-> {}, late |-> FALSE]
      /\ src \in [Paths -> {[ver |-> None, plain |-> TRUE]} \cup [ver : {2}, plain : BOOLEAN]]
      /\ dst \in [Paths -> {NoFile} \cup [ver : {1}, meta : {1}, plain : BOOLEAN]]
  BY DEF Init
<1>2. 1 \in Versions /\ 2 \in Versions /\ 0 \in 0..MaxFaults
  BY DEF Versions
<1>3. src \in [Paths -> SourceFile] /\ \A p \in Paths : src[p].ver = None \/ src[p].ver = 2
  <2> DEFINE none == [ver |-> None, plain |-> TRUE]
             some == [ver : {2}, plain : BOOLEAN]
  <2>1. none \in SourceFile /\ none.ver = None
    BY DEF SourceFile
  <2>2. \A f \in some : f \in SourceFile
    BY <1>2 DEF SourceFile
  <2>3. \A f \in some : f.ver = 2
    OBVIOUS
  <2>4. src \in [Paths -> {none} \cup some]
    BY <1>1
  <2> HIDE DEF none, some
  <2>5. QED
    BY <2>1, <2>2, <2>3, <2>4
<1>4. /\ dst \in [Paths -> DestFile]
      /\ \A p \in Paths : \/ dst[p].ver = None /\ dst[p].meta = None
                          \/ dst[p].ver = 1 /\ dst[p].meta = 1
  <2> DEFINE some == [ver : {1}, meta : {1}, plain : BOOLEAN]
  <2>1. NoFile \in DestFile /\ NoFile.ver = None /\ NoFile.meta = None
    BY DEF DestFile, NoFile, None, JustWritten
  <2>2. \A f \in some : f \in DestFile
    BY <1>2 DEF DestFile
  <2>3. \A f \in some : f.ver = 1 /\ f.meta = 1
    OBVIOUS
  <2>4. dst \in [Paths -> {NoFile} \cup some]
    BY <1>1
  <2> HIDE DEF some
  <2>5. QED
    BY <2>1, <2>2, <2>3, <2>4
<1>5. hist \in History /\ hist.deleted = {} /\ ~hist.late
  BY <1>1 DEF History
<1>6. /\ sync \in Sync /\ sync.step = "idle" /\ sync.scanned = {} /\ sync.todo = {}
      /\ sync.extra = {} /\ sync.attempt = 0 /\ \A p \in Paths : sync.listing[p] = None
  BY <1>1, IdleFields
<1>7. \A h \in Handlers : ~Flying(h)
  BY <1>1 DEF Flying
<1>8. Typed
  BY <1>1, <1>2, <1>3, <1>4, <1>5, <1>6 DEF Typed, TypeOK, UploadsTyped, Free
<1>9. Numbered
  BY <1>1, <1>3, <1>4, <1>6, <1>7 DEF Numbered, None
<1>10. Gaps /\ DeletedWasUnlisted /\ Loop
  BY <1>5, <1>6 DEF Gaps, Running, DeletedWasUnlisted, Loop
<1>11. AllSent /\ Repeated
  BY <1>7 DEF AllSent, Repeated
<1>12. Written
  BY <1>3, <1>4, <1>6, <1>7 DEF Written, Stamped, Replaced, Copied, Fits, None
<1>13. QED
  BY <1>8, <1>9, <1>10, <1>11, <1>12 DEF IInv

LEMMA WorkIInv == ASSUME IInv, Work PROVE IInv'
<1>1. CASE Scanned BY <1>1, ScannedStep
<1>2. CASE Compare BY <1>2, CompareStep
<1>3. CASE Vanished BY <1>3, VanishedStep
<1>4. CASE Fetch BY <1>4, FetchStep
<1>5. CASE Place BY <1>5, PlaceStep
<1>6. CASE Stamp BY <1>6, StampStep
<1>7. CASE Transferred BY <1>7, TransferredStep
<1>8. CASE Delete BY <1>8, DeleteStep
<1>9. CASE Prune BY <1>9, PruneStep
<1>10. CASE EndSync BY <1>10, EndSyncStep
<1>11. ASSUME NEW p \in Paths, Scan(p) PROVE IInv' BY <1>11, ScanStep
<1>12. ASSUME NEW h \in Handlers, Send(h) PROVE IInv' BY <1>12, SendStep
<1>13. ASSUME NEW h \in Handlers, Answer(h) PROVE IInv' BY <1>13, AnswerStep
<1>14. QED
  BY <1>1, <1>2, <1>3, <1>4, <1>5, <1>6, <1>7, <1>8, <1>9, <1>10, <1>11, <1>12, <1>13 DEF Work

LEMMA StutterIInv == ASSUME IInv, UNCHANGED vars PROVE IInv'
<1>1. UNCHANGED <<job, src, dst, sync, upload, hist, edits, faults>>
  BY DEF vars
<1>2. Typed /\ Numbered /\ Gaps /\ DeletedWasUnlisted /\ Loop /\ AllSent /\ Repeated
      /\ (~hist.late => Written)
  BY DEF IInv
<1>3. Typed'
  BY <1>1, <1>2 DEF Typed, TypeOK, UploadsTyped, Free, Upload, Versions
<1>4. Numbered' /\ Gaps' /\ DeletedWasUnlisted' /\ Loop'
  BY <1>1, <1>2 DEF Numbered, Gaps, DeletedWasUnlisted, Loop, Running, Fits, Flying, Free
<1>5. AllSent' /\ Repeated'
  BY <1>1, <1>2 DEF AllSent, Sent, Repeated, Running, Fits, Flying, Free
<1>6. (~hist.late => Written)'
  BY <1>1, <1>2 DEF Written, Stamped, Replaced, Copied, Fits, Flying, Free
<1>7. QED
  BY <1>3, <1>4, <1>5, <1>6 DEF IInv

LEMMA NextIInv == IInv /\ [Next]_vars => IInv'
<1> SUFFICES ASSUME IInv, [Next]_vars PROVE IInv'
  OBVIOUS
<1>1. CASE StartSync BY <1>1, StartSyncStep
<1>2. CASE Work BY <1>2, WorkIInv
<1>3. CASE Mishap
  <2>1. CASE TransferFails BY <2>1, TransferFailsStep
  <2>2. CASE PruneFails BY <2>2, PruneFailsStep
  <2>3. CASE Abandon BY <2>3, AbandonStep
  <2>4. ASSUME NEW h \in Handlers, TimesOut(h) PROVE IInv' BY <2>4, TimesOutStep
  <2>5. ASSUME NEW h \in Handlers, UploadFails(h) PROVE IInv' BY <2>5, UploadFailsStep
  <2>6. QED
    BY <1>3, <2>1, <2>2, <2>3, <2>4, <2>5 DEF Mishap
<1>4. ASSUME NEW h \in Handlers, Serve(h) PROVE IInv'
  BY <1>4, ReplaceStep, UtimeStep DEF Serve
<1>5. ASSUME NEW p \in Paths, Edit(p) PROVE IInv'
  BY <1>5, EditStep
<1>6. CASE UNCHANGED vars BY <1>6, StutterIInv
<1>7. QED
  BY <1>1, <1>2, <1>3, <1>4, <1>5, <1>6 DEF Next

\* The inductive invariant holds, of a push as of a pull, whatever is edited
\* meanwhile and whatever times out.
THEOREM Invariance == Spec => []IInv
<1>1. Init => IInv
  BY InitIInv
<1>2. IInv /\ [Next]_vars => IInv'
  BY NextIInv
<1>3. QED
  BY <1>1, <1>2, PTL DEF Spec

\* Every variable keeps its type: the worker's record, the requests at the
\* server, both trees.
THEOREM TypeCorrect == Spec => []TypeOK
<1>1. IInv => TypeOK
  BY DEF IInv, Typed
<1>2. QED
  BY <1>1, Invariance, PTL

\* A file that the next comparison takes for unchanged is unchanged: no edit,
\* no repetition of a request and no interrupted run leaves a file with the
\* source's size and time over another content, as long as no request of an
\* earlier run arrives late.
THEOREM UnchangedIsUnchanged == Spec => []SameTimeSameContent
<1>1. IInv => SameTimeSameContent
  <2> SUFFICES ASSUME IInv, ~hist.late, NEW p \in Paths, src[p].ver # None, dst[p].ver # None,
                      dst[p].meta = src[p].ver
               PROVE  dst[p].ver = src[p].ver
    BY DEF SameTimeSameContent
  <2>1. Fits(p, dst[p].meta, dst[p].ver)
    BY DEF IInv, Written, Stamped
  <2>2. QED
    BY <2>1 DEF Fits
<1>2. QED
  BY <1>1, Invariance, PTL

\* A run that ends without failed files has brought each file of its manifest
\* to that version at least, except what had vanished before it was sent.
THEOREM SuccessIsTrue == Spec => []SuccessCopied
<1>1. IInv => SuccessCopied
  <2> SUFFICES ASSUME IInv, sync.step = "end", ~sync.failed, ~hist.late,
                      NEW p \in Paths \ sync.vanished, sync.listing[p] # None
               PROVE  dst[p].ver >= sync.listing[p]
    BY DEF SuccessCopied
  <2>1. sync.todo = {}
    BY DEF IInv, Loop
  <2>2. QED
    BY <2>1 DEF IInv, Written, Copied
<1>2. QED
  BY <1>1, Invariance, PTL

\* A run deletes no file that could be listed all through it, and an excluded
\* one only by a push, with a folder in which nothing was listed.
THEOREM DeletionHasCause == Spec => []DeletedWasUnlisted
<1>1. IInv => DeletedWasUnlisted
  BY DEF IInv
<1>2. QED
  BY <1>1, Invariance, PTL

-----------------------------------------------------------------------------
(* Versions go forward *)

\* A content of p that is neither older than what the destination has nor newer than
\* what the source has.
Current(p, ver) ==
  /\ dst[p].ver <= ver /\ ver <= edits
  /\ src[p].ver # None => ver <= src[p].ver

\* The worker has read the file it is at.
Holding == sync.step \in {"place", "stamp", "wait"} \/ sync.attempt > 0

\* A request of this run that has not replaced its file yet.
Arriving(h) == Flying(h) /\ upload[h].current /\ upload[h].step = "receive"

\* Whatever is held anywhere is not older than what it will replace.
Forward ==
  /\ \A p \in Paths : Current(p, dst[p].ver)
  /\ Holding => Current(Least(sync.todo), sync.content)
  /\ \A h \in Handlers : Arriving(h) => Current(upload[h].path, upload[h].ver)

\* No file of the destination gets older.
Grows == \A p \in Paths : dst'[p].ver # None => dst'[p].ver >= dst[p].ver

LEMMA Numbers ==
  TypeOK => /\ \A p \in Paths : src[p].ver \in Nat /\ dst[p].ver \in Nat
            /\ edits \in Nat
  BY DEF TypeOK, SourceFile, DestFile, Versions, None

\* What is held stays current while the source goes on and files disappear.
LEMMA CurrentStays ==
  ASSUME IInv, IInv', NEW p \in Paths, NEW n \in Nat, Current(p, n), edits' >= edits,
         src'[p].ver \in {src[p].ver, None} \/ src'[p].ver > edits,
         dst'[p].ver \in {dst[p].ver, None}
  PROVE  Current(p, n)'
<1>1. /\ dst[p].ver \in Nat /\ dst'[p].ver \in Nat /\ edits \in Nat /\ edits' \in Nat
      /\ src[p].ver \in Nat /\ src'[p].ver \in Nat
  <2>1. TypeOK /\ TypeOK'
    BY DEF IInv, Typed
  <2>2. /\ \A q \in Paths : src'[q].ver \in Nat /\ dst'[q].ver \in Nat
        /\ edits' \in Nat
    BY <2>1 DEF TypeOK, SourceFile, DestFile, Versions, None
  <2>3. QED
    BY <2>1, <2>2, Numbers
<1>2. QED
  BY <1>1 DEF Current, None

\* A step that reads nothing and writes no content.
LEMMA ForwardStays ==
  ASSUME IInv, IInv', Forward, edits' >= edits,
         \A p \in Paths : /\ src'[p].ver \in {src[p].ver, None} \/ src'[p].ver > edits
                          /\ dst'[p].ver \in {dst[p].ver, None},
         Holding' => Holding /\ sync'.todo = sync.todo /\ sync'.content = sync.content,
         \A h \in Handlers : Arriving(h)' =>
           Arriving(h) /\ upload'[h].path = upload[h].path /\ upload'[h].ver = upload[h].ver
  PROVE  Forward' /\ Grows
<1>1. Typed /\ Loop
  BY DEF IInv
<1>2. \A p \in Paths : dst[p].ver \in Nat
  BY <1>1, Parts
<1>3. Grows
  BY <1>2 DEF Grows
<1>4. ASSUME NEW p \in Paths PROVE Current(p, dst[p].ver)'
  <2>1. CASE dst'[p].ver = dst[p].ver
    <3>1. Current(p, dst[p].ver)
      BY DEF Forward
    <3>2. PICK n \in Nat : n = dst[p].ver
      BY <1>2
    <3>3. Current(p, n)'
      BY <3>1, <3>2, CurrentStays
    <3>4. QED
      BY <2>1, <3>2, <3>3 DEF Current
  <2>2. CASE dst'[p].ver = None
    <3>1. TypeOK'
      BY DEF IInv, Typed
    <3>2. edits' \in Nat /\ src'[p].ver \in Nat
      BY <3>1 DEF TypeOK, SourceFile, Versions, None
    <3>3. QED
      BY <2>2, <3>2 DEF Current, None
  <2>3. QED
    BY <2>1, <2>2
<1>5. Holding' => Current(Least(sync.todo), sync.content)'
  <2>1. SUFFICES ASSUME Holding' PROVE Current(Least(sync.todo), sync.content)'
    OBVIOUS
  <2>2. Holding /\ sync'.todo = sync.todo /\ sync'.content = sync.content
    BY <2>1
  <2>3. Least(sync.todo) \in Paths /\ sync.content \in Nat
    BY <1>1, <2>2, Parts DEF Holding, Loop
  <2>4. PICK p \in Paths, n \in Nat : p = Least(sync.todo) /\ n = sync.content
    BY <2>3
  <2>5. Current(p, n)'
    BY <2>2, <2>4, CurrentStays DEF Forward
  <2>6. Least(sync'.todo) = Least(sync.todo)
    BY <2>2
  <2>7. QED
    BY <2>2, <2>4, <2>5, <2>6 DEF Current
<1>6. ASSUME NEW h \in Handlers, Arriving(h)' PROVE Current(upload[h].path, upload[h].ver)'
  <2>1. Arriving(h) /\ upload'[h].path = upload[h].path /\ upload'[h].ver = upload[h].ver
    BY <1>6
  <2>2. upload[h].path \in Paths /\ upload[h].ver \in Nat
    BY <1>1, <2>1, InFlight DEF Arriving
  <2>3. PICK p \in Paths, n \in Nat : p = upload[h].path /\ n = upload[h].ver
    BY <2>2
  <2>4. Current(p, n)'
    BY <2>1, <2>3, CurrentStays DEF Forward
  <2>5. QED
    BY <2>1, <2>3, <2>4 DEF Current
<1>7. QED
  BY <1>3, <1>4, <1>5, <1>6 DEF Forward

\* The worker between files, and what ends a file or the run.
LEMMA PassesForward ==
  ASSUME IInv, IInv', Forward,
         \/ StartSync \/ Scanned \/ Compare \/ Vanished \/ TransferFails \/ Transferred \/ EndSync
         \/ \E p \in Paths : Scan(p)
  PROVE  Forward' /\ Grows
<1>1. Typed /\ Loop /\ sync \in Sync /\ edits \in Nat
  BY Parts DEF IInv
<1>2. UNCHANGED <<src, dst, edits>>
  BY DEF StartSync, Scanned, Compare, Vanished, TransferFails, Transferred, EndSync, Scan
<1>3. \A h \in Handlers : Arriving(h)' =>
        Arriving(h) /\ upload'[h].path = upload[h].path /\ upload'[h].ver = upload[h].ver
  <2>1. CASE StartSync
    <3>1. ASSUME NEW h \in Handlers, Flying(h) PROVE ~upload'[h].current
      <4>1. upload'[h] = [upload[h] EXCEPT !.current = FALSE]
        BY <2>1, <3>1 DEF StartSync, Flying
      <4>2. QED
        BY <1>1, <3>1, <4>1, InFlight DEF Upload
    <3>2. \A h \in Handlers : ~Flying(h) => ~Flying(h)'
      BY <2>1 DEF StartSync, Flying
    <3>3. QED
      BY <3>1, <3>2 DEF Arriving
  <2>2. CASE ~StartSync
    <3>1. UNCHANGED upload
      BY <2>2 DEF Scanned, Compare, Vanished, TransferFails, Transferred, EndSync, Scan
    <3>2. QED
      BY <3>1 DEF Arriving, Flying, Free
  <2>3. QED
    BY <2>1, <2>2
<1>4. Holding' => Holding /\ sync'.todo = sync.todo /\ sync'.content = sync.content
  <2>1. CASE StartSync
    <3>1. sync' = [Idle EXCEPT !.step = "scan"]
      BY <2>1 DEF StartSync
    <3>2. sync'.step = "scan" /\ sync'.attempt = 0
      BY <3>1, IdleFields DEF Sync
    <3>3. QED
      BY <3>2 DEF Holding
  <2>2. CASE EndSync
    BY <2>2, IdleFields DEF EndSync, Holding
  <2>3. CASE Vanished
    <3>1. sync' = [NextFile(sync) EXCEPT !.vanished = @ \cup {Least(sync.todo)}]
      BY <2>3 DEF Vanished
    <3>2. sync'.step = "transfer" /\ sync'.attempt = 0
      BY <1>1, <3>1, NextFileFields DEF Sync
    <3>3. QED
      BY <3>2 DEF Holding
  <2>4. CASE TransferFails
    BY <1>1, <2>4, FailedFields DEF TransferFails, Holding
  <2>5. CASE Scanned \/ Compare \/ Transferred
    <3>1. sync.attempt = 0 \/ Transferred
      BY <1>1, <2>5 DEF Scanned, Compare, Loop
    <3>2. sync'.step \in {"compare", "transfer", "delete", "end"} /\ sync'.attempt = sync.attempt
      BY <1>1, <2>5 DEF Scanned, Compare, Transferred, Sync
    <3>3. Transferred => sync'.todo = sync.todo /\ sync'.content = sync.content
      BY <1>1 DEF Transferred, Sync
    <3>4. QED
      BY <3>1, <3>2, <3>3 DEF Holding
  <2>6. CASE \E p \in Paths : Scan(p)
    BY <1>1, <2>6 DEF Scan, Holding, Sync, Loop
  <2>7. QED
    BY <2>1, <2>2, <2>3, <2>4, <2>5, <2>6
<1>5. QED
  BY <1>1, <1>2, <1>3, <1>4, ForwardStays

\* Deletions.
LEMMA DeletesForward ==
  ASSUME IInv, IInv', Forward, Delete \/ Prune \/ PruneFails
  PROVE  Forward' /\ Grows
<1>1. Typed /\ Loop /\ sync \in Sync /\ edits \in Nat /\ sync.extra \subseteq Paths
  BY Parts DEF IInv
<1>2. UNCHANGED <<src, upload, edits>> /\ sync.step = "delete"
  BY DEF Delete, Prune, PruneFails
<1>3. ~Holding'
  <2>1. sync.attempt = 0
    BY <1>1, <1>2 DEF Loop
  <2>2. CASE Delete
    BY <1>1, <1>2, <2>1, <2>2 DEF Delete, Sync, Holding
  <2>3. CASE Prune
    BY <1>1, <2>1, <2>3 DEF Prune, Sync, Holding
  <2>4. CASE PruneFails
    BY <2>4, IdleFields DEF PruneFails, Holding
  <2>5. QED
    BY <2>2, <2>3, <2>4
<1>4. \A p \in Paths : dst'[p].ver \in {dst[p].ver, None}
  <2>1. UNCHANGED dst \/ \E gone \in SUBSET Paths : dst' = Removed(dst, gone)
    <3>1. Pruned \subseteq Paths
      BY DEF Pruned
    <3>2. CASE Delete
      <4>1. sync.extra # {} => Least(sync.extra) \in Paths
        BY <1>1, LeastIn
      <4>2. QED
        BY <3>2, <4>1 DEF Delete
    <3>3. CASE Prune \/ PruneFails
      BY <3>1, <3>3 DEF Prune, PruneFails
    <3>4. QED
      BY <3>2, <3>3
  <2>2. QED
    BY <1>1, <2>1, RemovedFields
<1>5. QED
  BY <1>1, <1>2, <1>3, <1>4, ForwardStays DEF Arriving, Flying, Free

\* What lies at the source is current.
LEMMA SourceIsCurrent ==
  ASSUME IInv, Forward, NEW p \in Paths, src[p].ver # None
  PROVE  src[p].ver \in Nat /\ Current(p, src[p].ver)
<1>1. src[p].ver \in Nat /\ dst[p].ver \in Nat /\ src[p].ver <= edits
  BY Numbers DEF IInv, Typed, Numbered
<1>2. Current(p, dst[p].ver)
  BY DEF Forward
<1>3. QED
  BY <1>1, <1>2 DEF Current

\* A file is read, by the worker or to be sent.
LEMMA ForwardByReading ==
  ASSUME IInv, Forward, UNCHANGED <<src, dst, edits>>,
         NEW p \in Paths, NEW n \in Nat, Current(p, n),
         Holding' => Least(sync'.todo) = p /\ sync'.content = n,
         \A h \in Handlers : Arriving(h)' =>
           \/ Arriving(h) /\ upload'[h].path = upload[h].path /\ upload'[h].ver = upload[h].ver
           \/ upload'[h].path = p /\ upload'[h].ver = n
  PROVE  Forward' /\ Grows
<1>1. \A q \in Paths : Current(q, dst[q].ver)'
  BY DEF Forward, Current
<1>2. Holding' => Current(Least(sync.todo), sync.content)'
  BY DEF Current
<1>3. \A h \in Handlers : Arriving(h)' => Current(upload[h].path, upload[h].ver)'
  BY DEF Forward, Current
<1>4. Grows
  BY Numbers DEF IInv, Typed, Grows
<1>5. QED
  BY <1>1, <1>2, <1>3, <1>4 DEF Forward

\* A file is replaced by a current content.
LEMMA ForwardByWriting ==
  ASSUME IInv, Forward, UNCHANGED <<src, edits>>,
         NEW p \in Paths, NEW n \in Nat, Current(p, n), dst'[p].ver = n,
         \A q \in Paths \ {p} : dst'[q] = dst[q],
         Holding' => /\ Holding /\ sync'.todo = sync.todo /\ sync'.content = sync.content
                     /\ Least(sync.todo) = p => sync.content = n,
         \A h \in Handlers : Arriving(h)' =>
           /\ Arriving(h) /\ upload'[h].path = upload[h].path /\ upload'[h].ver = upload[h].ver
           /\ upload[h].path = p => upload[h].ver = n
  PROVE  Forward' /\ Grows
<1>1. \A q \in Paths, m \in Nat : Current(q, m) /\ (q = p => m = n) => Current(q, m)'
  BY DEF Current
<1>2. \A q \in Paths : dst[q].ver \in Nat
  BY Numbers DEF IInv, Typed
<1>3. ASSUME NEW q \in Paths PROVE Current(q, dst[q].ver)'
  <2>1. CASE q = p
    BY <2>1 DEF Current
  <2>2. CASE q # p
    BY <2>2 DEF Forward, Current
  <2>3. QED
    BY <2>1, <2>2
<1>4. ASSUME Holding' PROVE Current(Least(sync.todo), sync.content)'
  <2>1. Least(sync.todo) \in Paths /\ sync.content \in Nat
    BY <1>4, Parts DEF IInv, Holding, Loop
  <2>2. Least(sync'.todo) = Least(sync.todo) /\ sync'.content = sync.content
    BY <1>4
  <2>3. PICK q \in Paths, m \in Nat : q = Least(sync.todo) /\ m = sync.content
    BY <2>1
  <2>4. Current(q, m)'
    BY <1>1, <1>4, <2>3 DEF Forward
  <2>5. QED
    BY <2>2, <2>3, <2>4 DEF Current
<1>5. ASSUME NEW h \in Handlers, Arriving(h)' PROVE Current(upload[h].path, upload[h].ver)'
  <2>1. /\ Arriving(h) /\ upload'[h].path = upload[h].path /\ upload'[h].ver = upload[h].ver
        /\ upload[h].path = p => upload[h].ver = n
    BY <1>5
  <2>2. upload[h].path \in Paths /\ upload[h].ver \in Nat
    BY <2>1, InFlight DEF IInv, Arriving
  <2>3. PICK q \in Paths, m \in Nat : q = upload[h].path /\ m = upload[h].ver
    BY <2>2
  <2>4. Current(q, m)'
    BY <1>1, <2>1, <2>3 DEF Forward
  <2>5. QED
    BY <2>1, <2>3, <2>4 DEF Current
<1>6. Grows
  BY <1>2 DEF Grows, Current
<1>7. QED
  BY <1>3, <1>4, <1>5, <1>6 DEF Forward

\* A download.
LEMMA PullsForward ==
  ASSUME IInv, IInv', Forward, Fetch \/ Place \/ Stamp
  PROVE  Forward' /\ Grows
<1>1. Typed /\ Loop /\ sync \in Sync /\ edits \in Nat /\ dst \in [Paths -> DestFile]
      /\ sync.todo \subseteq Paths
  BY Parts DEF IInv
<1>2. UNCHANGED <<src, upload, edits>>
  BY DEF Fetch, Place, Stamp
<1>3. \A h \in Handlers : ~Flying(h)
  BY PullIsQuiet DEF IInv, Fetch, Place, Stamp, Loop
<1>4. \A h \in Handlers : ~Arriving(h) /\ ~Arriving(h)'
  BY <1>2, <1>3 DEF Arriving, Flying, Free
<1>5. sync.todo # {}
  BY <1>1 DEF Fetch, Place, Stamp, Loop
<1>6. PICK p \in Paths : p = Least(sync.todo)
  BY <1>1, <1>5, Parts
<1>7. CASE Fetch
  <2>1. UNCHANGED dst
    BY <1>7 DEF Fetch
  <2>2. CASE src[p].ver = None
    <3>1. sync' = [NextFile(sync) EXCEPT !.failed = TRUE]
      BY <1>6, <1>7, <2>2 DEF Fetch
    <3>2. ~Holding'
      BY <1>1, <3>1, FailedFields DEF Holding
    <3>3. QED
      BY <1>1, <1>2, <1>4, <2>1, <3>2, ForwardStays
  <2>3. CASE src[p].ver # None
    <3>1. sync' = [sync EXCEPT !.step = "place", !.content = src[p].ver]
      BY <1>6, <1>7, <2>3 DEF Fetch
    <3>2. sync'.todo = sync.todo /\ sync'.content = src[p].ver
      BY <1>1, <3>1 DEF Sync
    <3>3. Least(sync'.todo) = p
      BY <1>6, <3>2
    <3>4. src[p].ver \in Nat /\ Current(p, src[p].ver)
      BY <2>3, SourceIsCurrent
    <3>5. QED
      BY <1>2, <1>4, <2>1, <3>2, <3>3, <3>4, ForwardByReading
  <2>4. QED
    BY <2>2, <2>3
<1>8. CASE Place
  <2>1. sync.content \in Nat /\ sync.content \in Versions /\ sync.step = "place"
    BY <1>1, <1>8, Parts DEF Place, Loop, Versions, None
  <2>2. Current(p, sync.content)
    BY <1>6, <2>1 DEF Forward, Holding
  <2>3. dst' = [dst EXCEPT ![p] = [ver |-> sync.content, meta |-> JustWritten, plain |-> TRUE]]
    BY <1>6, <1>8 DEF Place
  <2>4. dst'[p].ver = sync.content /\ \A q \in Paths \ {p} : dst'[q] = dst[q]
    BY <1>1, <2>1, <2>3, DestWritten
  <2>5. sync'.todo = sync.todo /\ sync'.content = sync.content
    BY <1>1, <1>8 DEF Place, Sync
  <2>6. Holding
    BY <2>1 DEF Holding
  <2>7. QED
    BY <1>2, <1>4, <2>1, <2>2, <2>4, <2>5, <2>6, ForwardByWriting
<1>9. CASE Stamp
  <2>1. sync.listing[p] \in Versions
    <3>1. p \in sync.todo
      BY <1>1, <1>5, <1>6, Parts
    <3>2. sync.listing[p] # None /\ sync.listing[p] \in 0..MaxVersion
      BY <1>1, <1>6, <3>1, Parts DEF Loop
    <3>3. QED
      BY <3>2 DEF Versions, None
  <2>2. dst' = [dst EXCEPT ![p].meta = sync.listing[p]]
    BY <1>6, <1>9 DEF Stamp
  <2>3. dst'[p].ver = dst[p].ver /\ \A q \in Paths \ {p} : dst'[q] = dst[q]
    BY <1>1, <2>1, <2>2, DestStamped
  <2>4. \A q \in Paths : dst'[q].ver \in {dst[q].ver, None}
    BY <2>3
  <2>5. ~Holding'
    BY <1>1, <1>9, NextFileFields DEF Stamp, Holding
  <2>6. QED
    BY <1>1, <1>2, <1>4, <2>4, <2>5, ForwardStays
<1>10. QED
  BY <1>7, <1>8, <1>9

\* An upload is sent: with what the source has now, or with what was read for the
\* attempt before.
LEMMA SendsForward ==
  ASSUME IInv, Forward, NEW h \in Handlers, Send(h)
  PROVE  Forward' /\ Grows
<1> DEFINE c == IF sync.attempt = 0 THEN src[Least(sync.todo)].ver ELSE sync.content
           x == [step |-> "receive", path |-> Least(sync.todo), ver |-> c,
                 meta |-> sync.listing[Least(sync.todo)], awaited |-> TRUE, current |-> TRUE]
<1>1. Typed /\ sync \in Sync /\ sync.todo # {}
  BY Parts DEF IInv, Send
<1>2. PICK p \in Paths : p = Least(sync.todo)
  BY <1>1, Parts
<1>3. c \in Nat /\ Current(p, c)
  <2>1. CASE sync.attempt = 0
    <3>1. src[p].ver # None
      BY <1>2, <2>1 DEF Send
    <3>2. QED
      BY <1>2, <2>1, <3>1, SourceIsCurrent
  <2>2. CASE sync.attempt # 0
    <3>1. sync.attempt > 0 /\ sync.content \in Nat
      BY <1>1, <2>2, Parts
    <3>2. QED
      BY <1>2, <2>2, <3>1 DEF Forward, Holding
  <2>3. QED
    BY <2>1, <2>2
<1>4. /\ UNCHANGED <<src, dst, edits>> /\ upload' = [upload EXCEPT ![h] = x]
      /\ sync' = [sync EXCEPT !.step = "wait", !.content = c]
  BY DEF Send
<1>5. x.path = p /\ x.ver = c
  BY <1>2
<1> HIDE DEF c, x
<1>6. sync'.todo = sync.todo /\ sync'.content = c
  BY <1>1, <1>4 DEF Sync
<1>7. Least(sync'.todo) = p
  BY <1>2, <1>6
<1>8. upload'[h] = x /\ \A g \in Handlers \ {h} : upload'[g] = upload[g]
  BY <1>1, <1>4 DEF Typed, UploadsTyped
<1>9. \A g \in Handlers : Arriving(g)' =>
        \/ Arriving(g) /\ upload'[g].path = upload[g].path /\ upload'[g].ver = upload[g].ver
        \/ upload'[g].path = p /\ upload'[g].ver = c
  BY <1>5, <1>8 DEF Arriving, Flying, Free
<1>10. QED
  BY <1>3, <1>4, <1>6, <1>7, <1>9, ForwardByReading

\* A request that only loses its waiter, or ends.
LEMMA StillArriving ==
  ASSUME NEW h \in Handlers,
         \/ upload'[h] \in {Free, upload[h]}
         \/ Typed /\ Flying(h) /\ upload'[h] = [upload[h] EXCEPT !.awaited = FALSE]
         \/ Typed /\ Flying(h) /\ upload'[h] = [upload[h] EXCEPT !.current = FALSE]
  PROVE  Arriving(h)' =>
           Arriving(h) /\ upload'[h].path = upload[h].path /\ upload'[h].ver = upload[h].ver
<1>1. CASE upload'[h] \in {Free, upload[h]}
  BY <1>1 DEF Arriving, Flying, Free
<1>2. CASE Typed /\ Flying(h) /\ upload'[h] = [upload[h] EXCEPT !.awaited = FALSE]
  <2>1. upload[h] \in Upload
    BY <1>2, InFlight
  <2>2. QED
    BY <1>2, <2>1 DEF Arriving, Upload
<1>3. CASE Typed /\ Flying(h) /\ upload'[h] = [upload[h] EXCEPT !.current = FALSE]
  <2>1. upload[h] \in Upload
    BY <1>3, InFlight
  <2>2. QED
    BY <1>3, <2>1 DEF Arriving, Upload
<1>4. QED
  BY <1>1, <1>2, <1>3

\* The answer of an upload, or none.
LEMMA WaitsForward ==
  ASSUME IInv, IInv', Forward, NEW h \in Handlers, Answer(h) \/ TimesOut(h)
  PROVE  Forward' /\ Grows
<1>1. Typed /\ Loop /\ sync \in Sync /\ edits \in Nat /\ sync.step = "wait"
  BY Parts DEF IInv, Answer, TimesOut
<1>2. UNCHANGED <<src, dst, edits>>
  BY DEF Answer, TimesOut
<1>3. upload \in [Handlers -> {Free} \cup {u \in Upload : u.step # "free"}]
  BY <1>1 DEF Typed, UploadsTyped
<1>4. \A g \in Handlers : Arriving(g)' =>
        Arriving(g) /\ upload'[g].path = upload[g].path /\ upload'[g].ver = upload[g].ver
  <2>1. \A g \in Handlers \ {h} : upload'[g] = upload[g]
    BY <1>3 DEF Answer, TimesOut
  <2>2. CASE Answer(h)
    <3>1. upload'[h] = Free
      BY <1>3, <2>2 DEF Answer
    <3>2. QED
      BY <2>1, <3>1, StillArriving
  <2>3. CASE TimesOut(h)
    <3>1. upload'[h] = Free \/ upload'[h] = [upload[h] EXCEPT !.awaited = FALSE]
      BY <1>3, <2>3 DEF TimesOut
    <3>2. Flying(h)
      BY <2>3 DEF TimesOut, Flying
    <3>3. QED
      BY <1>1, <2>1, <3>1, <3>2, StillArriving
  <2>4. QED
    BY <2>2, <2>3
<1>5. Holding' => Holding /\ sync'.todo = sync.todo /\ sync'.content = sync.content
  <2>1. CASE Answer(h)
    <3> DEFINE n == NextFile(sync)
               f == n.failed \/ upload[h].step = "error"
    <3>1. n \in Sync /\ n.step = "transfer" /\ n.attempt = 0
      BY <1>1, NextFileFields
    <3>2. sync' = [n EXCEPT !.failed = f]
      BY <2>1 DEF Answer
    <3> HIDE DEF n, f
    <3>3. sync'.step = "transfer" /\ sync'.attempt = 0
      BY <3>1, <3>2 DEF Sync
    <3>4. QED
      BY <3>3 DEF Holding
  <2>2. CASE TimesOut(h) /\ sync.attempt < Retries
    <3>1. sync' = [sync EXCEPT !.step = "transfer", !.attempt = sync.attempt + 1]
      BY <2>2 DEF TimesOut
    <3>2. sync'.todo = sync.todo /\ sync'.content = sync.content
      BY <1>1, <3>1 DEF Sync
    <3>3. QED
      BY <1>1, <3>2 DEF Holding
  <2>3. CASE TimesOut(h) /\ ~(sync.attempt < Retries)
    <3>1. sync' = [NextFile(sync) EXCEPT !.failed = TRUE]
      BY <2>3 DEF TimesOut
    <3>2. QED
      BY <1>1, <3>1, FailedFields DEF Holding
  <2>4. QED
    BY <2>1, <2>2, <2>3
<1>6. QED
  BY <1>1, <1>2, <1>4, <1>5, ForwardStays

\* The run is given up; what it has sent stays with the server.
LEMMA AbandonForward ==
  ASSUME IInv, IInv', Forward, Abandon
  PROVE  Forward' /\ Grows
<1>1. Typed /\ edits \in Nat
  BY Parts DEF IInv
<1>2. UNCHANGED <<src, dst, edits>> /\ sync' = Idle
  BY DEF Abandon
<1>3. ~Holding'
  BY <1>2, IdleFields DEF Holding
<1>4. ASSUME NEW h \in Handlers
      PROVE  Arriving(h)' =>
               Arriving(h) /\ upload'[h].path = upload[h].path /\ upload'[h].ver = upload[h].ver
  <2>1. \/ upload'[h] = Free
        \/ Flying(h) /\ upload'[h] = [upload[h] EXCEPT !.awaited = FALSE]
    BY DEF Abandon, Flying
  <2>2. QED
    BY <1>1, <2>1, StillArriving
<1>5. QED
  BY <1>1, <1>2, <1>3, <1>4, ForwardStays

\* A request ends at the server, with its file stamped or not.
LEMMA EndsForward ==
  ASSUME IInv, IInv', Forward, NEW h \in Handlers, Utime(h) \/ UploadFails(h)
  PROVE  Forward' /\ Grows
<1>1. Typed /\ edits \in Nat
  BY Parts DEF IInv
<1>2. UNCHANGED <<src, sync, edits>> /\ Flying(h)
  BY DEF Utime, UploadFails, Flying, Free
<1>3. PICK st \in {"ok", "error"} : Reply(h, st)
  BY DEF Utime, UploadFails
<1>4. /\ \A g \in Handlers \ {h} : upload'[g] = upload[g]
      /\ Flying(h)' => upload'[h].step = st
  BY <1>1, <1>2, <1>3, Replied
<1>5. \A g \in Handlers : Arriving(g)' =>
        Arriving(g) /\ upload'[g].path = upload[g].path /\ upload'[g].ver = upload[g].ver
  <2>1. ~Arriving(h)'
    BY <1>3, <1>4 DEF Arriving
  <2>2. QED
    BY <1>4, <2>1, StillArriving
<1>6. \A p \in Paths : dst'[p].ver \in {dst[p].ver, None}
  <2>1. CASE UNCHANGED dst
    BY <2>1
  <2>2. CASE dst' = [dst EXCEPT ![upload[h].path].meta = upload[h].meta]
    <3>1. upload[h].path \in Paths /\ upload[h].meta \in Versions
      BY <1>1, <1>2, InFlight DEF Versions
    <3>2. PICK p \in Paths, m \in Versions : p = upload[h].path /\ m = upload[h].meta
      BY <3>1
    <3>3. dst' = [dst EXCEPT ![p].meta = m]
      BY <2>2, <3>2
    <3>4. dst'[p].ver = dst[p].ver /\ \A q \in Paths \ {p} : dst'[q] = dst[q]
      BY <1>1, <3>3, DestStamped
    <3>5. QED
      BY <3>4
  <2>3. QED
    BY <2>1, <2>2 DEF Utime, UploadFails
<1>7. Holding' => Holding /\ sync'.todo = sync.todo /\ sync'.content = sync.content
  BY <1>2 DEF Holding
<1>8. QED
  BY <1>1, <1>2, <1>5, <1>6, <1>7, ForwardStays

\* A request of this run replaces its file.
LEMMA ReplacesForward ==
  ASSUME IInv, IInv', Forward, NEW h \in Handlers, Replace(h), ~hist'.late
  PROVE  Forward' /\ Grows
<1>1. Typed /\ Loop /\ AllSent /\ Repeated
  BY DEF IInv
<1>2. UNCHANGED <<src, sync, edits>> /\ Flying(h) /\ upload[h].step = "receive"
  BY DEF Replace, Flying, Free
<1>3. /\ upload[h] \in Upload /\ upload[h].path \in Paths /\ upload[h].ver \in Versions
      /\ upload[h].ver \in Nat /\ upload[h].current \in BOOLEAN
  BY <1>1, <1>2, InFlight DEF Versions
<1>4. upload[h].current
  <2> DEFINE b == ~upload[h].current
  <2>1. hist' = [hist EXCEPT !.late = @ \/ b] /\ b \in BOOLEAN
    BY DEF Replace
  <2> HIDE DEF b
  <2>2. hist'.late = (hist.late \/ b)
    BY <1>1, <2>1, LateField
  <2>3. QED
    BY <2>2 DEF b
<1>5. PICK p \in Paths, n \in Versions : p = upload[h].path /\ n = upload[h].ver
  BY <1>3
<1>6. n \in Nat /\ Current(p, n)
  BY <1>2, <1>3, <1>4, <1>5 DEF Forward, Arriving
<1>7. dst' = [dst EXCEPT ![p] = [ver |-> n, meta |-> JustWritten, plain |-> TRUE]]
  BY <1>5 DEF Replace
<1>8. dst'[p].ver = n /\ \A q \in Paths \ {p} : dst'[q] = dst[q]
  BY <1>1, <1>7, DestWritten
<1>9. \A g \in Handlers : Arriving(g)' =>
        /\ Arriving(g) /\ upload'[g].path = upload[g].path /\ upload'[g].ver = upload[g].ver
        /\ upload[g].path = p => upload[g].ver = n
  <2>1. upload' = [upload EXCEPT ![h].step = "stamp"]
    BY DEF Replace
  <2>2. \A g \in Handlers \ {h} : upload'[g] = upload[g]
    BY <2>1
  <2>3. upload'[h].step = "stamp"
    <3>1. upload \in [Handlers -> {Free} \cup {u \in Upload : u.step # "free"}]
      BY <1>1 DEF Typed, UploadsTyped
    <3>2. upload'[h] = [upload[h] EXCEPT !.step = "stamp"]
      BY <2>1, <3>1
    <3>3. QED
      BY <1>3, <3>2, UploadGoesOn
  <2>4. \A g \in Handlers : Arriving(g)' =>
          Arriving(g) /\ upload'[g].path = upload[g].path /\ upload'[g].ver = upload[g].ver
    <3>1. ~Arriving(h)'
      BY <2>3 DEF Arriving
    <3>2. QED
      BY <2>2, <3>1, StillArriving
  <2>5. \A g \in Handlers : Arriving(g) /\ upload[g].path = p => upload[g].ver = n
    BY <1>1, <1>2, <1>4, <1>5 DEF Repeated, Arriving
  <2>6. QED
    BY <2>4, <2>5
<1>10. Holding' => /\ Holding /\ sync'.todo = sync.todo /\ sync'.content = sync.content
                   /\ Least(sync.todo) = p => sync.content = n
  <2>1. Holding /\ Least(sync.todo) = p => sync.content = n
    <3>1. SUFFICES ASSUME Holding, Least(sync.todo) = p PROVE sync.content = n
      OBVIOUS
    <3>2. Running /\ sync.todo # {}
      BY <1>1, <3>1 DEF Holding, Loop, Running
    <3>3. p \in sync.todo
      BY <1>1, <3>1, <3>2, Parts
    <3>4. QED
      BY <1>1, <1>2, <1>4, <1>5, <3>2, <3>3 DEF AllSent, Sent
  <2>2. QED
    BY <1>2, <2>1 DEF Holding
<1>11. QED
  BY <1>2, <1>6, <1>8, <1>9, <1>10, ForwardByWriting

\* The source's owner.
LEMMA EditsForward ==
  ASSUME IInv, IInv', Forward, NEW p \in Paths, Edit(p)
  PROVE  Forward' /\ Grows
<1>1. Typed /\ edits \in Nat /\ src \in [Paths -> SourceFile]
  BY Parts DEF IInv
<1>2. UNCHANGED <<dst, sync, upload>> /\ edits' = edits + 1
  BY DEF Edit
<1>3. \A q \in Paths : src'[q].ver \in {src[q].ver, None} \/ src'[q].ver > edits
  <2>1. PICK v \in {None, edits + 1}, plain \in BOOLEAN :
          src' = [src EXCEPT ![p] = [ver |-> v, plain |-> plain]]
    BY DEF Edit
  <2>2. src'[p].ver = v /\ \A q \in Paths \ {p} : src'[q] = src[q]
    BY <1>1, <2>1
  <2>3. QED
    BY <1>1, <2>1, <2>2
<1>4. edits' >= edits
  BY <1>1, <1>2
<1>5. Holding' => Holding /\ sync'.todo = sync.todo /\ sync'.content = sync.content
  BY <1>2 DEF Holding
<1>6. \A h \in Handlers : Arriving(h)' =>
        Arriving(h) /\ upload'[h].path = upload[h].path /\ upload'[h].ver = upload[h].ver
  BY <1>2 DEF Arriving, Flying, Free
<1>7. QED
  BY <1>2, <1>3, <1>4, <1>5, <1>6, ForwardStays

LEMMA InitForward == Init => Forward
<1> SUFFICES ASSUME Init PROVE Forward
  OBVIOUS
<1>1. IInv
  BY InitIInv
<1>2. sync = Idle /\ upload = [h \in Handlers |-> Free] /\ edits = 2
  BY DEF Init
<1>3. ~Holding /\ \A h \in Handlers : ~Arriving(h)
  BY <1>2, IdleFields DEF Holding, Arriving, Flying
<1>4. ASSUME NEW p \in Paths PROVE Current(p, dst[p].ver)
  <2>1. dst[p].ver = 0 \/ dst[p].ver = 1
    BY DEF Init, NoFile, None
  <2>2. src[p].ver \in Nat
    BY <1>1, Numbers DEF IInv, Typed
  <2>3. QED
    BY <1>2, <2>1, <2>2 DEF Current, None
<1>5. QED
  BY <1>3, <1>4 DEF Forward

LEMMA NextForward ==
  ASSUME IInv, IInv', Forward, [Next]_vars, ~hist'.late
  PROVE  Forward' /\ Grows
<1>1. CASE StartSync BY <1>1, PassesForward
<1>2. CASE Work
  <2>1. CASE \/ Scanned \/ Compare \/ Vanished \/ Transferred \/ EndSync
             \/ \E p \in Paths : Scan(p)
    BY <2>1, PassesForward
  <2>2. CASE Fetch \/ Place \/ Stamp BY <2>2, PullsForward
  <2>3. CASE Delete \/ Prune BY <2>3, DeletesForward
  <2>4. CASE \E h \in Handlers : Send(h) BY <2>4, SendsForward
  <2>5. CASE \E h \in Handlers : Answer(h) BY <2>5, WaitsForward
  <2>6. QED
    BY <1>2, <2>1, <2>2, <2>3, <2>4, <2>5 DEF Work
<1>3. CASE Mishap
  <2>1. CASE TransferFails BY <2>1, PassesForward
  <2>2. CASE PruneFails BY <2>2, DeletesForward
  <2>3. CASE Abandon BY <2>3, AbandonForward
  <2>4. CASE \E h \in Handlers : TimesOut(h) BY <2>4, WaitsForward
  <2>5. CASE \E h \in Handlers : UploadFails(h) BY <2>5, EndsForward
  <2>6. QED
    BY <1>3, <2>1, <2>2, <2>3, <2>4, <2>5 DEF Mishap
<1>4. CASE \E h \in Handlers : Serve(h)
  BY <1>4, ReplacesForward, EndsForward DEF Serve
<1>5. CASE \E p \in Paths : Edit(p) BY <1>5, EditsForward
<1>6. CASE UNCHANGED vars
  <2>1. edits \in Nat
    BY Parts DEF IInv
  <2>2. QED
    BY <1>6, <2>1, ForwardStays DEF vars, Holding, Arriving, Flying, Free
<1>7. QED
  BY <1>1, <1>2, <1>3, <1>4, <1>5, <1>6 DEF Next

\* Once a request of an earlier run has come late, it has.
LEMMA LateStays ==
  ASSUME IInv, [Next]_vars, hist.late
  PROVE  hist'.late
<1>1. Typed /\ hist \in History
  BY Parts DEF IInv
<1>2. CASE \E h \in Handlers : Serve(h)
  <2>1. PICK h \in Handlers : Serve(h)
    BY <1>2
  <2> DEFINE b == ~upload[h].current
  <2>2. hist' = [hist EXCEPT !.late = @ \/ b] /\ b \in BOOLEAN
    BY <2>1 DEF Serve, Replace, Utime
  <2> HIDE DEF b
  <2>3. QED
    BY <1>1, <2>2, LateField
<1>3. CASE StartSync \/ Delete \/ Prune \/ PruneFails \/ \E p \in Paths : Edit(p)
  BY <1>1, <1>3 DEF StartSync, Delete, Prune, PruneFails, Edit, History
<1>4. CASE UNCHANGED hist
  BY <1>4
<1>5. QED
  <2>1. CASE Work
    BY <1>3, <1>4, <2>1
    DEF Work, Scanned, Compare, Vanished, Fetch, Place, Stamp, Transferred, EndSync, Scan,
        Send, Answer
  <2>2. CASE Mishap
    BY <1>3, <1>4, <2>2 DEF Mishap, TransferFails, Abandon, TimesOut, UploadFails
  <2>3. CASE UNCHANGED vars
    BY <1>4, <2>3 DEF vars
  <2>4. QED
    BY <1>2, <1>3, <2>1, <2>2, <2>3 DEF Next

\* No file of the destination gets older: what a run writes was read after what it
\* replaces had been, through every edit, repetition and failure, as long as no request
\* of an earlier run arrives late.
THEOREM DestinationGoesForward == Spec => NeverOlder
<1> DEFINE Inv == IInv /\ (~hist.late => Forward)
           Good == ~hist.late' => Grows
<1>1. Init => Inv
  BY InitIInv, InitForward
<1>2. Inv /\ [Next]_vars => Inv' /\ Good
  <2> SUFFICES ASSUME Inv, [Next]_vars PROVE Inv' /\ Good
    OBVIOUS
  <2>1. IInv'
    BY NextIInv
  <2>2. ~hist'.late => ~hist.late
    BY LateStays
  <2>3. ~hist'.late => Forward' /\ Grows
    BY <2>1, <2>2, NextForward
  <2>4. QED
    BY <2>1, <2>3
<1>3. Good <=> (~hist.late' => \A p \in Paths : dst'[p].ver # None => dst'[p].ver >= dst[p].ver)
  BY DEF Grows
<1> HIDE DEF Inv, Good
<1>4. QED
  BY <1>1, <1>2, <1>3, PTL DEF Spec, NeverOlder
=============================================================================
