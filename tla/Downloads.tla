------------------------------ MODULE Downloads ------------------------------
(***************************************************************************)
(* The managed download of a large file: a page fetches it in ranges and   *)
(* writes them to a file of its own, and the user pauses, resumes, retries *)
(* and stops it, or starts another one.                                    *)
(*                                                                         *)
(* downloadNextChunks is an asynchronous loop.  At each of its awaits the  *)
(* user may act, and what it goes on with is whatever `transfer' is by     *)
(* then; a loop that is writing is not interrupted by a pause, so that     *)
(* there may be two of them.  The server takes each range for itself, from *)
(* a file that may be replaced, behind a share that may be revoked.        *)
(*                                                                         *)
(* TransfersProofs extends this module and Uploads: what both would define *)
(* (Init, Next, Spec, TypeOK, ...) has a D before its name here.           *)
(***************************************************************************)
EXTENDS Integers, FiniteSets

CONSTANTS
  Versions,    \* 1, 2, ... of the file on the server
  Sizes,       \* how many chunks each of them has
  Loops,       \* numbers of the loops that may be at work together
  Null,
  MaxStarts, MaxClicks, MaxLosses   \* bounds

ASSUME SizeAssumption ==
  /\ 1 \in Versions /\ Versions \subseteq Nat
  /\ Sizes \in [Versions -> Nat \ {0}]

ASSUME LoopsAssumption ==
  /\ IsFiniteSet(Loops)
  /\ {MaxStarts, MaxClicks, MaxLosses} \subseteq Nat

VARIABLES
  source,     \* the version on the server
  share,      \* is it active
  transfer,   \* transfer in resumable_download.js
  loop,       \* the calls of downloadNextChunks that have not returned
  starting,   \* the calls of beginManagedDownload that wait for their file
  hist,       \* history
  starts, clicks, losses

bounds == <<starts, clicks, losses>>
dvars == <<source, share, transfer, loop, starting, hist, bounds>>

-----------------------------------------------------------------------------
(* Types *)

\* The size that the page knows is that of the file when the page was made.
PageSize == Sizes[1]

Positions == 0..(PageSize + Cardinality(Loops))

Chunk == [version : Versions, at : Positions]

ASSUME NullAssumption == Null \notin Loops \cup Versions \cup Chunk

States == {"none", "running", "paused", "error", "complete", "stopped"}

\* file: what has been written; controller: the loop that a pause can abort.
Transfer == [number : 0..MaxStarts, state : States, offset : Positions, etag : Versions \cup {Null},
             controller : Loops \cup {Null}, closing : BOOLEAN,
             file : [Positions -> Chunk \cup {Null}]]

Fresh(n) == [number |-> n, state |-> "running", offset |-> 0, etag |-> Null, controller |-> Null,
             closing |-> FALSE, file |-> [p \in Positions |-> Null]]

NoTransfer == [Fresh(0) EXCEPT !.state = "none"]

\* start: of the range; etag: of the response; at, number: where the chunk is written.
Loop == [pc : {"none", "fetch", "body", "write", "close"}, start : Positions,
         etag : Versions \cup {Null}, chunk : Chunk \cup {Null}, at : Positions, number : 0..MaxStarts]

NoLoop == [pc |-> "none", start |-> 0, etag |-> Null, chunk |-> Null, at |-> 0, number |-> 0]

\* overlap: two loops were at work; torn: the file was replaced between the headers
\* of a response and its body.
History == [overlap : BOOLEAN, torn : BOOLEAN]

DTypeOK ==
  /\ source \in Versions
  /\ share \in BOOLEAN
  /\ transfer \in Transfer /\ transfer.number = starts - starting
  /\ loop \in [Loops -> Loop] /\ starting \in 0..MaxStarts
  /\ \A l \in Loops : loop[l].pc = "write" <=> loop[l].chunk # Null
  /\ hist \in History
  /\ starts \in 0..MaxStarts /\ clicks \in 0..MaxClicks /\ losses \in 0..MaxLosses

-----------------------------------------------------------------------------
DInit ==
  /\ source = 1 /\ share = TRUE
  /\ transfer = NoTransfer /\ loop = [l \in Loops |-> NoLoop] /\ starting = 0
  /\ hist = [overlap |-> FALSE, torn |-> FALSE]
  /\ starts = 0 /\ clicks = 0 /\ losses = 0

Click == clicks < MaxClicks /\ clicks' = clicks + 1 /\ UNCHANGED <<starts, losses>>

Loses == losses < MaxLosses /\ losses' = losses + 1 /\ UNCHANGED <<starts, clicks>>

-----------------------------------------------------------------------------
(* downloadNextChunks *)

Working == {l \in Loops : loop[l].pc # "none"}

FreeLoop == CHOOSE l \in Loops : l \notin Working

\* Loop l goes on with transfer t: the next range, the end, or nothing any more.
Proceed(l, t) ==
  CASE t.state = "running" /\ t.offset < PageSize ->
         /\ loop' = [loop EXCEPT ![l] = [NoLoop EXCEPT !.pc = "fetch", !.start = t.offset]]
         /\ transfer' = [t EXCEPT !.controller = l]
    [] t.state = "running" /\ t.offset >= PageSize /\ ~t.closing ->
         /\ loop' = [loop EXCEPT ![l] = [NoLoop EXCEPT !.pc = "close"]]
         /\ transfer' = [t EXCEPT !.closing = TRUE]
    [] t.state = "running" /\ t.offset >= PageSize /\ t.closing ->   \* it is closed already
         /\ loop' = [loop EXCEPT ![l] = NoLoop]
         /\ transfer' = [t EXCEPT !.state = "error"]
    [] OTHER ->
         /\ loop' = [loop EXCEPT ![l] = NoLoop]
         /\ transfer' = t

\* Mutant of Caught: the error is never shown.
CaughtSilently(l) == loop' = [loop EXCEPT ![l] = NoLoop] /\ UNCHANGED transfer

\* An error ends the loop.
Caught(l) ==
  /\ loop' = [loop EXCEPT ![l] = NoLoop]
  /\ transfer' = IF transfer.state \in {"paused", "stopped"} THEN transfer
                 ELSE [transfer EXCEPT !.state = "error"]

\* A new call of it.
Enter(t) ==
  /\ Working # Loops
  /\ Proceed(FreeLoop, t)
  /\ hist' = [hist EXCEPT !.overlap = @ \/ Working # {}]

\* If-Range names the version of the first response.
IfRange == transfer.etag

\* resumable_download_response: a range of the version that If-Range asks for.
Honored(l) ==
  share /\ IfRange \in {Null, source} /\ loop[l].start < Sizes[source]

\* The range is the one that is missing, of the version that was begun.
Expected(l) == loop[l].start = transfer.offset /\ transfer.etag \in {Null, source}

\* The headers of the response arrive.
Headers(l) ==
  /\ loop[l].pc = "fetch"
  /\ IF Honored(l) /\ Expected(l)
     THEN /\ loop' = [loop EXCEPT ![l].pc = "body", ![l].etag = source]
          /\ transfer' = [transfer EXCEPT !.etag = source]
     ELSE Caught(l)
  /\ UNCHANGED <<source, share, starting, hist, bounds>>

\* The server reads the chunk after it has sent the headers, and it may be shorter
\* by then.
Body(l) ==
  LET i == loop[l] IN
  /\ i.pc = "body"
  /\ IF i.start < Sizes[source]
     THEN /\ loop' = [loop EXCEPT ![l] = [NoLoop EXCEPT !.pc = "write", !.at = transfer.offset,
                        !.number = transfer.number, !.chunk = [version |-> source, at |-> i.start]]]
          /\ UNCHANGED transfer
     ELSE Caught(l)
  /\ hist' = [hist EXCEPT !.torn = @ \/ source # i.etag]
  /\ UNCHANGED <<source, share, starting, bounds>>

\* The connection is lost, or the file takes no more: the write is rejected, and
\* nothing of the chunk is in the file.
Lost(l) ==
  /\ loop[l].pc \in {"fetch", "body", "write"} /\ Loses
  /\ Caught(l)
  /\ UNCHANGED <<source, share, starting, hist>>

\* The chunk is in the file it was meant for; the offset is that of the transfer
\* there is now.
Written(l) ==
  LET i == loop[l]
      t == IF i.number = transfer.number THEN [transfer EXCEPT !.file[i.at] = i.chunk] ELSE transfer
  IN /\ i.pc = "write" /\ transfer.offset + 1 \in Positions
     /\ Proceed(l, [t EXCEPT !.offset = @ + 1])
     /\ UNCHANGED <<source, share, starting, hist, bounds>>

\* The transfer there is now is complete; a stopped one may have lost its file.
Closed(l) ==
  /\ loop[l].pc = "close"
  /\ \/ /\ loop' = [loop EXCEPT ![l] = NoLoop]
        /\ transfer' = [transfer EXCEPT !.state = "complete"]
     \/ transfer.state = "stopped" /\ Caught(l)
  /\ UNCHANGED <<source, share, starting, hist, bounds>>

-----------------------------------------------------------------------------
(* The user *)

\* beginManagedDownload waits for a file to write to.
Start ==
  /\ transfer.state \in {"none", "complete", "stopped"}
  /\ starts < MaxStarts /\ starts' = starts + 1 /\ UNCHANGED <<clicks, losses>>
  /\ starting' = starting + 1
  /\ UNCHANGED <<source, share, transfer, loop, hist>>

FileChosen ==
  /\ starting > 0
  /\ starting' = starting - 1
  /\ Enter(Fresh(transfer.number + 1))
  /\ UNCHANGED <<source, share, bounds>>

\* Mutant of Aborted: a write is interrupted too.
AbortedWriting ==
  LET c == transfer.controller IN
  IF c # Null /\ loop[c].pc \in {"fetch", "body", "write"} THEN [loop EXCEPT ![c].pc = "none"] ELSE loop

\* controller.abort(): the loop that has made the last request ends, if it still waits
\* for it; what it catches finds the transfer paused or stopped.
Aborted ==
  LET c == transfer.controller IN
  IF c # Null /\ loop[c].pc \in {"fetch", "body"} THEN [loop EXCEPT ![c] = NoLoop] ELSE loop

Pause ==
  /\ transfer.state = "running" /\ Click
  /\ transfer' = [transfer EXCEPT !.state = "paused"]
  /\ loop' = Aborted
  /\ UNCHANGED <<source, share, starting, hist>>

\* Mutant of Resumed: it begins with the version there is now.
ResumedAnew == [transfer EXCEPT !.state = "running", !.etag = Null]

Resumed == [transfer EXCEPT !.state = "running"]

\* Resume, or Retry.
ResumeTransfer ==
  /\ transfer.state \in {"paused", "error"} /\ Click
  /\ Enter(Resumed)
  /\ UNCHANGED <<source, share, starting>>

\* What was written is discarded, unless it is being closed.
Stop ==
  /\ transfer.state \in {"running", "paused", "error"} /\ Click
  /\ transfer' = [transfer EXCEPT !.state = "stopped",
                     !.file = IF transfer.closing THEN @ ELSE [p \in Positions |-> Null]]
  /\ loop' = Aborted
  /\ UNCHANGED <<source, share, starting, hist>>

-----------------------------------------------------------------------------
(* The server *)

Replace ==
  /\ source + 1 \in Versions
  /\ source' = source + 1
  /\ UNCHANGED <<share, transfer, loop, starting, hist, bounds>>

\* Its owner revokes the share, or restores it.
Revoke ==
  /\ Loses
  /\ share' = ~share
  /\ UNCHANGED <<source, transfer, loop, starting, hist>>

-----------------------------------------------------------------------------
Step(l) == Headers(l) \/ Body(l) \/ Lost(l) \/ Written(l) \/ Closed(l)

User == Start \/ FileChosen \/ Pause \/ ResumeTransfer \/ Stop

DNext == User \/ Replace \/ Revoke \/ \E l \in Loops : Step(l)

DSpec == DInit /\ [][DNext]_dvars

-----------------------------------------------------------------------------
(* Properties *)

\* Up to its offset a transfer has the chunks of one version, each at its place,
\* whatever is lost, paused, retried, revoked or replaced, unless two loops were at
\* work or the file was replaced while a chunk was read from it; a complete one has
\* as many as the page told of.
ChunksInPlace ==
  (transfer.state # "stopped" /\ ~hist.overlap /\ ~hist.torn)
    => /\ \A p \in 0..(transfer.offset - 1) : transfer.file[p] = [version |-> transfer.etag, at |-> p]
       /\ transfer.state = "complete" => transfer.offset = PageSize

\* A transfer that is running has a loop that works at it: no pause and no error
\* leaves it running with nobody there.
RunningIsServed == transfer.state = "running" => Working # {}

-----------------------------------------------------------------------------
(* What the code says of itself and does not keep: counterexamples in README. *)

\* "Retry continues from the last completed chunk": the chunks stay where they belong.
ChunksAreKept ==
  transfer.state # "stopped" =>
    \A p \in 0..(transfer.offset - 1) : transfer.file[p] # Null /\ transfer.file[p].at = p
=============================================================================
