------------------------------ MODULE HttpSync ------------------------------
(***************************************************************************)
(* A backup job of type HTTP: sync_http_backup compares a source tree with *)
(* a destination tree and copies what differs.  A push runs where the      *)
(* source is and writes through the other server's endpoints; a pull runs  *)
(* where the destination is and reads through them.                        *)
(*                                                                         *)
(* Nothing holds either tree still.  The source is listed file by file and *)
(* read again later, files are edited meanwhile, a request that timed out  *)
(* is sent again while the server still works on it, and a file gets its   *)
(* modification time in a statement of its own after its content.          *)
(*                                                                         *)
(* A version stands for a content with its size and the second of its      *)
(* modification time, which is all that the comparison looks at: edits     *)
(* that change neither are outside of the model.  So are a file that is    *)
(* read in the middle of an edit, and the temporary files.                 *)
(***************************************************************************)
EXTENDS Naturals, FiniteSets

CONSTANTS
  Paths,        \* the files, in the order of their names
  Folder,       \* for each of them the folder it lies in
  Root,         \* the folder of the job itself
  Excluded,     \* the files an exclude pattern matches, but not their folder
  Handlers,     \* uploads the server can work on at a time
  Retries,      \* HTTP_RETRY_ATTEMPTS
  MaxVersion,   \* bounds the edits of the source
  MaxFaults     \* bounds lost answers, failed requests, crashes

ASSUME PathsAssumption == Paths \subseteq Nat /\ Excluded \subseteq Paths
ASSUME BoundsAssumption == MaxVersion \in Nat \ {0, 1} /\ {Retries, MaxFaults} \subseteq Nat

VARIABLES
  job,      \* BackupJob: http_direction, delete_enabled
  src,      \* the source tree
  dst,      \* the destination tree
  sync,     \* the worker inside sync_http_backup
  upload,   \* the server's http_backup_file_view requests
  hist,     \* history
  edits,    \* the last version given to a file
  faults    \* faults so far

vars == <<job, src, dst, sync, upload, hist, edits, faults>>

-----------------------------------------------------------------------------
(* Types *)

Versions == 1..MaxVersion

None == 0

\* The modification time of a file that has been written but not stamped.
JustWritten == 0

Job == [direction : {"push", "pull"}, delete : BOOLEAN]

\* plain: a manifest lists the file; otherwise it is too large, a link, or
\* cannot be looked at (in a folder that cannot be read, it is not even
\* counted as skipped).
SourceFile == [ver : Versions \cup {None}, plain : BOOLEAN]

\* ver: the content; meta: the version whose size and time it carries.
DestFile == [ver : Versions \cup {None}, meta : Versions \cup {JustWritten},
             plain : BOOLEAN]

SyncSteps == {"idle", "scan", "compare", "transfer", "wait", "place", "stamp",
              "delete", "end"}

\* listing: the source's manifest; scanned: what it has got to; todo: the rest of
\* the loop; extra: what a pull deletes; content: what was downloaded.
Sync == [step : SyncSteps, listing : [Paths -> Versions \cup {None}],
         scanned : SUBSET Paths, todo : SUBSET Paths, extra : SUBSET Paths,
         content : Versions \cup {None}, attempt : 0..Retries,
         failed : BOOLEAN, vanished : SUBSET Paths]

\* awaited: the worker waits for the answer; current: it is of this run's.
Upload == [step : {"free", "receive", "stamp", "ok", "error"}, path : Paths,
           ver : Versions, meta : Versions, awaited : BOOLEAN, current : BOOLEAN]

\* Of the run under way: files that were missing or unlisted for some time,
\* that were missing, that were deleted.  late: an upload of an earlier run has
\* reached its file.
History == [gap : SUBSET Paths, absent : SUBSET Paths, deleted : SUBSET Paths,
            late : BOOLEAN]

TypeOK ==
  /\ job \in Job
  /\ src \in [Paths -> SourceFile]
  /\ dst \in [Paths -> DestFile]
  /\ sync \in Sync
  /\ \A h \in Handlers : upload[h].step = "free" \/ upload[h] \in Upload
  /\ hist \in History
  /\ edits \in Versions
  /\ faults \in 0..MaxFaults

-----------------------------------------------------------------------------
(* State functions *)

Least(S) == CHOOSE p \in S : \A q \in S : p <= q

\* build_manifest: what it lists of a tree.
Listed(tree, p) == p \notin Excluded /\ tree[p].ver # None /\ tree[p].plain

\* Mutant of Differs: a file that is there is taken as it is.
DiffersMissing(p) == sync.listing[p] # None /\ dst[p].ver = None

\* _metadata_differs, and files that are not there at all.  (A pull looks into
\* the destination's manifest, a push has the file itself looked at, by one of
\* compare, stat and HEAD; each of them tells the same.)
Differs(p) ==
  /\ sync.listing[p] # None
  /\ \/ dst[p].ver = None
     \/ job.direction = "pull" /\ ~dst[p].plain
     \/ dst[p].meta # sync.listing[p]

\* Mutant of Extra: everything in the destination that the source's manifest
\* does not name.
ExtraAll == {p \in Paths : dst[p].ver # None /\ sync.listing[p] = None}

\* What the destination's manifest lists beyond the source's.
Extra == {p \in Paths : Listed(dst, p) /\ sync.listing[p] = None}

\* http_backup_prune_view, for the folders of the listed files: what is not
\* expected goes, unless it is excluded; a folder that is not expected goes
\* with all it holds.
Pruned ==
  {p \in Paths :
     /\ dst[p].ver # None
     /\ sync.listing[p] = None
     /\ \/ p \notin Excluded
        \/ /\ Folder[p] # Root
           /\ \A q \in Paths : Folder[q] = Folder[p] => sync.listing[q] = None}

Free == [step |-> "free"]

\* One handler is as good as another.
FreeHandler == CHOOSE h \in Handlers : upload[h] = Free

Idle == [step |-> "idle", listing |-> [p \in Paths |-> None], scanned |-> {},
         todo |-> {}, extra |-> {}, content |-> None, attempt |-> 0,
         failed |-> FALSE, vanished |-> {}]

Fault == faults < MaxFaults /\ faults' = faults + 1

\* A file is through, whatever became of it.
NextFile(s) ==
  [s EXCEPT !.step = "transfer", !.todo = @ \ {Least(@)}, !.attempt = 0, !.content = None]

NoFile == [ver |-> None, meta |-> JustWritten, plain |-> TRUE]

Removed(tree, gone) == [p \in Paths |-> IF p \in gone THEN NoFile ELSE tree[p]]

-----------------------------------------------------------------------------
\* Version 1 is what lay at the destination before, 2 what the source holds.
\* (Excluded files of the source play no part: there are none.  Whether the
\* destination's files are plain is only asked by a pull.)
Init ==
  /\ job \in Job
  /\ src \in [Paths -> {[ver |-> None, plain |-> TRUE]} \cup [ver : {2}, plain : BOOLEAN]]
  /\ \A p \in Excluded : src[p].ver = None
  /\ dst \in [Paths -> {NoFile} \cup [ver : {1}, meta : {1}, plain : BOOLEAN]]
  /\ job.direction = "push" => \A p \in Paths : dst[p].plain
  /\ sync = Idle
  /\ upload = [h \in Handlers |-> Free]
  /\ hist = [gap |-> {}, absent |-> {}, deleted |-> {}, late |-> FALSE]
  /\ edits = 2
  /\ faults = 0

-----------------------------------------------------------------------------
(* The source's owner *)

Edit(p) ==
  /\ p \notin Excluded
  /\ edits < MaxVersion
  /\ edits' = edits + 1
  /\ \E there, plain \in BOOLEAN :
       /\ there \/ plain
       /\ src' = [src EXCEPT ![p] = [ver |-> IF there THEN edits + 1 ELSE None, plain |-> plain]]
       /\ hist' = [hist EXCEPT !.gap = IF there /\ plain THEN @ ELSE @ \cup {p},
                               !.absent = IF there THEN @ ELSE @ \cup {p}]
  /\ UNCHANGED <<job, dst, sync, upload, faults>>

-----------------------------------------------------------------------------
(* The worker *)

\* A run begins; the history of the one before is dropped.
StartSync ==
  /\ sync.step = "idle"
  /\ sync' = [Idle EXCEPT !.step = "scan"]
  /\ upload' = [h \in Handlers |-> IF upload[h] = Free THEN Free
                                   ELSE [upload[h] EXCEPT !.current = FALSE]]
  /\ hist' = [hist EXCEPT !.gap = {p \in Paths : src[p].ver = None \/ ~src[p].plain},
                          !.absent = {p \in Paths : src[p].ver = None},
                          !.deleted = {}]
  /\ UNCHANGED <<job, src, dst, edits, faults>>

\* build_manifest of the source looks at one file.
Scan(p) ==
  /\ sync.step = "scan"
  /\ p \notin sync.scanned
  /\ sync' = [sync EXCEPT !.scanned = @ \cup {p},
                          !.listing[p] = IF Listed(src, p) THEN src[p].ver ELSE None]
  /\ UNCHANGED <<job, src, dst, upload, hist, edits, faults>>

Scanned ==
  /\ sync.step = "scan"
  /\ sync.scanned = Paths
  /\ sync' = [sync EXCEPT !.step = "compare"]
  /\ UNCHANGED <<job, src, dst, upload, hist, edits, faults>>

\* The destination's manifest, or the compare request.
Compare ==
  /\ sync.step = "compare"
  /\ sync' = [sync EXCEPT !.step = "transfer",
                          !.todo = {p \in Paths : Differs(p)},
                          !.extra = IF job.direction = "pull" THEN Extra ELSE {}]
  /\ UNCHANGED <<job, src, dst, upload, hist, edits, faults>>

\* _read_local_file: the file has gone.
Vanished ==
  /\ sync.step = "transfer" /\ sync.todo # {} /\ job.direction = "push"
  /\ src[Least(sync.todo)].ver = None
  /\ sync' = [NextFile(sync) EXCEPT !.vanished = @ \cup {Least(sync.todo)}]
  /\ UNCHANGED <<job, src, dst, upload, hist, edits, faults>>

\* _upload_file: the content as it is now, with the time of the manifest.
\* (A retry sends what was read for the first attempt.)
Send(h) ==
  LET p == Least(sync.todo) IN
  /\ sync.step = "transfer" /\ sync.todo # {} /\ job.direction = "push"
  /\ upload[h] = Free /\ h = FreeHandler
  /\ sync.attempt = 0 => src[p].ver # None
  /\ LET content == IF sync.attempt = 0 THEN src[p].ver ELSE sync.content IN
       /\ upload' = [upload EXCEPT ![h] =
            [step |-> "receive", path |-> p, ver |-> content, meta |-> sync.listing[p],
             awaited |-> TRUE, current |-> TRUE]]
       /\ sync' = [sync EXCEPT !.step = "wait", !.content = content]
  /\ UNCHANGED <<job, src, dst, hist, edits, faults>>

\* The answer.
Answer(h) ==
  /\ sync.step = "wait"
  /\ upload[h].step \in {"ok", "error"}
  /\ sync' = [NextFile(sync) EXCEPT !.failed = @ \/ upload[h].step = "error"]
  /\ upload' = [upload EXCEPT ![h] = Free]
  /\ UNCHANGED <<job, src, dst, hist, edits, faults>>

\* Mutant of TimesOut: a file whose attempts are used up is left at that.
TimesOutQuietly(h) ==
  /\ sync.step = "wait"
  /\ upload[h] # Free /\ upload[h].awaited
  /\ Fault
  /\ sync' = IF sync.attempt < Retries
             THEN [sync EXCEPT !.step = "transfer", !.attempt = @ + 1]
             ELSE NextFile(sync)
  /\ upload' = [upload EXCEPT ![h] =
       IF @.step \in {"ok", "error"} THEN Free ELSE [@ EXCEPT !.awaited = FALSE]]
  /\ UNCHANGED <<job, src, dst, hist, edits>>

\* Mutant of TimesOut: one attempt too many.
TimesOutAgain(h) ==
  /\ sync.step = "wait"
  /\ upload[h] # Free /\ upload[h].awaited
  /\ Fault
  /\ sync' = IF sync.attempt <= Retries
             THEN [sync EXCEPT !.step = "transfer", !.attempt = @ + 1]
             ELSE [NextFile(sync) EXCEPT !.failed = TRUE]
  /\ upload' = [upload EXCEPT ![h] =
       IF @.step \in {"ok", "error"} THEN Free ELSE [@ EXCEPT !.awaited = FALSE]]
  /\ UNCHANGED <<job, src, dst, hist, edits>>

\* _read_http_response: no answer in time.  It is asked again, up to Retries
\* times, whatever the server still does about the request before.
TimesOut(h) ==
  /\ sync.step = "wait"
  /\ upload[h] # Free /\ upload[h].awaited
  /\ Fault
  /\ sync' = IF sync.attempt < Retries
             THEN [sync EXCEPT !.step = "transfer", !.attempt = @ + 1]
             ELSE [NextFile(sync) EXCEPT !.failed = TRUE]
  /\ upload' = [upload EXCEPT ![h] =
       IF @.step \in {"ok", "error"} THEN Free ELSE [@ EXCEPT !.awaited = FALSE]]
  /\ UNCHANGED <<job, src, dst, hist, edits>>

\* _download_file.  A file that has gone is an error.
Fetch ==
  LET p == Least(sync.todo) IN
  /\ sync.step = "transfer" /\ sync.todo # {} /\ job.direction = "pull"
  /\ sync' = IF src[p].ver = None THEN [NextFile(sync) EXCEPT !.failed = TRUE]
             ELSE [sync EXCEPT !.step = "place", !.content = src[p].ver]
  /\ UNCHANGED <<job, src, dst, upload, hist, edits, faults>>

\* The request or the read fails.
TransferFails ==
  /\ sync.step \in {"transfer", "place", "stamp"} /\ sync.todo # {}
  /\ Fault
  /\ sync' = [NextFile(sync) EXCEPT !.failed = TRUE]
  /\ UNCHANGED <<job, src, dst, upload, hist, edits>>

\* _write_local_file: os.replace ...
Place ==
  /\ sync.step = "place"
  /\ dst' = [dst EXCEPT ![Least(sync.todo)] =
       [ver |-> sync.content, meta |-> JustWritten, plain |-> TRUE]]
  /\ sync' = [sync EXCEPT !.step = "stamp"]
  /\ UNCHANGED <<job, src, upload, hist, edits, faults>>

\* Mutant of Stamp: the time the source has now.
StampNow ==
  LET p == Least(sync.todo) IN
  /\ sync.step = "stamp"
  /\ dst' = [dst EXCEPT ![p].meta = IF src[p].ver = None THEN @ ELSE src[p].ver]
  /\ sync' = NextFile(sync)
  /\ UNCHANGED <<job, src, upload, hist, edits, faults>>

\* ... and os.utime, with the time of the manifest.
Stamp ==
  LET p == Least(sync.todo) IN
  /\ sync.step = "stamp"
  /\ dst' = [dst EXCEPT ![p].meta = sync.listing[p]]
  /\ sync' = NextFile(sync)
  /\ UNCHANGED <<job, src, upload, hist, edits, faults>>

\* The loop is through; deletion follows whatever has failed in it.
Transferred ==
  /\ sync.step = "transfer" /\ sync.todo = {}
  /\ sync' = [sync EXCEPT !.step = IF job.delete THEN "delete" ELSE "end"]
  /\ UNCHANGED <<job, src, dst, upload, hist, edits, faults>>

\* _delete_local_files, one file after the other.
Delete ==
  /\ sync.step = "delete" /\ job.direction = "pull"
  /\ IF sync.extra = {}
     THEN /\ sync' = [sync EXCEPT !.step = "end"]
          /\ UNCHANGED <<dst, hist>>
     ELSE /\ sync' = [sync EXCEPT !.extra = @ \ {Least(@)}]
          /\ dst' = Removed(dst, {Least(sync.extra)})
          /\ hist' = [hist EXCEPT !.deleted = @ \cup {Least(sync.extra)}]
  /\ UNCHANGED <<job, src, upload, edits, faults>>

\* The prune request.
Prune ==
  /\ sync.step = "delete" /\ job.direction = "push"
  /\ dst' = Removed(dst, Pruned)
  /\ hist' = [hist EXCEPT !.deleted = @ \cup Pruned]
  /\ sync' = [sync EXCEPT !.step = "end"]
  /\ UNCHANGED <<job, src, upload, edits, faults>>

\* ... of which the answer is lost after some of the folders.
PruneFails ==
  /\ sync.step = "delete" /\ job.direction = "push"
  /\ Fault
  /\ \E some \in SUBSET Pruned :
       /\ dst' = Removed(dst, some)
       /\ hist' = [hist EXCEPT !.deleted = @ \cup some]
  /\ sync' = Idle
  /\ UNCHANGED <<job, src, upload, edits>>

\* run_backup_job turns the counts into the run's status, and ends.
EndSync ==
  /\ sync.step = "end"
  /\ sync' = Idle
  /\ UNCHANGED <<job, src, dst, upload, hist, edits, faults>>

\* The run ends early: a stop was asked for, a request other than those for
\* single files fails, the worker dies.  A request it has sent stays with the
\* server.
Abandon ==
  /\ sync.step \notin {"idle", "end"}
  /\ Fault
  /\ sync' = Idle
  /\ upload' = [h \in Handlers |-> IF upload[h] = Free \/ upload[h].step \in {"ok", "error"}
                                   THEN Free ELSE [upload[h] EXCEPT !.awaited = FALSE]]
  /\ UNCHANGED <<job, src, dst, hist, edits>>

-----------------------------------------------------------------------------
(* The server: POST of http_backup_file_view *)

\* The body has arrived: os.replace.
Replace(h) ==
  LET u == upload[h] IN
  /\ u.step = "receive"
  /\ dst' = [dst EXCEPT ![u.path] = [ver |-> u.ver, meta |-> JustWritten, plain |-> TRUE]]
  /\ upload' = [upload EXCEPT ![h].step = "stamp"]
  /\ hist' = [hist EXCEPT !.late = @ \/ ~u.current]
  /\ UNCHANGED <<job, src, sync, edits, faults>>

\* An answer nobody waits for is gone.
Reply(h, step) ==
  upload' = [upload EXCEPT ![h] = IF @.awaited THEN [@ EXCEPT !.step = step] ELSE Free]

\* os.utime; the file may have been pruned.
Utime(h) ==
  LET u == upload[h] IN
  /\ u.step = "stamp"
  /\ IF dst[u.path].ver = None
     THEN Reply(h, "error") /\ UNCHANGED dst
     ELSE Reply(h, "ok") /\ dst' = [dst EXCEPT ![u.path].meta = u.meta]
  /\ hist' = [hist EXCEPT !.late = @ \/ ~u.current]
  /\ UNCHANGED <<job, src, sync, edits, faults>>

\* It fails: the body ends early, the disk is full, the time is not accepted.
UploadFails(h) ==
  /\ upload[h].step \in {"receive", "stamp"}
  /\ Fault
  /\ Reply(h, "error")
  /\ UNCHANGED <<job, src, dst, sync, hist, edits>>

-----------------------------------------------------------------------------
Work ==
  \/ Scanned \/ Compare \/ Vanished \/ Fetch \/ Place \/ Stamp \/ Transferred
  \/ Delete \/ Prune \/ EndSync
  \/ \E p \in Paths : Scan(p)
  \/ \E h \in Handlers : Send(h) \/ Answer(h)

Serve(h) == Replace(h) \/ Utime(h)

Mishap ==
  \/ TransferFails \/ PruneFails \/ Abandon
  \/ \E h \in Handlers : TimesOut(h) \/ UploadFails(h)

Next ==
  \/ StartSync \/ Work \/ Mishap
  \/ \E h \in Handlers : Serve(h)
  \/ \E p \in Paths : Edit(p)

Spec == Init /\ [][Next]_vars

\* The schedule starts the job again and again, a run that is under way goes
\* on, the server works on what it was sent.
FairSpec ==
  /\ Spec
  /\ WF_vars(StartSync) /\ WF_vars(Work)
  /\ \A h \in Handlers : WF_vars(Serve(h))

-----------------------------------------------------------------------------
(* Properties *)

\* What the comparison takes for unchanged is unchanged: a file that carries
\* the size and time the source has now has the content the source has now,
\* although time and content were read apart and are written apart.  (Uploads
\* of an earlier run that arrive late can break this.)
SameTimeSameContent ==
  ~hist.late =>
    \A p \in Paths : (src[p].ver # None /\ dst[p].ver # None /\ dst[p].meta = src[p].ver)
                        => dst[p].ver = src[p].ver

\* A run that ends without failed files has brought every file its manifest
\* listed at least to that version, except what vanished before it was sent.
SuccessCopied ==
  (sync.step = "end" /\ ~sync.failed /\ ~hist.late) =>
    \A p \in Paths \ sync.vanished : sync.listing[p] # None => dst[p].ver >= sync.listing[p]

\* A file that could be listed all through a run is not deleted by it, and an
\* excluded one only by a push, with a folder in which nothing was listed.
DeletedWasUnlisted ==
  \A p \in hist.deleted :
    IF p \notin Excluded THEN p \in hist.gap
    ELSE /\ job.direction = "push"
         /\ \A q \in Paths \ Excluded : Folder[q] = Folder[p] => q \in hist.gap

\* No step brings an older version over a newer one: whatever is retried, fails or is
\* edited meanwhile, a file of the destination is replaced by what was read later.
NeverOlder ==
  [][~hist.late' => \A p \in Paths : dst'[p].ver # None => dst'[p].ver >= dst[p].ver]_vars

\* The destination is what the job promises of it.
Mirrored ==
  \A p \in Paths \ Excluded :
    IF Listed(src, p) THEN dst[p].ver = src[p].ver /\ dst[p].meta = src[p].ver
    ELSE (job.delete /\ (job.direction = "pull" => dst[p].plain)) => dst[p].ver = None

\* Once edits and faults are over the destination becomes a mirror and stays
\* one, from whatever interrupted runs have left behind.
Converges == <>[](Mirrored \/ hist.late)

-----------------------------------------------------------------------------
(* What the code says of itself and does not keep: counterexamples in README. *)

\* "remove local destination files that no longer exist on the remote source":
\* what a pull deletes was missing from the source.
DeletedWasGone ==
  job.direction = "pull" => hist.deleted \subseteq hist.absent
=============================================================================
