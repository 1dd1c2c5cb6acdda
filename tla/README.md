# System Monitor in TLA+

Models, model-checking runs and machine-checked proofs for the System Monitor, a
Django application that watches a host, runs backups and shell scripts on it,
manages its files and volumes and offers a terminal.  Every module is a
translation of the code under `src/`; `PROJECT.json` names, for each definition,
the lines it stands for.

## 1. The system

Three containers are built from one image (`docker-compose.yml`): the **web**
container (Daphne; views run in request threads), the **sampler**
(`run_sampler`) and the **backup scheduler** (`run_backup_scheduler`).  They
share one SQLite file and the directory it lies in.  Web and scheduler run in
the host's process namespace (`pid: host`) but each has a host name of its own.
Long work is done by detached **worker** processes that a request thread or the
scheduler starts with `Popen` and never waits for; a row in the database and a
few runtime files are all that connects a worker to the rest.  Nothing restarts
or adopts workers when a container starts.

There is no lock and no transaction around anything below: each ORM call is one
statement of its own, so every statement, file access and look at `/proc` can be
interleaved with those of the other processes.  A statement that finds SQLite
locked is retried five times by `_with_db_retry` and then silently skipped.

### Inventory

| Component | State | Operations | What is hard | What makes it correct |
|---|---|---|---|---|
| Backup runs (`backups_app`) | rows `BackupJob`, `BackupRun`; `run_<id>.json/.stop`; worker processes | run now, rerun, stop, toggle, edit, create, delete; dispatch; reconcile; worker boot, heartbeat, finalize, advance | three kinds of processes over one row; crashes; lost writes; stale copies | one worker per run and job; a live worker keeps its row; runs settle; cancelled means asked |
| Script jobs (`jobs_app`) | `ScriptJob`, `ScriptJobRun`, runtime files, pids | the same, and one-off jobs | workers are recognised by pid only; zombies; one-off jobs | the same, and a one-off job runs once |
| File operations (`file_manager_app/services.py`) | row `FileOperation` with `completed_sources`; the trees | create, pause, cancel, resume, finish; copy, move, delete, archive, extract, download | pause, cancel and resume race the worker; failures between two files | nothing is lost; finished items are not redone; one worker |
| HTTP backup sync (`http_services.py`) | two trees, manifests, uploads under way | manifest, compare, push, pull, prune | trees that change, requests sent twice, skipped files | unchanged means unchanged; nothing is deleted that was listed; the destination becomes a mirror |
| Web terminal (`terminal_app`) | session registry, backlogs; the page's session, cursor and queues | open, attach, read, write, poll, close, clean up | threads; a page that goes from websocket to polling and back | output once and in order; input to its session; sessions are reaped |
| Alerts, reports, sampler | rules, events, snapshots, report runs | collect, evaluate, notify, report, prune; the rules' forms | a notification inside a transaction, pruned events, old forms | no alert is repeated before its time; every occasion is reported once |
| Volumes (`volumes_app`) | `VolumeOperation`, mount preferences, the host's mounts | list, mount, unmount, release, label, format | check and command are apart; device names are given away | what is in use is not wiped; what is wiped is what was seen; records are true |
| Process control (`monitor_app`) | sampled processes, a cached map of containers | terminate, kill, restart, stop a container | pids are given away; restarts overlap | what is hit is what was shown; a restart runs once |
| Managed downloads (`resumable_download.js`, `downloads.py`) | the page's transfer, a file that is replaced, a share | start, pause, resume, retry, stop, revoke | asynchronous loops over one object | chunks of one version, each in its place; a running download is worked at |
| Chunked uploads | `FileOperation` of kind upload, `.part` files | start, chunk, finish, direct upload; resume of its row | a name found free is taken later; a browser that goes away, a worker started on an upload | no file is overwritten; success means every file arrived |
| Video previews, file information | cache directory, marker files | prepare, trim | two requests for one file | one conversion per file |
| Browsing, Docker, terminal login, users, history, site shell, bundling | none of their own | reads, single external calls, forms | - | - |

Components interact through the database (the scheduler reads what the pages
write), through runtime files (stop flags, heartbeats), through signals and
processes, and through two calls: a backup of type HTTP calls the sync of the
other server, the sampler calls alert evaluation and reports.  In TLA+ the one seam that
matters to properties on both sides is that of backup runs and HTTP sync:
`BackupRuns` takes a transfer as one step with any verdict, `HttpSync` opens it.
`PROJECT.json` lists every component with its status, and every hazard at its
line with the properties that watch it.

## 2. Backup runs

### Modules

| Module | What it is |
|---|---|
| `RunLedger` | the abstract promise of the history page: a run is opened once, settled, never running again, and goes with its job |
| `BackupRuns` | the life of backup runs: pages, scheduler, workers, files, crashes, time |
| `MCBackupRuns` | the instance TLC checks, under `MCBackupRuns.cfg` and `MCBackupLive.cfg` |
| `BackupRunsProofs` | the inductive invariant and the theorems |

### State

| Variable | In the code |
|---|---|
| `job` | table `BackupJob`: does the row exist, `enabled`, `schedule_mode = "manual"`, `next_run_at` as none / later / due |
| `run` | table `BackupRun`: `status`, `job`, `runner_label` (which container), `process_pid` set, `stop_requested_at` set, `heartbeat_at` younger than 180 s |
| `dir` | `backup_runtime/`: is there a stop file; is there a state file with a heartbeat younger than 180 s |
| `proc` | the worker process of each run: where it is in `execute_backup_job`, the verdict it holds, whether the copy of the job it loaded is scheduled |
| `actor` | each request thread and the scheduler's loop: the statement it is at and the rows it holds in memory |
| `asked`, `requests`, `faults` | history: runs a stop was asked for; counters for the bounds |

### Actions

`LoadRunning`, `LoadNothing`, `Judge` are `mark_stale_running_backups`, one step
for the query and one for each loaded row; what a row is judged by (its runtime
file, the process table) is read when it is judged, what was loaded of it is not
read again.  `WriteStored`, `WriteLost`, `WriteRaises` are the three outcomes of
`finalize_backup_run`.  `RunNow`, `Rerun`, `ToggleJob`, `EditJob`, `SaveForm`,
`CreateJob`, `DeleteJob`, `AskStop`, `SaveStop`, `RaiseFlag`, `EndRequest` are
the POST handlers of the backups pages; `FindMounts`, `MountTrigger`,
`QueryDue`, `DueJob`, `SkipUnmounted`, `EndDispatch`, `DispatchRaises` are
`dispatch_scheduled_backups`; `Create`, `CreateRaises`, `Spawn`, `SpawnRaises`
are `start_background_backup`, called by both; `Boot`, `BootRaises`,
`Heartbeat`, `NoticeStop`, `FinishTransfer`, `StoreVerdict`, `Advance` are the
worker; `Crash`, `RestartBox`, `ComesDue`, `AgeRow`, `AgeBeat` are the
environment.

What is abstracted, and why nothing a property tells apart is lost:

- the transfer is one step that ends with any verdict, or with "cancelled" once
  the stop file is there; `timed_out` is counted as `failed` (no code treats the
  two differently);
- a job keeps its type: which jobs are local (`LocalJobs`) and which have a timed
  transfer (`TimedJobs`) are constants, an edit of the type is not modelled;
- the status update and the removal of the runtime files are one step: between
  the two, only the worker's poll of the stop file could tell a difference, and
  it may as well come before both;
- `run_now` reads `enabled` and the running runs in two statements of one
  request; the model reads both at once (an edit in between is an edit just
  before);
- whether a disk is mounted, and was before, is any choice among the local jobs;
- the later save of `command_line` changes no modelled field;
- a page that does not reconcile first behaves like one whose reconcile loaded
  nothing (`LoadNothing`); edits through Django's admin site are left out.

### Time

A heartbeat is fresh or older than 180 s; the two actions that age it carry the
timing the code relies on: starting a worker takes less than 180 s
(`AgeRow` waits for a spawn and a boot), and a live worker's heartbeat thread
writes every 15 s, so its file does not age (`AgeBeat`).  A machine that is
suspended for minutes, or a worker stopped by a signal, breaks both and is
outside of the model.

### Runs

| Run | Instance | Shows |
|---|---|---|
| `backup_runs` | 1 local job, 2 run ids, 1 page request, 1 crash or restart; 1.3 million states | types; `BusyRunIsRunning`; `SchedulerNeverDoubles`; `CancelledWasAsked`; `LedgerKept` (the refinement of `RunLedger`) |
| `backup_live` | 2 jobs, one whose transfer has a timeout and one (local) whose transfer has none, 1 run id, 1 request, 1 fault, `FairSpecOne`; 0.1 million states | `RunSettles`: a running run ends, whoever dies or loses its write, unless its live worker is for ever in a transfer that has no timeout and is not stopped |

Bounds.  Two run ids are what every property about two workers needs; one
request and the scheduler already race for every statement, and a second request
multiplies the states beyond what a check should cost; one fault is enough for
each crash window, since after it the scheduler's reconcile is all that is left.
With one request a rerun of a job that was disabled meanwhile is not reached in
`backup_runs`; the proofs have no bound on requests, faults, runs, jobs or
threads.  `backup_live` begins with one of its two jobs (`InitOne`): the run
belongs to one, and the other would only multiply the states.  Its request is
the launch, the stop or the edit that meets the scheduler's run; a stop of a run
that a page has launched takes a second one and is left to the worker's poll of
the same file.

Fairness (`Fairness`), used by `backup_live` only.  The scheduler's loop never
stops (`while True`, errors are logged); a thread or worker that is running goes
on (weak fairness per process); time passes.  What makes a transfer end depends
on the job.  An rsync over SSH, and each command before it, is killed at its
timeout (`TimesOut`, for the jobs of `TimedJobs`).  A local rsync has neither a
hard nor an idle timeout ("runs without a hard timeout; it is limited by stop
requests"), and `run_timeout_seconds` of an HTTP job is compared only after
`sync_http_backup` has returned, each of its requests alone being limited: of
these transfers nothing is assumed but that they notice the stop file
(`NoticeStop`).  `_run_streaming_command` looks for it every second, the HTTP
sync between two requests and two files (a file system call that never returns is
outside of the model).  Strong fairness is assumed for two statements of the
scheduler, loading the running runs and storing a verdict: SQLite is not locked
each time they are tried.
Nothing is assumed of requests that have not begun, of crashes, of a transfer
without a timeout, or of a worker's statements succeeding.

So a local or HTTP transfer that hangs keeps its run running, as long as its
worker lives to write heartbeats: `RunSettles` excepts exactly that
(`[]Unbounded(r)`).  A run of a timed job has no exception; without
`WF_vars(TimesOut(r))` or without `WF_vars(NoticeStop(r))` TLC finds `RunSettles`
violated, as it does for the local job once the exception is dropped.

### What the code does not keep

Five more properties are stated in `BackupRuns` and belong to no run, because
the code does not keep them.  TLC finds a counterexample when one of them takes
the place of the properties in `MCBackupRuns.cfg`, or `StopSettles` that of
`RunSettles` in `MCBackupLive.cfg`.

- `OneRunningRunPerJob` (the page says "is already running"): the test for a
  running run and the insert of the next one are two statements; a page and the
  scheduler (or two pages) both pass the test, and one job has two running runs.
  `SchedulerNeverDoubles` is what remains true: the scheduler's own loop never
  does it, whatever else happens.
- `CancelsOnlyOrphans` ("no active worker process was attached"):
  `_backup_worker_matches_run` compares host names first.  The page's stop of a
  run that the scheduler launched finds no worker, and cancels the row and
  removes the stop file while the worker goes on.
- `ScheduleFollowsSwitch`: the worker saves `next_run_at` from the job it loaded
  at its start.  A job disabled during a run is scheduled again, one enabled
  during a run is never dispatched.
- `StopSettles` ("limited by stop requests"): the page's stop of a run that the
  scheduler launched finds no worker, raises the stop file, and finalizes the run.
  When that write gives up on a locked database the stop file is removed all the
  same: the worker never sees it, the scheduler's reconcile recognises the worker
  and leaves the run alone, and a transfer without a timeout goes on under a row
  that says a stop was requested.
- `SuccessStands`: the heartbeat column of the row is written when the worker
  starts, later beats go to the runtime file.  A reconcile loads the running row
  of a worker that then ends, stores its success and removes the file; judged
  without the file the row's old heartbeat is stale, and "the worker heartbeat
  became stale" replaces the success.

### Proofs

`BackupRunsProofs` proves, for all jobs, runs, request threads and bounds:
`TypeCorrect`, `BusyStaysRunning`, `SchedulerSafe`, `CancelledIsAsked` and
`LedgerImplemented`, from four of the named assumptions of `BackupRuns` (local jobs
are jobs, the scheduler is not a web thread, the sentinels are not values, the
bounds are naturals); the fifth, on `TimedJobs`, concerns fairness only.

None of the four properties is inductive.  `IInv` adds

- `Held`: the row an actor is about to spawn, flag or settle has been allocated;
- `Unallocated`: an id that is free has no files, no worker and no holder;
- `SpawnedOnce`: at most one actor can be about to spawn a run, and none once
  its worker exists;
- `StopsAsked`: a stop in a row, a loaded row or a stop file, a verdict
  "cancelled" held by anybody, was asked for;
- `Undisturbed`: as long as nobody asked for a stop of it, a run about to be
  spawned or booting has a fresh, running row, a busy one a fresh heartbeat file,
  and nobody who loaded the row before can judge it stale;
- `OneSchedulerRow`: the scheduler has at most one running row per
  job, and none when it is about to insert one.

The argument.  A reconcile acts on rows loaded earlier, so `Undisturbed` has to
speak about loaded copies: what was loaded as stale had no worker to come
(spawning happens once, boot follows spawn while the row is fresh), and what was
loaded as fresh is not judged stale.  `SchedulerSafe` follows because a busy,
undisturbed worker's row is running (`BusyRunIsRunning`), the scheduler checks
for running rows before it creates one, and between its check and its insert
nobody but itself inserts rows with its label.  Steps that touch no run and move
an actor to a state that holds nothing keep `IInv` by one lemma (`QuietKeeps`);
worker and time steps by another (`OrderlySteps`); the remaining ones have a
lemma each.

For the refinement, `StatusStep` says what every step does to the statuses (one
run opened, one verdict stored, a job's runs dropped, nothing), and `LedgerStep`
maps that to a step or a stutter of `RunLedger` under `RunStates`.

Only model-checked: `RunSettles` (liveness under fairness is beyond the
prover).  `IInv` was itself checked by TLC on the instance of `backup_runs`.

## 3. Script runs

`ScriptRuns` models the runs of saved scripts (`jobs_app`), `MCScriptRuns` is
its instance.  The code was written after that of the backups, and so is the
module: the same variables, one step per statement, the same environment.  What
differs, and why it is a module of its own:

- a worker is recognised by its process id alone, so the last two steps of
  `proc` tell an id that is **taken** (its process is a zombie, or the id was
  given to another process) from one that is **gone**;
- a stop (`AskStop`, `SaveStop`, `RaiseFlag`) cancels the run at once
  unless the row had an id on record;
- `finalize_script_run` is one write without a fallback, so it happens or is
  lost with the runtime files removed all the same;
- a job may be one-off: `scheduled_for` and `next_run_at` pass together, and the
  worker disarms the job in `Advance`, after the verdict (`Afters`).

Of a row that has left "running" nobody reads the process id, the stop time or
the heartbeat; the model clears them.

| Run | Instance | Shows |
|---|---|---|
| `script_runs` | 1 job, 2 run ids, 1 request, 1 crash or restart; 1.2 million states | types; `ScriptRunsAreSafe`, that is `BusyScriptIsRunning`, `SchedulerNeverDoublesScript` and `CancelledScriptWasAsked`; `ScriptLedgerKept` (the refinement of `RunLedger`) |

The bounds are those of the backup runs, for the same reasons.

Not kept by the code, and stated without a run: `ScriptRunSettles` (under
`FairSpec`, whose fairness is that of `backup_live` with a hard and an idle timeout
on every script) and `OneOffRunsOnce`.  A run whose worker died stays running when signal 0 reaches a zombie, or whoever has
the id now: the reconcile passes the row over and the scheduler passes its job
over, for ever.  And between the verdict of a one-off run and the statement that
disarms its job, the scheduler finds no running run and an enabled, due job.

### Proofs

`ScriptRunsProofs` proves, for all jobs, runs, request threads and bounds, from
the three named assumptions of `ScriptRuns`: `TypeCorrect`, `ScriptsSafe` (all of
`ScriptRunsAreSafe`) and `LedgerImplemented` (`ScriptLedgerKept`).  Its `IInv` has
the parts of section 2, with two differences that the code makes.  A fresh
heartbeat protects a booting run only while its row says "running" (a stop
cancels a row that has no process id yet, before its worker has booted), and the
steps that reap a process or give its id away (`InvIds`) are shown to touch
nobody's row: an id that is taken only keeps a reconcile away.

For the refinement, `StatusStep` and `LedgerStep` are again what a step does to the
statuses, and that step seen in `RunLedger`.  `ScriptRunSettles` is not among the
theorems because the code does not keep it.

## 4. File operations

`FileOperations` models one operation of the file manager: its row, the files it
works on, the workers and the requests.  `MCFileOperations` is its instance.

| Variable | In the code |
|---|---|
| `order` | what was asked for: `action`, the conflict policy, `transfer_method` |
| `row` | `FileOperation`: `status`, `completed_sources`, the two request times set or not |
| `disk` | for each item: does its source exist, was it half removed (`cut`); what lies at its target (an older file, something that is not whole, the item) |
| `archive` | what compress and download build: the content of `.tmp`, who opened it, the content of the archive |
| `worker` | each `run_file_operation` process: where it is, its `completed` and `errors`, what it last read of the row |
| `page` | each request thread and the status in its copy of the row |
| `hist`, `requests`, `faults` | history (`overlap`, `stale`, `dead`); counters for the bounds |

`AskPause`, `AskCancel`, `AskResume` load the row; `Pause`, `Cancel` and
`Settle`, `Start` and `Spawn` write to it and start the worker.  `Boot` and
`Prepare` begin the work, `Look` reads the row before each item, `Examine*` asks
for source and target, `Clear` deletes what is overwritten, `Transfer*` and
`AddToArchive*` do the item, `Remove` deletes a source, `Record` stores the
progress, `Replace` puts an archive in place, `Finish`, `Stop` and `Fail` store
the status.  `Interrupt` is the look at the requests inside an rsync or a walk.
`Locked`, `Dies`, `PageDies` and `ItemFails` are the environment; `Halfway` is what
`Clear`, `Transfer` and `Remove` may leave when they fail or are killed on the way: a
part at the target, a target or a source of which only a part is gone (`rmtree` stops at
the first entry that it cannot remove).

Abstractions.  An item is a file, or a folder that is replaced, kept or renamed as a
whole: merging folders and `rsync --delete` are left out, as are searches, uploads and
an item whose target is its source.  The members of an extracted archive are its
items.  The policy for files stands for the one for folders as well.  Names that
"rename" finds are one set with the target's own name, since no property asks
which.  Other programs and other operations do not touch the files.

| Run | Instance | Shows |
|---|---|---|
| `file_operations` | 2 items, 2 workers at a time, 2 request threads, 2 requests, 1 fault, every action, policy and older target; 0.8 million states, `FairSpec` | types; `NothingLost`; `ReportIsTrue`, that is `CompletedIsTrue` and `SuccessIsWhole`; `OverlapNeedsStaleRequest`; `OperationEnds` |

`NothingLost` and `ReportIsTrue` speak of operations that never had two workers
at once (`hist.overlap`), because they fail after that: of two workers that move
one item, one finds the item at its target, takes it for an older file and
deletes it.  `OverlapNeedsStaleRequest` says how that comes about, and how only:
a request stored a status over one that had changed since it loaded the row (two
resumes, or a cancel of a paused operation and its resume).  `OperationEnds`
needs the exception `hist.dead`: no code looks after an operation whose worker
died.

`NothingLost` has one more exception by name, `Halved`.  A folder is moved across file
systems (or by rsync) with the policy Overwrite for folders; its copy is complete, and
the removal of its source stops half-way.  The item is an error; on Resume the rest of
the source meets the complete copy, which is deleted to make room for it
(`_transfer_path`, lines 428-430), and what was removed from the source is gone.  Without
the exception TLC shows this in a few steps; with Skip or Rename nothing is lost, and that is
checked and proved.  (Merge, the default, is not modelled.)

Two items show progress that is kept over a resume and an error beside a
success; two requests are what a pause and a resume, or two resumes, need; one
fault is each crash, lost write or failed transfer once.  Fairness: a worker or
a request under way goes on; nobody has to ask for anything.

Not kept by the code, and stated without a run: `PartsAreResumed` ("Partial
transfers can be resumed").  A copy by rsync with the policy Skip, paused in the
middle of an item: rsync leaves the part under the target's name; the resumed
worker takes it for a file that was there before, skips the item, and ends as a
success.

### Proofs

`FileOperationsProofs` proves `TypeCorrect`, `OverlapsAreStale`
(`OverlapNeedsStaleRequest`), `ItemsSurvive` (`NothingLost`) and `ReportsAreTrue`
(`ReportIsTrue`) for any number of items, workers, request threads, requests and
faults, every action, policy and older target.  It assumes what `FileOperations`
does: there is an item, `Nobody` is no worker, the bounds are naturals.

`IInv` has two layers.  `Carried` holds as long as no request was stale: at
most one request thread or worker carries the operation, none when the row rests,
so that a second worker can only be started after a status was stored over one
that had changed.  `Truth` holds as long as there was no overlap, and says what a
worker that is alone `Knows` at each of its steps: what the row lists and what it
has itself counted is done (`Holds`: it is in the archive it owns, or settled on
the disk), the item it is at is not among that, a source it is about to remove
has its copy in place (`Copied`), a target it is about to write under Skip is free, and with no error so far the items before the present one
are all counted.  `CompletedIsTrue` and `SuccessIsWhole` are then what the worker
knows when it stores its progress and its verdict.

Two theorems say what a step never does.  `FinishedIsNotRedone` (`DoneStaysDone`):
while workers have not met, an item of a copy, move or delete that is listed as
completed stays listed and its files are not touched, by whichever worker goes on
after a pause or a failure.  It needs, besides `IInv`, that the worker at an item
has all of the row's list in memory (`StoredIsSeen`): it writes its own list over
the row's.  `VerdictsStay` (`RestsAreKept`): a success is final, and the other verdicts are
left only by a resume or, from paused, a cancel, unless a request stored over a status
that had changed; it needs that a resume under way found no success (`Resumable`).

`OperationEnds` (liveness) stays model-checked.

## 5. HTTP backup sync

`HttpSync` models `sync_http_backup` and the endpoints of the other server.

| Variable | In the code |
|---|---|
| `job` | `BackupJob.http_direction`, `delete_enabled` |
| `src`, `dst` | the two trees: of each file the version of its content, and at the destination the version whose size and time it carries |
| `sync` | the worker inside `sync_http_backup`: what it has listed, what is left to transfer or delete, the attempt it is at |
| `upload` | `http_backup_file_view` requests the server works on, awaited by the worker or not |
| `hist`, `edits`, `faults` | what was missing or unlisted during the run, what was deleted; counters for the bounds |

`Scan`, `Scanned` and `Compare` are the manifest, file by file, and the
comparison; `Send`, `Answer` and `TimesOut` an upload with its retries; `Replace`
and `Utime` the server's side of it, which renames the file into its place and
sets its time in a statement of its own; `Fetch`, `Place` and `Stamp` are a
download; `Delete` and `Prune` remove what a manifest does not name.  `Vanished`,
`TransferFails`, `PruneFails`, `UploadFails` and `Abandon` (the worker dies, is
stopped, or gives up) are the errors, `Edit` is everybody who uses the source.

A version stands for a content with its size and the second of its modification
time.  An edit that changes neither is outside of the model, as is a file read in
the middle of an edit.  Batches and bundles are taken file by file.

| Run | Instance | Shows |
|---|---|---|
| `http_sync` | 3 files, one of them excluded, in two folders, pushes and pulls, with and without deletions, every pair of trees at the start, 3 versions, 2 uploads at a time, 1 retry, 2 faults; 0.9 million states, `FairSpec` | types; `SameTimeSameContent`; `SuccessCopied`; `DeletedWasUnlisted`; `Converges` |

The comparison of later runs relies on size and time, so what is most dangerous
is a file that has the source's time without its content
(`SameTimeSameContent`).  It can come about in one way: an upload of an earlier
run, given up after a timeout, is carried out late (`hist.late`), which the
properties leave out by name.  `DeletedWasUnlisted` says what deletions are
bounded by: a file that could be listed all through a run stays.  `Converges` is
the purpose of the whole: after the last edit and fault the destination becomes a
mirror, from whatever interrupted runs have left behind.

Two handlers are what an upload and its retry need, three versions an edit before
the manifest and one after it.  The third file is there for the exclude pattern
and for its folder.  Fairness: the schedule starts the job again and again
(section 2), a run under way goes on, the server works on what it was sent.

Not kept by the code, and stated without a run: `DeletedWasGone` (the form says
"remove local destination files that no longer exist on the remote source").  A
manifest leaves out what is too large or cannot be read, and the pull deletes it.

### Proofs

`HttpSyncProofs` proves `TypeCorrect`, `UnchangedIsUnchanged`
(`SameTimeSameContent`), `SuccessIsTrue` (`SuccessCopied`) and `DeletionHasCause`
(`DeletedWasUnlisted`) for any finite or infinite set of files, any excluded ones
and any folders, and any number of handlers, retries, edits and faults.

What makes them inductive:

- `Fits`: a content was read no earlier than the version it is stamped as, and if
  the source is still at that version, it is that version's content.  The worker
  lists before it reads, so whatever it holds, sends or has placed fits (`Loop`,
  `Sent`, `Stamped`); when the source has moved on, the destination's time differs
  from the source's, and the next comparison sees it.
- `Sent` and `Repeated`: a request of the present run for a file that is still to
  do is one for the file the worker is at, with the content the worker holds; a
  request and its repetition carry one content, so it does not matter which one
  is carried out last, nor whether the first is still under way.  Requests exist
  only in pushes: a pull has nothing in flight.
- `Replaced` and `Copied`: between its content and its time a file keeps the
  content, and what the loop is through with is there.  Pruning spares a file
  with a request of this run, because such a file is listed.
- `Gaps`: what a manifest does not name was missing or unlisted at some time of
  the run, or excluded.
- `Written` (the three that speak of the destination) is claimed only while
  `hist.late` is false, as in the properties.

`DestinationGoesForward` proves the action property `NeverOlder`: whatever is
retried, repeated, pruned or edited meanwhile, no step puts an older version in the
place of a newer one.  The auxiliary invariant is `Forward`: the content the worker
holds and the content of every request of the present run that has not replaced its
file yet is at least as new as what the destination has (`Current`).

`Converges` (liveness) stays model-checked.

## 6. Web terminal

`Terminal` models the sessions of the server and one page that shows one of them.

| Variable | In the code |
|---|---|
| `term`, `born` | `TerminalSession`s: how much output there is, alive, in the registry |
| `doomed` | what `_cleanup_loop` has found expired under the lock and closes after it |
| `sock` | the websocket with its `WebTerminalConsumer`: the session and cursor it serves, the output loop, the messages under way |
| `calls` | the page's requests to the HTTP interface: start, poll, close |
| `tab` | the script's variables: `terminalSessionId`, `terminalCursor`, the fallback's session, cursor and queue, the reconnect timer |
| `typed`, `screen` | input that waits, and what the terminal shows |
| `past` | history: an answer came late, input strayed, which chunks a reader was too late for |

`Accept`, `LoopRead`, `LoopEnds` and `Drop` are the consumer; `Output`, `Exit`,
`CleanupLook` and `CleanupClose` the threads; `ServeStart`, `ServePoll`,
`ReadPoll` and `ServeClose` the views.  `Opened`, `ReceiveSession`,
`ReceiveOutput`, `SocketClosed`, `TimerFires`, `FallbackStarted`, `Polled`,
`CloseReturns` and `PostInput` are the listeners and continuations of the script;
`Type`, `Reconnect`, `ForceNew`, `Clear` and `Reload` the user.  `HandshakeFails`,
`CallFails` and `Restart` are the faults (`Loss`).

Output is counted in chunks, as the reader thread numbers them.  Sizes, status
texts, pings and terminal sizes are left out.  `screen` is what has been written
since the terminal was last empty: the script asks for the whole backlog again only
when the terminal looks blank (`shouldReplayFromStart`, which looks at rows of
text), and the model begins a new `screen` with that replay.  Text that is on the
terminal and not in its visible rows is not modelled.

| Run | Instance | Shows |
|---|---|---|
| `terminal` | 2 sessions of 2 chunks each with a backlog of 1, 2 HTTP requests at a time, 1 key, 1 move of the user, 1 loss; 1.3 million states, `TFairSpec` | types; `ShownUpToCursor`; `InputReachesItsSession`; `Reaped` |

The backlog is smaller than the output, so that chunks are evicted; two sessions
are what input can stray between; two requests are a poll that is still under way
when the page starts its next one.

A page that has gone over to a websocket still takes the answer of a poll it sent
before: it is not told apart, and moves the cursor and the screen.  `past.late`
marks that.  Behaviours are followed up to the first such answer, it included
(`TNext`), and the properties hold without it; what one late answer does to the
screen is plain from the code, what comes after it is of no use to anybody.
Fairness (for `Reaped`): the cleanup thread goes on, every 30 s.

Not kept by the code, and stated without a run: `EndIsTold`.  `_output_loop` asks
whether the session is alive before each read; a process that ends right after a
read ends the loop without the status message and without closing the socket.

### Proofs

`PagesProofs` proves `TerminalTypes` (`TTypeOK`), `ScreenIsWhole`
(`ShownUpToCursor`) and `InputArrives` (`InputReachesItsSession`) for any number
of sessions and chunks, any backlog, any set of requests at a time, and any bounds
on keys, moves and losses.  The only assumption is that these are natural numbers,
and that there is a session, a chunk and a backlog of at least one.

`ShownUpToCursor` alone is not inductive: whether the next message fits depends on
who sent it, and from which cursor.  `TIInv` adds

- `Filled`: what a request carries fits the step it is at;
- `Asking`: the page waits for one answer at a time, and only while it has no
  websocket; a start that was reused names the page's session, a poll was asked with
  the fallback's cursor, and its answer continues from there;
- `Connection`: the fallback and the websocket exclude each other; the fallback's
  session and cursor are the page's; a handshake asks for the page's session, from its
  cursor or from the start;
- `Stream`: the messages under way on a websocket continue the page's cursor one
  after the other (`Reach(i)` is the cursor after the i-th), up to `sock.sent`, where
  the consumer is; the first may be the one that names the session, and then the page
  begins at its cursor or at 0;
- `Queue`: the input in the fallback's present chain is for the fallback's session.

All but the types and `Filled` are claimed only before a late answer, as the
properties are.  `Continues` is the step of the argument: a reader that asks after a
cursor gets the chunks after it, without a gap except for those that `past.evicted`
records.  TLC checked `TIInv` on the instance of the run before it was proved.

`OutputContinues` proves the action property `OutputGoesOn` from the same invariant:
as long as the page keeps its session, each step leaves what is shown in place and
adds at the end, with the cursor going forward, or clears the screen and sets the
cursor to 0 to show the output again.  The state invariant cannot say this: a page that jumped
from one correct picture to a shorter one would satisfy it.

## 7. Alerts, reports and the sampler

`Sampler` models one process: `run_sampler`, which stores a snapshot, evaluates
the alert rules, generates the reports that are due, prunes, and sleeps.

| Variable | In the code |
|---|---|
| `snaps`, `rules`, `events`, `reports`, `runs` | the tables `SystemSnapshot`, `AlertRule`, `AlertEvent`, `ReportRule`, `ReportRun` |
| `tx` | the transaction of `evaluate_alerts`: its view of rules and events, whether it holds the write lock, the notification on its way |
| `form` | a POST of the report schedules between reading and saving |
| `s`, `now` | where the sampler is, and the time in ticks |

`Collect`, `BeginAlerts`, `Evaluate`, `Told`, `Commit`, `Dispatch`, `Generate`,
`Notified`, `SaveRule`, `Prune` and `Tick` are the cycle; `ToggleAlert`,
`DeleteAlert`, `OpenForm`, `SaveForm` and `DeleteReport` the pages;
`CollectFails`, `EvaluationFails`, `DispatchFails`, `PruneFails`,
`TellingHangs`, `NotifyingHangs` and `Crash` what can fail.  The transaction is
SQLite's: it reads without a lock, and its first write fails when somebody has
written since.  `Generated` and `Missing` are the report's series and the gaps it
names, computed as in `build_time_series_chart_data`.

| Run | Instance | Shows |
|---|---|---|
| `sampler` | 2 alert rules (current value; average over a window), 1 report rule, 7 ticks, 2 metric values, 1 fault and 1 edit, both before the last tick; 2.9 million states | types; `AlertsAreTrue`, that is `RepeatsHaveCause` and `AlertsMatchLastEvaluation`; `OccasionsReportedOnce`, that is `OneReportPerOccasion` and `EveryOccasionReported`; `ReportTellsGaps` |

Retention is 3 ticks and cadence 2, so that in 7 ticks an event is pruned under
its rule, three reports are due, and an outage swallows one.  One fault and one
edit are each of them at each place before the last tick; the exceptions of the properties
(`hist.lost`, `hist.torn`) name what one of them does: a notification that is out
while its record is rolled back, an event pruned with its snapshot, a report
whose rule was not saved, a form that takes `next_run_at` back.
`EveryOccasionReported` allows for what failures cost, and rules that are deleted
while reports are generated: an interval each (`Slack`).

Simplified: one metric; the comparison `gte` stands for the four; processes in
snapshots, the texts of reports and alerts, and the switches that turn
notifications off are left out (off, nothing is sent, which is one of the
outcomes).

Not kept by the code, and stated without a run: `StepsAreIsolated`.
`collect_snapshot` catches `OperationalError` of each step, so that a busy
database skips that step only; any other error of the evaluation also skips
reports and pruning of that cycle.

### Proofs

`SamplerProofs` proves `TypeCorrect`, `AlertsTrue` (`AlertsAreTrue`), `ReportedOnce`
(`OccasionsReportedOnce`) and `GapsTold` (`ReportTellsGaps`) for any sets of rules,
any windows, minimal counts and cooldowns, metric values, interval, retention,
cadence, period and number of points, and any number of failures and edits.  The
assumptions are that rules and times are numbers, and that interval, retention,
cadence, period and points are not 0.

Working the proofs out corrected two properties, which the instance was too small to
refute.  With two report rules that are due together, deleting the one that is
generated first makes the second one's save fail and costs an interval, so that
`Slack` counts edits besides faults.  And a gap at the end of a report is never
named, since its last bucket holds the snapshot the report is made at:
`ReportTellsGaps` claims gaps up to two buckets before the end.

The parts of `IInv`:

- `Rhythm`: a cycle takes no time, the next one comes between a tick and an interval
  after it; only an evaluation is a transaction;
- `Record`: the committed events against what was told and what the last evaluation
  found.  A rule's last event says why it need not be told again: it is active, or was
  resolved within the cooldown (`Quieted`);
- `Evaluation`: the events inside the transaction.  Those of a rule that is still to
  come are the committed ones; a rule whose events differ was treated (`Treated`);
  nothing was sent before the first write.  A commit turns `Evaluation` into
  `Record`, a rollback leaves `Record` as it was but for rules whose notification is
  out (`hist.lost`);
- `Schedule`: `next_run_at` and the copies the dispatch loaded are occasions, and what
  was reported is before the next one;
- `Kept`: every occasion before `next_run_at` was reported since the rule is on;
- `InTime`: an occasion that is not reported yet is waited for no longer than `Slack`
  allows, with the place of the cycle in account.

`GapsTold` needs of the invariant only how reports are made (`Made`), and otherwise
arithmetic: a gap of two buckets less a tick holds one bucket whole, that bucket has
no snapshot, and the longest row of empty buckets around it is named.  No sum over
windows is needed: which mean a window has is not used by any proof, since an
evaluation may find a rule triggered or not, whatever the values are.

`AlertsStay` proves the action property `AlertsStayOnRecord`: no evaluation takes a
committed alert back or rewrites it except to resolve it; only pruning and deletion
remove one.  A commit replaces `events` by what the transaction has made of the copy it
began with, so that the auxiliary invariant is about that copy: `Carries`, every
committed alert is in it, as it was or resolved at the time of the transaction.

## 8. Volumes

`Volumes` models the page of the volumes, its POSTs and the workers of label and
format operations, on a host whose users mount, unmount and replug meanwhile.

| Variable | In the code |
|---|---|
| `disk`, `fs`, `host`, `held`, `open`, `making` | the host: which partition a device node is, its filesystem, what is mounted where and in which other mount namespaces, what was detached while in use, running `mkfs` |
| `prefs` | `VolumeMountPreference` |
| `page`, `req` | the page in the browser, and its POST inside `VolumesView.post` |
| `ops` | `VolumeOperation` with its worker |
| `old`, `hist` | who has read what has changed since; history |

`ReadMounts` and `ReadRows` are the two readings of `list_volumes` with its
deduplication; `Mount`, `Umount`, `CheckHost`, `CheckReferences`, `Release`,
`Recheck` and `Start` the commands of a request one by one; `Begin`,
`WorkerChecksHost`, `WorkerChecksReferences`, `Label`, `Mkfs`, `MkfsEnds` and
`Save` those of a worker.  `CheckHostFails`, `WorkerCheckFails`, `LsblkFails`,
`LabelFails`, `MkfsFails`, `MkfsTimesOut`, `ReleaseFails`, `RequestTimesOut`,
`StartFails` and `WorkerDies` are the faults; `HostMounts`, `HostUnmounts`, `AppStarts`, `AppStops` and `Replug`
the other users.  A check whose command fails finds nothing, as in the code.  A
label command that fails or is given up after its timeout may have written the
label or not; a detachment in a namespace that fails does not keep the others from
being tried, and makes an error of the answer (`"errors"`), so that no format
starts.

| Run | Instance | Shows |
|---|---|---|
| `volumes` | 2 partitions (one NTFS, one ext4), 1 mount point, 1 other namespace, 2 operations, 2 POSTs, 2 acts of others, 1 fault; 1.0 million states | types; `TouchesOnlyWhatWasMeant`, that is `OnlyUnusedIsWiped` and `ActsOnWhatWasSeen`; `RecordIsTrue`; `ListedOnce` |

Two POSTs are a mount and a format, or two formats of one device; two acts of
others are an unmount and a mount, or a replug before and after a reading.
`OnlyUnusedIsWiped` and `ActsOnWhatWasSeen` name what remains: only a `mkfs` that
is forced (NTFS), and only if the volume came into use after the check or was
detached on request; only after a change since the page was read.

Not kept by the code, and stated without a run: `FormatsUnmounted`, the first of
these without its exception.  The page says "Formatting is available only for
unmounted volumes."; the worker's check and `mkfs.ntfs --force` are two commands,
and somebody mounts the volume in between.

Simplified: one page and one request at a time (users of the host stand for other
requests), and the page is left after a POST; an automount whose source cannot be
resolved is listed but not posted on.  Path browsing and the display of sizes are
left out.

### Proofs

`VolumesProofs` proves `TypeCorrect`, `TouchesMeant` (`TouchesOnlyWhatWasMeant`),
`RecordsTrue` (`RecordIsTrue`) and `PageComplete` (`ListedOnce`) for any finite
sets of device nodes and partitions, as many of one as of the other, any mount
points, namespaces, filesystem types and automounts, and any number of operations,
posts, acts of others and faults.  Two named assumptions are used: the bounds are
naturals, and the names of nodes, directories and types are different from the
numbers of partitions, operations and `None`.

`IInv` has four parts besides the types (which say more than `TypeOK`: every
partition has its node, and what a form or a record of each action holds).

- `Records`: a `mkfs` at work belongs to one operation, which has begun to write and
  has not ended (`Making`); an operation that has not got to its command has touched
  nothing (`Untouched`); what a worker is about to save, and what is saved, agrees
  with what came of it (`Says`).  The point is the command, a `mkfs` above all, that
  outlives the wait for it: a record may say "failed" while it is at work, and the later end must find the
  operation among those that were not waited for.
- `Watched`: an operation that has checked its volume, and a volume that is used
  nevertheless: the operation is among the late ones (`Checked`); what is open without a
  mount was detached on request.
- `Views`: of whoever has read something and is not out of date since, what he has
  read is so: the mounts of a page that is half read, the rows of one that is read
  (`Shown`), the volume of a request, of an operation.  A step that changes mounts,
  filesystems or nodes puts all readers out of date (`ViewsStale`), the other ones
  leave what was read (`ViewsKeep`), and the readings themselves are the two cases in
  between.
- `OnlyUnusedIsWiped`, `ActsOnWhatWasSeen` and `ListedOnce` themselves.

`PageComplete` rests on the de-duplication: a row without a filesystem has its node
for a key, which is the name of no filesystem, so that no row beats it, and the
automounts that remain have no node (`RowsListed`, `RowsDiffer`).  That a partition
has a node in the first state follows from the pigeonhole principle (`InitPlaced`).

## 9. Process control

`Processes` models the rows of the monitor's pages and `ProcessActionView.post`.

| Variable | In the code |
|---|---|
| `table`, `births` | the processes of the host by pid |
| `samples` | `ProcessSnapshot` |
| `page` | the rows that the pages offer an action on: live ones and historical ones |
| `cache` | `_CONTAINER_PID_CACHE` |
| `req` | requests inside the view: what they have read of the process, in which container they have found it |

`LoadPages` builds the rows; `Post` begins a request; `Read`, `ReadBlind`
(docker fails) and `ReadNames` are the readings of `get_current_process` and
`validate_process_identity`; `Signal`, `Docker`, `Wait`, `Spawn` and `CommandFails`
(the launch or the docker command) are the action, with the restart's five seconds
between SIGTERM and SIGKILL.
`Exits`, `Starts` and `Tick` are the host.

| Run | Instance | Shows |
|---|---|---|
| `processes` | 3 pids, 2 requests at a time (symmetric), a host program, one whose command cannot be read, one in a container, 5 births, 2 POSTs, 2 exits or starts, 1 fault; 0.9 million states | types; `HitsWhatWasShown`; `RunsOnce` |

Programs share a name, so that a reused pid is recognised by command or age or
not at all.  Five births are the three processes of the beginning, and one that
reuses a pid while a restart adds another.  `HitsWhatWasShown` allows for two windows, by name: the pid
was given away during the request, or the map of containers was older than the
process.  `RunsOnce` allows for two overlapping restarts of one process
(`Restarts`: a request counts from its reading of the process to its launch).

Simplified: live rows carry no time, so a process of the same name, user and
command that took the pid before the POST is accepted, as in the code; samples
are taken once; the page is loaded again after a POST; stopping the application's
own container ends its requests.  Restarting the host is left out.

Not kept by the code, and stated without a run: `DoesWhatWasConfirmed`.  The
confirmation in the page names a process or its container from when the row was
built; the request looks again and does what fits then, so that the whole
container is stopped where the process was confirmed, or the other way round.

### Proofs

`PagesProofs` proves `TypeCorrect`, `HitsShown` (`HitsWhatWasShown`) and
`RestartedOnce` (`RunsOnce`) for any finite set of pids, any programs and
containers, and any number of requests under way together.  It assumes that no
two processes of the beginning are the first ones of one container.

`IInv` says what a request that has read a process may rely on: births are not
used twice, so a process that still has the number it was read with is the one
that was read (`ReadOnce`); a request that acts has found it to look like the row
of the page (`Checked`); a map of containers knows every process that is older
than itself (`MapIsTrue`), so the container of a request is that of the process it
has read, unless the map was the older one (`Located`).  `RestartedAlone` is what
`RunsOnce` needs: while only one restart of a process is under way, the process is
nowhere but at the pid that is shown, and when the restart has got to its launch it
is nowhere at all.

## 10. Managed downloads

`Downloads` models `resumable_download.js` and the responses it is given.

| Variable | In the code |
|---|---|
| `source`, `share` | the version of the file on the server; is the share active |
| `transfer` | the object `transfer` of the script: state, offset, ETag, which loop's controller it holds, the file that is written |
| `loop` | the calls of `downloadNextChunks` that have not returned, each at an `await` |
| `starting` | calls of `beginManagedDownload` that wait for the user's choice of a file |
| `hist` | two loops were at work; the file was replaced between the headers of a response and its body |

`Start` and `FileChosen` begin a transfer; `Enter`, `Headers`, `Body`, `Written` and
`Closed` are the steps of a loop between two awaits (`Proceed` decides how it goes
on, `Caught` is its `catch`); `Pause`, `ResumeTransfer` and `Stop` are the buttons;
`Replace`, `Revoke` and `Lost` the environment.  `Honored` is what the server does
with `Range` and `If-Range`.

| Run | Instance | Shows |
|---|---|---|
| `downloads` | 3 versions of 2, 1 and 3 chunks, 3 loops, 2 starts, 3 clicks, 1 fault; 1.3 million states | types; `ChunksInPlace`; `RunningIsServed` |
| `download_kept` | 1 version, 1 start, 3 clicks | **violated**: `ChunksAreKept` |

The versions are shorter and longer than the first, whose size the page knows.
Three clicks are pause, resume and pause or stop.

`download_kept`: the panel says "The completed chunks are kept in this session."
A pause does not end a loop that waits for its write, and Resume starts another
one.  Both have asked for the same chunk; when the first one's write is done the
offset moves, the second one writes its chunk at the new offset, in the place of
the next chunk, and the download ends as complete.  `ChunksInPlace` shows that
without two loops (`hist.overlap`), and without a replacement in the middle of a
response (`hist.torn`), the ETag keeps versions apart.

### Proofs

`TransfersProofs` proves `DownloadTypes` (`DTypeOK`), `DownloadIsIntact` (`ChunksInPlace`) and
`DownloadIsServed` (`RunningIsServed`) for files of any size, any number of
versions, loops, downloads, clicks and faults; the set of loops is finite.

`RunningIsServed` needs the types only: each step that ends a loop looks at the
state of the transfer, and each step that sets it to running begins a loop.
`ChunksInPlace` needs three layers: as long as no two loops were at work there is
one at most (`OneLoop`); then what it asks for and what it writes is the chunk at
the offset, and the file is closed only when it is full (`Aligned`); and if no file
was replaced under a chunk, `If-Range` makes the chunk one of the version that was
begun, as are those before it (`Intact`).

Simplified: a chunk is one unit; headers and the client's look at them are one
step; aborting a fetch or a body ends the loop at once, a write cannot be aborted;
`Lost` is also a write that is rejected (a full disk), after which a retry may
succeed here and is rejected again by a stream that has failed; a close that fails
without a stop, and the share's access log, are left out.

## 11. Uploads

`Uploads` models the upload half of the file manager: `file_manager.js` sending,
`start_chunked_upload`, `save_upload_chunk`, `finish_chunked_upload` and
`save_uploaded_files` receiving.

| Variable | In the code |
|---|---|
| `rows` | `FileOperation` of kind upload: `status`, `completed_sources` |
| `parts` | the folder of the operation in the runtime directory, with its `.part` files |
| `dest` | the destination: what was there before, whole files, files being written |
| `work` | the request, or the worker, that is at an operation: its file and chunk, the row in its memory, the path it has found |
| `page` | the operation that a page waits for |
| `raced`, `resumed`, `faults` | history: paths that two requests have found free, operations that were resumed; the counter for the bound |

`StartChunks` and `StartDirect` create the row; `Load`, `Write`, `Find`, `Open`,
`Copy` and `Save` are `save_upload_chunk`, the last four also each file of
`save_uploaded_files`; `Finish` and `End` are `finish_chunked_upload` and the
verdict.  `GivesUp` is a page that does not wait for an answer any more, while its
request goes on; `Fails` and `FileFails` are errors and deaths; `Resume` is the
button of a failed operation, whose worker finds all the files it knows of in
`completed_sources`.

| Run | Instance | Shows |
|---|---|---|
| `uploads` | 2 pages, one with a file of 2 chunks and one of 1, the other with a file of 2 chunks under the name of the first, one name taken before; 3 operations, 1 fault; 0.8 million states | types; `FilesKept`; `SuccessIsWhole` |

Two pages with one name are what a race for a path needs, three operations a page
that starts anew while the request it gave up goes on; three numbered copies are as
many as the operations can ask for.  The name is free when `Find` looks and taken
by `Open`: two requests that have found it free write one file.  `FilesKept`
excludes these paths (`raced`) and shows that there is no other way to touch a
file that is there.

Simplified: the chunks are units; the page sends one request at a time, as its
loop does; pause and cancel are left out, since they set flags that no upload
reads.

Not kept by the code: an upload that failed as incomplete ends as a success when it
is resumed, since its worker knows only the files that have come; `SuccessIsWhole`
excludes it by `resumed`.

### Proofs

`TransfersProofs` proves `TypeCorrect`, `UploadsKeepFiles` (`FilesKept`) and
`UploadSuccessIsWhole` (`SuccessIsWhole`) for any pages, files and operations, from
the four named assumptions of `Uploads`.  `ReceivedOK` says that the part holds
exactly the chunks up to the one the request is at; `CountOK` that the files before
the present one are listed, from the row as it was loaded to the row as it is
saved, which a single page's loop makes true (`TypeOK` has the half of it that the
page waits for a request of its own operation); `Owned` and `Kept` that a path
that one request alone has found free is touched by that request alone, and by
nobody once it is listed.

`SavedFilesStay` proves the action property `SavedStays`: nothing is taken off the list
of an operation, a success stays one, and what is listed is not touched.  A request
writes the list it has in memory over the row's; it holds all of it (`Remembers`),
since one request at a time is at an operation.

## 12. What is proved, and what is model-checked only

| Component | Proof module | Theorems |
|---|---|---|
| Backup runs | `BackupRunsProofs` | all safety properties of `backup_runs`, and the refinement of `RunLedger` |
| Script runs | `ScriptRunsProofs` | all of `script_runs`, and the refinement of `RunLedger` |
| File operations | `FileOperationsProofs` | all safety properties of `file_operations` |
| HTTP sync | `HttpSyncProofs` | all safety properties of `http_sync` |
| Web terminal | `PagesProofs` | all safety properties of `terminal` |
| Process control | `PagesProofs` | all of `processes` |
| Sampler | `SamplerProofs` | all of `sampler` |
| Downloads | `TransfersProofs` | all of `downloads` |
| Uploads | `TransfersProofs` | all of `uploads` |
| Volumes | `VolumesProofs` | all of `volumes` |

For each of them an inductive invariant is proved (`IInv` by `Invariance`; in the two
modules about two components, that of the terminal is `TIInv` by `TerminalInvariance`
and that of downloads `DInv` by `DownloadInvariance`), and from it the properties.  Every `IInv` was checked by TLC on the instance of its component
before it was proved.  The theorems hold for every value of the constants that
satisfies the named assumptions of the module; the bounds of the instances
(requests, faults, edits) are constants too, so that a theorem says the same of a
system without them.

Six action properties are proved and are not properties of a run: `DoneStaysDone`,
`RestsAreKept`, `NeverOlder`, `OutputGoesOn`, `AlertsStayOnRecord` and `SavedStays`.
TLC finds no violation of them with the `.cfg` of the component's run and the
property added under `PROPERTY`.

Model-checked only:

- liveness under fairness, and with it all that depends on ENABLED: `RunSettles`,
  `OperationEnds`, `Converges`, `Reaped`.

Deadlock is not checked where a system may rest: every instance with a bound on
what users do comes to an end when the bound is used up.

Properties called "not kept by the code" are not among the properties of the
runs: with the `.cfg` of the section, and the property in place of the ones
there, TLC prints the counterexample (`ScriptRunSettles` under `FairSpec` and with one
run id; `DoesWhatWasConfirmed` without the symmetry).

## 13. Plan

In this order:

1. Proofs: the refinement of more abstract promises, a ledger of operations for file
   operations, uploads and volumes, for which the action properties are the steps.
2. Video previews: two requests and the marker of a conversion that died.
3. File operations: searches and folders that are merged, which take the paths of the
   loop that is modelled.
4. The seam of backup runs and HTTP sync: stop flag, timeout and heartbeat inside a
   transfer, which each of the two modules takes as a step of the other.

## 14. Not modelled

Video previews (planned); file information, file browsing, the Docker client, the
terminal login, history, users, the site shell and the bundling of the frontend
keep no state of their own, or make single calls whose answer is external.
`PROJECT.json` gives the reason for each.
