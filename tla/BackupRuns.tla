----------------------------- MODULE BackupRuns -----------------------------
(***************************************************************************)
(* The life of backup runs (backups_app).  Three kinds of processes share  *)
(* one SQLite database and one directory of runtime files:                 *)
(*                                                                         *)
(*   - the request threads of the web container (backups_app/views.py);    *)
(*   - the scheduler container's loop (dispatch_scheduled_backups);        *)
(*   - one detached worker process per run (execute_backup_job), started   *)
(*     by either of them inside its own container.                         *)
(*                                                                         *)
(* No lock is held between two database statements, so every statement,    *)
(* every touched file and every look at /proc is a step of its own.  Time  *)
(* is abstract: a heartbeat is fresh or older than                         *)
(* BACKUP_STALE_AFTER_SECONDS, a schedule is in the future or due.  A      *)
(* write that _with_db_retry gives up on after repeated lock contention is *)
(* a write that silently does not happen.                                  *)
(***************************************************************************)
EXTENDS Naturals, FiniteSets

CONSTANTS
  Jobs,         \* the rows BackupJob can have
  LocalJobs,    \* those with backup_type "local"
  TimedJobs,    \* those whose transfer run_timeout_seconds cuts off: SSH, not HTTP
  Runs,         \* the run ids of one behaviour (bounds the launches)
  Web,          \* request threads of the web container
  Scheduler,    \* the scheduler container's only thread
  NoJob, NoRun, \* "None" for a job and for a run
  MaxRequests,  \* bounds the page requests of one behaviour
  MaxFaults     \* bounds its worker crashes and container restarts

ASSUME LocalAssumption == LocalJobs \subseteq Jobs
ASSUME TimedAssumption == TimedJobs \subseteq Jobs \ LocalJobs
ASSUME SchedulerAssumption == Scheduler \notin Web
ASSUME NoneAssumption == NoJob \notin Jobs /\ NoRun \notin Runs
ASSUME BoundsAssumption == MaxRequests \in Nat /\ MaxFaults \in Nat

VARIABLES
  job,      \* table BackupJob
  run,      \* table BackupRun
  dir,      \* backup_runtime/: run_<id>.json and run_<id>.stop
  proc,     \* the worker process of each run
  actor,    \* request threads and scheduler: where they are, what they hold
  asked,    \* history: the runs a stop was asked for
  requests, \* page requests so far
  faults    \* crashes and restarts so far

vars == <<job, run, dir, proc, actor, asked, requests, faults>>

Actors == Web \cup {Scheduler}

Boxes == {"web", "scheduler"}

\* _runner_label: the host name of the container a process runs in.
Box(a) == IF a = Scheduler THEN "scheduler" ELSE "web"

-----------------------------------------------------------------------------
(* Types *)

\* "failed" stands for "failed" and "timed_out", which no code tells apart.
Verdicts == {"success", "failed", "cancelled"}

\* "free": the id is not allocated yet; "deleted": removed with its job.
Statuses == {"free", "running", "deleted"} \cup Verdicts

\* next_run_at: NULL, in the future, or not after the current time.
Due == {"none", "later", "due"}

JobFields == [enabled : BOOLEAN, manual : BOOLEAN, next : Due]

JobRow == [state : {"absent", "present", "deleted"},
           enabled : BOOLEAN, manual : BOOLEAN, next : Due]

\* A row of BackupRun; fresh: the row is running and its own heartbeat_at is
\* younger than the staleness limit (nobody reads that of a settled row).
RunRow == [status : Statuses, job : Jobs \cup {NoJob}, runner : Boxes,
           pid : BOOLEAN, stop : BOOLEAN, fresh : BOOLEAN]

\* The files of a run; beat: there is a JSON file and its heartbeat is younger
\* than the staleness limit.
RunFiles == [beat : BOOLEAN, stop : BOOLEAN]

NoFiles == [beat |-> FALSE, stop |-> FALSE]

\* "booting": spawned, the row not marked started yet; "busy": transferring;
\* "closing": the result is computed, not stored; "advancing": it is, and the
\* job's schedule is to be advanced.
WorkerSteps == {"none", "booting", "busy", "closing", "advancing", "exited"}

WorkerProc == [step : WorkerSteps, verdict : Verdicts, scheduled : BOOLEAN]

\* What mark_stale_running_backups has loaded of a row.
Loaded == [run : Runs, pid : BOOLEAN, stop : BOOLEAN, fresh : BOOLEAN]

ActorSteps == {"idle", "reconcile", "mounts", "due", "create", "spawn", "ask",
               "flag", "save", "write"}

ActorState ==
  [step : ActorSteps, back : {"idle", "reconcile", "mounts", "due"},
   run : Runs \cup {NoRun}, job : Jobs \cup {NoJob}, fate : Verdicts,
   todo : SUBSET Loaded, agenda : SUBSET Jobs, form : JobFields, pid : BOOLEAN]

TypeOK ==
  /\ job \in [Jobs -> JobRow]
  /\ run \in [Runs -> RunRow]
  /\ dir \in [Runs -> RunFiles]
  /\ proc \in [Runs -> WorkerProc]
  /\ actor \in [Actors -> ActorState]
  /\ asked \in SUBSET Runs
  /\ requests \in 0..MaxRequests
  /\ faults \in 0..MaxFaults

-----------------------------------------------------------------------------
(* State functions *)

NoForm == [enabled |-> FALSE, manual |-> FALSE, next |-> "none"]

Resting == [step |-> "idle", back |-> "idle", run |-> NoRun, job |-> NoJob,
            fate |-> "success", todo |-> {}, agenda |-> {}, form |-> NoForm,
            pid |-> FALSE]

Live == {"booting", "busy", "closing", "advancing"}

Exited == [step |-> "exited", verdict |-> "success", scheduled |-> FALSE]

\* The worker has its job to do and has not computed a result.
Busy == {"booting", "busy"}

Running(j) == {r \in Runs : run[r].status = "running" /\ run[r].job = j}

\* BackupJob.save before it stores the row: a disabled or manual job has no
\* next run, any other one has.
Saved(form) ==
  [form EXCEPT !.next = IF ~form.enabled \/ form.manual THEN "none"
                        ELSE IF form.next = "none" THEN "later" ELSE form.next]

Stored(form) == [state |-> "present", enabled |-> form.enabled,
                 manual |-> form.manual, next |-> form.next]

Settled(row, verdict) == [row EXCEPT !.status = verdict, !.fresh = FALSE]

Fields(row) == [enabled |-> row.enabled, manual |-> row.manual, next |-> row.next]

\* Mutant of WorkerMatches: a pid on record is taken for a live worker.
PidRecorded(a, r, pidLoaded) == pidLoaded

\* _backup_worker_matches_run on a row loaded before: same container, a pid on
\* record, and that pid is a run_backup_job process of this run.
WorkerMatches(a, r, pidLoaded) ==
  /\ run[r].runner = Box(a)
  /\ pidLoaded
  /\ proc[r].step \in Live

\* The next run id.  Ids are interchangeable, so they are handed out in one
\* fixed order.
FreeRuns == {r \in Runs : run[r].status = "free"}
NewRun == CHOOSE r \in Runs : run[r].status = "free"

Becomes(a, state) == actor' = [actor EXCEPT ![a] = state]

Goto(a, step) == Becomes(a, [actor[a] EXCEPT !.step = step])

\* A turn of the scheduler, or one more request to the backups page.
Begins(a) ==
  /\ actor[a].step = "idle"
  /\ \/ a = Scheduler /\ UNCHANGED requests
     \/ a \in Web /\ requests < MaxRequests /\ requests' = requests + 1

-----------------------------------------------------------------------------
(* Initial state: an empty history, jobs as their last save left them. *)

InitialJobs ==
  {Stored(Saved(f)) : f \in JobFields}
    \cup {[state |-> "absent", enabled |-> FALSE, manual |-> FALSE, next |-> "none"]}

Init ==
  /\ job \in [Jobs -> InitialJobs]
  /\ run = [r \in Runs |-> [status |-> "free", job |-> NoJob, runner |-> "web",
                            pid |-> FALSE, stop |-> FALSE, fresh |-> FALSE]]
  /\ dir = [r \in Runs |-> NoFiles]
  /\ proc = [r \in Runs |-> [step |-> "none", verdict |-> "success",
                             scheduled |-> FALSE]]
  /\ actor = [a \in Actors |-> Resting]
  /\ asked = {}
  /\ requests = 0
  /\ faults = 0

-----------------------------------------------------------------------------
(* mark_stale_running_backups: run by every GET and POST of the backups      *)
(* page and by every turn of the scheduler.                                  *)

\* The rows that are running, all at once; stale_before is fixed here.
RunningRows ==
  {[run |-> r, pid |-> run[r].pid, stop |-> run[r].stop, fresh |-> run[r].fresh]
   : r \in {q \in Runs : run[q].status = "running"}}

LoadRunning(a) ==
  /\ Begins(a)
  /\ Becomes(a, [actor[a] EXCEPT !.step = "reconcile", !.todo = RunningRows])
  /\ UNCHANGED <<job, run, dir, proc, asked, faults>>

\* The load gave up on a locked database: nothing to reconcile this time.
LoadNothing(a) ==
  /\ Begins(a)
  /\ Goto(a, "reconcile")
  /\ UNCHANGED <<job, run, dir, proc, asked, faults>>

\* One loaded row, once it is known whether a stop is on record, whether its
\* worker is recognised and whether its youngest heartbeat is fresh.  The
\* verdict is stored by "write".
JudgeBy(a, s, stop, matches, fresh) ==
  LET rest == actor[a].todo \ {s}
      Finalizing(fate) ==
        Becomes(a, [actor[a] EXCEPT !.todo = rest, !.step = "write",
                      !.back = "reconcile", !.run = s.run, !.fate = fate])
  IN
  /\ actor[a].step = "reconcile"
  /\ s \in actor[a].todo
  /\ \/ stop /\ ~matches /\ Finalizing("cancelled")
     \/ /\ ~(stop /\ ~matches) /\ (fresh \/ matches)
        /\ Becomes(a, [actor[a] EXCEPT !.todo = rest])
     \/ ~stop /\ ~fresh /\ ~matches /\ Finalizing("failed")
  /\ UNCHANGED <<job, run, dir, proc, asked, requests, faults>>

\* Mutants of Judge: the runtime file is not read; a worker that cannot be
\* recognised is taken for a stopped one.
JudgeByRow(a, s) == JudgeBy(a, s, s.stop, WorkerMatches(a, s.run, s.pid), s.fresh)
JudgeOrphanStopped(a, s) ==
  LET matches == WorkerMatches(a, s.run, s.pid) IN
  JudgeBy(a, s, s.stop \/ ~matches, matches, s.fresh \/ dir[s.run].beat)

\* One loaded row against the runtime file and the process table as they are
\* now.
Judge(a, s) ==
  JudgeBy(a, s, s.stop, WorkerMatches(a, s.run, s.pid), s.fresh \/ dir[s.run].beat)

\* A request goes on once its reconcile is through.
Ready(t) == actor[t].step = "reconcile" /\ actor[t].todo = {}

\* The scheduler goes on with its jobs, first the local ones whose disk it
\* sees mounted now and did not see before.
FindMounts ==
  /\ Ready(Scheduler)
  /\ \E plugged \in SUBSET {j \in LocalJobs : /\ job[j].state = "present"
                                              /\ job[j].enabled
                                              /\ ~job[j].manual} :
       Becomes(Scheduler, [actor[Scheduler] EXCEPT !.step = "mounts",
                                                   !.agenda = plugged])
  /\ UNCHANGED <<job, run, dir, proc, asked, requests, faults>>

-----------------------------------------------------------------------------
(* finalize_backup_run, called by a request thread or the scheduler.         *)

\* Where an actor goes on when a call returns or raises: a request ends, the
\* scheduler catches the error and takes the next job, unless the save after
\* a mount trigger finds the job deleted.
Returned(s) ==
  IF s.back = "idle" \/ (s.back = "mounts" /\ job[s.job].state # "present")
    THEN Resting
    ELSE [s EXCEPT !.step = s.back, !.back = "idle", !.run = NoRun,
                   !.job = NoJob, !.fate = "success"]

\* An error out of mark_stale_running_backups: a request ends with it, the
\* scheduler logs it and skips the rest of the loaded rows.
Aborted(a) == IF a = Scheduler /\ actor[a].back = "reconcile"
                THEN [Returned(actor[a]) EXCEPT !.todo = {}]
                ELSE IF a = Scheduler THEN Returned(actor[a]) ELSE Resting

\* The row takes the verdict, whatever its status is by now, and the runtime
\* files go.  (Between the two only the worker's poll of the stop file can
\* tell a difference, and it may as well come before both.)
WriteStored(a) ==
  LET r == actor[a].run IN
  /\ actor[a].step = "write"
  /\ run[r].status # "deleted"
  /\ run' = [run EXCEPT ![r] = Settled(@, actor[a].fate)]
  /\ dir' = [dir EXCEPT ![r] = NoFiles]
  /\ Becomes(a, Returned(actor[a]))
  /\ UNCHANGED <<job, proc, asked, requests, faults>>

\* Both the save and the direct update gave up on a locked database; the
\* runtime files go all the same.
WriteLost(a) ==
  /\ actor[a].step = "write"
  /\ dir' = [dir EXCEPT ![actor[a].run] = NoFiles]
  /\ Becomes(a, Returned(actor[a]))
  /\ UNCHANGED <<job, run, proc, asked, requests, faults>>

\* save(update_fields) of a deleted row raises.
WriteRaises(a) ==
  /\ actor[a].step = "write"
  /\ run[actor[a].run].status = "deleted"
  /\ Becomes(a, Aborted(a))
  /\ UNCHANGED <<job, run, dir, proc, asked, requests, faults>>

-----------------------------------------------------------------------------
(* Launching a run: the views' run_now and rerun_run, the scheduler's two    *)
(* loops, and start_background_backup.                                       *)

Launching(a, j, back) ==
  [actor[a] EXCEPT !.step = "create", !.job = j, !.back = back]

\* The check of run_now and rerun_run on the list page; disabled or running
\* jobs are refused.
RunNow(t, j) ==
  /\ Ready(t)
  /\ job[j].state = "present" /\ job[j].enabled
  /\ Running(j) = {}
  /\ Becomes(t, Launching(t, j, "idle"))
  /\ UNCHANGED <<job, run, dir, proc, asked, requests, faults>>

\* rerun_run on the page of a run, which does not ask whether the job is enabled.
Rerun(t, r) ==
  /\ Ready(t)
  /\ run[r].status \notin {"free", "deleted"}
  /\ Running(run[r].job) = {}
  /\ Becomes(t, Launching(t, run[r].job, "idle"))
  /\ UNCHANGED <<job, run, dir, proc, asked, requests, faults>>

\* A local job whose disk has just appeared: launched, or passed over while a
\* run is running.  (Saving last_mount_was_available of a job deleted meanwhile
\* raises: DispatchRaises, and Returned after a launch.)
MountTrigger(j) ==
  LET here == [actor[Scheduler] EXCEPT !.agenda = @ \ {j}] IN
  /\ actor[Scheduler].step = "mounts"
  /\ j \in actor[Scheduler].agenda
  /\ \/ /\ Running(j) = {}
        /\ Becomes(Scheduler, [here EXCEPT !.step = "create", !.job = j, !.back = "mounts"])
     \/ /\ Running(j) # {} /\ job[j].state = "present"
        /\ Becomes(Scheduler, here)
  /\ UNCHANGED <<job, run, dir, proc, asked, requests, faults>>

\* The query of the due jobs, evaluated once, after the mount triggers.
QueryDue ==
  /\ actor[Scheduler].step = "mounts"
  /\ actor[Scheduler].agenda = {}
  /\ Becomes(Scheduler, [actor[Scheduler] EXCEPT
       !.step = "due",
       !.agenda = {j \in Jobs : /\ job[j].state = "present" /\ job[j].next = "due"
                                /\ job[j].enabled /\ ~job[j].manual}])
  /\ UNCHANGED <<job, run, dir, proc, asked, requests, faults>>

\* Mutant of DueJob: launched without a look at the running runs.
DueJobAnyway(j) ==
  /\ actor[Scheduler].step = "due"
  /\ j \in actor[Scheduler].agenda
  /\ Becomes(Scheduler, [actor[Scheduler] EXCEPT !.agenda = @ \ {j},
                            !.step = "create", !.job = j, !.back = "due"])
  /\ UNCHANGED <<job, run, dir, proc, asked, requests, faults>>

\* One due job: passed over while a run is running, else launched.
DueJob(j) ==
  LET here == [actor[Scheduler] EXCEPT !.agenda = @ \ {j}] IN
  /\ actor[Scheduler].step = "due"
  /\ j \in actor[Scheduler].agenda
  /\ \/ /\ Running(j) = {}
        /\ Becomes(Scheduler, [here EXCEPT !.step = "create", !.job = j, !.back = "due"])
     \/ /\ Running(j) # {}
        /\ Becomes(Scheduler, here)
  /\ UNCHANGED <<job, run, dir, proc, asked, requests, faults>>

\* A due local job whose destination is not mounted: _skip_job_schedule.  (The
\* save of a job deleted meanwhile raises.)
SkipUnmounted(j) ==
  /\ actor[Scheduler].step = "due"
  /\ j \in actor[Scheduler].agenda \cap LocalJobs
  /\ Running(j) = {}
  /\ job[j].state = "present"
  /\ job' = [job EXCEPT ![j].next = "later"]
  /\ Becomes(Scheduler, [actor[Scheduler] EXCEPT !.agenda = @ \ {j}])
  /\ UNCHANGED <<run, dir, proc, asked, requests, faults>>

EndDispatch ==
  /\ actor[Scheduler].step = "due"
  /\ actor[Scheduler].agenda = {}
  /\ Becomes(Scheduler, Resting)
  /\ UNCHANGED <<job, run, dir, proc, asked, requests, faults>>

\* A locked database or a deleted job makes a statement of the dispatch raise;
\* the command's loop logs it and goes on at its next turn.
DispatchRaises ==
  /\ Ready(Scheduler) \/ actor[Scheduler].step \in {"mounts", "due"}
  /\ Becomes(Scheduler, Resting)
  /\ UNCHANGED <<job, run, dir, proc, asked, requests, faults>>

\* create_running_backup_run, which asks nothing about the job's other runs.
Create(a) ==
  LET j == actor[a].job IN
  /\ actor[a].step = "create"
  /\ job[j].state = "present"
  /\ FreeRuns # {}
  /\ run' = [run EXCEPT ![NewRun] =
               [status |-> "running", job |-> j, runner |-> Box(a), pid |-> FALSE,
                stop |-> FALSE, fresh |-> TRUE]]
  /\ Becomes(a, [actor[a] EXCEPT !.step = "spawn", !.run = NewRun])
  /\ UNCHANGED <<job, dir, proc, asked, requests, faults>>

\* The insert raises: the database is locked or the job is gone.
CreateRaises(a) ==
  /\ actor[a].step = "create"
  /\ Becomes(a, Returned(actor[a]))
  /\ UNCHANGED <<job, run, dir, proc, asked, requests, faults>>

\* Popen; the later save of command_line carries no state of this model.
Spawn(a) ==
  /\ actor[a].step = "spawn"
  /\ proc' = [proc EXCEPT ![actor[a].run].step = "booting"]
  /\ Becomes(a, Returned(actor[a]))
  /\ UNCHANGED <<job, run, dir, asked, requests, faults>>

\* Popen raises OSError: the run is finalized as failed.
SpawnRaises(a) ==
  /\ actor[a].step = "spawn"
  /\ Becomes(a, [actor[a] EXCEPT !.step = "write", !.fate = "failed"])
  /\ UNCHANGED <<job, run, dir, proc, asked, requests, faults>>

-----------------------------------------------------------------------------
(* Stopping a run: request_backup_run_stop on the row the view has loaded.   *)

AskStop(t, r) ==
  /\ Ready(t)
  /\ run[r].status = "running"
  /\ Becomes(t, [actor[t] EXCEPT !.step = "ask", !.run = r, !.pid = run[r].pid])
  /\ asked' = asked \cup {r}
  /\ UNCHANGED <<job, run, dir, proc, requests, faults>>

\* stop_requested_at is stored, lost to a locked database, or the row is gone.
SaveStop(t) ==
  LET r == actor[t].run IN
  /\ actor[t].step = "ask"
  /\ \/ /\ run[r].status # "deleted"
        /\ run' = [run EXCEPT ![r].stop = TRUE]
        /\ Goto(t, "flag")
     \/ /\ UNCHANGED run
        /\ Goto(t, "flag")
     \/ /\ run[r].status = "deleted"
        /\ Becomes(t, Resting)
        /\ UNCHANGED run
  /\ UNCHANGED <<job, dir, proc, asked, requests, faults>>

RaiseFlagAs(t, fate) ==
  LET matches == WorkerMatches(t, actor[t].run, actor[t].pid) IN
  /\ actor[t].step = "flag"
  /\ dir' = [dir EXCEPT ![actor[t].run].stop = TRUE]
  /\ \/ matches /\ Becomes(t, Resting)
     \/ ~matches /\ Becomes(t, [actor[t] EXCEPT !.step = "write", !.fate = fate])
  /\ UNCHANGED <<job, run, proc, asked, requests, faults>>

\* Mutant of RaiseFlag: a status the model's choices do not know.
RaiseFlagStopped(t) == RaiseFlagAs(t, "stopped")

\* The stop file is touched; a worker this container can recognise will see
\* it, else the run is finalized as cancelled at once.
RaiseFlag(t) == RaiseFlagAs(t, "cancelled")

-----------------------------------------------------------------------------
(* The other requests: edits of jobs, each a read of the row followed by a   *)
(* save of every field.                                                      *)

Editing(t, j, form) ==
  Becomes(t, [actor[t] EXCEPT !.step = "save", !.job = j, !.form = form])

ToggleJob(t, j) ==
  /\ Ready(t)
  /\ job[j].state = "present"
  /\ Editing(t, j, [Fields(job[j]) EXCEPT !.enabled = ~@])
  /\ UNCHANGED <<job, run, dir, proc, asked, requests, faults>>

\* save_job: the form carries enabled and schedule_mode, not next_run_at.
EditJob(t, j) ==
  /\ Ready(t)
  /\ job[j].state = "present"
  /\ \E e, m \in BOOLEAN :
       Editing(t, j, [enabled |-> e, manual |-> m, next |-> job[j].next])
  /\ UNCHANGED <<job, run, dir, proc, asked, requests, faults>>

\* A full save: it inserts the row again when it was deleted meanwhile.
SaveForm(t) ==
  /\ actor[t].step = "save"
  /\ job' = [job EXCEPT ![actor[t].job] = Stored(Saved(actor[t].form))]
  /\ Becomes(t, Resting)
  /\ UNCHANGED <<run, dir, proc, asked, requests, faults>>

CreateJob(t, j) ==
  /\ Ready(t)
  /\ job[j].state = "absent"
  /\ \E e, m \in BOOLEAN :
       job' = [job EXCEPT ![j] =
                 Stored(Saved([enabled |-> e, manual |-> m, next |-> "none"]))]
  /\ Becomes(t, Resting)
  /\ UNCHANGED <<run, dir, proc, asked, requests, faults>>

\* The runs go with the job (on_delete=CASCADE); their workers do not.
DeleteJob(t, j) ==
  /\ Ready(t)
  /\ job[j].state = "present"
  /\ job' = [job EXCEPT ![j].state = "deleted"]
  /\ run' = [r \in Runs |-> IF run[r].job = j
                              THEN [run[r] EXCEPT !.status = "deleted"]
                              ELSE run[r]]
  /\ Becomes(t, Resting)
  /\ UNCHANGED <<dir, proc, asked, requests, faults>>

\* A GET, a refused request, or one whose database statement raised.
EndRequest(t) ==
  /\ Ready(t) \/ actor[t].step = "save"
  /\ Becomes(t, Resting)
  /\ UNCHANGED <<job, run, dir, proc, asked, requests, faults>>

-----------------------------------------------------------------------------
(* The worker: run_backup_job --run-id, execute_backup_job.                  *)

BootWith(r, started) ==
  /\ proc[r].step = "booting"
  /\ run[r].status # "deleted"
  /\ LET j == job[run[r].job] IN
       proc' = [proc EXCEPT ![r] = [@ EXCEPT !.step = "busy",
                                             !.scheduled = j.enabled /\ ~j.manual]]
  /\ \/ run' = [run EXCEPT ![r] = started]
     \/ UNCHANGED run
  /\ dir' = [dir EXCEPT ![r].beat = TRUE]
  /\ UNCHANGED <<job, actor, asked, requests, faults>>

\* Mutant of Boot: marking the run started also stores the status.
BootRunning(r) ==
  BootWith(r, [run[r] EXCEPT !.pid = TRUE, !.fresh = TRUE, !.status = "running"])

\* The worker loads job and row, marks the row started (a write that may be
\* lost) and writes its first heartbeat.
Boot(r) ==
  BootWith(r, [run[r] EXCEPT !.pid = TRUE, !.fresh = run[r].status = "running"])

BootRaises(r) ==
  /\ proc[r].step = "booting"
  /\ run[r].status = "deleted"
  /\ proc' = [proc EXCEPT ![r] = Exited]
  /\ UNCHANGED <<job, run, dir, actor, asked, requests, faults>>

Heartbeat(r) ==
  /\ proc[r].step = "busy"
  /\ dir' = [dir EXCEPT ![r].beat = TRUE]
  /\ UNCHANGED <<job, run, proc, actor, asked, requests, faults>>

\* The transfer sees the stop file at its next poll.
NoticeStop(r) ==
  /\ proc[r].step = "busy"
  /\ dir[r].stop
  /\ proc' = [proc EXCEPT ![r] = [@ EXCEPT !.step = "closing", !.verdict = "cancelled"]]
  /\ UNCHANGED <<job, run, dir, actor, asked, requests, faults>>

\* run_backup_job returns or raises, of its own accord or at a timeout.
FinishTransfer(r) ==
  /\ proc[r].step = "busy"
  /\ \E v \in {"success", "failed"} :
       proc' = [proc EXCEPT ![r] = [@ EXCEPT !.step = "closing", !.verdict = v]]
  /\ UNCHANGED <<job, run, dir, actor, asked, requests, faults>>

\* finalize_backup_run in the worker: stored over any status, or lost, or
\* raised because the row is deleted.
StoreVerdict(r) ==
  /\ proc[r].step = "closing"
  /\ \/ /\ run[r].status # "deleted"
        /\ run' = [run EXCEPT ![r] = Settled(@, proc[r].verdict)]
        /\ dir' = [dir EXCEPT ![r] = NoFiles]
        /\ proc' = [proc EXCEPT ![r].step = "advancing"]
     \/ /\ dir' = [dir EXCEPT ![r] = NoFiles]
        /\ proc' = [proc EXCEPT ![r].step = "advancing"]
        /\ UNCHANGED run
     \/ /\ run[r].status = "deleted"
        /\ proc' = [proc EXCEPT ![r] = Exited]
        /\ UNCHANGED <<run, dir>>
  /\ UNCHANGED <<job, actor, asked, requests, faults>>

\* _advance_job_schedule on the job as it was at boot; the save raises when
\* the job is deleted or the database locked.
Advance(r) ==
  LET j == run[r].job IN
  /\ proc[r].step = "advancing"
  /\ \/ /\ job[j].state = "present"
        /\ job' = [job EXCEPT ![j].next =
                     IF proc[r].scheduled THEN "later" ELSE "none"]
     \/ UNCHANGED job
  /\ proc' = [proc EXCEPT ![r] = Exited]
  /\ UNCHANGED <<run, dir, actor, asked, requests, faults>>

-----------------------------------------------------------------------------
(* The environment: failures and time.                                       *)

Crash(r) ==
  /\ proc[r].step \in Live
  /\ faults < MaxFaults
  /\ faults' = faults + 1
  /\ proc' = [proc EXCEPT ![r] = Exited]
  /\ UNCHANGED <<job, run, dir, actor, asked, requests>>

\* A container restart ends its threads and the workers started in it.
RestartBox(box) ==
  /\ faults < MaxFaults
  /\ faults' = faults + 1
  /\ actor' = [a \in Actors |-> IF Box(a) = box THEN Resting ELSE actor[a]]
  /\ proc' = [r \in Runs |->
                IF run[r].runner = box /\ proc[r].step \in Live
                  THEN Exited ELSE proc[r]]
  /\ UNCHANGED <<job, run, dir, asked, requests>>

\* next_run_at passes.
ComesDue(j) ==
  /\ job[j].state = "present"
  /\ job[j].next = "later"
  /\ job' = [job EXCEPT ![j].next = "due"]
  /\ UNCHANGED <<run, dir, proc, actor, asked, requests, faults>>

\* The row's own heartbeat passes the staleness limit.  Starting a process
\* takes less than that limit (180 s).
AgeRow(r) ==
  /\ run[r].status = "running" /\ run[r].fresh
  /\ proc[r].step # "booting"
  /\ \A a \in Actors : ~(actor[a].step = "spawn" /\ actor[a].run = r)
  /\ run' = [run EXCEPT ![r].fresh = FALSE]
  /\ UNCHANGED <<job, dir, proc, actor, asked, requests, faults>>

\* The file's heartbeat passes the limit: not while a worker lives to beat
\* every BACKUP_HEARTBEAT_INTERVAL_SECONDS (15 s).
AgeBeat(r) ==
  /\ dir[r].beat
  /\ proc[r].step \notin {"busy", "closing"}
  /\ dir' = [dir EXCEPT ![r].beat = FALSE]
  /\ UNCHANGED <<job, run, proc, actor, asked, requests, faults>>

-----------------------------------------------------------------------------

Reconcile(a) ==
  \/ LoadRunning(a) \/ LoadNothing(a)
  \/ \E s \in actor[a].todo : Judge(a, s)

Finalize(a) == WriteStored(a) \/ WriteLost(a) \/ WriteRaises(a)

Launch(a) == Create(a) \/ CreateRaises(a) \/ Spawn(a) \/ SpawnRaises(a)

Request(t) ==
  \/ \E j \in Jobs : \/ RunNow(t, j) \/ ToggleJob(t, j) \/ EditJob(t, j)
                     \/ CreateJob(t, j) \/ DeleteJob(t, j)
  \/ \E r \in Runs : Rerun(t, r) \/ AskStop(t, r)
  \/ SaveStop(t) \/ RaiseFlag(t) \/ SaveForm(t) \/ EndRequest(t)

Dispatch ==
  \/ \E j \in Jobs : MountTrigger(j) \/ DueJob(j) \/ SkipUnmounted(j)
  \/ FindMounts \/ QueryDue \/ EndDispatch \/ DispatchRaises

Work(r) ==
  \/ Boot(r) \/ BootRaises(r) \/ Heartbeat(r) \/ NoticeStop(r) \/ FinishTransfer(r)
  \/ StoreVerdict(r) \/ Advance(r)

Time == \/ \E j \in Jobs : ComesDue(j)
        \/ \E r \in Runs : AgeRow(r) \/ AgeBeat(r)

Next ==
  \/ \E a \in Actors : Reconcile(a) \/ Finalize(a) \/ Launch(a)
  \/ \E t \in Web : Request(t)
  \/ Dispatch
  \/ \E r \in Runs : Work(r) \/ Crash(r)
  \/ \E box \in Boxes : RestartBox(box)
  \/ Time

Spec == Init /\ [][Next]_vars

\* _run_streaming_command kills an rsync over SSH at its timeout.  A local rsync has
\* none, and an HTTP sync is compared with the timeout only after it has returned.
TimesOut(r) == run[r].job \in TimedJobs /\ FinishTransfer(r)

(***************************************************************************)
(* Fairness.  The scheduler's loop goes on, a request that was begun is    *)
(* finished, a worker makes progress, time passes.  A transfer looks at    *)
(* the stop file again and again, and ends at its timeout if it has one;   *)
(* nothing makes any other transfer end.  A locked database is not locked  *)
(* for good: what is tried again and again succeeds once.                  *)
(***************************************************************************)
Fairness ==
  /\ SF_vars(LoadRunning(Scheduler))
  /\ SF_vars(WriteStored(Scheduler))
  /\ WF_vars(Dispatch)
  /\ \A a \in Actors : WF_vars(Reconcile(a)) /\ WF_vars(Finalize(a)) /\ WF_vars(Launch(a))
  /\ \A t \in Web : WF_vars(Request(t))
  /\ \A r \in Runs : /\ WF_vars(Boot(r) \/ BootRaises(r))
                     /\ WF_vars(NoticeStop(r)) /\ WF_vars(TimesOut(r))
                     /\ WF_vars(StoreVerdict(r) \/ Advance(r))
                     /\ WF_vars(AgeRow(r)) /\ WF_vars(AgeBeat(r))

FairSpec == Spec /\ Fairness

-----------------------------------------------------------------------------
(* Properties *)

\* A worker that has not finished its transfer, and that nobody asked to
\* stop, has a row that says "running": neither a slow start, a lost write, a
\* restart of a container nor a reconcile by the other container, which cannot
\* recognise the worker, takes the run away from it.  (Rows deleted with their
\* job are gone.)
BusyRunIsRunning ==
  \A r \in Runs :
    proc[r].step \in Busy /\ r \notin asked => run[r].status \in {"running", "deleted"}

\* The scheduler never has two workers of one job transferring at once, unless
\* one of their runs was asked to stop: its exists() check, its single thread
\* and the staleness rule together exclude it, whatever requests, crashes and
\* lost writes come between.
SchedulerNeverDoubles ==
  \A q, r \in Runs :
    /\ run[q].runner = "scheduler" /\ run[r].runner = "scheduler"
    /\ run[q].job = run[r].job
    /\ proc[q].step \in Busy /\ proc[r].step \in Busy
    /\ run[q].status # "deleted" /\ run[r].status # "deleted"
    => q = r \/ q \in asked \/ r \in asked

\* A run ends as cancelled only when somebody asked for a stop, whichever of
\* worker, stop request and reconcile stores the verdict, and even when the
\* request's own write was lost.
CancelledWasAsked ==
  \A r \in Runs : run[r].status = "cancelled" => r \in asked

\* A live worker is in a transfer without a timeout and no stop file is there.
Unbounded(r) == proc[r].step = "busy" /\ run[r].job \notin TimedJobs /\ ~dir[r].stop

\* A run that has started ends, or its live worker is for ever in a transfer that has
\* no timeout and that is not stopped: when the worker crashed, its container was
\* restarted before the spawn, the transfer was cut off or stopped, or its verdict was
\* lost to a locked database, the worker or the scheduler's reconcile settles the run.
RunSettles ==
  \A r \in Runs :
    run[r].status = "running" ~> (run[r].status # "running" \/ []Unbounded(r))

\* The rows keep the history page's ledger: opened once, settled, and never
\* running again although workers, requests and reconciles store verdicts over
\* each other.
RunStates == [r \in Runs |-> IF run[r].status \in Verdicts THEN "settled"
                             ELSE run[r].status]
Ledger == INSTANCE RunLedger WITH ledger <- RunStates
LedgerKept == Ledger!Spec

-----------------------------------------------------------------------------
(* What the code says of itself and does not keep: counterexamples in README. *)

\* views.py refuses to start a job that "is already running".
OneRunningRunPerJob == \A j \in Jobs : Cardinality(Running(j)) <= 1

\* "... was cancelled because no active worker process was attached to this
\* run" and "no worker process is alive": what the code decides a cancelled
\* run by.
CancelsOnlyOrphans ==
  [][\A a \in Actors :
       /\ actor[a].step # "write"
       /\ actor'[a].step = "write" /\ actor'[a].fate = "cancelled"
       => proc[actor'[a].run].step # "busy"]_vars

\* "Backup marked as failed because the worker heartbeat became stale": a run
\* its worker has stored as a success does not become a failed one.
SuccessStands ==
  [][\A r \in Runs :
       run[r].status = "success" => run'[r].status \in {"success", "deleted"}]_vars

\* "Local rsync transfer runs without a hard timeout; it is limited by stop requests":
\* a run with a stop on record ends, whatever its transfer does.
StopSettles ==
  \A r \in Runs :
    (run[r].stop /\ run[r].status = "running") ~> run[r].status # "running"

\* A disabled or manual job has no next run, an enabled scheduled one has:
\* what BackupJob.save sees to on every save.
ScheduleFollowsSwitch ==
  \A j \in Jobs :
    job[j].state = "present" =>
      (job[j].next = "none" <=> ~job[j].enabled \/ job[j].manual)

=============================================================================
