----------------------------- MODULE ScriptRuns -----------------------------
(***************************************************************************)
(* The life of script runs (jobs_app): saved Bash scripts that request     *)
(* threads of the web container and the scheduler's loop start as detached *)
(* workers, over the same database and runtime directory.                  *)
(*                                                                         *)
(* What sets them apart from backup runs: a worker is known by its process *)
(* id alone, and an id stays taken while its process is a zombie or after  *)
(* it was given to another process; a stop cancels the run at once unless  *)
(* a process id is on record; a one-off job is switched off once its run   *)
(* is over; a verdict is written once, without a fallback.                 *)
(*                                                                         *)
(* Statements are steps of their own and time is abstract, as in           *)
(* BackupRuns.                                                             *)
(***************************************************************************)
EXTENDS Naturals, FiniteSets

CONSTANTS
  Jobs,         \* the rows ScriptJob can have
  Runs,         \* the run ids of one behaviour (bounds the launches)
  Web,          \* request threads of the web container
  Scheduler,    \* the scheduler container's only thread
  NoJob, NoRun, \* "None" for a job and for a run
  MaxRequests,  \* bounds the page requests of one behaviour
  MaxFaults     \* bounds its worker crashes and container restarts

ASSUME SchedulerAssumption == Scheduler \notin Web
ASSUME NoneAssumption == NoJob \notin Jobs /\ NoRun \notin Runs
ASSUME BoundsAssumption == MaxRequests \in Nat /\ MaxFaults \in Nat

VARIABLES
  job,      \* table ScriptJob
  run,      \* table ScriptJobRun
  dir,      \* script_job_runtime/: run_<id>.json and run_<id>.stop
  proc,     \* the worker process of each run, and what became of its id
  actor,    \* request threads and scheduler: where they are, what they hold
  asked,    \* history: the runs a stop was asked for
  requests, \* page requests so far
  faults    \* crashes and restarts so far

vars == <<job, run, dir, proc, actor, asked, requests, faults>>

Actors == Web \cup {Scheduler}

Boxes == {"web", "scheduler"}

\* The container a process is started in.
Box(a) == IF a = Scheduler THEN "scheduler" ELSE "web"

-----------------------------------------------------------------------------
(* Types *)

\* "failed" stands for "failed" and "timed_out", which no code tells apart.
Verdicts == {"success", "failed", "cancelled"}

Statuses == {"free", "running", "deleted"} \cup Verdicts

Modes == {"manual", "interval", "one_off"}

\* A time: NULL, in the future, or not after the current time.
Due == {"none", "later", "due"}

\* when: scheduled_for, which only one-off jobs have; next: next_run_at.
JobFields == [enabled : BOOLEAN, mode : Modes, when : Due, next : Due]

JobRow == [state : {"absent", "present", "deleted"},
           enabled : BOOLEAN, mode : Modes, when : Due, next : Due]

\* launcher: the container that started it; pid, stop, fresh: of a running row,
\* whether it has a process id and a stop request, and whether its heartbeat_at
\* is younger than SCRIPT_STALE_AFTER_SECONDS.  (Nobody reads them of others.)
RunRow == [status : Statuses, job : Jobs \cup {NoJob}, launcher : Boxes,
           pid : BOOLEAN, stop : BOOLEAN, fresh : BOOLEAN]

RunFiles == [beat : BOOLEAN, stop : BOOLEAN]

NoFiles == [beat |-> FALSE, stop |-> FALSE]

\* "taken": ended, but its id is not free: the launcher has not waited for it
\* (a zombie), or another process has got the id since; "gone": the id is free.
WorkerSteps == {"none", "booting", "busy", "closing", "advancing", "taken", "gone"}

\* What the end of a run does to its job, by the worker's copy of the job: a
\* one-off job is disarmed, a recurring one gets its next slot, a manual or
\* disabled one has none.
Afters == {"disarm", "slot", "none"}

WorkerProc == [step : WorkerSteps, verdict : Verdicts, after : Afters]

\* What mark_stale_running_script_jobs has loaded of a row.
Loaded == [run : Runs, pid : BOOLEAN, stop : BOOLEAN, fresh : BOOLEAN]

ActorSteps == {"idle", "reconcile", "due", "create", "spawn", "ask", "flag",
               "save", "write"}

ActorState ==
  [step : ActorSteps, back : {"idle", "reconcile", "due"},
   run : Runs \cup {NoRun}, job : Jobs \cup {NoJob}, fate : Verdicts,
   todo : SUBSET Loaded, agenda : SUBSET Jobs, form : JobFields, pid : BOOLEAN]

TypeOK ==
  /\ job \in [Jobs -> JobRow]
  /\ run \in [Runs -> RunRow]
  /\ dir \in [Runs -> RunFiles]
  /\ proc \in [Runs -> WorkerProc]
  /\ actor \in [Actors -> ActorState]
  /\ asked \in SUBSET Runs
  /\ requests \in 0..MaxRequests
  /\ faults \in 0..MaxFaults

-----------------------------------------------------------------------------
(* State functions *)

NoForm == [enabled |-> FALSE, mode |-> "manual", when |-> "none", next |-> "none"]

Resting == [step |-> "idle", back |-> "idle", run |-> NoRun, job |-> NoJob,
            fate |-> "success", todo |-> {}, agenda |-> {}, form |-> NoForm,
            pid |-> FALSE]

Live == {"booting", "busy", "closing", "advancing"}

Busy == {"booting", "busy"}

Ended(step) == [step |-> step, verdict |-> "success", after |-> "none"]

\* _pid_is_alive of the recorded id: signal 0 reaches a zombie, and whoever
\* has the id now.
PidTaken(r) == proc[r].step \in Live \cup {"taken"}

Running(j) == {r \in Runs : run[r].status = "running" /\ run[r].job = j}

\* ScriptJob.save before it stores the row.
Saved(form) ==
  [form EXCEPT !.next = IF ~form.enabled \/ form.mode = "manual" THEN "none"
                        ELSE IF form.mode = "one_off" THEN form.when
                        ELSE IF form.next = "none" THEN "later" ELSE form.next]

Stored(form) == [state |-> "present", enabled |-> form.enabled, mode |-> form.mode,
                 when |-> form.when, next |-> form.next]

Fields(row) == [enabled |-> row.enabled, mode |-> row.mode, when |-> row.when,
                next |-> row.next]

\* A row that leaves "running".
Left(row, status) ==
  [row EXCEPT !.status = status, !.pid = FALSE, !.stop = FALSE, !.fresh = FALSE]

\* Ids are interchangeable, so they are handed out in one fixed order.
FreeRuns == {r \in Runs : run[r].status = "free"}
NewRun == CHOOSE r \in Runs : run[r].status = "free"

Becomes(a, state) == actor' = [actor EXCEPT ![a] = state]

Goto(a, step) == Becomes(a, [actor[a] EXCEPT !.step = step])

\* A turn of the scheduler, or one more request to the scripts page.
Begins(a) ==
  /\ actor[a].step = "idle"
  /\ \/ a = Scheduler /\ UNCHANGED requests
     \/ a \in Web /\ requests < MaxRequests /\ requests' = requests + 1

-----------------------------------------------------------------------------
(* Initial state: an empty history, jobs as their last save left them. *)

\* What the form lets through: only one-off jobs have a date.
Valid(form) == form.when # "none" <=> form.mode = "one_off"

InitialJobs ==
  {Stored(Saved(f)) : f \in {g \in JobFields : Valid(g)}}
    \cup {[state |-> "absent", enabled |-> FALSE, mode |-> "manual",
           when |-> "none", next |-> "none"]}

Init ==
  /\ job \in [Jobs -> InitialJobs]
  /\ run = [r \in Runs |-> [status |-> "free", job |-> NoJob, launcher |-> "web",
                            pid |-> FALSE, stop |-> FALSE, fresh |-> FALSE]]
  /\ dir = [r \in Runs |-> NoFiles]
  /\ proc = [r \in Runs |-> Ended("none")]
  /\ actor = [a \in Actors |-> Resting]
  /\ asked = {}
  /\ requests = 0
  /\ faults = 0

-----------------------------------------------------------------------------
(* mark_stale_running_script_jobs *)

RunningRows ==
  {[run |-> r, pid |-> run[r].pid, stop |-> run[r].stop, fresh |-> run[r].fresh]
   : r \in {q \in Runs : run[q].status = "running"}}

\* The running rows, all at once, or none when the database stays locked.
LoadRunning(a) ==
  /\ Begins(a)
  /\ \E rows \in {RunningRows, {}} :
       Becomes(a, [actor[a] EXCEPT !.step = "reconcile", !.todo = rows])
  /\ UNCHANGED <<job, run, dir, proc, asked, faults>>

\* One loaded row against the runtime file and the process table as they are
\* now.
Judge(a, s) ==
  LET taken == s.pid /\ PidTaken(s.run)
      rest == actor[a].todo \ {s}
      fresh == s.fresh \/ dir[s.run].beat
      Finalizing(fate) ==
        Becomes(a, [actor[a] EXCEPT !.todo = rest, !.step = "write",
                      !.back = "reconcile", !.run = s.run, !.fate = fate])
  IN
  /\ actor[a].step = "reconcile"
  /\ s \in actor[a].todo
  /\ \/ s.stop /\ ~taken /\ Finalizing("cancelled")
     \/ /\ ~(s.stop /\ ~taken) /\ (fresh \/ taken)
        /\ Becomes(a, [actor[a] EXCEPT !.todo = rest])
     \/ ~s.stop /\ ~fresh /\ ~taken /\ Finalizing("failed")
  /\ UNCHANGED <<job, run, dir, proc, asked, requests, faults>>

\* A request goes on once its reconcile is through.
Ready(t) == actor[t].step = "reconcile" /\ actor[t].todo = {}

-----------------------------------------------------------------------------
(* finalize_script_run, called by a request thread or the scheduler.         *)

\* A request ends with the call; the scheduler takes the next row or job.
Returned(s) ==
  IF s.back = "idle" THEN Resting
  ELSE [s EXCEPT !.step = s.back, !.back = "idle", !.run = NoRun,
                 !.job = NoJob, !.fate = "success"]

\* An error out of the reconcile ends a request; the scheduler logs it and
\* skips the other loaded rows.
Aborted(a) == IF a # Scheduler THEN Resting
              ELSE IF actor[a].back = "reconcile"
                     THEN [Returned(actor[a]) EXCEPT !.todo = {}]
                     ELSE Returned(actor[a])

\* The row takes the verdict, whatever its status is by now, or the write is
\* lost to a locked database; the runtime files go in both cases.
WriteVerdict(a) ==
  LET r == actor[a].run IN
  /\ actor[a].step = "write"
  /\ \/ /\ run[r].status # "deleted"
        /\ run' = [run EXCEPT ![r] = Left(@, actor[a].fate)]
     \/ UNCHANGED run
  /\ dir' = [dir EXCEPT ![r] = NoFiles]
  /\ Becomes(a, Returned(actor[a]))
  /\ UNCHANGED <<job, proc, asked, requests, faults>>

\* save(update_fields) of a deleted row raises.
WriteRaises(a) ==
  /\ actor[a].step = "write"
  /\ run[actor[a].run].status = "deleted"
  /\ Becomes(a, Aborted(a))
  /\ UNCHANGED <<job, run, dir, proc, asked, requests, faults>>

-----------------------------------------------------------------------------
(* Launching a run: run_now, rerun_run, the scheduler's loop, and            *)
(* start_background_script_job.                                              *)

\* run_now and rerun_run: disabled or running jobs are refused.
RunNow(t, j) ==
  /\ Ready(t)
  /\ job[j].state = "present" /\ job[j].enabled
  /\ Running(j) = {}
  /\ Becomes(t, [actor[t] EXCEPT !.step = "create", !.job = j, !.back = "idle"])
  /\ UNCHANGED <<job, run, dir, proc, asked, requests, faults>>

QueryDue ==
  /\ Ready(Scheduler)
  /\ Becomes(Scheduler, [actor[Scheduler] EXCEPT
       !.step = "due",
       !.agenda = {j \in Jobs : /\ job[j].state = "present" /\ job[j].next = "due"
                                /\ job[j].enabled /\ job[j].mode # "manual"}])
  /\ UNCHANGED <<job, run, dir, proc, asked, requests, faults>>

\* Mutant of DueJob: launched without a look at the running runs.
DueJobAnyway(j) ==
  /\ actor[Scheduler].step = "due"
  /\ j \in actor[Scheduler].agenda
  /\ Becomes(Scheduler, [actor[Scheduler] EXCEPT !.agenda = @ \ {j},
                            !.step = "create", !.job = j, !.back = "due"])
  /\ UNCHANGED <<job, run, dir, proc, asked, requests, faults>>

\* One due job: passed over while a run is running, else launched.
DueJob(j) ==
  LET here == [actor[Scheduler] EXCEPT !.agenda = @ \ {j}] IN
  /\ actor[Scheduler].step = "due"
  /\ j \in actor[Scheduler].agenda
  /\ \/ /\ Running(j) = {}
        /\ Becomes(Scheduler, [here EXCEPT !.step = "create", !.job = j, !.back = "due"])
     \/ /\ Running(j) # {}
        /\ Becomes(Scheduler, here)
  /\ UNCHANGED <<job, run, dir, proc, asked, requests, faults>>

\* The last due job is done with, or a locked database made a statement raise,
\* which the command's loop logs.
EndDispatch ==
  /\ Ready(Scheduler) \/ actor[Scheduler].step = "due"
  /\ Becomes(Scheduler, Resting)
  /\ UNCHANGED <<job, run, dir, proc, asked, requests, faults>>

Create(a) ==
  LET j == actor[a].job IN
  /\ actor[a].step = "create"
  /\ job[j].state = "present"
  /\ FreeRuns # {}
  /\ run' = [run EXCEPT ![NewRun] =
               [status |-> "running", job |-> j, launcher |-> Box(a), pid |-> FALSE,
                stop |-> FALSE, fresh |-> TRUE]]
  /\ Becomes(a, [actor[a] EXCEPT !.step = "spawn", !.run = NewRun])
  /\ UNCHANGED <<job, dir, proc, asked, requests, faults>>

\* The insert raises: the database is locked or the job is gone.
CreateRaises(a) ==
  /\ actor[a].step = "create"
  /\ Becomes(a, Returned(actor[a]))
  /\ UNCHANGED <<job, run, dir, proc, asked, requests, faults>>

\* The process table once the launcher has waited for its ended workers.
Reaped(box) ==
  [r \in Runs |-> IF run[r].launcher = box /\ proc[r].step = "taken"
                    THEN Ended("gone") ELSE proc[r]]

\* Popen, which first waits for the workers of this process that have ended.
Spawn(a) ==
  /\ actor[a].step = "spawn"
  /\ proc' = [Reaped(Box(a)) EXCEPT ![actor[a].run].step = "booting"]
  /\ Becomes(a, Returned(actor[a]))
  /\ UNCHANGED <<job, run, dir, asked, requests, faults>>

\* Popen raises OSError: the run is finalized as failed.
SpawnRaises(a) ==
  /\ actor[a].step = "spawn"
  /\ Becomes(a, [actor[a] EXCEPT !.step = "write", !.fate = "failed"])
  /\ UNCHANGED <<job, run, dir, proc, asked, requests, faults>>

-----------------------------------------------------------------------------
(* Stopping a run: request_script_run_stop on the row the view has loaded.   *)

AskStop(t, r) ==
  /\ Ready(t)
  /\ run[r].status = "running"
  /\ Becomes(t, [actor[t] EXCEPT !.step = "ask", !.run = r, !.pid = run[r].pid])
  /\ asked' = asked \cup {r}
  /\ UNCHANGED <<job, run, dir, proc, requests, faults>>

\* stop_requested_at is stored, lost to a locked database, or the row is gone.
SaveStop(t) ==
  LET r == actor[t].run IN
  /\ actor[t].step = "ask"
  /\ \/ /\ run[r].status # "deleted"
        /\ run' = [run EXCEPT ![r].stop = run[r].status = "running"]
        /\ Goto(t, "flag")
     \/ /\ UNCHANGED run
        /\ Goto(t, "flag")
     \/ /\ run[r].status = "deleted"
        /\ Becomes(t, Resting)
        /\ UNCHANGED run
  /\ UNCHANGED <<job, dir, proc, asked, requests, faults>>

RaiseFlagAs(t, fate) ==
  /\ actor[t].step = "flag"
  /\ dir' = [dir EXCEPT ![actor[t].run].stop = TRUE]
  /\ \/ actor[t].pid /\ Becomes(t, Resting)
     \/ ~actor[t].pid /\ Becomes(t, [actor[t] EXCEPT !.step = "write", !.fate = fate])
  /\ UNCHANGED <<job, run, proc, asked, requests, faults>>

\* Mutant of RaiseFlag: a status the model's choices do not know.
RaiseFlagStopped(t) == RaiseFlagAs(t, "stopped")

\* The stop file is touched; without a process id in the loaded row the run is
\* finalized as cancelled at once.
RaiseFlag(t) == RaiseFlagAs(t, "cancelled")

-----------------------------------------------------------------------------
(* Edits of jobs: a read of the row, then a save of every field.             *)

Editing(t, j, form) ==
  Becomes(t, [actor[t] EXCEPT !.step = "save", !.job = j, !.form = form])

ToggleJob(t, j) ==
  /\ Ready(t)
  /\ job[j].state = "present"
  /\ Editing(t, j, [Fields(job[j]) EXCEPT !.enabled = ~@])
  /\ UNCHANGED <<job, run, dir, proc, asked, requests, faults>>

\* save_job: the form carries all but next_run_at.
EditJob(t, j) ==
  /\ Ready(t)
  /\ job[j].state = "present"
  /\ \E form \in {f \in JobFields : Valid(f) /\ f.next = job[j].next} : Editing(t, j, form)
  /\ UNCHANGED <<job, run, dir, proc, asked, requests, faults>>

\* A full save: it inserts the row again when it was deleted meanwhile.
SaveForm(t) ==
  /\ actor[t].step = "save"
  /\ job' = [job EXCEPT ![actor[t].job] = Stored(Saved(actor[t].form))]
  /\ Becomes(t, Resting)
  /\ UNCHANGED <<run, dir, proc, asked, requests, faults>>

CreateJob(t, j) ==
  /\ Ready(t)
  /\ job[j].state = "absent"
  /\ \E form \in {f \in JobFields : Valid(f) /\ f.next = "none"} :
       job' = [job EXCEPT ![j] = Stored(Saved(form))]
  /\ Becomes(t, Resting)
  /\ UNCHANGED <<run, dir, proc, asked, requests, faults>>

\* The runs go with the job (on_delete=CASCADE); their workers do not.
DeleteJob(t, j) ==
  /\ Ready(t)
  /\ job[j].state = "present"
  /\ job' = [job EXCEPT ![j].state = "deleted"]
  /\ run' = [r \in Runs |-> IF run[r].job = j THEN Left(run[r], "deleted") ELSE run[r]]
  /\ Becomes(t, Resting)
  /\ UNCHANGED <<dir, proc, asked, requests, faults>>

\* A GET, a refused request, or one whose database statement raised.
EndRequest(t) ==
  /\ Ready(t) \/ actor[t].step = "save"
  /\ Becomes(t, Resting)
  /\ UNCHANGED <<job, run, dir, proc, asked, requests, faults>>

-----------------------------------------------------------------------------
(* The worker: run_script_job --run-id, execute_script_job.                  *)

\* _advance_job_schedule, by the job as it is loaded at boot.
After(row) == IF row.mode = "one_off" THEN "disarm"
              ELSE IF row.mode = "interval" /\ row.enabled THEN "slot" ELSE "none"

BootWith(r, started) ==
  /\ proc[r].step = "booting"
  /\ run[r].status # "deleted"
  /\ proc' = [proc EXCEPT ![r] = [@ EXCEPT !.step = "busy",
                                           !.after = After(job[run[r].job])]]
  /\ \/ run' = [run EXCEPT ![r] = started]
     \/ UNCHANGED run
  /\ dir' = [dir EXCEPT ![r].beat = TRUE]
  /\ UNCHANGED <<job, actor, asked, requests, faults>>

\* Mutant of Boot: marking the run started also stores the status.
BootRunning(r) ==
  BootWith(r, [run[r] EXCEPT !.pid = TRUE, !.fresh = TRUE, !.status = "running"])

\* The worker loads job and row, marks the row started (a write that may be
\* lost) and writes its first heartbeat.
Boot(r) ==
  LET running == run[r].status = "running" IN
  BootWith(r, [run[r] EXCEPT !.pid = running, !.fresh = running])

BootRaises(r) ==
  /\ proc[r].step = "booting"
  /\ run[r].status = "deleted"
  /\ proc' = [proc EXCEPT ![r] = Ended("taken")]
  /\ UNCHANGED <<job, run, dir, actor, asked, requests, faults>>

Heartbeat(r) ==
  /\ proc[r].step = "busy"
  /\ dir' = [dir EXCEPT ![r].beat = TRUE]
  /\ UNCHANGED <<job, run, proc, actor, asked, requests, faults>>

\* The script is terminated once the poll sees the stop file.
NoticeStop(r) ==
  /\ proc[r].step = "busy"
  /\ dir[r].stop
  /\ proc' = [proc EXCEPT ![r] = [@ EXCEPT !.step = "closing", !.verdict = "cancelled"]]
  /\ UNCHANGED <<job, run, dir, actor, asked, requests, faults>>

\* The script ends or is ended by one of its two timeouts.
FinishScript(r) ==
  /\ proc[r].step = "busy"
  /\ \E v \in {"success", "failed"} :
       proc' = [proc EXCEPT ![r] = [@ EXCEPT !.step = "closing", !.verdict = v]]
  /\ UNCHANGED <<job, run, dir, actor, asked, requests, faults>>

\* finalize_script_run in the worker: stored over any status, or lost, or
\* raised because the row is deleted.
StoreVerdict(r) ==
  /\ proc[r].step = "closing"
  /\ \/ /\ run[r].status # "deleted"
        /\ run' = [run EXCEPT ![r] = Left(@, proc[r].verdict)]
        /\ dir' = [dir EXCEPT ![r] = NoFiles]
        /\ proc' = [proc EXCEPT ![r].step = "advancing", ![r].verdict = "success"]
     \/ /\ dir' = [dir EXCEPT ![r] = NoFiles]
        /\ proc' = [proc EXCEPT ![r].step = "advancing", ![r].verdict = "success"]
        /\ UNCHANGED run
     \/ /\ run[r].status = "deleted"
        /\ proc' = [proc EXCEPT ![r] = Ended("taken")]
        /\ UNCHANGED <<run, dir>>
  /\ UNCHANGED <<job, actor, asked, requests, faults>>

\* _advance_job_schedule on the job as it was at boot: a one-off job is
\* switched off, a recurring one takes its next slot.  The save raises when the
\* job is deleted or the database locked.
Advance(r) ==
  LET j == run[r].job IN
  /\ proc[r].step = "advancing"
  /\ \/ /\ job[j].state = "present"
        /\ job' = [job EXCEPT
             ![j].enabled = @ /\ proc[r].after # "disarm",
             ![j].next = IF proc[r].after = "slot" THEN "later" ELSE "none"]
     \/ UNCHANGED job
  /\ proc' = [proc EXCEPT ![r] = Ended("taken")]
  /\ UNCHANGED <<run, dir, actor, asked, requests, faults>>

-----------------------------------------------------------------------------
(* The environment: failures, process ids and time.                          *)

Crash(r) ==
  /\ proc[r].step \in Live
  /\ faults < MaxFaults
  /\ faults' = faults + 1
  /\ proc' = [proc EXCEPT ![r] = Ended("taken")]
  /\ UNCHANGED <<job, run, dir, actor, asked, requests>>

\* A container restart ends its threads and the workers started in it.
RestartBox(box) ==
  /\ faults < MaxFaults
  /\ faults' = faults + 1
  /\ actor' = [a \in Actors |-> IF Box(a) = box THEN Resting ELSE actor[a]]
  /\ proc' = [r \in Runs |->
                IF run[r].launcher = box /\ proc[r].step \in Live \cup {"taken"}
                  THEN Ended("gone") ELSE proc[r]]
  /\ UNCHANGED <<job, run, dir, asked, requests>>

\* Another Popen of the launcher (a backup, a file operation, a host command)
\* waits for its ended workers.  (An id that another process has got is free
\* again one step early; ReusePid makes up for it.)
OtherPopen(box) ==
  /\ \E r \in Runs : run[r].launcher = box /\ proc[r].step = "taken"
  /\ proc' = Reaped(box)
  /\ UNCHANGED <<job, run, dir, actor, asked, requests, faults>>

\* The host gives the id of a worker that is gone to another process.
ReusePid(r) ==
  /\ proc[r].step = "gone"
  /\ proc' = [proc EXCEPT ![r].step = "taken"]
  /\ UNCHANGED <<job, run, dir, actor, asked, requests, faults>>

\* next_run_at or scheduled_for passes; those of a one-off job pass together.
ComesDue(j) ==
  /\ job[j].state = "present"
  /\ "later" \in {job[j].next, job[j].when}
  /\ LET Passed(due) == IF due = "later" THEN "due" ELSE due IN
       job' = [job EXCEPT ![j].next = Passed(@), ![j].when = Passed(@)]
  /\ UNCHANGED <<run, dir, proc, actor, asked, requests, faults>>

\* The row's own heartbeat passes the staleness limit (180 s); starting a
\* process takes less.
AgeRow(r) ==
  /\ run[r].status = "running" /\ run[r].fresh
  /\ proc[r].step # "booting"
  /\ \A a \in Actors : ~(actor[a].step = "spawn" /\ actor[a].run = r)
  /\ run' = [run EXCEPT ![r].fresh = FALSE]
  /\ UNCHANGED <<job, dir, proc, actor, asked, requests, faults>>

\* The file's heartbeat passes the limit: not while a worker lives to beat
\* every SCRIPT_HEARTBEAT_INTERVAL_SECONDS (15 s).
AgeBeat(r) ==
  /\ dir[r].beat
  /\ proc[r].step \notin {"busy", "closing"}
  /\ dir' = [dir EXCEPT ![r].beat = FALSE]
  /\ UNCHANGED <<job, run, proc, actor, asked, requests, faults>>

-----------------------------------------------------------------------------

Reconcile(a) == LoadRunning(a) \/ \E s \in actor[a].todo : Judge(a, s)

Finalize(a) == WriteVerdict(a) \/ WriteRaises(a)

Launch(a) == Create(a) \/ CreateRaises(a) \/ Spawn(a) \/ SpawnRaises(a)

Request(t) ==
  \/ \E j \in Jobs : \/ RunNow(t, j) \/ ToggleJob(t, j) \/ EditJob(t, j)
                     \/ CreateJob(t, j) \/ DeleteJob(t, j)
  \/ \E r \in Runs : AskStop(t, r)
  \/ SaveStop(t) \/ RaiseFlag(t) \/ SaveForm(t) \/ EndRequest(t)

Dispatch == QueryDue \/ EndDispatch \/ \E j \in Jobs : DueJob(j)

Work(r) ==
  \/ Boot(r) \/ BootRaises(r) \/ Heartbeat(r) \/ NoticeStop(r) \/ FinishScript(r)
  \/ StoreVerdict(r) \/ Advance(r)

Faults == \/ \E r \in Runs : Crash(r) \/ ReusePid(r)
          \/ \E box \in Boxes : RestartBox(box) \/ OtherPopen(box)

Time == \/ \E j \in Jobs : ComesDue(j)
        \/ \E r \in Runs : AgeRow(r) \/ AgeBeat(r)

Next ==
  \/ \E a \in Actors : Reconcile(a) \/ Finalize(a) \/ Launch(a)
  \/ \E t \in Web : Request(t)
  \/ Dispatch
  \/ \E r \in Runs : Work(r)
  \/ Faults
  \/ Time

Spec == Init /\ [][Next]_vars

(***************************************************************************)
(* Fairness.  The scheduler's loop goes on, begun requests are finished, a *)
(* worker makes progress and its script ends (two timeouts see to it),     *)
(* time passes, and the database is not locked each time the scheduler     *)
(* loads the running runs or stores a verdict.                             *)
(***************************************************************************)
LoadsRows == LoadRunning(Scheduler) /\ actor'[Scheduler].todo = RunningRows

StoresVerdict ==
  /\ WriteVerdict(Scheduler)
  /\ run'[actor[Scheduler].run].status = actor[Scheduler].fate

Fairness ==
  /\ SF_vars(LoadsRows)
  /\ SF_vars(StoresVerdict)
  /\ WF_vars(Dispatch)
  /\ \A a \in Actors : WF_vars(Reconcile(a)) /\ WF_vars(Finalize(a)) /\ WF_vars(Launch(a))
  /\ \A t \in Web : WF_vars(Request(t))
  /\ \A r \in Runs : /\ WF_vars(Boot(r) \/ BootRaises(r))
                     /\ WF_vars(FinishScript(r))
                     /\ WF_vars(StoreVerdict(r) \/ Advance(r))
                     /\ WF_vars(AgeRow(r)) /\ WF_vars(AgeBeat(r))

FairSpec == Spec /\ Fairness

-----------------------------------------------------------------------------
(* Properties *)

\* A worker whose script has not ended, and that nobody asked to stop, has a
\* row that says "running", although its process id may never have been
\* stored: a fresh heartbeat, in the row or in the file, protects it from
\* every reconcile.
BusyScriptIsRunning ==
  \A r \in Runs :
    proc[r].step \in Busy /\ r \notin asked => run[r].status \in {"running", "deleted"}

\* The scheduler never runs two workers of one script at once, unless one of
\* their runs was asked to stop, whatever requests, crashes, lost writes and
\* reused process ids come between.
SchedulerNeverDoublesScript ==
  \A q, r \in Runs :
    /\ run[q].launcher = "scheduler" /\ run[r].launcher = "scheduler"
    /\ run[q].job = run[r].job
    /\ proc[q].step \in Busy /\ proc[r].step \in Busy
    /\ run[q].status # "deleted" /\ run[r].status # "deleted"
    => q = r \/ q \in asked \/ r \in asked

\* A script run ends as cancelled only when somebody asked for a stop: neither
\* a stale row nor a missing process id is taken for one.
CancelledScriptWasAsked ==
  \A r \in Runs : run[r].status = "cancelled" => r \in asked

\* Pages, scheduler and workers of scripts do not get in each other's way: a
\* script at work keeps its row, the scheduler starts no second one beside it,
\* and none is cancelled that nobody asked to stop.
ScriptRunsAreSafe ==
  /\ BusyScriptIsRunning
  /\ SchedulerNeverDoublesScript
  /\ CancelledScriptWasAsked

\* The rows keep the history page's ledger: opened once, settled, and never
\* running again.
RunStates == [r \in Runs |-> IF run[r].status \in Verdicts THEN "settled"
                             ELSE run[r].status]
Ledger == INSTANCE RunLedger WITH ledger <- RunStates
ScriptLedgerKept == Ledger!Spec

-----------------------------------------------------------------------------
(* What the code says of itself and does not keep: counterexamples in README. *)

\* "Script job marked as failed because the worker heartbeat became stale":
\* a run whose worker died is settled some day.
ScriptRunSettles ==
  \A r \in Runs : run[r].status = "running" ~> run[r].status # "running"

\* "Run once at a specific date and time": the scheduler does not start a
\* one-off job that has run to success.
OneOffRunsOnce ==
  [][ actor[Scheduler].step = "due" /\ actor'[Scheduler].step = "create" =>
        ~ \E r \in Runs : /\ run[r].status = "success"
                          /\ run[r].job = actor'[Scheduler].job
                          /\ job[run[r].job].mode = "one_off" ]_vars
=============================================================================
