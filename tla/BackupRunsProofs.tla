-------------------------- MODULE BackupRunsProofs --------------------------
(***************************************************************************)
(* What holds of backup runs for any number of jobs, runs, request threads,*)
(* requests and faults.                                                    *)
(***************************************************************************)
EXTENDS BackupRuns, TLAPS

USE LocalAssumption, SchedulerAssumption, NoneAssumption, BoundsAssumption

-----------------------------------------------------------------------------
(* The inductive invariant *)

\* Actors between the row's insert and Popen.
Spawners(r) == {a \in Actors : actor[a].step = "spawn" /\ actor[a].run = r}

\* Actors about to store a verdict.
Writers(r) == {a \in Actors : actor[a].step = "write" /\ actor[a].run = r}

\* What a step holds is there: a job before a launch or a save, a run
\* after it, a job behind every allocated row.
Held ==
  /\ \A a \in Actors :
       /\ actor[a].step \in {"create", "save"} => actor[a].job \in Jobs
       /\ actor[a].step \in {"spawn", "ask", "flag", "write"} => actor[a].run \in Runs
  /\ \A r \in Runs : run[r].status = "free" <=> run[r].job = NoJob

\* Nobody refers to a row that is not allocated.
Unallocated ==
  \A r \in Runs : run[r].status = "free" =>
    /\ proc[r].step = "none"
    /\ r \notin asked
    /\ \A a \in Actors :
         /\ actor[a].step \in {"spawn", "ask", "flag", "write"} => actor[a].run # r
         /\ \A s \in actor[a].todo : s.run # r

\* A row is spawned for once, by one actor.
SpawnedOnce ==
  \A r \in Runs : \A a \in Spawners(r) :
    proc[r].step = "none" /\ \A b \in Spawners(r) : b = a

\* Every trace of a stop request, and every verdict "cancelled" under way or
\* stored, goes back to a stop that was asked for.
StopsAsked ==
  /\ \A r \in Runs : run[r].stop \/ dir[r].stop \/ proc[r].verdict = "cancelled"
                         \/ run[r].status = "cancelled"
                       => r \in asked
  /\ \A a \in Actors :
       /\ \A s \in actor[a].todo : s.stop => s.run \in asked
       /\ actor[a].step = "write" /\ actor[a].fate = "cancelled" => actor[a].run \in asked
       /\ actor[a].step \in {"ask", "flag"} => actor[a].run \in asked

\* A run nobody asked to stop: fresh from its insert to its boot, with a live
\* heartbeat while it transfers, and out of reach of every verdict but its
\* worker's, also of one based on a row loaded before.
Undisturbed ==
  \A r \in Runs \ asked :
    /\ proc[r].step \in Busy \/ Spawners(r) # {} =>
         run[r].status \in {"running", "deleted"} /\ Writers(r) = {}
    /\ proc[r].step = "booting" \/ Spawners(r) # {} =>
         /\ run[r].fresh
         /\ \A a \in Actors : \A s \in actor[a].todo : s.run = r => s.fresh
    /\ proc[r].step = "busy" => dir[r].beat

\* The scheduler has at most one running row of a job, and none when it is
\* about to insert one.
SchedulerRows(j) == {r \in Running(j) : run[r].runner = "scheduler"}

OneSchedulerRow ==
  /\ \A j \in Jobs : \A q, r \in SchedulerRows(j) : q = r
  /\ actor[Scheduler].step = "create" => SchedulerRows(actor[Scheduler].job) = {}

RunsInv == /\ Held /\ Unallocated /\ SpawnedOnce
           /\ StopsAsked /\ Undisturbed /\ OneSchedulerRow

IInv == TypeOK /\ RunsInv

-----------------------------------------------------------------------------
(* Types *)

\* What NewRun picks is the id of an unallocated row.
LEMMA NewRunIsFree ==
  FreeRuns # {} => NewRun \in Runs /\ run[NewRun].status = "free"
  BY Zenon DEF FreeRuns, NewRun

\* The state a call returns to is one an actor can be in.
LEMMA ReturnedType ==
  ASSUME NEW s \in ActorState
  PROVE  Returned(s) \in ActorState
  BY DEF Returned, ActorState, Resting, NoForm, JobFields, Due, Verdicts, ActorSteps

\* An actor at rest is an actor.
LEMMA RestingType == Resting \in ActorState
  BY DEF ActorState, Resting, NoForm, JobFields, Due, Verdicts, ActorSteps

\* Saving a form yields the fields of a row.
LEMMA SavedType ==
  ASSUME NEW f \in JobFields
  PROVE  Saved(f) \in JobFields /\ Stored(f) \in JobRow
  BY DEF Saved, Stored, JobFields, JobRow, Due

\* A run without files.
LEMMA NoFilesType == NoFiles \in RunFiles
  BY DEF NoFiles, RunFiles

\* The files of a run, once a stop is asked for or a heartbeat is written.
LEMMA FilesWritten ==
  \A f \in RunFiles : /\ [f EXCEPT !.stop = TRUE] \in RunFiles
                       /\ [f EXCEPT !.beat = TRUE] \in RunFiles
  BY DEF RunFiles

\* A worker that has ended is a worker.
LEMMA ExitedType == Exited \in WorkerProc
  BY DEF Exited, WorkerProc, WorkerSteps, Verdicts

\* A form that is saved is a row of the table.
LEMMA SavedStoredType == \A f \in JobFields : Stored(Saved(f)) \in JobRow
  BY SavedType

\* The first states are typed.
LEMMA TypeInit == Init => TypeOK
<1> SUFFICES ASSUME Init PROVE TypeOK
  OBVIOUS
<1>1. job \in [Jobs -> JobRow]
  <2>1. InitialJobs \subseteq JobRow
    <3>1. [state |-> "absent", enabled |-> FALSE, manual |-> FALSE, next |-> "none"]
            \in JobRow
      BY DEF JobRow, Due
    <3>2. QED
      BY <3>1, SavedStoredType DEF InitialJobs
  <2>2. QED
    BY <2>1 DEF Init
<1>2. run \in [Runs -> RunRow]
  BY DEF Init, RunRow, Statuses, Boxes
<1>3. dir \in [Runs -> RunFiles] /\ proc \in [Runs -> WorkerProc]
  BY DEF Init, RunFiles, NoFiles, WorkerProc, WorkerSteps, Verdicts
<1>4. actor \in [Actors -> ActorState]
  BY RestingType DEF Init
<1>5. asked \in SUBSET Runs /\ requests \in 0..MaxRequests /\ faults \in 0..MaxFaults
  BY DEF Init
<1>6. QED
  BY <1>1, <1>2, <1>3, <1>4, <1>5 DEF TypeOK

\* A new state of one actor leaves the actors typed.
LEMMA BecomesType ==
  ASSUME TypeOK, NEW a \in Actors, NEW s \in ActorState, Becomes(a, s)
  PROVE  actor' \in [Actors -> ActorState]
  BY DEF TypeOK, Becomes

\* The actions of mark_stale_running_backups keep the types.
LEMMA TypeReconcile ==
  ASSUME TypeOK, NEW a \in Actors, Reconcile(a)
  PROVE  TypeOK'
<1>1. actor[a] \in ActorState
  BY DEF TypeOK
<1>2. CASE LoadRunning(a)
  <2>1. RunningRows \in SUBSET Loaded
    BY DEF Loaded, RunRow, RunningRows, TypeOK
  <2>2. [actor[a] EXCEPT !.step = "reconcile", !.todo = RunningRows] \in ActorState
    BY <1>1, <2>1 DEF ActorState, ActorSteps
  <2>3. actor' \in [Actors -> ActorState]
    BY <1>2, <2>2, BecomesType DEF LoadRunning
  <2>4. QED
    BY <1>2, <2>3 DEF LoadRunning, Begins, TypeOK
<1>3. CASE LoadNothing(a)
  <2>1. actor' \in [Actors -> ActorState]
    BY <1>1, <1>3, BecomesType DEF LoadNothing, Goto, ActorState, ActorSteps
  <2>2. QED
    BY <1>3, <2>1 DEF LoadNothing, Begins, TypeOK
<1>4. ASSUME NEW s \in actor[a].todo, Judge(a, s) PROVE TypeOK'
  <2>1. s \in Loaded /\ actor[a].todo \ {s} \in SUBSET Loaded
    BY <1>1 DEF ActorState
  <2>2. PICK new \in ActorState : Becomes(a, new)
    <3>1. [actor[a] EXCEPT !.todo = @ \ {s}] \in ActorState
      BY <1>1, <2>1 DEF ActorState
    <3>2. \A v \in Verdicts :
            [actor[a] EXCEPT !.todo = @ \ {s}, !.step = "write", !.back = "reconcile",
                             !.run = s.run, !.fate = v] \in ActorState
      BY <1>1, <2>1 DEF ActorState, ActorSteps, Loaded
    <3>3. QED
      BY <1>4, <3>1, <3>2 DEF Judge, JudgeBy, Verdicts
  <2>3. QED
    BY <1>4, <2>2, BecomesType DEF Judge, JudgeBy, TypeOK
<1>5. QED
  BY <1>2, <1>3, <1>4 DEF Reconcile

\* So do those of finalize_backup_run.
LEMMA TypeFinalize ==
  ASSUME TypeOK, NEW a \in Actors, Finalize(a)
  PROVE  TypeOK'
<1>1. actor[a] \in ActorState /\ actor[a].fate \in Verdicts
  BY DEF TypeOK, ActorState
<1>2. PICK new \in ActorState : Becomes(a, new)
  <2>1. Returned(actor[a]) \in ActorState
    BY <1>1, ReturnedType
  <2>2. [Returned(actor[a]) EXCEPT !.todo = {}] \in ActorState
    BY <2>1 DEF ActorState
  <2>3. QED
    BY <2>1, <2>2, RestingType
       DEF Finalize, WriteStored, WriteLost, WriteRaises, Aborted
<1>3. actor' \in [Actors -> ActorState]
  BY <1>2, BecomesType
<1>4. \A row \in RunRow : Settled(row, actor[a].fate) \in RunRow
  BY <1>1 DEF Settled, RunRow, Statuses
<1>5. run' \in [Runs -> RunRow]
  BY <1>4 DEF Finalize, WriteStored, WriteLost, WriteRaises, TypeOK
<1>6. dir' \in [Runs -> RunFiles]
  BY NoFilesType DEF Finalize, WriteStored, WriteLost, WriteRaises, TypeOK
<1>7. QED
  BY <1>3, <1>5, <1>6 DEF Finalize, WriteStored, WriteLost, WriteRaises, TypeOK

\* And those that launch a run.
LEMMA TypeLaunch ==
  ASSUME TypeOK, Held, NEW a \in Actors, Launch(a)
  PROVE  TypeOK'
<1>1. actor[a] \in ActorState
  BY DEF TypeOK
<1>2. Returned(actor[a]) \in ActorState
  BY <1>1, ReturnedType
<1>3. CASE Create(a)
  <2>1. NewRun \in Runs
    BY <1>3, NewRunIsFree DEF Create
  <2>2. [actor[a] EXCEPT !.step = "spawn", !.run = NewRun] \in ActorState
    BY <1>1, <2>1 DEF ActorState, ActorSteps
  <2>3. actor' \in [Actors -> ActorState]
    BY <1>3, <2>2, BecomesType DEF Create
  <2>4. [status |-> "running", job |-> actor[a].job, runner |-> Box(a),
         pid |-> FALSE, stop |-> FALSE, fresh |-> TRUE] \in RunRow
    BY <1>3 DEF Create, Held, RunRow, Statuses, Box, Boxes
  <2>5. run' \in [Runs -> RunRow]
    BY <1>3, <2>4 DEF Create, TypeOK
  <2>6. QED
    BY <1>3, <2>3, <2>5 DEF Create, TypeOK
<1>4. CASE CreateRaises(a)
  BY <1>2, <1>4, BecomesType DEF CreateRaises, TypeOK
<1>5. CASE Spawn(a)
  <2>1. actor' \in [Actors -> ActorState]
    BY <1>2, <1>5, BecomesType DEF Spawn
  <2>2. proc' \in [Runs -> WorkerProc]
    <3>1. \A r \in Runs : [proc[r] EXCEPT !.step = "booting"] \in WorkerProc
      BY DEF TypeOK, WorkerProc, WorkerSteps
    <3>2. QED
      BY <1>5, <3>1 DEF Spawn, TypeOK
  <2>3. QED
    BY <1>5, <2>1, <2>2 DEF Spawn, TypeOK
<1>6. CASE SpawnRaises(a)
  <2>1. [actor[a] EXCEPT !.step = "write", !.fate = "failed"] \in ActorState
    BY <1>1 DEF ActorState, ActorSteps, Verdicts
  <2>2. QED
    BY <1>6, <2>1, BecomesType DEF SpawnRaises, TypeOK
<1>7. QED
  BY <1>3, <1>4, <1>5, <1>6 DEF Launch

\* The requests of the backups page.
LEMMA TypeRequest ==
  ASSUME TypeOK, Held, NEW t \in Web, Request(t)
  PROVE  TypeOK'
<1>1. t \in Actors /\ actor[t] \in ActorState
  BY DEF TypeOK, Actors
<1>2. \A form \in JobFields, j \in Jobs :
        Editing(t, j, form) => actor' \in [Actors -> ActorState]
  <2>1. \A form \in JobFields, j \in Jobs :
          [actor[t] EXCEPT !.step = "save", !.job = j, !.form = form] \in ActorState
    BY <1>1 DEF ActorState, ActorSteps
  <2>2. QED
    BY <1>1, <2>1, BecomesType DEF Editing
<1>3. \A j \in Jobs : job[j] \in JobRow /\ Fields(job[j]) \in JobFields
  BY DEF TypeOK, Fields, JobRow, JobFields
<1>4. Becomes(t, Resting) => actor' \in [Actors -> ActorState]
  BY <1>1, RestingType, BecomesType
<1>5. ASSUME NEW j \in Jobs,
             \/ RunNow(t, j)
             \/ \E r \in Runs : Rerun(t, r) /\ run[r].job = j
      PROVE  TypeOK'
  <2>1. Launching(t, j, "idle") \in ActorState
    BY <1>1 DEF Launching, ActorState, ActorSteps
  <2>2. QED
    BY <1>1, <1>5, <2>1, BecomesType DEF RunNow, Rerun, TypeOK
<1>6. ASSUME NEW j \in Jobs, ToggleJob(t, j) PROVE TypeOK'
  <2>1. [Fields(job[j]) EXCEPT !.enabled = ~@] \in JobFields
    BY <1>3 DEF JobFields
  <2>2. QED
    BY <1>2, <1>6, <2>1 DEF ToggleJob, TypeOK
<1>7. ASSUME NEW j \in Jobs, EditJob(t, j) PROVE TypeOK'
  <2>1. \A e, m \in BOOLEAN :
          [enabled |-> e, manual |-> m, next |-> job[j].next] \in JobFields
    BY <1>3 DEF JobFields, JobRow
  <2>2. QED
    BY <1>2, <1>7, <2>1 DEF EditJob, TypeOK
<1>8. ASSUME NEW j \in Jobs, CreateJob(t, j) PROVE TypeOK'
  <2>1. \A e, m \in BOOLEAN :
          Stored(Saved([enabled |-> e, manual |-> m, next |-> "none"])) \in JobRow
    BY SavedStoredType DEF JobFields, Due
  <2>2. job' \in [Jobs -> JobRow]
    BY <1>8, <2>1 DEF CreateJob, TypeOK
  <2>3. QED
    BY <1>4, <1>8, <2>2 DEF CreateJob, TypeOK
<1>9. ASSUME NEW j \in Jobs, DeleteJob(t, j) PROVE TypeOK'
  <2>1. job' \in [Jobs -> JobRow]
    BY <1>9 DEF DeleteJob, TypeOK, JobRow
  <2>2. \A r \in Runs : [run[r] EXCEPT !.status = "deleted"] \in RunRow
    BY DEF TypeOK, RunRow, Statuses
  <2>3. run' \in [Runs -> RunRow]
    BY <1>9, <2>2 DEF DeleteJob, TypeOK
  <2>4. QED
    BY <1>4, <1>9, <2>1, <2>3 DEF DeleteJob, TypeOK
<1>10. ASSUME NEW r \in Runs, AskStop(t, r) PROVE TypeOK'
  <2>1. [actor[t] EXCEPT !.step = "ask", !.run = r, !.pid = run[r].pid] \in ActorState
    BY <1>1 DEF TypeOK, RunRow, ActorState, ActorSteps
  <2>2. QED
    BY <1>1, <1>10, <2>1, BecomesType DEF AskStop, TypeOK
<1>11. CASE SaveStop(t)
  <2>1. run' \in [Runs -> RunRow]
    <3>1. \A row \in RunRow : [row EXCEPT !.stop = TRUE] \in RunRow
      BY DEF RunRow
    <3>2. QED
      BY <1>11, <3>1 DEF SaveStop, TypeOK
  <2>2. [actor[t] EXCEPT !.step = "flag"] \in ActorState
    BY <1>1 DEF ActorState, ActorSteps
  <2>3. actor' \in [Actors -> ActorState]
    BY <1>1, <1>4, <1>11, <2>2, BecomesType DEF SaveStop, Goto
  <2>4. QED
    BY <1>11, <2>1, <2>3 DEF SaveStop, TypeOK
<1>12. CASE RaiseFlag(t)
  <2>1. dir' \in [Runs -> RunFiles]
    BY <1>12, FilesWritten DEF RaiseFlag, RaiseFlagAs, TypeOK
  <2>2. [actor[t] EXCEPT !.step = "write", !.fate = "cancelled"] \in ActorState
    BY <1>1 DEF ActorState, ActorSteps, Verdicts
  <2>3. actor' \in [Actors -> ActorState]
    BY <1>1, <1>4, <1>12, <2>2, BecomesType DEF RaiseFlag, RaiseFlagAs
  <2>4. QED
    BY <1>12, <2>1, <2>3 DEF RaiseFlag, RaiseFlagAs, TypeOK
<1>13. CASE SaveForm(t)
  <2>1. Stored(Saved(actor[t].form)) \in JobRow
    BY <1>1, SavedStoredType DEF ActorState
  <2>2. job' \in [Jobs -> JobRow]
    BY <1>13, <2>1 DEF SaveForm, TypeOK
  <2>3. QED
    BY <1>4, <1>13, <2>2 DEF SaveForm, TypeOK
<1>14. CASE EndRequest(t)
  BY <1>4, <1>14 DEF EndRequest, TypeOK
<1>15. ASSUME NEW r \in Runs, Rerun(t, r) PROVE run[r].job \in Jobs
  BY <1>15 DEF Rerun, Held, TypeOK, RunRow
<1>16. QED
  BY <1>5, <1>6, <1>7, <1>8, <1>9, <1>10, <1>11, <1>12, <1>13, <1>14, <1>15 DEF Request

\* The scheduler's loop.
LEMMA TypeDispatch ==
  ASSUME TypeOK, Dispatch
  PROVE  TypeOK'
<1>1. Scheduler \in Actors /\ actor[Scheduler] \in ActorState
  BY DEF TypeOK, Actors
<1>2. \A s \in ActorState : Becomes(Scheduler, s) => actor' \in [Actors -> ActorState]
  BY <1>1, BecomesType
<1>3. \A j \in Jobs : [actor[Scheduler] EXCEPT !.agenda = @ \ {j}] \in ActorState
  BY <1>1 DEF ActorState
<1>4. \A s \in ActorState, j \in Jobs : \A b \in {"mounts", "due"} :
        [s EXCEPT !.step = "create", !.job = j, !.back = b] \in ActorState
  BY DEF ActorState, ActorSteps
<1>5. ASSUME NEW j \in Jobs, MountTrigger(j) \/ DueJob(j) PROVE TypeOK'
  BY <1>2, <1>3, <1>4, <1>5 DEF MountTrigger, DueJob, TypeOK
<1>6. ASSUME NEW j \in Jobs, SkipUnmounted(j) PROVE TypeOK'
  <2>1. job' \in [Jobs -> JobRow]
    BY <1>6 DEF SkipUnmounted, TypeOK, JobRow, Due
  <2>2. QED
    BY <1>2, <1>3, <1>6, <2>1, RestingType DEF SkipUnmounted, TypeOK
<1>7. \A due \in SUBSET Jobs : \A step \in ActorSteps :
        [actor[Scheduler] EXCEPT !.step = step, !.agenda = due] \in ActorState
  BY <1>1 DEF ActorState
<1>8. CASE FindMounts
  BY <1>2, <1>7, <1>8 DEF FindMounts, ActorSteps, TypeOK
<1>9. CASE QueryDue
  BY <1>2, <1>7, <1>9 DEF QueryDue, ActorSteps, TypeOK
<1>10. CASE EndDispatch \/ DispatchRaises
  BY <1>2, <1>10, RestingType DEF EndDispatch, DispatchRaises, TypeOK
<1>11. QED
  BY <1>5, <1>6, <1>8, <1>9, <1>10 DEF Dispatch

\* The worker.
LEMMA TypeWork ==
  ASSUME TypeOK, Held, Unallocated, NEW r \in Runs, Work(r)
  PROVE  TypeOK'
<1>1. proc[r] \in WorkerProc /\ run[r] \in RunRow /\ dir[r] \in RunFiles
  BY DEF TypeOK
<1>2. CASE Boot(r)
  <2>1. run[r].job \in Jobs
    BY <1>1, <1>2 DEF Boot, BootWith, Held, Unallocated, RunRow
  <2>2. (job[run[r].job].enabled /\ ~job[run[r].job].manual) \in BOOLEAN
    <3>1. job[run[r].job] \in JobRow
      BY <2>1 DEF TypeOK
    <3>2. QED
      BY <3>1 DEF JobRow
  <2>3. \A b \in BOOLEAN :
          [proc[r] EXCEPT !.step = "busy", !.scheduled = b] \in WorkerProc
    BY <1>1 DEF WorkerProc, WorkerSteps
  <2>4. proc' \in [Runs -> WorkerProc]
    BY <1>2, <2>2, <2>3 DEF Boot, BootWith, TypeOK
  <2>5. [run[r] EXCEPT !.pid = TRUE, !.fresh = run[r].status = "running"] \in RunRow
    BY <1>1 DEF RunRow
  <2>6. run' \in [Runs -> RunRow] /\ dir' \in [Runs -> RunFiles]
    <3>1. dir' \in [Runs -> RunFiles]
      BY <1>2, FilesWritten DEF Boot, BootWith, TypeOK
    <3>2. run' \in [Runs -> RunRow]
      BY <1>2, <2>5 DEF Boot, BootWith, TypeOK
    <3>3. QED
      BY <3>1, <3>2
  <2>7. QED
    BY <1>2, <2>4, <2>6 DEF Boot, BootWith, TypeOK
<1>3. CASE BootRaises(r)
  BY <1>3, ExitedType DEF BootRaises, TypeOK
<1>4. CASE Heartbeat(r)
  BY <1>4, FilesWritten DEF Heartbeat, TypeOK
<1>5. \A v \in Verdicts : [proc[r] EXCEPT !.step = "closing", !.verdict = v] \in WorkerProc
  BY <1>1 DEF WorkerProc, WorkerSteps
<1>6. CASE NoticeStop(r) \/ FinishTransfer(r)
  BY <1>5, <1>6 DEF NoticeStop, FinishTransfer, TypeOK, Verdicts
<1>7. CASE StoreVerdict(r)
  <2>1. Settled(run[r], proc[r].verdict) \in RunRow
    BY <1>1 DEF Settled, RunRow, Statuses, WorkerProc
  <2>2. [proc[r] EXCEPT !.step = "advancing"] \in WorkerProc
    BY <1>1 DEF WorkerProc, WorkerSteps
  <2>3. run' \in [Runs -> RunRow] /\ dir' \in [Runs -> RunFiles]
    BY <1>7, <2>1, NoFilesType DEF StoreVerdict, TypeOK
  <2>4. proc' \in [Runs -> WorkerProc]
    BY <1>7, <2>2, ExitedType DEF StoreVerdict, TypeOK
  <2>5. QED
    BY <1>7, <2>3, <2>4 DEF StoreVerdict, TypeOK
<1>8. CASE Advance(r)
  <2>1. job' \in [Jobs -> JobRow]
    BY <1>8 DEF Advance, TypeOK, JobRow, Due
  <2>2. QED
    BY <1>8, <2>1, ExitedType DEF Advance, TypeOK
<1>9. QED
  BY <1>2, <1>3, <1>4, <1>6, <1>7, <1>8 DEF Work

\* Failures and time.
LEMMA TypeEnvironment ==
  ASSUME TypeOK,
         \/ \E r \in Runs : Crash(r)
         \/ \E box \in Boxes : RestartBox(box)
         \/ Time
  PROVE  TypeOK'
<1>1. faults < MaxFaults => faults + 1 \in 0..MaxFaults
  BY DEF TypeOK
<1>2. ASSUME NEW r \in Runs, Crash(r) PROVE TypeOK'
  BY <1>1, <1>2, ExitedType DEF Crash, TypeOK
<1>3. ASSUME NEW box \in Boxes, RestartBox(box) PROVE TypeOK'
  BY <1>1, <1>3, ExitedType, RestingType DEF RestartBox, TypeOK
<1>4. ASSUME NEW j \in Jobs, ComesDue(j) PROVE TypeOK'
  <2>1. [job[j] EXCEPT !.next = "due"] \in JobRow
    BY DEF TypeOK, JobRow, Due
  <2>2. QED
    BY <1>4, <2>1 DEF ComesDue, TypeOK
<1>5. ASSUME NEW r \in Runs, AgeRow(r) \/ AgeBeat(r) PROVE TypeOK'
  <2>1. run[r] \in RunRow /\ dir[r] \in RunFiles
    BY DEF TypeOK
  <2>2. [run[r] EXCEPT !.fresh = FALSE] \in RunRow
    BY <2>1 DEF RunRow
  <2>3. [dir[r] EXCEPT !.beat = FALSE] \in RunFiles
    BY <2>1 DEF RunFiles
  <2>4. CASE AgeRow(r)
    BY <2>2, <2>4 DEF AgeRow, TypeOK
  <2>5. CASE AgeBeat(r)
    BY <2>3, <2>5 DEF AgeBeat, TypeOK
  <2>6. QED
    BY <1>5, <2>4, <2>5
<1>6. QED
  BY <1>2, <1>3, <1>4, <1>5 DEF Time

\* Every step keeps the types, given that what it holds is there.
LEMMA TypeStep ==
  ASSUME TypeOK, Held, Unallocated, [Next]_vars
  PROVE  TypeOK'
<1>1. CASE UNCHANGED vars
  BY <1>1 DEF vars, TypeOK
<1>2. CASE Next
  BY <1>2, TypeReconcile, TypeFinalize, TypeLaunch, TypeRequest, TypeDispatch,
     TypeWork, TypeEnvironment
     DEF Next
<1>3. QED
  BY <1>1, <1>2

-----------------------------------------------------------------------------
(* Quiet steps: an actor moves, no run is touched, and the actor does not    *)
(* come to hold one.                                                         *)

Holding == {"spawn", "ask", "flag", "write"}

QuietStep(a, s) ==
  /\ Becomes(a, s)
  /\ UNCHANGED <<run, dir, proc, asked>>
  /\ s.step \notin Holding
  /\ s.step \in {"create", "save"} => s.job \in Jobs
  /\ s.todo \subseteq actor[a].todo
  /\ a = Scheduler /\ s.step = "create" => SchedulerRows(s.job) = {}

\* A quiet step keeps the inductive invariant.
LEMMA QuietKeeps ==
  ASSUME IInv, NEW a \in Actors, NEW s \in ActorState, QuietStep(a, s)
  PROVE  RunsInv'
<1>1. \A b \in Actors : actor'[b] = IF b = a THEN s ELSE actor[b]
  BY DEF IInv, RunsInv, TypeOK, QuietStep, Becomes
<1>2. \A r \in Runs : Spawners(r)' \subseteq Spawners(r) /\ Writers(r)' \subseteq Writers(r)
  BY <1>1 DEF QuietStep, Spawners, Writers, Holding
<1>3. Held'
  BY <1>1 DEF IInv, RunsInv, Held, QuietStep, Holding
<1>4. Unallocated'
  BY <1>1 DEF IInv, RunsInv, Unallocated, QuietStep, Holding
<1>5. SpawnedOnce'
  BY <1>2 DEF IInv, RunsInv, SpawnedOnce, QuietStep
<1>6. StopsAsked'
  BY <1>1 DEF IInv, RunsInv, StopsAsked, QuietStep, Holding
<1>7. Undisturbed'
  BY <1>1, <1>2 DEF IInv, RunsInv, Undisturbed, QuietStep
<1>8. OneSchedulerRow'
  <2>1. \A j : SchedulerRows(j)' = SchedulerRows(j)
    BY DEF SchedulerRows, Running, QuietStep
  <2>2. actor'[Scheduler].step = "create" => SchedulerRows(actor'[Scheduler].job) = {}
    BY <1>1 DEF IInv, RunsInv, OneSchedulerRow, QuietStep, Actors
  <2>3. QED
    BY <2>1, <2>2 DEF IInv, RunsInv, OneSchedulerRow
<1>9. QED
  BY <1>3, <1>4, <1>5, <1>6, <1>7, <1>8 DEF RunsInv

\* What a call returns to holds nothing.
LEMMA ReturnedQuiet ==
  ASSUME TypeOK, NEW a \in Actors
  PROVE  LET s == Returned(actor[a]) IN
         /\ s \in ActorState
         /\ s.step \in {"idle", "reconcile", "mounts", "due"}
         /\ s.todo \subseteq actor[a].todo
<1>1. actor[a] \in ActorState
  BY DEF TypeOK
<1>2. QED
  BY <1>1, ReturnedType DEF Returned, ActorState, Resting

\* Every other step of the scheduler's loop is quiet.
LEMMA InvDispatch ==
  ASSUME IInv, Dispatch
  PROVE  RunsInv'
<1>1. Scheduler \in Actors /\ actor[Scheduler] \in ActorState
  BY DEF IInv, TypeOK, Actors
<1>2. \A s \in ActorState : QuietStep(Scheduler, s) => RunsInv'
  BY <1>1, QuietKeeps
<1>3. ASSUME NEW j \in Jobs, NEW s \in ActorState, NEW b \in {"mounts", "due"},
             Running(j) = {}, s = [actor[Scheduler] EXCEPT !.agenda = @ \ {j}],
             Becomes(Scheduler, [s EXCEPT !.step = "create", !.job = j, !.back = b]),
             UNCHANGED <<run, dir, proc, asked>>
      PROVE  RunsInv'
  <2> DEFINE new == [s EXCEPT !.step = "create", !.job = j, !.back = b]
  <2>1. new \in ActorState
    BY DEF ActorState, ActorSteps
  <2>2. new.step = "create" /\ new.job = j /\ new.todo = actor[Scheduler].todo
    BY <1>1, <1>3 DEF ActorState
  <2>3. QuietStep(Scheduler, new)
    BY <1>3, <2>2 DEF QuietStep, Holding, SchedulerRows
  <2>4. QED
    BY <1>2, <2>1, <2>3
<1>4. ASSUME NEW s \in ActorState, Becomes(Scheduler, s),
             s.step \in {"idle", "mounts", "due"}, s.todo \subseteq actor[Scheduler].todo,
             UNCHANGED <<run, dir, proc, asked>>
      PROVE  RunsInv'
  BY <1>2, <1>4 DEF QuietStep, Holding
<1>5. ASSUME NEW j \in Jobs, MountTrigger(j) \/ DueJob(j) \/ SkipUnmounted(j)
      PROVE  RunsInv'
  <2> DEFINE here == [actor[Scheduler] EXCEPT !.agenda = @ \ {j}]
  <2>1. /\ here \in ActorState /\ here.step = actor[Scheduler].step
        /\ here.todo = actor[Scheduler].todo
    BY <1>1 DEF ActorState
  <2>2. Resting \in ActorState /\ Resting.step = "idle" /\ Resting.todo = {}
    BY RestingType DEF Resting
  <2>3. actor[Scheduler].step \in {"mounts", "due"}
    BY <1>5 DEF MountTrigger, DueJob, SkipUnmounted
  <2>4. UNCHANGED <<run, dir, proc, asked>>
    BY <1>5 DEF MountTrigger, DueJob, SkipUnmounted
  <2>5. \/ Becomes(Scheduler, here) \/ Becomes(Scheduler, Resting)
        \/ /\ Running(j) = {}
           /\ \E b \in {"mounts", "due"} :
                Becomes(Scheduler, [here EXCEPT !.step = "create", !.job = j, !.back = b])
    BY <1>5 DEF MountTrigger, DueJob, SkipUnmounted
  <2>6. QED
    BY <1>3, <1>4, <2>1, <2>2, <2>3, <2>4, <2>5
<1>6. CASE FindMounts \/ QueryDue \/ EndDispatch \/ DispatchRaises
  <2>1. Resting \in ActorState /\ Resting.step = "idle" /\ Resting.todo = {}
    BY RestingType DEF Resting
  <2>2. UNCHANGED <<run, dir, proc, asked>>
    BY <1>6 DEF FindMounts, QueryDue, EndDispatch, DispatchRaises
  <2>3. \/ Becomes(Scheduler, Resting)
        \/ \E step \in {"mounts", "due"} : \E due \in SUBSET Jobs :
             Becomes(Scheduler, [actor[Scheduler] EXCEPT !.step = step, !.agenda = due])
    BY <1>6 DEF FindMounts, QueryDue, EndDispatch, DispatchRaises
  <2>4. CASE Becomes(Scheduler, Resting)
    BY <1>4, <2>1, <2>2, <2>4
  <2>5. ASSUME NEW step \in {"mounts", "due"}, NEW due \in SUBSET Jobs,
               Becomes(Scheduler, [actor[Scheduler] EXCEPT !.step = step, !.agenda = due])
        PROVE  RunsInv'
    <3> DEFINE new == [actor[Scheduler] EXCEPT !.step = step, !.agenda = due]
    <3>1. new \in ActorState /\ new.step = step /\ new.todo = actor[Scheduler].todo
      BY <1>1 DEF ActorState, ActorSteps
    <3>2. QED
      BY <1>4, <2>2, <2>5, <3>1
  <2>6. QED
    BY <2>3, <2>4, <2>5
<1>7. QED
  BY <1>5, <1>6 DEF Dispatch

-----------------------------------------------------------------------------
(* The other steps *)

\* A reconcile: what it loads of a run nobody asked to stop is fresh as long as
\* its worker starts, and what it finds stale has no worker.
LEMMA InvReconcile ==
  ASSUME IInv, NEW a \in Actors, Reconcile(a)
  PROVE  RunsInv'
<1>1. actor[a] \in ActorState
  BY DEF IInv, TypeOK
<1>2. CASE LoadRunning(a)
  <2> DEFINE new == [actor[a] EXCEPT !.step = "reconcile", !.todo = RunningRows]
  <2>1. new.step = "reconcile" /\ new.todo = RunningRows /\ new.run = actor[a].run
    BY <1>1 DEF ActorState
  <2>2. \A b \in Actors : actor'[b] = IF b = a THEN new ELSE actor[b]
    BY <1>2 DEF IInv, TypeOK, LoadRunning, Becomes
  <2>3. UNCHANGED <<run, dir, proc, asked>>
    BY <1>2 DEF LoadRunning
  <2> HIDE DEF new
  <2>4. \A s \in RunningRows : /\ s.run \in Runs /\ run[s.run].status = "running"
                               /\ s.stop = run[s.run].stop /\ s.fresh = run[s.run].fresh
    BY DEF RunningRows
  <2>5. \A r \in Runs : Spawners(r)' \subseteq Spawners(r) /\ Writers(r)' \subseteq Writers(r)
    BY <2>1, <2>2 DEF Spawners, Writers
  <2>6. Held'
    BY <2>1, <2>2, <2>3 DEF IInv, RunsInv, Held
  <2>7. Unallocated'
    BY <2>1, <2>2, <2>3, <2>4 DEF IInv, RunsInv, Unallocated
  <2>8. SpawnedOnce'
    BY <2>3, <2>5 DEF IInv, RunsInv, SpawnedOnce
  <2>9. StopsAsked'
    BY <2>1, <2>2, <2>3, <2>4 DEF IInv, RunsInv, StopsAsked
  <2>10. Undisturbed'
    BY <2>1, <2>2, <2>3, <2>4, <2>5 DEF IInv, RunsInv, Undisturbed
  <2>11. OneSchedulerRow'
    BY <2>1, <2>2, <2>3 DEF IInv, RunsInv, OneSchedulerRow, SchedulerRows, Running, Actors
  <2>12. QED
    BY <2>6, <2>7, <2>8, <2>9, <2>10, <2>11 DEF RunsInv
<1>3. CASE LoadNothing(a)
  <2> DEFINE new == [actor[a] EXCEPT !.step = "reconcile"]
  <2>1. new \in ActorState /\ new.step = "reconcile" /\ new.todo = actor[a].todo
    BY <1>1 DEF ActorState, ActorSteps
  <2>2. QuietStep(a, new)
    BY <1>3, <2>1 DEF LoadNothing, Goto, QuietStep, Holding
  <2>3. QED
    BY <2>1, <2>2, QuietKeeps
<1>4. ASSUME NEW s \in actor[a].todo, Judge(a, s) PROVE RunsInv'
  <2>1. s \in Loaded /\ actor[a].step = "reconcile"
    BY <1>1, <1>4 DEF ActorState, Judge, JudgeBy
  <2>2. CASE Becomes(a, [actor[a] EXCEPT !.todo = @ \ {s}])
    <3> DEFINE new == [actor[a] EXCEPT !.todo = @ \ {s}]
    <3>1. new \in ActorState /\ new.step = "reconcile" /\ new.todo \subseteq actor[a].todo
      BY <1>1, <2>1 DEF ActorState
    <3>2. QuietStep(a, new)
      BY <1>4, <2>2, <3>1 DEF Judge, JudgeBy, QuietStep, Holding
    <3>3. QED
      BY <3>1, <3>2, QuietKeeps
  <2>3. ASSUME NEW v \in Verdicts,
               Becomes(a, [actor[a] EXCEPT !.todo = @ \ {s}, !.step = "write",
                             !.back = "reconcile", !.run = s.run, !.fate = v]),
               v = "cancelled" => s.stop,
               v # "cancelled" => ~s.fresh /\ ~dir[s.run].beat
        PROVE  RunsInv'
    <3> DEFINE new == [actor[a] EXCEPT !.todo = @ \ {s}, !.step = "write",
                         !.back = "reconcile", !.run = s.run, !.fate = v]
    <3>1. /\ new.step = "write" /\ new.run = s.run /\ new.fate = v
          /\ new.todo \subseteq actor[a].todo /\ s.run \in Runs
      BY <1>1, <2>1 DEF ActorState, Loaded
    <3>2. \A b \in Actors : actor'[b] = IF b = a THEN new ELSE actor[b]
      BY <2>3 DEF IInv, TypeOK, Becomes
    <3>3. UNCHANGED <<run, dir, proc, asked>>
      BY <1>4 DEF Judge, JudgeBy
    <3> HIDE DEF new
    <3>4. \A r \in Runs : /\ Spawners(r)' \subseteq Spawners(r)
                          /\ r # s.run => Writers(r)' \subseteq Writers(r)
      BY <3>1, <3>2 DEF Spawners, Writers
    <3>5. Held'
      BY <3>1, <3>2, <3>3 DEF IInv, RunsInv, Held
    <3>6. Unallocated'
      BY <3>1, <3>2, <3>3 DEF IInv, RunsInv, Unallocated
    <3>7. SpawnedOnce'
      BY <3>3, <3>4 DEF IInv, RunsInv, SpawnedOnce
    <3>8. StopsAsked'
      BY <2>3, <3>1, <3>2, <3>3 DEF IInv, RunsInv, StopsAsked
    <3>9. s.run \notin asked =>
            proc[s.run].step \notin Busy /\ Spawners(s.run) = {}
      BY <2>3, <3>1 DEF IInv, RunsInv, Undisturbed, StopsAsked, Busy
    <3>10. Undisturbed'
      <4>1. ASSUME NEW r \in Runs \ asked
            PROVE  /\ proc[r].step \in Busy \/ Spawners(r) # {} => Writers(r)' = {}
                   /\ proc[r].step = "booting" \/ Spawners(r) # {} =>
                        \A b \in Actors : \A q \in actor'[b].todo : q.run = r => q.fresh
        BY <3>1, <3>2, <3>4, <3>9 DEF IInv, RunsInv, Undisturbed
      <4>2. QED
        BY <3>3, <3>4, <4>1 DEF IInv, RunsInv, Undisturbed
    <3>11. OneSchedulerRow'
      BY <3>1, <3>2, <3>3 DEF IInv, RunsInv, OneSchedulerRow, SchedulerRows, Running, Actors
    <3>12. QED
      BY <3>5, <3>6, <3>7, <3>8, <3>10, <3>11 DEF RunsInv
  <2>4. QED
    BY <1>4, <2>2, <2>3 DEF Judge, JudgeBy, Verdicts
<1>5. QED
  BY <1>2, <1>3, <1>4 DEF Reconcile

\* Storing a verdict, losing it or failing to: by the time a writer has a run
\* nobody asked to stop, its worker is gone.
LEMMA InvFinalize ==
  ASSUME IInv, NEW a \in Actors, Finalize(a)
  PROVE  RunsInv'
<1>1. actor[a] \in ActorState /\ actor[a].step = "write"
  BY DEF IInv, TypeOK, Finalize, WriteStored, WriteLost, WriteRaises
<1>2. PICK new \in ActorState :
        /\ Becomes(a, new)
        /\ new.step \in {"idle", "reconcile", "mounts", "due"}
        /\ new.todo \subseteq actor[a].todo
  <2>1. [Returned(actor[a]) EXCEPT !.todo = {}] \in ActorState
    BY <1>1, ReturnedType DEF ActorState
  <2>2. Resting.step = "idle" /\ Resting.todo = {}
    BY DEF Resting
  <2>3. QED
    BY <2>1, <2>2, RestingType, ReturnedQuiet
       DEF IInv, Finalize, WriteStored, WriteLost, WriteRaises, Aborted, ActorState
<1>3. \A b \in Actors : actor'[b] = IF b = a THEN new ELSE actor[b]
  BY <1>2 DEF IInv, TypeOK, Becomes
<1>4. CASE WriteRaises(a)
  <2>1. QuietStep(a, new)
    BY <1>2, <1>4 DEF WriteRaises, QuietStep, Holding
  <2>2. QED
    BY <2>1, QuietKeeps
<1>5. CASE WriteStored(a) \/ WriteLost(a)
  <2> DEFINE r == actor[a].run
  <2>1. r \in Runs /\ run[r].status # "free" /\ run[r] \in RunRow
    BY <1>1 DEF IInv, TypeOK, RunsInv, Held, Unallocated
  <2>2. /\ UNCHANGED <<proc, asked>>
        /\ \A q \in Runs : dir'[q] = IF q = r THEN NoFiles ELSE dir[q]
    BY <1>5, <2>1 DEF WriteStored, WriteLost, IInv, TypeOK
  <2>3. /\ \A q \in Runs \ {r} : run'[q] = run[q]
        /\ \/ run'[r] = run[r]
           \/ /\ run'[r] = Settled(run[r], actor[a].fate)
              /\ run[r].status # "deleted"
    BY <1>5, <2>1 DEF WriteStored, WriteLost, IInv, TypeOK
  <2>4. /\ run'[r].status \in {run[r].status, actor[a].fate}
        /\ run'[r].job = run[r].job /\ run'[r].stop = run[r].stop
        /\ run'[r].runner = run[r].runner
    BY <2>1, <2>3 DEF Settled, RunRow
  <2>5. actor[a].fate \in Verdicts /\ NoFiles.stop = FALSE
    BY <1>1 DEF ActorState, NoFiles
  <2> HIDE DEF r
  <2>6. \A q \in Runs : Spawners(q)' \subseteq Spawners(q) /\ Writers(q)' \subseteq Writers(q)
    BY <1>2, <1>3 DEF Spawners, Writers
  <2>7. Held'
    BY <1>2, <1>3, <2>1, <2>3, <2>4, <2>5 DEF IInv, RunsInv, Held, Verdicts
  <2>8. Unallocated'
    BY <1>2, <1>3, <2>1, <2>2, <2>3, <2>4, <2>5 DEF IInv, RunsInv, Unallocated, Verdicts
  <2>9. SpawnedOnce'
    BY <2>2, <2>6 DEF IInv, RunsInv, SpawnedOnce
  <2>10. StopsAsked'
    <3>1. actor[a].fate = "cancelled" => r \in asked
      BY <1>1 DEF IInv, RunsInv, StopsAsked, r
    <3>2. QED
      BY <1>2, <1>3, <2>1, <2>2, <2>3, <2>4, <2>5, <3>1 DEF IInv, RunsInv, StopsAsked
  <2>11. Undisturbed'
    <3>1. r \notin asked => proc[r].step \notin Busy /\ Spawners(r) = {}
      BY <1>1, <2>1 DEF IInv, RunsInv, Undisturbed, Writers, r
    <3>2. QED
      BY <1>2, <1>3, <2>2, <2>3, <2>6, <3>1 DEF IInv, RunsInv, Undisturbed, Busy
  <2>12. OneSchedulerRow'
    <3>1. \A j : SchedulerRows(j)' \subseteq SchedulerRows(j)
      BY <2>1, <2>3, <2>4, <2>5 DEF SchedulerRows, Running, Verdicts
    <3>2. QED
      BY <1>2, <1>3, <3>1 DEF IInv, RunsInv, OneSchedulerRow, Actors
  <2>13. QED
    BY <2>7, <2>8, <2>9, <2>10, <2>11, <2>12 DEF RunsInv
<1>6. QED
  BY <1>4, <1>5 DEF Finalize

\* create_running_backup_run: the new row is a fresh one.
LEMMA InvCreate ==
  ASSUME IInv, NEW a \in Actors, Create(a)
  PROVE  RunsInv'
<1> DEFINE new == [actor[a] EXCEPT !.step = "spawn", !.run = NewRun]
           row == [status |-> "running", job |-> actor[a].job, runner |-> Box(a),
                   pid |-> FALSE, stop |-> FALSE, fresh |-> TRUE]
<1>1. actor[a] \in ActorState /\ actor[a].step = "create" /\ actor[a].job \in Jobs
  BY DEF IInv, TypeOK, RunsInv, Held, Create
<1>2. PICK n \in Runs : n = NewRun /\ run[n].status = "free"
  BY NewRunIsFree DEF Create
<1>3. new.step = "spawn" /\ new.run = n /\ new.todo = actor[a].todo
  BY <1>1, <1>2 DEF ActorState
<1>4. \A b \in Actors : actor'[b] = IF b = a THEN new ELSE actor[b]
  BY DEF Create, IInv, TypeOK, Becomes
<1>5. \A r \in Runs : run'[r] = IF r = n THEN row ELSE run[r]
  BY <1>2 DEF Create, IInv, TypeOK
<1>6. UNCHANGED <<dir, proc, asked>>
  BY DEF Create
<1>7. /\ row.status = "running" /\ row.job = actor[a].job /\ row.fresh /\ ~row.stop
      /\ row.runner = "scheduler" => a = Scheduler
  BY DEF Box
<1> HIDE DEF new, row
<1>8. /\ Spawners(n) = {} /\ Writers(n) = {} /\ n \notin asked /\ proc[n].step = "none"
      /\ \A b \in Actors : \A s \in actor[b].todo : s.run # n
  BY <1>2 DEF IInv, RunsInv, Unallocated, Spawners, Writers
<1>9. /\ Spawners(n)' \subseteq {a}
      /\ \A r \in Runs \ {n} : Spawners(r)' \subseteq Spawners(r)
      /\ \A r \in Runs : Writers(r)' \subseteq Writers(r)
  <2>1. \A b \in Spawners(n)' : b \in Spawners(n) \/ b = a
    BY <1>4 DEF Spawners
  <2>2. \A r \in Runs \ {n} : Spawners(r)' \subseteq Spawners(r)
    BY <1>3, <1>4 DEF Spawners
  <2>3. \A r \in Runs : Writers(r)' \subseteq Writers(r)
    BY <1>3, <1>4 DEF Writers
  <2>4. QED
    BY <1>8, <2>1, <2>2, <2>3
<1>10. Held'
  BY <1>1, <1>2, <1>3, <1>4, <1>5, <1>7, NoneAssumption DEF IInv, RunsInv, Held
<1>11. Unallocated'
  BY <1>3, <1>4, <1>5, <1>6, <1>7 DEF IInv, RunsInv, Unallocated
<1>12. SpawnedOnce'
  <2>1. ASSUME NEW r \in Runs, NEW b \in Spawners(r)', NEW c \in Spawners(r)'
        PROVE  proc[r].step = "none" /\ b = c
    <3>1. CASE r = n
      BY <1>8, <1>9, <2>1, <3>1
    <3>2. CASE r # n
      BY <1>9, <2>1, <3>2 DEF IInv, RunsInv, SpawnedOnce
    <3>3. QED
      BY <3>1, <3>2
  <2>2. QED
    BY <1>6, <2>1 DEF SpawnedOnce
<1>13. StopsAsked'
  BY <1>3, <1>4, <1>5, <1>6, <1>7 DEF IInv, RunsInv, StopsAsked
<1>14. Undisturbed'
  <2>1. ASSUME NEW r \in Runs \ asked, r # n
        PROVE  /\ run'[r] = run[r]
               /\ Spawners(r)' \subseteq Spawners(r) /\ Writers(r)' \subseteq Writers(r)
    BY <1>5, <1>9, <2>1
  <2>2. \A b \in Actors : actor'[b].todo = actor[b].todo
    BY <1>3, <1>4
  <2>3. run'[n].status = "running" /\ run'[n].fresh
    BY <1>2, <1>5, <1>7
  <2>4. QED
    BY <1>6, <1>8, <1>9, <2>1, <2>2, <2>3 DEF IInv, RunsInv, Undisturbed, Busy
<1>15. OneSchedulerRow'
  <2>1. \A r \in Runs : run'[r].status = "running" /\ run'[r].runner = "scheduler" =>
          IF r = n THEN a = Scheduler /\ run'[r].job = actor[a].job
                   ELSE run'[r] = run[r] /\ run[r].job \in Jobs
    <3>1. \A r \in Runs : run[r].status = "running" => run[r].job \in Jobs
      BY DEF IInv, TypeOK, RunRow, RunsInv, Held
    <3>2. QED
      BY <1>5, <1>7, <3>1
  <2>2. a = Scheduler => \A r \in Runs :
          ~ (run[r].status = "running" /\ run[r].runner = "scheduler"
             /\ run[r].job = actor[a].job)
    BY <1>1 DEF IInv, RunsInv, OneSchedulerRow, SchedulerRows, Running
  <2>3. ASSUME NEW q \in Runs, NEW r \in Runs, run'[q].job = run'[r].job,
               run'[q].status = "running", run'[q].runner = "scheduler",
               run'[r].status = "running", run'[r].runner = "scheduler"
        PROVE  q = r
    <3>1. q # n /\ r # n => q = r
      BY <2>1, <2>3 DEF IInv, RunsInv, OneSchedulerRow, SchedulerRows, Running
    <3>2. QED
      BY <2>1, <2>2, <2>3, <3>1
  <2>4. actor'[Scheduler].step = "create" =>
          a # Scheduler /\ actor'[Scheduler] = actor[Scheduler]
    BY <1>3, <1>4 DEF Actors
  <2>5. ASSUME actor'[Scheduler].step = "create", NEW r \in Runs,
               run'[r].status = "running", run'[r].runner = "scheduler",
               run'[r].job = actor'[Scheduler].job
        PROVE  FALSE
    BY <2>1, <2>4, <2>5 DEF IInv, RunsInv, OneSchedulerRow, SchedulerRows, Running
  <2>6. QED
    BY <2>3, <2>5 DEF OneSchedulerRow, SchedulerRows, Running
<1>16. QED
  BY <1>10, <1>11, <1>12, <1>13, <1>14, <1>15 DEF RunsInv

\* Popen, or its failure.
LEMMA InvSpawn ==
  ASSUME IInv, NEW a \in Actors, Spawn(a) \/ SpawnRaises(a)
  PROVE  RunsInv'
<1>1. actor[a] \in ActorState /\ actor[a].step = "spawn"
  BY DEF IInv, TypeOK, Spawn, SpawnRaises
<1>2. PICK r \in Runs :
        /\ r = actor[a].run /\ a \in Spawners(r) /\ proc[r].step = "none"
        /\ \A b \in Spawners(r) : b = a
  BY <1>1 DEF IInv, RunsInv, Held, SpawnedOnce, Spawners
<1>3. UNCHANGED <<run, dir, asked>>
  BY DEF Spawn, SpawnRaises
<1>4. PICK new \in ActorState :
        /\ Becomes(a, new) /\ new.todo \subseteq actor[a].todo
        /\ \/ Spawn(a) /\ new.step \in {"idle", "reconcile", "mounts", "due"}
           \/ SpawnRaises(a) /\ new.step = "write" /\ new.run = r /\ new.fate = "failed"
  <2>1. LET s == [actor[a] EXCEPT !.step = "write", !.fate = "failed"] IN
        /\ s \in ActorState /\ s.todo = actor[a].todo
        /\ s.step = "write" /\ s.run = r /\ s.fate = "failed"
    BY <1>1, <1>2 DEF ActorState, ActorSteps, Verdicts
  <2>2. QED
    BY <2>1, ReturnedQuiet DEF IInv, Spawn, SpawnRaises
<1>5. \A b \in Actors : actor'[b] = IF b = a THEN new ELSE actor[b]
  BY <1>4 DEF IInv, TypeOK, Becomes
<1>6. /\ \A q \in Runs \ {r} : proc'[q] = proc[q]
      /\ proc'[r].verdict = proc[r].verdict
      /\ Spawn(a) => proc'[r].step = "booting"
      /\ SpawnRaises(a) => proc'[r].step = "none"
  <2>1. proc[r] \in WorkerProc
    BY <1>2 DEF IInv, TypeOK
  <2>2. CASE Spawn(a)
    BY <1>2, <2>1, <2>2 DEF Spawn, SpawnRaises, IInv, TypeOK, WorkerProc
  <2>3. CASE SpawnRaises(a) /\ ~Spawn(a)
    BY <1>2, <2>1, <2>3 DEF SpawnRaises
  <2>4. QED
    BY <2>2, <2>3
<1>7. /\ Spawners(r)' = {}
      /\ \A q \in Runs \ {r} : /\ Spawners(q)' \subseteq Spawners(q)
                               /\ Writers(q)' \subseteq Writers(q)
      /\ Spawn(a) => Writers(r)' \subseteq Writers(r)
  <2>1. \A q \in Runs : Spawners(q)' \subseteq Spawners(q) \ {a}
    BY <1>4, <1>5 DEF Spawners
  <2>2. \A q \in Runs \ {r} : Writers(q)' \subseteq Writers(q)
    BY <1>4, <1>5 DEF Writers
  <2>3. Spawn(a) => new.step # "write"
    BY <1>2, <1>4, <1>6
  <2>4. Spawn(a) => Writers(r)' \subseteq Writers(r)
    BY <1>5, <2>3 DEF Writers
  <2>5. QED
    BY <1>2, <2>1, <2>2, <2>4
<1>8. Held'
  BY <1>2, <1>3, <1>4, <1>5 DEF IInv, RunsInv, Held
<1>9. run[r].status # "free"
  BY <1>2 DEF IInv, RunsInv, Unallocated, Spawners
<1>10. Unallocated'
  BY <1>3, <1>4, <1>5, <1>6, <1>9 DEF IInv, RunsInv, Unallocated
<1>11. SpawnedOnce'
  <2>1. \A q \in Runs \ {r} : proc'[q] = proc[q] /\ Spawners(q)' \subseteq Spawners(q)
    BY <1>6, <1>7
  <2>2. QED
    BY <1>7, <2>1 DEF IInv, RunsInv, SpawnedOnce
<1>12. StopsAsked'
  BY <1>3, <1>4, <1>5, <1>6 DEF IInv, RunsInv, StopsAsked
<1>13. Undisturbed'
  <2>1. \A b \in Actors : actor'[b].todo \subseteq actor[b].todo
    BY <1>4, <1>5
  <2>2. r \notin asked => /\ run[r].status \in {"running", "deleted"} /\ run[r].fresh
                          /\ Writers(r) = {}
                          /\ \A b \in Actors : \A s \in actor[b].todo : s.run = r => s.fresh
    BY <1>2 DEF IInv, RunsInv, Undisturbed
  <2>3. ASSUME NEW q \in Runs \ asked, q # r
        PROVE  /\ proc'[q] = proc[q]
               /\ Spawners(q)' \subseteq Spawners(q) /\ Writers(q)' \subseteq Writers(q)
    BY <1>6, <1>7, <2>3
  <2>4. Spawn(a) => Writers(r)' \subseteq Writers(r) /\ proc'[r].step = "booting"
    BY <1>6, <1>7
  <2>5. SpawnRaises(a) => proc'[r].step \notin Busy
    BY <1>6 DEF Busy
  <2>6. QED
    BY <1>3, <1>7, <2>1, <2>2, <2>3, <2>4, <2>5 DEF IInv, RunsInv, Undisturbed, Busy
<1>14. OneSchedulerRow'
  BY <1>3, <1>4, <1>5 DEF IInv, RunsInv, OneSchedulerRow, SchedulerRows, Running, Actors
<1>15. QED
  BY <1>8, <1>10, <1>11, <1>12, <1>13, <1>14 DEF RunsInv

\* Launching a run.
LEMMA InvLaunch ==
  ASSUME IInv, NEW a \in Actors, Launch(a)
  PROVE  RunsInv'
<1>1. CASE CreateRaises(a)
  <2>1. QuietStep(a, Returned(actor[a])) /\ Returned(actor[a]) \in ActorState
    BY <1>1, ReturnedQuiet DEF CreateRaises, QuietStep, Holding, IInv
  <2>2. QED
    BY <2>1, QuietKeeps
<1>2. QED
  BY <1>1, InvCreate, InvSpawn DEF Launch

\* A job is deleted with its rows; nothing is running because of it.
LEMMA InvDeleteJob ==
  ASSUME IInv, NEW t \in Web, NEW j \in Jobs, DeleteJob(t, j)
  PROVE  RunsInv'
<1>1. /\ t \in Actors
      /\ Resting.step = "idle" /\ Resting.todo = {}
  BY DEF Actors, Resting
<1>2. \A b \in Actors : actor'[b] = IF b = t THEN Resting ELSE actor[b]
  BY DEF DeleteJob, IInv, TypeOK, Becomes
<1>3. UNCHANGED <<dir, proc, asked>>
  BY DEF DeleteJob
<1>4. \A r \in Runs :
        /\ run'[r].job = run[r].job /\ run'[r].stop = run[r].stop
        /\ run'[r].fresh = run[r].fresh /\ run'[r].runner = run[r].runner
        /\ run'[r].status = IF run[r].job = j THEN "deleted" ELSE run[r].status
  <2>1. \A r \in Runs : run[r] \in RunRow
    BY DEF IInv, TypeOK
  <2>2. QED
    BY <2>1 DEF DeleteJob, RunRow
<1>5. \A r \in Runs : Spawners(r)' \subseteq Spawners(r) /\ Writers(r)' \subseteq Writers(r)
  BY <1>1, <1>2 DEF Spawners, Writers
<1>6. Held'
  BY <1>1, <1>2, <1>4, NoneAssumption DEF IInv, RunsInv, Held
<1>7. Unallocated'
  BY <1>1, <1>2, <1>3, <1>4 DEF IInv, RunsInv, Unallocated
<1>8. SpawnedOnce'
  BY <1>3, <1>5 DEF IInv, RunsInv, SpawnedOnce
<1>9. StopsAsked'
  BY <1>1, <1>2, <1>3, <1>4 DEF IInv, RunsInv, StopsAsked
<1>10. Undisturbed'
  BY <1>1, <1>2, <1>3, <1>4, <1>5 DEF IInv, RunsInv, Undisturbed
<1>11. OneSchedulerRow'
  BY <1>1, <1>2, <1>4 DEF IInv, RunsInv, OneSchedulerRow, SchedulerRows, Running, Actors
<1>12. QED
  BY <1>6, <1>7, <1>8, <1>9, <1>10, <1>11 DEF RunsInv

\* A stop request: from here on the run is asked to stop.
LEMMA InvStop ==
  ASSUME IInv, NEW t \in Web,
         (\E r \in Runs : AskStop(t, r)) \/ SaveStop(t) \/ RaiseFlag(t)
  PROVE  RunsInv'
<1>1. t \in Actors /\ t # Scheduler /\ actor[t] \in ActorState
  BY SchedulerAssumption DEF Actors, IInv, TypeOK
<1>2. PICK r \in Runs, new \in ActorState :
        /\ Becomes(t, new) /\ new.todo \subseteq actor[t].todo
        /\ new.step \in {"idle", "ask", "flag", "write"}
        /\ new.step # "idle" => new.run = r
        /\ r \in asked' /\ run[r].status # "free"
        /\ asked \subseteq asked' /\ asked' \subseteq asked \cup {r}
        /\ \A q \in Runs \ {r} : run'[q] = run[q] /\ dir'[q] = dir[q]
        /\ \/ run'[r] = run[r]
           \/ run'[r] = [run[r] EXCEPT !.stop = TRUE]
  <2>1. Resting \in ActorState /\ Resting.step = "idle" /\ Resting.todo = {}
    BY RestingType DEF Resting
  <2>2. ASSUME NEW r \in Runs, AskStop(t, r)
        PROVE  LET s == [actor[t] EXCEPT !.step = "ask", !.run = r, !.pid = run[r].pid] IN
               /\ Becomes(t, s) /\ s \in ActorState /\ s.todo = actor[t].todo
               /\ s.step = "ask" /\ s.run = r
    <3>1. run[r].pid \in BOOLEAN
      BY DEF IInv, TypeOK, RunRow
    <3>2. QED
      BY <1>1, <2>2, <3>1 DEF AskStop, ActorState, ActorSteps
  <2>3. ASSUME NEW r \in Runs, AskStop(t, r)
        PROVE  /\ run[r].status # "free" /\ asked' = asked \cup {r}
               /\ UNCHANGED <<run, dir>>
    BY <2>3 DEF AskStop
  <2>4. ASSUME actor[t].step \in {"ask", "flag"}
        PROVE  /\ actor[t].run \in Runs /\ actor[t].run \in asked
               /\ run[actor[t].run].status # "free"
    BY <1>1, <2>4 DEF IInv, RunsInv, Held, StopsAsked, Unallocated
  <2>5. CASE SaveStop(t)
    <3>1. LET s == [actor[t] EXCEPT !.step = "flag"] IN
          /\ s \in ActorState /\ s.todo = actor[t].todo
          /\ s.step = "flag" /\ s.run = actor[t].run
      BY <1>1 DEF ActorState, ActorSteps
    <3>2. /\ actor[t].step = "ask" /\ UNCHANGED <<dir, asked>>
          /\ run' = run \/ run' = [run EXCEPT ![actor[t].run].stop = TRUE]
          /\ \/ Becomes(t, [actor[t] EXCEPT !.step = "flag"])
             \/ Becomes(t, Resting)
      BY <2>5 DEF SaveStop, Goto
    <3>3. \A q \in Runs \ {actor[t].run} : run'[q] = run[q] /\ dir'[q] = dir[q]
      BY <3>2 DEF IInv, TypeOK
    <3>4. \/ run'[actor[t].run] = run[actor[t].run]
          \/ run'[actor[t].run] = [run[actor[t].run] EXCEPT !.stop = TRUE]
      BY <2>4, <3>2 DEF IInv, TypeOK
    <3>5. QED
      BY <2>1, <2>4, <3>1, <3>2, <3>3, <3>4
  <2>6. CASE RaiseFlag(t)
    <3>1. LET s == [actor[t] EXCEPT !.step = "write", !.fate = "cancelled"] IN
          /\ s \in ActorState /\ s.todo = actor[t].todo
          /\ s.step = "write" /\ s.run = actor[t].run
      BY <1>1 DEF ActorState, ActorSteps, Verdicts
    <3>2. /\ actor[t].step = "flag" /\ UNCHANGED <<run, asked>>
          /\ dir' = [dir EXCEPT ![actor[t].run].stop = TRUE]
          /\ \/ Becomes(t, [actor[t] EXCEPT !.step = "write", !.fate = "cancelled"])
             \/ Becomes(t, Resting)
      BY <2>6 DEF RaiseFlag, RaiseFlagAs
    <3>3. \A q \in Runs \ {actor[t].run} : run'[q] = run[q] /\ dir'[q] = dir[q]
      BY <3>2 DEF IInv, TypeOK
    <3>4. QED
      BY <2>1, <2>4, <3>1, <3>2, <3>3
  <2>7. QED
    BY <2>2, <2>3, <2>5, <2>6
<1>3. \A b \in Actors : actor'[b] = IF b = t THEN new ELSE actor[b]
  BY <1>2 DEF IInv, TypeOK, Becomes
<1>4. UNCHANGED proc
  BY DEF AskStop, SaveStop, RaiseFlag, RaiseFlagAs
<1>5. \A q \in Runs : /\ run'[q].status = run[q].status /\ run'[q].job = run[q].job
                      /\ run'[q].runner = run[q].runner /\ run'[q].fresh = run[q].fresh
  <2>1. run[r] \in RunRow
    BY <1>2 DEF IInv, TypeOK
  <2>2. QED
    BY <1>2, <2>1 DEF RunRow
<1>6. \A q \in Runs \ {r} : Writers(q)' \subseteq Writers(q)
  BY <1>2, <1>3 DEF Writers
<1>7. \A q \in Runs : Spawners(q)' \subseteq Spawners(q)
  BY <1>2, <1>3 DEF Spawners
<1>8. Held'
  BY <1>2, <1>3, <1>5 DEF IInv, RunsInv, Held
<1>9. Unallocated'
  BY <1>2, <1>3, <1>4, <1>5 DEF IInv, RunsInv, Unallocated
<1>10. SpawnedOnce'
  BY <1>4, <1>7 DEF IInv, RunsInv, SpawnedOnce
<1>11. StopsAsked'
  <2>1. \A q \in Runs : run'[q].stop \/ dir'[q].stop \/ proc'[q].verdict = "cancelled"
                          \/ run'[q].status = "cancelled"
                        => q \in asked'
    BY <1>2, <1>4, <1>5 DEF IInv, RunsInv, StopsAsked
  <2>2. QED
    BY <1>2, <1>3, <2>1 DEF IInv, RunsInv, StopsAsked
<1>12. Undisturbed'
  <2>1. \A q \in Runs \ asked' : q # r /\ q \notin asked
    BY <1>2
  <2>2. \A b \in Actors : actor'[b].todo \subseteq actor[b].todo
    BY <1>2, <1>3
  <2>3. QED
    BY <1>2, <1>4, <1>5, <1>6, <1>7, <2>1, <2>2 DEF IInv, RunsInv, Undisturbed
<1>13. OneSchedulerRow'
  BY <1>1, <1>3, <1>5 DEF IInv, RunsInv, OneSchedulerRow, SchedulerRows, Running, Actors
<1>14. QED
  BY <1>8, <1>9, <1>10, <1>11, <1>12, <1>13 DEF RunsInv

\* The requests of the backups page.
LEMMA InvRequest ==
  ASSUME IInv, NEW t \in Web, Request(t)
  PROVE  RunsInv'
<1>1. t \in Actors /\ t # Scheduler /\ actor[t] \in ActorState
  BY SchedulerAssumption DEF Actors, IInv, TypeOK
<1>2. ASSUME NEW s \in ActorState, Becomes(t, s), UNCHANGED <<run, dir, proc, asked>>,
             s.step \in {"idle", "create", "save"}, s.todo \subseteq actor[t].todo,
             s.step # "idle" => s.job \in Jobs
      PROVE  RunsInv'
  <2>1. QuietStep(t, s)
    BY <1>1, <1>2 DEF QuietStep, Holding
  <2>2. QED
    BY <1>1, <2>1, QuietKeeps
<1>3. Resting \in ActorState /\ Resting.step = "idle" /\ Resting.todo = {}
  BY RestingType DEF Resting
<1>4. ASSUME NEW j \in Jobs,
             \/ RunNow(t, j)
             \/ \E r \in Runs : Rerun(t, r) /\ run[r].job = j
      PROVE  RunsInv'
  <2>1. LET s == Launching(t, j, "idle") IN
        s \in ActorState /\ s.step = "create" /\ s.todo = actor[t].todo /\ s.job = j
    BY <1>1 DEF Launching, ActorState, ActorSteps
  <2>2. QED
    BY <1>2, <1>4, <2>1 DEF RunNow, Rerun
<1>5. ASSUME NEW j \in Jobs, ToggleJob(t, j) \/ EditJob(t, j) PROVE RunsInv'
  <2>1. job[j] \in JobRow
    BY DEF IInv, TypeOK
  <2>2. PICK form \in JobFields : Editing(t, j, form)
    <3>1. [Fields(job[j]) EXCEPT !.enabled = ~@] \in JobFields
      BY <2>1 DEF JobRow, JobFields, Fields
    <3>2. \A e, m \in BOOLEAN :
            [enabled |-> e, manual |-> m, next |-> job[j].next] \in JobFields
      BY <2>1 DEF JobRow, JobFields
    <3>3. QED
      BY <1>5, <3>1, <3>2 DEF ToggleJob, EditJob
  <2>3. LET s == [actor[t] EXCEPT !.step = "save", !.job = j, !.form = form] IN
        s \in ActorState /\ s.step = "save" /\ s.todo = actor[t].todo /\ s.job = j
    BY <1>1 DEF ActorState, ActorSteps
  <2>4. QED
    BY <1>2, <1>5, <2>2, <2>3 DEF Editing, ToggleJob, EditJob
<1>6. ASSUME NEW j \in Jobs, CreateJob(t, j) PROVE RunsInv'
  BY <1>2, <1>3, <1>6 DEF CreateJob
<1>7. CASE SaveForm(t) \/ EndRequest(t)
  BY <1>2, <1>3, <1>7 DEF SaveForm, EndRequest
<1>8. ASSUME NEW r \in Runs, Rerun(t, r) PROVE run[r].job \in Jobs
  BY <1>8 DEF Rerun, IInv, RunsInv, Held, TypeOK, RunRow
<1>9. QED
  BY <1>4, <1>5, <1>6, <1>7, <1>8, InvDeleteJob, InvStop DEF Request

\* What a worker's step, or one that only ages or ends what there is, may do
\* to a run.
OrderlyStep(r) ==
  /\ run'[r].job = run[r].job /\ run'[r].runner = run[r].runner
  /\ run'[r].stop => run[r].stop
  /\ dir'[r].stop => dir[r].stop
  /\ proc'[r].verdict = "cancelled" => proc[r].verdict = "cancelled" \/ r \in asked
  /\ \/ run'[r].status = run[r].status
     \/ /\ run'[r].status \in Verdicts /\ run[r].status # "free"
        /\ run'[r].status = "cancelled" => r \in asked
  /\ proc[r].step = "none" <=> proc'[r].step = "none"
  /\ r \notin asked =>
       /\ proc'[r].step \in Busy =>
            proc[r].step \in Busy /\ run'[r].status = run[r].status
       /\ Spawners(r) # {} =>
            (run[r].fresh => run'[r].fresh) /\ run'[r].status = run[r].status
       /\ proc'[r].step = "booting" =>
            proc[r].step = "booting" /\ (run[r].fresh => run'[r].fresh)
       /\ proc'[r].step = "busy" =>
            dir'[r].beat \/ (proc[r].step = "busy" /\ (dir[r].beat => dir'[r].beat))

\* Orderly steps of the runs keep it too.
LEMMA OrderlySteps ==
  ASSUME IInv, UNCHANGED <<actor, asked>>, \A r \in Runs : OrderlyStep(r)
  PROVE  RunsInv'
<1>1. \A r \in Runs : Spawners(r)' = Spawners(r) /\ Writers(r)' = Writers(r)
  BY DEF Spawners, Writers
<1>2. Held'
  BY DEF OrderlyStep, IInv, RunsInv, Held, Verdicts
<1>3. Unallocated'
  BY DEF OrderlyStep, IInv, RunsInv, Unallocated, Verdicts
<1>4. SpawnedOnce'
  BY <1>1 DEF OrderlyStep, IInv, RunsInv, SpawnedOnce
<1>5. StopsAsked'
  BY DEF OrderlyStep, IInv, RunsInv, StopsAsked
<1>6. Undisturbed'
  <2>1. \A r \in Runs \ asked : Spawners(r) # {} => proc[r].step = "none"
    BY DEF IInv, RunsInv, SpawnedOnce
  <2>2. QED
    BY <1>1, <2>1 DEF OrderlyStep, IInv, RunsInv, Undisturbed, Busy
<1>7. OneSchedulerRow'
  BY DEF OrderlyStep, IInv, RunsInv, OneSchedulerRow, SchedulerRows, Running, Verdicts
<1>8. QED
  BY <1>2, <1>3, <1>4, <1>5, <1>6, <1>7 DEF RunsInv

\* A run nothing happens to takes an orderly step.
LEMMA OrderlyStutter ==
  ASSUME NEW r \in Runs, run'[r] = run[r], dir'[r] = dir[r], proc'[r] = proc[r]
  PROVE  OrderlyStep(r)
  BY DEF OrderlyStep, Busy

\* The worker: its boot finds the row of its run fresh, its verdict finds it
\* unsettled.
LEMMA InvWork ==
  ASSUME IInv, NEW r \in Runs, Work(r) \/ Crash(r)
  PROVE  RunsInv'
<1>1. proc[r] \in WorkerProc /\ run[r] \in RunRow /\ dir[r] \in RunFiles
  BY DEF IInv, TypeOK
<1>2. UNCHANGED <<actor, asked>>
  BY DEF Work, Crash, Boot, BootWith, BootRaises, Heartbeat, NoticeStop, FinishTransfer,
         StoreVerdict, Advance
<1>3. \A q \in Runs \ {r} : run'[q] = run[q] /\ dir'[q] = dir[q] /\ proc'[q] = proc[q]
  BY DEF IInv, TypeOK, Work, Crash, Boot, BootWith, BootRaises, Heartbeat, NoticeStop,
         FinishTransfer, StoreVerdict, Advance
<1>4. OrderlyStep(r) => RunsInv'
  BY <1>2, <1>3, OrderlySteps, OrderlyStutter
<1>5. proc[r].step # "none" => run[r].status # "free" /\ Spawners(r) = {}
  BY DEF IInv, RunsInv, Unallocated, SpawnedOnce
<1>6. Exited.step = "exited" /\ Exited.verdict = "success"
  BY DEF Exited
<1>7. CASE Boot(r)
  <2>1. /\ proc[r].step = "booting" /\ proc'[r].step = "busy"
        /\ proc'[r].verdict = proc[r].verdict
        /\ dir'[r].beat /\ (dir'[r].stop => dir[r].stop)
    BY <1>1, <1>7 DEF IInv, TypeOK, Boot, BootWith, WorkerProc, RunFiles
  <2>2. /\ run'[r].status = run[r].status /\ run'[r].job = run[r].job
        /\ run'[r].runner = run[r].runner /\ (run'[r].stop => run[r].stop)
    <3>1. \E b \in BOOLEAN :
            run'[r] = run[r] \/ run'[r] = [run[r] EXCEPT !.pid = TRUE, !.fresh = b]
      <4>1. (run[r].status = "running") \in BOOLEAN
        OBVIOUS
      <4>2. \/ run' = run
            \/ run' = [run EXCEPT ![r] = [run[r] EXCEPT !.pid = TRUE,
                                          !.fresh = run[r].status = "running"]]
        BY <1>7 DEF Boot, BootWith
      <4>3. PICK b \in BOOLEAN :
              \/ run' = run
              \/ run' = [run EXCEPT ![r] = [run[r] EXCEPT !.pid = TRUE, !.fresh = b]]
        BY <4>1, <4>2, Zenon
      <4>4. QED
        BY <4>3 DEF IInv, TypeOK
    <3>2. QED
      BY <1>1, <3>1 DEF RunRow
  <2>3. QED
    BY <1>4, <1>5, <2>1, <2>2 DEF OrderlyStep, Busy
<1>8. CASE BootRaises(r) \/ Advance(r) \/ Crash(r)
  <2>1. /\ proc'[r] = Exited /\ proc[r].step # "none"
        /\ run'[r] = run[r] /\ dir'[r] = dir[r]
    BY <1>8 DEF IInv, TypeOK, BootRaises, Advance, Crash, Live
  <2>2. QED
    BY <1>4, <1>5, <1>6, <2>1 DEF OrderlyStep, Busy
<1>9. CASE Heartbeat(r)
  <2>1. /\ dir'[r].beat /\ (dir'[r].stop => dir[r].stop)
        /\ run'[r] = run[r] /\ proc'[r] = proc[r]
    BY <1>1, <1>9 DEF IInv, TypeOK, Heartbeat, RunFiles
  <2>2. proc[r].step = "busy"
    BY <1>9 DEF Heartbeat
  <2>3. QED
    BY <1>4, <1>5, <2>1, <2>2 DEF OrderlyStep, Busy
<1>10. CASE NoticeStop(r) \/ FinishTransfer(r)
  <2>1. /\ proc'[r].step = "closing" /\ proc[r].step = "busy"
        /\ proc'[r].verdict = "cancelled" => dir[r].stop
        /\ run'[r] = run[r] /\ dir'[r] = dir[r]
    <3>1. \A v \in Verdicts :
            LET p == [proc[r] EXCEPT !.step = "closing", !.verdict = v] IN
            p.step = "closing" /\ p.verdict = v
      BY <1>1 DEF WorkerProc
    <3>2. PICK v \in Verdicts :
            /\ proc' = [proc EXCEPT ![r] = [@ EXCEPT !.step = "closing", !.verdict = v]]
            /\ v = "cancelled" => dir[r].stop
      BY <1>10 DEF NoticeStop, FinishTransfer, Verdicts
    <3>3. proc[r].step = "busy" /\ UNCHANGED <<run, dir>>
      BY <1>10 DEF NoticeStop, FinishTransfer
    <3>4. QED
      BY <3>1, <3>2, <3>3 DEF IInv, TypeOK
  <2>2. dir[r].stop => r \in asked
    BY DEF IInv, RunsInv, StopsAsked
  <2>3. QED
    BY <1>4, <1>5, <2>1, <2>2 DEF OrderlyStep, Busy
<1>11. CASE StoreVerdict(r)
  <2>1. /\ proc[r].step = "closing" /\ proc'[r].step \in {"advancing", "exited"}
        /\ proc'[r].verdict \in {proc[r].verdict, "success"}
    BY <1>1, <1>6, <1>11 DEF IInv, TypeOK, StoreVerdict, WorkerProc
  <2>2. dir'[r].stop => dir[r].stop
    BY <1>1, <1>11 DEF IInv, TypeOK, StoreVerdict, NoFiles
  <2>3. run'[r] = run[r] \/ run'[r] = Settled(run[r], proc[r].verdict)
    BY <1>11 DEF IInv, TypeOK, StoreVerdict
  <2>4. /\ run'[r].job = run[r].job /\ run'[r].runner = run[r].runner
        /\ (run'[r].stop => run[r].stop)
        /\ run'[r].status \in {run[r].status, proc[r].verdict}
    BY <1>1, <2>3 DEF Settled, RunRow
  <2>5. proc[r].verdict \in Verdicts /\ (proc[r].verdict = "cancelled" => r \in asked)
    BY <1>1 DEF WorkerProc, IInv, RunsInv, StopsAsked
  <2>6. QED
    BY <1>4, <1>5, <2>1, <2>2, <2>4, <2>5 DEF OrderlyStep, Busy
<1>12. QED
  BY <1>7, <1>8, <1>9, <1>10, <1>11 DEF Work

\* Time: a heartbeat ages only where no worker renews it.
LEMMA InvTime ==
  ASSUME IInv, Time
  PROVE  RunsInv'
<1>1. UNCHANGED <<proc, actor, asked>>
  BY DEF Time, ComesDue, AgeRow, AgeBeat
<1>2. ASSUME NEW j \in Jobs, ComesDue(j) PROVE RunsInv'
  BY <1>1, <1>2, OrderlySteps, OrderlyStutter DEF ComesDue
<1>3. ASSUME NEW r \in Runs, AgeRow(r) PROVE RunsInv'
  <2>1. /\ run'[r].status = run[r].status /\ run'[r].job = run[r].job
        /\ run'[r].runner = run[r].runner /\ (run'[r].stop => run[r].stop)
        /\ \A q \in Runs \ {r} : run'[q] = run[q]
    BY <1>3 DEF IInv, TypeOK, RunRow, AgeRow
  <2>2. proc[r].step # "booting" /\ Spawners(r) = {} /\ UNCHANGED dir
    BY <1>3 DEF AgeRow, Spawners
  <2>3. OrderlyStep(r)
    BY <1>1, <2>1, <2>2 DEF OrderlyStep, Busy
  <2>4. QED
    BY <1>1, <2>1, <2>2, <2>3, OrderlySteps, OrderlyStutter
<1>4. ASSUME NEW r \in Runs, AgeBeat(r) PROVE RunsInv'
  <2>1. /\ (dir'[r].stop => dir[r].stop) /\ UNCHANGED run
        /\ \A q \in Runs \ {r} : dir'[q] = dir[q]
    BY <1>4 DEF IInv, TypeOK, RunFiles, AgeBeat
  <2>2. proc[r].step # "busy"
    BY <1>4 DEF AgeBeat
  <2>3. OrderlyStep(r)
    BY <1>1, <2>1, <2>2 DEF OrderlyStep, Busy
  <2>4. QED
    BY <1>1, <2>1, <2>2, <2>3, OrderlySteps, OrderlyStutter
<1>5. QED
  BY <1>2, <1>3, <1>4 DEF Time

\* A restart: threads and workers of the container are gone, the rows are not.
LEMMA InvRestart ==
  ASSUME IInv, NEW box \in Boxes, RestartBox(box)
  PROVE  RunsInv'
<1>1. \A a \in Actors : actor'[a] = Resting \/ actor'[a] = actor[a]
  BY DEF RestartBox
<1>2. \A r \in Runs : \/ proc'[r] = proc[r]
                      \/ proc'[r] = Exited /\ proc[r].step # "none"
  BY DEF RestartBox, Live
<1>3. UNCHANGED <<run, dir, asked>>
  BY DEF RestartBox
<1>4. /\ Resting.step = "idle" /\ Resting.todo = {}
      /\ Exited.step = "exited" /\ Exited.verdict = "success"
  BY DEF Resting, Exited
<1>5. \A r \in Runs : Spawners(r)' \subseteq Spawners(r) /\ Writers(r)' \subseteq Writers(r)
  BY <1>1, <1>4 DEF Spawners, Writers
<1>6. Held'
  BY <1>1, <1>3, <1>4 DEF IInv, RunsInv, Held
<1>7. Unallocated'
  BY <1>1, <1>2, <1>3, <1>4 DEF IInv, RunsInv, Unallocated
<1>8. SpawnedOnce'
  BY <1>2, <1>5 DEF IInv, RunsInv, SpawnedOnce
<1>9. StopsAsked'
  BY <1>1, <1>2, <1>3, <1>4 DEF IInv, RunsInv, StopsAsked
<1>10. Undisturbed'
  BY <1>1, <1>2, <1>3, <1>4, <1>5 DEF IInv, RunsInv, Undisturbed, Busy
<1>11. OneSchedulerRow'
  BY <1>1, <1>3, <1>4 DEF IInv, RunsInv, OneSchedulerRow, SchedulerRows, Running, Actors
<1>12. QED
  BY <1>6, <1>7, <1>8, <1>9, <1>10, <1>11 DEF RunsInv

-----------------------------------------------------------------------------
(* The theorems *)

\* The first states satisfy the inductive invariant.
LEMMA InvInit == Init => IInv
<1> SUFFICES ASSUME Init PROVE IInv
  OBVIOUS
<1>1. \A a \in Actors : actor[a].step = "idle" /\ actor[a].todo = {}
  BY DEF Init, Resting
<1>2. \A r \in Runs :
        /\ run[r].status = "free" /\ run[r].job = NoJob /\ ~run[r].stop
        /\ ~dir[r].stop /\ proc[r].step = "none" /\ proc[r].verdict = "success"
        /\ Spawners(r) = {} /\ r \notin asked
  BY <1>1 DEF Init, NoFiles, Spawners
<1>3. Held /\ Unallocated /\ SpawnedOnce /\ StopsAsked
  BY <1>1, <1>2 DEF Held, Unallocated, SpawnedOnce, StopsAsked
<1>4. Undisturbed /\ OneSchedulerRow
  BY <1>1, <1>2 DEF Undisturbed, Busy, OneSchedulerRow, SchedulerRows, Running, Actors
<1>5. QED
  BY <1>3, <1>4, TypeInit DEF IInv, RunsInv

\* Every step keeps it.
LEMMA InvStep == IInv /\ [Next]_vars => IInv'
<1> SUFFICES ASSUME IInv, [Next]_vars PROVE IInv'
  OBVIOUS
<1>1. TypeOK'
  BY TypeStep DEF IInv, RunsInv
<1>2. RunsInv'
  <2>1. CASE UNCHANGED vars
    <3>1. UNCHANGED <<run, dir, proc, actor, asked>>
      BY <2>1 DEF vars
    <3>2. QED
      BY <3>1, OrderlySteps, OrderlyStutter
  <2>2. CASE Next
    BY <2>2, InvReconcile, InvFinalize, InvLaunch, InvRequest, InvDispatch, InvWork,
       InvTime, InvRestart
       DEF Next
  <2>3. QED
    BY <2>1, <2>2
<1>3. QED
  BY <1>1, <1>2 DEF IInv

\* The inductive invariant holds in every state.
THEOREM Invariance == Spec => []IInv
  BY InvInit, InvStep, PTL DEF Spec

\* Tables, files, processes and actors keep their types.
THEOREM TypeCorrect == Spec => []TypeOK
<1>1. IInv => TypeOK
  BY DEF IInv
<1>2. QED
  BY <1>1, Invariance, PTL

\* A worker that nobody asked to stop keeps its row: no reconcile, restart or
\* lost write takes a transferring run away from its worker.
THEOREM BusyStaysRunning == Spec => []BusyRunIsRunning
<1>1. IInv => BusyRunIsRunning
  BY DEF IInv, RunsInv, Undisturbed, BusyRunIsRunning
<1>2. QED
  BY <1>1, Invariance, PTL

\* The scheduler never has two workers of one job transferring.
THEOREM SchedulerSafe == Spec => []SchedulerNeverDoubles
<1>1. IInv => SchedulerNeverDoubles
  <2> SUFFICES ASSUME IInv, NEW q \in Runs, NEW r \in Runs,
                      run[q].runner = "scheduler", run[r].runner = "scheduler",
                      run[q].job = run[r].job,
                      proc[q].step \in Busy, proc[r].step \in Busy,
                      run[q].status # "deleted", run[r].status # "deleted",
                      q \notin asked, r \notin asked
               PROVE  q = r
    BY DEF SchedulerNeverDoubles
  <2>1. run[q].status = "running" /\ run[r].status = "running"
    BY DEF IInv, RunsInv, Undisturbed
  <2>2. run[q].job \in Jobs
    BY <2>1 DEF IInv, TypeOK, RunRow, RunsInv, Held
  <2>3. QED
    BY <2>1, <2>2 DEF IInv, RunsInv, OneSchedulerRow, SchedulerRows, Running
<1>2. QED
  BY <1>1, Invariance, PTL

\* Only a run that was asked to stop ends as cancelled.
THEOREM CancelledIsAsked == Spec => []CancelledWasAsked
<1>1. IInv => CancelledWasAsked
  BY DEF IInv, RunsInv, StopsAsked, CancelledWasAsked
<1>2. QED
  BY <1>1, Invariance, PTL

-----------------------------------------------------------------------------
(* The refinement: what each step does to the statuses, then to the ledger.  *)

Opened(n) == /\ run[n].status = "free" /\ run'[n].status = "running"
             /\ \A r \in Runs \ {n} : run'[r].status = run[r].status

Verdict(n) == /\ run[n].status \in {"running"} \cup Verdicts
              /\ run'[n].status \in Verdicts
              /\ \A r \in Runs \ {n} : run'[r].status = run[r].status

Dropped(D) == \A r \in Runs :
  IF r \in D THEN run[r].status \in {"running"} \cup Verdicts /\ run'[r].status = "deleted"
             ELSE run'[r].status = run[r].status

\* A step opens one run, stores one verdict, deletes a job's runs, or touches no status.
LEMMA StatusStep ==
  ASSUME IInv, [Next]_vars
  PROVE  \/ \A r \in Runs : run'[r].status = run[r].status
         \/ \E n \in Runs : Opened(n) \/ Verdict(n)
         \/ \E D \in SUBSET Runs : Dropped(D)
<1> DEFINE Same == \A r \in Runs : run'[r].status = run[r].status
<1>1. \A r \in Runs : run[r] \in RunRow
  BY DEF IInv, TypeOK
<1>2. UNCHANGED run => Same
  OBVIOUS
<1>3. CASE UNCHANGED vars
  BY <1>2, <1>3 DEF vars
<1>4. ASSUME NEW a \in Actors, Reconcile(a) PROVE Same
  BY <1>2, <1>4 DEF Reconcile, LoadRunning, LoadNothing, Judge, JudgeBy
<1>5. ASSUME NEW a \in Actors, Finalize(a) PROVE Same \/ \E n \in Runs : Verdict(n)
  <2>1. CASE WriteStored(a)
    <3>1. PICK r \in Runs : r = actor[a].run /\ run[r].status \notin {"free", "deleted"}
      BY <2>1 DEF WriteStored, IInv, RunsInv, Held, Unallocated
    <3>2. actor[a].fate \in Verdicts
      BY DEF IInv, TypeOK, ActorState
    <3>3. \A q \in Runs : run'[q] = IF q = r THEN Settled(run[r], actor[a].fate) ELSE run[q]
      BY <2>1, <3>1 DEF WriteStored, IInv, TypeOK
    <3>4. Settled(run[r], actor[a].fate).status = actor[a].fate
      BY <1>1 DEF Settled, RunRow
    <3>5. Verdict(r)
      BY <1>1, <3>1, <3>2, <3>3, <3>4 DEF Verdict, RunRow, Statuses
    <3>6. QED
      BY <3>5
  <2>2. QED
    BY <1>2, <1>5, <2>1 DEF Finalize, WriteLost, WriteRaises
<1>6. ASSUME NEW a \in Actors, Launch(a) PROVE Same \/ \E n \in Runs : Opened(n)
  <2>1. CASE Create(a)
    <3>1. PICK n \in Runs : n = NewRun /\ run[n].status = "free"
      BY <2>1, NewRunIsFree DEF Create
    <3>2. Opened(n)
      BY <2>1, <3>1 DEF Opened, Create, IInv, TypeOK
    <3>3. QED
      BY <3>2
  <2>2. QED
    BY <1>2, <1>6, <2>1 DEF Launch, CreateRaises, Spawn, SpawnRaises
<1>7. ASSUME NEW t \in Web, Request(t) PROVE Same \/ \E D \in SUBSET Runs : Dropped(D)
  <2>1. ASSUME NEW j \in Jobs, DeleteJob(t, j) PROVE \E D \in SUBSET Runs : Dropped(D)
    <3> DEFINE D == {r \in Runs : run[r].job = j /\ run[r].status # "deleted"}
    <3>1. \A r \in Runs :
            run'[r].status = IF run[r].job = j THEN "deleted" ELSE run[r].status
      BY <1>1, <2>1 DEF DeleteJob, RunRow
    <3>2. \A r \in D : run[r].status # "free"
      BY NoneAssumption DEF IInv, RunsInv, Held
    <3>3. Dropped(D)
      BY <1>1, <3>1, <3>2 DEF Dropped, RunRow, Statuses
    <3>4. QED
      BY <3>3
  <2>2. CASE SaveStop(t)
    <3>1. \A row \in RunRow : [row EXCEPT !.stop = TRUE].status = row.status
      BY DEF RunRow
    <3>2. QED
      BY <1>1, <2>2, <3>1 DEF SaveStop, IInv, TypeOK
  <2>3. QED
    BY <1>2, <1>7, <2>1, <2>2
       DEF Request, RunNow, Rerun, ToggleJob, EditJob, CreateJob, AskStop, RaiseFlag, RaiseFlagAs,
           SaveForm, EndRequest
<1>8. CASE Dispatch
  BY <1>2, <1>8 DEF Dispatch, MountTrigger, DueJob, SkipUnmounted, FindMounts, QueryDue,
                    EndDispatch, DispatchRaises
<1>9. ASSUME NEW r \in Runs, Work(r) \/ Crash(r) PROVE Same \/ \E n \in Runs : Verdict(n)
  <2>1. CASE Boot(r)
    <3>1. run' = run \/ \E b : run' = [run EXCEPT ![r] = [run[r] EXCEPT !.pid = TRUE,
                                                                        !.fresh = b]]
      BY <2>1, Zenon DEF Boot, BootWith
    <3>2. CASE UNCHANGED run
      BY <3>2
    <3>3. ASSUME NEW b, run' = [run EXCEPT ![r] = [run[r] EXCEPT !.pid = TRUE, !.fresh = b]]
          PROVE  Same
      <4>1. \A q \in Runs : run'[q] = IF q = r THEN [run[r] EXCEPT !.pid = TRUE, !.fresh = b]
                                               ELSE run[q]
        BY <3>3 DEF IInv, TypeOK
      <4>2. [run[r] EXCEPT !.pid = TRUE, !.fresh = b].status = run[r].status
        BY <1>1 DEF RunRow
      <4>3. QED
        BY <4>1, <4>2
    <3>4. QED
      BY <3>1, <3>2, <3>3
  <2>2. CASE StoreVerdict(r)
    <3>1. proc[r].verdict \in Verdicts /\ run[r].status # "free"
      BY <2>2 DEF StoreVerdict, IInv, TypeOK, WorkerProc, RunsInv, Unallocated
    <3>2. Settled(run[r], proc[r].verdict).status = proc[r].verdict
      BY <1>1 DEF Settled, RunRow
    <3>3. CASE /\ run[r].status # "deleted"
               /\ run' = [run EXCEPT ![r] = Settled(@, proc[r].verdict)]
      <4>1. \A q \in Runs : run'[q] = IF q = r THEN Settled(run[r], proc[r].verdict) ELSE run[q]
        BY <3>3 DEF IInv, TypeOK
      <4>2. Verdict(r)
        BY <1>1, <3>1, <3>2, <3>3, <4>1 DEF Verdict, RunRow, Statuses
      <4>3. QED
        BY <4>2
    <3>4. QED
      BY <1>2, <2>2, <3>3 DEF StoreVerdict
  <2>3. QED
    BY <1>2, <1>9, <2>1, <2>2
       DEF Work, Crash, BootRaises, Heartbeat, NoticeStop, FinishTransfer, Advance
<1>10. ASSUME NEW box \in Boxes, RestartBox(box) PROVE Same
  BY <1>2, <1>10 DEF RestartBox
<1>11. CASE Time
  <2>1. \A row \in RunRow : [row EXCEPT !.fresh = FALSE].status = row.status
    BY DEF RunRow
  <2>2. ASSUME NEW r \in Runs, AgeRow(r) PROVE Same
    <3>1. \A q \in Runs : run'[q] = IF q = r THEN [run[r] EXCEPT !.fresh = FALSE] ELSE run[q]
      BY <2>2 DEF AgeRow, IInv, TypeOK
    <3>2. QED
      BY <1>1, <2>1, <3>1
  <2>3. QED
    BY <1>2, <1>11, <2>2 DEF Time, ComesDue, AgeBeat, IInv, TypeOK
<1>12. QED
  BY <1>3, <1>4, <1>5, <1>6, <1>7, <1>8, <1>9, <1>10, <1>11 DEF Next

\* Every step is a step or a stutter of the ledger.
LEMMA LedgerStep ==
  ASSUME IInv, [Next]_vars
  PROVE  [Ledger!Next]_RunStates
<1>1. \A r \in Runs : RunStates[r] = IF run[r].status \in Verdicts THEN "settled"
                                     ELSE run[r].status
  BY DEF RunStates
<1>2. \A r \in Runs : RunStates'[r] = IF run'[r].status \in Verdicts THEN "settled"
                                      ELSE run'[r].status
  BY DEF RunStates
<1>3. /\ RunStates = [r \in Runs |-> RunStates[r]]
      /\ RunStates' = [r \in Runs |-> RunStates'[r]]
  BY DEF RunStates
<1>4. CASE \A r \in Runs : run'[r].status = run[r].status
  <2>1. RunStates' = RunStates
    BY <1>4 DEF RunStates
  <2>2. QED
    BY <2>1
<1>5. ASSUME NEW n \in Runs, Opened(n) PROVE Ledger!Open(n)
  <2>1. \A r \in Runs : RunStates'[r] = IF r = n THEN "running" ELSE RunStates[r]
    BY <1>1, <1>2, <1>5 DEF Opened, Verdicts
  <2>2. QED
    BY <1>1, <1>3, <1>5, <2>1 DEF Ledger!Open, Opened, Verdicts
<1>6. ASSUME NEW n \in Runs, Verdict(n) PROVE Ledger!Settle(n) \/ RunStates' = RunStates
  <2>1. \A r \in Runs : RunStates'[r] = IF r = n THEN "settled" ELSE RunStates[r]
    BY <1>1, <1>2, <1>6 DEF Verdict
  <2>2. RunStates[n] \in {"running", "settled"}
    BY <1>1, <1>6 DEF Verdict
  <2>3. QED
    BY <1>3, <2>1, <2>2 DEF Ledger!Settle
<1>7. ASSUME NEW D \in SUBSET Runs, Dropped(D) PROVE Ledger!Drop(D)
  <2>1. \A r \in Runs : RunStates'[r] = IF r \in D THEN "deleted" ELSE RunStates[r]
    BY <1>1, <1>2, <1>7 DEF Dropped, Verdicts
  <2>2. \A r \in D : RunStates[r] \in {"running", "settled"}
    BY <1>1, <1>7 DEF Dropped
  <2>3. QED
    BY <1>3, <2>1, <2>2 DEF Ledger!Drop
<1>8. QED
  BY <1>4, <1>5, <1>6, <1>7, StatusStep DEF Ledger!Next

\* Backup runs implement the ledger of the history page: the rows open once,
\* settle, and never run again.
THEOREM LedgerImplemented == Spec => LedgerKept
<1>1. Init => Ledger!Init
  BY DEF Init, Ledger!Init, RunStates, Verdicts
<1>2. IInv /\ [Next]_vars => [Ledger!Next]_RunStates
  BY LedgerStep
<1>3. QED
  BY <1>1, <1>2, Invariance, PTL DEF Spec, LedgerKept, Ledger!Spec

=============================================================================
