------------------------------ MODULE Processes ------------------------------
(***************************************************************************)
(* Process control: the monitor's pages show processes as they are or as   *)
(* they were sampled, and a POST terminates, kills or restarts one of them *)
(* or, when it runs in a container, the container.                         *)
(*                                                                         *)
(* A process is known by its pid only.  Before it acts, a request compares *)
(* what it reads of the process with what the page showed; the reading is  *)
(* several steps, the signals come later, and pids are given to other      *)
(* processes.  The containers' processes are known from a map that is kept *)
(* for some seconds.  Requests run concurrently.                           *)
(***************************************************************************)
EXTENDS Integers, FiniteSets

CONSTANTS
  Pids,
  Programs,     \* records: name, user, cmd (None when it cannot be read), box
  Running,      \* what runs in the beginning
  Boxes, Own,   \* containers; the one that the requests run in
  Requests,     \* that may be under way together
  Tolerance,    \* how much younger than its sample a process may be
  None,
  MaxTime, MaxBirths, MaxActs, MaxOutside, MaxFaults   \* bounds

ASSUME ProgramsAssumption ==
  /\ Own \in Boxes /\ \A g \in Programs : g.box \in (Boxes \ {Own}) \cup {None}
  /\ Pids \subseteq Nat /\ IsFiniteSet(Pids)
  /\ Running \in [Pids -> Programs \cup {None}]
  /\ \A p, q \in Pids : Running[p] # None /\ Running[q] # None
                        /\ Running[p].box = Running[q].box /\ Running[p].box # None => p = q

ASSUME BoundsAssumption ==
  /\ {Tolerance, MaxTime, MaxBirths, MaxActs, MaxOutside, MaxFaults} \subseteq Nat
  /\ Cardinality({p \in Pids : Running[p] # None}) <= MaxBirths

VARIABLES
  now,
  table,     \* the processes of the host
  births,    \* how many there have been
  samples,   \* ProcessSnapshot
  page,      \* the rows that pages offer an action on
  cache,     \* _CONTAINER_PID_CACHE
  req,       \* ProcessActionView.post
  up,        \* the container of the requests runs
  hist,      \* history
  acts, outside, faults

bounds == <<acts, outside, faults>>
vars == <<now, table, births, samples, page, cache, req, up, hist, bounds>>

-----------------------------------------------------------------------------
(* Types *)

Times == 0..MaxTime

Births == 1..MaxBirths

Names == {g.name : g \in Programs}

Users == {g.user : g \in Programs} \cup {"root"}

Commands == {g.cmd : g \in Programs} \cup {None}

\* id: the number of its birth; line: that of the process it is a restart of.
Process == [id : Births, line : Births, name : Names, user : Users, cmd : Commands,
            box : Boxes \cup {None}, born : Times]

\* at: when it was sampled; None for a row of the live list. box: the container that
\* the page tells of.
Row == [pid : Pids, name : Names, user : Users, cmd : Commands, at : Times \cup {None},
        box : Boxes \cup {None}]

Actions == {"terminate", "kill", "restart"}

ASSUME NoneAssumption == None \notin Boxes \cup Times \cup Process \cup Row \cup Actions

\* first: the process whose command and age were read; box: its container, as
\* detected; late: from a map older than the process.
Request == [pc : {"none", "read", "names", "act", "wait", "spawn"}, row : Row \cup {None},
            action : Actions \cup {None}, first : Process \cup {None},
            box : Boxes \cup {None}, late : BOOLEAN]

NoRequest == [pc |-> "none", row |-> None, action |-> None, first |-> None, box |-> None, late |-> FALSE]

\* births: how many there had been when it was read.
Cache == [ok : BOOLEAN, inits : [Pids -> Boxes \cup {None}], births : 0..MaxBirths]

NoCache == [ok |-> FALSE, inits |-> [p \in Pids |-> None], births |-> 0]

\* wrong: something else was hit than the page showed; stray: another container;
\* unasked: a container where the page told of the process, or the process where it
\* told of its container; double: processes of which two restarts overlapped, from the
\* first reading to the answer.
History == [wrong : BOOLEAN, stray : BOOLEAN, unasked : BOOLEAN, double : SUBSET Births]

Live == {p \in Pids : table[p] # None}

TypeOK ==
  /\ now \in Times /\ births \in 0..MaxBirths
  /\ table \in [Pids -> Process \cup {None}]
  /\ \A p, q \in Live : p # q => table[p].id # table[q].id
  /\ \A p \in Live : table[p].id <= births /\ table[p].born <= now
  /\ \A p, q \in Live : table[p].box \in Boxes \ {Own} /\ table[p].box = table[q].box => p = q
  /\ samples \subseteq Row /\ \A x \in samples : x.at # None
  /\ page \subseteq Row
  /\ cache \in Cache /\ req \in [Requests -> Request] /\ up \in BOOLEAN
  /\ \A r \in Requests : (req[r].pc \in {"names", "act", "wait", "spawn"}) <=> (req[r].first # None)
  /\ hist \in History
  /\ acts \in 0..MaxActs /\ outside \in 0..MaxOutside /\ faults \in 0..MaxFaults

-----------------------------------------------------------------------------
(* The host *)

RowOf(p, at) ==
  [pid |-> p, name |-> table[p].name, user |-> table[p].user, cmd |-> table[p].cmd, at |-> at, box |-> None]

\* _CONTAINER_PID_CACHE is read again when it is older than some seconds, which is a
\* tick.
Inits == [ok |-> TRUE, births |-> births,
          inits |-> [p \in Pids |-> IF table[p] # None /\ table[p].box # Own THEN table[p].box ELSE None]]

Map == IF cache.ok THEN cache ELSE Inits

\* _container_id_from_cgroup does not name the container it runs in itself.
InCgroup(i) == IF i.box = Own THEN None ELSE i.box

\* container_info_for_pid: the cgroup, or else the first process of a container among
\* the process and its ancestors; a restarted one has ancestors in our container.
Container(p, i, known) ==
  IF InCgroup(i) # None THEN i.box
  ELSE IF ~known THEN None
  ELSE IF Map.inits[p] # None THEN Map.inits[p]
  ELSE i.box

\* Mutant of Recent: any time.
RecentAny(row, i) == TRUE

\* Not created after the sample.
Recent(row, i) == row.at = None \/ i.born <= row.at + Tolerance

SameCommand(row, i) == row.cmd = None \/ i.cmd = None \/ row.cmd = i.cmd

\* validate_process_identity: command and age of i, name and user of j.
Valid(row, i, j) ==
  j.name = row.name /\ j.user = row.user /\ SameCommand(row, i) /\ Recent(row, i)

-----------------------------------------------------------------------------
Started(g, i, time) ==
  [id |-> i, line |-> i, name |-> g.name, user |-> g.user, cmd |-> g.cmd, box |-> g.box, born |-> time]

Init ==
  LET Before(p) == {q \in Pids : q <= p /\ Running[q] # None} IN
  /\ now = 0
  /\ births = Cardinality({p \in Pids : Running[p] # None})
  /\ table = [p \in Pids |->
                IF Running[p] = None THEN None ELSE Started(Running[p], Cardinality(Before(p)), 0)]
  /\ samples = {} /\ page = {}
  /\ cache = NoCache
  /\ req = [r \in Requests |-> NoRequest]
  /\ up = TRUE
  /\ hist = [wrong |-> FALSE, stray |-> FALSE, unasked |-> FALSE, double |-> {}]
  /\ acts = 0 /\ outside = 0 /\ faults = 0

Fault == faults < MaxFaults /\ faults' = faults + 1 /\ UNCHANGED <<acts, outside>>

\* Something can still be done.
Awaited == up /\ (acts < MaxActs \/ \E r \in Requests : req[r].pc # "none")

Outside ==
  /\ Awaited /\ outside < MaxOutside /\ outside' = outside + 1
  /\ UNCHANGED <<acts, faults>>

\* The map is out of date from now on.
Tick ==
  /\ Awaited /\ now < MaxTime
  /\ now' = now + 1
  /\ cache' = NoCache
  /\ UNCHANGED <<table, births, samples, page, req, up, hist, bounds>>

Exits(p) ==
  /\ table[p] # None /\ Outside
  /\ table' = [table EXCEPT ![p] = None]
  /\ UNCHANGED <<now, births, samples, page, cache, req, up, hist>>

Starts(p, g) ==
  /\ table[p] = None /\ births < MaxBirths /\ Outside
  /\ g.box # None => \A q \in Live : table[q].box # g.box
  /\ births' = births + 1
  /\ table' = [table EXCEPT ![p] = Started(g, births', now)]
  /\ UNCHANGED <<now, samples, page, cache, req, up, hist>>

-----------------------------------------------------------------------------
(* The pages *)

\* Mutant of Sampled: the rows do not know their time.
SampledLive == {RowOf(p, None) : p \in Live}

\* _process_rows, stored with a snapshot.
Sampled == {RowOf(p, now) : p \in Live}

Sample ==
  /\ acts < MaxActs /\ samples = {} /\ Live # {}
  /\ samples' = Sampled
  /\ UNCHANGED <<now, table, births, page, cache, req, up, hist, bounds>>

Told(rows) == {[x EXCEPT !.box = Container(x.pid, table[x.pid], TRUE)] : x \in rows}

LiveRows == {RowOf(p, None) : p \in Live}

\* Reports, alerts and the history offer an action on the rows that are still valid.
HistoricalRows == {x \in samples : table[x.pid] # None /\ Valid(x, table[x.pid], table[x.pid])}


LoadPages ==
  /\ up /\ acts < MaxActs /\ page = {}
  /\ page' = Told(LiveRows \cup HistoricalRows)
  /\ cache' = Map
  /\ UNCHANGED <<now, table, births, samples, req, up, hist, bounds>>

-----------------------------------------------------------------------------
(* ProcessActionView.post *)

\* The answer leads to a page that is loaded again.
Post(r) ==
  /\ up /\ req[r].pc = "none"
  /\ acts < MaxActs /\ acts' = acts + 1 /\ UNCHANGED <<outside, faults>>
  /\ \E row \in page, action \in Actions :
       req' = [req EXCEPT ![r] = [NoRequest EXCEPT !.pc = "read", !.row = row, !.action = action]]
  /\ page' = {}
  /\ samples' = IF acts' = MaxActs THEN {} ELSE samples   \* not read again
  /\ UNCHANGED <<now, table, births, cache, up, hist>>

Answers(r) == req' = [req EXCEPT ![r] = NoRequest]

At(r) == table[req[r].row.pid]

\* The restarts of a process that are under way.
Restarts(line) ==
  {r \in Requests : /\ req[r].pc \in {"names", "act", "wait", "spawn"}
                    /\ req[r].action = "restart" /\ req[r].first.line = line}

\* get_current_process reads the command and the age, then the container, ...
Reads(r, known) ==
  LET i == At(r) IN
  /\ req[r].pc = "read"
  /\ IF i = None THEN Answers(r) /\ UNCHANGED <<cache, hist>>
     ELSE /\ hist' = IF req[r].action = "restart" /\ Restarts(i.line) # {}
                       THEN [hist EXCEPT !.double = @ \cup {i.line}] ELSE hist
          /\ req' = [req EXCEPT ![r].pc = "names", ![r].first = i,
                       ![r].box = Container(req[r].row.pid, i, known),
                       ![r].late = InCgroup(i) = None /\ known /\ Map.births < i.id]
          /\ cache' = IF InCgroup(i) = None /\ known THEN Map ELSE cache

Read(r) == Reads(r, TRUE) /\ UNCHANGED <<now, table, births, samples, page, up, bounds>>

\* ... which is none when docker does not answer and the cgroup does not tell, ...
ReadBlind(r) ==
  /\ ~cache.ok /\ Fault /\ Reads(r, FALSE)
  /\ UNCHANGED <<now, table, births, samples, page, up>>

\* ... then the name and the user.
ReadNames(r) ==
  /\ req[r].pc = "names"
  /\ IF At(r) # None /\ Valid(req[r].row, req[r].first, At(r))
     THEN req' = [req EXCEPT ![r].pc = "act"] ELSE Answers(r)
  /\ UNCHANGED <<now, table, births, samples, page, cache, up, hist, bounds>>

\* The pid is still that of the process that was read first.
Kept(r) == At(r) # None /\ At(r).id = req[r].first.id

\* For the history: what the user takes i for.
Looks(row, i) ==
  /\ <<i.name, i.user>> = <<row.name, row.user>>
  /\ None \notin {i.cmd, row.cmd} => i.cmd = row.cmd
  /\ row.at # None => i.born - row.at <= Tolerance

\* Something happens to the process that has the pid.
Hits(h, r) ==
  [h EXCEPT !.wrong = @ \/ (Kept(r) /\ ~Looks(req[r].row, At(r))),
            !.unasked = @ \/ req[r].row.box # req[r].box]

Gone(p) == table' = [table EXCEPT ![p] = None]

\* docker_container_action: the container's processes end; if that is our own, so do
\* the requests.
Docker(r) ==
  LET b == req[r].box IN
  /\ req[r].pc = "act" /\ b # None
  /\ table' = [p \in Pids |-> IF table[p] # None /\ table[p].box = b THEN None ELSE table[p]]
  /\ hist' = [Hits(hist, r) EXCEPT !.stray = @ \/ (Kept(r) /\ At(r).box # b /\ ~req[r].late)]
  /\ IF b = Own
     THEN /\ req' = [x \in Requests |-> NoRequest]
          /\ cache' = NoCache
          /\ up' = (req[r].action = "restart")
     ELSE Answers(r) /\ UNCHANGED <<cache, up>>
  /\ UNCHANGED <<now, births, samples, page, bounds>>

\* signal_process.  SIGTERM may be ignored; an empty command cannot be restarted.
Signal(r) ==
  LET action == req[r].action IN
  /\ req[r].pc = "act" /\ req[r].box = None
  /\ IF At(r) = None \/ (action = "restart" /\ req[r].first.cmd = None)
     THEN Answers(r) /\ UNCHANGED <<table, hist>>
     ELSE /\ Gone(req[r].row.pid) \/ (action # "kill" /\ UNCHANGED table)
          /\ hist' = Hits(hist, r)
          /\ IF action = "restart" THEN req' = [req EXCEPT ![r].pc = "wait"] ELSE Answers(r)
  /\ UNCHANGED <<now, births, samples, page, cache, up, bounds>>

\* Mutant of Survives: nobody is killed.
SurvivesNever(r) == FALSE

\* After some seconds there is a process with the pid.
Survives(r) == At(r) # None

\* restart_process waits for the pid to become free, or kills who has it.
Wait(r) ==
  /\ req[r].pc = "wait"
  /\ IF Survives(r) THEN Gone(req[r].row.pid) /\ hist' = Hits(hist, r) ELSE UNCHANGED <<table, hist>>
  /\ req' = [req EXCEPT ![r].pc = "spawn"]
  /\ UNCHANGED <<now, births, samples, page, cache, up, bounds>>

\* The command is launched by a child of ours, as root.
Spawned(r) ==
  LET i == req[r].first IN
  [i EXCEPT !.id = births + 1, !.user = "root", !.box = Own, !.born = now]

Spawn(r) ==
  /\ req[r].pc = "spawn" /\ births < MaxBirths
  /\ \E p \in Pids \ Live : table' = [table EXCEPT ![p] = Spawned(r)]
  /\ births' = births + 1
  /\ Answers(r)
  /\ UNCHANGED <<now, samples, page, cache, up, hist, bounds>>

\* It could not be launched, or the docker command failed and has changed nothing.
CommandFails(r) ==
  /\ req[r].pc = "spawn" \/ (req[r].pc = "act" /\ req[r].box # None)
  /\ Fault
  /\ Answers(r)
  /\ UNCHANGED <<now, table, births, samples, page, cache, up, hist>>

-----------------------------------------------------------------------------
Host == Tick \/ \E p \in Pids : Exits(p) \/ \E g \in Programs : Starts(p, g)

Handle(r) ==
  \/ Post(r) \/ Read(r) \/ ReadBlind(r) \/ ReadNames(r)
  \/ Docker(r) \/ Signal(r) \/ Wait(r) \/ Spawn(r) \/ CommandFails(r)

Next == Host \/ Sample \/ LoadPages \/ \E r \in Requests : Handle(r)

Spec == Init /\ [][Next]_vars

-----------------------------------------------------------------------------
(* Properties *)

\* A signal, or a docker command, hits a process of the name, user and command that
\* the page showed, not much younger than the sample it showed, and in the container
\* that is addressed, unless the pid was given to another process during the request
\* or the map was older than the process.
HitsWhatWasShown == ~hist.wrong /\ ~hist.stray

\* A process that is restarted runs once afterwards, unless two restarts of it were
\* under way at a time.
RunsOnce ==
  \A p, q \in Live : p # q /\ table[p].line = table[q].line => table[p].line \in hist.double

-----------------------------------------------------------------------------
(* What the code says of itself and does not keep: counterexamples in README. *)

\* The confirmation names the container that is stopped, or else the process that is
\* sent a signal.
DoesWhatWasConfirmed == ~hist.unasked
=============================================================================
