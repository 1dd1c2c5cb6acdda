---------------------------- MODULE SamplerProofs ----------------------------
(***************************************************************************)
(* What holds of the sampler for any rules, metrics, intervals, schedules  *)
(* and bounds.                                                             *)
(***************************************************************************)
EXTENDS Sampler, WellFoundedInduction, TLAPS

USE RulesAssumption, TimesAssumption


-----------------------------------------------------------------------------
(* The inductive invariant *)

\* e is the last event of its rule.
LatestIn(some, e) == \A f \in some : f.rule = e.rule => f.at <= e.at

\* No rule raises two events at once, and what is active is its last one.
Ordered(some) ==
  /\ \A e, f \in some : e.rule = f.rule /\ e.at = f.at => e = f
  /\ \A e \in some : e.active <=> e.resolved = None
  /\ \A e \in some : e.active => LatestIn(some, e)

\* The last event of r tells why no repetition is expected.
Quieted(some, r) ==
  \E e \in some :
    e.rule = r /\ LatestIn(some, e) /\ (e.active \/ hist.quiet[r] <= e.resolved + Cooldown[r])

Dispatching == {"report", "notify", "save"}

\* The loop: a cycle takes no time, the next one comes at least a tick and at most an
\* interval after it, and only an evaluation is a transaction.
Rhythm ==
  /\ tx.open => s.pc = "alerts" /\ tx.at = now
  /\ ~tx.open => tx = NoTx
  /\ s.pc = "sleep" => now <= s.wake /\ s.wake <= now + Interval
  /\ s.pc # "sleep" => s.at = now /\ \E x \in snaps : x.at = now
  /\ s.pc \in Dispatching => s.due # {}
  /\ \A x \in snaps : IF s.pc = "sleep" THEN x.at < s.wake ELSE x.at <= now

\* The events that are committed, by what was told and by the last evaluation.
Record ==
  /\ Ordered(events)
  /\ \A e \in events :
       /\ rules[e.rule] # "gone"
       /\ IF s.pc = "sleep" THEN e.at < s.wake ELSE e.at <= now
       /\ s.pc = "alerts" => e.at < now
       /\ e.resolved <= now
       /\ e.active => e.rule \in hist.hot
  /\ \A r \in hist.hot \ hist.lost :
       \E e \in events : e.rule = r /\ (e.active \/ hist.when < e.resolved + Cooldown[r])
  /\ \A r \in AlertRules \ hist.lost : now < hist.quiet[r] => r \in tx.sent \/ Quieted(events, r)
  /\ hist.repeats \subseteq hist.lost

\* A rule that the transaction is through with and whose events it has changed.
Treated(r) ==
  /\ r \notin tx.todo
  /\ \E e \in tx.events : e.rule = r /\ LatestIn(tx.events, e) /\ (e.active \/ e.resolved = tx.at)

\* The events in the transaction: of a rule that is still to come they are what is
\* committed, and nothing was told without a write.
Evaluation ==
  tx.open =>
    /\ Ordered(tx.events)
    /\ \A e \in tx.events :
         /\ tx.rules[e.rule] # "gone"
         /\ \E x \in snaps : x.at = e.snap
         /\ e.at <= now /\ e.resolved <= now
         /\ e.rule \in tx.todo => e.at < now
         /\ e.active /\ e.rule \notin tx.todo => e.rule \in tx.hot
    /\ \A r \in tx.hot : \E e \in tx.events : e.rule = r /\ (e.active \/ tx.at < e.resolved + Cooldown[r])
    /\ tx.hot \cap tx.todo = {}
    /\ tx.sent \cap tx.todo = {}
    /\ tx.asked # None => tx.asked \notin tx.todo /\ (tx.asked \notin hist.lost => hist.quiet[tx.asked] <= now)
    /\ \A r \in AlertRules : r \in tx.sent \/ r = tx.asked => \E e \in tx.events : e.rule = r /\ e.active
    /\ tx.stale => ~tx.wrote
    /\ ~tx.wrote => /\ tx.asked = None /\ tx.sent = {} /\ events \subseteq tx.events
                    /\ \A e \in tx.events : e.rule \notin hist.lost => e \in events
    /\ \A r \in AlertRules \ hist.lost : EventsOf(tx.events, r) = EventsOf(events, r) \/ Treated(r)

\* The occasions of the report rules.
Multiples == {Cadence * k : k \in Nat}

\* What Generated makes.
Made(x) ==
  /\ x.start = x.end - Period /\ x.seen \subseteq x.start..x.end
  /\ x.missing = Missing(x.seen, x.start, x.end)

\* Reports are due on occasions, and what is reported is before the next one.
Schedule ==
  /\ \A w \in ReportRules : /\ reports[w].next \in Multiples
                            /\ reports[w].state = "gone" => \A x \in runs : x.rule # w
  /\ form.open => /\ form.rule \in ReportRules /\ form.next \in Multiples
                  /\ form.state # "gone" /\ reports[form.rule].state # "gone"
  /\ s.pc \in Dispatching =>
       \A w \in s.due : /\ s.copies[w] \in Multiples /\ s.copies[w] <= s.at
                        /\ w \notin hist.torn => s.copies[w] = reports[w].next
  /\ \A x \in runs :
       /\ Made(x)
       /\ x.rule \notin hist.torn =>
            \/ x.end < reports[x.rule].next
            \/ s.pc \in {"notify", "save"} /\ x.rule = Reported /\ x.end = s.at
  /\ s.pc \in {"notify", "save"} /\ reports[Reported].state # "gone" =>
       \E x \in runs : x.rule = Reported /\ x.end = s.at
  /\ OneReportPerOccasion

\* A report of rule w for the occasion due.
ReportedIn(w, due) == \E x \in runs : x.rule = w /\ x.end \in due..(due + Slack)

\* What is before the next run of a rule is reported, since the rule is on or just now; ...
Kept ==
  /\ \A w \in ReportRules : \A due \in Multiples \ {0} :
       /\ reports[w].state # "gone" /\ due < reports[w].next
       /\ due >= now \/ (reports[w].state = "on" /\ due >= hist.since[w])
       => ReportedIn(w, due)
  /\ form.open => \A due \in Multiples \ {0} :
       due < form.next /\ due >= now => ReportedIn(form.rule, due)

\* ... the others are waited for, no longer than failures and deletions take.
Waits(w, due) ==
  /\ s.pc = "sleep" => s.wake <= due + Slack
  /\ s.pc # "sleep" => now <= due + Slack
  /\ \/ s.pc = "prune"
     \/ s.pc \in Dispatching /\ (w \notin s.due \/ \E v \in s.due : reports[v].state = "gone")
     => now + Interval <= due + Slack

InTime ==
  \A w \in ReportRules : \A due \in Multiples \ {0} :
    reports[w].state = "on" /\ due >= reports[w].next /\ due >= hist.since[w] => Waits(w, due)

IInv == TypeOK /\ Rhythm /\ Record /\ Evaluation /\ Schedule /\ Kept /\ InTime
-----------------------------------------------------------------------------
(* Numbers *)

LEMMA MinIsLeast ==
  ASSUME NEW S \in SUBSET Nat, S # {} PROVE Min(S) \in S /\ \A n \in S : Min(S) <= n
<1>1. PICK n \in S : \A m \in S : ~(<<m, n>> \in OpToRel(<, Nat))
  BY NatLessThanWellFounded, WFMin, Zenon
<1>2. \A m \in S : ~(m < n)
  BY <1>1, Zenon DEF OpToRel
<1>3. \A m \in S : n <= m
  BY <1>2
<1>4. QED
  BY <1>3 DEF Min

LEMMA MaxOfTwo == ASSUME NEW a \in Int, NEW b \in Int PROVE Max({a, b}) = IF a <= b THEN b ELSE a
BY DEF Max

LEMMA MinOfTwo == ASSUME NEW a \in Int, NEW b \in Int PROVE Min({a, b}) = IF a <= b THEN a ELSE b
BY DEF Min

LEMMA Division ==
  ASSUME NEW a \in Int, NEW d \in Nat \ {0}
  PROVE  a \div d \in Int /\ d * (a \div d) <= a /\ a < d * (a \div d) + d
OBVIOUS

\* A multiple of d between two numbers.
LEMMA DivisionBetween ==
  ASSUME NEW a \in Int, NEW b \in Int, NEW d \in Nat \ {0}, NEW k \in Int, a < d * k, d * k <= b
  PROVE  a \div d # b \div d
<1>1. a \div d \in Int /\ b \div d \in Int /\ d * (a \div d) <= a /\ b < d * (b \div d) + d
  BY Division
<1>2. d * (a \div d) < d * k /\ d * k < d * ((b \div d) + 1)
  BY <1>1
<1>3. a \div d < k /\ k < (b \div d) + 1
  BY <1>1, <1>2
<1>4. QED
  BY <1>1, <1>3

\* Two multiples of d are at least d apart.
LEMMA MultiplesApart ==
  ASSUME NEW d \in Nat \ {0}, NEW j \in Int, NEW k \in Int, d * j < d * k
  PROVE  d * j <= d * k - d
<1>1. j < k
  OBVIOUS
<1>2. j + 1 <= k
  BY <1>1
<1>3. d * (j + 1) <= d * k
  BY <1>2
<1>4. QED
  BY <1>3

LEMMA MoreSlack ==
  ASSUME NEW a \in Nat, NEW b \in Nat, NEW c \in Nat, NEW d \in Nat, a <= b + c, c <= d PROVE a <= b + d
OBVIOUS

-----------------------------------------------------------------------------
(* The operators of the model *)

\* The last of some events.
LEMMA LatestIsLast ==
  ASSUME NEW some \in SUBSET Event, some # {}
  PROVE  Latest(some) \in some /\ \A f \in some : f.at <= Latest(some).at
<1> DEFINE ages == {MaxTime - e.at : e \in some}
<1>1. \A e \in some : e.at \in Nat /\ e.at <= MaxTime
  BY DEF Event, Times
<1>2. ages \in SUBSET Nat /\ ages # {}
  BY <1>1
<1>3. Min(ages) \in ages /\ \A n \in ages : Min(ages) <= n
  <2> HIDE DEF ages
  <2>1. QED
    BY <1>2, MinIsLeast
<1>4. PICK e \in some : MaxTime - e.at = Min(ages)
  BY <1>3
<1>5. \A f \in some : MaxTime - e.at <= MaxTime - f.at
  BY <1>3, <1>4
<1>6. \A f \in some : f.at <= e.at
  BY <1>1, <1>5
<1>7. QED
  BY <1>6 DEF Latest

LEMMA SlackGrows ==
  ASSUME TypeOK
  PROVE  /\ Slack \in Nat /\ Slack >= Interval
         /\ UNCHANGED bounds => Slack' = Slack
         /\ Fault => Slack' = Slack + Interval + 1
         /\ Edit => Slack' = Slack + Interval
<1>1. faults \in Nat /\ edits \in Nat /\ Interval \in Nat
  BY DEF TypeOK
<1>2. Interval * (1 + faults + edits) = Interval + Interval * (faults + edits)
  BY <1>1
<1>3. Interval * (faults + edits) \in Nat
  BY <1>1
<1>4. Slack \in Nat /\ Slack >= Interval
  BY <1>1, <1>2, <1>3 DEF Slack
<1>5. ASSUME UNCHANGED bounds PROVE Slack' = Slack
  BY <1>5 DEF Slack, bounds
<1>6. Interval * (1 + (faults + 1) + edits) = Interval * (1 + faults + edits) + Interval
  BY <1>1
<1>7. Interval * (1 + faults + (edits + 1)) = Interval * (1 + faults + edits) + Interval
  BY <1>1
<1>8. ASSUME Fault PROVE Slack' = Slack + Interval + 1
  BY <1>1, <1>6, <1>8 DEF Slack, Fault
<1>9. ASSUME Edit PROVE Slack' = Slack + Interval
  BY <1>1, <1>7, <1>9 DEF Slack, Edit
<1>10. QED
  BY <1>4, <1>5, <1>8, <1>9

\* The first occasion after a report, of the occasions from one before it on.
LEMMA NextRunIsNext ==
  ASSUME NEW n \in Multiples, NEW t \in Nat, n <= t
  PROVE  /\ NextRun(n, t) \in Multiples /\ t < NextRun(n, t)
         /\ \A due \in Multiples : due < NextRun(n, t) => due <= t
<1> DEFINE q == (t - n) \div Cadence
<1>1. PICK k \in Nat : n = Cadence * k
  BY DEF Multiples
<1>2. n \in Nat /\ t - n \in Nat
  BY <1>1
<1>3. q \in Int /\ Cadence * q <= t - n /\ t - n < Cadence * q + Cadence
  BY <1>2, Division
<1>4. q \in Nat
  BY <1>2, <1>3
<1> HIDE DEF q
<1>5. n + Cadence * (q + 1) = Cadence * (k + q + 1) /\ k + q + 1 \in Nat
  BY <1>1, <1>4
<1>6. NextRun(n, t) = Cadence * (k + q + 1)
  BY <1>2, <1>5 DEF NextRun, q
<1>7. n + Cadence * (q + 1) = n + Cadence * q + Cadence
  BY <1>2, <1>4
<1>8. t < NextRun(n, t) /\ NextRun(n, t) - Cadence <= t
  BY <1>2, <1>3, <1>5, <1>6, <1>7
<1>9. ASSUME NEW due \in Multiples, due < NextRun(n, t) PROVE due <= t
  <2>1. PICK j \in Nat : due = Cadence * j
    BY DEF Multiples
  <2>2. due <= NextRun(n, t) - Cadence
    BY <1>5, <1>6, <1>9, <2>1, MultiplesApart
  <2>3. QED
    BY <1>5, <1>6, <1>8, <2>1, <2>2
<1>10. QED
  BY <1>5, <1>6, <1>8, <1>9 DEF Multiples

-----------------------------------------------------------------------------
(* Types, and the loop *)

Base == TypeOK /\ Rhythm

\* The parts of the state.
LEMMA Parts ==
  ASSUME TypeOK
  PROVE  /\ now \in Nat /\ now <= MaxTime
         /\ s.pc \in {"sleep", "alerts", "reports", "report", "notify", "save", "prune"}
         /\ s.wake \in Nat /\ s.at \in Nat /\ s.at <= MaxTime
         /\ s.due \in SUBSET ReportRules /\ s.copies \in [ReportRules -> Nat]
         /\ tx.open \in BOOLEAN /\ tx.at \in Times /\ tx.rules \in [AlertRules -> States]
         /\ tx.events \in SUBSET Event /\ tx.todo \in SUBSET AlertRules /\ tx.wrote \in BOOLEAN
         /\ tx.stale \in BOOLEAN /\ tx.asked \in AlertRules \cup {None}
         /\ tx.sent \in SUBSET AlertRules /\ tx.hot \in SUBSET AlertRules
         /\ hist.hot \in SUBSET AlertRules /\ hist.when \in Nat /\ hist.quiet \in [AlertRules -> Nat]
         /\ hist.repeats \in SUBSET AlertRules /\ hist.lost \in SUBSET AlertRules
         /\ hist.torn \in SUBSET ReportRules /\ hist.since \in [ReportRules -> Times]
         /\ form.open \in BOOLEAN /\ form.rule \in ReportRules \cup {None}
         /\ form.state \in States /\ form.next \in Nat
<1>1. now \in Nat /\ now <= MaxTime
  BY DEF TypeOK, Times
<1>2. /\ s.pc \in {"sleep", "alerts", "reports", "report", "notify", "save", "prune"}
      /\ s.wake \in Nat /\ s.at \in Nat /\ s.at <= MaxTime
      /\ s.due \in SUBSET ReportRules /\ s.copies \in [ReportRules -> Nat]
  BY DEF TypeOK, SamplerState, Times
<1>3. /\ tx.open \in BOOLEAN /\ tx.at \in Times /\ tx.rules \in [AlertRules -> States]
      /\ tx.events \in SUBSET Event /\ tx.todo \in SUBSET AlertRules /\ tx.wrote \in BOOLEAN
      /\ tx.stale \in BOOLEAN /\ tx.asked \in AlertRules \cup {None}
      /\ tx.sent \in SUBSET AlertRules /\ tx.hot \in SUBSET AlertRules
  BY DEF TypeOK, Tx
<1>4. /\ hist.hot \in SUBSET AlertRules /\ hist.when \in Nat /\ hist.quiet \in [AlertRules -> Nat]
      /\ hist.repeats \in SUBSET AlertRules /\ hist.lost \in SUBSET AlertRules
      /\ hist.torn \in SUBSET ReportRules /\ hist.since \in [ReportRules -> Times]
  BY DEF TypeOK, History, Times
<1>5. /\ form.open \in BOOLEAN /\ form.rule \in ReportRules \cup {None}
      /\ form.state \in States /\ form.next \in Nat
  BY DEF TypeOK, Form
<1>6. QED
  BY <1>1, <1>2, <1>3, <1>4, <1>5

LEMMA Types == TypeOK =>
  /\ now \in Times /\ snaps \in SUBSET Snapshot /\ \A x, y \in snaps : x.at = y.at => x = y
  /\ rules \in [AlertRules -> States]
  /\ events \in SUBSET Event /\ \A e \in events : \E x \in snaps : x.at = e.snap
  /\ tx \in Tx /\ reports \in [ReportRules -> Report] /\ runs \in SUBSET Run
  /\ form \in Form /\ s \in SamplerState /\ hist \in History
  /\ faults \in 0..MaxFaults /\ edits \in 0..MaxEdits
BY DEF TypeOK

LEMMA Sleeping ==
  ASSUME TypeOK, NEW t \in Nat, Sleeps(t)
  PROVE  s' \in SamplerState /\ s'.pc = "sleep" /\ s'.wake = t /\ s'.due = {}
<1>1. s \in SamplerState /\ 0 \in Times /\ [w \in ReportRules |-> 0] \in [ReportRules -> Nat]
  BY DEF TypeOK, Times
<1>2. s' = [pc |-> "sleep", wake |-> t, at |-> 0, due |-> {}, copies |-> [w \in ReportRules |-> 0]]
  BY DEF Sleeps, Asleep, TypeOK, SamplerState
<1>3. QED
  BY <1>1, <1>2 DEF SamplerState

LEMMA NoTransaction ==
  /\ NoTx \in Tx /\ ~NoTx.open /\ NoTx.sent = {} /\ NoTx.asked = None /\ ~NoTx.wrote
<1>1. [r \in AlertRules |-> "on"] \in [AlertRules -> States]
  BY DEF States
<1>2. QED
  BY <1>1 DEF NoTx, Tx, Times

LEMMA Counted ==
  ASSUME TypeOK
  PROVE  /\ Fault => faults' \in 0..MaxFaults /\ edits' \in 0..MaxEdits /\ now + 1 \in Times
         /\ Edit => faults' \in 0..MaxFaults /\ edits' \in 0..MaxEdits
         /\ UNCHANGED bounds => faults' \in 0..MaxFaults /\ edits' \in 0..MaxEdits
BY DEF TypeOK, Fault, Edit, bounds, Times

\* A step that changes only these parts keeps the types.
LEMMA TypesOf ==
  ASSUME TypeOK, now' \in Times, UNCHANGED snaps, rules' \in [AlertRules -> States],
         events' \subseteq events, tx' \in Tx, reports' \in [ReportRules -> Report],
         runs' \subseteq Run, form' \in Form, s' \in SamplerState, hist' \in History,
         Fault \/ Edit \/ UNCHANGED bounds
  PROVE  TypeOK'
<1>1. faults' \in 0..MaxFaults /\ edits' \in 0..MaxEdits
  BY Counted
<1>2. /\ snaps' \in SUBSET Snapshot /\ \A x, y \in snaps' : x.at = y.at => x = y
      /\ events' \subseteq Event /\ \A e \in events' : \E x \in snaps' : x.at = e.snap
  BY DEF TypeOK
<1>3. QED
  BY <1>1, <1>2 DEF TypeOK

\* A step to sleep keeps what the loop does.
LEMMA Rests ==
  ASSUME Base, s'.pc = "sleep", s'.wake \in Nat, ~tx'.open, tx' = NoTx, now' \in Nat,
         now' < s'.wake, s'.wake <= now' + Interval, now <= now', snaps' \subseteq snaps,
         s.pc = "sleep" => s.wake <= s'.wake
  PROVE  Rhythm'
<1>1. \A x \in snaps : x.at \in Nat
  BY DEF Base, TypeOK, Snapshot, Times
<1>2. now \in Nat /\ s.wake \in Nat
  BY Parts DEF Base
<1>3. \A x \in snaps' : x.at < s'.wake
  BY <1>1, <1>2 DEF Base, Rhythm
<1>4. QED
  BY <1>2, <1>3 DEF Rhythm, Dispatching

LEMMA BaseTick == ASSUME Base, Tick PROVE Base'
<1>1. TypeOK'
  BY TypesOf, Types, Counted DEF Base, Tick, Times
<1>2. Rhythm'
  BY Parts DEF Base, Rhythm, Tick, Dispatching
<1>3. QED
  BY <1>1, <1>2 DEF Base

LEMMA BaseCollect == ASSUME Base, Collect PROVE Base' /\ s'.pc = "alerts" /\ s'.at = now /\ now = s.wake
<1>1. PICK v \in Values : snaps' = snaps \cup {[at |-> now, value |-> v]}
  BY DEF Collect
<1>2. [at |-> now, value |-> v] \in Snapshot
  BY Types DEF Base, Snapshot
<1>3. \A x \in snaps : x.at \in Nat /\ x.at < now
  BY Parts, Types DEF Base, Rhythm, Collect, Snapshot, Times
<1>4. \A x, y \in snaps' : x.at = y.at => x = y
  BY <1>1, <1>3, Types DEF Base
<1>5. s' \in SamplerState /\ s'.pc = "alerts" /\ s'.at = now
  BY Types DEF Base, Collect, SamplerState
<1>6. TypeOK'
  BY <1>1, <1>2, <1>4, <1>5 DEF Base, Collect, TypeOK, bounds
<1>7. ~tx.open /\ tx' = tx /\ now' = now
  BY DEF Base, Rhythm, Collect
<1>8. Rhythm'
  <2>1. \A x \in snaps' : x.at <= now
    BY <1>1, <1>3, Parts DEF Base
  <2>2. [at |-> now, value |-> v] \in snaps' /\ [at |-> now, value |-> v].at = now
    BY <1>1, Zenon
  <2>3. QED
    BY <1>5, <1>7, <2>1, <2>2 DEF Base, Rhythm, Dispatching
<1>9. QED
  BY <1>5, <1>6, <1>8, Parts DEF Base, Rhythm, Collect

LEMMA BaseCollectFails == ASSUME Base, CollectFails PROVE Base' /\ s'.pc = "sleep" /\ s'.wake = now + 1
<1>1. s' \in SamplerState /\ s'.pc = "sleep" /\ s'.wake = now + 1
  BY Sleeping, Parts DEF Base, CollectFails
<1>2. TypeOK'
  BY <1>1, TypesOf, Types DEF Base, CollectFails
<1>3. Rhythm'
  BY <1>1, Rests, Parts DEF Base, CollectFails, Rhythm
<1>4. QED
  BY <1>1, <1>2, <1>3 DEF Base

LEMMA BasePrune ==
  ASSUME Base, Prune
  PROVE  /\ Base' /\ s'.pc = "sleep" /\ s'.wake = now + Interval
         /\ hist' = [hist EXCEPT !.lost = @ \cup {e.rule : e \in Orphans}]
<1>1. s' \in SamplerState /\ s'.pc = "sleep" /\ s'.wake = now + Interval
  BY Sleeping, Parts DEF Base, Prune
<1>2. {e.rule : e \in Orphans} \in SUBSET AlertRules
  BY Types DEF Base, Orphans, Event
<1>3. hist' \in History
  BY <1>2, Types DEF Base, Prune, History
<1>4. snaps' \in SUBSET Snapshot /\ \A x, y \in snaps' : x.at = y.at => x = y
  BY Types DEF Base, Prune
<1>5. ASSUME NEW e \in events' PROVE e \in Event /\ \E x \in snaps' : x.at = e.snap
  <2>1. e \in events /\ e \notin Orphans
    BY <1>5 DEF Prune
  <2>2. PICK x \in snaps : x.at = e.snap
    BY <2>1, Types DEF Base
  <2>3. x \notin Old
    BY <2>1, <2>2 DEF Orphans
  <2>4. QED
    BY <2>1, <2>2, <2>3, Types DEF Base, Prune
<1>6. TypeOK'
  BY <1>1, <1>3, <1>4, <1>5 DEF Base, Prune, TypeOK, bounds
<1>7. Rhythm'
  <2>1. tx' = tx /\ ~tx.open /\ tx = NoTx /\ now' = now /\ snaps' \subseteq snaps
    BY DEF Base, Rhythm, Prune
  <2>2. QED
    BY <1>1, <2>1, Rests, Parts DEF Base, Prune
<1>8. QED
  BY <1>1, <1>6, <1>7 DEF Base, Prune

LEMMA BasePruneFails == ASSUME Base, PruneFails PROVE Base' /\ s'.pc = "sleep" /\ s'.wake = now + Interval
<1>1. s' \in SamplerState /\ s'.pc = "sleep" /\ s'.wake = now + Interval
  BY Sleeping, Parts DEF Base, PruneFails
<1>2. TypeOK'
  BY <1>1, TypesOf, Types DEF Base, PruneFails
<1>3. tx' = tx /\ ~tx.open /\ tx = NoTx /\ now' = now
  BY DEF Base, Rhythm, PruneFails
<1>4. Rhythm'
  BY <1>1, <1>3, Rests, Parts DEF Base, PruneFails
<1>5. QED
  BY <1>1, <1>2, <1>4 DEF Base

LEMMA BaseBegin ==
  ASSUME Base, Record, BeginAlerts
  PROVE  /\ Base' /\ s' = s /\ tx'.open /\ tx'.events = events /\ tx'.sent = {} /\ tx'.hot = {}
         /\ tx'.asked = None /\ ~tx'.stale /\ tx'.at = now
         /\ \A e \in events : tx'.rules[e.rule] # "gone" /\ e.rule \in tx'.todo
<1> DEFINE none == \A r \in AlertRules : rules[r] = "gone"
           all == [r \in AlertRules |-> IF none THEN "on" ELSE rules[r]]
           todo == {r \in AlertRules : all[r] # "gone"}
<1>1. all \in [AlertRules -> States] /\ todo \in SUBSET AlertRules /\ none \in BOOLEAN
  BY Types DEF Base, States
<1>2. tx' = [NoTx EXCEPT !.open = TRUE, !.at = now, !.rules = all, !.events = events,
                         !.todo = todo, !.wrote = none]
  BY DEF BeginAlerts
<1>3. \A e \in events : all[e.rule] # "gone" /\ e.rule \in todo
  <2>1. \A e \in events : e.rule \in AlertRules /\ rules[e.rule] # "gone"
    BY Types DEF Base, Event, Record
  <2>2. QED
    BY <2>1
<1> HIDE DEF all, todo, none
<1>4. /\ tx' \in Tx /\ tx'.open /\ tx'.events = events /\ tx'.sent = {} /\ tx'.hot = {}
      /\ tx'.asked = None /\ ~tx'.stale /\ tx'.at = now /\ tx'.rules = all /\ tx'.todo = todo
  <2>1. tx' = [open |-> TRUE, at |-> now, rules |-> all, events |-> events, todo |-> todo,
               wrote |-> none, stale |-> FALSE, asked |-> None, sent |-> {}, hot |-> {}]
    BY <1>2 DEF NoTx
  <2>2. QED
    BY <1>1, <2>1, Types DEF Base, Tx
<1>5. TypeOK'
  BY <1>4, TypesOf, Types DEF Base, BeginAlerts
<1>6. Rhythm'
  BY <1>4 DEF Base, Rhythm, BeginAlerts, Dispatching
<1>7. QED
  BY <1>3, <1>4, <1>5, <1>6 DEF Base, BeginAlerts

LEMMA BaseSkips ==
  ASSUME Base, s.pc = "alerts", Skips, UNCHANGED <<now, snaps, rules, events, reports, runs, form>>,
         Fault \/ UNCHANGED bounds
  PROVE  /\ Base' /\ s'.pc = "reports" /\ tx' = NoTx
         /\ s'.at = s.at /\ s'.due = s.due /\ s'.copies = s.copies
         /\ hist' = [hist EXCEPT !.lost = @ \cup tx.sent]
<1>1. /\ s' \in SamplerState /\ s'.pc = "reports"
      /\ s'.at = s.at /\ s'.due = s.due /\ s'.copies = s.copies
  BY Types DEF Base, Skips, SamplerState
<1>2. hist' \in History
  BY Types, Parts DEF Base, Skips, History
<1>3. tx' = NoTx /\ tx' \in Tx /\ ~tx'.open
  BY NoTransaction DEF Skips
<1>4. TypeOK'
  BY <1>1, <1>2, <1>3, TypesOf, Types DEF Base
<1>5. Rhythm'
  BY <1>1, <1>3 DEF Base, Rhythm, Dispatching
<1>6. QED
  BY <1>1, <1>3, <1>4, <1>5 DEF Base, Skips

\* The transaction goes on.
LEMMA BaseGoes ==
  ASSUME Base, tx.open, UNCHANGED <<now, snaps, rules, events, reports, runs, form, s, bounds>>,
         tx' \in Tx, tx'.open, tx'.at = tx.at, hist' \in History
  PROVE  Base'
<1>1. TypeOK'
  BY TypesOf, Types DEF Base
<1>2. Rhythm'
  BY DEF Base, Rhythm, Dispatching
<1>3. QED
  BY <1>1, <1>2 DEF Base

\* A rule is evaluated: the transaction that comes of it.
Treats(r, hot, some, wrote, asked) ==
  tx' = [tx EXCEPT !.events = some, !.todo = @ \ {r}, !.wrote = wrote, !.asked = asked,
                   !.hot = IF hot THEN @ \cup {r} ELSE @]

\* What becomes of the events of a rule.
TreatedAs(r, hot, some, wrote, asked) ==
  \/ /\ ~hot /\ Active(tx.events, r) # {} /\ ~tx.stale
     /\ some = Resolve(tx.events, r, tx.at) /\ wrote = TRUE /\ asked = None
  \/ ~hot /\ Active(tx.events, r) = {} /\ some = tx.events /\ wrote = tx.wrote /\ asked = None
  \/ /\ hot /\ Active(tx.events, r) # {} /\ ~tx.stale
     /\ some = tx.events /\ wrote = TRUE /\ asked = None
  \/ /\ hot /\ Active(tx.events, r) = {} /\ Cooling(tx.events, r, tx.at)
     /\ some = tx.events /\ wrote = tx.wrote /\ asked = None
  \/ /\ hot /\ Active(tx.events, r) = {} /\ ~Cooling(tx.events, r, tx.at) /\ ~tx.stale
     /\ some = tx.events \cup {Raised(r, tx.at, s.at)} /\ wrote = TRUE /\ asked = r

LEMMA EvaluateCases ==
  ASSUME TypeOK, Evaluate
  PROVE  \/ tx.stale /\ Skips /\ tx.open /\ tx.asked = None
         \/ \E r \in tx.todo, hot \in BOOLEAN : \E some, wrote, asked :
              /\ s' = s /\ hist' = hist /\ tx.open /\ tx.asked = None
              /\ hot => tx.rules[r] = "on"
              /\ TreatedAs(r, hot, some, wrote, asked) /\ Treats(r, hot, some, wrote, asked)
<1> DEFINE r == Min(tx.todo)
           hot == tx.rules[r] = "on" /\ Triggered(r, s.at)
<1>1. tx.open /\ tx.asked = None /\ tx.todo # {}
  BY DEF Evaluate
<1>2. r \in tx.todo
  <2>1. tx.todo \in SUBSET Nat
    BY Parts
  <2>2. QED
    BY <1>1, <2>1, MinIsLeast
<1>3. hot \in BOOLEAN /\ (hot => tx.rules[r] = "on")
  OBVIOUS
<1>4. \/ ~hot /\ Active(tx.events, r) # {} /\ Writes(r, Resolve(tx.events, r, tx.at), None)
      \/ ~hot /\ Active(tx.events, r) = {} /\ Passes(r)
      \/ hot /\ Active(tx.events, r) # {} /\ Writes(r, tx.events, None)
      \/ hot /\ Active(tx.events, r) = {} /\ Cooling(tx.events, r, tx.at) /\ Passes(r)
      \/ /\ hot /\ Active(tx.events, r) = {} /\ ~Cooling(tx.events, r, tx.at)
         /\ Writes(r, tx.events \cup {Raised(r, tx.at, s.at)}, r)
  BY Zenon DEF Evaluate
<1>5. ASSUME NEW some, NEW asked, Writes(r, some, asked)
      PROVE  IF tx.stale THEN Skips ELSE Treats(r, hot, some, TRUE, asked) /\ s' = s /\ hist' = hist
  BY <1>5, Zenon DEF Writes, Treats
<1>6. ASSUME Passes(r)
      PROVE  Treats(r, hot, tx.events, tx.wrote, None) /\ s' = s /\ hist' = hist
  <2>1. /\ tx' = [tx EXCEPT !.todo = @ \ {r}, !.hot = IF hot THEN @ \cup {r} ELSE @]
        /\ s' = s /\ hist' = hist
    BY <1>6, Zenon DEF Passes
  <2> HIDE DEF hot, r
  <2>2. tx \in Tx
    BY DEF TypeOK
  <2>3. tx' = [tx EXCEPT !.events = tx.events, !.todo = @ \ {r}, !.wrote = tx.wrote, !.asked = None,
                         !.hot = IF hot THEN @ \cup {r} ELSE @]
    BY <1>1, <2>1, <2>2 DEF Tx
  <2>4. QED
    BY <2>1, <2>3 DEF Treats
<1> HIDE DEF hot, r
<1>7. \/ tx.stale /\ Skips
      \/ \E some, wrote, asked :
           /\ s' = s /\ hist' = hist
           /\ TreatedAs(r, hot, some, wrote, asked) /\ Treats(r, hot, some, wrote, asked)
  <2>1. CASE ~hot /\ Active(tx.events, r) # {} /\ Writes(r, Resolve(tx.events, r, tx.at), None)
    BY <1>5, <2>1, Zenon DEF TreatedAs
  <2>2. CASE ~hot /\ Active(tx.events, r) = {} /\ Passes(r)
    BY <1>6, <2>2, Zenon DEF TreatedAs
  <2>3. CASE hot /\ Active(tx.events, r) # {} /\ Writes(r, tx.events, None)
    BY <1>5, <2>3, Zenon DEF TreatedAs
  <2>4. CASE hot /\ Active(tx.events, r) = {} /\ Cooling(tx.events, r, tx.at) /\ Passes(r)
    BY <1>6, <2>4, Zenon DEF TreatedAs
  <2>5. CASE /\ hot /\ Active(tx.events, r) = {} /\ ~Cooling(tx.events, r, tx.at)
             /\ Writes(r, tx.events \cup {Raised(r, tx.at, s.at)}, r)
    BY <1>5, <2>5, Zenon DEF TreatedAs
  <2>6. QED
    BY <1>4, <2>1, <2>2, <2>3, <2>4, <2>5, Zenon
<1>8. QED
  BY <1>1, <1>2, <1>3, <1>7, Zenon

\* The alert that is resolved, and what becomes of it.
LEMMA ResolvedEvent ==
  ASSUME Base, tx.open, NEW r \in AlertRules, Active(tx.events, r) # {}
  PROVE  LET e == Latest(Active(tx.events, r))
             f == [e EXCEPT !.active = FALSE, !.resolved = tx.at] IN
         /\ e \in tx.events /\ e.rule = r /\ e.active
         /\ \A g \in tx.events : g.rule = r /\ g.active => g.at <= e.at
         /\ f \in Event /\ f.rule = r /\ f.snap = e.snap /\ f.at = e.at /\ ~f.active /\ f.resolved = tx.at
         /\ Resolve(tx.events, r, tx.at) = (tx.events \ {e}) \cup {f}
<1> DEFINE e == Latest(Active(tx.events, r))
           f == [e EXCEPT !.active = FALSE, !.resolved = tx.at]
<1>1. Active(tx.events, r) \in SUBSET Event
  BY Parts DEF Base, Active, EventsOf
<1>2. e \in Active(tx.events, r) /\ \A g \in Active(tx.events, r) : g.at <= e.at
  BY <1>1, LatestIsLast
<1>3. Resolve(tx.events, r, tx.at) = (tx.events \ {e}) \cup {f}
  BY Zenon DEF Resolve
<1> HIDE DEF e
<1>4. e \in tx.events /\ e.rule = r /\ e.active /\ e \in Event
  BY <1>1, <1>2 DEF Active, EventsOf
<1>5. \A g \in tx.events : g.rule = r /\ g.active => g.at <= e.at
  BY <1>2 DEF Active, EventsOf
<1>6. f \in Event /\ f.rule = r /\ f.snap = e.snap /\ f.at = e.at /\ ~f.active /\ f.resolved = tx.at
  BY <1>4, Parts DEF Base, Event
<1> HIDE DEF f
<1>7. QED
  BY <1>3, <1>4, <1>5, <1>6 DEF e, f

LEMMA RaisedEvent ==
  ASSUME Base, tx.open, NEW r \in AlertRules
  PROVE  LET f == Raised(r, tx.at, s.at) IN
         /\ f \in Event /\ f.rule = r /\ f.snap = s.at /\ f.at = tx.at /\ f.active /\ f.resolved = None
<1>1. tx.at \in Times /\ s.at \in Times
  BY Parts, Types DEF Base, SamplerState
<1>2. QED
  BY <1>1 DEF Raised, Event

LEMMA TreatedTypes ==
  ASSUME Base, tx.open, NEW r \in tx.todo, NEW hot \in BOOLEAN, NEW some, NEW wrote, NEW asked,
         TreatedAs(r, hot, some, wrote, asked), Treats(r, hot, some, wrote, asked)
  PROVE  /\ tx' \in Tx /\ tx'.open /\ tx'.at = tx.at /\ tx'.rules = tx.rules /\ tx'.events = some
         /\ tx'.todo = tx.todo \ {r} /\ tx'.wrote = wrote /\ tx'.stale = tx.stale
         /\ tx'.asked = asked /\ tx'.sent = tx.sent
         /\ tx'.hot = IF hot THEN tx.hot \cup {r} ELSE tx.hot
<1>1. r \in AlertRules /\ tx \in Tx
  BY Parts, Types DEF Base
<1>2. some \in SUBSET Event
  <2>1. tx.events \in SUBSET Event
    BY Parts DEF Base
  <2>2. ASSUME Active(tx.events, r) # {} PROVE Resolve(tx.events, r, tx.at) \in SUBSET Event
    <3> DEFINE e == Latest(Active(tx.events, r))
               f == [e EXCEPT !.active = FALSE, !.resolved = tx.at]
    <3>1. f \in Event /\ Resolve(tx.events, r, tx.at) = (tx.events \ {e}) \cup {f}
      BY <1>1, <2>2, ResolvedEvent
    <3> HIDE DEF e, f
    <3>2. QED
      BY <2>1, <3>1
  <2>3. tx.events \cup {Raised(r, tx.at, s.at)} \in SUBSET Event
    BY <1>1, <2>1, RaisedEvent
  <2>4. QED
    BY <2>1, <2>2, <2>3, Zenon DEF TreatedAs
<1>3. wrote \in BOOLEAN /\ asked \in AlertRules \cup {None}
  BY <1>1, Parts DEF Base, TreatedAs
<1> DEFINE triggered == IF hot THEN tx.hot \cup {r} ELSE tx.hot
<1>4. triggered \in SUBSET AlertRules
  BY <1>1, Parts DEF Base
<1>5. tx' = [tx EXCEPT !.events = some, !.todo = @ \ {r}, !.wrote = wrote, !.asked = asked,
                       !.hot = triggered]
  BY <1>1 DEF Treats, Tx
<1> HIDE DEF triggered
<1>6. /\ tx' \in Tx /\ tx'.open = tx.open /\ tx'.at = tx.at /\ tx'.rules = tx.rules
      /\ tx'.events = some /\ tx'.todo = tx.todo \ {r} /\ tx'.wrote = wrote
      /\ tx'.stale = tx.stale /\ tx'.asked = asked /\ tx'.sent = tx.sent /\ tx'.hot = triggered
  BY <1>1, <1>2, <1>3, <1>4, <1>5 DEF Tx
<1>7. QED
  BY <1>6 DEF triggered

LEMMA HeardTypes ==
  ASSUME TypeOK, NEW r \in AlertRules
  PROVE  LET h == Heard(hist, r) IN
         /\ h \in History /\ h.hot = hist.hot /\ h.when = hist.when /\ h.lost = hist.lost
         /\ h.torn = hist.torn /\ h.since = hist.since
         /\ h.repeats = IF now < hist.quiet[r] THEN hist.repeats \cup {r} ELSE hist.repeats
         /\ \A q \in AlertRules \ {r} : h.quiet[q] = hist.quiet[q]
<1> DEFINE more == IF now < hist.quiet[r] THEN hist.repeats \cup {r} ELSE hist.repeats
           quiet == [hist.quiet EXCEPT ![r] = Forever]
<1>1. hist \in History /\ hist.quiet \in [AlertRules -> Nat] /\ more \in SUBSET AlertRules
  BY Types, Parts
<1>2. Forever \in Nat
  BY DEF Forever
<1>3. quiet \in [AlertRules -> Nat] /\ \A q \in AlertRules \ {r} : quiet[q] = hist.quiet[q]
  BY <1>1, <1>2
<1>4. Heard(hist, r) = [hist EXCEPT !.repeats = more, !.quiet = quiet]
  BY <1>1 DEF Heard, History
<1> HIDE DEF more, quiet
<1>5. /\ Heard(hist, r) \in History /\ Heard(hist, r).hot = hist.hot
      /\ Heard(hist, r).when = hist.when /\ Heard(hist, r).lost = hist.lost
      /\ Heard(hist, r).torn = hist.torn /\ Heard(hist, r).since = hist.since
      /\ Heard(hist, r).repeats = more /\ Heard(hist, r).quiet = quiet
  BY <1>1, <1>3, <1>4 DEF History
<1>6. QED
  BY <1>3, <1>5 DEF more

\* Something is lost besides.
LEMMA LostTypes ==
  ASSUME NEW h \in History, NEW more \in SUBSET AlertRules
  PROVE  LET g == [h EXCEPT !.lost = @ \cup more] IN
         /\ g \in History /\ g.hot = h.hot /\ g.when = h.when /\ g.quiet = h.quiet
         /\ g.repeats = h.repeats /\ g.lost = h.lost \cup more /\ g.torn = h.torn /\ g.since = h.since
BY DEF History

LEMMA TornTypes ==
  ASSUME TypeOK, s.due # {}
  PROVE  LET h == Torn(hist) IN
         /\ Reported \in s.due /\ Reported \in ReportRules
         /\ h \in History /\ h.hot = hist.hot /\ h.when = hist.when /\ h.quiet = hist.quiet
         /\ h.repeats = hist.repeats /\ h.lost = hist.lost /\ h.torn = hist.torn \cup {Reported}
         /\ h.since = hist.since
<1>1. Reported \in s.due /\ Reported \in ReportRules
  <2>1. s.due \in SUBSET Nat /\ s.due \in SUBSET ReportRules
    BY Parts
  <2>2. QED
    BY <2>1, MinIsLeast DEF Reported
<1>2. hist \in History
  BY Types
<1>3. QED
  BY <1>1, <1>2 DEF Torn, History

LEMMA BaseTold ==
  ASSUME Base, Told
  PROVE  /\ Base' /\ s' = s /\ tx.asked \in AlertRules /\ tx.open
         /\ tx'.open /\ tx'.at = tx.at /\ tx'.rules = tx.rules /\ tx'.events = tx.events
         /\ tx'.todo = tx.todo /\ tx'.wrote = tx.wrote /\ tx'.stale = tx.stale
         /\ tx'.asked = None /\ tx'.hot = tx.hot
         /\ \/ tx'.sent = tx.sent \cup {tx.asked} /\ hist' = Heard(hist, tx.asked)
            \/ tx'.sent = tx.sent /\ hist' = hist
<1>1. tx.asked \in AlertRules /\ tx.open /\ s' = s
  BY Parts DEF Base, Told
<1>2. PICK more \in {{}, {tx.asked}} :
         /\ tx' = [tx EXCEPT !.asked = None, !.sent = @ \cup more]
         /\ \/ more = {tx.asked} /\ hist' = Heard(hist, tx.asked)
            \/ more = {} /\ hist' = hist
  <2>1. CASE tx' = [tx EXCEPT !.asked = None, !.sent = @ \cup {tx.asked}] /\ hist' = Heard(hist, tx.asked)
    BY <2>1
  <2>2. CASE tx' = [tx EXCEPT !.asked = None] /\ hist' = hist
    <3>1. tx' = [tx EXCEPT !.asked = None, !.sent = @ \cup {}]
      BY <2>2, Types DEF Base, Tx
    <3>2. QED
      BY <2>2, <3>1
  <2>3. QED
    BY <2>1, <2>2 DEF Told
<1>3. /\ tx' \in Tx /\ tx'.open /\ tx'.at = tx.at /\ tx'.rules = tx.rules /\ tx'.events = tx.events
      /\ tx'.todo = tx.todo /\ tx'.wrote = tx.wrote /\ tx'.stale = tx.stale
      /\ tx'.asked = None /\ tx'.hot = tx.hot /\ tx'.sent = tx.sent \cup more
  <2>1. tx \in Tx /\ more \in SUBSET AlertRules
    BY <1>1, <1>2, Types DEF Base
  <2>2. QED
    BY <1>1, <1>2, <2>1 DEF Tx
<1>4. hist' \in History
  BY <1>1, <1>2, HeardTypes, Types DEF Base
<1>5. Base'
  BY <1>1, <1>3, <1>4, BaseGoes DEF Told
<1>6. QED
  BY <1>1, <1>2, <1>3, <1>5

LEMMA BaseHangs ==
  ASSUME Base, TellingHangs
  PROVE  /\ Base' /\ s'.pc = "sleep" /\ s'.wake = now + 1 + Interval /\ tx.asked \in AlertRules /\ tx.open
         /\ tx' = NoTx /\ now' = now + 1
         /\ \/ hist' = [Heard(hist, tx.asked) EXCEPT !.lost = @ \cup (tx.sent \cup {tx.asked})]
            \/ hist' = [hist EXCEPT !.lost = @ \cup tx.sent]
<1>1. tx.asked \in AlertRules /\ tx.open /\ tx.sent \in SUBSET AlertRules
  BY Parts DEF Base, TellingHangs
<1>2. s' \in SamplerState /\ s'.pc = "sleep" /\ s'.wake = now + 1 + Interval
  BY Sleeping, Parts DEF Base, TellingHangs
<1>3. \/ hist' = [Heard(hist, tx.asked) EXCEPT !.lost = @ \cup (tx.sent \cup {tx.asked})]
      \/ hist' = [hist EXCEPT !.lost = @ \cup tx.sent]
  <2>1. CASE hist' = [Heard(hist, tx.asked) EXCEPT !.lost = @ \cup tx.sent \cup {tx.asked}]
    <3>1. Heard(hist, tx.asked) \in History
      BY <1>1, HeardTypes DEF Base
    <3>2. Heard(hist, tx.asked).lost \cup tx.sent \cup {tx.asked}
            = Heard(hist, tx.asked).lost \cup (tx.sent \cup {tx.asked})
      OBVIOUS
    <3>3. QED
      BY <2>1, <3>1, <3>2 DEF History
  <2>2. CASE hist' = [hist EXCEPT !.lost = @ \cup tx.sent]
    BY <2>2
  <2>3. QED
    BY <2>1, <2>2 DEF TellingHangs
<1>4. hist' \in History
  <2>1. Heard(hist, tx.asked) \in History /\ hist \in History
    BY <1>1, HeardTypes, Types DEF Base
  <2>2. tx.sent \cup {tx.asked} \in SUBSET AlertRules
    BY <1>1
  <2>3. \A h \in History, more \in SUBSET AlertRules : [h EXCEPT !.lost = @ \cup more] \in History
    BY DEF History
  <2>4. CASE hist' = [hist EXCEPT !.lost = @ \cup tx.sent]
    BY <1>1, <2>1, <2>3, <2>4
  <2>5. CASE hist' = [Heard(hist, tx.asked) EXCEPT !.lost = @ \cup (tx.sent \cup {tx.asked})]
    BY <2>1, <2>2, <2>3, <2>5
  <2>6. QED
    BY <1>3, <2>4, <2>5
<1>5. tx' = NoTx /\ tx' \in Tx /\ ~tx'.open /\ now' = now + 1 /\ now' \in Times
  BY NoTransaction, Counted DEF Base, TellingHangs
<1>6. TypeOK'
  BY <1>2, <1>4, <1>5, TypesOf, Types DEF Base, TellingHangs
<1>7. Rhythm'
  BY <1>2, <1>5, Rests, Parts DEF Base, TellingHangs
<1>8. QED
  BY <1>1, <1>2, <1>3, <1>5, <1>6, <1>7 DEF Base

\* Rules whose alerts are over.
Over == {r \in AlertRules : Active(events, r) # {} /\ Active(tx.events, r) = {}}

LEMMA BaseCommit ==
  ASSUME Base, Evaluation, Commit
  PROVE  /\ Base' /\ s'.pc = "reports" /\ s'.at = s.at /\ s'.due = s.due /\ s'.copies = s.copies
         /\ tx' = NoTx /\ tx.open /\ tx.at = now
         /\ hist'.hot = tx.hot /\ hist'.when = now /\ hist'.lost = hist.lost /\ hist'.repeats = hist.repeats
         /\ hist'.torn = hist.torn /\ hist'.since = hist.since
         /\ \A r \in AlertRules :
              hist'.quiet[r] = IF r \in Over THEN now + Cooldown[r] ELSE hist.quiet[r]
<1>1. tx.open /\ tx.at = now /\ tx' = NoTx /\ tx' \in Tx /\ ~tx'.open
  BY NoTransaction DEF Base, Rhythm, Commit
<1>2. /\ s' \in SamplerState /\ s'.pc = "reports"
      /\ s'.at = s.at /\ s'.due = s.due /\ s'.copies = s.copies
  BY Types DEF Base, Commit, SamplerState
<1> DEFINE quiet == [r \in AlertRules |-> IF r \in Over THEN tx.at + Cooldown[r] ELSE hist.quiet[r]]
<1>3. quiet \in [AlertRules -> Nat]
  <2>1. \A r \in AlertRules : tx.at \in Nat /\ Cooldown[r] \in Nat /\ hist.quiet[r] \in Nat
    BY <1>1, Parts DEF Base
  <2>2. \A r \in AlertRules : tx.at + Cooldown[r] \in Nat
    BY <2>1
  <2>3. QED
    BY <2>1, <2>2
<1>4. hist' = [hist EXCEPT !.hot = tx.hot, !.when = tx.at, !.quiet = quiet]
  BY Types DEF Base, Commit, Over, History
<1>5. \A r \in AlertRules :
        quiet[r] = IF r \in Over THEN now + Cooldown[r] ELSE hist.quiet[r]
  BY <1>1
<1> HIDE DEF quiet
<1>6. /\ hist' \in History
      /\ hist'.hot = tx.hot /\ hist'.when = tx.at /\ hist'.lost = hist.lost
      /\ hist'.repeats = hist.repeats /\ hist'.quiet = quiet
      /\ hist'.torn = hist.torn /\ hist'.since = hist.since
  <2>1. tx.hot \in SUBSET AlertRules /\ tx.at \in Times
    BY Parts DEF Base
  <2>2. QED
    BY <1>3, <1>4, <2>1, Types DEF Base, History
<1>7. TypeOK'
  <2>1. rules' \in [AlertRules -> States]
    BY Parts, Types DEF Base, Commit
  <2>2. events' \subseteq Event /\ \A e \in events' : \E x \in snaps : x.at = e.snap
    BY <1>1, Parts, Types DEF Base, Commit, Evaluation
  <2>3. UNCHANGED <<now, snaps, reports, runs, form, faults, edits>>
    BY DEF Commit, bounds
  <2>4. QED
    BY <1>1, <1>2, <1>6, <2>1, <2>2, <2>3 DEF Base, TypeOK
<1>8. Rhythm'
  BY <1>1, <1>2 DEF Base, Rhythm, Commit, Dispatching
<1>9. QED
  BY <1>1, <1>2, <1>5, <1>6, <1>7, <1>8 DEF Base

\* Steps of the reports, which no transaction sees.
LEMMA BaseReporting ==
  ASSUME Base, s.pc \in {"reports", "report", "notify", "save"}, s'.pc \in {"report", "notify", "save", "prune"},
         s' \in SamplerState, s'.at = s.at, s'.pc # "prune" => s'.due # {},
         UNCHANGED <<now, snaps, rules, events, tx, form>>, hist' \in History,
         reports' \in [ReportRules -> Report], runs' \subseteq Run, Fault \/ UNCHANGED bounds
  PROVE  Base'
<1>1. tx \in Tx /\ ~tx.open /\ tx = NoTx
  BY Types DEF Base, Rhythm
<1>2. TypeOK'
  BY TypesOf, Types DEF Base
<1>3. Rhythm'
  BY <1>1 DEF Base, Rhythm, Dispatching
<1>4. QED
  BY <1>2, <1>3 DEF Base

\* Steps of the reports to sleep.
LEMMA BaseAwaits ==
  ASSUME Base, s.pc \in Dispatching, NEW t \in Nat, Sleeps(t), now' \in Times, now <= now', now' < t,
         t <= now' + Interval,
         UNCHANGED <<snaps, rules, events, tx, form, reports, runs>>, hist' \in History,
         Fault \/ UNCHANGED bounds
  PROVE  Base' /\ s'.pc = "sleep" /\ s'.wake = t
<1>1. tx \in Tx /\ ~tx.open /\ tx = NoTx
  BY Types DEF Base, Rhythm, Dispatching
<1>2. s' \in SamplerState /\ s'.pc = "sleep" /\ s'.wake = t
  BY Sleeping DEF Base
<1>3. TypeOK'
  BY <1>2, TypesOf, Types DEF Base
<1>4. Rhythm'
  BY <1>1, <1>2, Rests, Parts DEF Base, Times, Dispatching
<1>5. QED
  BY <1>2, <1>3, <1>4 DEF Base

LEMMA Ceiling ==
  ASSUME NEW a \in Nat \ {0}, NEW b \in Nat \ {0}
  PROVE  Ceil(a, b) \in Nat \ {0} /\ a <= b * Ceil(a, b) /\ b * (Ceil(a, b) - 1) < a
<1> DEFINE q == (a + b - 1) \div b
<1>1. q \in Int /\ b * q <= a + b - 1 /\ a + b - 1 < b * q + b
  BY Division
<1>2. Ceil(a, b) = q
  BY DEF Ceil
<1> HIDE DEF q
<1>3. b * q >= a /\ b * q > 0
  BY <1>1
<1>4. q > 0
  BY <1>1, <1>3
<1>5. b * (q - 1) = b * q - b
  BY <1>1
<1>6. QED
  BY <1>1, <1>2, <1>3, <1>4, <1>5

LEMMA BucketSizes ==
  /\ Bucket \in Nat \ {0} /\ Buckets \in Nat \ {0} /\ Interval <= Bucket
  /\ Bucket * (Buckets - 1) < Period /\ Period <= Bucket * Buckets
<1>1. Period \in Nat \ {0} /\ TargetPoints \in Nat \ {0} /\ Interval \in Nat \ {0}
  OBVIOUS
<1>2. Ceil(Period, TargetPoints) \in Nat \ {0}
  BY <1>1, Ceiling
<1>3. Bucket \in Nat \ {0} /\ Interval <= Bucket
  BY <1>1, <1>2, MaxOfTwo DEF Bucket
<1>4. /\ Ceil(Period, Bucket) \in Nat \ {0}
      /\ Period <= Bucket * Ceil(Period, Bucket) /\ Bucket * (Ceil(Period, Bucket) - 1) < Period
  BY <1>1, <1>3, Ceiling
<1>5. Buckets = Ceil(Period, Bucket)
  BY <1>4, MaxOfTwo DEF Buckets
<1>6. QED
  BY <1>3, <1>4, <1>5

LEMMA GeneratedIsRun ==
  ASSUME TypeOK, NEW w \in ReportRules
  PROVE  LET x == Generated(w, s.at) IN
         /\ x \in Run /\ x.rule = w /\ x.end = s.at /\ x.start = s.at - Period
         /\ x.seen \subseteq x.start..x.end /\ x.missing = Missing(x.seen, x.start, x.end)
<1> DEFINE start == s.at - Period
           seen == {x.at : x \in {y \in snaps : y.at >= start /\ y.at <= s.at}}
           missing == Missing(seen, start, s.at)
<1>1. s.at \in Times /\ s.at \in Int /\ start \in Int
  BY Types DEF SamplerState, Times
<1>2. seen \in SUBSET Times /\ seen \subseteq start..s.at
  BY <1>1, Types DEF Snapshot, Times
<1>3. missing \in SUBSET (Int \X Int)
  <2>1. ASSUME NEW i \in 0..(Buckets - 1), NEW j \in 0..(Buckets - 1)
        PROVE  <<start + i * Bucket, IF j = Buckets - 1 THEN s.at ELSE start + (j + 1) * Bucket>>
                 \in Int \X Int
    <3>1. i \in Int /\ j \in Int /\ Bucket \in Int
      BY BucketSizes
    <3>2. i * Bucket \in Int /\ (j + 1) * Bucket \in Int
      BY <3>1
    <3>3. QED
      BY <1>1, <3>2
  <2>2. ASSUME NEW m \in missing
        PROVE  \E p \in (0..(Buckets - 1)) \X (0..(Buckets - 1)) :
                 m = <<start + p[1] * Bucket,
                       IF p[2] = Buckets - 1 THEN s.at ELSE start + (p[2] + 1) * Bucket>>
    BY <2>2, Zenon DEF Missing
  <2> HIDE DEF missing, start
  <2>3. ASSUME NEW m \in missing PROVE m \in Int \X Int
    <3>1. PICK p \in (0..(Buckets - 1)) \X (0..(Buckets - 1)) :
                 m = <<start + p[1] * Bucket,
                       IF p[2] = Buckets - 1 THEN s.at ELSE start + (p[2] + 1) * Bucket>>
      BY <2>2, <2>3
    <3>2. p[1] \in 0..(Buckets - 1) /\ p[2] \in 0..(Buckets - 1)
      OBVIOUS
    <3>3. QED
      BY <2>1, <3>1, <3>2
  <2>4. QED
    BY <2>3
<1>4. Generated(w, s.at) = [rule |-> w, start |-> start, end |-> s.at, seen |-> seen, missing |-> missing]
  BY Zenon DEF Generated
<1> HIDE DEF missing, seen, start
<1>5. Generated(w, s.at) \in Run
  BY <1>1, <1>2, <1>3, <1>4 DEF Run
<1>6. QED
  BY <1>2, <1>4, <1>5 DEF missing, start

LEMMA BaseDispatch ==
  ASSUME Base, Dispatch
  PROVE  /\ Base' /\ s'.at = s.at /\ s'.due = {w \in ReportRules : Due(w)}
         /\ s'.pc = IF s'.due = {} THEN "prune" ELSE "report"
         /\ \A w \in s'.due : s'.copies[w] = reports[w].next
<1> DEFINE due == {w \in ReportRules : Due(w)}
           copies == [w \in ReportRules |-> IF w \in due THEN reports[w].next ELSE 0]
<1>1. copies \in [ReportRules -> Nat]
  BY Types DEF Base, Report
<1>2. due \in SUBSET ReportRules
  OBVIOUS
<1>3. s' = [s EXCEPT !.pc = IF due = {} THEN "prune" ELSE "report", !.due = due, !.copies = copies]
  BY DEF Dispatch
<1>4. \A w \in due : copies[w] = reports[w].next
  OBVIOUS
<1> HIDE DEF copies, due
<1>5. /\ s' \in SamplerState /\ s'.at = s.at /\ s'.due = due /\ s'.copies = copies
      /\ s'.pc = IF due = {} THEN "prune" ELSE "report"
  BY <1>1, <1>2, <1>3, Types DEF Base, SamplerState
<1>6. Base'
  BY <1>5, BaseReporting, Types DEF Base, Dispatch
<1>7. QED
  BY <1>4, <1>5, <1>6 DEF due

LEMMA BaseGenerate ==
  ASSUME Base, Generate
  PROVE  /\ Base' /\ Reported \in s.due /\ Reported \in ReportRules
         /\ \/ /\ reports[Reported].state = "gone" /\ s'.pc = "sleep" /\ s'.wake = now + Interval /\ runs' = runs
            \/ /\ reports[Reported].state # "gone" /\ s'.pc = "notify" /\ s'.at = s.at /\ s'.due = s.due
               /\ s'.copies = s.copies /\ runs' = runs \cup {Generated(Reported, s.at)}
<1>1. s.pc \in Dispatching /\ s.due # {} /\ UNCHANGED <<now, snaps, rules, events, tx, reports, form, hist, bounds>>
  BY DEF Base, Rhythm, Generate, Dispatching
<1>2. Reported \in s.due /\ Reported \in ReportRules
  BY <1>1, TornTypes DEF Base
<1>3. CASE reports[Reported].state = "gone"
  <2>1. runs' = runs /\ Sleeps(now + Interval) /\ now + Interval \in Nat
    BY <1>3, Parts DEF Base, Generate
  <2>2. Base' /\ s'.pc = "sleep" /\ s'.wake = now + Interval
    BY <1>1, <2>1, BaseAwaits, Types, Parts DEF Base
  <2>3. QED
    BY <1>2, <1>3, <2>1, <2>2
<1>4. CASE reports[Reported].state # "gone"
  <2>1. runs' = runs \cup {Generated(Reported, s.at)} /\ s' = [s EXCEPT !.pc = "notify"]
    BY <1>4 DEF Generate
  <2>2. /\ s' \in SamplerState /\ s'.pc = "notify" /\ s'.at = s.at /\ s'.due = s.due
        /\ s'.copies = s.copies
    BY <2>1, Types DEF Base, SamplerState
  <2>3. runs' \subseteq Run
    BY <1>2, <2>1, GeneratedIsRun, Types DEF Base
  <2>4. Base'
    BY <1>1, <2>2, <2>3, BaseReporting, Types DEF Base, Generate
  <2>5. QED
    BY <1>2, <1>4, <2>1, <2>2, <2>4
<1>5. QED
  BY <1>3, <1>4

LEMMA BaseNotified ==
  ASSUME Base, Notified
  PROVE  /\ Base' /\ Reported \in s.due /\ Reported \in ReportRules
         /\ \/ reports[Reported].state = "gone" /\ s'.pc = "sleep" /\ s'.wake = now + Interval
            \/ s'.pc = "save" /\ s'.at = s.at /\ s'.due = s.due /\ s'.copies = s.copies
<1>1. s.pc \in Dispatching /\ s.due # {}
  BY DEF Base, Rhythm, Notified, Dispatching
<1>2. Reported \in s.due /\ Reported \in ReportRules
  BY <1>1, TornTypes DEF Base
<1>3. CASE reports[Reported].state = "gone"
  <2>1. Sleeps(now + Interval) /\ now + Interval \in Nat
    BY <1>3, Parts DEF Base, Notified
  <2>2. Base' /\ s'.pc = "sleep" /\ s'.wake = now + Interval
    BY <1>1, <2>1, BaseAwaits, Types, Parts DEF Base, Notified
  <2>3. QED
    BY <1>2, <1>3, <2>2
<1>4. CASE reports[Reported].state # "gone"
  <2>1. s' = [s EXCEPT !.pc = "save"]
    BY <1>4 DEF Notified
  <2>2. /\ s' \in SamplerState /\ s'.pc = "save" /\ s'.at = s.at /\ s'.due = s.due
        /\ s'.copies = s.copies
    BY <2>1, Types DEF Base, SamplerState
  <2>3. Base'
    BY <1>1, <2>2, BaseReporting, Types DEF Base, Notified
  <2>4. QED
    BY <1>2, <1>4, <2>2, <2>3
<1>5. QED
  BY <1>3, <1>4

LEMMA BaseNotifyingHangs ==
  ASSUME Base, NotifyingHangs
  PROVE  /\ Base' /\ s'.pc = "sleep" /\ s'.wake = now + 1 + Interval /\ now' = now + 1
         /\ s.due # {} /\ Reported \in s.due
<1>1. s.pc \in Dispatching /\ s.due # {}
  BY DEF Base, Rhythm, NotifyingHangs, Dispatching
<1>2. now' = now + 1 /\ now' \in Times /\ Sleeps(now + 1 + Interval) /\ now + 1 + Interval \in Nat
  BY Counted, Parts DEF Base, NotifyingHangs
<1>3. hist' \in History /\ Reported \in s.due
  BY <1>1, TornTypes DEF Base, NotifyingHangs
<1>4. Base' /\ s'.pc = "sleep" /\ s'.wake = now + 1 + Interval
  BY <1>1, <1>2, <1>3, BaseAwaits, Types, Parts DEF Base, NotifyingHangs
<1>5. QED
  BY <1>1, <1>2, <1>3, <1>4

LEMMA BaseSaveRule ==
  ASSUME Base, Schedule, SaveRule
  PROVE  /\ Base' /\ Reported \in s.due /\ Reported \in ReportRules
         /\ \/ /\ reports[Reported].state = "gone" /\ reports' = reports
               /\ s'.pc = "sleep" /\ s'.wake = now + Interval
            \/ /\ reports[Reported].state # "gone"
               /\ s'.pc = IF s'.due = {} THEN "prune" ELSE "report"
               /\ s'.at = s.at /\ s'.due = s.due \ {Reported}
               /\ \A w \in ReportRules \ {Reported} : s'.copies[w] = s.copies[w] /\ reports'[w] = reports[w]
               /\ reports'[Reported].next = NextRun(s.copies[Reported], s.at)
               /\ reports'[Reported].state = reports[Reported].state
<1>1. s.pc \in Dispatching /\ s.due # {}
  BY DEF Base, Rhythm, SaveRule, Dispatching
<1>2. Reported \in s.due /\ Reported \in ReportRules
  BY <1>1, TornTypes DEF Base
<1>3. CASE reports[Reported].state = "gone"
  <2>1. Sleeps(now + Interval) /\ now + Interval \in Nat /\ reports' = reports
    BY <1>3, Parts DEF Base, SaveRule
  <2>2. Base' /\ s'.pc = "sleep" /\ s'.wake = now + Interval
    BY <1>1, <2>1, BaseAwaits, Types, Parts DEF Base, SaveRule
  <2>3. QED
    BY <1>2, <1>3, <2>1, <2>2
<1>4. CASE reports[Reported].state # "gone"
  <2> DEFINE w == Reported
             rest == s.due \ {w}
             next == NextRun(s.copies[w], s.at)
  <2>1. /\ reports' = [reports EXCEPT ![w].next = next]
        /\ s' = [s EXCEPT !.pc = IF rest = {} THEN "prune" ELSE "report", !.due = rest, !.copies[w] = 0]
    BY <1>4, Zenon DEF SaveRule
  <2>2. next \in Nat
    <3>1. s.copies[w] \in Multiples /\ s.copies[w] <= s.at /\ s.at \in Nat
      BY <1>1, <1>2, Parts DEF Base, Schedule
    <3>2. next \in Multiples
      BY <3>1, NextRunIsNext
    <3>3. QED
      BY <3>2 DEF Multiples
  <2>3. w \in s.due /\ w \in ReportRules
    BY <1>2
  <2> HIDE DEF next, w
  <2>4. /\ s' \in SamplerState /\ s'.at = s.at /\ s'.due = rest
        /\ s'.pc = (IF rest = {} THEN "prune" ELSE "report")
        /\ \A v \in ReportRules \ {w} : s'.copies[v] = s.copies[v]
    BY <2>1, <2>3, Types DEF Base, SamplerState
  <2>5. /\ reports' \in [ReportRules -> Report]
        /\ reports'[w].next = next /\ reports'[w].state = reports[w].state
        /\ \A v \in ReportRules \ {w} : reports'[v] = reports[v]
    BY <2>1, <2>2, <2>3, Types DEF Base, Report
  <2>6. Base'
    BY <1>1, <2>4, <2>5, BaseReporting, Types DEF Base, SaveRule
  <2>7. QED
    BY <1>2, <1>4, <2>4, <2>5, <2>6 DEF w, next
<1>5. QED
  BY <1>3, <1>4

LEMMA BaseDispatchFails ==
  ASSUME Base, DispatchFails
  PROVE  /\ Base' /\ s'.pc = "prune" /\ s'.at = s.at /\ s'.due = {} /\ s.due # {} /\ Reported \in s.due
<1>1. s.pc \in Dispatching /\ s.due # {}
  BY DEF Base, Rhythm, DispatchFails, Dispatching
<1>2. hist' \in History /\ Reported \in s.due
  BY <1>1, TornTypes, Types DEF Base, DispatchFails
<1> DEFINE copies == [w \in ReportRules |-> 0]
<1>3. copies \in [ReportRules -> Nat]
  OBVIOUS
<1>4. s' = [s EXCEPT !.pc = "prune", !.due = {}, !.copies = copies]
  BY DEF DispatchFails
<1> HIDE DEF copies
<1>5. s' \in SamplerState /\ s'.pc = "prune" /\ s'.at = s.at /\ s'.due = {}
  BY <1>3, <1>4, Types DEF Base, SamplerState
<1>6. Base'
  BY <1>1, <1>2, <1>5, BaseReporting, Types DEF Base, DispatchFails, Dispatching
<1>7. QED
  BY <1>1, <1>2, <1>5, <1>6

LEMMA BaseCrash ==
  ASSUME Base, Crash
  PROVE  /\ Base' /\ s'.pc = "sleep" /\ s'.wake = now + 1 /\ tx' = NoTx
         /\ s.pc \in {"notify", "save"} => s.due # {} /\ tx.sent = {} /\ hist' = [Torn(hist) EXCEPT !.lost = @ \cup {}]
         /\ s.pc \notin {"notify", "save"} =>
              \/ hist' = [hist EXCEPT !.lost = @ \cup tx.sent]
              \/ /\ tx.asked \in AlertRules
                 /\ hist' = [Heard(hist, tx.asked) EXCEPT !.lost = @ \cup (tx.sent \cup {tx.asked})]
<1>1. s' \in SamplerState /\ s'.pc = "sleep" /\ s'.wake = now + 1
  BY Sleeping, Parts DEF Base, Crash
<1>2. tx' = NoTx /\ tx' \in Tx /\ ~tx'.open
  BY NoTransaction DEF Crash
<1>3. \A h \in History, more \in SUBSET AlertRules : [h EXCEPT !.lost = @ \cup more] \in History
  BY DEF History
<1>4. tx.sent \in SUBSET AlertRules /\ hist \in History
  BY Parts, Types DEF Base
<1>5. CASE s.pc \in {"notify", "save"}
  <2>1. s.due # {} /\ tx.sent = {} /\ tx.asked = None
    BY <1>5, NoTransaction DEF Base, Rhythm, Dispatching
  <2>2. hist' = [Torn(hist) EXCEPT !.lost = @ \cup {}]
    BY <1>5, <2>1 DEF Crash
  <2>3. Torn(hist) \in History
    BY <2>1, TornTypes DEF Base
  <2>4. hist' \in History
    BY <1>3, <2>2, <2>3
  <2>5. QED
    <3>1. TypeOK'
      BY <1>1, <1>2, <2>4, TypesOf, Types DEF Base, Crash
    <3>2. Rhythm'
      BY <1>1, <1>2, Rests, Parts DEF Base, Crash
    <3>3. QED
      BY <1>1, <1>2, <1>5, <2>1, <2>2, <3>1, <3>2 DEF Base
<1>6. CASE s.pc \notin {"notify", "save"}
  <2>1. \/ hist' = [hist EXCEPT !.lost = @ \cup tx.sent]
        \/ /\ tx.asked \in AlertRules
           /\ hist' = [Heard(hist, tx.asked) EXCEPT !.lost = @ \cup (tx.sent \cup {tx.asked})]
    <3>1. CASE hist' = [hist EXCEPT !.lost = @ \cup tx.sent]
      BY <3>1
    <3>2. CASE tx.asked # None /\ hist' = [Heard(hist, tx.asked) EXCEPT !.lost = @ \cup tx.sent \cup {tx.asked}]
      <4>1. tx.asked \in AlertRules /\ Heard(hist, tx.asked) \in History
        BY <3>2, HeardTypes, Parts DEF Base
      <4>2. Heard(hist, tx.asked).lost \cup tx.sent \cup {tx.asked}
              = Heard(hist, tx.asked).lost \cup (tx.sent \cup {tx.asked})
        OBVIOUS
      <4>3. QED
        BY <3>2, <4>1, <4>2 DEF History
    <3>3. QED
      BY <1>6, <3>1, <3>2 DEF Crash
  <2>2. hist' \in History
    <3>1. tx.asked \in AlertRules =>
            Heard(hist, tx.asked) \in History /\ tx.sent \cup {tx.asked} \in SUBSET AlertRules
      BY <1>4, HeardTypes DEF Base
    <3>2. CASE hist' = [hist EXCEPT !.lost = @ \cup tx.sent]
      BY <1>3, <1>4, <3>2, Types DEF Base
    <3>3. CASE /\ tx.asked \in AlertRules
               /\ hist' = [Heard(hist, tx.asked) EXCEPT !.lost = @ \cup (tx.sent \cup {tx.asked})]
      BY <1>3, <3>1, <3>3
    <3>4. QED
      BY <2>1, <3>2, <3>3
  <2>3. TypeOK'
    BY <1>1, <1>2, <2>2, TypesOf, Types DEF Base, Crash
  <2>4. Rhythm'
    BY <1>1, <1>2, Rests, Parts DEF Base, Crash
  <2>5. QED
    BY <1>1, <1>2, <1>6, <2>1, <2>3, <2>4 DEF Base
<1>7. QED
  BY <1>5, <1>6

\* What the sampler has when somebody else writes.
LEMMA DisturbedTx ==
  ASSUME Base
  PROVE  LET t == Disturbed IN
         /\ t \in Tx /\ t.open = tx.open /\ t.at = tx.at /\ t.rules = tx.rules /\ t.events = tx.events
         /\ t.todo = tx.todo /\ t.wrote = tx.wrote /\ t.asked = tx.asked /\ t.sent = tx.sent
         /\ t.hot = tx.hot /\ (~tx.open => t = NoTx)
BY Types DEF Base, Rhythm, Disturbed, Tx

\* The steps of the users.
LEMMA BaseUser ==
  ASSUME Base, UNCHANGED <<now, snaps, s>>, tx' = Disturbed \/ tx' = tx,
         rules' \in [AlertRules -> States], events' \subseteq events,
         reports' \in [ReportRules -> Report], runs' \subseteq runs, form' \in Form, hist' \in History,
         Edit \/ UNCHANGED bounds
  PROVE  Base'
<1>1. tx' \in Tx /\ tx'.open = tx.open /\ tx'.at = tx.at /\ (~tx.open => tx' = NoTx)
  BY DisturbedTx, Types DEF Base, Rhythm
<1>2. TypeOK'
  BY <1>1, TypesOf, Types DEF Base
<1>3. Rhythm'
  BY <1>1 DEF Base, Rhythm, Dispatching
<1>4. QED
  BY <1>2, <1>3 DEF Base

LEMMA BaseToggleAlert ==
  ASSUME Base, NEW r \in AlertRules, ToggleAlert(r)
  PROVE  Base' /\ \A q \in AlertRules : rules'[q] = "gone" => rules[q] = "gone"
<1>1. rules' \in [AlertRules -> States] /\ \A q \in AlertRules : rules'[q] = "gone" => rules[q] = "gone"
  BY Types DEF Base, ToggleAlert, States
<1>2. Base'
  BY <1>1, BaseUser, Types DEF Base, ToggleAlert
<1>3. QED
  BY <1>1, <1>2

LEMMA BaseDeleteAlert ==
  ASSUME Base, NEW r \in AlertRules, DeleteAlert(r)
  PROVE  /\ Base' /\ hist' = [hist EXCEPT !.lost = @ \cup {r}]
         /\ \A q \in AlertRules \ {r} : rules'[q] = rules[q]
         /\ events' = {e \in events : e.rule # r}
<1>1. rules' \in [AlertRules -> States] /\ \A q \in AlertRules \ {r} : rules'[q] = rules[q]
  BY Types DEF Base, DeleteAlert, States
<1>2. hist' = [hist EXCEPT !.lost = @ \cup {r}] /\ hist' \in History
  BY Types DEF Base, DeleteAlert, History
<1>3. events' = {e \in events : e.rule # r}
  BY DEF DeleteAlert, EventsOf
<1>4. Base'
  BY <1>1, <1>2, <1>3, BaseUser, Types DEF Base, DeleteAlert
<1>5. QED
  BY <1>1, <1>2, <1>3, <1>4

LEMMA BaseOpenForm ==
  ASSUME Base, NEW w \in ReportRules, OpenForm(w)
  PROVE  /\ Base' /\ form'.rule = w /\ form'.next = reports[w].next /\ form'.state # "gone" /\ form'.open
<1>1. /\ form' \in Form /\ form'.rule = w /\ form'.next = reports[w].next /\ form'.state # "gone"
      /\ form'.open
  BY Types DEF Base, OpenForm, Form, Report, States
<1>2. Base'
  BY <1>1, BaseUser, Types DEF Base, OpenForm
<1>3. QED
  BY <1>1, <1>2

LEMMA BaseSaveForm ==
  ASSUME Base, SaveForm, form.rule \in ReportRules
  PROVE  LET w == form.rule IN
         /\ Base' /\ ~form'.open
         /\ reports'[w].state = form.state /\ reports'[w].next = form.next
         /\ \A v \in ReportRules \ {w} : reports'[v] = reports[v] /\ hist'.since[v] = hist.since[v]
         /\ hist'.torn = IF reports[w].next # form.next THEN hist.torn \cup {w} ELSE hist.torn
         /\ form.state = "on" => hist'.since[w] = now
         /\ hist'.hot = hist.hot /\ hist'.when = hist.when /\ hist'.quiet = hist.quiet
         /\ hist'.repeats = hist.repeats /\ hist'.lost = hist.lost
<1> DEFINE w == form.rule
           torn == IF reports[w].next # form.next THEN hist.torn \cup {w} ELSE hist.torn
           since == [hist.since EXCEPT ![w] = IF form.state = "on" THEN now ELSE @]
<1>1. w \in ReportRules /\ form.state \in States /\ form.next \in Nat
  BY Parts DEF Base
<1>2. /\ reports' \in [ReportRules -> Report]
      /\ reports'[w].state = form.state /\ reports'[w].next = form.next
      /\ \A v \in ReportRules \ {w} : reports'[v] = reports[v]
  BY <1>1, Types DEF Base, SaveForm, Report
<1>3. torn \in SUBSET ReportRules
  BY <1>1, Parts DEF Base
<1>4. /\ since \in [ReportRules -> Times] /\ \A v \in ReportRules \ {w} : since[v] = hist.since[v]
      /\ form.state = "on" => since[w] = now
  BY <1>1, Parts, Types DEF Base
<1>5. hist' = [hist EXCEPT !.torn = torn, !.since = since]
  BY Types DEF Base, SaveForm, History
<1> HIDE DEF torn, since
<1>6. /\ hist' \in History /\ hist'.torn = torn /\ hist'.since = since /\ hist'.hot = hist.hot
      /\ hist'.when = hist.when /\ hist'.quiet = hist.quiet
      /\ hist'.repeats = hist.repeats /\ hist'.lost = hist.lost
  BY <1>3, <1>4, <1>5, Types DEF Base, History
<1>7. form' \in Form /\ ~form'.open
  BY DEF SaveForm, NoForm, Form, States
<1>8. Base'
  BY <1>2, <1>6, <1>7, BaseUser, Types DEF Base, SaveForm
<1>9. QED
  BY <1>2, <1>4, <1>6, <1>7, <1>8 DEF torn

LEMMA BaseDeleteReport ==
  ASSUME Base, NEW w \in ReportRules, DeleteReport(w)
  PROVE  /\ Base' /\ reports'[w].state = "gone" /\ reports'[w].next = reports[w].next
         /\ \A v \in ReportRules \ {w} : reports'[v] = reports[v]
<1>1. /\ reports' \in [ReportRules -> Report]
      /\ reports'[w].state = "gone" /\ reports'[w].next = reports[w].next
      /\ \A v \in ReportRules \ {w} : reports'[v] = reports[v]
  BY Types DEF Base, DeleteReport, Report, States
<1>2. runs' \subseteq runs
  BY DEF DeleteReport
<1>3. Base'
  BY <1>1, <1>2, BaseUser, Types DEF Base, DeleteReport
<1>4. QED
  BY <1>1, <1>3

-----------------------------------------------------------------------------
(* Schedule, Kept and InTime: the reports *)

Timely == Schedule /\ Kept /\ InTime

\* Multiples are numbers; the least one after 0 is Cadence.
LEMMA MultiplesAre == \A due \in Multiples : due \in Nat /\ (due # 0 => due >= Cadence)
<1>1. ASSUME NEW due \in Multiples PROVE due \in Nat /\ (due # 0 => due >= Cadence)
  <2>1. PICK k \in Nat : due = Cadence * k
    BY DEF Multiples
  <2>2. due # 0 => k >= 1
    BY <2>1
  <2>3. k >= 1 => Cadence * k >= Cadence
    OBVIOUS
  <2>4. QED
    BY <2>1, <2>2, <2>3
<1>2. QED
  BY <1>1

\* A report stays reported.
LEMMA StaysReported ==
  ASSUME Base, Base', Slack <= Slack', NEW w \in ReportRules, \A x \in runs : x.rule = w => x \in runs'
  PROVE  \A due \in Nat : ReportedIn(w, due) => ReportedIn(w, due)'
<1>1. Slack \in Nat /\ Slack' \in Nat
  BY SlackGrows DEF Base, Slack, TypeOK
<1>2. ASSUME NEW due \in Nat, ReportedIn(w, due) PROVE ReportedIn(w, due)'
  <2>1. PICK x \in runs : x.rule = w /\ x.end \in due..(due + Slack)
    BY <1>2 DEF ReportedIn
  <2>2. x \in runs' /\ x.end \in due..(due + Slack')
    BY <1>1, <2>1
  <2>3. QED
    BY <2>1, <2>2 DEF ReportedIn
<1>3. QED
  BY <1>2

\* What failures, time and deletions do to the slack.
LEMMA SlackIs ==
  ASSUME Base
  PROVE  /\ Slack \in Nat /\ Slack >= Interval
         /\ UNCHANGED bounds => Slack' = Slack /\ Slack' \in Nat
         /\ Fault => Slack' = Slack + Interval + 1 /\ Slack' \in Nat
         /\ Edit => Slack' = Slack + Interval /\ Slack' \in Nat
BY SlackGrows DEF Base

\* A step of the sampler that does not touch the reports nor their rules, runs and
\* forms, while it does not dispatch.
LEMMA TimelyKept ==
  ASSUME Base, Base', Timely, UNCHANGED <<reports, runs, form>>,
         hist'.torn = hist.torn, hist'.since = hist.since,
         s.pc \notin Dispatching, s'.pc \notin Dispatching,
         Fault \/ Edit \/ UNCHANGED bounds, now <= now',
         \A due \in Nat :
           /\ s.pc = "sleep" => s.wake <= due + Slack
           /\ s.pc # "sleep" => now <= due + Slack
           /\ s.pc = "prune" => now + Interval <= due + Slack
           => /\ s'.pc = "sleep" => s'.wake <= due + Slack'
              /\ s'.pc # "sleep" => now' <= due + Slack'
              /\ s'.pc = "prune" => now' + Interval <= due + Slack'
  PROVE  Timely'
<1>1. Slack \in Nat /\ Slack' \in Nat /\ Slack <= Slack' /\ now \in Nat /\ now' \in Nat
  BY SlackIs, Types, Parts DEF Base, Times, TypeOK
<1>2. \A due \in Multiples : due \in Nat
  BY MultiplesAre
<1>3. Schedule'
  BY DEF Timely, Schedule, OneReportPerOccasion, Made, Dispatching
<1>4. Kept'
  <2>1. \A w \in ReportRules, due \in Nat : ReportedIn(w, due) => ReportedIn(w, due)'
    BY <1>1, StaysReported
  <2>2. form.open => form.rule \in ReportRules
    BY DEF Timely, Schedule
  <2>3. ASSUME NEW w \in ReportRules, NEW due \in Multiples \ {0}, reports'[w].state # "gone",
               due < reports'[w].next,
               due >= now' \/ (reports'[w].state = "on" /\ due >= hist'.since[w])
        PROVE  ReportedIn(w, due)'
    <3>1. ReportedIn(w, due)
      BY <1>1, <1>2, <2>3 DEF Timely, Kept
    <3>2. QED
      BY <1>2, <2>1, <3>1
  <2>4. ASSUME form'.open, NEW due \in Multiples \ {0}, due < form'.next, due >= now'
        PROVE  ReportedIn(form.rule, due)'
    <3>1. ReportedIn(form.rule, due)
      BY <1>1, <1>2, <2>4 DEF Timely, Kept
    <3>2. form.rule \in ReportRules
      BY <2>2, <2>4
    <3>3. QED
      BY <1>2, <2>1, <3>1, <3>2
  <2>5. QED
    BY <2>3, <2>4 DEF Kept
<1>5. InTime'
  <2>1. ASSUME NEW w \in ReportRules, NEW due \in Multiples \ {0}, Waits(w, due)
        PROVE  Waits(w, due)'
    BY <1>2, <2>1 DEF Waits, Dispatching
  <2>2. QED
    BY <2>1 DEF Timely, InTime
<1>6. QED
  BY <1>3, <1>4, <1>5 DEF Timely

LEMMA TimelyTick == ASSUME Base, Timely, Tick PROVE Timely'
<1>1. Base' /\ UNCHANGED <<reports, runs, form, bounds, s>> /\ hist' = hist /\ s.pc = "sleep"
      /\ now <= now'
  BY BaseTick, Parts DEF Tick, Base
<1>2. Slack' = Slack
  BY <1>1, SlackIs
<1>3. QED
  BY <1>1, <1>2, TimelyKept DEF Dispatching

LEMMA TimelyCollect == ASSUME Base, Timely, Collect PROVE Timely'
<1>1. /\ Base' /\ UNCHANGED <<reports, runs, form, bounds, now>> /\ hist' = hist
      /\ s.pc = "sleep" /\ s'.pc = "alerts" /\ now = s.wake
  BY BaseCollect DEF Collect
<1>2. Slack' = Slack /\ now \in Nat
  BY <1>1, SlackIs, Parts DEF Base
<1>3. QED
  BY <1>1, <1>2, TimelyKept DEF Dispatching

LEMMA TimelyCollectFails == ASSUME Base, Timely, CollectFails PROVE Timely'
<1>1. /\ Base' /\ UNCHANGED <<reports, runs, form, now>> /\ hist' = hist /\ Fault
      /\ s.pc = "sleep" /\ s'.pc = "sleep" /\ now = s.wake /\ s'.wake = now + 1
  BY BaseCollectFails, Parts DEF CollectFails, Base, Rhythm
<1>2. Slack' = Slack + Interval + 1 /\ Slack \in Nat /\ now \in Nat /\ Interval \in Nat
  BY <1>1, SlackIs, Parts DEF Base
<1>3. QED
  BY <1>1, <1>2, TimelyKept DEF Dispatching

LEMMA TimelyPrune == ASSUME Base, Timely, Prune PROVE Timely'
<1>1. /\ Base' /\ UNCHANGED <<reports, runs, form, bounds, now>>
      /\ s.pc = "prune" /\ s'.pc = "sleep" /\ s'.wake = now + Interval
      /\ hist' = [hist EXCEPT !.lost = @ \cup {e.rule : e \in Orphans}]
  BY BasePrune DEF Prune
<1>2. hist'.torn = hist.torn /\ hist'.since = hist.since
  BY <1>1, Types DEF Base, History
<1>3. Slack' = Slack /\ now \in Nat
  BY <1>1, SlackIs, Parts DEF Base
<1>4. QED
  BY <1>1, <1>2, <1>3, TimelyKept DEF Dispatching

LEMMA TimelyPruneFails == ASSUME Base, Timely, PruneFails PROVE Timely'
<1>1. /\ Base' /\ UNCHANGED <<reports, runs, form, now>> /\ hist' = hist /\ Fault
      /\ s.pc = "prune" /\ s'.pc = "sleep" /\ s'.wake = now + Interval
  BY BasePruneFails DEF PruneFails
<1>2. Slack' = Slack + Interval + 1 /\ Slack \in Nat /\ now \in Nat /\ Interval \in Nat
  BY <1>1, SlackIs, Parts DEF Base
<1>3. QED
  BY <1>1, <1>2, TimelyKept DEF Dispatching

\* The evaluation of the alerts.
LEMMA TimelyAlerts ==
  ASSUME Base, Base', Timely, UNCHANGED <<reports, runs, form, now>>,
         hist'.torn = hist.torn, hist'.since = hist.since,
         s.pc = "alerts", s'.pc \in {"alerts", "reports"}, Fault \/ UNCHANGED bounds
  PROVE  Timely'
<1>1. Slack <= Slack' /\ Slack \in Nat /\ Slack' \in Nat /\ now \in Nat
  BY SlackIs, Parts DEF Base
<1>2. \A due \in Nat :
        now <= due + Slack =>
          /\ s'.pc = "sleep" => s'.wake <= due + Slack'
          /\ s'.pc # "sleep" => now' <= due + Slack'
          /\ s'.pc = "prune" => now' + Interval <= due + Slack'
  <2>1. s'.pc # "sleep" /\ s'.pc # "prune" /\ now' = now
    OBVIOUS
  <2>2. ASSUME NEW due \in Nat, now <= due + Slack PROVE now <= due + Slack'
    BY <1>1, <2>2
  <2>3. QED
    BY <2>1, <2>2, Zenon
<1>3. s.pc # "sleep" /\ s.pc \notin Dispatching /\ s'.pc \notin Dispatching /\ now <= now'
  BY <1>1 DEF Dispatching
<1>4. QED
  BY <1>2, <1>3, TimelyKept, Zenon

LEMMA TimelyHangs == ASSUME Base, Timely, TellingHangs PROVE Timely'
<1>1. /\ Base' /\ UNCHANGED <<reports, runs, form>> /\ Fault /\ tx.asked \in AlertRules
      /\ s.pc = "alerts" /\ s'.pc = "sleep" /\ s'.wake = now + 1 + Interval /\ now' = now + 1
      /\ \/ hist' = [Heard(hist, tx.asked) EXCEPT !.lost = @ \cup (tx.sent \cup {tx.asked})]
         \/ hist' = [hist EXCEPT !.lost = @ \cup tx.sent]
  BY BaseHangs DEF TellingHangs
<1>2. hist'.torn = hist.torn /\ hist'.since = hist.since
  <2>1. /\ Heard(hist, tx.asked) \in History /\ Heard(hist, tx.asked).torn = hist.torn
        /\ Heard(hist, tx.asked).since = hist.since
    BY <1>1, HeardTypes DEF Base
  <2>2. QED
    BY <1>1, <2>1, Types DEF Base, History
<1>3. Slack' = Slack + Interval + 1 /\ Slack \in Nat /\ now \in Nat /\ Interval \in Nat
  BY <1>1, SlackIs, Parts DEF Base
<1>4. QED
  BY <1>1, <1>2, <1>3, TimelyKept DEF Dispatching

\* A step to sleep from the reports leaves the reports' rules and runs.
LEMMA TimelyAwaits ==
  ASSUME Base, Base', Timely, UNCHANGED <<reports, runs, form>>, s.pc \in Dispatching,
         hist'.torn \in {hist.torn, hist.torn \cup {Reported}}, hist'.since = hist.since,
         s'.pc \in {"sleep", "prune"}, now <= now',
         \/ hist'.torn = hist.torn \cup {Reported} \/ s.pc = "report"
         \/ reports[Reported].state = "gone" /\ Reported \in ReportRules,
         Fault \/ UNCHANGED bounds,
         \A due \in Nat, w \in ReportRules :
           Waits(w, due) => /\ s'.pc = "sleep" => s'.wake <= due + Slack'
                            /\ s'.pc = "prune" => now' + Interval <= due + Slack'
  PROVE  Timely'
<1>1. Slack \in Nat /\ Slack' \in Nat /\ Slack <= Slack' /\ now \in Nat /\ now' \in Nat /\ Interval \in Nat
  BY SlackIs, Types, Parts DEF Base, Times, TypeOK
<1>2. \A due \in Multiples : due \in Nat
  BY MultiplesAre
<1>3. Schedule'
  <2>1. ASSUME NEW x \in runs', x.rule \notin hist'.torn PROVE x.end < reports'[x.rule].next
    BY <2>1 DEF Timely, Schedule
  <2>2. OneReportPerOccasion'
    BY DEF Timely, Schedule, OneReportPerOccasion
  <2>3. QED
    BY <2>1, <2>2 DEF Timely, Schedule, Made, Dispatching
<1>4. Kept'
  <2>1. \A w \in ReportRules, due \in Nat : ReportedIn(w, due) => ReportedIn(w, due)'
    BY <1>1, StaysReported
  <2>2. form.open => form.rule \in ReportRules
    BY DEF Timely, Schedule
  <2>3. ASSUME NEW w \in ReportRules, NEW due \in Multiples \ {0}, reports'[w].state # "gone",
               due < reports'[w].next,
               due >= now' \/ (reports'[w].state = "on" /\ due >= hist'.since[w])
        PROVE  ReportedIn(w, due)'
    <3>1. ReportedIn(w, due)
      BY <1>1, <1>2, <2>3 DEF Timely, Kept
    <3>2. QED
      BY <1>2, <2>1, <3>1
  <2>4. ASSUME form'.open, NEW due \in Multiples \ {0}, due < form'.next, due >= now'
        PROVE  ReportedIn(form.rule, due)'
    <3>1. ReportedIn(form.rule, due)
      BY <1>1, <1>2, <2>4 DEF Timely, Kept
    <3>2. form.rule \in ReportRules
      BY <2>2, <2>4
    <3>3. QED
      BY <1>2, <2>1, <3>1, <3>2
  <2>5. QED
    BY <2>3, <2>4 DEF Kept
<1>5. InTime'
  <2>1. ASSUME NEW w \in ReportRules, NEW due \in Multiples \ {0}, Waits(w, due)
        PROVE  Waits(w, due)'
    <3>1. s'.pc = "sleep" => s'.wake <= due + Slack'
      BY <1>2, <2>1
    <3>2. s'.pc = "prune" => now' + Interval <= due + Slack'
      BY <1>2, <2>1
    <3>3. s'.pc = "prune" => now' <= due + Slack'
      BY <1>1, <1>2, <3>2
    <3>4. QED
      BY <3>1, <3>2, <3>3 DEF Waits, Dispatching
  <2>2. QED
    BY <2>1 DEF Timely, InTime
<1>6. QED
  BY <1>3, <1>4, <1>5 DEF Timely

\* What Kept says of one rule.
KeptOf(w) ==
  \A due \in Multiples \ {0} :
    /\ reports[w].state # "gone" /\ due < reports[w].next
    /\ due >= now \/ (reports[w].state = "on" /\ due >= hist.since[w])
    => ReportedIn(w, due)

KeptForm == form.open => \A due \in Multiples \ {0} :
  due < form.next /\ due >= now => ReportedIn(form.rule, due)

LEMMA KeptParts == Kept <=> (\A w \in ReportRules : KeptOf(w)) /\ KeptForm
BY DEF Kept, KeptOf, KeptForm

\* A step that leaves a rule and does not take its runs.
LEMMA KeptStays ==
  ASSUME Base, Base', Timely, now <= now', Slack <= Slack', NEW w \in ReportRules,
         \A x \in runs : x.rule = w => x \in runs'
  PROVE  /\ reports'[w] = reports[w] /\ hist'.since[w] = hist.since[w] => KeptOf(w)'
         /\ form.open /\ form.rule = w /\ form' = form => KeptForm'
<1>1. now \in Nat /\ now' \in Nat
  BY Types DEF Base, Times, TypeOK
<1>2. \A due \in Multiples : due \in Nat
  BY MultiplesAre
<1>3. \A due \in Nat : ReportedIn(w, due) => ReportedIn(w, due)'
  BY StaysReported
<1>4. ASSUME reports'[w] = reports[w], hist'.since[w] = hist.since[w],
             NEW due \in Multiples \ {0}, reports'[w].state # "gone",
             due < reports'[w].next,
             due >= now' \/ (reports'[w].state = "on" /\ due >= hist'.since[w])
      PROVE  ReportedIn(w, due)'
  <2>1. due >= now' => due >= now
    BY <1>1, <1>2
  <2>2. /\ reports[w].state # "gone" /\ due < reports[w].next
        /\ due >= now \/ (reports[w].state = "on" /\ due >= hist.since[w])
    BY <1>4, <2>1
  <2>3. KeptOf(w)
    BY KeptParts DEF Timely
  <2>4. ReportedIn(w, due)
    BY <2>2, <2>3 DEF KeptOf
  <2>5. QED
    BY <1>2, <1>3, <2>4
<1>5. ASSUME form.open, form.rule = w, form' = form,
             NEW due \in Multiples \ {0}, due < form'.next, due >= now'
      PROVE  ReportedIn(form.rule, due)'
  <2>1. ReportedIn(w, due)
    BY <1>1, <1>2, <1>5 DEF Timely, Kept
  <2>2. ReportedIn(w, due)'
    BY <1>2, <1>3, <2>1
  <2>3. QED
    BY <1>5, <2>2 DEF ReportedIn
<1>6. QED
  BY <1>4, <1>5 DEF KeptOf, KeptForm

\* A step of the reports that leaves their rules, or takes a deleted one's runs.
LEMMA KeptAll ==
  ASSUME Base, Base', Timely, now <= now', Fault \/ Edit \/ UNCHANGED bounds, UNCHANGED <<reports, form>>,
         hist'.since = hist.since, runs \subseteq runs'
  PROVE  Kept'
<1>1. Slack <= Slack'
  BY SlackIs
<1>2. \A w \in ReportRules : KeptOf(w)'
  BY <1>1, KeptStays
<1>3. KeptForm'
  <2>1. form.open => form.rule \in ReportRules
    BY DEF Timely, Schedule
  <2>2. CASE form.open
    BY <1>1, <2>1, <2>2, KeptStays
  <2>3. CASE ~form.open
    BY <2>3 DEF KeptForm
  <2>4. QED
    BY <2>2, <2>3
<1>4. QED
  BY <1>2, <1>3 DEF Kept, KeptOf, KeptForm

LEMMA TimelyDispatch == ASSUME Base, Timely, Dispatch PROVE Timely'
<1>1. /\ Base' /\ UNCHANGED <<reports, runs, form, hist, now, bounds>>
      /\ s.pc = "reports" /\ s'.at = s.at /\ s.at = now /\ s'.due = {w \in ReportRules : Due(w)}
      /\ s'.pc = IF s'.due = {} THEN "prune" ELSE "report"
      /\ \A w \in s'.due : s'.copies[w] = reports[w].next
  BY BaseDispatch DEF Base, Rhythm, Dispatch
<1>2. Slack' = Slack /\ Slack \in Nat /\ Slack >= Interval /\ now \in Nat /\ Interval \in Nat
  BY <1>1, SlackIs, Parts DEF Base
<1>3. \A due \in Multiples : due \in Nat
  BY MultiplesAre
<1>4. \A w \in ReportRules : w \in s'.due <=> reports[w].state = "on" /\ reports[w].next <= now
  BY <1>1 DEF Due
<1>5. Schedule'
  <2>1. ASSUME NEW w \in s'.due PROVE s'.copies[w] \in Multiples /\ s'.copies[w] <= s'.at
    <3>1. w \in ReportRules
      BY <1>1
    <3>2. QED
      BY <1>1, <1>4, <3>1 DEF Timely, Schedule
  <2>2. ASSUME NEW x \in runs', x.rule \notin hist'.torn PROVE x.end < reports'[x.rule].next
    BY <1>1, <2>2 DEF Timely, Schedule
  <2>3. OneReportPerOccasion'
    BY <1>1 DEF Timely, Schedule, OneReportPerOccasion
  <2>4. s'.pc \notin {"notify", "save"}
    BY <1>1
  <2>5. QED
    BY <1>1, <2>1, <2>2, <2>3, <2>4 DEF Timely, Schedule, Made
<1>6. Kept'
  BY <1>1, <1>2, KeptAll
<1>7. InTime'
  <2>1. ASSUME NEW w \in ReportRules, NEW due \in Multiples \ {0}, reports[w].state = "on",
               due >= reports[w].next, due >= hist.since[w]
        PROVE  Waits(w, due)'
    <3>1. Waits(w, due) /\ due \in Nat /\ reports[w].next \in Nat
      BY <1>3, <2>1, Types DEF Timely, InTime, Base, Report
    <3>2. now <= due + Slack
      BY <1>1, <3>1 DEF Waits
    <3>3. ASSUME w \notin s'.due PROVE now + Interval <= due + Slack
      <4>1. ~(reports[w].next <= now)
        BY <1>4, <2>1, <3>3
      <4>2. now < due
        BY <1>2, <2>1, <3>1, <4>1
      <4>3. QED
        BY <1>2, <3>1, <4>2
    <3>4. \A v \in s'.due : reports[v].state # "gone"
      BY <1>1, <1>4
    <3>5. s'.pc = "prune" => w \notin s'.due
      BY <1>1
    <3>6. s'.pc # "sleep"
      BY <1>1
    <3>7. QED
      BY <1>1, <1>2, <3>2, <3>3, <3>4, <3>5, <3>6 DEF Waits
  <2>2. QED
    BY <1>1, <2>1 DEF InTime
<1>8. QED
  BY <1>5, <1>6, <1>7 DEF Timely

\* Two reports with the beginning of an occasion between them are about different ones.
LEMMA OccasionBetween ==
  ASSUME NEW x, NEW y, x.end \in Nat, y.end \in Nat, NEW n \in Multiples, x.end < n, n <= y.end
  PROVE  Occasion(x) # Occasion(y)
<1>1. PICK k \in Nat : n = Cadence * k
  BY DEF Multiples
<1>2. Cadence * (k - 1) = n - Cadence
  BY <1>1
<1>3. x.end - Cadence < Cadence * (k - 1) /\ Cadence * (k - 1) <= y.end - Cadence
  BY <1>1, <1>2
<1>4. x.end - Cadence \in Int /\ y.end - Cadence \in Int /\ k - 1 \in Int
  BY <1>1
<1>5. (x.end - Cadence) \div Cadence # (y.end - Cadence) \div Cadence
  BY <1>3, <1>4, DivisionBetween
<1>6. QED
  BY <1>5 DEF Occasion

\* The reports that are on their way stay so; nothing else happens.
LEMMA InTimeStays ==
  ASSUME Base, Timely, UNCHANGED <<now, reports, hist>>, Fault \/ Edit \/ UNCHANGED bounds,
         s.pc \in Dispatching, s'.pc \in Dispatching, s'.due = s.due
  PROVE  InTime'
<1>1. Slack \in Nat /\ Slack' \in Nat /\ Slack <= Slack' /\ now \in Nat /\ Interval \in Nat
  BY SlackIs, Parts DEF Base
<1>2. ASSUME NEW w \in ReportRules, NEW due \in Nat, Waits(w, due)
      PROVE  Waits(w, due)'
  <2>1. now <= due + Slack
    BY <1>2 DEF Waits, Dispatching
  <2>2. now <= due + Slack'
    BY <1>1, <1>2, <2>1, MoreSlack, Zenon
  <2>3. (w \notin s.due \/ \E v \in s.due : reports[v].state = "gone") => now + Interval <= due + Slack
    BY <1>2 DEF Waits
  <2>4. (w \notin s.due \/ \E v \in s.due : reports[v].state = "gone") => now + Interval <= due + Slack'
    <3>1. now + Interval \in Nat
      BY <1>1
    <3>2. QED
      BY <1>1, <1>2, <2>3, <3>1, MoreSlack, Zenon
  <2>5. QED
    BY <2>2, <2>4 DEF Waits, Dispatching
<1>3. QED
  BY <1>2, MultiplesAre DEF Timely, InTime

LEMMA TimelyGenerate == ASSUME Base, Timely, Generate PROVE Timely'
<1> DEFINE w == Reported
           x == Generated(w, s.at)
<1>1. /\ Base' /\ w \in s.due /\ w \in ReportRules
      /\ \/ reports[w].state = "gone" /\ s'.pc = "sleep" /\ s'.wake = now + Interval /\ runs' = runs
         \/ /\ reports[w].state # "gone" /\ s'.pc = "notify" /\ s'.at = s.at /\ s'.due = s.due
            /\ s'.copies = s.copies /\ runs' = runs \cup {x}
  BY BaseGenerate
<1>2. UNCHANGED <<now, reports, form, hist, bounds>> /\ s.pc = "report" /\ s.pc \in Dispatching
  BY DEF Generate, Dispatching
<1>3. Slack' = Slack /\ Slack \in Nat /\ now \in Nat /\ now = s.at
  BY <1>2, SlackIs, Parts DEF Base, Rhythm
<1>4. CASE reports[w].state = "gone"
  <2>1. \A due \in Nat, v \in ReportRules : Waits(v, due) => now + Interval <= due + Slack'
    BY <1>1, <1>2, <1>3, <1>4 DEF Waits
  <2>2. runs' = runs /\ s'.pc = "sleep" /\ s'.wake = now + Interval
    BY <1>1, <1>4
  <2>3. QED
    BY <1>1, <1>2, <1>3, <2>1, <2>2, TimelyAwaits
<1>5. CASE reports[w].state # "gone"
  <2>1. /\ s'.pc = "notify" /\ s'.at = s.at /\ s'.due = s.due /\ s'.copies = s.copies
        /\ runs' = runs \cup {x}
    BY <1>1, <1>5
  <2>2. /\ x.rule = w /\ x.end = s.at /\ Made(x)
    BY <1>1, GeneratedIsRun DEF Base, Made
  <2>3. Reported' = w
    BY <2>1 DEF Reported
  <2> HIDE DEF w, x
  <2>4. ASSUME NEW y \in runs, y.rule \notin hist.torn PROVE y.end < reports[y.rule].next
    BY <1>2, <2>4 DEF Timely, Schedule
  <2>5. ASSUME NEW y \in runs, y.rule = w, w \notin hist.torn PROVE Occasion(x) # Occasion(y)
    <3>1. y.end < reports[w].next
      BY <2>4, <2>5
    <3>2. reports[w].next \in Multiples /\ reports[w].next <= s.at
      BY <1>1, <1>2, <2>5 DEF Timely, Schedule
    <3>3. y.end \in Nat /\ s.at \in Nat
      BY Types, Parts DEF Base, Run, Times
    <3>4. Occasion(y) # Occasion(x)
      BY <2>2, <3>1, <3>2, <3>3, OccasionBetween
    <3>5. QED
      BY <3>4
  <2>6. OneReportPerOccasion'
    BY <1>2, <2>1, <2>2, <2>5 DEF Timely, Schedule, OneReportPerOccasion
  <2>7. Schedule'
    <3>1. ASSUME NEW v \in ReportRules
          PROVE  /\ reports'[v].next \in Multiples
                 /\ reports'[v].state = "gone" => \A y \in runs' : y.rule # v
      BY <1>2, <1>5, <2>1, <2>2 DEF Timely, Schedule
    <3>2. ASSUME NEW y \in runs'
          PROVE  /\ Made(y)
                 /\ y.rule \notin hist'.torn =>
                      \/ y.end < reports'[y.rule].next
                      \/ s'.pc \in {"notify", "save"} /\ y.rule = Reported' /\ y.end = s'.at
      BY <1>2, <2>1, <2>2, <2>3, <2>4 DEF Timely, Schedule
    <3>3. \E y \in runs' : y.rule = Reported' /\ y.end = s'.at
      BY <2>1, <2>2, <2>3
    <3>4. \A v \in s'.due : /\ s'.copies[v] \in Multiples /\ s'.copies[v] <= s'.at
                            /\ v \notin hist'.torn => s'.copies[v] = reports'[v].next
      BY <1>2, <2>1 DEF Timely, Schedule
    <3>5. QED
      BY <1>2, <2>6, <3>1, <3>2, <3>3, <3>4 DEF Timely, Schedule, Made
  <2>8. Kept'
    BY <1>1, <1>2, <1>3, <2>1, KeptAll
  <2>9. InTime'
    BY <1>2, <1>3, <2>1, InTimeStays DEF Dispatching
  <2>10. QED
    BY <2>7, <2>8, <2>9 DEF Timely
<1>6. QED
  BY <1>4, <1>5

LEMMA TimelyNotified == ASSUME Base, Timely, Notified PROVE Timely'
<1>1. /\ Base' /\ Reported \in s.due /\ Reported \in ReportRules
      /\ \/ reports[Reported].state = "gone" /\ s'.pc = "sleep" /\ s'.wake = now + Interval
         \/ s'.pc = "save" /\ s'.at = s.at /\ s'.due = s.due /\ s'.copies = s.copies
  BY BaseNotified
<1>2. UNCHANGED <<now, reports, runs, form, hist, bounds>> /\ s.pc = "notify" /\ s.pc \in Dispatching
  BY DEF Notified, Dispatching
<1>3. Slack' = Slack /\ Slack \in Nat /\ now \in Nat
  BY <1>2, SlackIs, Parts DEF Base
<1>4. CASE reports[Reported].state = "gone" /\ s'.pc = "sleep" /\ s'.wake = now + Interval
  <2>1. \A due \in Nat, v \in ReportRules : Waits(v, due) => now + Interval <= due + Slack'
    BY <1>1, <1>2, <1>3, <1>4 DEF Waits
  <2>2. QED
    BY <1>1, <1>2, <1>3, <1>4, <2>1, TimelyAwaits
<1>5. CASE s'.pc = "save" /\ s'.at = s.at /\ s'.due = s.due /\ s'.copies = s.copies
  <2>1. Reported' = Reported
    BY <1>5 DEF Reported
  <2>2. OneReportPerOccasion'
    BY <1>2 DEF Timely, Schedule, OneReportPerOccasion
  <2>3. Schedule'
    <3>1. ASSUME NEW y \in runs'
          PROVE  /\ Made(y)
                 /\ y.rule \notin hist'.torn =>
                      \/ y.end < reports'[y.rule].next
                      \/ s'.pc \in {"notify", "save"} /\ y.rule = Reported' /\ y.end = s'.at
      BY <1>2, <1>5, <2>1 DEF Timely, Schedule
    <3>2. reports'[Reported'].state # "gone" => \E y \in runs' : y.rule = Reported' /\ y.end = s'.at
      BY <1>2, <1>5, <2>1 DEF Timely, Schedule
    <3>3. \A v \in s'.due : /\ s'.copies[v] \in Multiples /\ s'.copies[v] <= s'.at
                            /\ v \notin hist'.torn => s'.copies[v] = reports'[v].next
      BY <1>2, <1>5 DEF Timely, Schedule
    <3>4. QED
      BY <1>2, <1>5, <2>2, <3>1, <3>2, <3>3 DEF Timely, Schedule, Made
  <2>4. Kept'
    BY <1>1, <1>2, KeptAll, Parts DEF Base
  <2>5. InTime'
    BY <1>2, <1>3, <1>5, InTimeStays DEF Dispatching
  <2>6. QED
    BY <2>3, <2>4, <2>5 DEF Timely
<1>6. QED
  BY <1>1, <1>4, <1>5

LEMMA TimelyNotifyingHangs == ASSUME Base, Timely, NotifyingHangs PROVE Timely'
<1>1. /\ Base' /\ s'.pc = "sleep" /\ s'.wake = now + 1 + Interval /\ now' = now + 1 /\ s.due # {}
      /\ UNCHANGED <<reports, runs, form>> /\ Fault /\ s.pc \in Dispatching /\ hist' = Torn(hist)
  BY BaseNotifyingHangs DEF NotifyingHangs, Dispatching
<1>2. Slack' = Slack + Interval + 1 /\ Slack \in Nat /\ now \in Nat /\ Interval \in Nat
  BY <1>1, SlackIs, Parts DEF Base
<1>3. hist'.torn = hist.torn \cup {Reported} /\ hist'.since = hist.since
  BY <1>1, TornTypes DEF Base
<1>4. \A due \in Nat, v \in ReportRules : Waits(v, due) => now + 1 + Interval <= due + Slack'
  BY <1>1, <1>2 DEF Waits, Dispatching
<1>5. QED
  BY <1>1, <1>2, <1>3, <1>4, TimelyAwaits

LEMMA TimelyDispatchFails == ASSUME Base, Timely, DispatchFails PROVE Timely'
<1>1. /\ Base' /\ s'.pc = "prune" /\ s'.at = s.at /\ s.due # {} /\ now' = now
      /\ UNCHANGED <<reports, runs, form>> /\ Fault /\ s.pc \in Dispatching
  BY BaseDispatchFails DEF DispatchFails, Dispatching
<1>2. Slack' = Slack + Interval + 1 /\ Slack \in Nat /\ now \in Nat /\ Interval \in Nat
  BY <1>1, SlackIs, Parts DEF Base
<1>3. /\ hist'.torn \in {hist.torn, hist.torn \cup {Reported}} /\ hist'.since = hist.since
      /\ hist'.torn = hist.torn \cup {Reported} \/ s.pc = "report"
  BY <1>1, TornTypes DEF Base, DispatchFails
<1>4. \A due \in Nat, v \in ReportRules : Waits(v, due) => now + Interval <= due + Slack'
  BY <1>1, <1>2 DEF Waits, Dispatching
<1>5. \A due \in Nat, v \in ReportRules :
        Waits(v, due) => /\ s'.pc = "sleep" => s'.wake <= due + Slack'
                         /\ s'.pc = "prune" => now' + Interval <= due + Slack'
  <2>1. s'.pc # "sleep" /\ now' = now
    BY <1>1
  <2>2. QED
    BY <1>4, <2>1, Zenon
<1>6. now <= now' /\ s'.pc \in {"sleep", "prune"}
  BY <1>1, <1>2
<1>7. QED
  BY <1>1, <1>3, <1>5, <1>6, TimelyAwaits, Zenon

LEMMA TimelyCrash == ASSUME Base, Timely, Crash PROVE Timely'
<1>1. /\ Base' /\ s'.pc = "sleep" /\ s'.wake = now + 1 /\ now' = now /\ s.pc # "sleep"
      /\ UNCHANGED <<reports, runs, form>> /\ Fault
  BY BaseCrash DEF Crash
<1>2. Slack' = Slack + Interval + 1 /\ Slack \in Nat /\ now \in Nat /\ Interval \in Nat
  BY <1>1, SlackIs, Parts DEF Base
<1>3. CASE s.pc \in {"notify", "save"}
  <2>1. s.due # {} /\ hist' = [Torn(hist) EXCEPT !.lost = @ \cup {}]
    BY <1>3, BaseCrash
  <2>2. hist'.torn = hist.torn \cup {Reported} /\ hist'.since = hist.since
    BY <2>1, TornTypes DEF Base, History
  <2>3. s.pc \in Dispatching
    BY <1>3 DEF Dispatching
  <2>4. \A due \in Nat, v \in ReportRules : Waits(v, due) => now + 1 <= due + Slack'
    BY <1>1, <1>2 DEF Waits
  <2>5. QED
    BY <1>1, <1>2, <2>2, <2>3, <2>4, TimelyAwaits
<1>4. CASE s.pc \notin {"notify", "save"}
  <2>1. hist'.torn = hist.torn /\ hist'.since = hist.since
    <3>1. \/ hist' = [hist EXCEPT !.lost = @ \cup tx.sent]
          \/ /\ tx.asked \in AlertRules
             /\ hist' = [Heard(hist, tx.asked) EXCEPT !.lost = @ \cup (tx.sent \cup {tx.asked})]
      BY <1>4, BaseCrash
    <3>2. tx.asked \in AlertRules =>
            /\ Heard(hist, tx.asked) \in History /\ Heard(hist, tx.asked).torn = hist.torn
            /\ Heard(hist, tx.asked).since = hist.since
      BY HeardTypes DEF Base
    <3>3. QED
      BY <3>1, <3>2, Types DEF Base, History
  <2>2. CASE s.pc = "report"
    <3>1. \A due \in Nat, v \in ReportRules : Waits(v, due) => now + 1 <= due + Slack'
      BY <1>1, <1>2 DEF Waits
    <3>2. s.pc \in Dispatching
      BY <2>2 DEF Dispatching
    <3>3. QED
      BY <1>1, <1>2, <2>1, <2>2, <3>1, <3>2, TimelyAwaits
  <2>3. CASE s.pc # "report"
    <3>1. s.pc \notin Dispatching /\ s'.pc \notin Dispatching
      BY <1>1, <1>4, <2>3 DEF Dispatching
    <3>2. QED
      BY <1>1, <1>2, <2>1, <3>1, TimelyKept
  <2>4. QED
    BY <2>2, <2>3
<1>5. QED
  BY <1>3, <1>4

LEMMA TimelySaveRule == ASSUME Base, Timely, SaveRule PROVE Timely'
<1>0. PICK w \in ReportRules : w = Reported
  BY BaseSaveRule DEF Timely
<1> DEFINE next == NextRun(s.copies[w], s.at)
<1>1. /\ Base' /\ w \in s.due /\ w \in ReportRules
      /\ \/ /\ reports[w].state = "gone" /\ reports' = reports
            /\ s'.pc = "sleep" /\ s'.wake = now + Interval
         \/ /\ reports[w].state # "gone"
            /\ s'.pc = IF s'.due = {} THEN "prune" ELSE "report"
            /\ s'.at = s.at /\ s'.due = s.due \ {w}
            /\ \A v \in ReportRules \ {w} : s'.copies[v] = s.copies[v] /\ reports'[v] = reports[v]
            /\ reports'[w].next = next /\ reports'[w].state = reports[w].state
  BY <1>0, BaseSaveRule DEF Timely
<1>2. UNCHANGED <<now, runs, form, hist, bounds>> /\ s.pc = "save" /\ s.pc \in Dispatching
  BY DEF SaveRule, Dispatching
<1>3. /\ Slack' = Slack /\ Slack \in Nat /\ now \in Nat /\ now = s.at /\ Interval \in Nat
      /\ Slack >= Interval
  BY <1>2, SlackIs, Parts DEF Base, Rhythm
<1>4. CASE reports[w].state = "gone"
  <2>1. \A due \in Nat, v \in ReportRules : Waits(v, due) => now + Interval <= due + Slack'
    BY <1>1, <1>2, <1>3, <1>4 DEF Waits
  <2>2. Base' /\ reports' = reports /\ s'.pc = "sleep" /\ s'.wake = now + Interval /\ w \in ReportRules
    BY <1>1, <1>4
  <2>3. QED
    BY <1>0, <1>2, <1>3, <1>4, <2>1, <2>2, TimelyAwaits
<1>5. CASE reports[w].state # "gone"
  <2>1. /\ s'.pc = (IF s'.due = {} THEN "prune" ELSE "report")
        /\ s'.at = s.at /\ s'.due = s.due \ {w}
        /\ \A v \in ReportRules \ {w} : s'.copies[v] = s.copies[v] /\ reports'[v] = reports[v]
        /\ reports'[w].next = next /\ reports'[w].state = reports[w].state
    BY <1>1, <1>5
  <2>2. s.copies[w] \in Multiples /\ s.copies[w] <= now
    BY <1>1, <1>2, <1>3 DEF Timely, Schedule
  <2>3. next \in Multiples /\ now < next /\ \A due \in Multiples : due < next => due <= now
    BY <1>3, <2>2, NextRunIsNext
  <2>4. \E x \in runs : x.rule = w /\ x.end = now
    BY <1>0, <1>2, <1>3, <1>5 DEF Timely, Schedule
  <2>5. s.due \subseteq ReportRules /\ next \in Nat /\ \A due \in Multiples : due \in Nat
    BY <2>3, MultiplesAre, Parts DEF Base
  <2> HIDE DEF next
  <2>6. ASSUME NEW x \in runs, x.rule \notin hist.torn PROVE x.end < reports'[x.rule].next
    <3>1. x.rule \in ReportRules /\ x.end \in Nat
      BY Types DEF Base, Run, Times
    <3>2. \/ x.end < reports[x.rule].next
          \/ x.rule = w /\ x.end = s.at
      BY <1>0, <1>2, <2>6 DEF Timely, Schedule
    <3>3. CASE x.rule # w
      BY <2>1, <3>1, <3>2, <3>3
    <3>4. CASE x.rule = w
      <4>1. s.copies[w] = reports[w].next
        BY <1>1, <1>2, <2>6, <3>4 DEF Timely, Schedule
      <4>2. x.end <= now
        BY <1>3, <2>2, <2>5, <3>1, <3>2, <3>4, <4>1
      <4>3. QED
        BY <1>3, <2>1, <2>3, <2>5, <3>1, <3>4, <4>2
    <3>5. QED
      BY <3>3, <3>4
  <2>7. OneReportPerOccasion'
    BY <1>2 DEF Timely, Schedule, OneReportPerOccasion
  <2>8. Schedule'
    <3>1. ASSUME NEW v \in ReportRules
          PROVE  /\ reports'[v].next \in Multiples
                 /\ reports'[v].state = "gone" => \A y \in runs' : y.rule # v
      BY <1>2, <2>1, <2>3 DEF Timely, Schedule
    <3>2. \A v \in s'.due : /\ s'.copies[v] \in Multiples /\ s'.copies[v] <= s'.at
                            /\ v \notin hist'.torn => s'.copies[v] = reports'[v].next
      BY <1>2, <2>1, <2>5 DEF Timely, Schedule
    <3>3. form'.open => /\ form'.rule \in ReportRules /\ form'.next \in Multiples
                        /\ form'.state # "gone" /\ reports'[form'.rule].state # "gone"
      BY <1>2, <2>1 DEF Timely, Schedule
    <3>4. s'.pc \notin {"notify", "save"}
      BY <2>1
    <3>5. QED
      BY <1>2, <2>6, <2>7, <3>1, <3>2, <3>3, <3>4 DEF Timely, Schedule, Made
  <2>9. Kept'
    <3>1. ASSUME NEW v \in ReportRules, v # w PROVE KeptOf(v)'
      BY <1>1, <1>2, <1>3, <2>1, <3>1, KeptStays
    <3>2. KeptOf(w)'
      <4>1. ASSUME NEW due \in Multiples \ {0}, due < next,
                   due >= now \/ (reports[w].state = "on" /\ due >= hist.since[w])
            PROVE  ReportedIn(w, due)
        <5>1. due \in Nat /\ due <= now
          BY <2>3, <2>5, <4>1
        <5>2. CASE due = now
          BY <1>3, <2>4, <5>1, <5>2 DEF ReportedIn
        <5>3. CASE due < reports[w].next /\ due # now
          <6>1. KeptOf(w)
            BY KeptParts DEF Timely
          <6>2. QED
            BY <1>5, <4>1, <5>3, <6>1 DEF KeptOf
        <5>4. CASE ~(due < reports[w].next) /\ due # now
          <6>1. reports[w].state = "on" /\ due >= hist.since[w] /\ due >= reports[w].next
            <7>1. reports[w].next \in Nat
              BY Types DEF Base, Report
            <7>2. QED
              BY <1>3, <4>1, <5>1, <5>4, <7>1
          <6>2. Waits(w, due)
            BY <6>1 DEF Timely, InTime
          <6>3. now <= due + Slack
            BY <1>2, <6>2 DEF Waits
          <6>4. QED
            BY <1>3, <2>4, <5>1, <6>3 DEF ReportedIn
        <5>5. QED
          BY <5>2, <5>3, <5>4
      <4>2. \A due \in Nat : ReportedIn(w, due) => ReportedIn(w, due)'
        <5>1. Base'
          BY <1>1
        <5>2. Slack <= Slack' /\ runs' = runs
          BY <1>2, <1>3
        <5>3. QED
          BY <5>1, <5>2, StaysReported
      <4>3. ASSUME NEW due \in Multiples \ {0}, due < reports'[w].next,
                   due >= now' \/ (reports'[w].state = "on" /\ due >= hist'.since[w])
            PROVE  ReportedIn(w, due)'
        <5>1. ReportedIn(w, due)
          BY <1>2, <2>1, <4>1, <4>3
        <5>2. QED
          BY <2>5, <4>2, <5>1
      <4>4. QED
        BY <4>3 DEF KeptOf
    <3>3. KeptForm'
      <4>1. form.open => form.rule \in ReportRules
        BY DEF Timely, Schedule
      <4>2. form' = form /\ runs' = runs /\ Slack <= Slack' /\ now <= now'
        BY <1>2, <1>3
      <4>3. CASE form.open
        BY <1>1, <4>1, <4>2, <4>3, KeptStays
      <4>4. CASE ~form.open
        BY <4>2, <4>4 DEF KeptForm
      <4>5. QED
        BY <4>3, <4>4
    <3>4. \A v \in ReportRules : KeptOf(v)'
      BY <3>1, <3>2
    <3>5. QED
      BY <3>3, <3>4 DEF Kept, KeptOf, KeptForm
  <2>10. InTime'
    <3>1. ASSUME NEW v \in ReportRules, NEW due \in Multiples \ {0}, reports'[v].state = "on",
                 due >= reports'[v].next, due >= hist'.since[v]
          PROVE  Waits(v, due)'
      <4>1. due \in Nat /\ s'.pc # "sleep"
        BY <2>1, <2>5
      <4>2. CASE v = w
        <5>1. now + Interval <= due + Slack
          BY <1>3, <2>1, <2>3, <2>5, <3>1, <4>1, <4>2
        <5>2. QED
          BY <1>2, <1>3, <4>1, <5>1 DEF Waits
      <4>3. CASE v # w
        <5>1. Waits(v, due)
          BY <1>2, <2>1, <3>1, <4>3 DEF Timely, InTime
        <5>2. now <= due + Slack
          BY <1>2, <5>1 DEF Waits
        <5>3. v \notin s.due \/ (\E u \in s.due : reports[u].state = "gone") => now + Interval <= due + Slack
          BY <1>2, <5>1 DEF Waits
        <5>4. v \notin s'.due => v \notin s.due
          BY <2>1, <4>3
        <5>5. (\E u \in s'.due : reports'[u].state = "gone") => \E u \in s.due : reports[u].state = "gone"
          BY <2>1, <2>5
        <5>6. s'.pc = "prune" => v \notin s'.due
          BY <2>1
        <5>7. QED
          BY <1>2, <1>3, <4>1, <5>2, <5>3, <5>4, <5>5, <5>6 DEF Waits
      <4>4. QED
        BY <4>2, <4>3
    <3>2. QED
      BY <3>1 DEF InTime
  <2>11. QED
    BY <2>8, <2>9, <2>10 DEF Timely
<1>6. QED
  BY <1>4, <1>5

\* Who waits goes on waiting while a user acts.
LEMMA WaitsLonger ==
  ASSUME Base, Edit \/ UNCHANGED bounds, UNCHANGED <<now, s>>, NEW w \in ReportRules, NEW due \in Nat, Waits(w, due),
         \/ Edit
         \/ (\E v \in s.due : reports'[v].state = "gone") => \E v \in s.due : reports[v].state = "gone"
  PROVE  Waits(w, due)'
<1>1. Slack \in Nat /\ Slack' \in Nat /\ Slack <= Slack' /\ now \in Nat /\ s.wake \in Nat /\ Interval \in Nat
      /\ (Edit => Slack' = Slack + Interval)
  BY SlackIs, Parts DEF Base
<1>2. s.pc = "sleep" => s.wake <= due + Slack'
  BY <1>1, MoreSlack, Zenon DEF Waits
<1>3. s.pc # "sleep" => now <= due + Slack'
  BY <1>1, MoreSlack, Zenon DEF Waits
<1>4. ASSUME Edit, s.pc # "sleep" PROVE now + Interval <= due + Slack'
  <2>1. Slack' = Slack + Interval /\ now <= due + Slack
    BY <1>1, <1>4, Zenon DEF Waits
  <2>2. now + Interval <= due + (Slack + Interval)
    BY <1>1, <2>1
  <2>3. QED
    BY <2>1, <2>2, Zenon
<1>5. ASSUME ~Edit, \/ s.pc = "prune"
                    \/ s.pc \in Dispatching /\ (w \notin s.due \/ \E v \in s.due : reports'[v].state = "gone")
      PROVE  now + Interval <= due + Slack'
  <2>1. now + Interval <= due + Slack
    BY <1>5 DEF Waits
  <2>2. now + Interval \in Nat
    BY <1>1
  <2>3. QED
    BY <1>1, <2>1, <2>2, MoreSlack, Zenon
<1>6. s.pc \in Dispatching => s.pc # "sleep"
  BY DEF Dispatching
<1>7. now' = now /\ s' = s
  OBVIOUS
<1>8. CASE Edit
  BY <1>2, <1>3, <1>4, <1>6, <1>7, <1>8 DEF Waits
<1>9. CASE ~Edit
  BY <1>2, <1>3, <1>5, <1>7, <1>9 DEF Waits
<1>10. QED
  BY <1>8, <1>9

\* A user does something else.
LEMMA TimelyEdit ==
  ASSUME Base, Base', Timely, UNCHANGED <<reports, runs, form, now, s>>,
         hist'.torn = hist.torn, hist'.since = hist.since, Edit \/ UNCHANGED bounds
  PROVE  Timely'
<1>1. Schedule'
  BY DEF Timely, Schedule, OneReportPerOccasion, Made, Reported
<1>2. Kept'
  BY KeptAll, Parts DEF Base
<1>3. InTime'
  <2>1. ASSUME NEW w \in ReportRules, NEW due \in Nat, Waits(w, due) PROVE Waits(w, due)'
    BY <2>1, WaitsLonger
  <2>2. QED
    BY <2>1, MultiplesAre DEF Timely, InTime
<1>4. QED
  BY <1>1, <1>2, <1>3 DEF Timely

LEMMA TimelyOpenForm == ASSUME Base, Timely, NEW w \in ReportRules, OpenForm(w) PROVE Timely'
<1>1. Base' /\ form'.rule = w /\ form'.next = reports[w].next /\ form'.state # "gone" /\ form'.open
  BY BaseOpenForm
<1>2. UNCHANGED <<reports, runs, now, s, hist>> /\ Edit /\ reports[w].state # "gone"
  BY DEF OpenForm
<1>3. Slack <= Slack' /\ now <= now'
  BY <1>2, SlackIs, Parts DEF Base
<1>4. Schedule'
  <2>1. /\ form'.rule \in ReportRules /\ form'.next \in Multiples /\ form'.state # "gone"
        /\ reports'[form'.rule].state # "gone"
    BY <1>1, <1>2 DEF Timely, Schedule
  <2>2. QED
    BY <1>2, <2>1 DEF Timely, Schedule, OneReportPerOccasion, Made, Reported
<1>5. Kept'
  <2>1. \A v \in ReportRules : KeptOf(v)'
    BY <1>1, <1>2, <1>3, KeptStays
  <2>2. KeptForm'
    <3>1. ASSUME NEW due \in Multiples \ {0}, due < form'.next, due >= now' PROVE ReportedIn(form.rule, due)'
      <4>1. KeptOf(w)
        BY KeptParts DEF Timely
      <4>2. ReportedIn(w, due)
        BY <1>1, <1>2, <3>1, <4>1 DEF KeptOf
      <4>3. ReportedIn(w, due)'
        BY <1>1, <1>2, <1>3, <4>2, MultiplesAre, StaysReported
      <4>4. QED
        BY <1>1, <4>3 DEF ReportedIn
    <3>2. QED
      BY <3>1 DEF KeptForm
  <2>3. QED
    BY <2>1, <2>2 DEF Kept, KeptOf, KeptForm
<1>6. InTime'
  <2>1. ASSUME NEW v \in ReportRules, NEW due \in Nat, Waits(v, due) PROVE Waits(v, due)'
    BY <1>2, <2>1, WaitsLonger
  <2>2. QED
    BY <1>2, <2>1, MultiplesAre DEF Timely, InTime
<1>7. QED
  BY <1>4, <1>5, <1>6 DEF Timely

LEMMA TimelySaveForm == ASSUME Base, Timely, SaveForm PROVE Timely'
<1>1. PICK w \in ReportRules :
        /\ w = form.rule /\ form.open /\ form.next \in Multiples /\ form.state # "gone"
        /\ reports[w].state # "gone"
  BY DEF Timely, Schedule, SaveForm
<1>2. /\ Base' /\ ~form'.open
      /\ reports'[w].state = form.state /\ reports'[w].next = form.next
      /\ \A v \in ReportRules \ {w} : reports'[v] = reports[v] /\ hist'.since[v] = hist.since[v]
      /\ hist'.torn = (IF reports[w].next # form.next THEN hist.torn \cup {w} ELSE hist.torn)
      /\ form.state = "on" => hist'.since[w] = now
  BY <1>1, BaseSaveForm
<1>3. UNCHANGED <<runs, now, s, bounds>>
  BY DEF SaveForm
<1>4. /\ Slack' = Slack /\ Slack \in Nat /\ now \in Nat /\ Interval \in Nat /\ Interval <= Slack
      /\ s.pc = "sleep" => s.wake <= now + Interval /\ s.wake \in Nat
  BY <1>3, SlackIs, Parts DEF Base, Rhythm
<1>5. \A v \in ReportRules : reports'[v].state = "gone" <=> reports[v].state = "gone"
  BY <1>1, <1>2
<1>6. \A v \in ReportRules : v \notin hist'.torn => v \notin hist.torn /\ reports'[v].next = reports[v].next
  BY <1>2
<1>7. s.due \subseteq ReportRules /\ \A x \in runs : x.rule \in ReportRules
  BY Types, Parts DEF Base, Run
<1>8. Schedule'
  <2>1. \A v \in ReportRules : reports'[v].next \in Multiples
    BY <1>1, <1>2 DEF Timely, Schedule
  <2>2. \A v \in ReportRules : reports'[v].state = "gone" => \A x \in runs : x.rule # v
    BY <1>5 DEF Timely, Schedule
  <2>3. s.pc \in Dispatching =>
          \A v \in s.due : /\ s.copies[v] \in Multiples /\ s.copies[v] <= s.at
                           /\ v \notin hist'.torn => s.copies[v] = reports'[v].next
    BY <1>6, <1>7 DEF Timely, Schedule
  <2>4. ASSUME NEW x \in runs
        PROVE  /\ Made(x)
               /\ x.rule \notin hist'.torn =>
                    \/ x.end < reports'[x.rule].next
                    \/ s.pc \in {"notify", "save"} /\ x.rule = Reported /\ x.end = s.at
    BY <1>6, <1>7 DEF Timely, Schedule
  <2>5. s.pc \in {"notify", "save"} /\ reports'[Reported].state # "gone" =>
          \E x \in runs : x.rule = Reported /\ x.end = s.at
    <3>1. s.pc \in {"notify", "save"} => Reported \in ReportRules
      BY TornTypes DEF Base, Rhythm, Dispatching
    <3>2. QED
      BY <1>5, <3>1 DEF Timely, Schedule
  <2>6. OneReportPerOccasion'
    BY <1>3, <1>6, <1>7 DEF Timely, Schedule, OneReportPerOccasion
  <2>7. QED
    BY <1>2, <1>3, <2>1, <2>2, <2>3, <2>4, <2>5, <2>6 DEF Schedule, Made, Reported
<1>9. Kept'
  <2>1. ASSUME NEW v \in ReportRules, v # w PROVE KeptOf(v)'
    BY <1>2, <1>3, <1>4, <2>1, KeptStays
  <2>2. KeptOf(w)'
    <3>1. ASSUME NEW due \in Multiples \ {0}, due < reports'[w].next,
                 due >= now' \/ (reports'[w].state = "on" /\ due >= hist'.since[w])
          PROVE  ReportedIn(w, due)'
      <4>1. due < form.next /\ due >= now
        BY <1>2, <1>3, <3>1
      <4>2. ReportedIn(w, due)
        BY <1>1, <4>1 DEF Timely, Kept
      <4>3. QED
        BY <1>2, <1>3, <1>4, <4>2, MultiplesAre, StaysReported
    <3>2. QED
      BY <3>1 DEF KeptOf
  <2>3. \A v \in ReportRules : KeptOf(v)'
    BY <2>1, <2>2
  <2>4. QED
    BY <1>2, <2>3 DEF Kept, KeptOf
<1>10. InTime'
  <2>1. ASSUME NEW v \in ReportRules, NEW due \in Nat, Waits(v, due) PROVE Waits(v, due)'
    <3>1. (\E u \in s.due : reports'[u].state = "gone") => \E u \in s.due : reports[u].state = "gone"
      BY <1>5, <1>7
    <3>2. QED
      BY <1>3, <2>1, <3>1, WaitsLonger
  <2>2. ASSUME NEW due \in Nat, due >= now PROVE Waits(w, due)'
    <3>1. now <= due + Slack /\ now + Interval <= due + Slack /\ (s.pc = "sleep" => s.wake <= due + Slack)
      BY <1>4, <2>2
    <3>2. QED
      BY <1>3, <1>4, <3>1 DEF Waits
  <2>3. ASSUME NEW v \in ReportRules, NEW due \in Multiples \ {0}, reports'[v].state = "on",
               due >= reports'[v].next, due >= hist'.since[v]
        PROVE  Waits(v, due)'
    <3>1. CASE v = w
      BY <1>2, <2>2, <2>3, <3>1, MultiplesAre
    <3>2. CASE v # w
      BY <1>2, <2>1, <2>3, <3>2, MultiplesAre DEF Timely, InTime
    <3>3. QED
      BY <3>1, <3>2
  <2>4. QED
    BY <2>3 DEF InTime
<1>11. QED
  BY <1>8, <1>9, <1>10 DEF Timely

LEMMA TimelyDeleteReport == ASSUME Base, Timely, NEW w \in ReportRules, DeleteReport(w) PROVE Timely'
<1>1. /\ Base' /\ reports'[w].state = "gone" /\ reports'[w].next = reports[w].next
      /\ \A v \in ReportRules \ {w} : reports'[v] = reports[v]
  BY BaseDeleteReport
<1>2. /\ UNCHANGED <<now, s, hist, form>> /\ Edit /\ ~form.open /\ runs' = {x \in runs : x.rule # w}
  BY DEF DeleteReport
<1>3. Slack <= Slack' /\ now <= now'
  BY <1>2, SlackIs, Parts DEF Base
<1>4. s.due \subseteq ReportRules /\ \A x \in runs : x.rule \in ReportRules
  BY Types, Parts DEF Base, Run
<1>5. Schedule'
  <2>1. ASSUME NEW v \in ReportRules
        PROVE  /\ reports'[v].next \in Multiples
               /\ reports'[v].state = "gone" => \A x \in runs' : x.rule # v
    BY <1>1, <1>2 DEF Timely, Schedule
  <2>2. s.pc \in Dispatching =>
          \A v \in s.due : /\ s.copies[v] \in Multiples /\ s.copies[v] <= s.at
                           /\ v \notin hist.torn => s.copies[v] = reports'[v].next
    BY <1>1, <1>4 DEF Timely, Schedule
  <2>3. ASSUME NEW x \in runs'
        PROVE  /\ Made(x)
               /\ x.rule \notin hist.torn =>
                    \/ x.end < reports'[x.rule].next
                    \/ s.pc \in {"notify", "save"} /\ x.rule = Reported /\ x.end = s.at
    BY <1>1, <1>2, <1>4 DEF Timely, Schedule
  <2>4. s.pc \in {"notify", "save"} /\ reports'[Reported].state # "gone" =>
          \E x \in runs' : x.rule = Reported /\ x.end = s.at
    <3>1. s.pc \in {"notify", "save"} => Reported \in ReportRules
      BY TornTypes DEF Base, Rhythm, Dispatching
    <3>2. QED
      BY <1>1, <1>2, <3>1 DEF Timely, Schedule
  <2>5. OneReportPerOccasion'
    BY <1>2 DEF Timely, Schedule, OneReportPerOccasion
  <2>6. QED
    BY <1>2, <2>1, <2>2, <2>3, <2>4, <2>5 DEF Schedule, Made, Reported
<1>6. Kept'
  <2>1. ASSUME NEW v \in ReportRules, v # w PROVE KeptOf(v)'
    BY <1>1, <1>2, <1>3, <2>1, KeptStays
  <2>2. KeptOf(w)'
    BY <1>1 DEF KeptOf
  <2>3. \A v \in ReportRules : KeptOf(v)'
    BY <2>1, <2>2
  <2>4. QED
    BY <1>2, <2>3 DEF Kept, KeptOf
<1>7. InTime'
  <2>1. ASSUME NEW v \in ReportRules, NEW due \in Nat, Waits(v, due) PROVE Waits(v, due)'
    BY <1>2, <2>1, WaitsLonger
  <2>2. QED
    BY <1>1, <1>2, <2>1, MultiplesAre DEF Timely, InTime
<1>8. QED
  BY <1>5, <1>6, <1>7 DEF Timely

-----------------------------------------------------------------------------
(* Record and Evaluation: the alerts *)

Alerted == Record /\ Evaluation

\* What is read of the history here is the same.
SameAlerts ==
  /\ hist'.hot = hist.hot /\ hist'.when = hist.when /\ hist'.quiet = hist.quiet
  /\ hist'.repeats = hist.repeats /\ hist'.lost = hist.lost

\* Times of events.
LEMMA EventTimes ==
  ASSUME TypeOK
  PROVE  /\ \A e \in events : e.at \in Nat /\ e.resolved \in Int /\ e.rule \in AlertRules /\ e.active \in BOOLEAN
         /\ \A e \in tx.events : e.at \in Nat /\ e.resolved \in Int /\ e.rule \in AlertRules /\ e.active \in BOOLEAN
         /\ \A r \in AlertRules : hist.quiet[r] \in Nat /\ Cooldown[r] \in Nat
<1>1. \A e \in Event : e.at \in Nat /\ e.resolved \in Int /\ e.rule \in AlertRules /\ e.active \in BOOLEAN
  BY DEF Event, Times, None
<1>2. events \in SUBSET Event /\ tx.events \in SUBSET Event
  BY Types, Parts
<1>3. \A r \in AlertRules : hist.quiet[r] \in Nat /\ Cooldown[r] \in Nat
  BY Parts
<1>4. QED
  BY <1>1, <1>2, <1>3

LEMMA RecordKept ==
  ASSUME Base, Base', Record, events' = events, \A e \in events : rules'[e.rule] # "gone",
         tx.sent \subseteq tx'.sent, SameAlerts, now <= now',
         \A e \in events : /\ IF s'.pc = "sleep" THEN e.at < s'.wake ELSE e.at <= now'
                           /\ s'.pc = "alerts" => e.at < now'
  PROVE  Record'
<1>1. now \in Nat /\ now' \in Nat
  BY Types DEF Base, Times, TypeOK
<1>2. \A e \in events : e.resolved \in Int
  BY EventTimes DEF Base
<1>3. \A e \in events : e.resolved <= now'
  BY <1>1, <1>2 DEF Record
<1>4. \A r \in AlertRules : Quieted(events, r)' <=> Quieted(events, r)
  BY DEF Quieted, LatestIn, SameAlerts
<1>5. \A r \in AlertRules \ hist'.lost : now' < hist'.quiet[r] => r \in tx'.sent \/ Quieted(events, r)'
  <2>1. ASSUME NEW r \in AlertRules \ hist'.lost, now' < hist'.quiet[r] PROVE now < hist.quiet[r]
    BY <1>1, <2>1, EventTimes DEF SameAlerts, Base
  <2>2. QED
    BY <1>4, <2>1 DEF Record, SameAlerts
<1>6. \A r \in hist'.hot \ hist'.lost :
        \E e \in events' : e.rule = r /\ (e.active \/ hist'.when < e.resolved + Cooldown[r])
  BY DEF Record, SameAlerts
<1>7. Ordered(events)'
  BY DEF Record, Ordered, LatestIn
<1>8. QED
  BY <1>3, <1>5, <1>6, <1>7 DEF Record, SameAlerts

\* A step outside of the evaluation.
LEMMA AlertedKept ==
  ASSUME Base, Base', Alerted, UNCHANGED <<events, rules>>, tx' = NoTx, tx.sent = {}, SameAlerts, now <= now',
         s.pc # "sleep", s'.pc # "alerts", s'.pc = "sleep" => now' < s'.wake
  PROVE  Alerted'
<1>1. ~tx'.open /\ tx'.sent = {}
  BY NoTransaction
<1>2. now \in Nat /\ now' \in Nat /\ (s'.pc = "sleep" => s'.wake \in Nat)
  BY Types, Parts DEF Base, Times, TypeOK, SamplerState
<1>3. \A e \in events : e.at <= now
  BY DEF Alerted, Record
<1>4. ASSUME NEW e \in events PROVE IF s'.pc = "sleep" THEN e.at < s'.wake ELSE e.at <= now'
  <2>1. e.at \in Nat /\ e.at <= now'
    BY <1>2, <1>3, EventTimes DEF Base
  <2>2. s'.pc = "sleep" => e.at < s'.wake
    BY <1>2, <2>1
  <2>3. QED
    BY <2>1, <2>2
<1>5. QED
  BY <1>1, <1>4, RecordKept DEF Alerted, Record, Evaluation

LEMMA AlertedTick == ASSUME Base, Alerted, Tick PROVE Alerted'
<1>1. Base' /\ UNCHANGED <<rules, events, tx, s, hist>> /\ s.pc = "sleep" /\ ~tx.open /\ now <= now'
  BY BaseTick, Parts DEF Base, Rhythm, Tick
<1>2. Record'
  BY <1>1, RecordKept DEF Alerted, Record, SameAlerts
<1>3. QED
  BY <1>1, <1>2 DEF Alerted, Evaluation

LEMMA AlertedCollect == ASSUME Base, Alerted, Collect PROVE Alerted'
<1>1. /\ Base' /\ UNCHANGED <<rules, events, tx, hist, now>> /\ s.pc = "sleep" /\ ~tx.open
      /\ now = s.wake /\ s'.pc = "alerts"
  BY BaseCollect DEF Base, Rhythm, Collect
<1>2. \A e \in events : e.at < now /\ e.at \in Nat /\ now \in Nat
  BY <1>1, EventTimes, Parts DEF Base, Alerted, Record
<1>3. SameAlerts /\ now <= now' /\ tx.sent \subseteq tx'.sent /\ \A e \in events : rules'[e.rule] # "gone"
  BY <1>1, <1>2, Parts DEF Base, SameAlerts, Alerted, Record
<1>4. \A e \in events : /\ IF s'.pc = "sleep" THEN e.at < s'.wake ELSE e.at <= now'
                        /\ s'.pc = "alerts" => e.at < now'
  BY <1>1, <1>2
<1>5. Record'
  BY <1>1, <1>3, <1>4, RecordKept DEF Alerted
<1>6. QED
  BY <1>1, <1>5 DEF Alerted, Evaluation

LEMMA AlertedCollectFails == ASSUME Base, Alerted, CollectFails PROVE Alerted'
<1>1. /\ Base' /\ UNCHANGED <<rules, events, tx, hist, now>> /\ s.pc = "sleep" /\ ~tx.open
      /\ now = s.wake /\ s'.pc = "sleep" /\ s'.wake = now + 1
  BY BaseCollectFails, Parts DEF Base, Rhythm, CollectFails
<1>2. \A e \in events : e.at < now /\ e.at \in Nat /\ now \in Nat
  BY <1>1, EventTimes, Parts DEF Base, Alerted, Record
<1>3. SameAlerts /\ now <= now' /\ tx.sent \subseteq tx'.sent /\ \A e \in events : rules'[e.rule] # "gone"
  BY <1>1, <1>2, Parts DEF Base, SameAlerts, Alerted, Record
<1>4. \A e \in events : /\ IF s'.pc = "sleep" THEN e.at < s'.wake ELSE e.at <= now'
                        /\ s'.pc = "alerts" => e.at < now'
  BY <1>1, <1>2
<1>5. Record'
  BY <1>1, <1>3, <1>4, RecordKept DEF Alerted
<1>6. QED
  BY <1>1, <1>5 DEF Alerted, Evaluation

LEMMA AlertedPruneFails == ASSUME Base, Alerted, PruneFails PROVE Alerted'
<1>1. /\ Base' /\ UNCHANGED <<rules, events, tx, hist, now>> /\ s.pc = "prune" /\ tx = NoTx
      /\ s'.pc = "sleep" /\ s'.wake = now + Interval
  BY BasePruneFails DEF Base, Rhythm, PruneFails
<1>2. now < now + Interval /\ now <= now' /\ tx.sent = {}
  BY <1>1, Parts, NoTransaction DEF Base
<1>3. QED
  BY <1>1, <1>2, AlertedKept DEF SameAlerts

LEMMA AlertedPrune == ASSUME Base, Alerted, Prune PROVE Alerted'
<1>1. /\ Base' /\ UNCHANGED <<rules, tx, now>> /\ events' = events \ Orphans /\ s.pc = "prune" /\ ~tx.open
      /\ s'.pc = "sleep" /\ s'.wake = now + Interval
      /\ hist' = [hist EXCEPT !.lost = @ \cup {e.rule : e \in Orphans}]
  BY BasePrune DEF Base, Rhythm, Prune
<1>2. /\ hist'.lost = hist.lost \cup {e.rule : e \in Orphans} /\ hist'.hot = hist.hot
      /\ hist'.when = hist.when /\ hist'.quiet = hist.quiet /\ hist'.repeats = hist.repeats
  BY <1>1, Types DEF Base, History
<1>3. events' \subseteq events /\ \A e \in events : e.rule \notin hist'.lost => e \in events'
  BY <1>1, <1>2
<1>4. \A e \in events' : e.at < s'.wake
  <2>1. \A e \in events : e.at \in Nat /\ e.at <= now
    BY <1>1, EventTimes DEF Base, Alerted, Record
  <2>2. now \in Nat /\ now < s'.wake /\ s'.wake \in Nat
    BY <1>1, Parts DEF Base
  <2>3. QED
    BY <1>3, <2>1, <2>2
<1>5. Ordered(events)'
  BY <1>3 DEF Alerted, Record, Ordered, LatestIn
<1>6. \A r \in AlertRules \ hist'.lost : Quieted(events, r) => Quieted(events, r)'
  BY <1>2, <1>3 DEF Quieted, LatestIn
<1>7. Record'
  <2>1. \A r \in hist'.hot \ hist'.lost :
          \E e \in events' : e.rule = r /\ (e.active \/ hist'.when < e.resolved + Cooldown[r])
    BY <1>2, <1>3 DEF Alerted, Record
  <2>2. \A r \in AlertRules \ hist'.lost : now' < hist'.quiet[r] => r \in tx'.sent \/ Quieted(events, r)'
    BY <1>1, <1>2, <1>6 DEF Alerted, Record
  <2>3. QED
    BY <1>1, <1>2, <1>3, <1>4, <1>5, <2>1, <2>2 DEF Alerted, Record
<1>8. QED
  BY <1>1, <1>7 DEF Alerted, Evaluation

\* The steps of the reports.
LEMMA AlertedReporting == ASSUME Base, Alerted, Timely, Reporting \/ DispatchFails \/ NotifyingHangs PROVE Alerted'
<1>1. /\ Base' /\ s.pc \notin {"sleep", "alerts"} /\ s'.pc # "alerts" /\ now <= now'
      /\ (s'.pc = "sleep" => now' < s'.wake)
  <2>1. now \in Nat /\ Interval \in Nat \ {0} /\ now + Interval > now
    BY Parts DEF Base
  <2>2. CASE Dispatch
    BY <2>1, <2>2, BaseDispatch DEF Dispatch
  <2>3. CASE Generate
    BY <2>1, <2>3, BaseGenerate DEF Generate
  <2>4. CASE Notified
    BY <2>1, <2>4, BaseNotified DEF Notified
  <2>5. CASE SaveRule
    BY <2>1, <2>5, BaseSaveRule DEF SaveRule, Timely
  <2>6. CASE DispatchFails
    BY <2>1, <2>6, BaseDispatchFails DEF DispatchFails
  <2>7. CASE NotifyingHangs
    BY <2>1, <2>7, BaseNotifyingHangs DEF NotifyingHangs
  <2>8. QED
    BY <2>2, <2>3, <2>4, <2>5, <2>6, <2>7 DEF Reporting
<1>2. UNCHANGED <<rules, events, tx>> /\ (hist' = hist \/ hist' = Torn(hist))
  BY DEF Reporting, Dispatch, Generate, Notified, SaveRule, DispatchFails, NotifyingHangs
<1>3. tx = NoTx /\ tx.sent = {}
  BY <1>1, NoTransaction DEF Base, Rhythm
<1>4. SameAlerts
  <2>1. Torn(hist) = [hist EXCEPT !.torn = @ \cup {Reported}] /\ hist \in History
    BY Types DEF Torn, Base
  <2>2. QED
    BY <1>2, <2>1 DEF SameAlerts, History
<1>5. QED
  BY <1>1, <1>2, <1>3, <1>4, AlertedKept

\* The user, besides: what the transaction has is left, or it is disturbed.
LEMMA EvaluationWatched ==
  ASSUME Base, Alerted, UNCHANGED <<now, snaps>>, tx' = tx \/ (tx' = Disturbed /\ ~tx.wrote),
         hist'.quiet = hist.quiet, hist.lost \subseteq hist'.lost, events' \subseteq events,
         \A e \in events : e.rule \notin hist'.lost => e \in events'
  PROVE  Evaluation'
<1>1. /\ tx'.open = tx.open /\ tx'.at = tx.at /\ tx'.rules = tx.rules /\ tx'.events = tx.events
      /\ tx'.todo = tx.todo /\ tx'.wrote = tx.wrote /\ tx'.asked = tx.asked /\ tx'.sent = tx.sent
      /\ tx'.hot = tx.hot /\ (tx'.stale => tx.stale \/ ~tx.wrote)
  BY DisturbedTx
<1>2. \A r : Treated(r) => Treated(r)'
  BY <1>1 DEF Treated, LatestIn
<1>3. ASSUME tx.open PROVE Evaluation'
  <2>1. Evaluation /\ tx.open
    BY <1>3 DEF Alerted
  <2>2. Ordered(tx.events)'
    BY <1>1, <2>1 DEF Evaluation, Ordered, LatestIn
  <2>3. \A e \in tx'.events :
          /\ tx'.rules[e.rule] # "gone"
          /\ \E x \in snaps' : x.at = e.snap
          /\ e.at <= now' /\ e.resolved <= now'
          /\ e.rule \in tx'.todo => e.at < now'
          /\ e.active /\ e.rule \notin tx'.todo => e.rule \in tx'.hot
    BY <1>1, <2>1 DEF Evaluation
  <2>4. /\ \A r \in tx'.hot :
             \E e \in tx'.events : e.rule = r /\ (e.active \/ tx'.at < e.resolved + Cooldown[r])
        /\ tx'.hot \cap tx'.todo = {}
        /\ tx'.sent \cap tx'.todo = {}
        /\ tx'.asked # None =>
             tx'.asked \notin tx'.todo /\ (tx'.asked \notin hist'.lost => hist'.quiet[tx'.asked] <= now')
        /\ \A r \in AlertRules : r \in tx'.sent \/ r = tx'.asked => \E e \in tx'.events : e.rule = r /\ e.active
        /\ tx'.stale => ~tx'.wrote
    BY <1>1, <2>1 DEF Evaluation
  <2>5. ~tx'.wrote => /\ tx'.asked = None /\ tx'.sent = {} /\ events' \subseteq tx'.events
                      /\ \A e \in tx'.events : e.rule \notin hist'.lost => e \in events'
    BY <1>1, <2>1 DEF Evaluation
  <2>6. \A r \in AlertRules \ hist'.lost : EventsOf(tx'.events, r) = EventsOf(events', r) \/ Treated(r)'
    <3>1. ASSUME NEW r \in AlertRules \ hist'.lost, EventsOf(tx.events, r) = EventsOf(events, r)
          PROVE  EventsOf(tx'.events, r) = EventsOf(events', r)
      <4>1. EventsOf(events', r) = EventsOf(events, r)
        BY <3>1 DEF EventsOf
      <4>2. QED
        BY <1>1, <3>1, <4>1
    <3>2. QED
      BY <1>2, <2>1, <3>1 DEF Evaluation
  <2>7. QED
    BY <2>2, <2>3, <2>4, <2>5, <2>6 DEF Evaluation
<1>4. CASE ~tx.open
  BY <1>1, <1>4 DEF Evaluation
<1>5. QED
  BY <1>3, <1>4

LEMMA AlertedWatched ==
  ASSUME Base, Base', Alerted, UNCHANGED <<now, snaps, s, events>>,
         tx' = tx \/ (tx' = Disturbed /\ ~tx.wrote), SameAlerts,
         \A q \in AlertRules : rules'[q] = "gone" => rules[q] = "gone"
  PROVE  Alerted'
<1>1. Evaluation'
  BY EvaluationWatched DEF SameAlerts
<1>2. tx.sent \subseteq tx'.sent
  BY DisturbedTx
<1>3. \A e \in events : rules'[e.rule] # "gone"
  BY EventTimes DEF Base, Alerted, Record
<1>4. now <= now'
  BY Parts DEF Base
<1>5. Record'
  BY <1>2, <1>3, <1>4, RecordKept DEF Alerted, Record
<1>6. QED
  BY <1>1, <1>5 DEF Alerted

LEMMA AlertedDeleteAlert == ASSUME Base, Alerted, NEW r \in AlertRules, DeleteAlert(r) PROVE Alerted'
<1>1. /\ Base' /\ hist' = [hist EXCEPT !.lost = @ \cup {r}]
      /\ \A q \in AlertRules \ {r} : rules'[q] = rules[q]
      /\ events' = {e \in events : e.rule # r}
  BY BaseDeleteAlert
<1>2. UNCHANGED <<now, snaps, s>> /\ tx' = Disturbed /\ ~tx.wrote
  BY DEF DeleteAlert, Unlocked
<1>3. /\ hist'.lost = hist.lost \cup {r} /\ hist'.hot = hist.hot
      /\ hist'.when = hist.when /\ hist'.quiet = hist.quiet /\ hist'.repeats = hist.repeats
  BY <1>1, Types DEF Base, History
<1>4. events' \subseteq events /\ \A e \in events : e.rule \notin hist'.lost => e \in events'
  BY <1>1, <1>3
<1>5. Evaluation'
  BY <1>2, <1>3, <1>4, EvaluationWatched
<1>6. Ordered(events)'
  BY <1>4 DEF Alerted, Record, Ordered, LatestIn
<1>7. \A q \in AlertRules \ hist'.lost : Quieted(events, q) => Quieted(events, q)'
  BY <1>3, <1>4 DEF Quieted, LatestIn
<1>8. tx'.sent = tx.sent
  BY <1>2, DisturbedTx
<1>9. Record'
  <2>1. \A q \in hist'.hot \ hist'.lost :
          \E e \in events' : e.rule = q /\ (e.active \/ hist'.when < e.resolved + Cooldown[q])
    BY <1>3, <1>4 DEF Alerted, Record
  <2>2. \A q \in AlertRules \ hist'.lost : now' < hist'.quiet[q] => q \in tx'.sent \/ Quieted(events, q)'
    BY <1>2, <1>3, <1>7, <1>8 DEF Alerted, Record
  <2>3. \A e \in events' : rules'[e.rule] # "gone"
    BY <1>1, EventTimes DEF Base, Alerted, Record
  <2>4. QED
    BY <1>2, <1>3, <1>4, <1>6, <2>1, <2>2, <2>3 DEF Alerted, Record
<1>10. QED
  BY <1>5, <1>9 DEF Alerted

LEMMA AlertedUser == ASSUME Base, Alerted, Timely, User PROVE Alerted'
<1>1. ASSUME NEW r \in AlertRules, ToggleAlert(r) PROVE Alerted'
  BY <1>1, BaseToggleAlert, AlertedWatched DEF ToggleAlert, Unlocked, SameAlerts
<1>2. ASSUME NEW r \in AlertRules, DeleteAlert(r) PROVE Alerted'
  BY <1>2, AlertedDeleteAlert
<1>3. ASSUME NEW w \in ReportRules, OpenForm(w) PROVE Alerted'
  BY <1>3, BaseOpenForm, AlertedWatched DEF OpenForm, SameAlerts
<1>4. ASSUME NEW w \in ReportRules, DeleteReport(w) PROVE Alerted'
  BY <1>4, BaseDeleteReport, AlertedWatched DEF DeleteReport, Unlocked, SameAlerts
<1>5. ASSUME SaveForm PROVE Alerted'
  <2>1. form.rule \in ReportRules
    BY <1>5 DEF Timely, Schedule, SaveForm
  <2>2. Base' /\ SameAlerts
    BY <1>5, <2>1, BaseSaveForm DEF SameAlerts
  <2>3. QED
    BY <1>5, <2>2, AlertedWatched DEF SaveForm, Unlocked
<1>6. QED
  BY <1>1, <1>2, <1>3, <1>4, <1>5 DEF User

LEMMA AlertedBegin == ASSUME Base, Alerted, BeginAlerts PROVE Alerted'
<1>1. /\ Base' /\ s' = s /\ tx'.open /\ tx'.events = events /\ tx'.sent = {} /\ tx'.hot = {}
      /\ tx'.asked = None /\ ~tx'.stale /\ tx'.at = now
      /\ \A e \in events : tx'.rules[e.rule] # "gone" /\ e.rule \in tx'.todo
  BY BaseBegin DEF Alerted
<1>2. UNCHANGED <<now, snaps, rules, events, hist>> /\ s.pc = "alerts" /\ tx = NoTx /\ tx.sent = {}
  BY NoTransaction DEF Base, Rhythm, BeginAlerts
<1>3. Record'
  BY <1>1, <1>2, RecordKept, Parts DEF Base, Alerted, Record, SameAlerts
<1>4. Evaluation'
  <2>1. Ordered(tx.events)'
    BY <1>1 DEF Alerted, Record, Ordered, LatestIn
  <2>2. \A e \in events : \E x \in snaps : x.at = e.snap
    BY Types DEF Base
  <2>3. \A e \in events : e.at < now /\ e.at <= now /\ e.resolved <= now
    BY <1>2 DEF Alerted, Record
  <2>4. \A e \in tx'.events :
          /\ tx'.rules[e.rule] # "gone"
          /\ \E x \in snaps' : x.at = e.snap
          /\ e.at <= now' /\ e.resolved <= now'
          /\ e.rule \in tx'.todo => e.at < now'
          /\ e.active /\ e.rule \notin tx'.todo => e.rule \in tx'.hot
    BY <1>1, <1>2, <2>2, <2>3
  <2>5. /\ events' \subseteq tx'.events
        /\ \A e \in tx'.events : e.rule \notin hist'.lost => e \in events'
    BY <1>1, <1>2
  <2>6. \A r \in AlertRules \ hist'.lost : EventsOf(tx'.events, r) = EventsOf(events', r)
    BY <1>1, <1>2
  <2>7. \A r \in AlertRules : ~(r \in tx'.sent \/ r = tx'.asked)
    BY <1>1 DEF None
  <2>8. QED
    BY <1>1, <2>1, <2>4, <2>5, <2>6, <2>7 DEF Evaluation
<1>5. QED
  BY <1>3, <1>4 DEF Alerted

\* The transaction is rolled back: what it has sent is lost, perhaps with one that is
\* on its way.
LEMMA AlertedLoses ==
  ASSUME Base, Base', Alerted, UNCHANGED <<rules, events>>, tx' = NoTx, now <= now', s.pc # "sleep",
         s'.pc # "alerts", s'.pc = "sleep" => now' < s'.wake,
         hist'.hot = hist.hot, hist'.when = hist.when,
         NEW more \in SUBSET AlertRules, hist'.lost = hist.lost \cup (tx.sent \cup more),
         hist'.repeats \subseteq hist.repeats \cup more,
         \A q \in AlertRules \ more : hist'.quiet[q] = hist.quiet[q]
  PROVE  Alerted'
<1>1. ~tx'.open /\ tx'.sent = {}
  BY NoTransaction
<1>2. now \in Nat /\ now' \in Nat /\ (s'.pc = "sleep" => s'.wake \in Nat)
  BY Types, Parts DEF Base, Times, TypeOK, SamplerState
<1>3. \A e \in events : e.at <= now /\ e.resolved <= now /\ rules'[e.rule] # "gone"
  BY DEF Alerted, Record
<1>4. ASSUME NEW e \in events
      PROVE  e.resolved <= now' /\ IF s'.pc = "sleep" THEN e.at < s'.wake ELSE e.at <= now'
  <2>1. e.at \in Nat /\ e.at <= now' /\ e.resolved <= now'
    BY <1>2, <1>3, EventTimes DEF Base
  <2>2. s'.pc = "sleep" => e.at < s'.wake
    BY <1>2, <2>1
  <2>3. QED
    BY <2>1, <2>2
<1>5. ASSUME NEW r \in AlertRules \ hist'.lost, now' < hist'.quiet[r] PROVE Quieted(events, r)'
  <2>1. r \notin hist.lost /\ r \notin tx.sent /\ hist'.quiet[r] = hist.quiet[r]
    OBVIOUS
  <2>2. now < hist.quiet[r]
    BY <1>2, <1>5, <2>1, EventTimes DEF Base
  <2>3. Quieted(events, r)
    BY <2>1, <2>2 DEF Alerted, Record
  <2>4. QED
    BY <2>1, <2>3 DEF Quieted, LatestIn
<1>6. Ordered(events)'
  BY DEF Alerted, Record, Ordered, LatestIn
<1>7. \A r \in hist'.hot \ hist'.lost :
        \E e \in events' : e.rule = r /\ (e.active \/ hist'.when < e.resolved + Cooldown[r])
  BY DEF Alerted, Record
<1>8. hist'.repeats \subseteq hist'.lost
  BY DEF Alerted, Record
<1>9. \A e \in events' : e.active => e.rule \in hist'.hot
  BY DEF Alerted, Record
<1>10. Record'
  BY <1>3, <1>4, <1>5, <1>6, <1>7, <1>8, <1>9 DEF Record
<1>11. QED
  BY <1>1, <1>10 DEF Alerted, Evaluation

LEMMA AlertedSkips ==
  ASSUME Base, Alerted, s.pc = "alerts", Skips, UNCHANGED <<now, snaps, rules, events, reports, runs, form>>,
         Fault \/ UNCHANGED bounds
  PROVE  Alerted'
<1>1. /\ Base' /\ s'.pc = "reports" /\ tx' = NoTx
      /\ hist' = [hist EXCEPT !.lost = @ \cup tx.sent]
  BY BaseSkips
<1>2. tx.sent \in SUBSET AlertRules /\ hist \in History
  BY Types, Parts DEF Base
<1>3. /\ hist'.hot = hist.hot /\ hist'.when = hist.when /\ hist'.quiet = hist.quiet
      /\ hist'.repeats = hist.repeats /\ hist'.lost = hist.lost \cup tx.sent
  BY <1>1, <1>2, LostTypes
<1>4. now <= now' /\ {} \in SUBSET AlertRules /\ tx.sent = tx.sent \cup {}
  BY Parts DEF Base
<1>5. \A q \in AlertRules \ {} : hist'.quiet[q] = hist.quiet[q]
  BY <1>3
<1>6. hist'.repeats \subseteq hist.repeats \cup {} /\ hist'.lost = hist.lost \cup (tx.sent \cup {})
  BY <1>3
<1>7. QED
  BY <1>1, <1>3, <1>4, <1>5, <1>6, AlertedLoses

\* What is accepted and lost at once.
LEMMA HeardAndLost ==
  ASSUME TypeOK, NEW r \in AlertRules, NEW more \in SUBSET AlertRules
  PROVE  LET h == [Heard(hist, r) EXCEPT !.lost = @ \cup more] IN
         /\ h.hot = hist.hot /\ h.when = hist.when /\ h.lost = hist.lost \cup more
         /\ h.repeats \subseteq hist.repeats \cup {r}
         /\ \A q \in AlertRules \ {r} : h.quiet[q] = hist.quiet[q]
<1> DEFINE h == Heard(hist, r)
           g == [h EXCEPT !.lost = @ \cup more]
<1>1. /\ h \in History /\ h.hot = hist.hot /\ h.when = hist.when /\ h.lost = hist.lost
      /\ h.repeats = IF now < hist.quiet[r] THEN hist.repeats \cup {r} ELSE hist.repeats
      /\ \A q \in AlertRules \ {r} : h.quiet[q] = hist.quiet[q]
  BY HeardTypes
<1> HIDE DEF h
<1>2. /\ g.hot = h.hot /\ g.when = h.when /\ g.quiet = h.quiet
      /\ g.repeats = h.repeats /\ g.lost = h.lost \cup more
  BY <1>1, LostTypes
<1> HIDE DEF g
<1>3. /\ g.hot = hist.hot /\ g.when = hist.when /\ g.lost = hist.lost \cup more
      /\ g.repeats \subseteq hist.repeats \cup {r}
      /\ \A q \in AlertRules \ {r} : g.quiet[q] = hist.quiet[q]
  BY <1>1, <1>2
<1>4. QED
  BY <1>3 DEF g, h

\* What the transaction has sent is lost, and so is perhaps what it asks for.
LEMMA AlertedDrops ==
  ASSUME Base, Base', Alerted, UNCHANGED <<rules, events>>, tx' = NoTx, now <= now', s.pc # "sleep",
         s'.pc = "sleep", now' < s'.wake,
         \/ hist' = [hist EXCEPT !.lost = @ \cup tx.sent]
         \/ /\ tx.asked \in AlertRules
            /\ hist' = [Heard(hist, tx.asked) EXCEPT !.lost = @ \cup (tx.sent \cup {tx.asked})]
  PROVE  Alerted'
<1>1. tx.sent \in SUBSET AlertRules /\ hist \in History
  BY Types, Parts DEF Base
<1>2. CASE hist' = [hist EXCEPT !.lost = @ \cup tx.sent]
  <2>1. /\ hist'.hot = hist.hot /\ hist'.when = hist.when /\ hist'.quiet = hist.quiet
        /\ hist'.repeats = hist.repeats /\ hist'.lost = hist.lost \cup tx.sent
    BY <1>1, <1>2, LostTypes
  <2>2. hist'.repeats \subseteq hist.repeats \cup {} /\ hist'.lost = hist.lost \cup (tx.sent \cup {})
    BY <2>1
  <2>3. {} \in SUBSET AlertRules /\ (\A q \in AlertRules \ {} : hist'.quiet[q] = hist.quiet[q])
    BY <2>1
  <2>4. QED
    BY <2>1, <2>2, <2>3, AlertedLoses
<1>3. CASE /\ tx.asked \in AlertRules
           /\ hist' = [Heard(hist, tx.asked) EXCEPT !.lost = @ \cup (tx.sent \cup {tx.asked})]
  <2>1. PICK r \in AlertRules : r = tx.asked
    BY <1>3
  <2>2. PICK more \in SUBSET AlertRules : more = tx.sent \cup {r}
    BY <1>1
  <2>3. hist' = [Heard(hist, r) EXCEPT !.lost = @ \cup more]
    BY <1>3, <2>1, <2>2
  <2>4. TypeOK
    BY DEF Base
  <2>5. /\ hist'.hot = hist.hot /\ hist'.when = hist.when
        /\ hist'.lost = hist.lost \cup more
        /\ hist'.repeats \subseteq hist.repeats \cup {r}
        /\ \A q \in AlertRules \ {r} : hist'.quiet[q] = hist.quiet[q]
    <3> DEFINE h == [Heard(hist, r) EXCEPT !.lost = @ \cup more]
    <3>1. /\ h.hot = hist.hot /\ h.when = hist.when /\ h.lost = hist.lost \cup more
          /\ h.repeats \subseteq hist.repeats \cup {r}
          /\ \A q \in AlertRules \ {r} : h.quiet[q] = hist.quiet[q]
      BY <2>4, HeardAndLost
    <3>2. hist' = h
      BY <2>3
    <3> HIDE DEF h
    <3>3. QED
      BY <3>1, <3>2
  <2>6. {r} \in SUBSET AlertRules
    BY <2>1
  <2>7. hist'.lost = hist.lost \cup (tx.sent \cup {r})
    BY <2>2, <2>5
  <2>8. QED
    BY <2>5, <2>6, <2>7, AlertedLoses
<1>4. QED
  BY <1>2, <1>3

LEMMA AlertedHangs == ASSUME Base, Alerted, TellingHangs PROVE Alerted'
<1>1. /\ Base' /\ s'.pc = "sleep" /\ s'.wake = now + 1 + Interval /\ tx.asked \in AlertRules /\ tx.open
      /\ tx' = NoTx /\ now' = now + 1
      /\ \/ hist' = [Heard(hist, tx.asked) EXCEPT !.lost = @ \cup (tx.sent \cup {tx.asked})]
         \/ hist' = [hist EXCEPT !.lost = @ \cup tx.sent]
  BY BaseHangs
<1>2. now <= now' /\ now' < s'.wake
  BY <1>1, Parts DEF Base
<1>3. UNCHANGED <<rules, events>> /\ s.pc # "sleep"
  BY DEF TellingHangs
<1>4. QED
  BY <1>1, <1>2, <1>3, AlertedDrops

LEMMA AlertedCrash == ASSUME Base, Alerted, Crash PROVE Alerted'
<1>1. /\ Base' /\ s'.pc = "sleep" /\ s'.wake = now + 1 /\ tx' = NoTx
      /\ s.pc \in {"notify", "save"} => s.due # {} /\ tx.sent = {} /\ hist' = [Torn(hist) EXCEPT !.lost = @ \cup {}]
      /\ s.pc \notin {"notify", "save"} =>
           \/ hist' = [hist EXCEPT !.lost = @ \cup tx.sent]
           \/ /\ tx.asked \in AlertRules
              /\ hist' = [Heard(hist, tx.asked) EXCEPT !.lost = @ \cup (tx.sent \cup {tx.asked})]
  BY BaseCrash
<1>2. UNCHANGED <<rules, events, now>> /\ s.pc # "sleep"
  BY DEF Crash
<1>3. now <= now' /\ now' < s'.wake
  BY <1>1, <1>2, Parts DEF Base
<1>4. CASE s.pc \in {"notify", "save"}
  <2>1. s.due # {} /\ tx.sent = {} /\ hist' = [Torn(hist) EXCEPT !.lost = @ \cup {}]
    BY <1>1, <1>4
  <2>2. /\ Torn(hist) \in History /\ Torn(hist).hot = hist.hot /\ Torn(hist).when = hist.when
        /\ Torn(hist).quiet = hist.quiet /\ Torn(hist).repeats = hist.repeats /\ Torn(hist).lost = hist.lost
    BY <2>1, TornTypes DEF Base
  <2>3. SameAlerts
    BY <2>1, <2>2 DEF SameAlerts, History
  <2>4. QED
    BY <1>1, <1>2, <1>3, <2>1, <2>3, AlertedKept
<1>5. CASE s.pc \notin {"notify", "save"}
  BY <1>1, <1>2, <1>3, <1>5, AlertedDrops
<1>6. QED
  BY <1>4, <1>5

\* A notification has its answer: if it is accepted, its alert is there.
LEMMA AlertedTold == ASSUME Base, Alerted, Told PROVE Alerted'
<1>1. /\ Base' /\ s' = s /\ tx.asked \in AlertRules /\ tx.open
      /\ tx'.open /\ tx'.at = tx.at /\ tx'.rules = tx.rules /\ tx'.events = tx.events
      /\ tx'.todo = tx.todo /\ tx'.wrote = tx.wrote /\ tx'.stale = tx.stale
      /\ tx'.asked = None /\ tx'.hot = tx.hot
      /\ \/ tx'.sent = tx.sent \cup {tx.asked} /\ hist' = Heard(hist, tx.asked)
         \/ tx'.sent = tx.sent /\ hist' = hist
  BY BaseTold
<1>2. UNCHANGED <<now, snaps, rules, events>> /\ s.pc = "alerts"
  BY DEF Told
<1>3. Evaluation
  BY DEF Alerted
<1>4. /\ hist'.hot = hist.hot /\ hist'.when = hist.when /\ hist'.lost = hist.lost
      /\ \A q \in AlertRules \ {tx.asked} : hist'.quiet[q] = hist.quiet[q]
      /\ tx'.sent # tx.sent \cup {tx.asked} => hist'.quiet = hist.quiet
      /\ hist'.repeats \subseteq hist.repeats \cup {tx.asked}
      /\ tx.asked \notin hist.lost => hist'.repeats = hist.repeats
  <2>1. tx.asked # None
    BY <1>1 DEF None
  <2>2. tx.asked \notin hist.lost => ~(now < hist.quiet[tx.asked])
    <3>1. tx.asked \notin hist.lost => hist.quiet[tx.asked] <= now
      BY <1>1, <1>3, <2>1 DEF Evaluation
    <3>2. hist.quiet[tx.asked] \in Nat /\ now \in Nat
      BY <1>1, EventTimes, Parts DEF Base
    <3>3. QED
      BY <3>1, <3>2
  <2>3. CASE tx'.sent = tx.sent \cup {tx.asked} /\ hist' = Heard(hist, tx.asked)
    BY <1>1, <2>2, <2>3, HeardTypes DEF Base
  <2>4. CASE tx'.sent = tx.sent /\ hist' = hist
    BY <2>4
  <2>5. QED
    BY <1>1, <2>3, <2>4
<1>5. Record'
  <2>1. \A r \in AlertRules \ hist'.lost : now' < hist'.quiet[r] => r \in tx'.sent \/ Quieted(events, r)'
    <3>1. ASSUME NEW r \in AlertRules \ hist'.lost, now' < hist'.quiet[r], r \notin tx'.sent
          PROVE  Quieted(events, r)'
      <4>1. hist'.quiet[r] = hist.quiet[r] /\ r \notin tx.sent
        BY <1>1, <1>4, <3>1
      <4>2. Quieted(events, r)
        BY <1>2, <1>4, <3>1, <4>1 DEF Alerted, Record
      <4>3. QED
        BY <1>2, <4>1, <4>2 DEF Quieted, LatestIn
    <3>2. QED
      BY <3>1
  <2>2. hist'.repeats \subseteq hist'.lost
    BY <1>4 DEF Alerted, Record
  <2>3. Ordered(events)'
    BY <1>2 DEF Alerted, Record, Ordered, LatestIn
  <2>4. QED
    BY <1>1, <1>2, <1>4, <2>1, <2>2, <2>3 DEF Alerted, Record
<1>6. Evaluation'
  <2>1. \A r : Treated(r) => Treated(r)'
    BY <1>1 DEF Treated, LatestIn
  <2>2. Ordered(tx.events)'
    BY <1>1, <1>3 DEF Evaluation, Ordered, LatestIn
  <2>3. tx.asked # None /\ tx.wrote
    BY <1>1, <1>3 DEF None, Evaluation
  <2>4. tx'.sent \subseteq tx.sent \cup {tx.asked}
    BY <1>1
  <2>5. \A e \in tx'.events :
          /\ tx'.rules[e.rule] # "gone"
          /\ \E x \in snaps' : x.at = e.snap
          /\ e.at <= now' /\ e.resolved <= now'
          /\ e.rule \in tx'.todo => e.at < now'
          /\ e.active /\ e.rule \notin tx'.todo => e.rule \in tx'.hot
    BY <1>1, <1>2, <1>3 DEF Evaluation
  <2>6. /\ \A r \in tx'.hot :
             \E e \in tx'.events : e.rule = r /\ (e.active \/ tx'.at < e.resolved + Cooldown[r])
        /\ tx'.hot \cap tx'.todo = {}
        /\ tx'.stale => ~tx'.wrote
        /\ tx'.asked = None /\ tx'.wrote
    BY <1>1, <1>3, <2>3 DEF Evaluation
  <2>7. tx'.sent \cap tx'.todo = {}
    BY <1>1, <1>3, <2>3, <2>4 DEF Evaluation
  <2>8. \A r \in AlertRules : r \in tx'.sent \/ r = tx'.asked => \E e \in tx'.events : e.rule = r /\ e.active
    BY <1>1, <1>3, <2>4 DEF Evaluation, None
  <2>9. \A r \in AlertRules \ hist'.lost : EventsOf(tx'.events, r) = EventsOf(events', r) \/ Treated(r)'
    BY <1>1, <1>2, <1>3, <1>4, <2>1 DEF Evaluation
  <2>10. QED
    BY <2>2, <2>5, <2>6, <2>7, <2>8, <2>9 DEF Evaluation
<1>7. QED
  BY <1>5, <1>6 DEF Alerted

\* All rules are done: what was told is recorded, or nothing was.
LEMMA AlertedCommit == ASSUME Base, Alerted, Commit PROVE Alerted'
<1>1. /\ Base' /\ s'.pc = "reports" /\ tx' = NoTx /\ tx.open /\ tx.at = now
      /\ hist'.hot = tx.hot /\ hist'.when = now /\ hist'.lost = hist.lost /\ hist'.repeats = hist.repeats
      /\ \A r \in AlertRules :
           hist'.quiet[r] = IF r \in Over THEN now + Cooldown[r] ELSE hist.quiet[r]
  BY BaseCommit DEF Alerted
<1>2. /\ s.pc = "alerts" /\ tx.asked = None /\ tx.todo = {} /\ now' = now
      /\ IF tx.wrote THEN events' = tx.events /\ rules' = tx.rules ELSE events' = events /\ rules' = rules
  BY DEF Commit
<1>3. Evaluation /\ Record
  BY DEF Alerted
<1>4. ~tx'.open /\ tx'.sent = {}
  BY <1>1, NoTransaction
<1>5. ASSUME NEW r \in AlertRules \ hist.lost PROVE EventsOf(events', r) = EventsOf(tx.events, r)
  BY <1>1, <1>2, <1>3, <1>5 DEF EventsOf, Evaluation
<1>6. events' \subseteq tx.events
  BY <1>1, <1>2, <1>3 DEF Evaluation
<1>7. Ordered(events)'
  BY <1>1, <1>2, <1>3 DEF Record, Evaluation, Ordered, LatestIn
<1>8. \A e \in events' : /\ rules'[e.rule] # "gone" /\ e.at <= now' /\ e.resolved <= now'
                         /\ e.active => e.rule \in hist'.hot
  <2>1. \A e \in events' : /\ e.at <= now' /\ e.resolved <= now'
                           /\ e.active => e.rule \in hist'.hot
    BY <1>1, <1>2, <1>3, <1>6 DEF Evaluation
  <2>2. \A e \in events' : rules'[e.rule] # "gone"
    BY <1>1, <1>2, <1>3 DEF Evaluation, Record
  <2>3. QED
    BY <2>1, <2>2
<1>9. \A r \in hist'.hot \ hist'.lost :
        \E e \in events' : e.rule = r /\ (e.active \/ hist'.when < e.resolved + Cooldown[r])
  <2>1. ASSUME NEW r \in tx.hot \ hist.lost
        PROVE  \E e \in events' : e.rule = r /\ (e.active \/ now < e.resolved + Cooldown[r])
    <3>1. r \in AlertRules
      BY Parts DEF Base
    <3>2. PICK e \in tx.events : e.rule = r /\ (e.active \/ now < e.resolved + Cooldown[r])
      BY <1>1, <1>3, <2>1 DEF Evaluation
    <3>3. e \in events'
      BY <1>5, <2>1, <3>1, <3>2 DEF EventsOf
    <3>4. QED
      BY <3>2, <3>3
  <2>2. QED
    BY <1>1, <2>1
<1>10. ASSUME NEW r \in AlertRules \ hist.lost, now < hist'.quiet[r]
       PROVE  \E e \in tx.events : /\ e.rule = r /\ LatestIn(tx.events, e)
                                   /\ e.active \/ hist'.quiet[r] <= e.resolved + Cooldown[r]
  <2>1. \A e \in tx.events : e.active => LatestIn(tx.events, e)
    BY <1>1, <1>3 DEF Evaluation, Ordered
  <2>2. EventsOf(tx.events, r) = EventsOf(events, r) \/ Treated(r)
    BY <1>1, <1>3, <1>10 DEF Evaluation
  <2>3. now \in Nat /\ Cooldown[r] \in Nat /\ hist.quiet[r] \in Nat
    BY EventTimes, Parts DEF Base
  <2>4. CASE r \in Over
    <3>1. \E e \in events : e.rule = r /\ e.active
      BY <2>4 DEF Over, Active, EventsOf
    <3>2. \A e \in tx.events : ~(e.rule = r /\ e.active)
      BY <2>4 DEF Over, Active, EventsOf
    <3>3. EventsOf(tx.events, r) # EventsOf(events, r)
      BY <3>1, <3>2 DEF EventsOf
    <3>4. PICK e \in tx.events : e.rule = r /\ LatestIn(tx.events, e) /\ (e.active \/ e.resolved = tx.at)
      BY <2>2, <3>3 DEF Treated
    <3>5. e.resolved = now
      BY <1>1, <3>2, <3>4
    <3>6. hist'.quiet[r] = now + Cooldown[r]
      BY <1>1, <2>4
    <3>7. QED
      BY <2>3, <3>4, <3>5, <3>6
  <2>5. CASE r \notin Over
    <3>1. hist'.quiet[r] = hist.quiet[r]
      BY <1>1, <2>5
    <3>2. CASE r \in tx.sent
      BY <1>1, <1>3, <2>1, <3>2 DEF Evaluation
    <3>3. CASE r \notin tx.sent
      <4>1. PICK e \in events : /\ e.rule = r /\ LatestIn(events, e)
                                /\ e.active \/ hist.quiet[r] <= e.resolved + Cooldown[r]
        BY <1>3, <1>10, <3>1, <3>3 DEF Record, Quieted
      <4>2. CASE EventsOf(tx.events, r) = EventsOf(events, r)
        BY <3>1, <4>1, <4>2 DEF EventsOf, LatestIn
      <4>3. CASE Treated(r)
        <5>1. PICK f \in tx.events : f.rule = r /\ LatestIn(tx.events, f) /\ (f.active \/ f.resolved = tx.at)
          BY <4>3 DEF Treated
        <5>2. CASE e.active
          <6>1. \E g \in tx.events : g.rule = r /\ g.active
            BY <2>5, <4>1, <5>2 DEF Over, Active, EventsOf
          <6>2. QED
            BY <2>1, <6>1
        <5>3. CASE ~e.active
          <6>1. hist.quiet[r] <= e.resolved + Cooldown[r] /\ e.resolved <= now /\ e.resolved \in Int
            BY <1>3, <4>1, <5>3, EventTimes DEF Base, Record
          <6>2. hist.quiet[r] <= now + Cooldown[r]
            BY <2>3, <6>1
          <6>3. QED
            BY <1>1, <3>1, <5>1, <6>2
        <5>4. QED
          BY <5>2, <5>3
      <4>4. QED
        BY <2>2, <4>2, <4>3
    <3>4. QED
      BY <3>2, <3>3
  <2>6. QED
    BY <2>4, <2>5
<1>11. ASSUME NEW r \in AlertRules \ hist'.lost, now' < hist'.quiet[r] PROVE Quieted(events, r)'
  <2>1. PICK e \in tx.events : /\ e.rule = r /\ LatestIn(tx.events, e)
                               /\ e.active \/ hist'.quiet[r] <= e.resolved + Cooldown[r]
    BY <1>1, <1>2, <1>10, <1>11
  <2>2. e \in events' /\ \A f \in events' : f.rule = r => f.at <= e.at
    BY <1>1, <1>5, <1>6, <1>11, <2>1 DEF EventsOf, LatestIn
  <2>3. QED
    BY <2>1, <2>2 DEF Quieted, LatestIn
<1>12. Record'
  BY <1>1, <1>3, <1>7, <1>8, <1>9, <1>11 DEF Record
<1>13. QED
  BY <1>4, <1>12 DEF Alerted, Evaluation

\* The events of the rule that is evaluated change as they may, the others do not.
LEMMA EvaluationTreated ==
  ASSUME Base, Alerted, tx.open, tx.asked = None, NEW r \in tx.todo, NEW hot \in BOOLEAN,
         UNCHANGED <<now, snaps, events, hist>>, tx' \in Tx,
         tx'.open, tx'.at = tx.at, tx'.rules = tx.rules, tx'.todo = tx.todo \ {r},
         tx'.stale = tx.stale, tx'.sent = tx.sent, tx'.hot = IF hot THEN tx.hot \cup {r} ELSE tx.hot,
         \A e \in tx'.events : e.rule # r => e \in tx.events,
         \A e \in tx.events : e.rule # r => e \in tx'.events,
         Ordered(tx'.events),
         \A e \in tx'.events : e.rule = r =>
           /\ tx.rules[r] # "gone" /\ e.at <= now /\ e.resolved <= now /\ (e.active => hot)
           /\ \E x \in snaps : x.at = e.snap,
         hot => \E e \in tx'.events : e.rule = r /\ (e.active \/ tx.at < e.resolved + Cooldown[r]),
         tx'.asked \in {None, r},
         tx'.asked = r => /\ r \notin hist.lost => hist.quiet[r] <= now
                          /\ \E e \in tx'.events : e.rule = r /\ e.active,
         tx.stale => ~tx'.wrote,
         ~tx'.wrote => ~tx.wrote /\ tx'.asked = None /\ tx'.events = tx.events,
         \/ EventsOf(tx'.events, r) = EventsOf(tx.events, r)
         \/ \E e \in tx'.events : e.rule = r /\ LatestIn(tx'.events, e) /\ (e.active \/ e.resolved = tx.at)
  PROVE  Evaluation'
<1>1. Evaluation /\ r \in AlertRules
  BY Parts DEF Base, Alerted
<1>2. \A e \in tx'.events :
        /\ tx'.rules[e.rule] # "gone"
        /\ \E x \in snaps' : x.at = e.snap
        /\ e.at <= now' /\ e.resolved <= now'
        /\ e.rule \in tx'.todo => e.at < now'
        /\ e.active /\ e.rule \notin tx'.todo => e.rule \in tx'.hot
  <2>1. ASSUME NEW e \in tx'.events, e.rule # r
        PROVE  /\ tx'.rules[e.rule] # "gone"
               /\ \E x \in snaps' : x.at = e.snap
               /\ e.at <= now' /\ e.resolved <= now'
               /\ e.rule \in tx'.todo => e.at < now'
               /\ e.active /\ e.rule \notin tx'.todo => e.rule \in tx'.hot
    BY <1>1, <2>1 DEF Evaluation
  <2>2. ASSUME NEW e \in tx'.events, e.rule = r
        PROVE  /\ tx'.rules[e.rule] # "gone"
               /\ \E x \in snaps' : x.at = e.snap
               /\ e.at <= now' /\ e.resolved <= now'
               /\ e.rule \notin tx'.todo
               /\ e.active => e.rule \in tx'.hot
    BY <2>2
  <2>3. QED
    BY <2>1, <2>2
<1>3. ASSUME NEW q \in tx'.hot
      PROVE  \E e \in tx'.events : e.rule = q /\ (e.active \/ tx'.at < e.resolved + Cooldown[q])
  <2>1. CASE q = r
    <3>1. hot
      BY <1>1, <1>3, <2>1 DEF Evaluation
    <3>2. QED
      BY <2>1, <3>1
  <2>2. CASE q # r
    <3>1. q \in tx.hot
      BY <1>3, <2>2
    <3>2. PICK e \in tx.events : e.rule = q /\ (e.active \/ tx.at < e.resolved + Cooldown[q])
      BY <1>1, <3>1 DEF Evaluation
    <3>3. e \in tx'.events
      BY <2>2, <3>2
    <3>4. QED
      BY <3>2, <3>3
  <2>3. QED
    BY <2>1, <2>2
<1>4. tx'.hot \cap tx'.todo = {} /\ tx'.sent \cap tx'.todo = {} /\ (tx'.stale => ~tx'.wrote)
  BY <1>1 DEF Evaluation
<1>5. tx'.asked # None =>
        tx'.asked \notin tx'.todo /\ (tx'.asked \notin hist'.lost => hist'.quiet[tx'.asked] <= now')
  OBVIOUS
<1>6. ASSUME NEW q \in AlertRules, q \in tx'.sent \/ q = tx'.asked
      PROVE  \E e \in tx'.events : e.rule = q /\ e.active
  <2>1. CASE q \in tx.sent
    <3>1. q # r
      BY <1>1, <2>1 DEF Evaluation
    <3>2. PICK e \in tx.events : e.rule = q /\ e.active
      BY <1>1, <2>1 DEF Evaluation
    <3>3. QED
      BY <3>1, <3>2
  <2>2. CASE q = tx'.asked
    BY <1>6, <2>2 DEF None
  <2>3. QED
    BY <1>6, <2>1, <2>2
<1>7. ~tx'.wrote => /\ tx'.asked = None /\ tx'.sent = {} /\ events' \subseteq tx'.events
                    /\ \A e \in tx'.events : e.rule \notin hist'.lost => e \in events'
  BY <1>1 DEF Evaluation
<1>8. ASSUME NEW q \in AlertRules \ hist'.lost
      PROVE  EventsOf(tx'.events, q) = EventsOf(events', q) \/ Treated(q)'
  <2>1. EventsOf(tx.events, q) = EventsOf(events, q) \/ Treated(q)
    BY <1>1, <1>8 DEF Evaluation
  <2>2. CASE q = r
    <3>1. EventsOf(tx.events, r) = EventsOf(events, r)
      BY <2>1, <2>2 DEF Treated
    <3>2. r \notin tx'.todo
      OBVIOUS
    <3>3. QED
      BY <2>2, <3>1, <3>2 DEF Treated
  <2>3. CASE q # r
    <3>1. EventsOf(tx'.events, q) = EventsOf(tx.events, q)
      BY <2>3 DEF EventsOf
    <3>2. Treated(q) => Treated(q)'
      <4>1. ASSUME Treated(q)
            PROVE  \E e \in tx'.events : e.rule = q /\ LatestIn(tx'.events, e) /\ (e.active \/ e.resolved = tx.at)
        <5>1. PICK e \in tx.events : e.rule = q /\ LatestIn(tx.events, e) /\ (e.active \/ e.resolved = tx.at)
          BY <4>1 DEF Treated
        <5>2. e \in tx'.events /\ LatestIn(tx'.events, e)
          BY <2>3, <5>1 DEF LatestIn
        <5>3. QED
          BY <5>1, <5>2
      <4>2. Treated(q) => q \notin tx'.todo
        BY DEF Treated
      <4>3. QED
        BY <4>1, <4>2 DEF Treated
    <3>3. QED
      BY <2>1, <3>1, <3>2
  <2>4. QED
    BY <2>2, <2>3
<1>9. Ordered(tx.events)'
  BY DEF Ordered, LatestIn
<1>10. QED
  BY <1>2, <1>3, <1>4, <1>5, <1>6, <1>7, <1>8, <1>9 DEF Evaluation

\* Who is raised has nothing to wait for: it had no active alert and was not cooling.
LEMMA RaisedIsQuiet ==
  ASSUME Base, Alerted, tx.open, NEW r \in tx.todo, Active(tx.events, r) = {}, ~Cooling(tx.events, r, tx.at),
         r \notin hist.lost
  PROVE  hist.quiet[r] <= now
<1>1. Evaluation /\ Record /\ r \in AlertRules /\ tx.at = now
  BY Parts DEF Base, Alerted, Rhythm
<1>2. hist.quiet[r] \in Nat /\ now \in Nat /\ Cooldown[r] \in Nat
  BY <1>1, EventTimes, Parts DEF Base
<1>3. SUFFICES ASSUME now < hist.quiet[r] PROVE FALSE
  BY <1>2
<1>4. r \notin tx.sent
  BY <1>1 DEF Evaluation
<1>5. PICK e \in events : /\ e.rule = r /\ LatestIn(events, e)
                          /\ e.active \/ hist.quiet[r] <= e.resolved + Cooldown[r]
  BY <1>1, <1>3, <1>4 DEF Record, Quieted
<1>6. EventsOf(tx.events, r) = EventsOf(events, r)
  BY <1>1 DEF Evaluation, Treated
<1>7. e \in EventsOf(tx.events, r) /\ ~e.active /\ e.resolved # None /\ e.resolved \in Int
  <2>1. e \in EventsOf(tx.events, r) /\ e \in tx.events
    BY <1>5, <1>6 DEF EventsOf
  <2>2. ~e.active
    BY <2>1 DEF Active
  <2>3. e.resolved # None
    BY <1>1, <2>1, <2>2 DEF Evaluation, Ordered
  <2>4. QED
    BY <2>1, <2>2, <2>3, EventTimes DEF Base
<1>8. now < e.resolved + Cooldown[r]
  BY <1>2, <1>3, <1>5, <1>7
<1> DEFINE g == Latest(EventsOf(tx.events, r))
<1>9. g \in EventsOf(tx.events, r) /\ \A f \in EventsOf(tx.events, r) : f.at <= g.at
  <2>1. EventsOf(tx.events, r) \in SUBSET Event /\ EventsOf(tx.events, r) # {}
    BY <1>7, Parts DEF Base, EventsOf
  <2>2. QED
    BY <2>1, LatestIsLast
<1> HIDE DEF g
<1>10. g = e
  <2>1. g.at <= e.at /\ e.at <= g.at /\ g.at \in Nat /\ e.at \in Nat
    BY <1>5, <1>6, <1>7, <1>9, EventTimes DEF Base, EventsOf, LatestIn
  <2>2. g.rule = e.rule /\ g \in tx.events /\ e \in tx.events
    BY <1>5, <1>7, <1>9 DEF EventsOf
  <2>3. QED
    BY <1>1, <2>1, <2>2 DEF Evaluation, Ordered
<1>11. Cooling(tx.events, r, tx.at)
  BY <1>1, <1>7, <1>8, <1>10 DEF Cooling, g
<1>12. QED
  BY <1>11

\* What is known of the rule that is evaluated.
LEMMA BeforeTreated ==
  ASSUME Base, Alerted, tx.open, NEW r \in tx.todo
  PROVE  /\ r \in AlertRules /\ r \notin tx.hot /\ r \notin tx.sent /\ tx.at = now /\ now \in Nat
         /\ Ordered(tx.events) /\ (tx.stale => ~tx.wrote)
         /\ \A e \in tx.events : /\ e.at \in Nat /\ e.at <= now /\ e.resolved <= now /\ e.resolved \in Int
                                 /\ \E x \in snaps : x.at = e.snap
                                 /\ tx.rules[e.rule] # "gone"
                                 /\ e.rule = r => e.at < now
         /\ s.at = now /\ \E x \in snaps : x.at = s.at
<1>1. Evaluation /\ r \in AlertRules /\ tx.at = now /\ now \in Nat /\ s.pc = "alerts"
  BY Parts DEF Base, Alerted, Rhythm
<1>2. s.at = now /\ \E x \in snaps : x.at = s.at
  BY <1>1 DEF Base, Rhythm
<1>3. \A e \in tx.events : e.at \in Nat /\ e.resolved \in Int
  BY EventTimes DEF Base
<1>4. QED
  BY <1>1, <1>2, <1>3 DEF Evaluation

\* Its events stay.
LEMMA EvaluationStays ==
  ASSUME Base, Alerted, tx.open, tx.asked = None, NEW r \in tx.todo, NEW hot \in BOOLEAN,
         UNCHANGED <<now, snaps, events, hist>>, tx' \in Tx,
         tx'.open, tx'.at = tx.at, tx'.rules = tx.rules, tx'.todo = tx.todo \ {r}, tx'.events = tx.events,
         tx'.stale = tx.stale, tx'.sent = tx.sent, tx'.hot = IF hot THEN tx.hot \cup {r} ELSE tx.hot,
         tx'.asked = None,
         hot <=> Active(tx.events, r) # {} \/ (hot /\ Cooling(tx.events, r, tx.at)),
         tx.stale => tx'.wrote = tx.wrote, tx'.wrote # tx.wrote => tx'.wrote
  PROVE  Evaluation'
<1>1. /\ r \in AlertRules /\ r \notin tx.hot /\ r \notin tx.sent /\ tx.at = now /\ now \in Nat
      /\ Ordered(tx.events) /\ (tx.stale => ~tx.wrote)
      /\ \A e \in tx.events : /\ e.at \in Nat /\ e.at <= now /\ e.resolved <= now
                              /\ \E x \in snaps : x.at = e.snap
                              /\ tx.rules[e.rule] # "gone"
  BY BeforeTreated
<1>2. \A e \in tx.events : e.rule = r /\ e.active => hot
  BY DEF Active, EventsOf
<1>3. ASSUME hot PROVE \E e \in tx.events : e.rule = r /\ (e.active \/ tx.at < e.resolved + Cooldown[r])
  <2>1. CASE Active(tx.events, r) # {}
    BY <2>1 DEF Active, EventsOf
  <2>2. CASE Cooling(tx.events, r, tx.at)
    <3>1. EventsOf(tx.events, r) # {} /\ EventsOf(tx.events, r) \in SUBSET Event
      BY <2>2, Parts DEF Base, Cooling, EventsOf
    <3>2. Latest(EventsOf(tx.events, r)) \in EventsOf(tx.events, r)
      BY <3>1, LatestIsLast
    <3>3. QED
      BY <2>2, <3>2 DEF Cooling, EventsOf
  <2>3. QED
    BY <1>3, <2>1, <2>2
<1>4. tx'.asked # r
  BY <1>1 DEF None
<1>5. Ordered(tx'.events) /\ EventsOf(tx'.events, r) = EventsOf(tx.events, r)
  BY <1>1
<1>6. \A e \in tx'.events : e.rule = r =>
        /\ tx.rules[r] # "gone" /\ e.at <= now /\ e.resolved <= now /\ (e.active => hot)
        /\ \E x \in snaps : x.at = e.snap
  BY <1>1, <1>2
<1>7. (tx.stale => ~tx'.wrote) /\ (~tx'.wrote => ~tx.wrote /\ tx'.asked = None /\ tx'.events = tx.events)
  BY <1>1
<1>8. /\ \A e \in tx'.events : e.rule # r => e \in tx.events
      /\ \A e \in tx.events : e.rule # r => e \in tx'.events
      /\ hot => \E e \in tx'.events : e.rule = r /\ (e.active \/ tx.at < e.resolved + Cooldown[r])
  BY <1>3
<1>9. tx'.asked \in {None, r}
  OBVIOUS
<1>10. \/ EventsOf(tx'.events, r) = EventsOf(tx.events, r)
       \/ \E e \in tx'.events : e.rule = r /\ LatestIn(tx'.events, e) /\ (e.active \/ e.resolved = tx.at)
  BY <1>5
<1>11. tx'.asked = r => /\ r \notin hist.lost => hist.quiet[r] <= now
                        /\ \E e \in tx'.events : e.rule = r /\ e.active
  BY <1>4
<1>12. CASE hot
  <2>1. /\ TRUE \in BOOLEAN /\ tx'.hot = IF TRUE THEN tx.hot \cup {r} ELSE tx.hot
        /\ \E e \in tx'.events : e.rule = r /\ (e.active \/ tx.at < e.resolved + Cooldown[r])
    BY <1>8, <1>12
  <2>2. \A e \in tx'.events : e.rule = r =>
          /\ tx.rules[r] # "gone" /\ e.at <= now /\ e.resolved <= now /\ (e.active => TRUE)
          /\ \E x \in snaps : x.at = e.snap
    BY <1>6
  <2>3. QED
    BY <1>5, <1>7, <1>8, <1>9, <1>10, <1>11, <2>1, <2>2, EvaluationTreated
<1>13. CASE ~hot
  <2>1. FALSE \in BOOLEAN /\ tx'.hot = IF FALSE THEN tx.hot \cup {r} ELSE tx.hot
    BY <1>13
  <2>2. \A e \in tx'.events : e.rule = r =>
          /\ tx.rules[r] # "gone" /\ e.at <= now /\ e.resolved <= now /\ (e.active => FALSE)
          /\ \E x \in snaps : x.at = e.snap
    BY <1>6, <1>13
  <2>3. QED
    BY <1>5, <1>7, <1>8, <1>9, <1>10, <1>11, <2>1, <2>2, EvaluationTreated
<1>14. QED
  BY <1>12, <1>13

\* Its alert is over.
LEMMA EvaluationResolved ==
  ASSUME Base, Alerted, tx.open, tx.asked = None, NEW r \in tx.todo,
         UNCHANGED <<now, snaps, events, hist>>, tx' \in Tx,
         tx'.open, tx'.at = tx.at, tx'.rules = tx.rules, tx'.todo = tx.todo \ {r},
         tx'.events = Resolve(tx.events, r, tx.at),
         tx'.stale = tx.stale, tx'.sent = tx.sent, tx'.hot = tx.hot, tx'.asked = None,
         Active(tx.events, r) # {}, ~tx.stale, tx'.wrote
  PROVE  Evaluation'
<1>1. /\ r \in AlertRules /\ r \notin tx.hot /\ r \notin tx.sent /\ tx.at = now /\ now \in Nat
      /\ Ordered(tx.events)
      /\ \A e \in tx.events : /\ e.at \in Nat /\ e.at <= now /\ e.resolved <= now
                              /\ \E x \in snaps : x.at = e.snap
                              /\ tx.rules[e.rule] # "gone"
  BY BeforeTreated
<1> DEFINE e == Latest(Active(tx.events, r))
           f == [e EXCEPT !.active = FALSE, !.resolved = tx.at]
<1>2. /\ e \in tx.events /\ e.rule = r /\ e.active
      /\ \A g \in tx.events : g.rule = r /\ g.active => g.at <= e.at
      /\ f \in Event /\ f.rule = r /\ f.snap = e.snap /\ f.at = e.at /\ ~f.active /\ f.resolved = tx.at
      /\ tx'.events = (tx.events \ {e}) \cup {f}
  BY <1>1, ResolvedEvent
<1> HIDE DEF e, f
<1>3. LatestIn(tx.events, e)
  BY <1>1, <1>2 DEF Ordered
<1>4. \A g \in tx.events : g.rule = r /\ g.active => g = e
  <2>1. ASSUME NEW g \in tx.events, g.rule = r, g.active PROVE g = e
    <3>1. g.at <= e.at /\ e.at <= g.at /\ g.at \in Nat /\ e.at \in Nat
      BY <1>1, <1>2, <2>1 DEF Ordered, LatestIn
    <3>2. g.at = e.at /\ g.rule = e.rule
      BY <1>2, <2>1, <3>1
    <3>3. QED
      BY <1>1, <1>2, <2>1, <3>2 DEF Ordered
  <2>2. QED
    BY <2>1
<1>5. Ordered(tx'.events)
  <2>1. ASSUME NEW a \in tx'.events, NEW b \in tx'.events, a.rule = b.rule, a.at = b.at PROVE a = b
    <3>1. CASE a \in tx.events /\ b \in tx.events
      BY <1>1, <2>1, <3>1 DEF Ordered
    <3>2. CASE a = f /\ b # f
      <4>1. b \in tx.events /\ b # e /\ b.rule = e.rule /\ b.at = e.at
        BY <1>2, <2>1, <3>2
      <4>2. QED
        BY <1>1, <1>2, <4>1 DEF Ordered
    <3>3. CASE b = f /\ a # f
      <4>1. a \in tx.events /\ a # e /\ a.rule = e.rule /\ a.at = e.at
        BY <1>2, <2>1, <3>3
      <4>2. QED
        BY <1>1, <1>2, <4>1 DEF Ordered
    <3>4. QED
      BY <1>2, <3>1, <3>2, <3>3
  <2>2. \A a \in tx'.events : a.active <=> a.resolved = None
    BY <1>1, <1>2 DEF Ordered, None
  <2>3. \A a \in tx'.events : a.active => LatestIn(tx'.events, a)
    BY <1>1, <1>2 DEF Ordered, LatestIn
  <2>4. QED
    BY <2>1, <2>2, <2>3 DEF Ordered
<1>6. f \in tx'.events /\ LatestIn(tx'.events, f)
  BY <1>2, <1>3 DEF LatestIn
<1>7. \A g \in tx'.events : g.rule = r =>
        /\ tx.rules[r] # "gone" /\ g.at <= now /\ g.resolved <= now /\ ~g.active
        /\ \E x \in snaps : x.at = g.snap
  <2>1. tx.rules[r] # "gone" /\ f.at <= now /\ f.resolved <= now /\ ~f.active /\ \E x \in snaps : x.at = f.snap
    BY <1>1, <1>2
  <2>2. \A g \in tx'.events : g # f /\ g.rule = r => g \in tx.events /\ ~g.active
    BY <1>2, <1>4
  <2>3. QED
    BY <1>1, <2>1, <2>2
<1>8. /\ \A g \in tx'.events : g.rule # r => g \in tx.events
      /\ \A g \in tx.events : g.rule # r => g \in tx'.events
  BY <1>2
<1>9. tx'.asked # r
  BY <1>1 DEF None
<1>10. \E g \in tx'.events : g.rule = r /\ LatestIn(tx'.events, g) /\ (g.active \/ g.resolved = tx.at)
  BY <1>2, <1>6
<1>11. /\ FALSE \in BOOLEAN /\ tx'.asked \in {None, r}
       /\ tx'.hot = IF FALSE THEN tx.hot \cup {r} ELSE tx.hot
  OBVIOUS
<1>12. \A g \in tx'.events : g.rule = r =>
         /\ tx.rules[r] # "gone" /\ g.at <= now /\ g.resolved <= now /\ (g.active => FALSE)
         /\ \E x \in snaps : x.at = g.snap
  BY <1>7
<1>13. QED
  BY <1>5, <1>8, <1>9, <1>10, <1>11, <1>12, EvaluationTreated

\* It is raised.
LEMMA EvaluationRaised ==
  ASSUME Base, Alerted, tx.open, tx.asked = None, NEW r \in tx.todo, tx.rules[r] = "on",
         UNCHANGED <<now, snaps, events, hist>>, tx' \in Tx,
         tx'.open, tx'.at = tx.at, tx'.rules = tx.rules, tx'.todo = tx.todo \ {r},
         tx'.events = tx.events \cup {Raised(r, tx.at, s.at)},
         tx'.stale = tx.stale, tx'.sent = tx.sent, tx'.hot = tx.hot \cup {r}, tx'.asked = r,
         Active(tx.events, r) = {}, ~Cooling(tx.events, r, tx.at), ~tx.stale, tx'.wrote
  PROVE  Evaluation'
<1>1. /\ r \in AlertRules /\ r \notin tx.hot /\ r \notin tx.sent /\ tx.at = now /\ now \in Nat
      /\ Ordered(tx.events)
      /\ \A e \in tx.events : /\ e.at \in Nat /\ e.at <= now /\ e.resolved <= now
                              /\ \E x \in snaps : x.at = e.snap
                              /\ e.rule = r => e.at < now
      /\ \E x \in snaps : x.at = s.at
  BY BeforeTreated
<1> DEFINE f == Raised(r, tx.at, s.at)
<1>2. f \in Event /\ f.rule = r /\ f.snap = s.at /\ f.at = tx.at /\ f.active /\ f.resolved = None
  BY <1>1, RaisedEvent
<1>3. tx'.events = tx.events \cup {f}
  OBVIOUS
<1> HIDE DEF f
<1>4. \A g \in tx.events : g.rule = r => ~g.active /\ g.at < f.at
  BY <1>1, <1>2 DEF Active, EventsOf
<1>5. LatestIn(tx'.events, f)
  BY <1>1, <1>2, <1>3, <1>4 DEF LatestIn
<1>6. Ordered(tx'.events)
  <2>1. ASSUME NEW a \in tx'.events, NEW b \in tx'.events, a.rule = b.rule, a.at = b.at PROVE a = b
    <3>1. CASE a \in tx.events /\ b \in tx.events
      BY <1>1, <2>1, <3>1 DEF Ordered
    <3>2. CASE a = f /\ b # f
      BY <1>1, <1>2, <1>3, <1>4, <2>1, <3>2
    <3>3. CASE b = f /\ a # f
      BY <1>1, <1>2, <1>3, <1>4, <2>1, <3>3
    <3>4. QED
      BY <1>3, <3>1, <3>2, <3>3
  <2>2. \A a \in tx'.events : a.active <=> a.resolved = None
    BY <1>1, <1>2, <1>3 DEF Ordered
  <2>3. \A a \in tx'.events : a.active => LatestIn(tx'.events, a)
    <3>1. ASSUME NEW a \in tx.events, a.active PROVE LatestIn(tx'.events, a)
      BY <1>1, <1>2, <1>3, <1>4, <3>1 DEF Ordered, LatestIn
    <3>2. QED
      BY <1>3, <1>5, <3>1
  <2>4. QED
    BY <2>1, <2>2, <2>3 DEF Ordered
<1>7. \A g \in tx'.events : g.rule = r =>
        /\ tx.rules[r] # "gone" /\ g.at <= now /\ g.resolved <= now /\ (g.active => TRUE)
        /\ \E x \in snaps : x.at = g.snap
  <2>1. tx.rules[r] # "gone" /\ f.at <= now /\ f.resolved <= now /\ \E x \in snaps : x.at = f.snap
    BY <1>1, <1>2 DEF None
  <2>2. QED
    BY <1>1, <1>3, <2>1
<1>8. /\ \A g \in tx'.events : g.rule # r => g \in tx.events
      /\ \A g \in tx.events : g.rule # r => g \in tx'.events
  BY <1>2, <1>3
<1>9. r \notin hist.lost => hist.quiet[r] <= now
  BY RaisedIsQuiet
<1>10. f \in tx'.events /\ f.rule = r /\ f.active /\ LatestIn(tx'.events, f)
  BY <1>2, <1>3, <1>5
<1>11. QED
  <2>1. \E g \in tx'.events : g.rule = r /\ g.active
    BY <1>10
  <2>2. \E g \in tx'.events : g.rule = r /\ LatestIn(tx'.events, g) /\ (g.active \/ g.resolved = tx.at)
    BY <1>10
  <2>3. \E g \in tx'.events : g.rule = r /\ (g.active \/ tx.at < g.resolved + Cooldown[r])
    BY <1>10
  <2>4. tx'.hot = IF TRUE THEN tx.hot \cup {r} ELSE tx.hot
    OBVIOUS
  <2>5. QED
    BY <1>6, <1>7, <1>8, <1>9, <2>1, <2>2, <2>3, <2>4, EvaluationTreated

\* A rule is evaluated.
LEMMA AlertedEvaluate ==
  ASSUME Base, Alerted, Evaluate
  PROVE  Base' /\ Alerted' /\ s'.pc \in {"alerts", "reports"}
         /\ hist'.torn = hist.torn /\ hist'.since = hist.since
<1>1. s.pc = "alerts" /\ UNCHANGED <<now, snaps, rules, events, reports, runs, form, bounds>>
  BY DEF Evaluate
<1>2. TypeOK
  BY DEF Base
<1>3. CASE tx.stale /\ Skips /\ tx.open /\ tx.asked = None
  <2>1. Base' /\ s'.pc = "reports" /\ hist' = [hist EXCEPT !.lost = @ \cup tx.sent]
    BY <1>1, <1>3, BaseSkips
  <2>2. hist'.torn = hist.torn /\ hist'.since = hist.since
    BY <2>1, Types DEF Base, History
  <2>3. Alerted'
    BY <1>1, <1>3, AlertedSkips
  <2>4. QED
    BY <2>1, <2>2, <2>3
<1>4. ASSUME NEW r \in tx.todo, NEW hot \in BOOLEAN, NEW some, NEW wrote, NEW asked,
             s' = s, hist' = hist, tx.open, tx.asked = None, hot => tx.rules[r] = "on",
             TreatedAs(r, hot, some, wrote, asked), Treats(r, hot, some, wrote, asked)
      PROVE  Base' /\ Alerted'
  <2>1. /\ tx' \in Tx /\ tx'.open /\ tx'.at = tx.at /\ tx'.rules = tx.rules /\ tx'.events = some
        /\ tx'.todo = tx.todo \ {r} /\ tx'.wrote = wrote /\ tx'.stale = tx.stale
        /\ tx'.asked = asked /\ tx'.sent = tx.sent
        /\ tx'.hot = IF hot THEN tx.hot \cup {r} ELSE tx.hot
    BY <1>4, TreatedTypes
  <2>2. Base'
    BY <1>1, <1>4, <2>1, BaseGoes, Types DEF Base
  <2>3. Record'
    <3>1. SameAlerts /\ now <= now' /\ tx.sent \subseteq tx'.sent
      BY <1>1, <1>4, <2>1, Parts DEF Base, SameAlerts
    <3>2. \A e \in events : /\ rules'[e.rule] # "gone"
                            /\ IF s'.pc = "sleep" THEN e.at < s'.wake ELSE e.at <= now'
                            /\ s'.pc = "alerts" => e.at < now'
      BY <1>1, <1>4 DEF Alerted, Record
    <3>3. QED
      BY <1>1, <2>2, <3>1, <3>2, RecordKept DEF Alerted
  <2>4. UNCHANGED <<now, snaps, events, hist>>
    BY <1>1, <1>4
  <2>5. CASE /\ ~hot /\ Active(tx.events, r) # {} /\ ~tx.stale
             /\ some = Resolve(tx.events, r, tx.at) /\ wrote = TRUE /\ asked = None
    <3>1. Evaluation'
      BY <1>4, <2>1, <2>4, <2>5, EvaluationResolved
    <3>2. QED
      BY <2>2, <2>3, <3>1 DEF Alerted
  <2>6. CASE \/ ~hot /\ Active(tx.events, r) = {} /\ some = tx.events /\ wrote = tx.wrote /\ asked = None
             \/ /\ hot /\ Active(tx.events, r) # {} /\ ~tx.stale
                /\ some = tx.events /\ wrote = TRUE /\ asked = None
             \/ /\ hot /\ Active(tx.events, r) = {} /\ Cooling(tx.events, r, tx.at)
                /\ some = tx.events /\ wrote = tx.wrote /\ asked = None
    <3>1. some = tx.events /\ asked = None
      BY <2>6
    <3>2. hot <=> Active(tx.events, r) # {} \/ (hot /\ Cooling(tx.events, r, tx.at))
      BY <2>6
    <3>3. (tx.stale => tx'.wrote = tx.wrote) /\ (tx'.wrote # tx.wrote => tx'.wrote)
      BY <2>1, <2>6
    <3>4. Evaluation'
      BY <1>4, <2>1, <2>4, <3>1, <3>2, <3>3, EvaluationStays
    <3>5. QED
      BY <2>2, <2>3, <3>4 DEF Alerted
  <2>7. CASE /\ hot /\ Active(tx.events, r) = {} /\ ~Cooling(tx.events, r, tx.at) /\ ~tx.stale
             /\ some = tx.events \cup {Raised(r, tx.at, s.at)} /\ wrote = TRUE /\ asked = r
    <3>1. Evaluation'
      BY <1>4, <2>1, <2>4, <2>7, EvaluationRaised
    <3>2. QED
      BY <2>2, <2>3, <3>1 DEF Alerted
  <2>8. QED
    BY <1>4, <2>5, <2>6, <2>7, Zenon DEF TreatedAs
<1>5. CASE \E r \in tx.todo, hot \in BOOLEAN : \E some, wrote, asked :
              /\ s' = s /\ hist' = hist /\ tx.open /\ tx.asked = None
              /\ hot => tx.rules[r] = "on"
              /\ TreatedAs(r, hot, some, wrote, asked) /\ Treats(r, hot, some, wrote, asked)
  <2>1. Base' /\ Alerted'
    BY <1>4, <1>5, Zenon
  <2>2. QED
    BY <1>1, <1>5, <2>1
<1>6. QED
  BY <1>2, <1>3, <1>5, EvaluateCases, Zenon

-----------------------------------------------------------------------------
(* The invariant *)

LEMMA Initially == Init => Base /\ Alerted /\ Timely
<1> SUFFICES ASSUME Init PROVE Base /\ Alerted /\ Timely
  OBVIOUS
<1> USE DEF Init
<1>1. TypeOK
  <2>1. rules \in [AlertRules -> States] /\ now \in Times
    BY DEF States, Times
  <2>2. tx \in Tx
    BY NoTransaction
  <2>3. reports \in [ReportRules -> Report]
    BY DEF Report, States
  <2>4. form \in Form
    BY DEF NoForm, Form, States
  <2>5. s \in SamplerState
    BY DEF SamplerState, Times
  <2>6. hist \in History
    BY DEF History, Times
  <2>7. QED
    BY <2>1, <2>2, <2>3, <2>4, <2>5, <2>6 DEF TypeOK
<1>2. Rhythm
  BY NoTransaction DEF Rhythm, Dispatching
<1>3. Record
  BY DEF Record, Ordered
<1>4. Evaluation
  BY NoTransaction DEF Evaluation
<1>5. Cadence \in Multiples
  <2>1. Cadence = Cadence * 1
    OBVIOUS
  <2>2. QED
    BY <2>1 DEF Multiples
<1>6. Schedule
  BY <1>5 DEF Schedule, OneReportPerOccasion, NoForm, Dispatching
<1>7. \A due \in Multiples \ {0} : due \in Nat /\ due >= Cadence
  BY MultiplesAre
<1>8. Kept
  BY <1>7 DEF Kept, NoForm
<1>9. InTime
  <2>1. Slack \in Nat
    BY <1>1, SlackGrows
  <2>2. QED
    BY <1>7, <2>1 DEF InTime, Waits, Dispatching
<1>10. QED
  BY <1>1, <1>2, <1>3, <1>4, <1>6, <1>8, <1>9 DEF Base, Alerted, Timely

LEMMA AlertsPreserve == ASSUME Base, Alerted, Timely, Alerts \/ EvaluationFails PROVE Base' /\ Alerted' /\ Timely'
<1>1. CASE BeginAlerts
  <2>1. Base' /\ s' = s
    BY <1>1, BaseBegin DEF Alerted
  <2>2. UNCHANGED <<reports, runs, form, now, hist, bounds>> /\ s.pc = "alerts"
    BY <1>1 DEF BeginAlerts
  <2>3. Timely'
    BY <2>1, <2>2, TimelyAlerts
  <2>4. QED
    BY <1>1, <2>1, <2>3, AlertedBegin
<1>2. CASE Evaluate
  <2>1. /\ Base' /\ Alerted' /\ s'.pc \in {"alerts", "reports"}
        /\ hist'.torn = hist.torn /\ hist'.since = hist.since
    BY <1>2, AlertedEvaluate
  <2>2. UNCHANGED <<reports, runs, form, now, bounds>> /\ s.pc = "alerts"
    BY <1>2 DEF Evaluate
  <2>3. QED
    BY <2>1, <2>2, TimelyAlerts
<1>3. CASE Told
  <2>1. /\ Base' /\ s' = s /\ tx.asked \in AlertRules
        /\ hist' = Heard(hist, tx.asked) \/ hist' = hist
    BY <1>3, BaseTold
  <2>2. UNCHANGED <<reports, runs, form, now, bounds>> /\ s.pc = "alerts"
    BY <1>3 DEF Told
  <2>3. hist'.torn = hist.torn /\ hist'.since = hist.since
    <3>1. Heard(hist, tx.asked).torn = hist.torn /\ Heard(hist, tx.asked).since = hist.since
      BY <2>1, HeardTypes DEF Base
    <3>2. QED
      BY <2>1, <3>1
  <2>4. Timely'
    BY <2>1, <2>2, <2>3, TimelyAlerts
  <2>5. QED
    BY <1>3, <2>1, <2>4, AlertedTold
<1>4. CASE Commit
  <2>1. Base' /\ s'.pc = "reports" /\ hist'.torn = hist.torn /\ hist'.since = hist.since
    BY <1>4, BaseCommit DEF Alerted
  <2>2. UNCHANGED <<reports, runs, form, now, bounds>> /\ s.pc = "alerts"
    BY <1>4 DEF Commit
  <2>3. Timely'
    BY <2>1, <2>2, TimelyAlerts
  <2>4. QED
    BY <1>4, <2>1, <2>3, AlertedCommit
<1>5. CASE EvaluationFails
  <2>1. /\ s.pc = "alerts" /\ Skips /\ Fault
        /\ UNCHANGED <<now, snaps, rules, events, reports, runs, form>>
    BY <1>5 DEF EvaluationFails
  <2>2. Base' /\ s'.pc = "reports" /\ hist' = [hist EXCEPT !.lost = @ \cup tx.sent]
    BY <2>1, BaseSkips
  <2>3. hist'.torn = hist.torn /\ hist'.since = hist.since
    BY <2>2, Types DEF Base, History
  <2>4. Timely'
    BY <2>1, <2>2, <2>3, TimelyAlerts
  <2>5. QED
    BY <2>1, <2>2, <2>4, AlertedSkips
<1>6. QED
  BY <1>1, <1>2, <1>3, <1>4, <1>5 DEF Alerts

LEMMA FailsPreserve == ASSUME Base, Alerted, Timely, Fails PROVE Base' /\ Alerted' /\ Timely'
<1>1. CASE CollectFails
  BY <1>1, BaseCollectFails, AlertedCollectFails, TimelyCollectFails
<1>2. CASE PruneFails
  BY <1>2, BasePruneFails, AlertedPruneFails, TimelyPruneFails
<1>3. CASE EvaluationFails
  BY <1>3, AlertsPreserve
<1>4. CASE DispatchFails
  BY <1>4, BaseDispatchFails, AlertedReporting, TimelyDispatchFails
<1>5. CASE TellingHangs
  BY <1>5, BaseHangs, AlertedHangs, TimelyHangs
<1>6. CASE NotifyingHangs
  BY <1>6, BaseNotifyingHangs, AlertedReporting, TimelyNotifyingHangs
<1>7. CASE Crash
  BY <1>7, BaseCrash, AlertedCrash, TimelyCrash
<1>8. QED
  BY <1>1, <1>2, <1>3, <1>4, <1>5, <1>6, <1>7 DEF Fails

LEMMA ReportingPreserves == ASSUME Base, Alerted, Timely, Reporting PROVE Base' /\ Alerted' /\ Timely'
<1>1. Alerted'
  BY AlertedReporting
<1>2. CASE Dispatch
  BY <1>1, <1>2, BaseDispatch, TimelyDispatch
<1>3. CASE Generate
  BY <1>1, <1>3, BaseGenerate, TimelyGenerate
<1>4. CASE Notified
  BY <1>1, <1>4, BaseNotified, TimelyNotified
<1>5. CASE SaveRule
  BY <1>1, <1>5, BaseSaveRule, TimelySaveRule DEF Timely
<1>6. QED
  BY <1>2, <1>3, <1>4, <1>5 DEF Reporting

LEMMA UserPreserves == ASSUME Base, Alerted, Timely, User PROVE Base' /\ Alerted' /\ Timely'
<1>1. Alerted'
  BY AlertedUser
<1>2. ASSUME NEW r \in AlertRules, ToggleAlert(r) PROVE Base' /\ Timely'
  <2>1. Base' /\ UNCHANGED <<reports, runs, form, now, s, hist>> /\ Edit
    BY <1>2, BaseToggleAlert DEF ToggleAlert
  <2>2. QED
    BY <2>1, TimelyEdit
<1>3. ASSUME NEW r \in AlertRules, DeleteAlert(r) PROVE Base' /\ Timely'
  <2>1. /\ Base' /\ UNCHANGED <<reports, runs, form, now, s>> /\ Edit
        /\ hist' = [hist EXCEPT !.lost = @ \cup {r}]
    BY <1>3, BaseDeleteAlert DEF DeleteAlert
  <2>2. hist'.torn = hist.torn /\ hist'.since = hist.since
    BY <2>1, Types DEF Base, History
  <2>3. QED
    BY <2>1, <2>2, TimelyEdit
<1>4. ASSUME NEW w \in ReportRules, OpenForm(w) PROVE Base' /\ Timely'
  BY <1>4, BaseOpenForm, TimelyOpenForm
<1>5. ASSUME NEW w \in ReportRules, DeleteReport(w) PROVE Base' /\ Timely'
  BY <1>5, BaseDeleteReport, TimelyDeleteReport
<1>6. ASSUME SaveForm PROVE Base' /\ Timely'
  <2>1. form.rule \in ReportRules
    BY <1>6 DEF Timely, Schedule, SaveForm
  <2>2. QED
    BY <1>6, <2>1, BaseSaveForm, TimelySaveForm
<1>7. QED
  BY <1>1, <1>2, <1>3, <1>4, <1>5, <1>6 DEF User

LEMMA Preserved == Base /\ Alerted /\ Timely /\ [Next]_vars => Base' /\ Alerted' /\ Timely'
<1> SUFFICES ASSUME Base, Alerted, Timely, [Next]_vars PROVE Base' /\ Alerted' /\ Timely'
  OBVIOUS
<1>1. CASE Tick
  BY <1>1, BaseTick, AlertedTick, TimelyTick
<1>2. CASE Collect
  BY <1>2, BaseCollect, AlertedCollect, TimelyCollect
<1>3. CASE Prune
  BY <1>3, BasePrune, AlertedPrune, TimelyPrune
<1>4. CASE UNCHANGED vars
  <2> USE <1>4 DEF vars
  <2>1. TypeOK' /\ Rhythm'
    BY DEF Base, TypeOK, Rhythm
  <2>2. Record' /\ Evaluation'
    BY DEF Alerted, Record, Ordered, LatestIn, Quieted, Evaluation, Treated
  <2>3. Schedule'
    BY DEF Timely, Schedule, OneReportPerOccasion, Made, Reported
  <2>4. Kept' /\ InTime'
    BY DEF Timely, Kept, InTime, Waits, ReportedIn, Slack
  <2>5. QED
    BY <2>1, <2>2, <2>3, <2>4 DEF Base, Alerted, Timely
<1>5. QED
  BY <1>1, <1>2, <1>3, <1>4, AlertsPreserve, ReportingPreserves, FailsPreserve, UserPreserves DEF Next

THEOREM Invariance == Spec => []IInv
<1>1. IInv <=> Base /\ Alerted /\ Timely
  BY DEF IInv, Base, Alerted, Timely
<1>2. Init => IInv
  BY <1>1, Initially
<1>3. IInv /\ [Next]_vars => IInv'
  BY <1>1, Preserved DEF IInv, Base, Alerted, Timely
<1>4. QED
  BY <1>2, <1>3, PTL DEF Spec

-----------------------------------------------------------------------------
(* What the invariant says of the alerts and of the reports *)

\* For any constants the state has its types.
THEOREM TypeCorrect == Spec => []TypeOK
<1>1. IInv => TypeOK
  BY DEF IInv
<1>2. QED
  BY <1>1, Invariance, PTL

\* For any rules, cooldowns and metrics: no accepted notification is repeated without a
\* lost record, and the page shows as active what triggered at the last evaluation.
THEOREM AlertsTrue == Spec => []AlertsAreTrue
<1>1. IInv => AlertsAreTrue
  <2> SUFFICES ASSUME IInv PROVE AlertsAreTrue
    OBVIOUS
  <2>1. ASSUME NEW e \in events, NEW f \in events, e.active, f.active, e.rule = f.rule PROVE e = f
    <3>1. e.at <= f.at /\ f.at <= e.at /\ e.at \in Nat /\ f.at \in Nat
      BY <2>1, EventTimes DEF IInv, Record, Ordered, LatestIn
    <3>2. e.at = f.at
      BY <3>1
    <3>3. QED
      BY <2>1, <3>2 DEF IInv, Record, Ordered
  <2>2. \A r \in hist.hot \ hist.lost :
          \E e \in EventsOf(events, r) : e.active \/ hist.when < e.resolved + Cooldown[r]
    BY DEF IInv, Record, EventsOf
  <2>3. AlertsMatchLastEvaluation
    BY <2>1, <2>2 DEF IInv, Record, AlertsMatchLastEvaluation
  <2>4. QED
    BY <2>3 DEF IInv, Record, AlertsAreTrue, RepeatsHaveCause
<1>2. QED
  BY <1>1, Invariance, PTL

\* For any schedules: no occasion of an untorn rule is reported twice, and each is
\* reported no later than failures and deletions cost.
THEOREM ReportedOnce == Spec => []OccasionsReportedOnce
<1>1. IInv => OccasionsReportedOnce
  <2> SUFFICES ASSUME IInv PROVE OccasionsReportedOnce
    OBVIOUS
  <2>1. OneReportPerOccasion
    BY DEF IInv, Schedule
  <2>2. ASSUME NEW w \in ReportRules, NEW k \in 1..MaxTime, NEW due, due = k * Cadence,
               reports[w].state = "on", due >= hist.since[w], due + Slack < now
        PROVE  ReportedIn(w, due)
    <3>1. due \in Multiples \ {0} /\ due \in Nat
      <4>1. due = Cadence * k /\ k \in Nat /\ due >= Cadence
        BY <2>2
      <4>2. QED
        BY <4>1 DEF Multiples
    <3>2. ~Waits(w, due)
      <4>1. now \in Nat /\ s.wake \in Nat /\ Slack \in Nat
        BY Parts, SlackGrows DEF IInv
      <4>2. s.pc = "sleep" => now <= s.wake
        BY DEF IInv, Rhythm
      <4>3. ~(now <= due + Slack) /\ (s.pc = "sleep" => ~(s.wake <= due + Slack))
        BY <2>2, <3>1, <4>1, <4>2
      <4>4. QED
        BY <4>3 DEF Waits
    <3>3. ~(due >= reports[w].next)
      BY <2>2, <3>1, <3>2 DEF IInv, InTime
    <3>4. due < reports[w].next
      <4>1. reports[w].next \in Nat
        BY DEF IInv, TypeOK, Report
      <4>2. QED
        BY <3>1, <3>3, <4>1
    <3>5. QED
      BY <2>2, <3>1, <3>4 DEF IInv, Kept
  <2>3. EveryOccasionReported
    BY <2>2 DEF EveryOccasionReported, ReportedIn
  <2>4. QED
    BY <2>1, <2>3 DEF OccasionsReportedOnce
<1>2. QED
  BY <1>1, Invariance, PTL

\* A bucket without data.
EmptyBucket(seen, start, i) == i \in 0..(Buckets - 1) /\ \A t \in seen : Index(t, start) # i

LEMMA MissingRows ==
  ASSUME NEW seen, NEW start, NEW end
  PROVE  /\ \A m \in Missing(seen, start, end) :
              \E i, j \in 0..(Buckets - 1) :
                /\ \A k \in i..j : EmptyBucket(seen, start, k)
                /\ m = <<start + i * Bucket, IF j = Buckets - 1 THEN end ELSE start + (j + 1) * Bucket>>
         /\ \A i, j \in 0..(Buckets - 1) :
              /\ i <= j /\ \A k \in i..j : EmptyBucket(seen, start, k)
              /\ ~EmptyBucket(seen, start, i - 1) /\ ~EmptyBucket(seen, start, j + 1)
              => <<start + i * Bucket, IF j = Buckets - 1 THEN end ELSE start + (j + 1) * Bucket>>
                   \in Missing(seen, start, end)
<1> DEFINE Row(p) == /\ p[1] <= p[2] /\ \A i \in p[1]..p[2] : EmptyBucket(seen, start, i)
                     /\ ~EmptyBucket(seen, start, p[1] - 1) /\ ~EmptyBucket(seen, start, p[2] + 1)
           Ends(p) == <<start + p[1] * Bucket,
                        IF p[2] = Buckets - 1 THEN end ELSE start + (p[2] + 1) * Bucket>>
           Pairs == (0..(Buckets - 1)) \X (0..(Buckets - 1))
<1>1. Missing(seen, start, end) = {Ends(ij) : ij \in {p \in Pairs : Row(p)}}
  BY Zenon DEF Missing, EmptyBucket
<1>2. ASSUME NEW m \in Missing(seen, start, end)
      PROVE  \E i, j \in 0..(Buckets - 1) :
               /\ \A k \in i..j : EmptyBucket(seen, start, k)
               /\ m = <<start + i * Bucket, IF j = Buckets - 1 THEN end ELSE start + (j + 1) * Bucket>>
  <2>1. PICK p \in Pairs : Row(p) /\ m = Ends(p)
    <3> HIDE DEF Row, Ends, Pairs
    <3>1. QED
      BY <1>1, <1>2
  <2>2. p[1] \in 0..(Buckets - 1) /\ p[2] \in 0..(Buckets - 1)
    BY <2>1
  <2>3. QED
    BY <2>1, <2>2, Zenon
<1>3. ASSUME NEW i \in 0..(Buckets - 1), NEW j \in 0..(Buckets - 1),
             i <= j /\ \A k \in i..j : EmptyBucket(seen, start, k),
             ~EmptyBucket(seen, start, i - 1) /\ ~EmptyBucket(seen, start, j + 1)
      PROVE  <<start + i * Bucket, IF j = Buckets - 1 THEN end ELSE start + (j + 1) * Bucket>>
               \in Missing(seen, start, end)
  <2>1. <<i, j>> \in Pairs /\ <<i, j>>[1] = i /\ <<i, j>>[2] = j
    OBVIOUS
  <2>2. Row(<<i, j>>)
    BY <1>3, <2>1
  <2>3. Ends(<<i, j>>) \in Missing(seen, start, end)
    <3> HIDE DEF Row, Ends, Pairs
    <3>1. QED
      BY <1>1, <2>1, <2>2
  <2>4. QED
    BY <2>1, <2>3
<1>4. QED
  BY <1>2, <1>3

\* The bucket of a time in the window.
LEMMA IndexIs ==
  ASSUME NEW start \in Int, NEW t \in Int, start <= t
  PROVE  /\ Index(t, start) \in 0..(Buckets - 1)
         /\ \A i \in 0..(Buckets - 1) : i * Bucket <= t - start => i <= Index(t, start)
         /\ \A i \in 0..(Buckets - 1) : t - start < (i + 1) * Bucket => Index(t, start) <= i
         /\ Index(t, start) * Bucket <= t - start
         /\ Index(t, start) < Buckets - 1 => t - start < (Index(t, start) + 1) * Bucket
<1> DEFINE d == t - start
           q == d \div Bucket
<1>1. Bucket \in Nat \ {0} /\ Buckets \in Nat \ {0} /\ d \in Nat
  BY BucketSizes
<1>2. q \in Int /\ Bucket * q <= d /\ d < Bucket * q + Bucket
  BY <1>1, Division
<1>3. Index(t, start) = Min({Max({q, 0}), Buckets - 1})
  BY Zenon DEF Index
<1> HIDE DEF q, d
<1>4. Bucket * (q + 1) = Bucket * q + Bucket
  BY <1>1, <1>2
<1>5. q \in Nat
  <2>1. Bucket * (q + 1) > Bucket * 0
    BY <1>1, <1>2, <1>4
  <2>2. q + 1 > 0
    BY <1>1, <1>2, <2>1
  <2>3. QED
    BY <1>2, <2>2
<1>6. Index(t, start) = IF q <= Buckets - 1 THEN q ELSE Buckets - 1
  <2>1. Max({q, 0}) = q
    BY <1>5, MaxOfTwo
  <2>2. Min({q, Buckets - 1}) = IF q <= Buckets - 1 THEN q ELSE Buckets - 1
    BY <1>1, <1>5, MinOfTwo
  <2>3. QED
    BY <1>3, <2>1, <2>2
<1>7. ASSUME NEW i \in 0..(Buckets - 1), i * Bucket <= d PROVE i <= q
  <2>1. Bucket * i < Bucket * (q + 1)
    BY <1>1, <1>2, <1>4, <1>7
  <2>2. i < q + 1
    BY <1>1, <1>5, <2>1
  <2>3. QED
    BY <1>5, <2>2
<1>8. ASSUME NEW i \in 0..(Buckets - 1), d < (i + 1) * Bucket PROVE q <= i
  <2>1. Bucket * q < Bucket * (i + 1)
    BY <1>1, <1>2, <1>8
  <2>2. q < i + 1
    BY <1>1, <1>5, <2>1
  <2>3. QED
    BY <1>5, <2>2
<1>9. Index(t, start) * Bucket <= d
  <2>1. CASE q <= Buckets - 1
    BY <1>1, <1>2, <1>5, <1>6, <2>1
  <2>2. CASE ~(q <= Buckets - 1)
    <3>1. Bucket * (Buckets - 1) <= Bucket * q
      BY <1>1, <1>5, <2>2
    <3>2. QED
      BY <1>1, <1>2, <1>5, <1>6, <2>2, <3>1
  <2>3. QED
    BY <2>1, <2>2
<1>10. Index(t, start) < Buckets - 1 => d < (Index(t, start) + 1) * Bucket
  BY <1>1, <1>2, <1>4, <1>5, <1>6
<1>11. Index(t, start) \in 0..(Buckets - 1) /\ (q <= Buckets - 1 => Index(t, start) = q)
  BY <1>1, <1>5, <1>6
<1>12. \A i \in 0..(Buckets - 1) : i <= q => i <= Index(t, start)
  BY <1>1, <1>5, <1>6
<1>13. \A i \in 0..(Buckets - 1) : q <= i => Index(t, start) <= i
  BY <1>1, <1>5, <1>6
<1>14. QED
  BY <1>7, <1>8, <1>9, <1>10, <1>11, <1>12, <1>13 DEF d

\* Nothing that is named as missing has data.
LEMMA NothingIsHidden ==
  ASSUME TypeOK, NEW x \in runs, Made(x)
  PROVE  \A m \in x.missing, t \in x.seen : ~(m[1] <= t /\ t < m[2])
<1>1. SUFFICES ASSUME NEW m \in x.missing, NEW t \in x.seen, m[1] <= t, t < m[2] PROVE FALSE
  OBVIOUS
<1>2. x.end \in Int /\ x.start \in Int /\ t \in Int /\ x.start <= t /\ t <= x.end
  BY Types DEF Made, Run, Times
<1>3. Bucket \in Nat \ {0} /\ Buckets \in Nat \ {0}
  BY BucketSizes
<1>4. PICK i \in 0..(Buckets - 1), j \in 0..(Buckets - 1) :
        /\ \A k \in i..j : EmptyBucket(x.seen, x.start, k)
        /\ m = <<x.start + i * Bucket, IF j = Buckets - 1 THEN x.end ELSE x.start + (j + 1) * Bucket>>
  <2>1. m \in Missing(x.seen, x.start, x.end)
    BY Zenon DEF Made
  <2>2. QED
    BY <2>1, MissingRows
<1> DEFINE k == Index(t, x.start)
<1>5. /\ k \in 0..(Buckets - 1)
      /\ \A n \in 0..(Buckets - 1) : n * Bucket <= t - x.start => n <= k
      /\ \A n \in 0..(Buckets - 1) : t - x.start < (n + 1) * Bucket => k <= n
  BY <1>2, IndexIs
<1> HIDE DEF k
<1>6. i * Bucket \in Int /\ (j + 1) * Bucket \in Int
  BY <1>3
<1>7. i <= k
  BY <1>1, <1>2, <1>4, <1>5, <1>6
<1>8. k <= j
  <2>1. CASE j = Buckets - 1
    BY <1>3, <1>5, <2>1
  <2>2. CASE j # Buckets - 1
    BY <1>1, <1>2, <1>4, <1>5, <1>6, <2>2
  <2>3. QED
    BY <2>1, <2>2
<1>9. EmptyBucket(x.seen, x.start, k)
  BY <1>4, <1>5, <1>7, <1>8
<1>10. QED
  BY <1>9 DEF EmptyBucket, k

\* The first and the last of a row of buckets without data.
LEMMA LongestRow ==
  ASSUME NEW seen, NEW start, NEW c \in 0..(Buckets - 1), EmptyBucket(seen, start, c)
  PROVE  \E i, j \in 0..(Buckets - 1) :
           /\ i <= c /\ c <= j /\ \A k \in i..j : EmptyBucket(seen, start, k)
           /\ ~EmptyBucket(seen, start, i - 1) /\ ~EmptyBucket(seen, start, j + 1)
<1> DEFINE before == {i \in 0..c : \A k \in i..c : EmptyBucket(seen, start, k)}
           after == {j \in c..Buckets : ~EmptyBucket(seen, start, j)}
<1>1. Buckets \in Nat \ {0} /\ c \in Nat /\ c < Buckets
  BY BucketSizes
<1>2. before \in SUBSET Nat /\ after \in SUBSET Nat
  BY <1>1
<1>3. c \in before
  BY <1>1
<1>4. Buckets \in after
  BY <1>1 DEF EmptyBucket
<1>5. PICK i \in before : \A n \in before : i <= n
  <2> HIDE DEF before
  <2>1. QED
    BY <1>2, <1>3, MinIsLeast
<1>6. PICK n \in after : \A j \in after : n <= j
  <2> HIDE DEF after
  <2>1. QED
    BY <1>2, <1>4, MinIsLeast
<1>7. i \in 0..c /\ n \in c..Buckets /\ i \in Int /\ n \in Int /\ n # c
  BY <1>1, <1>5, <1>6
<1>8. ~EmptyBucket(seen, start, i - 1)
  <2>1. SUFFICES ASSUME EmptyBucket(seen, start, i - 1) PROVE FALSE
    OBVIOUS
  <2>2. i - 1 \in 0..c
    BY <1>1, <1>7, <2>1 DEF EmptyBucket
  <2>3. \A k \in (i - 1)..c : k = i - 1 \/ k \in i..c
    BY <1>1, <1>7
  <2>4. \A k \in (i - 1)..c : EmptyBucket(seen, start, k)
    BY <1>5, <2>1, <2>3
  <2>5. i - 1 \in before
    BY <2>2, <2>4
  <2>6. QED
    BY <1>5, <1>7, <2>5
<1>9. \A k \in c..(n - 1) : EmptyBucket(seen, start, k)
  BY <1>1, <1>6, <1>7
<1>10. \A k \in i..(n - 1) : EmptyBucket(seen, start, k)
  <2>1. \A k \in i..(n - 1) : k \in i..c \/ k \in c..(n - 1)
    BY <1>1, <1>7
  <2>2. QED
    BY <1>5, <1>9, <2>1
<1>11. i \in 0..(Buckets - 1) /\ n - 1 \in 0..(Buckets - 1) /\ i <= c /\ c <= n - 1 /\ (n - 1) + 1 = n
  BY <1>1, <1>7
<1>12. QED
  BY <1>6, <1>8, <1>10, <1>11

\* A gap that is long enough holds a bucket, and that is not the last one.
LEMMA GapsAreNamed ==
  ASSUME TypeOK, NEW x \in runs, Made(x), NEW t \in x.start..(x.end - 2 * Bucket),
         \A u \in t..(t + 2 * Bucket - 2) : u \notin x.seen
  PROVE  \E m \in x.missing : \E u \in t..(t + 2 * Bucket - 2) : m[1] <= u /\ u < m[2]
<1> DEFINE d == t - x.start
           q == (d + Bucket - 1) \div Bucket
<1>1. /\ x.end \in Int /\ x.start \in Int /\ t \in Int /\ x.start <= t /\ t <= x.end - 2 * Bucket
      /\ x.start = x.end - Period /\ Period \in Nat
  BY BucketSizes, Types DEF Made, Run, Times
<1>2. /\ Bucket \in Nat \ {0} /\ Buckets \in Nat \ {0}
      /\ Bucket * (Buckets - 1) < Period /\ Period <= Bucket * Buckets
  BY BucketSizes
<1>3. d \in Nat /\ d + 2 * Bucket <= Period
  BY <1>1, <1>2
<1>4. q \in Int /\ Bucket * q <= d + Bucket - 1 /\ d + Bucket - 1 < Bucket * q + Bucket
  <2>1. d + Bucket - 1 \in Int
    BY <1>2, <1>3
  <2>2. QED
    BY <1>2, <2>1, Division
<1> HIDE DEF q, d
<1>5. d <= Bucket * q
  BY <1>2, <1>3, <1>4
<1>6. q \in Nat
  <2>1. Bucket * (q + 1) > Bucket * 0
    BY <1>2, <1>3, <1>4, <1>5
  <2>2. q + 1 > 0
    BY <1>2, <1>4, <2>1
  <2>3. QED
    BY <1>4, <2>2
<1>7. q < Buckets - 1
  <2>1. Bucket * (q + 1) < Bucket * Buckets
    BY <1>2, <1>3, <1>4
  <2>2. q + 1 < Buckets
    BY <1>2, <1>6, <2>1
  <2>3. QED
    BY <1>2, <1>6, <2>2
<1>8. q \in 0..(Buckets - 1)
  BY <1>2, <1>6, <1>7
<1>9. EmptyBucket(x.seen, x.start, q)
  <2>1. ASSUME NEW u \in x.seen, Index(u, x.start) = q PROVE FALSE
    <3>1. u \in Int /\ x.start <= u
      BY <1>1 DEF Made
    <3>2. q * Bucket <= u - x.start /\ u - x.start < (q + 1) * Bucket
      BY <1>1, <1>7, <2>1, <3>1, IndexIs
    <3>3. q * Bucket = Bucket * q /\ (q + 1) * Bucket = Bucket * q + Bucket
      BY <1>2, <1>6
    <3>4. d <= u - x.start /\ u - x.start <= d + 2 * Bucket - 2
      <4>1. Bucket * q \in Int
        BY <1>2, <1>6
      <4>2. QED
        BY <1>1, <1>2, <1>3, <1>4, <1>5, <3>1, <3>2, <3>3, <4>1
    <3>5. u \in t..(t + 2 * Bucket - 2)
      BY <1>1, <1>2, <3>1, <3>4 DEF d
    <3>6. QED
      BY <3>5
  <2>2. QED
    BY <1>8, <2>1 DEF EmptyBucket
<1>10. PICK i \in 0..(Buckets - 1), j \in 0..(Buckets - 1) :
         /\ i <= q /\ q <= j /\ \A k \in i..j : EmptyBucket(x.seen, x.start, k)
         /\ ~EmptyBucket(x.seen, x.start, i - 1) /\ ~EmptyBucket(x.seen, x.start, j + 1)
  BY <1>8, <1>9, LongestRow
<1> DEFINE m == <<x.start + i * Bucket, IF j = Buckets - 1 THEN x.end ELSE x.start + (j + 1) * Bucket>>
           u == x.start + Bucket * q
<1>11. m \in x.missing
  <2>1. i <= j
    BY <1>6, <1>10
  <2>2. m \in Missing(x.seen, x.start, x.end)
    BY <1>10, <2>1, MissingRows
  <2>3. QED
    BY <2>2 DEF Made
<1>12. u \in t..(t + 2 * Bucket - 2)
  <2>1. Bucket * q \in Int
    BY <1>2, <1>6
  <2>2. x.start + d = t
    BY <1>1 DEF d
  <2>3. QED
    BY <1>1, <1>2, <1>3, <1>4, <1>5, <2>1, <2>2
<1>13. Bucket * i <= Bucket * q /\ Bucket * (q + 1) <= Bucket * (j + 1)
  BY <1>2, <1>6, <1>10
<1>14. m[1] <= u
  <2>1. Bucket * i = i * Bucket /\ i * Bucket \in Int /\ Bucket * q \in Int
    BY <1>2, <1>6
  <2>2. QED
    BY <1>1, <1>13, <2>1
<1>15. u < m[2]
  <2>1. Bucket * (j + 1) = (j + 1) * Bucket /\ (j + 1) * Bucket \in Int /\ Bucket * q \in Int
        /\ Bucket * (q + 1) = Bucket * q + Bucket
    BY <1>2, <1>6
  <2>2. u < x.start + (j + 1) * Bucket
    BY <1>1, <1>2, <1>13, <2>1
  <2>3. u < x.end
    BY <1>1, <1>2, <1>3, <1>4, <2>1
  <2>4. QED
    BY <2>2, <2>3
<1>16. QED
  <2> HIDE DEF m, u
  <2>1. QED
    BY <1>11, <1>12, <1>14, <1>15

\* For any window and interval: a report that goes out names as missing no time that
\* has a snapshot, and a part of every gap that holds a bucket.
THEOREM GapsTold == Spec => []ReportTellsGaps
<1>1. IInv => ReportTellsGaps
  <2>1. ASSUME IInv, NEW x \in runs
        PROVE  /\ \A m \in x.missing, t \in x.seen : ~(m[1] <= t /\ t < m[2])
               /\ \A t \in x.start..(x.end - 2 * Bucket) :
                    (\A u \in t..(t + 2 * Bucket - 2) : u \notin x.seen)
                      => \E m \in x.missing : \E u \in t..(t + 2 * Bucket - 2) : m[1] <= u /\ u < m[2]
    <3>1. TypeOK /\ Made(x)
      BY <2>1 DEF IInv, Schedule
    <3>2. QED
      BY <3>1, NothingIsHidden, GapsAreNamed
  <2>2. QED
    BY <2>1, Zenon DEF ReportTellsGaps
<1>2. QED
  BY <1>1, Invariance, PTL

-----------------------------------------------------------------------------
(* What is on record of an alert stays *)

\* What e becomes when it is resolved.
ResolvedAt(e, at) == [e EXCEPT !.active = FALSE, !.resolved = at]

\* What is on record in e is in some, as it is or resolved at that time.
OnRecord(e, some, at) ==
  e \in some \/ (e.active /\ ResolvedAt(e, at) \in some)

\* The transaction carries every alert that is committed, though it may have resolved it.
Carries == tx.open => \A e \in events : OnRecord(e, tx.events, tx.at)

LEMMA CarriesStays ==
  ASSUME Carries, tx'.open => /\ tx.open /\ tx'.events = tx.events /\ tx'.at = tx.at
                              /\ events' \subseteq events
  PROVE  Carries'
BY DEF Carries, OnRecord

LEMMA CarriesEvaluate == ASSUME Base, Carries, Evaluate PROVE Carries'
<1>1. TypeOK /\ events' = events /\ tx.open
  BY DEF Base, Evaluate
<1>2. CASE Skips
  BY <1>2, NoTransaction DEF Skips, Carries
<1>3. ASSUME NEW r \in tx.todo, NEW hot \in BOOLEAN, NEW some, NEW wrote, NEW asked,
             TreatedAs(r, hot, some, wrote, asked), Treats(r, hot, some, wrote, asked)
      PROVE  Carries'
  <2>1. tx'.events = some /\ tx'.at = tx.at
    <3>1. tx \in Tx
      BY <1>1 DEF TypeOK
    <3>2. QED
      BY <1>3, <3>1 DEF Treats, Tx
  <2>2. \A e \in events : OnRecord(e, tx.events, tx.at)
    BY <1>1 DEF Carries
  <2>3. CASE tx.events \subseteq some
    BY <1>1, <2>1, <2>2, <2>3 DEF Carries, OnRecord
  <2>4. CASE Active(tx.events, r) # {} /\ some = Resolve(tx.events, r, tx.at)
    <3>1. r \in AlertRules
      BY <1>1, Parts
    <3> DEFINE e == Latest(Active(tx.events, r))
    <3>2. e.active /\ some = (tx.events \ {e}) \cup {ResolvedAt(e, tx.at)}
      BY <1>1, <2>4, <3>1, ResolvedEvent, Zenon DEF ResolvedAt
    <3> HIDE DEF e
    <3>3. ASSUME NEW g \in events PROVE OnRecord(g, some, tx.at)
      <4>1. CASE g = e
        BY <3>2, <4>1 DEF OnRecord
      <4>2. CASE g # e /\ g \in tx.events
        BY <3>2, <4>2 DEF OnRecord
      <4>3. CASE g.active /\ ResolvedAt(g, tx.at) \in tx.events
        <5>1. ~ResolvedAt(g, tx.at).active
          BY <1>1 DEF TypeOK, Event, ResolvedAt
        <5>2. QED
          BY <3>2, <4>3, <5>1 DEF OnRecord
      <4>4. QED
        BY <2>2, <4>1, <4>2, <4>3 DEF OnRecord
    <3>4. QED
      BY <1>1, <2>1, <3>3 DEF Carries
  <2>5. QED
    BY <1>3, <2>3, <2>4 DEF TreatedAs
<1>4. QED
  BY <1>1, <1>2, <1>3, EvaluateCases

LEMMA CarriesKept == ASSUME Base, Carries, [Next]_vars PROVE Carries'
<1>1. tx \in Tx /\ ~NoTx.open
  BY NoTransaction DEF Base, TypeOK
<1>2. CASE BeginAlerts
  <2>1. tx'.events = events /\ events' = events
    BY <1>2, NoTransaction DEF BeginAlerts, NoTx
  <2>2. QED
    BY <2>1 DEF Carries, OnRecord
<1>3. CASE Evaluate
  BY <1>3, CarriesEvaluate
<1>4. CASE Told
  <2>1. tx.open /\ tx'.events = tx.events /\ tx'.at = tx.at /\ events' = events
    BY <1>1, <1>4 DEF Told, Tx
  <2>2. QED
    BY <2>1, CarriesStays
<1>5. CASE Commit \/ TellingHangs \/ EvaluationFails \/ Crash
  <2>1. tx' = NoTx
    BY <1>5 DEF Commit, TellingHangs, EvaluationFails, Skips, Crash
  <2>2. QED
    BY <1>1, <2>1 DEF Carries
<1>6. CASE User
  <2>1. events' \subseteq events /\ (tx' = tx \/ tx' = Disturbed)
    BY <1>6 DEF User, ToggleAlert, DeleteAlert, OpenForm, SaveForm, DeleteReport
  <2>2. tx'.open = tx.open /\ tx'.events = tx.events /\ tx'.at = tx.at
    BY <1>1, <2>1 DEF Disturbed, Tx
  <2>3. QED
    BY <2>1, <2>2, CarriesStays
<1>7. CASE Prune
  BY <1>7 DEF Base, Rhythm, Prune, Carries
<1>8. CASE Tick \/ Collect \/ Reporting \/ CollectFails \/ PruneFails \/ DispatchFails \/ NotifyingHangs
           \/ UNCHANGED vars
  <2>1. tx' = tx /\ events' = events
    BY <1>8 DEF Tick, Collect, Reporting, Dispatch, Generate, Notified, SaveRule, CollectFails,
                PruneFails, DispatchFails, NotifyingHangs, vars
  <2>2. QED
    BY <2>1, CarriesStays
<1>9. QED
  BY <1>2, <1>3, <1>4, <1>5, <1>6, <1>7, <1>8 DEF Next, Alerts, Fails

\* What a step leaves of an alert.
Remains(e) ==
  \/ OnRecord(e, events', now)
  \/ rules'[e.rule] = "gone"
  \/ \A x \in snaps' : x.at # e.snap

LEMMA AlertsRemain ==
  ASSUME Base, Carries, [Next]_vars, NEW e \in events
  PROVE  Remains(e)
<1>1. CASE Prune
  <2>1. snaps' = snaps \ Old /\ events' = events \ Orphans
    BY <1>1 DEF Prune
  <2>2. CASE e \in Orphans
    <3>1. PICK x \in Old : x.at = e.snap
      BY <2>2 DEF Orphans
    <3>2. \A y \in snaps : y.at = e.snap => y \in Old
      BY <3>1 DEF Old
    <3>3. QED
      BY <2>1, <3>2 DEF Remains
  <2>3. CASE e \notin Orphans
    BY <2>1, <2>3 DEF Remains, OnRecord
  <2>4. QED
    BY <2>2, <2>3
<1>2. CASE Commit
  <2>1. tx.open /\ tx.at = now
    BY <1>2 DEF Commit, Base, Rhythm
  <2>2. CASE events' = tx.events
    BY <2>1, <2>2 DEF Carries, Remains
  <2>3. CASE events' = events
    BY <2>3 DEF Remains, OnRecord
  <2>4. QED
    BY <1>2, <2>2, <2>3 DEF Commit
<1>3. ASSUME NEW r \in AlertRules, DeleteAlert(r)
      PROVE  Remains(e)
  <2>1. CASE e.rule = r
    <3>1. rules' = [rules EXCEPT ![r] = "gone"] /\ rules \in [AlertRules -> States]
      BY <1>3 DEF DeleteAlert, Base, TypeOK
    <3>2. QED
      BY <2>1, <3>1 DEF Remains
  <2>2. CASE e.rule # r
    BY <1>3, <2>2 DEF DeleteAlert, EventsOf, Remains, OnRecord
  <2>3. QED
    BY <2>1, <2>2
<1>4. CASE events' = events
  BY <1>4 DEF Remains, OnRecord
<1>5. QED
  <2>1. CASE Tick \/ Collect \/ BeginAlerts \/ Evaluate \/ Told \/ Reporting \/ UNCHANGED vars
    BY <1>4, <2>1 DEF Tick, Collect, BeginAlerts, Evaluate, Told, Reporting, Dispatch, Generate,
                      Notified, SaveRule, vars
  <2>2. CASE Fails
    BY <1>4, <2>2 DEF Fails, CollectFails, PruneFails, EvaluationFails, DispatchFails,
                      TellingHangs, NotifyingHangs, Crash
  <2>3. CASE User
    BY <1>3, <1>4, <2>3 DEF User, ToggleAlert, OpenForm, SaveForm, DeleteReport
  <2>4. QED
    BY <1>1, <1>2, <2>1, <2>2, <2>3 DEF Next, Alerts

\* For any rules, windows, cooldowns, faults and edits: no evaluation takes an alert back
\* or changes what is on record of it except to resolve it, whether it is committed, rolled
\* back or meets a rule that is deleted meanwhile; only pruning and deletion remove it.
THEOREM AlertsStay == Spec => AlertsStayOnRecord
<1>1. IInv => Base
  BY DEF IInv, Base
<1>2. Init => Carries
  BY NoTransaction DEF Init, Carries
<1>3. IInv /\ Carries /\ [Next]_vars => Carries'
  BY <1>1, CarriesKept
<1>4. IInv /\ Carries /\ [Next]_vars => \A e \in events : Remains(e)
  BY <1>1, AlertsRemain
<1>5. Spec => [][\A e \in events : Remains(e)]_vars
  BY <1>2, <1>3, <1>4, Invariance, PTL DEF Spec
<1>6. (\A e \in events : Remains(e)) =>
        \A e \in events :
          \/ e \in events'
          \/ e.active /\ [e EXCEPT !.active = FALSE, !.resolved = now] \in events'
          \/ rules'[e.rule] = "gone"
          \/ \A x \in snaps' : x.at # e.snap
  BY Zenon DEF Remains, OnRecord, ResolvedAt
<1>7. QED
  BY <1>5, <1>6, PTL DEF AlertsStayOnRecord
=============================================================================
