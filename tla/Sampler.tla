------------------------------- MODULE Sampler -------------------------------
(***************************************************************************)
(* The sampler: one process that stores a snapshot of the host's metrics,  *)
(* evaluates the alert rules on it, generates the reports that are due and *)
(* prunes what is too old; then it sleeps.                                 *)
(*                                                                         *)
(* Alerts are evaluated in one database transaction that goes on while     *)
(* notifications are sent; reports are not.  Users edit the rules in       *)
(* between.  What can go wrong: a notification that is out while its       *)
(* record is rolled back, an occasion that is reported twice or never, an  *)
(* alert that is raised again before its time.                             *)
(*                                                                         *)
(* Time is counted in ticks; nothing but sleep and a notification service  *)
(* that does not answer takes time.  A snapshot is one value of one metric.*)
(***************************************************************************)
EXTENDS Integers, FiniteSets, FiniteSetsExt

CONSTANTS
  AlertRules, ReportRules,        \* numbers: the position of a rule
  Mode, Window, Need, Cooldown,   \* of an alert rule
  Values, Threshold,              \* of the metric
  Interval,                       \* sample_interval_seconds
  Retention,                      \* history_retention_days
  Cadence, Period,                \* of the report rules
  TargetPoints,                   \* REPORT_TARGET_POINTS
  MaxTime, MaxFaults, MaxEdits    \* bounds

ASSUME RulesAssumption ==
  /\ AlertRules \subseteq Nat /\ ReportRules \subseteq Nat
  /\ Mode \in [AlertRules -> {"current", "avg", "max", "min"}]
  /\ {Window, Need, Cooldown} \subseteq [AlertRules -> Nat]

ASSUME TimesAssumption ==
  /\ {Interval, Retention, Cadence, Period, TargetPoints} \subseteq Nat \ {0}
  /\ {MaxTime, MaxFaults, MaxEdits} \subseteq Nat

VARIABLES
  now,
  snaps,    \* the stored snapshots
  rules,    \* the alert rules
  events,   \* the alert events
  tx,       \* the transaction of evaluate_alerts
  reports,  \* the report rules
  runs,     \* the report runs
  form,     \* a POST of the report rules' page under way
  s,        \* the sampler
  hist,     \* history
  faults, edits

vars == <<now, snaps, rules, events, tx, reports, runs, form, s, hist, faults, edits>>

-----------------------------------------------------------------------------
(* Types *)

None == -1

Times == 0..MaxTime

States == {"on", "off", "gone"}

Snapshot == [at : Times, value : Values]

\* snap: the snapshot it was raised on; resolved: when it was, or None.
Event == [rule : AlertRules, snap : Times, at : Times, active : BOOLEAN, resolved : Times \cup {None}]

\* rules, events: as the transaction sees them; todo: rules still to come; wrote: it
\* holds the write lock; stale: somebody wrote since it began; asked: a
\* notification of this rule is on its way; sent: those that were accepted.
Tx == [open : BOOLEAN, at : Times, rules : [AlertRules -> States], events : SUBSET Event,
       todo : SUBSET AlertRules, wrote : BOOLEAN, stale : BOOLEAN,
       asked : AlertRules \cup {None}, sent : SUBSET AlertRules, hot : SUBSET AlertRules]

NoTx == [open |-> FALSE, at |-> 0, rules |-> [r \in AlertRules |-> "on"], events |-> {}, todo |-> {},
         wrote |-> FALSE, stale |-> FALSE, asked |-> None, sent |-> {}, hot |-> {}]

Report == [state : States, next : Nat]

\* start, end: the window; seen: its snapshots, by time; missing: the periods
\* without data that it names, from and to.
Run == [rule : ReportRules, start : Int, end : Times, seen : SUBSET Times, missing : SUBSET (Int \X Int)]

Form == [open : BOOLEAN, rule : ReportRules \cup {None}, state : States, next : Nat]

NoForm == [open |-> FALSE, rule |-> None, state |-> "on", next |-> 0]

\* at: when the snapshot was captured; due: the reports to come, copies: their rules'
\* next_run_at as they were read.
SamplerState == [pc : {"sleep", "alerts", "reports", "report", "notify", "save", "prune"}, wake : Nat,
                 at : Times, due : SUBSET ReportRules, copies : [ReportRules -> Nat]]

\* hot: the rules that triggered at the last evaluation that was committed, when:
\* its time; quiet: until when no repetition of an accepted notification is
\* expected; repeats: rules that had one before; lost: rules that lost their
\* record; torn: reports stopped before their rule was saved, or overwritten by a
\* form; since: from when on a report rule has been on.
History == [hot : SUBSET AlertRules, when : Times, quiet : [AlertRules -> Nat],
            repeats : SUBSET AlertRules, lost : SUBSET AlertRules, torn : SUBSET ReportRules,
            since : [ReportRules -> Times]]

TypeOK ==
  /\ now \in Times
  /\ snaps \subseteq Snapshot /\ \A x, y \in snaps : x.at = y.at => x = y
  /\ rules \in [AlertRules -> States]
  /\ events \subseteq Event /\ \A e \in events : \E x \in snaps : x.at = e.snap
  /\ tx \in Tx
  /\ reports \in [ReportRules -> Report]
  /\ runs \subseteq Run
  /\ form \in Form
  /\ s \in SamplerState
  /\ hist \in History
  /\ faults \in 0..MaxFaults /\ edits \in 0..MaxEdits

-----------------------------------------------------------------------------
(* Alert rules *)

\* _compare with gte
Compare(value) == value >= Threshold

ValueAt(at) == (CHOOSE x \in snaps : x.at = at).value

\* The snapshots of a rule's window.
InWindow(r, at) ==
  LET some == {x \in snaps : x.at >= now - Window[r] /\ x.at <= at} IN
  IF some = {} THEN {x \in snaps : x.at = at} ELSE some

\* evaluate_rule
Triggered(r, at) ==
  LET some == InWindow(r, at)
      hot == {x \in some : Compare(x.value)}
      total == MapThenSumSet(LAMBDA x : x.value, some) IN
  \/ Mode[r] = "current" /\ Compare(ValueAt(at))
  \/ /\ Cardinality(hot) >= Need[r]
     /\ \/ Mode[r] = "avg" /\ total >= Threshold * Cardinality(some)
        \/ Mode[r] = "max" /\ hot # {}
        \/ Mode[r] = "min" /\ hot = some

EventsOf(some, r) == {e \in some : e.rule = r}

Latest(some) == CHOOSE e \in some : \A f \in some : f.at <= e.at

Active(some, r) == {e \in EventsOf(some, r) : e.active}

\* Mutant of Cooling: only an alert that is active keeps another one from being
\* raised.
CoolingNot(some, r, at) == FALSE

\* The last event of rule r was resolved a short time ago.
Cooling(some, r, at) ==
  EventsOf(some, r) # {} /\ Latest(EventsOf(some, r)).resolved # None
    /\ at < Latest(EventsOf(some, r)).resolved + Cooldown[r]

Resolve(some, r, at) ==
  LET e == Latest(Active(some, r)) IN (some \ {e}) \cup {[e EXCEPT !.active = FALSE, !.resolved = at]}

Raised(r, at, snap) == [rule |-> r, snap |-> snap, at |-> at, active |-> TRUE, resolved |-> None]

-----------------------------------------------------------------------------
(* Reports *)

Ceil(a, b) == (a + b - 1) \div b

\* The width and the number of the buckets of build_time_series_chart_data.
Bucket == Max({Interval, Ceil(Period, TargetPoints)})

Buckets == Max({1, Ceil(Period, Bucket)})

Index(t, start) == Min({Max({(t - start) \div Bucket, 0}), Buckets - 1})

\* Mutant of Missing: a row ends with the bucket that has data again.
MissingLong(seen, start, end) ==
  LET empty(i) == i \in 0..(Buckets - 1) /\ \A t \in seen : Index(t, start) # i IN
  {<<start + ij[1] * Bucket, Min({end, start + (ij[2] + 2) * Bucket})>> :
     ij \in {p \in (0..(Buckets - 1)) \X (0..(Buckets - 1)) :
               /\ p[1] <= p[2] /\ \A i \in p[1]..p[2] : empty(i)
               /\ ~empty(p[1] - 1) /\ ~empty(p[2] + 1)}}

\* missing_periods: each longest row of buckets i..j without data.
Missing(seen, start, end) ==
  LET empty(i) == i \in 0..(Buckets - 1) /\ \A t \in seen : Index(t, start) # i IN
  {<<start + ij[1] * Bucket, IF ij[2] = Buckets - 1 THEN end ELSE start + (ij[2] + 1) * Bucket>> :
     ij \in {p \in (0..(Buckets - 1)) \X (0..(Buckets - 1)) :
               /\ p[1] <= p[2] /\ \A i \in p[1]..p[2] : empty(i)
               /\ ~empty(p[1] - 1) /\ ~empty(p[2] + 1)}}

\* build_report_data
Generated(w, at) ==
  LET start == at - Period
      seen == {x.at : x \in {y \in snaps : y.at >= start /\ y.at <= at}} IN
  [rule |-> w, start |-> start, end |-> at, seen |-> seen, missing |-> Missing(seen, start, at)]

\* Mutant of NextRun: an occasion at the time of the report is left for the next one.
NextRunAgain(next, at) == IF next >= at THEN next ELSE next + Cadence * Ceil(at - next, Cadence)

\* The first occasion after the report.
NextRun(next, at) == IF next > at THEN next ELSE next + Cadence * ((at - next) \div Cadence + 1)

-----------------------------------------------------------------------------
Forever == MaxTime + 1

Init ==
  /\ now = 0
  /\ snaps = {} /\ events = {} /\ runs = {}
  /\ rules = [r \in AlertRules |-> "on"]
  /\ tx = NoTx
  /\ reports = [w \in ReportRules |-> [state |-> "on", next |-> Cadence]]
  /\ form = NoForm
  /\ s = [pc |-> "sleep", wake |-> 0, at |-> 0, due |-> {}, copies |-> [w \in ReportRules |-> 0]]
  /\ hist = [hot |-> {}, when |-> 0, quiet |-> [r \in AlertRules |-> 0], repeats |-> {}, lost |-> {},
             torn |-> {}, since |-> [w \in ReportRules |-> 0]]
  /\ faults = 0 /\ edits = 0

\* On the last tick there is no time left to see what follows from either.
Fault == faults < MaxFaults /\ now < MaxTime /\ faults' = faults + 1 /\ UNCHANGED edits

Edit == edits < MaxEdits /\ now < MaxTime /\ edits' = edits + 1 /\ UNCHANGED faults

bounds == <<faults, edits>>

\* The loop of run_sampler goes to sleep.
Asleep == [s EXCEPT !.pc = "sleep", !.due = {}, !.copies = [w \in ReportRules |-> 0], !.at = 0]

Sleeps(t) == s' = [Asleep EXCEPT !.wake = t]

-----------------------------------------------------------------------------
(* Snapshots *)

\* The clock stops for a sampler that does not sleep.
Tick ==
  /\ s.pc = "sleep" /\ now < s.wake
  /\ now < MaxTime
  /\ now' = now + 1
  /\ UNCHANGED <<snaps, rules, events, tx, reports, runs, form, s, hist, bounds>>

\* collect_snapshot: a snapshot is stored.
Collect ==
  /\ s.pc = "sleep" /\ now >= s.wake
  /\ \E v \in Values : snaps' = snaps \cup {[at |-> now, value |-> v]}
  /\ s' = [s EXCEPT !.pc = "alerts", !.at = now]
  /\ UNCHANGED <<now, rules, events, tx, reports, runs, form, hist, bounds>>

\* It could not be: the database is busy.
CollectFails ==
  /\ s.pc = "sleep" /\ now >= s.wake
  /\ Fault
  /\ Sleeps(now + 1)
  /\ UNCHANGED <<now, snaps, rules, events, tx, reports, runs, form, hist>>

Old == {x \in snaps : x.at < now - Retention}

\* Mutant of Orphans: the events stay.
OrphansNone == {}

Orphans == {e \in events : \E x \in Old : x.at = e.snap}

\* prune_old_snapshots; their alert events go with them.
Prune ==
  /\ s.pc = "prune"
  /\ snaps' = snaps \ Old
  /\ events' = events \ Orphans
  /\ hist' = [hist EXCEPT !.lost = @ \cup {e.rule : e \in Orphans}]
  /\ Sleeps(now + Interval)
  /\ UNCHANGED <<now, rules, tx, reports, runs, form, bounds>>

PruneFails ==
  /\ s.pc = "prune" /\ Fault
  /\ Sleeps(now + Interval)
  /\ UNCHANGED <<now, snaps, rules, events, tx, reports, runs, form, hist>>

-----------------------------------------------------------------------------
(* evaluate_alerts *)

\* Without any rules the default ones are created.
BeginAlerts ==
  LET none == \A r \in AlertRules : rules[r] = "gone"
      all == [r \in AlertRules |-> IF none THEN "on" ELSE rules[r]] IN
  /\ s.pc = "alerts" /\ ~tx.open
  /\ tx' = [NoTx EXCEPT !.open = TRUE, !.at = now, !.rules = all, !.events = events,
                        !.todo = {r \in AlertRules : all[r] # "gone"}, !.wrote = none]
  /\ UNCHANGED <<now, snaps, rules, events, reports, runs, form, s, hist, bounds>>

\* The transaction is rolled back, the evaluation is skipped.
Skips ==
  /\ tx' = NoTx
  /\ s' = [s EXCEPT !.pc = "reports"]
  /\ hist' = [hist EXCEPT !.lost = @ \cup tx.sent]

\* The next rule is done, with these events and perhaps a notification.  The first
\* write finds out that somebody else has written.
Writes(r, some, asked) ==
  IF tx.stale THEN Skips
  ELSE /\ tx' = [tx EXCEPT !.events = some, !.todo = @ \ {r}, !.wrote = TRUE, !.asked = asked,
                           !.hot = IF tx.rules[r] = "on" /\ Triggered(r, s.at) THEN @ \cup {r} ELSE @]
       /\ UNCHANGED <<s, hist>>

Passes(r) ==
  /\ tx' = [tx EXCEPT !.todo = @ \ {r},
                      !.hot = IF tx.rules[r] = "on" /\ Triggered(r, s.at) THEN @ \cup {r} ELSE @]
  /\ UNCHANGED <<s, hist>>

\* One rule.
Evaluate ==
  LET r == Min(tx.todo)
      some == tx.events
      hot == tx.rules[r] = "on" /\ Triggered(r, s.at) IN
  /\ s.pc = "alerts" /\ tx.open /\ tx.asked = None /\ tx.todo # {}
  /\ \/ /\ ~hot /\ Active(some, r) # {}
        /\ Writes(r, Resolve(some, r, tx.at), None)
     \/ /\ ~hot /\ Active(some, r) = {}
        /\ Passes(r)
     \/ /\ hot /\ Active(some, r) # {}
        /\ Writes(r, some, None)
     \/ /\ hot /\ Active(some, r) = {} /\ Cooling(some, r, tx.at)
        /\ Passes(r)
     \/ /\ hot /\ Active(some, r) = {} /\ ~Cooling(some, r, tx.at)
        /\ Writes(r, some \cup {Raised(r, tx.at, s.at)}, r)
  /\ UNCHANGED <<now, snaps, rules, events, reports, runs, form, bounds>>

\* The notification service accepts one.
Heard(h, r) ==
  [h EXCEPT !.repeats = IF now < h.quiet[r] THEN @ \cup {r} ELSE @, !.quiet[r] = Forever]

\* _notify_event has its answer.
Told ==
  LET r == tx.asked IN
  /\ s.pc = "alerts" /\ tx.open /\ r # None
  /\ \/ /\ tx' = [tx EXCEPT !.asked = None, !.sent = @ \cup {r}]
        /\ hist' = Heard(hist, r)
     \/ /\ tx' = [tx EXCEPT !.asked = None]
        /\ UNCHANGED hist
  /\ UNCHANGED <<now, snaps, rules, events, reports, runs, form, s, bounds>>

\* It has none in time.  Nobody catches that before the loop does.
TellingHangs ==
  LET r == tx.asked IN
  /\ s.pc = "alerts" /\ tx.open /\ r # None
  /\ Fault
  /\ now' = now + 1
  /\ \/ hist' = [Heard(hist, r) EXCEPT !.lost = @ \cup tx.sent \cup {r}]
     \/ hist' = [hist EXCEPT !.lost = @ \cup tx.sent]
  /\ tx' = NoTx
  /\ Sleeps(now + 1 + Interval)
  /\ UNCHANGED <<snaps, rules, events, reports, runs, form>>

\* The database is busy.
EvaluationFails ==
  /\ s.pc = "alerts" /\ tx.open /\ tx.asked = None
  /\ Fault
  /\ Skips
  /\ UNCHANGED <<now, snaps, rules, events, reports, runs, form>>

\* All rules are done.
Commit ==
  LET over == {r \in AlertRules : Active(events, r) # {} /\ Active(tx.events, r) = {}} IN
  /\ s.pc = "alerts" /\ tx.open /\ tx.asked = None /\ tx.todo = {}
  /\ IF tx.wrote THEN events' = tx.events /\ rules' = tx.rules ELSE UNCHANGED <<events, rules>>
  /\ hist' = [hist EXCEPT !.hot = tx.hot, !.when = tx.at,
                          !.quiet = [r \in AlertRules |-> IF r \in over THEN tx.at + Cooldown[r] ELSE @[r]]]
  /\ tx' = NoTx
  /\ s' = [s EXCEPT !.pc = "reports"]
  /\ UNCHANGED <<now, snaps, reports, runs, form, bounds>>

-----------------------------------------------------------------------------
(* dispatch_scheduled_reports *)

Due(w) == reports[w].state = "on" /\ reports[w].next <= s.at

\* The rules that are due are read.
Dispatch ==
  LET due == {w \in ReportRules : Due(w)} IN
  /\ s.pc = "reports"
  /\ s' = [s EXCEPT !.pc = IF due = {} THEN "prune" ELSE "report", !.due = due,
                    !.copies = [w \in ReportRules |-> IF w \in due THEN reports[w].next ELSE 0]]
  /\ UNCHANGED <<now, snaps, rules, events, tx, reports, runs, form, hist, bounds>>

Reported == Min(s.due)

Torn(h) == [h EXCEPT !.torn = @ \cup {Reported}]

\* generate_report_for_rule: a run is created, unless its rule is gone, ...
Generate ==
  /\ s.pc = "report"
  /\ IF reports[Reported].state = "gone"
     THEN UNCHANGED runs /\ Sleeps(now + Interval)
     ELSE runs' = runs \cup {Generated(Reported, s.at)} /\ s' = [s EXCEPT !.pc = "notify"]
  /\ UNCHANGED <<now, snaps, rules, events, tx, reports, form, hist, bounds>>

\* ... notify_report_run has an answer ...
Notified ==
  /\ s.pc = "notify"
  /\ IF reports[Reported].state = "gone" THEN Sleeps(now + Interval) ELSE s' = [s EXCEPT !.pc = "save"]
  /\ UNCHANGED <<now, snaps, rules, events, tx, reports, runs, form, hist, bounds>>

\* ... or none in time, ...
NotifyingHangs ==
  /\ s.pc = "notify"
  /\ Fault
  /\ now' = now + 1
  /\ hist' = Torn(hist)
  /\ Sleeps(now + 1 + Interval)
  /\ UNCHANGED <<snaps, rules, events, tx, reports, runs, form>>

\* ... and the rule is saved.
SaveRule ==
  LET rest == s.due \ {Reported} IN
  /\ s.pc = "save"
  /\ IF reports[Reported].state = "gone"
     THEN UNCHANGED reports /\ Sleeps(now + Interval)
     ELSE /\ reports' = [reports EXCEPT ![Reported].next = NextRun(s.copies[Reported], s.at)]
          /\ s' = [s EXCEPT !.pc = IF rest = {} THEN "prune" ELSE "report", !.due = rest,
                            !.copies[Reported] = 0]
  /\ UNCHANGED <<now, snaps, rules, events, tx, runs, form, hist, bounds>>

\* The database is busy: what is left of the reports is skipped.
DispatchFails ==
  /\ s.pc \in {"report", "notify", "save"}
  /\ Fault
  /\ s' = [s EXCEPT !.pc = "prune", !.due = {}, !.copies = [w \in ReportRules |-> 0]]
  /\ hist' = IF s.pc = "report" THEN hist ELSE Torn(hist)
  /\ UNCHANGED <<now, snaps, rules, events, tx, reports, runs, form>>

\* The container restarts.
Crash ==
  /\ s.pc # "sleep"
  /\ Fault
  /\ Sleeps(now + 1)
  /\ tx' = NoTx
  /\ \/ hist' = [(IF s.pc \in {"notify", "save"} THEN Torn(hist) ELSE hist) EXCEPT !.lost = @ \cup tx.sent]
     \/ tx.asked # None /\ hist' = [Heard(hist, tx.asked) EXCEPT !.lost = @ \cup tx.sent \cup {tx.asked}]
  /\ UNCHANGED <<now, snaps, rules, events, reports, runs, form>>

-----------------------------------------------------------------------------
(* The users *)

\* The database takes one writer.
Unlocked == ~tx.wrote

Disturbed == IF tx.open THEN [tx EXCEPT !.stale = TRUE] ELSE tx

\* AlertsView.post turns a rule on or off, ...
ToggleAlert(r) ==
  /\ rules[r] # "gone" /\ Unlocked /\ Edit
  /\ rules' = [rules EXCEPT ![r] = IF @ = "on" THEN "off" ELSE "on"]
  /\ tx' = Disturbed
  /\ UNCHANGED <<now, snaps, events, reports, runs, form, s, hist>>

\* ... or deletes it.
DeleteAlert(r) ==
  /\ rules[r] # "gone" /\ Unlocked /\ Edit
  /\ rules' = [rules EXCEPT ![r] = "gone"]
  /\ events' = events \ EventsOf(events, r)
  /\ hist' = [hist EXCEPT !.lost = @ \cup {r}]
  /\ tx' = Disturbed
  /\ UNCHANGED <<now, snaps, reports, runs, form, s>>

\* ReportsView.post reads the rules, ...
OpenForm(w) ==
  /\ ~form.open /\ reports[w].state # "gone" /\ Edit
  /\ form' = [open |-> TRUE, rule |-> w, next |-> reports[w].next,
              state |-> IF reports[w].state = "on" THEN "off" ELSE "on"]
  /\ UNCHANGED <<now, snaps, rules, events, tx, reports, runs, s, hist>>

\* ... and saves all of the fields of what has changed.
SaveForm ==
  LET w == form.rule IN
  /\ form.open /\ Unlocked
  /\ reports' = [reports EXCEPT ![w] = [state |-> form.state, next |-> form.next]]
  /\ hist' = [hist EXCEPT !.torn = IF reports[w].next # form.next THEN @ \cup {w} ELSE @,
                          !.since[w] = IF form.state = "on" THEN now ELSE @]
  /\ form' = NoForm
  /\ tx' = Disturbed
  /\ UNCHANGED <<now, snaps, rules, events, runs, s, bounds>>

\* A report rule is deleted with its runs.
DeleteReport(w) ==
  /\ ~form.open /\ reports[w].state # "gone" /\ Unlocked /\ Edit
  /\ reports' = [reports EXCEPT ![w].state = "gone"]
  /\ runs' = {x \in runs : x.rule # w}
  /\ tx' = Disturbed
  /\ UNCHANGED <<now, snaps, rules, events, form, s, hist>>

-----------------------------------------------------------------------------
Alerts == BeginAlerts \/ Evaluate \/ Told \/ Commit

Reporting == Dispatch \/ Generate \/ Notified \/ SaveRule

Fails ==
  \/ CollectFails \/ PruneFails \/ EvaluationFails \/ DispatchFails
  \/ TellingHangs \/ NotifyingHangs \/ Crash

User ==
  \/ \E r \in AlertRules : ToggleAlert(r) \/ DeleteAlert(r)
  \/ \E w \in ReportRules : OpenForm(w) \/ DeleteReport(w)
  \/ SaveForm

Next == Tick \/ Collect \/ Alerts \/ Reporting \/ Prune \/ Fails \/ User

Spec == Init /\ [][Next]_vars

-----------------------------------------------------------------------------
(* Properties *)

\* A notification that was accepted is not followed by another one of its rule
\* while the alert lasts or cools down, unless the record of it is gone: rolled back
\* after it was sent, pruned with its snapshot, or deleted with its rule.
RepeatsHaveCause == hist.repeats \subseteq hist.lost

\* What is shown as active is what triggered when the rules were last evaluated;
\* what triggered then is active or was about to cool down, unless its record is
\* gone.  No rule has two active alerts.
AlertsMatchLastEvaluation ==
  /\ \A e, f \in events : e.active /\ f.active /\ e.rule = f.rule => e = f
  /\ \A e \in events : e.active => e.rule \in hist.hot
  /\ \A r \in hist.hot \ hist.lost :
       \E e \in EventsOf(events, r) : e.active \/ hist.when < e.resolved + Cooldown[r]

\* Neither does an alert that is told repeat another one without cause, nor does the
\* page show alerts that did not trigger or hide those that did.
AlertsAreTrue == RepeatsHaveCause /\ AlertsMatchLastEvaluation

\* The occasion on which a report was made.
Occasion(run) == (run.end - Cadence) \div Cadence

\* No occasion is reported twice, unless the first report was not seen to its end or
\* a form has taken the rule back.
OneReportPerOccasion ==
  \A x, y \in runs :
    x.rule = y.rule /\ x # y /\ x.rule \notin hist.torn => Occasion(x) # Occasion(y)

\* What failures cost, and rules that are deleted under the sampler: an interval for
\* each of them, and a tick.
Slack == Interval * (1 + faults + edits) + faults

\* Every occasion of a rule that is on is reported, at the next snapshot or, after
\* failures and deletions, as soon as one cycle goes well.
EveryOccasionReported ==
  \A w \in ReportRules, k \in 1..MaxTime :
    LET due == k * Cadence IN
    reports[w].state = "on" /\ due >= hist.since[w] /\ due + Slack < now
      => \E x \in runs : x.rule = w /\ x.end \in due..(due + Slack)

\* What a report rule promises of its occasions.
OccasionsReportedOnce == OneReportPerOccasion /\ EveryOccasionReported

\* What is on record of an alert stays as it is until the alert is resolved, and from then
\* on, unless its snapshot is pruned or its rule deleted.
AlertsStayOnRecord ==
  [][\A e \in events :
       \/ e \in events'
       \/ e.active /\ [e EXCEPT !.active = FALSE, !.resolved = now] \in events'
       \/ rules'[e.rule] = "gone"
       \/ \A x \in snaps' : x.at # e.snap]_vars

\* A report that goes out names as missing no time that has a snapshot, and it names at
\* least a part of what is long enough to hold a bucket.  (The last bucket has the
\* snapshot that the report is made at, and is never missing.)
ReportTellsGaps ==
  s.pc = "notify" => \A x \in {y \in runs : y.end = s.at} :
    /\ \A m \in x.missing, t \in x.seen : ~(m[1] <= t /\ t < m[2])
    /\ \A t \in x.start..(x.end - 2 * Bucket) :
         (\A u \in t..(t + 2 * Bucket - 2) : u \notin x.seen)
           => \E m \in x.missing : \E u \in t..(t + 2 * Bucket - 2) : m[1] <= u /\ u < m[2]

-----------------------------------------------------------------------------
(* What the code says of itself and does not keep: counterexamples in README. *)

\* A step after a snapshot that fails does not keep the next one from being taken.
StepsAreIsolated ==
  [][s.pc = "alerts" /\ s'.pc # "alerts" /\ ~Crash => s'.pc = "reports"]_vars
=============================================================================
