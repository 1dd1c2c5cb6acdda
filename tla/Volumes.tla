------------------------------- MODULE Volumes -------------------------------
(***************************************************************************)
(* The volumes page: mounting, unmounting, releasing the mounts that other *)
(* mount namespaces hold, and the label and format operations, which a     *)
(* detached worker carries out.                                            *)
(*                                                                         *)
(* Every check is a command of its own, and so is what relies on it; the   *)
(* host's own users mount, unmount and replug volumes at any time between. *)
(* What can go wrong: a volume is wiped while it is in use or after its    *)
(* device node became another volume's, a page that is read in two parts   *)
(* shows what never was, a record says something else than what was done.  *)
(*                                                                         *)
(* The model has one page and one request at a time, and any number of     *)
(* workers; users of the host stand for other requests.                    *)
(***************************************************************************)
EXTENDS Integers, FiniteSets, Sequences, SequencesExt, Functions

CONSTANTS
  Nodes,       \* device nodes of partitions
  Disks,       \* the partitions behind them, numbers
  Dirs,        \* mount points
  Apps,        \* mount namespaces other than the host's
  Types,       \* filesystem types
  First,       \* those of the partitions in the beginning
  Forced,      \* those whose mkfs is told to ignore that the device is in use
  Fallback,    \* those that are mounted with any type in the end
  Fstab,       \* automounts of /etc/fstab: <<filesystem, directory>>
  Limit,       \* of _namespace_mount_references
  MaxOps, MaxActs, MaxOutside, MaxFaults   \* bounds

Ops == 1..MaxOps

ASSUME DisksAssumption ==
  /\ Disks \subseteq Nat /\ Disks \cap (Ops \cup {0}) = {}
  /\ IsFiniteSet(Nodes) /\ IsFiniteSet(Disks)
  /\ Nodes # {} /\ Cardinality(Nodes) = Cardinality(Disks)
  /\ (Nodes \cup Dirs \cup Types) \cap (Disks \cup Ops \cup {0}) = {}
  /\ Dirs \cap Apps = {}
  /\ First \in [Disks -> Types]
  /\ Forced \subseteq Types /\ Fallback \subseteq Types
  /\ Fstab \subseteq Disks \X Dirs

ASSUME BoundsAssumption == {MaxOps, MaxActs, MaxOutside, MaxFaults} \subseteq Nat /\ Limit \in Nat \ {0}

VARIABLES
  disk,     \* the partition of a node
  fs,       \* the filesystem on it
  making,   \* the operation whose mkfs runs on it
  host,     \* what is mounted on a directory, the last one on top
  held,     \* what other namespaces have mounted
  open,     \* detached with umount -l and in use
  prefs,    \* VolumeMountPreference
  page,     \* the volumes page in the browser
  req,      \* its POST
  ops,      \* VolumeOperation and the worker
  old,      \* who has read what has changed since: the page, its POST, an operation
  hist,     \* history
  acts, outside, faults

system == <<disk, fs, making, host, held, open>>
bounds == <<acts, outside, faults>>
vars == <<system, prefs, page, req, ops, old, hist, bounds>>

-----------------------------------------------------------------------------
(* Types *)

None == 0

\* A filesystem is named after its partition or the operation that made it.
Ids == Disks \cup Ops

\* What blkid reads on a partition; nothing while mkfs is at work.
Filesystem == [id : Ids \cup {None}, type : Types \cup {None}]

Blank == [id |-> None, type |-> None]

\* at: the mount point of a volume that is mounted; held: by another namespace.
Row == [node : Nodes \cup {None}, id : Ids \cup {None}, type : Types \cup {None},
        at : Dirs \cup {None}, held : BOOLEAN, suggested : Dirs \cup {None}]

\* first: what disk_devices has found, mounted and idle.
Page == [pc : {"none", "half", "ready"}, first : SUBSET (Nodes \X Dirs),
         idle : SUBSET ((Nodes \cup {None}) \X Dirs), rows : SUBSET Row]

Actions == {"none", "mount", "unmount", "release", "format", "label"}

\* refs: the references still to unmount.
Request == [action : Actions, pc : {"none", "mount", "again", "remember", "umount", "host", "refs", "unmount",
                  "errors", "recheck", "start"},
            node : Nodes \cup {None}, seen : Ids \cup {None}, type : Types \cup {None},
            at : Dirs \cup {None}, force : BOOLEAN, refs : SUBSET (Dirs \cup Apps)]

NoRequest == [action |-> "none", pc |-> "none", node |-> None, seen |-> None, type |-> None,
              at |-> None, force |-> FALSE, refs |-> {}]

Operation == [status : {"none", "running", "success", "failed"}, action : Actions,
              node : Nodes \cup {None}, seen : Ids \cup {None}, type : Types \cup {None},
              pc : {"none", "begin", "host", "refs", "run", "wait", "save"},
              verdict : {"none", "success", "failed"}]

NoOperation == [status |-> "none", action |-> "none", node |-> None, seen |-> None, type |-> None,
                pc |-> "none", verdict |-> "none"]

\* done: operations that were carried out, wiped: formats that have begun to write,
\* slow: that were not waited for, dead: that lost their worker; harmed: that wiped
\* what was in use, late: before which it came into use after the last check;
\* wrong: requests and operations on something else than the page showed, stale:
\* those that relied on an old page; lazy: partitions detached with umount -l.
History == [done : SUBSET Ops, wiped : SUBSET Ops, slow : SUBSET Ops, dead : SUBSET Ops,
            harmed : SUBSET Ops, late : SUBSET Ops, wrong : BOOLEAN, lazy : SUBSET Disks]

ThePage == -1

TheRequest == -2

Readers == {ThePage, TheRequest} \cup Ops

NoPage == [pc |-> "none", first |-> {}, idle |-> {}, rows |-> {}]

TypeOK ==
  /\ disk \in [Nodes -> Disks] /\ IsInjective(disk)
  /\ fs \in [Disks -> Filesystem] /\ making \in [Disks -> Ops \cup {None}]
  /\ \A d \in Disks : (fs[d].id = None) <=> (fs[d].type = None)
  /\ \A d \in Disks : making[d] # None => fs[d] = Blank
  /\ host \in [Dirs -> Seq(Disks)] /\ held \in [Apps -> SUBSET Disks] /\ open \subseteq Disks
  /\ DOMAIN prefs \subseteq Ids \cup Nodes /\ \A k \in DOMAIN prefs : prefs[k] \in Dirs
  /\ page \in Page /\ req \in Request /\ ops \in [Ops -> Operation]
  /\ old \subseteq Readers /\ hist \in History
  /\ acts \in 0..MaxActs /\ outside \in 0..MaxOutside /\ faults \in 0..MaxFaults

-----------------------------------------------------------------------------
(* The host *)

NodeOf(d) == CHOOSE n \in Nodes : disk[n] = d

MountedOn(d) == {m \in Dirs : d \in Range(host[m])}

\* _namespace_mount_references: mounts of any namespace, by a process in it.  The
\* host's processes are among them.
References(d) == MountedOn(d) \cup {a \in Apps : d \in held[a]}

\* It gives up after so many processes, whichever come first.
Found(d) ==
  LET all == References(d) IN
  {some \in SUBSET all : Cardinality(some) <= Limit /\ (some = {} => all = {})}

InUse(d) == References(d) # {} \/ d \in open

\* What a new mount of d makes of operations that have checked it.
Late(d) == {o \in Ops : ops[o].pc = "run" /\ ops[o].action = "format" /\ disk[ops[o].node] = d}

On(m, d) == [host EXCEPT ![m] = Append(@, d)]

Top(m) == Last(host[m])

Off(m) == [host EXCEPT ![m] = Front(@)]

\* The kernel: a filesystem can be mounted that nobody is making, not twice on
\* the same directory.
Mountable(d, m) == fs[d].id # None /\ d \notin Range(host[m])

-----------------------------------------------------------------------------
Init ==
  /\ disk = CHOOSE f \in [Nodes -> Disks] : IsInjective(f)
  /\ fs = [d \in Disks |-> [id |-> d, type |-> First[d]]]
  /\ making = [d \in Disks |-> None]
  /\ host = [m \in Dirs |-> <<>>] /\ held = [a \in Apps |-> {}] /\ open = {}
  /\ prefs = <<>>
  /\ page = NoPage
  /\ req = NoRequest
  /\ ops = [o \in Ops |-> NoOperation]
  /\ old = {}
  /\ hist = [done |-> {}, wiped |-> {}, slow |-> {}, dead |-> {}, harmed |-> {}, late |-> {},
             wrong |-> FALSE, lazy |-> {}]
  /\ acts = 0 /\ outside = 0 /\ faults = 0

Fault == faults < MaxFaults /\ faults' = faults + 1 /\ UNCHANGED <<acts, outside>>

\* Everybody's knowledge of the mounts and the partitions is out of date.
Changes ==
  old' = {x \in Readers : \/ x = ThePage /\ page # NoPage
                          \/ x = TheRequest /\ req # NoRequest
                          \/ x \in Ops /\ ops[x].pc # "none"}

-----------------------------------------------------------------------------
(* The users of the host *)

Outside == outside < MaxOutside /\ outside' = outside + 1 /\ UNCHANGED <<acts, faults>>

HostMounts(d, m) ==
  /\ Mountable(d, m) /\ Outside
  /\ host' = On(m, d)
  /\ hist' = [hist EXCEPT !.late = @ \cup Late(d)]
  /\ Changes
  /\ UNCHANGED <<disk, fs, making, held, open, prefs, page, req, ops>>

HostUnmounts(m) ==
  /\ host[m] # <<>> /\ Outside
  /\ host' = Off(m)
  /\ Changes
  /\ UNCHANGED <<disk, fs, making, held, open, prefs, page, req, ops, hist>>

\* A container starts with the mounts of the host; it does not see later unmounts.
AppStarts(a) ==
  /\ held[a] = {} /\ \E m \in Dirs : host[m] # <<>>
  /\ Outside
  /\ held' = [held EXCEPT ![a] = UNION {Range(host[m]) : m \in Dirs}]
  /\ UNCHANGED <<disk, fs, making, host, open, prefs, page, req, ops, old, hist>>

\* It stops, and what was detached from it is closed.
AppStops(a) ==
  /\ held[a] # {} \/ open # {}
  /\ held' = [held EXCEPT ![a] = {}]
  /\ open' = {}
  /\ UNCHANGED <<disk, fs, making, host, prefs, page, req, ops, old, hist, bounds>>

\* Volumes that nobody uses are pulled out and plugged in again.
Replug(n, k) ==
  /\ n # k /\ \A x \in {n, k} : ~InUse(disk[x]) /\ making[disk[x]] = None
  /\ Outside
  /\ disk' = [disk EXCEPT ![n] = disk[k], ![k] = disk[n]]
  /\ Changes
  /\ UNCHANGED <<fs, making, host, held, open, prefs, page, req, ops, hist>>

-----------------------------------------------------------------------------
(* The page *)

\* The page is loaded, as long as something can still be posted.  list_volumes
\* reads the mounts and the automounts that are idle, ...
ReadMounts ==
  /\ req.pc = "none" /\ page.pc # "half" /\ acts < MaxActs
  /\ page' = [pc |-> "half", rows |-> {},
              first |-> {<<NodeOf(Head(host[m])), m>> : m \in {x \in Dirs : host[x] # <<>>}},
              idle |-> {<<IF \E d \in Disks : fs[d].id = x[1]
                            THEN NodeOf(CHOOSE d \in Disks : fs[d].id = x[1]) ELSE None, x[2]>> :
                          x \in {y \in Fstab : host[y[2]] = <<>>}}]
  /\ old' = old \ {ThePage}
  /\ UNCHANGED <<system, prefs, req, ops, hist, bounds>>

\* Mutant of Key: that of the filesystem only.
KeyOfFilesystem(id, n) == id

\* _volume_key: that of the filesystem, the node's for want of one.
Key(id, n) == IF id # None THEN id ELSE n

\* _attach_mount_preferences
Suggested(id, n) == IF Key(id, n) \in DOMAIN prefs THEN prefs[Key(id, n)] ELSE None

\* What lsblk says of a node.
Listed(n, m, app) ==
  LET f == fs[disk[n]] IN
  [node |-> n, id |-> f.id, type |-> f.type, at |-> m, held |-> app, suggested |-> Suggested(f.id, n)]

FromDevices(n, m) ==
  [node |-> n, id |-> None, type |-> None, at |-> m, held |-> FALSE, suggested |-> Suggested(None, n)]

\* _unmounted_score
Score(row) == IF row.id # None THEN 1 ELSE 0

\* _dedupe_unmounted_items
Deduped(rows) ==
  {r \in rows : \A x \in rows : Key(x.id, x.node) = Key(r.id, r.node) => Score(x) <= Score(r)}

\* Mutant of Idle: automounts are listed although lsblk has listed their nodes.
IdleAll(seen) == {x[1] : x \in page.idle}

\* The automounts that lsblk has not listed.
Idle(seen) == {x[1] : x \in page.idle} \ seen

\* ... then lsblk, unless that fails, and the namespaces.
ReadRows(seen) ==
  LET mounted == {Listed(n, m, FALSE) : n \in seen, m \in Dirs} IN
  {r \in mounted : r.at \in MountedOn(disk[r.node])}
    \cup {FromDevices(x[1], x[2]) : x \in {y \in page.first :
            \A n \in seen : y[2] \notin MountedOn(disk[n])}}
    \cup Deduped({Listed(n, None, \E a \in Apps : disk[n] \in held[a]) :
                    n \in {x \in seen : MountedOn(disk[x]) = {}}}
                 \cup {FromDevices(n, None) : n \in Idle(seen)})

ReadVolumes ==
  /\ page.pc = "half"
  /\ page' = [pc |-> "ready", first |-> {}, idle |-> {}, rows |-> ReadRows(Nodes)]
  /\ UNCHANGED <<system, prefs, req, ops, old, hist, bounds>>

LsblkFails ==
  /\ page.pc = "half" /\ Fault
  /\ page' = [pc |-> "ready", first |-> {}, idle |-> {}, rows |-> ReadRows({})]
  /\ old' = old \cup {ThePage}
  /\ UNCHANGED <<system, prefs, req, ops, hist>>

-----------------------------------------------------------------------------
(* VolumesView.post; its answer leads to a new page *)

Mounted == {r \in page.rows : r.at # None}

Unmounted == {r \in page.rows : r.at = None /\ r.node # None}

Posts(r) ==
  /\ req.pc = "none" /\ page.pc = "ready"
  /\ acts < MaxActs /\ acts' = acts + 1 /\ UNCHANGED <<outside, faults>>
  /\ req' = r
  /\ old' = IF ThePage \in old THEN (old \ {ThePage}) \cup {TheRequest} ELSE old \ {TheRequest}
  /\ page' = NoPage
  /\ UNCHANGED <<system, prefs, ops, hist>>

Form(action, pc, row) ==
  [NoRequest EXCEPT !.action = action, !.pc = pc, !.node = row.node, !.seen = row.id, !.type = row.type,
                    !.at = row.at]

\* mount_volume
PostMount ==
  \E row \in Unmounted, m \in Dirs : Posts([Form("mount", "mount", row) EXCEPT !.at = m])

\* unmount_volume
PostUnmount ==
  \E row \in Mounted, force \in BOOLEAN : Posts([Form("unmount", "umount", row) EXCEPT !.force = force])

\* release_namespace_mounts
PostRelease ==
  \E row \in Unmounted : row.held /\ Posts([Form("release", "host", row) EXCEPT !.force = TRUE])

\* Mutant of Confirmed: only the word is compared.
ConfirmedWord(row, typed) == TRUE

\* confirm_device
Confirmed(row, typed) == typed = row

\* The user means the row whose device he types; the form is that of another one
\* if he has opened the wrong one.
PostFormat ==
  \E row, typed \in Unmounted, t \in Types, force \in BOOLEAN :
    /\ Confirmed(row, typed)
    /\ force => row.held
    /\ Posts([Form("format", "host", row) EXCEPT !.seen = typed.id, !.type = t, !.force = force])

PostLabel ==
  \E row \in {r \in page.rows : r.node # None} : Posts([Form("label", "start", row) EXCEPT !.at = None])

Goes(pc) == req' = [req EXCEPT !.pc = pc, !.refs = {}]

Answers == req' = NoRequest

Answered == old \ {TheRequest}

D == disk[req.node]

\* mount: the type of the form must fit, or be the last one tried, none.
Mount ==
  LET fits == Mountable(D, req.at) /\ (req.type \in {fs[D].type, None} \/ req.pc = "again") IN
  /\ req.pc \in {"mount", "again"}
  /\ \/ /\ fits
        /\ host' = On(req.at, D)
        /\ hist' = [hist EXCEPT !.late = @ \cup Late(D)]
        /\ Goes("remember")
        /\ Changes
     \/ /\ ~fits /\ req.pc = "mount" /\ req.type \in Fallback
        /\ Goes("again")
        /\ UNCHANGED <<host, hist, old>>
     \/ /\ ~fits /\ ~(req.pc = "mount" /\ req.type \in Fallback)
        /\ Answers
        /\ UNCHANGED <<host, hist, old>>
  /\ UNCHANGED <<disk, fs, making, held, open, prefs, page, ops, bounds>>

\* remember_mount_preference: under the key of the page.
Remember ==
  /\ req.pc = "remember"
  /\ LET key == Key(req.seen, req.node) IN
     prefs' = [k \in DOMAIN prefs \cup {key} |-> IF k = key THEN req.at ELSE prefs[k]]
  /\ Answers
  /\ UNCHANGED <<system, page, ops, old, hist, bounds>>

\* umount takes off what is on top; it may be busy, unless with -l.
Umount ==
  /\ req.pc = "umount"
  /\ \/ /\ host[req.at] = <<>>
        /\ IF req.force THEN Goes("refs") ELSE Answers
        /\ UNCHANGED <<host, open, hist, old>>
     \/ /\ host[req.at] # <<>> /\ ~req.force
        /\ Answers
        /\ UNCHANGED <<host, open, hist, old>>
     \/ /\ host[req.at] # <<>>
        /\ host' = Off(req.at)
        /\ open' \in IF req.force THEN {open, open \cup {Top(req.at)}} ELSE {open}
        /\ hist' = [hist EXCEPT !.lazy = IF req.force THEN @ \cup {Top(req.at)} ELSE @,
                                !.wrong = @ \/ (TheRequest \notin old /\ D \notin Range(host[req.at]))]
        /\ Changes
        /\ IF req.force THEN Goes("refs") ELSE Answers
  /\ UNCHANGED <<disk, fs, making, held, prefs, page, ops, bounds>>

\* _device_host_mountpoints, for a format and for a release.
CheckHost ==
  /\ req.pc = "host"
  /\ IF MountedOn(D) # {} THEN Answers ELSE Goes("refs")
  /\ UNCHANGED <<system, prefs, page, ops, old, hist, bounds>>

\* findmnt fails, and lsblk: that counts as not mounted.
CheckHostFails ==
  /\ req.pc = "host" /\ Fault
  /\ Goes("refs")
  /\ UNCHANGED <<system, prefs, page, ops, old, hist>>

\* _namespace_mount_references, and once more in _unmount_namespace_references.
CheckReferences ==
  /\ req.pc = "refs"
  /\ \E some \in Found(D) :
       IF some # {} /\ req.force THEN req' = [req EXCEPT !.pc = "unmount", !.refs = some]
       ELSE IF some = {} /\ req.action = "format" THEN Goes("start")
       ELSE Answers
  /\ UNCHANGED <<system, prefs, page, ops, old, hist, bounds>>

\* umount -l in the namespace of the next reference; one that is gone is passed over.
Release ==
  LET r == CHOOSE x \in req.refs : TRUE
      here == IF r \in Dirs THEN host[r] # <<>> ELSE D \in held[r]
      d == IF r \in Dirs THEN Top(r) ELSE D IN
  /\ req.pc \in {"unmount", "errors"} /\ req.refs # {}
  /\ req' = [req EXCEPT !.refs = @ \ {r}]
  /\ IF here
     THEN /\ host' = IF r \in Dirs THEN Off(r) ELSE host
          /\ held' = IF r \in Apps THEN [held EXCEPT ![r] = @ \ {d}] ELSE held
          /\ open' \in {open, open \cup {d}}
          /\ hist' = [hist EXCEPT !.lazy = @ \cup {d}]
          /\ IF r \in Dirs THEN Changes ELSE UNCHANGED old
     ELSE UNCHANGED <<host, held, open, hist, old>>
  /\ UNCHANGED <<disk, fs, making, prefs, page, ops, bounds>>

\* It fails and the reference is still there: the others are detached all the same.
ReleaseFails ==
  /\ req.pc \in {"unmount", "errors"} /\ req.refs # {} /\ Fault
  /\ req' = [req EXCEPT !.pc = "errors", !.refs = @ \ {CHOOSE x \in req.refs : TRUE}]
  /\ UNCHANGED <<system, prefs, page, ops, old, hist>>

\* What was collected of errors is the answer.
Released ==
  /\ req.pc \in {"unmount", "errors"} /\ req.refs = {}
  /\ IF req.action = "format" /\ req.pc = "unmount" THEN Goes("recheck") ELSE Answers
  /\ UNCHANGED <<system, prefs, page, ops, old, hist, bounds>>

Recheck ==
  /\ req.pc = "recheck"
  /\ IF References(D) = {} THEN Goes("start") ELSE Answers
  /\ UNCHANGED <<system, prefs, page, ops, old, hist, bounds>>

FreeOps == {o \in Ops : ops[o].status = "none"}

NextOp == CHOOSE o \in FreeOps : \A x \in FreeOps : o <= x

\* create_volume_operation and the worker's start.
Start ==
  /\ req.pc = "start" /\ FreeOps # {}
  /\ ops' = [ops EXCEPT ![NextOp] = [NoOperation EXCEPT !.status = "running", !.action = req.action,
                !.node = req.node, !.seen = req.seen, !.type = req.type, !.pc = "begin"]]
  /\ old' = IF TheRequest \in old THEN Answered \cup {NextOp} ELSE Answered \ {NextOp}
  /\ Answers
  /\ UNCHANGED <<system, prefs, page, hist, bounds>>

\* The worker could not be started.
StartFails ==
  /\ req.pc = "start" /\ FreeOps # {} /\ Fault
  /\ ops' = [ops EXCEPT ![NextOp] = [NoOperation EXCEPT !.status = "failed", !.action = req.action,
                !.node = req.node, !.seen = req.seen, !.type = req.type]]
  /\ Answers
  /\ UNCHANGED <<system, prefs, page, old, hist>>

\* A command of the request has not answered in time; mount and umount may come
\* through all the same.
RequestTimesOut ==
  /\ req.pc \in {"mount", "umount", "remember"} /\ Fault
  /\ Answers
  /\ UNCHANGED <<system, prefs, page, ops, old, hist>>

-----------------------------------------------------------------------------
(* execute_volume_operation *)

Step(o, pc) == ops' = [ops EXCEPT ![o].pc = pc]

Ends(o, verdict) == ops' = [ops EXCEPT ![o].pc = "save", ![o].verdict = verdict]

DiskOf(o) == disk[ops[o].node]

Begin(o) ==
  /\ ops[o].pc = "begin"
  /\ Step(o, IF ops[o].action = "format" THEN "host" ELSE "run")
  /\ UNCHANGED <<system, prefs, page, req, old, hist, bounds>>

\* _prepare_format_target again, now without force.
WorkerChecksHost(o) ==
  /\ ops[o].pc = "host"
  /\ IF MountedOn(DiskOf(o)) # {} THEN Ends(o, "failed") ELSE Step(o, "refs")
  /\ UNCHANGED <<system, prefs, page, req, old, hist, bounds>>

WorkerCheckFails(o) ==
  /\ ops[o].pc = "host" /\ Fault
  /\ Step(o, "refs")
  /\ UNCHANGED <<system, prefs, page, req, old, hist>>

WorkerChecksReferences(o) ==
  /\ ops[o].pc = "refs"
  /\ \E some \in Found(DiskOf(o)) : IF some # {} THEN Ends(o, "failed") ELSE Step(o, "run")
  /\ UNCHANGED <<system, prefs, page, req, old, hist, bounds>>

\* The label command: it knows its own type of filesystem, ...
Labels(o) ==
  /\ ops[o].pc = "run" /\ ops[o].action = "label"
  /\ fs[DiskOf(o)].type # None /\ ops[o].type \in {fs[DiskOf(o)].type, None}

Labelled(o) ==
  [hist EXCEPT !.done = @ \cup {o}, !.wrong = @ \/ (o \notin old /\ fs[DiskOf(o)].id # ops[o].seen)]

Label(o) ==
  /\ ops[o].pc = "run" /\ ops[o].action = "label"
  /\ IF Labels(o)
     THEN Ends(o, "success") /\ hist' = Labelled(o)
     ELSE Ends(o, "failed") /\ UNCHANGED hist
  /\ UNCHANGED <<system, prefs, page, req, old, bounds>>

\* ... and fails, or has written the label but not answered in time.
LabelFails(o) ==
  /\ Labels(o) /\ Fault
  /\ Ends(o, "failed")
  /\ hist' \in {hist, [Labelled(o) EXCEPT !.slow = @ \cup {o}]}
  /\ UNCHANGED <<system, prefs, page, req, old>>

\* mkfs refuses a device that is in use, unless it is forced.
Refuses(o) == making[DiskOf(o)] # None \/ (InUse(DiskOf(o)) /\ ops[o].type \notin Forced)

Mkfs(o) ==
  LET d == DiskOf(o) IN
  /\ ops[o].pc = "run" /\ ops[o].action = "format"
  /\ IF Refuses(o)
     THEN Ends(o, "failed") /\ UNCHANGED <<fs, making, hist, old>>
     ELSE /\ Step(o, "wait")
          /\ making' = [making EXCEPT ![d] = o]
          /\ fs' = [fs EXCEPT ![d] = Blank]
          /\ hist' = [hist EXCEPT !.wiped = @ \cup {o},
                        !.harmed = IF InUse(d) THEN @ \cup {o} ELSE @,
                        !.late = IF d \in open /\ d \in hist.lazy THEN @ \cup {o} ELSE @,
                        !.wrong = @ \/ (o \notin old /\ fs[d].id # ops[o].seen)]
          /\ Changes
  /\ UNCHANGED <<disk, host, held, open, prefs, page, req, bounds>>

\* mkfs is done, ...
MkfsEnds(d) ==
  LET o == making[d] IN
  /\ o # None
  /\ making' = [making EXCEPT ![d] = None]
  /\ fs' = [fs EXCEPT ![d] = [id |-> o, type |-> ops[o].type]]
  /\ hist' = [hist EXCEPT !.done = @ \cup {o}]
  /\ ops' = IF ops[o].pc = "wait" THEN [ops EXCEPT ![o].pc = "save", ![o].verdict = "success"] ELSE ops
  /\ Changes
  /\ UNCHANGED <<disk, host, held, open, prefs, page, req, bounds>>

\* ... or fails on its way ...
MkfsFails(d) ==
  LET o == making[d] IN
  /\ o # None /\ Fault
  /\ making' = [making EXCEPT ![d] = None]
  /\ ops' = IF ops[o].pc = "wait" THEN [ops EXCEPT ![o].pc = "save", ![o].verdict = "failed"] ELSE ops
  /\ Changes
  /\ UNCHANGED <<disk, fs, host, held, open, prefs, page, req, hist>>

\* Mutant of TimedOut: what was not waited for is taken for done.
TimedOutDone == "success"

TimedOut == "failed"

\* ... or takes too long: only the command that entered the namespaces is killed.
MkfsTimesOut(o) ==
  /\ ops[o].pc = "wait" /\ Fault
  /\ Ends(o, TimedOut)
  /\ hist' = [hist EXCEPT !.slow = @ \cup {o}]
  /\ UNCHANGED <<system, prefs, page, req, old>>

Save(o) ==
  /\ ops[o].pc = "save"
  /\ ops' = [ops EXCEPT ![o].pc = "none", ![o].status = ops[o].verdict, ![o].verdict = "none"]
  /\ UNCHANGED <<system, prefs, page, req, old, hist, bounds>>

WorkerDies(o) ==
  /\ ops[o].pc # "none" /\ Fault
  /\ ops' = [ops EXCEPT ![o].pc = "none", ![o].verdict = "none"]
  /\ hist' = [hist EXCEPT !.dead = @ \cup {o}]
  /\ UNCHANGED <<system, prefs, page, req, old>>

-----------------------------------------------------------------------------
Users ==
  \/ \E d \in Disks, m \in Dirs : HostMounts(d, m)
  \/ \E m \in Dirs : HostUnmounts(m)
  \/ \E a \in Apps : AppStarts(a) \/ AppStops(a)
  \/ \E n, k \in Nodes : Replug(n, k)

Browser ==
  \/ ReadMounts \/ ReadVolumes \/ LsblkFails
  \/ PostMount \/ PostUnmount \/ PostRelease \/ PostFormat \/ PostLabel

Handler ==
  \/ Mount \/ Remember \/ Umount
  \/ CheckHost \/ CheckHostFails \/ CheckReferences \/ Release \/ ReleaseFails \/ Released \/ Recheck
  \/ Start \/ StartFails \/ RequestTimesOut

Worker(o) ==
  \/ Begin(o) \/ WorkerChecksHost(o) \/ WorkerCheckFails(o) \/ WorkerChecksReferences(o)
  \/ Label(o) \/ LabelFails(o) \/ Mkfs(o) \/ MkfsTimesOut(o) \/ Save(o) \/ WorkerDies(o)

Next ==
  \/ Users \/ Browser \/ Handler
  \/ \E o \in Ops : Worker(o)
  \/ \E d \in Disks : MkfsEnds(d) \/ MkfsFails(d)

Spec == Init /\ [][Next]_vars

-----------------------------------------------------------------------------
(* Properties *)

\* A volume that is in use is wiped only by a mkfs that is told to, and only if it
\* came into use after the worker had checked it, or was detached on request while
\* somebody had files open.
OnlyUnusedIsWiped ==
  \A o \in hist.harmed : ops[o].type \in Forced /\ o \in hist.late

\* What is labelled or wiped is what the page showed where the user pointed, and
\* what is unmounted was mounted there or over it, unless mounts or partitions have
\* changed since the page was read.
ActsOnWhatWasSeen == ~hist.wrong

\* What is wiped, labelled or unmounted is what was meant, and nobody was using it.
TouchesOnlyWhatWasMeant == OnlyUnusedIsWiped /\ ActsOnWhatWasSeen

\* A record that says success was carried out; one that says failed has left the
\* volume alone, unless mkfs failed half-way or the command was not waited for; one that says
\* running has a worker, unless it died.
RecordIsTrue ==
  \A o \in Ops :
    /\ ops[o].status = "success" => o \in hist.done
    /\ ops[o].status = "failed" /\ o \in hist.done => o \in hist.slow
    /\ ops[o].status = "failed" /\ o \in hist.wiped \ hist.slow => o \notin hist.done /\ faults > 0
    /\ ops[o].status = "running" /\ ops[o].pc = "none" => o \in hist.dead

\* A page lists every volume, mounted or not and not both, and an unmounted one
\* once, unless something has changed while it was read, or lsblk has failed.
ListedOnce ==
  page.pc = "ready" /\ ThePage \notin old =>
    \A n \in Nodes :
      /\ \E r \in page.rows : r.node = n
      /\ \A r, x \in page.rows : r.node = n /\ x.node = n /\ r # x => r.at # None /\ x.at # None

-----------------------------------------------------------------------------
(* What the code says of itself and does not keep: counterexamples in README. *)

\* "Formatting is available only for unmounted volumes."
FormatsUnmounted ==
  [][\A d \in Disks : making[d] = None /\ making'[d] # None => References(d) = {}]_vars
=============================================================================
