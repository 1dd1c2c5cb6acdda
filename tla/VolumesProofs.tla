---------------------------- MODULE VolumesProofs ----------------------------
(***************************************************************************)
(* What holds of the volumes page and its workers for any number of nodes, *)
(* mount points, namespaces, operations, acts of others and faults.        *)
(***************************************************************************)
EXTENDS Volumes, SequenceTheorems, FiniteSetTheorems, WellFoundedInduction, TLAPS

-----------------------------------------------------------------------------
(* The inductive invariant: types *)

\* Every partition has its node.
Placed == \A d \in Disks : \E n \in Nodes : disk[n] = d

DisksOK ==
  /\ disk \in [Nodes -> Disks] /\ IsInjective(disk) /\ Placed
  /\ fs \in [Disks -> Filesystem] /\ making \in [Disks -> Ops \cup {None}]
  /\ \A d \in Disks : (fs[d].id = None) <=> (fs[d].type = None)
  /\ \A d \in Disks : making[d] # None => fs[d] = Blank

HostOK == host \in [Dirs -> Seq(Disks)] /\ held \in [Apps -> SUBSET Disks] /\ open \subseteq Disks

PrefsOK == DOMAIN prefs \subseteq Ids \cup Nodes /\ \A k \in DOMAIN prefs : prefs[k] \in Dirs

PageOK == page \in Page /\ \A r \in page.rows : r.at # None => r.node # None

\* What the forms hold.
RequestOK ==
  /\ req \in Request
  /\ req.pc # "none" =>
       /\ req.node \in Nodes
       /\ req.pc \in {"mount", "again", "remember", "umount"} => req.at \in Dirs
       /\ req.action = "format" => req.type \in Types
       /\ req.pc = "umount" => req.action = "unmount"
       /\ req.pc = "recheck" => req.action = "format"
       /\ req.pc = "start" => req.action \in {"format", "label"}

\* What the records hold.
OperationOK(o) ==
  /\ ops[o].pc # "none" =>
       /\ ops[o].node \in Nodes /\ ops[o].status = "running"
       /\ ops[o].action \in {"format", "label"}
  /\ ops[o].pc \in {"host", "refs", "wait"} => ops[o].action = "format"
  /\ ops[o].action = "format" => ops[o].type \in Types

OpsOK == ops \in [Ops -> Operation] /\ \A o \in Ops : OperationOK(o)

BoundsOK == acts \in 0..MaxActs /\ outside \in 0..MaxOutside /\ faults \in 0..MaxFaults

RestOK == old \subseteq Readers /\ hist \in History /\ BoundsOK

Typed == DisksOK /\ HostOK /\ PrefsOK /\ PageOK /\ RequestOK /\ OpsOK /\ RestOK

-----------------------------------------------------------------------------
(* The inductive invariant: operations *)

\* A mkfs at work belongs to an operation that has begun to write and has not ended.
Making ==
  /\ \A d \in Disks : making[d] # None =>
       /\ making[d] \in hist.wiped \ hist.done
       /\ ops[making[d]].action = "format" /\ ops[making[d]].status # "none"
  /\ \A d, e \in Disks : making[d] # None /\ making[d] = making[e] => d = e

\* An operation that has not got to its command has touched nothing.
Untouched(o) ==
  ops[o].status = "none" \/ ops[o].pc \in {"begin", "host", "refs", "run"} =>
    o \notin hist.wiped \cup hist.done \cup hist.slow

\* A verdict is what came of the operation.
Says(o, verdict) ==
  /\ verdict = "success" => o \in hist.done
  /\ verdict = "failed" =>
       /\ o \in hist.done => o \in hist.slow
       /\ o \in hist.wiped \ hist.slow => faults > 0
       /\ \A d \in Disks : making[d] = o => o \in hist.slow

Recorded(o) ==
  /\ ops[o].pc = "wait" => o \notin hist.done \cup hist.slow
  /\ ops[o].pc = "save" => ops[o].verdict # "none" /\ Says(o, ops[o].verdict)
  /\ Says(o, ops[o].status)
  /\ ops[o].status = "running" /\ ops[o].pc = "none" => o \in hist.dead

Records ==
  /\ Making
  /\ \A o \in Ops : Untouched(o) /\ Recorded(o)
  /\ hist.harmed \subseteq hist.wiped /\ OnlyUnusedIsWiped

\* Whoever has checked a volume for a format knows of what it is used for since, and
\* what is still open has been detached.
Checked(o) ==
  ops[o].pc = "run" /\ ops[o].action = "format" /\ References(DiskOf(o)) # {} => o \in hist.late

Watched == (\A o \in Ops : Checked(o)) /\ open \subseteq hist.lazy

-----------------------------------------------------------------------------
(* The inductive invariant: what has been seen *)

\* A row shows what is there.
Shown(r) ==
  r.node # None =>
    /\ r.id = fs[disk[r.node]].id
    /\ r.at # None => disk[r.node] \in Range(host[r.at])

PageSeen ==
  /\ page.pc = "half" /\ ThePage \notin old =>
       \A x \in page.first : x[2] \in MountedOn(disk[x[1]])
  /\ page.pc = "ready" /\ ThePage \notin old => \A r \in page.rows : Shown(r)

RequestSeen ==
  req.pc # "none" /\ TheRequest \notin old =>
    /\ req.action \in {"format", "label"} => req.seen = fs[D].id
    /\ req.pc = "umount" => D \in Range(host[req.at])

OperationSeen(o) == ops[o].pc # "none" /\ o \notin old => ops[o].seen = fs[DiskOf(o)].id

\* Of what has not changed since, pages, requests and operations have seen what is so.
Views ==
  /\ PageSeen /\ RequestSeen /\ \A o \in Ops : OperationSeen(o)
  /\ ActsOnWhatWasSeen /\ ListedOnce

IInv == Typed /\ Records /\ Watched /\ Views

-----------------------------------------------------------------------------
(* Numbers, and names that are none *)

LEMMA Numbers ==
  /\ Ops \subseteq Nat \ {0} /\ Disks \subseteq Nat \ {0} /\ Disks \cap Ops = {}
  /\ None = 0 /\ None \notin Nodes \cup Dirs \cup Types \cup Ids
  /\ ThePage \notin Ops /\ TheRequest \notin Ops /\ ThePage # TheRequest
  /\ Nodes \cap Ids = {}
  BY DisksAssumption, BoundsAssumption DEF Ops, None, ThePage, TheRequest, Ids

\* A fault, an act, or nothing.
LEMMA BoundsMove ==
  ASSUME BoundsOK,
         \/ Fault \/ Outside \/ UNCHANGED bounds
         \/ acts < MaxActs /\ acts' = acts + 1 /\ UNCHANGED <<outside, faults>>
  PROVE  BoundsOK' /\ faults <= faults' /\ (Fault => faults' > 0)
  BY BoundsAssumption DEF BoundsOK, Fault, Outside, bounds

\* What is mounted over one directory.
LEMMA Stack ==
  ASSUME NEW s \in Seq(Disks), NEW d \in Disks
  PROVE  /\ Append(s, d) \in Seq(Disks) /\ Range(Append(s, d)) = Range(s) \cup {d}
         /\ Range(s) \subseteq Disks
         /\ s # << >> =>
              /\ Front(s) \in Seq(Disks) /\ Range(Front(s)) \subseteq Range(s)
              /\ Last(s) \in Range(s) /\ Head(s) \in Range(s)
<1>1. Len(s) \in Nat /\ DOMAIN s = 1..Len(s) /\ \A i \in 1..Len(s) : s[i] \in Disks
  BY LenProperties, ElementOfSeq
<1>2. /\ Append(s, d) \in Seq(Disks) /\ Len(Append(s, d)) = Len(s) + 1
      /\ DOMAIN Append(s, d) = 1..(Len(s) + 1)
      /\ \A i \in 1..Len(s) : Append(s, d)[i] = s[i]
      /\ Append(s, d)[Len(s) + 1] = d
  BY AppendProperties, LenProperties
<1>3. Range(Append(s, d)) = Range(s) \cup {d}
  BY <1>1, <1>2 DEF Range
<1>4. Range(s) \subseteq Disks
  BY <1>1 DEF Range
<1>5. ASSUME s # << >>
      PROVE  /\ Front(s) \in Seq(Disks) /\ Range(Front(s)) \subseteq Range(s)
             /\ Last(s) \in Range(s) /\ Head(s) \in Range(s)
  <2>1. Len(s) >= 1
    BY <1>1, <1>5, EmptySeq
  <2>2. Last(s) \in Range(s) /\ Head(s) \in Range(s)
    BY <1>1, <2>1, <1>5, HeadTailProperties DEF Last, Range
  <2>3. /\ Front(s) \in Seq(Disks) /\ DOMAIN Front(s) = 1..(Len(s) - 1)
        /\ \A i \in 1..(Len(s) - 1) : Front(s)[i] = s[i]
    BY <1>1, <2>1, SubSeqProperties DEF Front
  <2>4. Range(Front(s)) \subseteq Range(s)
    BY <1>1, <2>3 DEF Range
  <2>5. QED
    BY <2>2, <2>3, <2>4
<1>6. QED
  BY <1>2, <1>3, <1>4, <1>5

-----------------------------------------------------------------------------
(* Types: pieces *)

LEMMA NodeIsThere ==
  ASSUME DisksOK, NEW d \in Disks
  PROVE  NodeOf(d) \in Nodes /\ disk[NodeOf(d)] = d
  BY DEF DisksOK, Placed, NodeOf

\* A mount and an unmount.
LEMMA HostMoves ==
  ASSUME HostOK, NEW d \in Disks, NEW m \in Dirs
  PROVE  /\ On(m, d) \in [Dirs -> Seq(Disks)]
         /\ \A x \in Dirs : Range(On(m, d)[x]) = IF x = m THEN Range(host[x]) \cup {d} ELSE Range(host[x])
         /\ host[m] # << >> =>
              /\ Off(m) \in [Dirs -> Seq(Disks)] /\ Top(m) \in Disks /\ Top(m) \in Range(host[m])
              /\ \A x \in Dirs : Range(Off(m)[x]) \subseteq Range(host[x])
<1>1. host[m] \in Seq(Disks) /\ host \in [Dirs -> Seq(Disks)]
  BY DEF HostOK
<1>2. /\ Append(host[m], d) \in Seq(Disks) /\ Range(Append(host[m], d)) = Range(host[m]) \cup {d}
      /\ Range(host[m]) \subseteq Disks
      /\ host[m] # << >> =>
           /\ Front(host[m]) \in Seq(Disks) /\ Range(Front(host[m])) \subseteq Range(host[m])
           /\ Last(host[m]) \in Range(host[m])
  BY <1>1, Stack
<1>3. On(m, d) \in [Dirs -> Seq(Disks)]
  BY <1>1, <1>2 DEF On
<1>4. \A x \in Dirs : Range(On(m, d)[x]) = IF x = m THEN Range(host[x]) \cup {d} ELSE Range(host[x])
  BY <1>1, <1>2 DEF On
<1>5. ASSUME host[m] # << >>
      PROVE  /\ Off(m) \in [Dirs -> Seq(Disks)] /\ Top(m) \in Disks /\ Top(m) \in Range(host[m])
             /\ \A x \in Dirs : Range(Off(m)[x]) \subseteq Range(host[x])
  BY <1>1, <1>2, <1>5 DEF Off, Top
<1>6. QED
  BY <1>3, <1>4, <1>5

\* One more entry in the history.
LEMMA HistoryMoves ==
  ASSUME hist \in History, NEW S \in SUBSET Ops
  PROVE  /\ [hist EXCEPT !.late = @ \cup S] \in History
         /\ [hist EXCEPT !.done = @ \cup S] \in History
         /\ [hist EXCEPT !.slow = @ \cup S] \in History
         /\ [hist EXCEPT !.dead = @ \cup S] \in History
  BY DEF History

LEMMA ChangesTyped ==
  ASSUME Changes
  PROVE  old' \subseteq Readers
  BY DEF Changes

LEMMA LateAreOps ==
  ASSUME NEW d
  PROVE  Late(d) \subseteq Ops
  BY DEF Late

-----------------------------------------------------------------------------
(* Types: the users of the host *)

LEMMA ReplugTyped ==
  ASSUME DisksOK, NEW n \in Nodes, NEW k \in Nodes, Replug(n, k)
  PROVE  /\ DisksOK'
         /\ n # k /\ disk'[n] = disk[k] /\ disk'[k] = disk[n]
         /\ \A x \in Nodes : x # n /\ x # k => disk'[x] = disk[x]
<1>1. /\ n # k /\ disk' = [disk EXCEPT ![n] = disk[k], ![k] = disk[n]] /\ UNCHANGED <<fs, making>>
  BY DEF Replug
<1>2. disk \in [Nodes -> Disks] /\ IsInjective(disk) /\ Placed
  BY DEF DisksOK
<1>3. disk' \in [Nodes -> Disks]
  BY <1>1, <1>2
<1>4. /\ disk'[n] = disk[k] /\ disk'[k] = disk[n]
      /\ \A x \in Nodes : x # n /\ x # k => disk'[x] = disk[x]
  BY <1>1, <1>2
<1>5. \A x, y \in Nodes : disk[x] = disk[y] => x = y
  BY <1>2 DEF IsInjective
<1>6. \A x, y \in Nodes : disk'[x] = disk'[y] => x = y
  <2>1. SUFFICES ASSUME NEW x \in Nodes, NEW y \in Nodes, disk'[x] = disk'[y]
                 PROVE  x = y
    OBVIOUS
  <2>2. CASE x = n
    BY <2>1, <2>2, <1>4, <1>5
  <2>3. CASE x = k
    BY <2>1, <2>3, <1>4, <1>5
  <2>4. CASE x # n /\ x # k
    BY <2>1, <2>4, <1>4, <1>5
  <2>5. QED
    BY <2>2, <2>3, <2>4
<1>7. IsInjective(disk')
  BY <1>3, <1>6 DEF IsInjective
<1>8. Placed'
  <2>1. SUFFICES ASSUME NEW d \in Disks
                 PROVE  \E x \in Nodes : disk'[x] = d
    BY DEF Placed
  <2>2. PICK y \in Nodes : disk[y] = d
    BY <1>2 DEF Placed
  <2>3. CASE y = n
    BY <2>2, <2>3, <1>4
  <2>4. CASE y = k
    BY <2>2, <2>4, <1>4
  <2>5. CASE y # n /\ y # k
    BY <2>2, <2>5, <1>4
  <2>6. QED
    BY <2>3, <2>4, <2>5
<1>9. QED
  BY <1>1, <1>3, <1>4, <1>7, <1>8 DEF DisksOK

LEMMA UsersTyped ==
  ASSUME Typed, Users
  PROVE  Typed'
<1>1. DisksOK /\ HostOK /\ PrefsOK /\ PageOK /\ RequestOK /\ OpsOK /\ RestOK /\ BoundsOK
  BY DEF Typed, RestOK
<1>2. hist \in History /\ old \subseteq Readers
  BY <1>1 DEF RestOK
<1>3. ASSUME NEW d \in Disks, NEW m \in Dirs, HostMounts(d, m)
      PROVE  Typed'
  <2>1. /\ host' = On(m, d) /\ hist' = [hist EXCEPT !.late = @ \cup Late(d)] /\ Changes /\ Outside
        /\ UNCHANGED <<disk, fs, making, held, open, prefs, page, req, ops>>
    BY <1>3 DEF HostMounts
  <2>2. HostOK'
    BY <1>1, <2>1, HostMoves DEF HostOK
  <2>3. BoundsOK'
    BY <1>1, <2>1, BoundsMove
  <2>4. hist' \in History
    BY <1>2, <2>1, HistoryMoves, LateAreOps
  <2>5. RestOK'
    BY <2>1, <2>3, <2>4, ChangesTyped DEF RestOK
  <2>6. DisksOK' /\ PrefsOK' /\ PageOK' /\ RequestOK' /\ OpsOK'
    BY <1>1, <2>1 DEF DisksOK, Placed, PrefsOK, PageOK, RequestOK, OpsOK, OperationOK
  <2>7. QED
    BY <2>2, <2>5, <2>6 DEF Typed
<1>4. ASSUME NEW m \in Dirs, HostUnmounts(m)
      PROVE  Typed'
  <2>1. /\ host[m] # << >> /\ host' = Off(m) /\ Changes /\ Outside
        /\ UNCHANGED <<disk, fs, making, held, open, prefs, page, req, ops, hist>>
    BY <1>4 DEF HostUnmounts
  <2>2. Disks # {}
    BY <1>1, <2>1, DisksAssumption DEF DisksOK
  <2>3. HostOK'
    BY <1>1, <2>1, <2>2, HostMoves DEF HostOK
  <2>4. BoundsOK'
    BY <1>1, <2>1, BoundsMove
  <2>5. RestOK'
    BY <1>2, <2>1, <2>4, ChangesTyped DEF RestOK
  <2>6. DisksOK' /\ PrefsOK' /\ PageOK' /\ RequestOK' /\ OpsOK'
    BY <1>1, <2>1 DEF DisksOK, Placed, PrefsOK, PageOK, RequestOK, OpsOK, OperationOK
  <2>7. QED
    BY <2>3, <2>5, <2>6 DEF Typed
<1>5. ASSUME NEW a \in Apps, AppStarts(a) \/ AppStops(a)
      PROVE  Typed'
  <2>1. /\ UNCHANGED <<disk, fs, making, host, prefs, page, req, ops, old, hist>>
        /\ Outside \/ UNCHANGED bounds
    BY <1>5 DEF AppStarts, AppStops
  <2>2. UNION {Range(host[m]) : m \in Dirs} \subseteq Disks
    <3>1. \A m \in Dirs : host[m] \in Seq(Disks)
      BY <1>1 DEF HostOK
    <3>2. \A m \in Dirs : \A i \in DOMAIN host[m] : host[m][i] \in Disks
      BY <3>1, ElementOfSeq, LenProperties
    <3>3. QED
      BY <3>2 DEF Range
  <2>3. HostOK'
    BY <1>1, <1>5, <2>1, <2>2 DEF HostOK, AppStarts, AppStops
  <2>4. BoundsOK'
    BY <1>1, <2>1, BoundsMove
  <2>5. RestOK'
    BY <1>2, <2>1, <2>4 DEF RestOK
  <2>6. DisksOK' /\ PrefsOK' /\ PageOK' /\ RequestOK' /\ OpsOK'
    BY <1>1, <2>1 DEF DisksOK, Placed, PrefsOK, PageOK, RequestOK, OpsOK, OperationOK
  <2>7. QED
    BY <2>3, <2>5, <2>6 DEF Typed
<1>6. ASSUME NEW n \in Nodes, NEW k \in Nodes, Replug(n, k)
      PROVE  Typed'
  <2>1. /\ Changes /\ Outside
        /\ UNCHANGED <<fs, making, host, held, open, prefs, page, req, ops, hist>>
    BY <1>6 DEF Replug
  <2>2. DisksOK'
    BY <1>1, <1>6, ReplugTyped
  <2>3. BoundsOK'
    BY <1>1, <2>1, BoundsMove
  <2>4. RestOK'
    BY <1>2, <2>1, <2>3, ChangesTyped DEF RestOK
  <2>5. HostOK' /\ PrefsOK' /\ PageOK' /\ RequestOK' /\ OpsOK'
    BY <1>1, <2>1 DEF HostOK, PrefsOK, PageOK, RequestOK, OpsOK, OperationOK
  <2>6. QED
    BY <2>2, <2>4, <2>5 DEF Typed
<1>7. QED
  BY <1>3, <1>4, <1>5, <1>6 DEF Users

-----------------------------------------------------------------------------
(* Types: the page *)

\* A row is one of a volume that lsblk lists, or of a device that it does not.
LEMMA RowTyped ==
  ASSUME DisksOK, PrefsOK, NEW m \in Dirs \cup {None}
  PROVE  /\ \A n \in Nodes, app \in BOOLEAN :
              /\ Listed(n, m, app) \in Row
              /\ Listed(n, m, app).node = n /\ Listed(n, m, app).at = m
              /\ Listed(n, m, app).id = fs[disk[n]].id
         /\ \A n \in Nodes \cup {None} :
              /\ FromDevices(n, m) \in Row
              /\ FromDevices(n, m).node = n /\ FromDevices(n, m).at = m
              /\ FromDevices(n, m).id = None
<1>1. \A id, n : Suggested(id, n) \in Dirs \cup {None}
  BY DEF PrefsOK, Suggested
<1>2. \A n \in Nodes : fs[disk[n]].id \in Ids \cup {None} /\ fs[disk[n]].type \in Types \cup {None}
  BY DEF DisksOK, Filesystem
<1>3. ASSUME NEW n \in Nodes, NEW app \in BOOLEAN
      PROVE  /\ Listed(n, m, app) \in Row
             /\ Listed(n, m, app).node = n /\ Listed(n, m, app).at = m
             /\ Listed(n, m, app).id = fs[disk[n]].id
  BY <1>1, <1>2 DEF Listed, Row
<1>4. ASSUME NEW n \in Nodes \cup {None}
      PROVE  /\ FromDevices(n, m) \in Row
             /\ FromDevices(n, m).node = n /\ FromDevices(n, m).at = m
             /\ FromDevices(n, m).id = None
  BY <1>1 DEF FromDevices, Row
<1>5. QED
  BY <1>3, <1>4

\* What disk_devices finds.
LEMMA ReadMountsTyped ==
  ASSUME DisksOK, HostOK, ReadMounts
  PROVE  PageOK'
<1> DEFINE F == {<<NodeOf(Head(host[m])), m>> : m \in {x \in Dirs : host[x] # <<>>}}
           I == {<<IF \E d \in Disks : fs[d].id = x[1]
                     THEN NodeOf(CHOOSE d \in Disks : fs[d].id = x[1]) ELSE None, x[2]>> :
                   x \in {y \in Fstab : host[y[2]] = <<>>}}
<1>1. page' = [pc |-> "half", rows |-> {}, first |-> F, idle |-> I]
  BY DEF ReadMounts
<1>2. F \subseteq Nodes \X Dirs
  <2>1. SUFFICES ASSUME NEW m \in Dirs, host[m] # << >>
                 PROVE  NodeOf(Head(host[m])) \in Nodes
    OBVIOUS
  <2>2. host[m] \in Seq(Disks)
    BY DEF HostOK
  <2>3. Head(host[m]) \in Disks
    BY <2>1, <2>2, HeadTailProperties
  <2>4. QED
    BY <2>3, NodeIsThere
<1>3. I \subseteq (Nodes \cup {None}) \X Dirs
  <2>1. SUFFICES ASSUME NEW x \in Fstab
                 PROVE  /\ (IF \E d \in Disks : fs[d].id = x[1]
                              THEN NodeOf(CHOOSE d \in Disks : fs[d].id = x[1]) ELSE None)
                             \in Nodes \cup {None}
                        /\ x[2] \in Dirs
    OBVIOUS
  <2>2. x[2] \in Dirs
    BY DisksAssumption
  <2>3. ASSUME \E d \in Disks : fs[d].id = x[1]
        PROVE  NodeOf(CHOOSE d \in Disks : fs[d].id = x[1]) \in Nodes
    <3>1. (CHOOSE d \in Disks : fs[d].id = x[1]) \in Disks
      BY <2>3
    <3>2. QED
      BY <3>1, NodeIsThere
  <2>4. QED
    BY <2>2, <2>3
<1> HIDE DEF F, I
<1>4. page'.rows = {} /\ page' \in Page
  BY <1>1, <1>2, <1>3 DEF Page
<1>5. QED
  BY <1>4 DEF PageOK

\* The parts of the page: volumes that are mounted, those that only disk_devices has
\* found, those that are not mounted, and automounts.
MountedRows(seen) ==
  {r \in {Listed(n, m, FALSE) : n \in seen, m \in Dirs} : r.at \in MountedOn(disk[r.node])}

DeviceRows(seen) ==
  {FromDevices(x[1], x[2]) : x \in {y \in page.first :
     \A n \in seen : y[2] \notin MountedOn(disk[n])}}

IdleRows(seen) ==
  {Listed(n, None, \E a \in Apps : disk[n] \in held[a]) : n \in {x \in seen : MountedOn(disk[x]) = {}}}

AutoRows(seen) == {FromDevices(n, None) : n \in Idle(seen)}

LEMMA RowsParts ==
  ASSUME NEW seen
  PROVE  ReadRows(seen) =
           MountedRows(seen) \cup DeviceRows(seen) \cup Deduped(IdleRows(seen) \cup AutoRows(seen))
  BY DEF ReadRows, MountedRows, DeviceRows, IdleRows, AutoRows

\* What the rows of each part hold.
LEMMA RowsOfParts ==
  ASSUME DisksOK, PrefsOK, page \in Page, NEW seen \in SUBSET Nodes
  PROVE  /\ \A r \in MountedRows(seen) :
              /\ r \in Row /\ r.node \in seen /\ r.at \in MountedOn(disk[r.node])
              /\ r.id = fs[disk[r.node]].id
         /\ \A r \in DeviceRows(seen) :
              /\ r \in Row /\ r.id = None
              /\ <<r.node, r.at>> \in page.first /\ \A n \in seen : r.at \notin MountedOn(disk[n])
         /\ \A r \in IdleRows(seen) :
              /\ r \in Row /\ r.node \in seen /\ r.at = None /\ MountedOn(disk[r.node]) = {}
              /\ r.id = fs[disk[r.node]].id
         /\ \A r \in AutoRows(seen) :
              r \in Row /\ r.id = None /\ r.at = None /\ r.node \in (Nodes \cup {None}) \ seen
<1>1. ASSUME NEW r \in MountedRows(seen)
      PROVE  /\ r \in Row /\ r.node \in seen /\ r.at \in MountedOn(disk[r.node])
             /\ r.id = fs[disk[r.node]].id
  <2>1. r.at \in MountedOn(disk[r.node])
    BY <1>1 DEF MountedRows
  <2> DEFINE L(n, m) == Listed(n, m, FALSE)
  <2>2. MountedRows(seen) =
          {x \in {L(n, m) : n \in seen, m \in Dirs} : x.at \in MountedOn(disk[x.node])}
    BY DEF MountedRows
  <2>3. \A n \in Nodes, m \in Dirs :
          L(n, m) \in Row /\ L(n, m).node = n /\ L(n, m).id = fs[disk[n]].id
    BY RowTyped, ZenonT(60)
  <2> HIDE DEF L
  <2>4. \E n \in seen, m \in Dirs : r = L(n, m)
    BY <1>1, <2>2
  <2>5. QED
    BY <2>1, <2>3, <2>4
<1>2. ASSUME NEW r \in DeviceRows(seen)
      PROVE  /\ r \in Row /\ r.id = None
             /\ <<r.node, r.at>> \in page.first /\ \A n \in seen : r.at \notin MountedOn(disk[n])
  <2>1. PICK x \in page.first : /\ \A n \in seen : x[2] \notin MountedOn(disk[n])
                                /\ r = FromDevices(x[1], x[2])
    BY <1>2 DEF DeviceRows
  <2>2. x \in Nodes \X Dirs
    BY DEF Page
  <2>3. x[1] \in Nodes /\ x[2] \in Dirs /\ x = <<x[1], x[2]>>
    BY <2>2
  <2>4. r \in Row /\ r.id = None /\ r.node = x[1] /\ r.at = x[2]
    BY <2>1, <2>3, RowTyped
  <2>5. QED
    BY <2>1, <2>3, <2>4
<1>3. ASSUME NEW r \in IdleRows(seen)
      PROVE  /\ r \in Row /\ r.node \in seen /\ r.at = None /\ MountedOn(disk[r.node]) = {}
             /\ r.id = fs[disk[r.node]].id
  <2>1. PICK n \in seen : /\ MountedOn(disk[n]) = {}
                          /\ r = Listed(n, None, \E a \in Apps : disk[n] \in held[a])
    BY <1>3 DEF IdleRows
  <2>2. PICK app \in BOOLEAN : r = Listed(n, None, app)
    BY <2>1
  <2>3. r \in Row /\ r.node = n /\ r.at = None /\ r.id = fs[disk[n]].id
    BY <2>2, RowTyped
  <2>4. QED
    BY <2>1, <2>3
<1>4. ASSUME NEW r \in AutoRows(seen)
      PROVE  r \in Row /\ r.id = None /\ r.at = None /\ r.node \in (Nodes \cup {None}) \ seen
  <2>1. PICK n \in Idle(seen) : r = FromDevices(n, None)
    BY <1>4 DEF AutoRows
  <2>2. n \in (Nodes \cup {None}) \ seen
    BY <2>1 DEF Idle, Page
  <2>3. QED
    BY <2>1, <2>2, RowTyped
<1>5. QED
  BY <1>1, <1>2, <1>3, <1>4

LEMMA ReadRowsTyped ==
  ASSUME DisksOK, PrefsOK, page \in Page, NEW seen \in SUBSET Nodes
  PROVE  /\ ReadRows(seen) \subseteq Row
         /\ \A r \in ReadRows(seen) : r.at # None => r.node # None
<1>1. ASSUME NEW r \in ReadRows(seen)
      PROVE  r \in MountedRows(seen) \cup DeviceRows(seen) \cup IdleRows(seen) \cup AutoRows(seen)
  BY <1>1, RowsParts DEF Deduped
<1>2. page.first \subseteq Nodes \X Dirs
  BY DEF Page
<1>3. \A r \in DeviceRows(seen) : r.node \in Nodes
  <2>1. ASSUME NEW r \in DeviceRows(seen)
        PROVE  <<r.node, r.at>> \in Nodes \X Dirs
    BY <1>2, <2>1, RowsOfParts
  <2>2. QED
    BY <2>1
<1>4. ASSUME NEW r \in ReadRows(seen)
      PROVE  r \in Row /\ (r.at # None => r.node # None)
  <2>1. None \notin Nodes
    BY Numbers
  <2>2. CASE r \in MountedRows(seen)
    <3>1. \A x \in MountedRows(seen) : x \in Row /\ x.node \in seen
      BY RowsOfParts
    <3>2. QED
      BY <2>1, <2>2, <3>1
  <2>3. CASE r \in DeviceRows(seen)
    <3>1. \A x \in DeviceRows(seen) : x \in Row
      BY RowsOfParts
    <3>2. QED
      BY <2>1, <2>3, <3>1, <1>3
  <2>4. CASE r \in IdleRows(seen) \cup AutoRows(seen)
    <3>1. \A x \in IdleRows(seen) \cup AutoRows(seen) : x \in Row /\ x.at = None
      BY RowsOfParts
    <3>2. QED
      BY <2>4, <3>1
  <2>5. QED
    BY <1>1, <1>4, <2>2, <2>3, <2>4
<1>5. QED
  BY <1>4

LEMMA ReadsTyped ==
  ASSUME Typed, ReadMounts \/ ReadVolumes \/ LsblkFails
  PROVE  Typed'
<1>1. DisksOK /\ HostOK /\ PrefsOK /\ PageOK /\ RequestOK /\ OpsOK /\ RestOK /\ BoundsOK
  BY DEF Typed, RestOK
<1>2. /\ UNCHANGED <<system, prefs, req, ops, hist>> /\ (Fault \/ UNCHANGED bounds)
      /\ old' \in {old, old \cup {ThePage}, old \ {ThePage}}
  BY DEF ReadMounts, ReadVolumes, LsblkFails
<1>3. PageOK'
  <2>1. CASE ReadMounts
    BY <1>1, <2>1, ReadMountsTyped
  <2>2. CASE ReadVolumes \/ LsblkFails
    <3>1. PICK seen \in SUBSET Nodes :
            page' = [pc |-> "ready", first |-> {}, idle |-> {}, rows |-> ReadRows(seen)]
      BY <2>2 DEF ReadVolumes, LsblkFails
    <3>2. page \in Page
      BY <1>1 DEF PageOK
    <3>3. ReadRows(seen) \subseteq Row /\ \A r \in ReadRows(seen) : r.at # None => r.node # None
      BY <1>1, <3>2, ReadRowsTyped
    <3>4. page' \in Page /\ page'.rows = ReadRows(seen)
      BY <3>1, <3>3 DEF Page
    <3>5. QED
      BY <3>3, <3>4 DEF PageOK
  <2>3. QED
    BY <2>1, <2>2
<1>4. BoundsOK'
  BY <1>1, <1>2, BoundsMove
<1>5. RestOK'
  BY <1>1, <1>2, <1>4 DEF RestOK, Readers
<1>6. DisksOK' /\ HostOK' /\ PrefsOK' /\ RequestOK' /\ OpsOK'
  BY <1>1, <1>2 DEF system, DisksOK, Placed, HostOK, PrefsOK, RequestOK, OpsOK, OperationOK
<1>7. QED
  BY <1>3, <1>5, <1>6 DEF Typed

-----------------------------------------------------------------------------
(* Types: the forms *)

Post == PostMount \/ PostUnmount \/ PostRelease \/ PostFormat \/ PostLabel

LEMMA FormTyped ==
  ASSUME NEW action \in Actions, NEW pc \in {"mount", "umount", "host", "start"}, NEW row \in Row
  PROVE  /\ Form(action, pc, row) \in Request
         /\ Form(action, pc, row).action = action /\ Form(action, pc, row).pc = pc
         /\ Form(action, pc, row).node = row.node /\ Form(action, pc, row).seen = row.id
         /\ Form(action, pc, row).type = row.type /\ Form(action, pc, row).at = row.at
<1>1. NoRequest \in Request
  BY DEF NoRequest, Request, Actions
<1>2. /\ row.node \in Nodes \cup {None} /\ row.id \in Ids \cup {None} /\ row.type \in Types \cup {None}
      /\ row.at \in Dirs \cup {None}
  BY DEF Row
<1>3. pc \in {"none", "mount", "again", "remember", "umount", "host", "refs", "unmount", "errors",
               "recheck", "start"}
  OBVIOUS
<1>4. Form(action, pc, row) \in Request
  BY <1>1, <1>2, <1>3, ZenonT(60) DEF Form, Request
<1>5. /\ Form(action, pc, row).action = action /\ Form(action, pc, row).pc = pc
      /\ Form(action, pc, row).node = row.node /\ Form(action, pc, row).seen = row.id
      /\ Form(action, pc, row).type = row.type /\ Form(action, pc, row).at = row.at
  BY DEF Form, NoRequest
<1>6. QED
  BY <1>4, <1>5

\* What the forms of the page add.
LEMMA FormAt ==
  ASSUME NEW r \in Request, NEW m \in Dirs \cup {None}
  PROVE  /\ [r EXCEPT !.at = m] \in Request
         /\ [r EXCEPT !.at = m].action = r.action /\ [r EXCEPT !.at = m].pc = r.pc
         /\ [r EXCEPT !.at = m].node = r.node /\ [r EXCEPT !.at = m].seen = r.seen
         /\ [r EXCEPT !.at = m].at = m
  BY DEF Request

LEMMA FormForce ==
  ASSUME NEW r \in Request, NEW force \in BOOLEAN
  PROVE  /\ [r EXCEPT !.force = force] \in Request
         /\ [r EXCEPT !.force = force].action = r.action /\ [r EXCEPT !.force = force].pc = r.pc
         /\ [r EXCEPT !.force = force].node = r.node /\ [r EXCEPT !.force = force].seen = r.seen
         /\ [r EXCEPT !.force = force].at = r.at /\ [r EXCEPT !.force = force].type = r.type
  BY DEF Request

\* What has been posted is of a row of the page, and holds what it shows.
LEMMA Posted ==
  ASSUME PageOK, Post
  PROVE  \E row \in page.rows :
           /\ page.pc = "ready" /\ row.node \in Nodes
           /\ page' = NoPage
           /\ old' = IF ThePage \in old THEN (old \ {ThePage}) \cup {TheRequest} ELSE old \ {TheRequest}
           /\ acts < MaxActs /\ acts' = acts + 1 /\ UNCHANGED <<outside, faults>>
           /\ UNCHANGED <<system, prefs, ops, hist>>
           /\ req' \in Request /\ req'.node = row.node /\ req'.pc # "none"
           /\ \/ req'.action = "mount" /\ req'.pc = "mount" /\ req'.at \in Dirs
              \/ /\ req'.action = "unmount" /\ req'.pc = "umount"
                 /\ req'.at = row.at /\ row.at # None
              \/ req'.action = "release" /\ req'.pc = "host"
              \/ /\ req'.action = "format" /\ req'.pc = "host" /\ req'.type \in Types
                 /\ req'.seen = row.id
              \/ req'.action = "label" /\ req'.pc = "start" /\ req'.seen = row.id
<1> DEFINE Done(r) == /\ page.pc = "ready" /\ page' = NoPage
                      /\ old' = IF ThePage \in old THEN (old \ {ThePage}) \cup {TheRequest}
                                ELSE old \ {TheRequest}
                      /\ acts < MaxActs /\ acts' = acts + 1 /\ UNCHANGED <<outside, faults>>
                      /\ UNCHANGED <<system, prefs, ops, hist>>
                      /\ req' = r
<1>1. \A r : Posts(r) => Done(r)
  BY DEF Posts
<1>2. page.rows \subseteq Row /\ \A r \in page.rows : r.at # None => r.node # None
  BY DEF PageOK, Page
<1>3. \A r \in Row : r.node # None => r.node \in Nodes
  BY DEF Row
<1> HIDE DEF Done
<1>4. CASE PostMount
  <2>1. PICK row \in Unmounted, m \in Dirs :
          Done([Form("mount", "mount", row) EXCEPT !.at = m])
    BY <1>1, <1>4 DEF PostMount
  <2>2. row \in page.rows /\ row \in Row /\ row.node \in Nodes
    BY <1>2, <1>3, <2>1 DEF Unmounted
  <2>3. row.at \in Dirs \cup {None} /\ row.id \in Ids \cup {None}
    BY <2>2 DEF Row
  <2> DEFINE f == Form("mount", "mount", row)
             g == [f EXCEPT !.at = m]
  <2>4. /\ f \in Request /\ f.action = "mount" /\ f.pc = "mount"
        /\ f.node = row.node /\ f.seen = row.id /\ f.at = row.at
    BY <2>2, FormTyped DEF Actions
  <2> HIDE DEF f
  <2>5. /\ g \in Request /\ g.action = "mount" /\ g.pc = "mount"
        /\ g.node = row.node /\ g.at = m
    BY <2>1, <2>3, <2>4, FormAt
  <2> HIDE DEF g
  <2>6. Done(g)
    BY <2>1 DEF f, g
  <2>7. QED
    BY <2>2, <2>5, <2>6 DEF Done
<1>5. CASE PostUnmount
  <2>1. PICK row \in Mounted, force \in BOOLEAN :
          Done([Form("unmount", "umount", row) EXCEPT !.force = force])
    BY <1>1, <1>5 DEF PostUnmount
  <2>2. row \in page.rows /\ row \in Row /\ row.node \in Nodes /\ row.at # None
    BY <1>2, <1>3, <2>1 DEF Mounted
  <2>3. row.at \in Dirs \cup {None} /\ row.id \in Ids \cup {None}
    BY <2>2 DEF Row
  <2> DEFINE f == Form("unmount", "umount", row)
             g == [f EXCEPT !.force = force]
  <2>4. /\ f \in Request /\ f.action = "unmount" /\ f.pc = "umount"
        /\ f.node = row.node /\ f.seen = row.id /\ f.at = row.at
    BY <2>2, FormTyped DEF Actions
  <2> HIDE DEF f
  <2>5. /\ g \in Request /\ g.action = "unmount" /\ g.pc = "umount"
        /\ g.node = row.node /\ g.at = row.at
    BY <2>1, <2>3, <2>4, FormForce
  <2> HIDE DEF g
  <2>6. Done(g)
    BY <2>1 DEF f, g
  <2>7. QED
    BY <2>2, <2>5, <2>6 DEF Done
<1>6. CASE PostRelease
  <2>1. PICK row \in Unmounted :
          Done([Form("release", "host", row) EXCEPT !.force = TRUE])
    BY <1>1, <1>6 DEF PostRelease
  <2>2. row \in page.rows /\ row \in Row /\ row.node \in Nodes
    BY <1>2, <1>3, <2>1 DEF Unmounted
  <2>3. row.at \in Dirs \cup {None} /\ row.id \in Ids \cup {None}
    BY <2>2 DEF Row
  <2> DEFINE f == Form("release", "host", row)
             g == [f EXCEPT !.force = TRUE]
  <2>4. /\ f \in Request /\ f.action = "release" /\ f.pc = "host"
        /\ f.node = row.node /\ f.seen = row.id /\ f.at = row.at
    BY <2>2, FormTyped DEF Actions
  <2> HIDE DEF f
  <2>5. /\ g \in Request /\ g.action = "release" /\ g.pc = "host"
        /\ g.node = row.node
    BY <2>1, <2>3, <2>4, FormForce
  <2> HIDE DEF g
  <2>6. Done(g)
    BY <2>1 DEF f, g
  <2>7. QED
    BY <2>2, <2>5, <2>6 DEF Done
<1>7. CASE PostFormat
  <2>1. PICK row \in Unmounted, typed \in Unmounted, t \in Types, force \in BOOLEAN :
          /\ Confirmed(row, typed)
          /\ Done([Form("format", "host", row) EXCEPT !.seen = typed.id, !.type = t, !.force = force])
    BY <1>1, <1>7 DEF PostFormat
  <2>2. row \in page.rows /\ row \in Row /\ row.node \in Nodes /\ typed = row
    BY <1>2, <1>3, <2>1 DEF Unmounted, Confirmed
  <2>3. row.at \in Dirs \cup {None} /\ row.id \in Ids \cup {None}
    BY <2>2 DEF Row
  <2> DEFINE f == Form("format", "host", row)
             g == [f EXCEPT !.seen = row.id, !.type = t, !.force = force]
  <2>4. /\ f \in Request /\ f.action = "format" /\ f.pc = "host"
        /\ f.node = row.node /\ f.seen = row.id /\ f.at = row.at
    BY <2>2, FormTyped DEF Actions
  <2> HIDE DEF f
  <2>5. /\ g \in Request /\ g.action = "format" /\ g.pc = "host"
        /\ g.node = row.node /\ g.type \in Types /\ g.seen = row.id
    <3>1. f \in Request /\ t \in Types /\ row.id \in Ids \cup {None} /\ force \in BOOLEAN
      BY <2>1, <2>3, <2>4
    <3>2. t \in Types \cup {None}
      BY <3>1
    <3>3. g \in Request
      BY <3>1, <3>2, ZenonT(60) DEF Request
    <3>4. /\ g.action = f.action /\ g.pc = f.pc /\ g.node = f.node
          /\ g.seen = row.id /\ g.type = t
      BY <3>1 DEF Request
    <3> HIDE DEF g
    <3>5. QED
      BY <2>4, <3>1, <3>3, <3>4
  <2> HIDE DEF g
  <2>6. Done(g)
    BY <2>1, <2>2 DEF f, g
  <2>7. QED
    BY <2>2, <2>5, <2>6 DEF Done
<1>8. CASE PostLabel
  <2>1. PICK row \in {r \in page.rows : r.node # None} :
          Done([Form("label", "start", row) EXCEPT !.at = None])
    BY <1>1, <1>8 DEF PostLabel
  <2>2. row \in page.rows /\ row \in Row /\ row.node \in Nodes
    BY <1>2, <1>3, <2>1
  <2>3. row.at \in Dirs \cup {None} /\ row.id \in Ids \cup {None}
    BY <2>2 DEF Row
  <2> DEFINE f == Form("label", "start", row)
             g == [f EXCEPT !.at = None]
  <2>4. /\ f \in Request /\ f.action = "label" /\ f.pc = "start"
        /\ f.node = row.node /\ f.seen = row.id /\ f.at = row.at
    BY <2>2, FormTyped DEF Actions
  <2> HIDE DEF f
  <2>5. /\ g \in Request /\ g.action = "label" /\ g.pc = "start"
        /\ g.node = row.node /\ g.seen = row.id
    BY <2>1, <2>3, <2>4, FormAt
  <2> HIDE DEF g
  <2>6. Done(g)
    BY <2>1 DEF f, g
  <2>7. QED
    BY <2>2, <2>5, <2>6 DEF Done
<1>9. QED
  BY <1>4, <1>5, <1>6, <1>7, <1>8 DEF Post

LEMMA PostTyped ==
  ASSUME Typed, Post
  PROVE  Typed'
<1>1. DisksOK /\ HostOK /\ PrefsOK /\ PageOK /\ RequestOK /\ OpsOK /\ RestOK /\ BoundsOK
  BY DEF Typed, RestOK
<1>2. PICK row \in page.rows :
        /\ row.node \in Nodes /\ page' = NoPage
        /\ old' = IF ThePage \in old THEN (old \ {ThePage}) \cup {TheRequest} ELSE old \ {TheRequest}
        /\ acts < MaxActs /\ acts' = acts + 1 /\ UNCHANGED <<outside, faults>>
        /\ UNCHANGED <<system, prefs, ops, hist>>
        /\ req' \in Request /\ req'.node = row.node
        /\ \/ req'.action = "mount" /\ req'.pc = "mount" /\ req'.at \in Dirs
           \/ req'.action = "unmount" /\ req'.pc = "umount" /\ req'.at = row.at /\ row.at # None
           \/ req'.action = "release" /\ req'.pc = "host"
           \/ req'.action = "format" /\ req'.pc = "host" /\ req'.type \in Types
           \/ req'.action = "label" /\ req'.pc = "start"
  BY <1>1, Posted
<1>3. row.at \in Dirs \cup {None}
  BY <1>1 DEF PageOK, Page, Row
<1>4. RequestOK'
  BY <1>2, <1>3 DEF RequestOK
<1>5. PageOK'
  BY <1>2 DEF PageOK, Page, NoPage
<1>6. BoundsOK'
  BY <1>1, <1>2, BoundsMove
<1>7. RestOK'
  BY <1>1, <1>2, <1>6 DEF RestOK, Readers
<1>8. DisksOK' /\ HostOK' /\ PrefsOK' /\ OpsOK'
  BY <1>1, <1>2 DEF system, DisksOK, Placed, HostOK, PrefsOK, OpsOK, OperationOK
<1>9. QED
  BY <1>4, <1>5, <1>7, <1>8 DEF Typed

-----------------------------------------------------------------------------
(* Types: the request *)

Pcs == {"none", "mount", "again", "remember", "umount", "host", "refs", "unmount", "errors",
        "recheck", "start"}

LEMMA GoesTyped ==
  ASSUME req \in Request, NEW pc \in Pcs, Goes(pc)
  PROVE  /\ req' \in Request /\ req'.pc = pc /\ req'.action = req.action /\ req'.node = req.node
         /\ req'.seen = req.seen /\ req'.type = req.type /\ req'.at = req.at
  BY DEF Goes, Request, Pcs

LEMMA AnswersTyped ==
  ASSUME Answers
  PROVE  RequestOK' /\ req'.pc = "none" /\ req' = NoRequest
  BY DEF Answers, NoRequest, RequestOK, Request, Actions

\* A request that goes on is well-formed if the step it goes to is one of its action.
LEMMA RequestMoves ==
  ASSUME RequestOK, req.pc # "none", NEW pc \in Pcs, Goes(pc),
         pc \in {"mount", "again", "remember", "umount"} =>
           req.pc \in {"mount", "again", "remember", "umount"},
         pc = "umount" => req.pc = "umount",
         pc = "recheck" => req.action = "format",
         pc = "start" => req.action = "format" \/ req.pc = "recheck"
  PROVE  RequestOK'
<1>1. /\ req' \in Request /\ req'.pc = pc /\ req'.action = req.action /\ req'.node = req.node
      /\ req'.type = req.type /\ req'.at = req.at
  BY GoesTyped DEF RequestOK
<1>2. QED
  BY <1>1 DEF RequestOK

\* Requests on their way, whatever else they do.
LEMMA RequestSteps ==
  ASSUME RequestOK, Handler
  PROVE  RequestOK' /\ req.pc # "none"
<1>1. CASE Mount
  BY <1>1, RequestMoves, AnswersTyped DEF Mount, Pcs
<1>2. CASE Remember \/ Umount
  BY <1>2, RequestMoves, AnswersTyped DEF Remember, Umount, Pcs
<1>3. CASE CheckHost \/ CheckHostFails
  BY <1>3, RequestMoves, AnswersTyped DEF CheckHost, CheckHostFails, Pcs
<1>4. CASE CheckReferences
  <2>1. PICK some \in Found(D) :
          IF some # {} /\ req.force THEN req' = [req EXCEPT !.pc = "unmount", !.refs = some]
          ELSE IF some = {} /\ req.action = "format" THEN Goes("start")
          ELSE Answers
    BY <1>4 DEF CheckReferences
  <2>2. req.pc = "refs"
    BY <1>4 DEF CheckReferences
  <2>3. CASE some # {} /\ req.force
    <3>1. some \subseteq Dirs \cup Apps
      BY DEF Found, References, MountedOn
    <3>2. /\ req' \in Request /\ req'.pc = "unmount" /\ req'.action = req.action
          /\ req'.node = req.node /\ req'.type = req.type
      BY <2>1, <2>3, <3>1, ZenonT(60) DEF Request, RequestOK
    <3>3. QED
      BY <2>2, <3>2 DEF RequestOK
  <2>4. CASE ~(some # {} /\ req.force)
    BY <2>1, <2>2, <2>4, RequestMoves, AnswersTyped DEF Pcs
  <2>5. QED
    BY <2>2, <2>3, <2>4
<1>5. CASE Release
  <2>1. PICK r : req' = [req EXCEPT !.refs = @ \ {r}]
    BY <1>5 DEF Release
  <2>2. req.pc \in {"unmount", "errors"}
    BY <1>5 DEF Release
  <2>3. /\ req' \in Request /\ req'.pc = req.pc /\ req'.action = req.action
        /\ req'.node = req.node /\ req'.type = req.type
    BY <2>1 DEF Request, RequestOK
  <2>4. QED
    BY <2>2, <2>3 DEF RequestOK
<1>6. CASE ReleaseFails
  <2>1. PICK r : req' = [req EXCEPT !.pc = "errors", !.refs = @ \ {r}]
    BY <1>6 DEF ReleaseFails
  <2>2. req.pc \in {"unmount", "errors"}
    BY <1>6 DEF ReleaseFails
  <2>3. /\ req' \in Request /\ req'.pc = "errors" /\ req'.action = req.action
        /\ req'.node = req.node /\ req'.type = req.type
    BY <2>1, ZenonT(60) DEF Request, RequestOK
  <2>4. QED
    BY <2>2, <2>3 DEF RequestOK
<1>7. CASE Released \/ Recheck
  BY <1>7, RequestMoves, AnswersTyped DEF Released, Recheck, RequestOK, Pcs
<1>8. CASE Start \/ StartFails \/ RequestTimesOut
  BY <1>8, AnswersTyped DEF Start, StartFails, RequestTimesOut
<1>9. QED
  BY <1>1, <1>2, <1>3, <1>4, <1>5, <1>6, <1>7, <1>8 DEF Handler

\* What a request leaves on the host, and what it is to be blamed for.
LEMMA RequestMounts ==
  ASSUME Typed, Mount \/ Umount \/ Release
  PROVE  HostOK' /\ hist' \in History /\ old' \subseteq Readers
<1>1. HostOK /\ RequestOK /\ RestOK /\ DisksOK
  BY DEF Typed
<1>2. hist \in History /\ old \subseteq Readers
  BY <1>1 DEF RestOK
<1>3. req.pc # "none" /\ req.node \in Nodes
  BY <1>1 DEF RequestOK, Mount, Umount, Release
<1>4. D \in Disks
  BY <1>1, <1>3 DEF D, DisksOK
<1>5. CASE Mount
  <2>1. req.at \in Dirs
    BY <1>1, <1>5 DEF RequestOK, Mount
  <2>2. \/ UNCHANGED <<host, hist, old>>
        \/ host' = On(req.at, D) /\ hist' = [hist EXCEPT !.late = @ \cup Late(D)] /\ Changes
    BY <1>5 DEF Mount
  <2>3. UNCHANGED <<held, open>>
    BY <1>5 DEF Mount
  <2>4. HostOK'
    BY <1>1, <1>4, <2>1, <2>2, <2>3, HostMoves DEF HostOK
  <2>5. hist' \in History
    BY <1>2, <2>2, LateAreOps, HistoryMoves
  <2>6. QED
    BY <1>2, <2>2, <2>4, <2>5, ChangesTyped
<1>6. CASE Umount
  <2>1. req.at \in Dirs
    BY <1>1, <1>6 DEF RequestOK, Umount
  <2>2. UNCHANGED held
    BY <1>6 DEF Umount
  <2>3. CASE UNCHANGED <<host, open, hist, old>>
    BY <1>1, <1>2, <2>2, <2>3 DEF HostOK
  <2>4. CASE /\ host[req.at] # << >>
             /\ host' = Off(req.at)
             /\ open' \in IF req.force THEN {open, open \cup {Top(req.at)}} ELSE {open}
             /\ hist' = [hist EXCEPT !.lazy = IF req.force THEN @ \cup {Top(req.at)} ELSE @,
                           !.wrong = @ \/ (TheRequest \notin old /\ D \notin Range(host[req.at]))]
             /\ Changes
    <3>1. Off(req.at) \in [Dirs -> Seq(Disks)] /\ Top(req.at) \in Disks
      BY <1>1, <1>4, <2>1, <2>4, HostMoves
    <3>2. open' \subseteq Disks
      BY <1>1, <2>4, <3>1 DEF HostOK
    <3>3. HostOK'
      BY <1>1, <2>2, <2>4, <3>1, <3>2 DEF HostOK
    <3> DEFINE lazy == IF req.force THEN hist.lazy \cup {Top(req.at)} ELSE hist.lazy
               wrong == hist.wrong \/ (TheRequest \notin old /\ D \notin Range(host[req.at]))
    <3>4. lazy \in SUBSET Disks /\ wrong \in BOOLEAN
      BY <1>2, <3>1 DEF History
    <3>5. hist' = [hist EXCEPT !.lazy = lazy, !.wrong = wrong]
      BY <2>4
    <3> HIDE DEF lazy, wrong
    <3>6. hist' \in History
      BY <1>2, <3>4, <3>5, ZenonT(30) DEF History
    <3>7. QED
      BY <2>4, <3>3, <3>6, ChangesTyped
  <2>5. QED
    BY <1>6, <2>3, <2>4 DEF Umount
<1>7. CASE Release
  <2> DEFINE r == CHOOSE x \in req.refs : TRUE
             here == IF r \in Dirs THEN host[r] # << >> ELSE D \in held[r]
             d == IF r \in Dirs THEN Top(r) ELSE D
  <2>1. CASE UNCHANGED <<host, held, open, hist, old>>
    BY <1>1, <1>2, <2>1 DEF HostOK
  <2>2. CASE /\ here
             /\ host' = IF r \in Dirs THEN Off(r) ELSE host
             /\ held' = IF r \in Apps THEN [held EXCEPT ![r] = @ \ {d}] ELSE held
             /\ open' \in {open, open \cup {d}}
             /\ hist' = [hist EXCEPT !.lazy = @ \cup {d}]
             /\ IF r \in Dirs THEN Changes ELSE UNCHANGED old
    <3> HIDE DEF r
    <3>1. r \in Dirs => Off(r) \in [Dirs -> Seq(Disks)] /\ Top(r) \in Disks
      BY <1>1, <1>4, <2>2, HostMoves
    <3>2. d \in Disks
      BY <1>4, <3>1
    <3>3. host' \in [Dirs -> Seq(Disks)]
      BY <1>1, <2>2, <3>1 DEF HostOK
    <3> HIDE DEF d
    <3>4. held' \in [Apps -> SUBSET Disks] /\ open' \subseteq Disks
      BY <1>1, <2>2, <3>2 DEF HostOK
    <3>5. hist' \in History
      BY <1>2, <2>2, <3>2 DEF History
    <3>6. QED
      BY <1>2, <2>2, <3>3, <3>4, <3>5, ChangesTyped DEF HostOK
  <2>3. QED
    BY <1>7, <2>1, <2>2 DEF Release
<1>8. QED
  BY <1>5, <1>6, <1>7

\* A new operation.
New(status, pc) ==
  [NoOperation EXCEPT !.status = status, !.action = req.action, !.node = req.node, !.seen = req.seen,
                      !.type = req.type, !.pc = pc]

NewFailed ==
  [NoOperation EXCEPT !.status = "failed", !.action = req.action, !.node = req.node, !.seen = req.seen,
                      !.type = req.type]

LEMMA NewTyped ==
  ASSUME req \in Request
  PROVE  /\ New("running", "begin") \in Operation
         /\ New("running", "begin").status = "running" /\ New("running", "begin").pc = "begin"
         /\ New("running", "begin").action = req.action /\ New("running", "begin").node = req.node
         /\ New("running", "begin").seen = req.seen /\ New("running", "begin").type = req.type
         /\ New("running", "begin").verdict = "none"
         /\ NewFailed \in Operation /\ NewFailed.status = "failed" /\ NewFailed.pc = "none"
         /\ NewFailed.action = req.action /\ NewFailed.type = req.type /\ NewFailed.verdict = "none"
<1>1. NoOperation \in Operation
  BY DEF NoOperation, Operation, Actions
<1>2. /\ req.action \in Actions /\ req.node \in Nodes \cup {None} /\ req.seen \in Ids \cup {None}
      /\ req.type \in Types \cup {None}
  BY DEF Request
<1>3. "running" \in {"none", "running", "success", "failed"}
  OBVIOUS
<1>4. "failed" \in {"none", "running", "success", "failed"}
  OBVIOUS
<1>5. "begin" \in {"none", "begin", "host", "refs", "run", "wait", "save"}
  OBVIOUS
<1>6. New("running", "begin") \in Operation
  BY <1>1, <1>2, <1>3, <1>5, ZenonT(60) DEF New, Operation
<1>7. NewFailed \in Operation
  BY <1>1, <1>2, <1>4, ZenonT(60) DEF NewFailed, Operation
<1>8. /\ New("running", "begin").status = "running" /\ New("running", "begin").pc = "begin"
      /\ New("running", "begin").action = req.action /\ New("running", "begin").node = req.node
      /\ New("running", "begin").seen = req.seen /\ New("running", "begin").type = req.type
      /\ New("running", "begin").verdict = "none"
  BY DEF New, NoOperation
<1>9. /\ NewFailed.status = "failed" /\ NewFailed.pc = "none"
      /\ NewFailed.action = req.action /\ NewFailed.type = req.type /\ NewFailed.verdict = "none"
  BY DEF NewFailed, NoOperation
<1>10. QED
  BY <1>6, <1>7, <1>8, <1>9

LEMMA NextOpIsFree ==
  ASSUME FreeOps # {}
  PROVE  NextOp \in Ops /\ ops[NextOp].status = "none"
<1>1. FreeOps \subseteq Nat /\ IsFiniteSet(FreeOps)
  <2>1. IsFiniteSet(Ops)
    BY FS_Interval, BoundsAssumption DEF Ops
  <2>2. QED
    BY <2>1, FS_Subset, Numbers DEF FreeOps
<1>2. \E o \in FreeOps : \A x \in FreeOps : o <= x
  <2>1. PICK n \in FreeOps : TRUE
    OBVIOUS
  <2> DEFINE R == OpToRel(<, Nat)
  <2>2. R = {p \in Nat \X Nat : p[1] < p[2]}
    BY DEF OpToRel
  <2>3. IsWellFoundedOn(R, Nat)
    BY NatLessThanWellFounded
  <2> HIDE DEF R
  <2>4. \E o \in FreeOps : \A x \in FreeOps : ~(<<x, o>> \in R)
    <3>1. FreeOps # {} /\ FreeOps \subseteq Nat
      BY <1>1
    <3>2. QED
      BY ONLY <2>3, <3>1, WFMin, Zenon
  <2>5. \A x, y \in Nat : <<x, y>> \in R <=> x < y
    <3>1. SUFFICES ASSUME NEW x \in Nat, NEW y \in Nat
                   PROVE  <<x, y>> \in R <=> x < y
      OBVIOUS
    <3> DEFINE q == <<x, y>>
    <3>2. q \in Nat \X Nat /\ q[1] = x /\ q[2] = y
      OBVIOUS
    <3> HIDE DEF q
    <3>3. q \in R <=> x < y
      BY <2>2, <3>2
    <3>4. QED
      BY <3>3, Zenon DEF q
  <2>6. PICK o \in FreeOps : \A x \in FreeOps : ~(<<x, o>> \in R)
    BY <2>4
  <2>7. \A x \in FreeOps : ~(x < o)
    BY ONLY <1>1, <2>5, <2>6, Zenon
  <2>8. QED
    BY <1>1, <2>7
<1>3. NextOp \in FreeOps
  BY <1>2 DEF NextOp
<1>4. QED
  BY <1>3 DEF FreeOps

-----------------------------------------------------------------------------
(* Types: operations *)

\* An operation keeps what it is about, and the others stay as they are.
Only(o) ==
  /\ ops' \in [Ops -> Operation]
  /\ \A x \in Ops : x # o => ops'[x] = ops[x]
  /\ ops'[o].action = ops[o].action /\ ops'[o].node = ops[o].node
  /\ ops'[o].seen = ops[o].seen /\ ops'[o].type = ops[o].type

LEMMA StepMoves ==
  ASSUME OpsOK, NEW o \in Ops,
         NEW pc \in {"none", "begin", "host", "refs", "run", "wait", "save"}, Step(o, pc)
  PROVE  /\ Only(o) /\ ops'[o].pc = pc
         /\ ops'[o].status = ops[o].status /\ ops'[o].verdict = ops[o].verdict
<1>1. ops \in [Ops -> Operation] /\ ops' = [ops EXCEPT ![o] = [ops[o] EXCEPT !.pc = pc]]
  BY DEF OpsOK, Step
<1> DEFINE r == [ops[o] EXCEPT !.pc = pc]
<1>2. ops[o] \in Operation
  BY <1>1
<1>3. /\ r \in Operation /\ r.pc = pc /\ r.action = ops[o].action /\ r.node = ops[o].node
      /\ r.seen = ops[o].seen /\ r.type = ops[o].type /\ r.status = ops[o].status
      /\ r.verdict = ops[o].verdict
  BY <1>2 DEF Operation
<1> HIDE DEF r
<1>4. ops' = [ops EXCEPT ![o] = r]
  BY <1>1 DEF r
<1>5. QED
  BY <1>1, <1>3, <1>4 DEF Only

LEMMA EndsMoves ==
  ASSUME OpsOK, NEW o \in Ops, NEW v \in {"success", "failed"}, Ends(o, v)
  PROVE  /\ Only(o) /\ ops'[o].pc = "save"
         /\ ops'[o].status = ops[o].status /\ ops'[o].verdict = v
<1> DEFINE r == [ops[o] EXCEPT !.pc = "save", !.verdict = v]
<1>1. ops \in [Ops -> Operation] /\ ops' = [ops EXCEPT ![o] = r]
  BY DEF OpsOK, Ends
<1>2. ops[o] \in Operation
  BY <1>1
<1>3. r \in Operation
  <2>1. /\ "save" \in {"none", "begin", "host", "refs", "run", "wait", "save"}
        /\ v \in {"none", "success", "failed"}
    OBVIOUS
  <2>2. QED
    BY <1>2, <2>1, ZenonT(30) DEF Operation
<1>4. /\ r.pc = "save" /\ r.action = ops[o].action /\ r.node = ops[o].node
      /\ r.seen = ops[o].seen /\ r.type = ops[o].type /\ r.status = ops[o].status
      /\ r.verdict = v
  BY <1>2 DEF Operation
<1> HIDE DEF r
<1>5. QED
  BY <1>1, <1>3, <1>4 DEF Only

\* A record is saved, a worker dies.
LEMMA StopsMoves ==
  ASSUME OpsOK, NEW o \in Ops, NEW s \in {"none", "running", "success", "failed"},
         ops' = [ops EXCEPT ![o].pc = "none", ![o].status = s, ![o].verdict = "none"]
  PROVE  Only(o) /\ ops'[o].pc = "none" /\ ops'[o].status = s /\ ops'[o].verdict = "none"
<1> DEFINE r == [ops[o] EXCEPT !.pc = "none", !.status = s, !.verdict = "none"]
<1>1. ops \in [Ops -> Operation] /\ ops' = [ops EXCEPT ![o] = r]
  BY DEF OpsOK
<1>2. ops[o] \in Operation
  BY <1>1
<1>3. r \in Operation
  <2>1. /\ "none" \in {"none", "begin", "host", "refs", "run", "wait", "save"}
        /\ "none" \in {"none", "success", "failed"}
    OBVIOUS
  <2>2. QED
    BY <1>2, <2>1, ZenonT(30) DEF Operation
<1>4. /\ r.pc = "none" /\ r.action = ops[o].action /\ r.node = ops[o].node
      /\ r.seen = ops[o].seen /\ r.type = ops[o].type /\ r.status = s
      /\ r.verdict = "none"
  BY <1>2 DEF Operation
<1> HIDE DEF r
<1>5. QED
  BY <1>1, <1>3, <1>4, ZenonT(60) DEF Only

LEMMA DiesMoves ==
  ASSUME OpsOK, NEW o \in Ops,
         ops' = [ops EXCEPT ![o].pc = "none", ![o].verdict = "none"]
  PROVE  /\ Only(o) /\ ops'[o].pc = "none" /\ ops'[o].status = ops[o].status
         /\ ops'[o].verdict = "none"
<1> DEFINE r == [ops[o] EXCEPT !.pc = "none", !.verdict = "none"]
<1>1. ops \in [Ops -> Operation] /\ ops' = [ops EXCEPT ![o] = r]
  BY DEF OpsOK
<1>2. ops[o] \in Operation
  BY <1>1
<1>3. r \in Operation
  <2>1. /\ "none" \in {"none", "begin", "host", "refs", "run", "wait", "save"}
        /\ "none" \in {"none", "success", "failed"}
    OBVIOUS
  <2>2. QED
    BY <1>2, <2>1, ZenonT(30) DEF Operation
<1>4. /\ r.pc = "none" /\ r.action = ops[o].action /\ r.node = ops[o].node
      /\ r.seen = ops[o].seen /\ r.type = ops[o].type /\ r.status = ops[o].status
      /\ r.verdict = "none"
  BY <1>2 DEF Operation
<1> HIDE DEF r
<1>5. QED
  BY <1>1, <1>3, <1>4 DEF Only

LEMMA OnlyTyped ==
  ASSUME OpsOK, NEW o \in Ops, Only(o),
         ops'[o].pc # "none" => ops[o].pc # "none" /\ ops'[o].status = ops[o].status,
         ops'[o].pc \in {"host", "refs", "wait"} => ops[o].action = "format"
  PROVE  OpsOK'
  BY DEF OpsOK, Only, OperationOK

LEMMA WorkerOps ==
  ASSUME OpsOK, NEW o \in Ops, Worker(o)
  PROVE  Only(o) /\ OpsOK' /\ ops[o].pc # "none"
<1>1. OperationOK(o)
  BY DEF OpsOK
<1>2. CASE Begin(o)
  BY <1>1, <1>2, StepMoves, OnlyTyped DEF Begin, OperationOK
<1>3. CASE WorkerChecksHost(o)
  <2>1. ops[o].pc = "host" /\ (Step(o, "refs") \/ Ends(o, "failed"))
    BY <1>3 DEF WorkerChecksHost
  <2>2. CASE Step(o, "refs")
    BY <1>1, <2>1, <2>2, StepMoves, OnlyTyped DEF OperationOK
  <2>3. CASE Ends(o, "failed")
    BY <1>1, <2>1, <2>3, EndsMoves, OnlyTyped DEF OperationOK
  <2>4. QED
    BY <2>1, <2>2, <2>3
<1>4. CASE WorkerCheckFails(o)
  BY <1>1, <1>4, StepMoves, OnlyTyped DEF WorkerCheckFails, OperationOK
<1>5. CASE WorkerChecksReferences(o)
  <2>1. ops[o].pc = "refs" /\ (Step(o, "run") \/ Ends(o, "failed"))
    BY <1>5 DEF WorkerChecksReferences
  <2>2. CASE Step(o, "run")
    BY <1>1, <2>1, <2>2, StepMoves, OnlyTyped DEF OperationOK
  <2>3. CASE Ends(o, "failed")
    BY <1>1, <2>1, <2>3, EndsMoves, OnlyTyped DEF OperationOK
  <2>4. QED
    BY <2>1, <2>2, <2>3
<1>6. CASE Label(o) \/ LabelFails(o)
  <2>1. ops[o].pc = "run" /\ \E v \in {"success", "failed"} : Ends(o, v)
    BY <1>6 DEF Label, LabelFails, Labels
  <2>2. QED
    BY <1>1, <2>1, EndsMoves, OnlyTyped DEF OperationOK
<1>7. CASE Mkfs(o)
  <2>1. ops[o].pc = "run" /\ ops[o].action = "format" /\ (Step(o, "wait") \/ Ends(o, "failed"))
    BY <1>7 DEF Mkfs
  <2>2. CASE Step(o, "wait")
    BY <1>1, <2>1, <2>2, StepMoves, OnlyTyped DEF OperationOK
  <2>3. CASE Ends(o, "failed")
    BY <1>1, <2>1, <2>3, EndsMoves, OnlyTyped DEF OperationOK
  <2>4. QED
    BY <2>1, <2>2, <2>3
<1>8. CASE MkfsTimesOut(o)
  BY <1>1, <1>8, EndsMoves, OnlyTyped DEF MkfsTimesOut, TimedOut, OperationOK
<1>9. CASE Save(o)
  <2>1. ops[o].verdict \in {"none", "running", "success", "failed"}
    BY DEF OpsOK, Operation
  <2>2. ops[o].pc = "save"
        /\ ops' = [ops EXCEPT ![o].pc = "none", ![o].status = ops[o].verdict, ![o].verdict = "none"]
    BY <1>9 DEF Save
  <2>3. Only(o) /\ ops'[o].pc = "none"
    BY <2>1, <2>2, StopsMoves
  <2>4. QED
    BY <2>2, <2>3, OnlyTyped
<1>10. CASE WorkerDies(o)
  BY <1>10, DiesMoves, OnlyTyped DEF WorkerDies
<1>11. QED
  BY <1>2, <1>3, <1>4, <1>5, <1>6, <1>7, <1>8, <1>9, <1>10 DEF Worker

-----------------------------------------------------------------------------
(* Types: the filesystems, and every step *)

\* A mkfs takes what was on the partition, ...
LEMMA MkfsDisks ==
  ASSUME DisksOK, OpsOK, NEW o \in Ops, ops[o].node \in Nodes,
         making' = [making EXCEPT ![DiskOf(o)] = o], fs' = [fs EXCEPT ![DiskOf(o)] = Blank],
         UNCHANGED disk
  PROVE  DisksOK'
<1>1. DiskOf(o) \in Disks
  BY DEF DiskOf, DisksOK
<1>2. Blank \in Filesystem /\ Blank.id = None /\ Blank.type = None
  BY DEF Blank, Filesystem
<1>3. fs' \in [Disks -> Filesystem] /\ making' \in [Disks -> Ops \cup {None}]
  BY <1>1, <1>2 DEF DisksOK
<1>4. \A x \in Disks : /\ x # DiskOf(o) => fs'[x] = fs[x] /\ making'[x] = making[x]
                       /\ fs'[DiskOf(o)] = Blank
  BY <1>1 DEF DisksOK
<1>5. /\ \A x \in Disks : (fs'[x].id = None) <=> (fs'[x].type = None)
      /\ \A x \in Disks : making'[x] # None => fs'[x] = Blank
  BY <1>2, <1>4 DEF DisksOK
<1>6. QED
  BY <1>3, <1>5 DEF DisksOK, Placed

\* ... and leaves a filesystem of its own, or nothing.
LEMMA EndDisks ==
  ASSUME DisksOK, OpsOK, NEW d \in Disks, making[d] # None, ops[making[d]].action = "format",
         making' = [making EXCEPT ![d] = None],
         fs' \in {fs, [fs EXCEPT ![d] = [id |-> making[d], type |-> ops[making[d]].type]]},
         UNCHANGED disk
  PROVE  DisksOK' /\ making[d] \in Ops
<1>1. making[d] \in Ops
  BY DEF DisksOK
<1>2. ops[making[d]].type \in Types
  BY <1>1 DEF OpsOK, OperationOK
<1> DEFINE f == [id |-> making[d], type |-> ops[making[d]].type]
<1>3. f \in Filesystem /\ f.id # None /\ f.type # None
  BY <1>1, <1>2, Numbers DEF Filesystem, Ids
<1> HIDE DEF f
<1>4. fs' \in {fs, [fs EXCEPT ![d] = f]}
  BY DEF f
<1>5. fs' \in [Disks -> Filesystem] /\ making' \in [Disks -> Ops \cup {None}]
  BY <1>3, <1>4 DEF DisksOK
<1>6. \A x \in Disks : /\ x # d => fs'[x] = fs[x] /\ making'[x] = making[x]
                       /\ fs'[d] \in {fs[d], f} /\ making'[d] = None
  BY <1>4 DEF DisksOK
<1>7. /\ \A x \in Disks : (fs'[x].id = None) <=> (fs'[x].type = None)
      /\ \A x \in Disks : making'[x] # None => fs'[x] = Blank
  BY <1>3, <1>6 DEF DisksOK
<1>8. QED
  BY <1>1, <1>5, <1>7 DEF DisksOK, Placed

LEMMA HandlerTyped ==
  ASSUME Typed, Handler
  PROVE  Typed'
<1>1. DisksOK /\ HostOK /\ PrefsOK /\ PageOK /\ RequestOK /\ OpsOK /\ RestOK /\ BoundsOK
  BY DEF Typed, RestOK
<1>2. RequestOK' /\ req.pc # "none" /\ req.node \in Nodes
  BY <1>1, RequestSteps DEF RequestOK
<1>3. hist \in History /\ old \subseteq Readers
  BY <1>1 DEF RestOK
<1>4. UNCHANGED <<disk, fs, making, page>> /\ (Fault \/ UNCHANGED bounds)
  BY DEF Handler, Mount, Remember, Umount, CheckHost, CheckHostFails, CheckReferences, Release,
         ReleaseFails, Released, Recheck, Start, StartFails, RequestTimesOut, system
<1>5. DisksOK' /\ PageOK'
  BY <1>1, <1>4 DEF DisksOK, Placed, PageOK
<1>6. BoundsOK'
  BY <1>1, <1>4, BoundsMove
<1>7. HostOK' /\ hist' \in History /\ old' \subseteq Readers
  <2>1. CASE Mount \/ Umount \/ Release
    BY <2>1, RequestMounts
  <2>2. CASE Start
    <3>1. UNCHANGED <<host, held, open, hist>> /\ old' \subseteq old \cup {NextOp}
      BY <2>2 DEF Start, system, Answered
    <3>2. NextOp \in Ops
      BY <2>2, NextOpIsFree DEF Start
    <3>3. QED
      BY <1>1, <1>3, <3>1, <3>2 DEF HostOK, Readers
  <2>3. CASE ~(Mount \/ Umount \/ Release \/ Start)
    <3>1. UNCHANGED <<host, held, open, hist, old>>
      BY <2>3 DEF Handler, Remember, CheckHost, CheckHostFails, CheckReferences, ReleaseFails,
                  Released, Recheck, StartFails, RequestTimesOut, system
    <3>2. QED
      BY <1>1, <1>3, <3>1 DEF HostOK
  <2>4. QED
    BY <2>1, <2>2, <2>3
<1>8. PrefsOK'
  <2>1. CASE Remember
    <3> DEFINE key == Key(req.seen, req.node)
    <3>1. /\ req.pc = "remember"
          /\ prefs' = [k \in DOMAIN prefs \cup {key} |-> IF k = key THEN req.at ELSE prefs[k]]
      BY <2>1 DEF Remember
    <3>2. req.at \in Dirs /\ req.seen \in Ids \cup {None}
      BY <1>1, <3>1 DEF RequestOK, Request
    <3>3. key \in Ids \cup Nodes
      BY <1>2, <3>2 DEF Key
    <3> HIDE DEF key
    <3>4. QED
      BY <1>1, <3>1, <3>2, <3>3 DEF PrefsOK
  <2>2. CASE ~Remember
    <3>1. UNCHANGED prefs
      BY <2>2 DEF Handler, Mount, Umount, CheckHost, CheckHostFails, CheckReferences, Release,
                  ReleaseFails, Released, Recheck, Start, StartFails, RequestTimesOut
    <3>2. QED
      BY <1>1, <3>1 DEF PrefsOK
  <2>3. QED
    BY <2>1, <2>2
<1>9. OpsOK'
  <2>1. CASE Start
    <3>1. ops' = [ops EXCEPT ![NextOp] = New("running", "begin")] /\ req.pc = "start"
      BY <2>1 DEF Start, New
    <3>2. NextOp \in Ops
      BY <2>1, NextOpIsFree DEF Start
    <3>3. /\ New("running", "begin") \in Operation
          /\ New("running", "begin").status = "running" /\ New("running", "begin").pc = "begin"
          /\ New("running", "begin").action = req.action /\ New("running", "begin").node = req.node
          /\ New("running", "begin").type = req.type
      BY <1>1, NewTyped DEF RequestOK
    <3>4. req.action \in {"format", "label"} /\ (req.action = "format" => req.type \in Types)
      BY <1>1, <3>1 DEF RequestOK
    <3>5. QED
      BY <1>1, <1>2, <3>1, <3>2, <3>3, <3>4 DEF OpsOK, OperationOK
  <2>2. CASE StartFails
    <3>1. ops' = [ops EXCEPT ![NextOp] = NewFailed] /\ req.pc = "start"
      BY <2>2 DEF StartFails, NewFailed
    <3>2. NextOp \in Ops
      BY <2>2, NextOpIsFree DEF StartFails
    <3>3. /\ NewFailed \in Operation /\ NewFailed.pc = "none"
          /\ NewFailed.action = req.action /\ NewFailed.type = req.type
      BY <1>1, NewTyped DEF RequestOK
    <3>4. req.action = "format" => req.type \in Types
      BY <1>1, <3>1 DEF RequestOK
    <3>5. QED
      BY <1>1, <3>1, <3>2, <3>3, <3>4 DEF OpsOK, OperationOK
  <2>3. CASE ~(Start \/ StartFails)
    <3>1. UNCHANGED ops
      BY <2>3 DEF Handler, Mount, Remember, Umount, CheckHost, CheckHostFails, CheckReferences, Release,
                  ReleaseFails, Released, Recheck, RequestTimesOut
    <3>2. QED
      BY <1>1, <3>1 DEF OpsOK, OperationOK
  <2>4. QED
    BY <2>1, <2>2, <2>3
<1>10. QED
  BY <1>2, <1>5, <1>6, <1>7, <1>8, <1>9 DEF Typed, RestOK

\* What a label that is written is to be remembered for.
LEMMA LabelledHistory ==
  ASSUME hist \in History, NEW o \in Ops
  PROVE  /\ Labelled(o) \in History
         /\ Labelled(o).done = hist.done \cup {o} /\ Labelled(o).wiped = hist.wiped
         /\ Labelled(o).slow = hist.slow /\ Labelled(o).dead = hist.dead
         /\ Labelled(o).harmed = hist.harmed /\ Labelled(o).late = hist.late
         /\ Labelled(o).lazy = hist.lazy
         /\ Labelled(o).wrong = (hist.wrong \/ (o \notin old /\ fs[DiskOf(o)].id # ops[o].seen))
<1> DEFINE wrong == hist.wrong \/ (o \notin old /\ fs[DiskOf(o)].id # ops[o].seen)
           done == hist.done \cup {o}
<1>1. done \in SUBSET Ops /\ wrong \in BOOLEAN
  BY DEF History
<1>2. Labelled(o) = [hist EXCEPT !.done = done, !.wrong = wrong]
  BY DEF Labelled
<1> HIDE DEF done, wrong
<1>3. Labelled(o) \in History
  BY <1>1, <1>2, ZenonT(30) DEF History
<1>4. /\ Labelled(o).done = done /\ Labelled(o).wiped = hist.wiped
      /\ Labelled(o).slow = hist.slow /\ Labelled(o).dead = hist.dead
      /\ Labelled(o).harmed = hist.harmed /\ Labelled(o).late = hist.late
      /\ Labelled(o).lazy = hist.lazy /\ Labelled(o).wrong = wrong
  BY <1>2 DEF History
<1>5. QED
  BY <1>3, <1>4 DEF done, wrong

\* One that fails may have been written all the same, after it was given up.
LEMMA LabelFailsHistory ==
  ASSUME hist \in History, NEW o \in Ops, LabelFails(o)
  PROVE  /\ hist' \in History
         /\ hist'.wiped = hist.wiped /\ hist'.dead = hist.dead /\ hist'.harmed = hist.harmed
         /\ hist'.late = hist.late /\ hist'.lazy = hist.lazy
         /\ \/ hist' = hist
            \/ /\ hist'.done = hist.done \cup {o} /\ hist'.slow = hist.slow \cup {o}
               /\ hist'.wrong = (hist.wrong \/ (o \notin old /\ fs[DiskOf(o)].id # ops[o].seen))
<1>1. CASE hist' = hist
  BY <1>1
<1>2. CASE hist' = [Labelled(o) EXCEPT !.slow = @ \cup {o}]
  <2> DEFINE h == Labelled(o)
             S == h.slow \cup {o}
  <2>1. h \in History /\ h.slow = hist.slow
    BY LabelledHistory
  <2>2. S \in SUBSET Ops /\ S = hist.slow \cup {o}
    BY <2>1 DEF History
  <2>3. hist' = [h EXCEPT !.slow = S]
    BY <1>2
  <2> HIDE DEF h, S
  <2>4. /\ hist' \in History /\ hist'.done = h.done /\ hist'.wiped = h.wiped /\ hist'.slow = S
        /\ hist'.dead = h.dead /\ hist'.harmed = h.harmed /\ hist'.late = h.late
        /\ hist'.lazy = h.lazy /\ hist'.wrong = h.wrong
    BY <2>1, <2>2, <2>3 DEF History
  <2>5. QED
    BY <2>2, <2>4, LabelledHistory DEF h
<1>3. QED
  BY <1>1, <1>2 DEF LabelFails

\* A worker's history.
LEMMA WorkerHistory ==
  ASSUME hist \in History, NEW o \in Ops, Worker(o)
  PROVE  hist' \in History
<1>1. CASE Label(o) \/ LabelFails(o)
  BY <1>1, LabelledHistory, LabelFailsHistory DEF Label
<1>2. CASE Mkfs(o)
  <2>1. CASE UNCHANGED hist
    BY <2>1
  <2> DEFINE d == DiskOf(o)
             wiped == hist.wiped \cup {o}
             harmed == IF InUse(d) THEN hist.harmed \cup {o} ELSE hist.harmed
             late == IF d \in open /\ d \in hist.lazy THEN hist.late \cup {o} ELSE hist.late
             wrong == hist.wrong \/ (o \notin old /\ fs[d].id # ops[o].seen)
  <2>2. wiped \in SUBSET Ops /\ harmed \in SUBSET Ops /\ late \in SUBSET Ops /\ wrong \in BOOLEAN
    BY DEF History
  <2>3. CASE hist' = [hist EXCEPT !.wiped = wiped, !.harmed = harmed, !.late = late, !.wrong = wrong]
    <3> HIDE DEF wiped, harmed, late, wrong
    <3>1. QED
      BY <2>2, <2>3, ZenonT(60) DEF History
  <2>4. QED
    BY <1>2, <2>1, <2>3 DEF Mkfs
<1>3. CASE MkfsTimesOut(o) \/ WorkerDies(o)
  BY <1>3, HistoryMoves DEF MkfsTimesOut, WorkerDies
<1>4. CASE ~(Label(o) \/ LabelFails(o) \/ Mkfs(o) \/ MkfsTimesOut(o) \/ WorkerDies(o))
  BY <1>4 DEF Worker, Begin, WorkerChecksHost, WorkerCheckFails, WorkerChecksReferences, Save
<1>5. QED
  BY <1>1, <1>2, <1>3, <1>4

LEMMA WorkerTyped ==
  ASSUME Typed, NEW o \in Ops, Worker(o)
  PROVE  Typed'
<1>1. DisksOK /\ HostOK /\ PrefsOK /\ PageOK /\ RequestOK /\ OpsOK /\ RestOK /\ BoundsOK
  BY DEF Typed, RestOK
<1>2. hist \in History /\ old \subseteq Readers
  BY <1>1 DEF RestOK
<1>3. OpsOK' /\ hist' \in History
  BY <1>1, <1>2, WorkerOps, WorkerHistory
<1>4. /\ UNCHANGED <<disk, host, held, open, prefs, page, req>> /\ (Fault \/ UNCHANGED bounds)
      /\ Changes \/ UNCHANGED old
  BY DEF Worker, Begin, WorkerChecksHost, WorkerCheckFails, WorkerChecksReferences, Label, LabelFails,
         Mkfs, MkfsTimesOut, Save, WorkerDies, system
<1>5. HostOK' /\ PrefsOK' /\ PageOK' /\ RequestOK'
  BY <1>1, <1>4 DEF HostOK, PrefsOK, PageOK, RequestOK
<1>6. BoundsOK'
  BY <1>1, <1>4, BoundsMove
<1>7. RestOK'
  BY <1>2, <1>3, <1>4, <1>6, ChangesTyped DEF RestOK
<1>8. DisksOK'
  <2>1. CASE UNCHANGED <<fs, making>>
    BY <1>1, <1>4, <2>1 DEF DisksOK, Placed
  <2>2. CASE Mkfs(o) /\ making' = [making EXCEPT ![DiskOf(o)] = o] /\ fs' = [fs EXCEPT ![DiskOf(o)] = Blank]
    <3>1. ops[o].node \in Nodes
      BY <1>1, <2>2 DEF OpsOK, OperationOK, Mkfs
    <3>2. QED
      BY <1>1, <1>4, <2>2, <3>1, MkfsDisks
  <2>3. QED
    BY <2>1, <2>2 DEF Worker, Begin, WorkerChecksHost, WorkerCheckFails, WorkerChecksReferences, Label,
                      LabelFails, Mkfs, MkfsTimesOut, Save, WorkerDies, system
<1>9. QED
  BY <1>3, <1>5, <1>7, <1>8 DEF Typed

\* What becomes of the operation whose mkfs has ended.
LEMMA EndOps ==
  ASSUME OpsOK, NEW o \in Ops, NEW v \in {"success", "failed"},
         ops' = IF ops[o].pc = "wait" THEN [ops EXCEPT ![o].pc = "save", ![o].verdict = v] ELSE ops
  PROVE  /\ Only(o) /\ OpsOK' /\ ops'[o].status = ops[o].status
         /\ ops[o].pc = "wait" => ops'[o].pc = "save" /\ ops'[o].verdict = v
         /\ ops[o].pc # "wait" => ops' = ops
<1>1. CASE ops[o].pc = "wait"
  <2>1. Ends(o, v)
    BY <1>1 DEF Ends
  <2>2. Only(o) /\ ops'[o].pc = "save" /\ ops'[o].verdict = v /\ ops'[o].status = ops[o].status
    BY <2>1, EndsMoves
  <2>3. QED
    BY <1>1, <2>2, OnlyTyped
<1>2. CASE ops[o].pc # "wait"
  BY <1>2 DEF OpsOK, Only, OperationOK
<1>3. QED
  BY <1>1, <1>2

LEMMA EndTyped ==
  ASSUME Typed, Making, NEW d \in Disks, MkfsEnds(d) \/ MkfsFails(d)
  PROVE  Typed'
<1>1. DisksOK /\ HostOK /\ PrefsOK /\ PageOK /\ RequestOK /\ OpsOK /\ RestOK /\ BoundsOK
  BY DEF Typed, RestOK
<1>2. hist \in History /\ old \subseteq Readers
  BY <1>1 DEF RestOK
<1>3. making[d] # None /\ ops[making[d]].action = "format"
  BY DEF Making, MkfsEnds, MkfsFails
<1>4. /\ UNCHANGED <<disk, host, held, open, prefs, page, req>> /\ (Fault \/ UNCHANGED bounds) /\ Changes
      /\ making' = [making EXCEPT ![d] = None]
      /\ fs' \in {fs, [fs EXCEPT ![d] = [id |-> making[d], type |-> ops[making[d]].type]]}
      /\ hist' \in {hist, [hist EXCEPT !.done = @ \cup {making[d]}]}
  BY DEF MkfsEnds, MkfsFails
<1>5. DisksOK' /\ making[d] \in Ops
  BY <1>1, <1>3, <1>4, EndDisks
<1>6. OpsOK'
  BY <1>1, <1>5, EndOps DEF MkfsEnds, MkfsFails
<1>7. hist' \in History
  BY <1>2, <1>4, <1>5, HistoryMoves
<1>8. BoundsOK'
  BY <1>1, <1>4, BoundsMove
<1>9. RestOK'
  BY <1>4, <1>7, <1>8, ChangesTyped DEF RestOK
<1>10. HostOK' /\ PrefsOK' /\ PageOK' /\ RequestOK'
  BY <1>1, <1>4 DEF HostOK, PrefsOK, PageOK, RequestOK
<1>11. QED
  BY <1>5, <1>6, <1>9, <1>10 DEF Typed

LEMMA StepTyped ==
  ASSUME Typed, Making, [Next]_vars
  PROVE  Typed'
<1>1. CASE UNCHANGED vars
  BY <1>1 DEF vars, system, bounds, Typed, DisksOK, Placed, HostOK, PrefsOK, PageOK, RequestOK, OpsOK,
              OperationOK, RestOK, BoundsOK
<1>2. CASE Next
  BY <1>2, UsersTyped, ReadsTyped, PostTyped, HandlerTyped, WorkerTyped, EndTyped
     DEF Next, Browser, Post
<1>3. QED
  BY <1>1, <1>2

-----------------------------------------------------------------------------
(* Records *)

\* What is not about operations leaves the records true.
LEMMA RecordsFrame ==
  ASSUME Typed, BoundsOK', Records, UNCHANGED <<making, ops>>, faults <= faults',
         hist'.done = hist.done, hist'.wiped = hist.wiped, hist'.slow = hist.slow,
         hist'.dead = hist.dead, hist'.harmed = hist.harmed, hist.late \subseteq hist'.late
  PROVE  Records'
<1>1. faults \in Nat /\ faults' \in Nat
  BY BoundsAssumption DEF Typed, RestOK, BoundsOK
<1>2. Making'
  BY DEF Records, Making
<1>3. \A o \in Ops : Untouched(o)' /\ Recorded(o)'
  BY <1>1 DEF Records, Untouched, Recorded, Says
<1>4. hist'.harmed \subseteq hist'.wiped /\ OnlyUnusedIsWiped'
  BY DEF Records, OnlyUnusedIsWiped
<1>5. QED
  BY <1>2, <1>3, <1>4 DEF Records

\* The records of the operations that a step is not about.
Others(o) ==
  /\ \A x \in Ops : x # o => ops'[x] = ops[x]
  /\ \A x \in Ops : x # o =>
       /\ x \in hist'.done <=> x \in hist.done
       /\ x \in hist'.wiped <=> x \in hist.wiped
       /\ x \in hist'.slow <=> x \in hist.slow
       /\ x \in hist'.dead <=> x \in hist.dead
  /\ \A d \in Disks, x \in Ops : x # o /\ making'[d] = x => making[d] = x

LEMMA RecordsMove ==
  ASSUME Typed, BoundsOK', Records, NEW o \in Ops, Others(o), faults <= faults',
         Making', Untouched(o)', Recorded(o)', hist'.harmed \subseteq hist'.wiped, OnlyUnusedIsWiped'
  PROVE  Records'
<1>1. faults \in Nat /\ faults' \in Nat
  BY BoundsAssumption DEF Typed, RestOK, BoundsOK
<1>2. ASSUME NEW x \in Ops, x # o
      PROVE  Untouched(x)' /\ Recorded(x)'
  <2>1. Untouched(x) /\ Recorded(x)
    BY DEF Records
  <2>2. ops'[x] = ops[x] /\ \A d \in Disks : making'[d] = x => making[d] = x
    BY <1>2 DEF Others
  <2>3. /\ x \in hist'.done <=> x \in hist.done
        /\ x \in hist'.wiped <=> x \in hist.wiped
        /\ x \in hist'.slow <=> x \in hist.slow
        /\ x \in hist'.dead <=> x \in hist.dead
    BY <1>2 DEF Others
  <2>4. Untouched(x)'
    BY <2>1, <2>2, <2>3 DEF Untouched
  <2>5. \A v : Says(x, v) => Says(x, v)'
    BY <1>1, <2>2, <2>3 DEF Says
  <2>6. Recorded(x)'
    BY <2>1, <2>2, <2>3, <2>5 DEF Recorded
  <2>7. QED
    BY <2>4, <2>6
<1>3. \A x \in Ops : Untouched(x)' /\ Recorded(x)'
  BY <1>2
<1>4. QED
  BY <1>3 DEF Records

\* Nothing is being made for an operation that has touched nothing.
LEMMA UntouchedIsIdle ==
  ASSUME Records, NEW o \in Ops, o \notin hist.wiped
  PROVE  \A d \in Disks : making[d] # o
<1>1. o # None
  BY Numbers
<1>2. QED
  BY <1>1 DEF Records, Making

\* An operation that only moves on, or fails, before it has touched anything.
LEMMA RecordsBefore ==
  ASSUME Typed, Typed', Records, NEW o \in Ops, Only(o), faults <= faults',
         UNCHANGED <<making, hist>>,
         ops[o].pc \in {"begin", "host", "refs", "run"}, ops'[o].status = ops[o].status,
         \/ ops'[o].pc \in {"begin", "host", "refs", "run"}
         \/ ops'[o].pc = "save" /\ ops'[o].verdict = "failed"
  PROVE  Records'
<1>1. o \notin hist.wiped \cup hist.done \cup hist.slow
  BY DEF Records, Untouched
<1>2. \A d \in Disks : making[d] # o
  BY <1>1, UntouchedIsIdle
<1>3. Others(o)
  BY DEF Others, Only
<1>4. Untouched(o)'
  BY <1>1 DEF Untouched
<1>5. ops[o].status = "running"
  BY DEF Typed, OpsOK, OperationOK
<1>6. Recorded(o)'
  BY <1>1, <1>2, <1>5 DEF Recorded, Says
<1>7. Making'
  BY <1>2 DEF Records, Making, Only, Typed, DisksOK
<1>8. OnlyUnusedIsWiped' /\ hist'.harmed \subseteq hist'.wiped
  <2>1. hist.harmed \subseteq Ops
    BY DEF Typed, RestOK, History
  <2>2. QED
    BY <2>1 DEF Records, OnlyUnusedIsWiped, Only
<1>9. BoundsOK'
  BY DEF Typed, RestOK
<1>10. QED
  BY <1>3, <1>4, <1>6, <1>7, <1>8, <1>9, RecordsMove

LEMMA LabelRecords ==
  ASSUME Typed, Typed', Records, NEW o \in Ops, Label(o) \/ LabelFails(o)
  PROVE  Records'
<1>1. OpsOK /\ BoundsOK' /\ OperationOK(o) /\ hist \in History
  BY DEF Typed, OpsOK, RestOK
<1>2. /\ ops[o].pc = "run" /\ ops[o].status = "running" /\ UNCHANGED making
      /\ Fault \/ UNCHANGED bounds
  BY <1>1 DEF Label, LabelFails, Labels, OperationOK, system
<1>3. faults <= faults'
  BY <1>2, BoundsMove DEF Typed, RestOK
<1>4. CASE Ends(o, "failed") /\ UNCHANGED hist
  BY <1>1, <1>2, <1>3, <1>4, EndsMoves, RecordsBefore
<1>5. ASSUME NEW v \in {"success", "failed"}, Ends(o, v), v = "failed" => o \in hist'.slow,
             hist'.done = hist.done \cup {o}, hist'.wiped = hist.wiped,
             hist'.slow \in {hist.slow, hist.slow \cup {o}},
             hist'.dead = hist.dead, hist'.harmed = hist.harmed, hist'.late = hist.late
      PROVE  Records'
  <2>2. Only(o) /\ ops'[o].pc = "save" /\ ops'[o].verdict = v /\ ops'[o].status = "running"
    BY <1>1, <1>2, <1>5, EndsMoves
  <2>3. o \notin hist.wiped
    BY <1>2 DEF Records, Untouched
  <2>4. \A d \in Disks : making[d] # o
    BY <2>3, UntouchedIsIdle
  <2>5. Others(o)
    BY <1>2, <1>5, <2>2 DEF Others, Only
  <2>6. Untouched(o)' /\ Recorded(o)'
    BY <1>2, <1>5, <2>2, <2>3, <2>4 DEF Untouched, Recorded, Says
  <2>7. Making'
    BY <1>2, <1>5, <2>2, <2>4 DEF Records, Making, Only, Typed, DisksOK
  <2>8. OnlyUnusedIsWiped' /\ hist'.harmed \subseteq hist'.wiped
    <3>1. hist.harmed \subseteq Ops
      BY <1>1 DEF History
    <3>2. QED
      BY <1>5, <2>2, <3>1 DEF Records, OnlyUnusedIsWiped, Only
  <2>9. QED
    BY <1>1, <1>3, <2>5, <2>6, <2>7, <2>8, RecordsMove
<1>6. CASE Label(o)
  <2>1. CASE Ends(o, "success") /\ hist' = Labelled(o)
    BY <1>1, <1>5, <2>1, LabelledHistory
  <2>2. QED
    BY <1>4, <1>6, <2>1 DEF Label
<1>7. CASE LabelFails(o)
  <2>1. Ends(o, "failed")
    BY <1>7 DEF LabelFails
  <2>2. CASE hist' = hist
    BY <1>4, <2>1, <2>2
  <2>3. CASE hist' # hist
    BY <1>1, <1>5, <1>7, <2>1, <2>3, LabelFailsHistory
  <2>4. QED
    BY <2>2, <2>3
<1>8. QED
  BY <1>6, <1>7

\* A format begins to write: nobody has used the volume since it was checked, unless
\* the record of lateness says so.
LEMMA MkfsRecords ==
  ASSUME Typed, Typed', Records, Watched, NEW o \in Ops, Mkfs(o)
  PROVE  Records'
<1>1. OpsOK /\ BoundsOK' /\ OperationOK(o) /\ hist \in History /\ DisksOK /\ HostOK
  BY DEF Typed, OpsOK, RestOK
<1>2. /\ ops[o].pc = "run" /\ ops[o].action = "format" /\ ops[o].status = "running"
      /\ ops[o].node \in Nodes /\ UNCHANGED faults
  BY <1>1 DEF Mkfs, OperationOK, bounds
<1>3. faults <= faults'
  BY <1>2, BoundsAssumption DEF Typed, RestOK, BoundsOK
<1>4. CASE Ends(o, "failed") /\ UNCHANGED <<fs, making, hist, old>>
  BY <1>1, <1>2, <1>3, <1>4, EndsMoves, RecordsBefore
<1> DEFINE d == DiskOf(o)
<1>5. CASE /\ ~Refuses(o) /\ Step(o, "wait") /\ making' = [making EXCEPT ![d] = o]
           /\ hist' = [hist EXCEPT !.wiped = @ \cup {o},
                        !.harmed = IF InUse(d) THEN @ \cup {o} ELSE @,
                        !.late = IF d \in open /\ d \in hist.lazy THEN @ \cup {o} ELSE @,
                        !.wrong = @ \/ (o \notin old /\ fs[d].id # ops[o].seen)]
  <2>1. /\ hist'.done = hist.done /\ hist'.wiped = hist.wiped \cup {o} /\ hist'.slow = hist.slow
        /\ hist'.dead = hist.dead
        /\ hist'.harmed = IF InUse(d) THEN hist.harmed \cup {o} ELSE hist.harmed
        /\ hist'.late = IF d \in open /\ d \in hist.lazy THEN hist.late \cup {o} ELSE hist.late
    BY <1>1, <1>5 DEF History
  <2>2. Only(o) /\ ops'[o].pc = "wait" /\ ops'[o].status = "running"
    BY <1>1, <1>2, <1>5, StepMoves
  <2>3. d \in Disks
    BY <1>1, <1>2 DEF DiskOf, DisksOK
  <2>4. o \notin hist.wiped \cup hist.done \cup hist.slow
    BY <1>2 DEF Records, Untouched
  <2>5. \A e \in Disks : making[e] # o
    BY <2>4, UntouchedIsIdle
  <2>6. \A e \in Disks : making'[e] = IF e = d THEN o ELSE making[e]
    BY <1>1, <1>5, <2>3 DEF DisksOK
  <2> HIDE DEF d
  <2>7. Others(o)
    BY <2>1, <2>2, <2>6 DEF Others, Only
  <2>8. Untouched(o)' /\ Recorded(o)'
    BY <2>1, <2>2, <2>4 DEF Untouched, Recorded, Says
  <2>9. Making'
    <3>1. ASSUME NEW e \in Disks, making'[e] # None
          PROVE  /\ making'[e] \in hist'.wiped \ hist'.done
                 /\ ops'[making'[e]].action = "format" /\ ops'[making'[e]].status # "none"
      <4>1. CASE e = d
        BY <1>2, <2>1, <2>2, <2>4, <2>6, <4>1 DEF Only
      <4>2. CASE e # d
        <5>1. making'[e] = making[e] /\ making[e] # o /\ making[e] \in Ops
          BY <1>1, <2>5, <2>6, <3>1, <4>2 DEF DisksOK
        <5>2. /\ making[e] \in hist.wiped \ hist.done
              /\ ops[making[e]].action = "format" /\ ops[making[e]].status # "none"
          BY <3>1, <5>1 DEF Records, Making
        <5>3. QED
          BY <2>1, <2>2, <5>1, <5>2 DEF Only
      <4>3. QED
        BY <4>1, <4>2
    <3>2. ASSUME NEW e \in Disks, NEW f \in Disks, making'[e] # None, making'[e] = making'[f]
          PROVE  e = f
      BY <2>5, <2>6, <3>2 DEF Records, Making
    <3>3. QED
      BY <3>1, <3>2 DEF Making
  <2>10. hist'.harmed \subseteq hist'.wiped
    BY <2>1 DEF Records
  <2>11. OnlyUnusedIsWiped'
    <3>1. ASSUME InUse(d)
          PROVE  ops[o].type \in Forced /\ o \in hist'.late
      <4>1. ops[o].type \in Forced
        BY <1>5, <3>1 DEF Refuses, d
      <4>2. CASE References(d) # {}
        <5>1. o \in hist.late
          BY <1>2, <4>2 DEF Watched, Checked, d
        <5>2. QED
          BY <2>1, <4>1, <5>1
      <4>3. CASE d \in open
        <5>1. d \in hist.lazy
          BY <4>3 DEF Watched
        <5>2. QED
          BY <2>1, <4>1, <4>3, <5>1
      <4>4. QED
        BY <3>1, <4>1, <4>2, <4>3 DEF InUse
    <3>2. ASSUME NEW x \in hist'.harmed
          PROVE  ops'[x].type \in Forced /\ x \in hist'.late
      <4>1. CASE x = o
        <5>1. InUse(d)
          BY <2>1, <2>4, <3>2, <4>1 DEF Records
        <5>2. QED
          BY <2>2, <3>1, <4>1, <5>1 DEF Only
      <4>2. CASE x # o
        <5>1. x \in hist.harmed /\ x \in Ops
          BY <1>1, <2>1, <3>2, <4>2 DEF History
        <5>2. ops'[x] = ops[x]
          BY <2>2, <4>2, <5>1 DEF Only
        <5>3. QED
          BY <2>1, <5>1, <5>2 DEF Records, OnlyUnusedIsWiped
      <4>3. QED
        BY <4>1, <4>2
    <3>3. QED
      BY <3>2 DEF OnlyUnusedIsWiped
  <2>12. QED
    BY <1>1, <1>3, <2>7, <2>8, <2>9, <2>10, <2>11, RecordsMove
<1>6. QED
  BY <1>4, <1>5 DEF Mkfs

\* The end of a worker: a timeout, its record, its death.
LEMMA StopRecords ==
  ASSUME Typed, Typed', Records, NEW o \in Ops, MkfsTimesOut(o) \/ Save(o) \/ WorkerDies(o)
  PROVE  Records'
<1>1. OpsOK /\ BoundsOK /\ BoundsOK' /\ OperationOK(o) /\ hist \in History
  BY DEF Typed, OpsOK, RestOK
<1>2. /\ UNCHANGED making /\ (Fault \/ UNCHANGED bounds)
      /\ hist' = hist \/ hist' = [hist EXCEPT !.slow = @ \cup {o}] \/ hist' = [hist EXCEPT !.dead = @ \cup {o}]
  BY DEF MkfsTimesOut, Save, WorkerDies, system
<1>3. faults <= faults'
  BY <1>1, <1>2, BoundsMove
<1>4. /\ hist'.done = hist.done /\ hist'.wiped = hist.wiped /\ hist'.harmed = hist.harmed
      /\ hist'.late = hist.late
      /\ hist'.slow \in {hist.slow, hist.slow \cup {o}} /\ hist'.dead \in {hist.dead, hist.dead \cup {o}}
  BY <1>1, <1>2 DEF History
<1>5. Recorded(o) /\ Untouched(o)
  BY DEF Records
<1>6. /\ Only(o) /\ ops'[o].status # "none" /\ Untouched(o)' /\ Recorded(o)'
  <2>1. CASE MkfsTimesOut(o)
    <3>1. ops[o].pc = "wait" /\ Ends(o, "failed") /\ hist' = [hist EXCEPT !.slow = @ \cup {o}]
      BY <2>1 DEF MkfsTimesOut, TimedOut
    <3>2. ops[o].status = "running" /\ o \in hist'.slow
      BY <1>1, <3>1 DEF OperationOK, History
    <3>3. Only(o) /\ ops'[o].pc = "save" /\ ops'[o].verdict = "failed" /\ ops'[o].status = "running"
      BY <1>1, <3>1, <3>2, EndsMoves
    <3>4. Untouched(o)'
      BY <3>3 DEF Untouched
    <3>5. QED
      BY <3>2, <3>3, <3>4 DEF Recorded, Says
  <2>2. CASE Save(o)
    <3>1. /\ ops[o].pc = "save" /\ UNCHANGED hist
          /\ ops' = [ops EXCEPT ![o].pc = "none", ![o].status = ops[o].verdict, ![o].verdict = "none"]
      BY <2>2 DEF Save
    <3>2. ops[o].verdict \in {"success", "failed"} /\ Says(o, ops[o].verdict)
      BY <1>1, <1>5, <3>1 DEF Recorded, OpsOK, Operation
    <3>3. Only(o) /\ ops'[o].pc = "none" /\ ops'[o].status = ops[o].verdict
      BY <1>1, <3>1, <3>2, StopsMoves
    <3>4. Untouched(o)'
      BY <3>2, <3>3 DEF Untouched
    <3>5. UNCHANGED faults
      BY <2>2 DEF Save, bounds
    <3>6. Recorded(o)'
      BY <1>2, <3>1, <3>2, <3>3, <3>5 DEF Recorded, Says
    <3>7. QED
      BY <3>2, <3>3, <3>4, <3>6
  <2>3. CASE WorkerDies(o)
    <3>1. /\ ops[o].pc # "none" /\ hist' = [hist EXCEPT !.dead = @ \cup {o}]
          /\ ops' = [ops EXCEPT ![o].pc = "none", ![o].verdict = "none"]
      BY <2>3 DEF WorkerDies
    <3>2. ops[o].status = "running" /\ o \in hist'.dead
      BY <1>1, <3>1 DEF OperationOK, History
    <3>3. Only(o) /\ ops'[o].pc = "none" /\ ops'[o].status = "running"
      BY <1>1, <3>1, <3>2, DiesMoves
    <3>4. Untouched(o)'
      BY <3>3 DEF Untouched
    <3>5. QED
      BY <3>2, <3>3, <3>4 DEF Recorded, Says
  <2>4. QED
    BY <2>1, <2>2, <2>3
<1>7. Others(o)
  BY <1>2, <1>4, <1>6 DEF Others, Only
<1>8. Making'
  <2>1. ASSUME NEW e \in Disks, making[e] # None
        PROVE  ops'[making[e]].action = "format" /\ ops'[making[e]].status # "none"
    <3>1. making[e] \in Ops
      BY <2>1 DEF Typed, DisksOK
    <3>2. ops[making[e]].action = "format" /\ ops[making[e]].status # "none"
      BY <2>1 DEF Records, Making
    <3>3. QED
      BY <1>6, <3>1, <3>2 DEF Only
  <2>2. QED
    BY <1>2, <1>4, <2>1 DEF Records, Making
<1>9. OnlyUnusedIsWiped' /\ hist'.harmed \subseteq hist'.wiped
  <2>1. hist.harmed \subseteq Ops
    BY <1>1 DEF History
  <2>2. QED
    BY <1>4, <1>6, <2>1 DEF Records, OnlyUnusedIsWiped, Only
<1>10. QED
  BY <1>1, <1>3, <1>6, <1>7, <1>8, <1>9, RecordsMove

\* A mkfs ends: whoever waits for it records what it is told, and whoever does not
\* has been recorded as failed and slow, or is dead.
LEMMA EndRecords ==
  ASSUME Typed, Typed', Records, NEW d \in Disks, MkfsEnds(d) \/ MkfsFails(d)
  PROVE  Records'
<1>1. OpsOK /\ BoundsOK /\ BoundsOK' /\ hist \in History /\ DisksOK
  BY DEF Typed, RestOK
<1>a. PICK o \in Ops : o = making[d]
  BY <1>1 DEF MkfsEnds, MkfsFails, DisksOK
<1>2. o # None /\ o \in Ops /\ o = making[d]
  BY <1>a DEF MkfsEnds, MkfsFails
<1>3. o \in hist.wiped \ hist.done /\ ops[o].action = "format" /\ ops[o].status # "none"
  BY <1>2 DEF Records, Making
<1>4. /\ making' = [making EXCEPT ![d] = None] /\ (Fault \/ UNCHANGED bounds)
      /\ \/ /\ MkfsEnds(d) /\ hist' = [hist EXCEPT !.done = @ \cup {o}]
            /\ ops' = IF ops[o].pc = "wait"
                      THEN [ops EXCEPT ![o].pc = "save", ![o].verdict = "success"] ELSE ops
         \/ /\ Fault /\ hist' = hist
            /\ ops' = IF ops[o].pc = "wait"
                      THEN [ops EXCEPT ![o].pc = "save", ![o].verdict = "failed"] ELSE ops
  BY <1>2 DEF MkfsEnds, MkfsFails
<1>5. faults <= faults' /\ (Fault => faults' > 0)
  BY <1>1, <1>4, BoundsMove
<1>6. \A e \in Disks : /\ making'[e] = IF e = d THEN None ELSE making[e]
                       /\ making'[e] # o
  BY <1>1, <1>2, <1>4 DEF DisksOK, Records, Making
<1>7. /\ hist'.wiped = hist.wiped /\ hist'.slow = hist.slow /\ hist'.dead = hist.dead
      /\ hist'.harmed = hist.harmed /\ hist'.late = hist.late
      /\ hist'.done \in {hist.done, hist.done \cup {o}}
  BY <1>1, <1>4 DEF History
<1>8. Only(o) /\ ops'[o].status = ops[o].status /\ (ops[o].pc # "wait" => ops' = ops)
  BY <1>1, <1>2, <1>4, EndOps
<1>9. Recorded(o) /\ Untouched(o) /\ OperationOK(o)
  BY <1>1, <1>2 DEF Records, OpsOK
<1>10. Recorded(o)' /\ Untouched(o)'
  <2>1. CASE ops[o].pc = "wait"
    <3>1. ops[o].status = "running"
      BY <1>9, <2>1 DEF OperationOK
    <3>2. CASE hist' = [hist EXCEPT !.done = @ \cup {o}] /\
               ops' = [ops EXCEPT ![o].pc = "save", ![o].verdict = "success"]
      <4>1. Ends(o, "success")
        BY <3>2 DEF Ends
      <4>2. ops'[o].pc = "save" /\ ops'[o].verdict = "success" /\ o \in hist'.done
        BY <1>1, <1>2, <3>2, <4>1, EndsMoves DEF History
      <4>3. QED
        BY <1>8, <3>1, <4>2 DEF Recorded, Says, Untouched
    <3>3. CASE Fault /\ hist' = hist /\
               ops' = [ops EXCEPT ![o].pc = "save", ![o].verdict = "failed"]
      <4>1. Ends(o, "failed")
        BY <3>3 DEF Ends
      <4>2. ops'[o].pc = "save" /\ ops'[o].verdict = "failed"
        BY <1>1, <1>2, <4>1, EndsMoves
      <4>3. o \notin hist'.done /\ faults' > 0
        BY <1>3, <1>5, <3>3
      <4>4. QED
        BY <1>6, <1>8, <3>1, <4>2, <4>3 DEF Recorded, Says, Untouched
    <3>4. QED
      BY <1>4, <2>1, <3>2, <3>3
  <2>2. CASE ops[o].pc # "wait"
    <3>1. ops' = ops
      BY <1>8, <2>2
    <3>2. Untouched(o)'
      BY <1>3, <1>9, <3>1 DEF Untouched
    <3>3. faults \in Nat /\ faults' \in Nat
      BY <1>1, BoundsAssumption DEF BoundsOK
    <3>4. \A v : Says(o, v) => Says(o, v)'
      BY <1>2, <1>3, <1>5, <1>6, <1>7, <3>3 DEF Says
    <3>5. Recorded(o)'
      BY <1>7, <1>9, <2>2, <3>1, <3>4 DEF Recorded
    <3>6. QED
      BY <3>2, <3>5
  <2>3. QED
    BY <2>1, <2>2
<1>11. Others(o)
  BY <1>2, <1>6, <1>7, <1>8, Numbers DEF Others, Only
<1>12. Making'
  <2>1. ASSUME NEW e \in Disks, making'[e] # None
        PROVE  /\ making'[e] \in hist'.wiped \ hist'.done
               /\ ops'[making'[e]].action = "format" /\ ops'[making'[e]].status # "none"
    <3>1. e # d /\ making'[e] = making[e] /\ making[e] # o /\ making[e] \in Ops
      BY <1>1, <1>6, <2>1 DEF DisksOK
    <3>2. /\ making[e] \in hist.wiped \ hist.done
          /\ ops[making[e]].action = "format" /\ ops[making[e]].status # "none"
      BY <2>1, <3>1 DEF Records, Making
    <3>3. QED
      BY <1>7, <1>8, <3>1, <3>2 DEF Only
  <2>2. ASSUME NEW e \in Disks, NEW f \in Disks, making'[e] # None, making'[e] = making'[f]
        PROVE  e = f
    BY <1>6, <2>2 DEF Records, Making
  <2>3. QED
    BY <2>1, <2>2 DEF Making
<1>13. OnlyUnusedIsWiped' /\ hist'.harmed \subseteq hist'.wiped
  <2>1. hist.harmed \subseteq Ops
    BY <1>1 DEF History
  <2>2. QED
    BY <1>7, <1>8, <2>1 DEF Records, OnlyUnusedIsWiped, Only
<1>14. QED
  BY <1>1, <1>2, <1>5, <1>10, <1>11, <1>12, <1>13, RecordsMove

\* A new record.
LEMMA StartRecords ==
  ASSUME Typed, Typed', Records, Start \/ StartFails
  PROVE  Records'
<1>1. OpsOK /\ BoundsOK /\ BoundsOK' /\ hist \in History /\ DisksOK /\ RequestOK
  BY DEF Typed, RestOK
<1>2. NextOp \in Ops /\ ops[NextOp].status = "none"
  BY NextOpIsFree DEF Start, StartFails
<1>3. UNCHANGED <<making, hist>> /\ (Fault \/ UNCHANGED bounds)
  BY DEF Start, StartFails, system
<1>4. faults <= faults'
  BY <1>1, <1>3, BoundsMove
<1>5. ops' \in {[ops EXCEPT ![NextOp] = New("running", "begin")], [ops EXCEPT ![NextOp] = NewFailed]}
  BY DEF Start, StartFails, New, NewFailed
<1>6. PICK o \in Ops : o = NextOp /\ ops[o].status = "none"
  BY <1>2
<1>7. o \notin hist.wiped \cup hist.done \cup hist.slow
  BY <1>6 DEF Records, Untouched
<1>8. \A d \in Disks : making[d] # o
  BY <1>6, <1>7, UntouchedIsIdle
<1>9. /\ \A x \in Ops : x # o => ops'[x] = ops[x]
      /\ \/ ops'[o].pc = "begin" /\ ops'[o].status = "running"
         \/ ops'[o].pc = "none" /\ ops'[o].status = "failed"
  BY <1>1, <1>2, <1>5, <1>6, NewTyped DEF OpsOK, RequestOK
<1>10. Others(o)
  BY <1>3, <1>9 DEF Others
<1>11. Untouched(o)' /\ Recorded(o)'
  BY <1>3, <1>7, <1>8, <1>9 DEF Untouched, Recorded, Says
<1>12. Making'
  <2>1. ASSUME NEW e \in Disks, making[e] # None
        PROVE  ops'[making[e]] = ops[making[e]]
    BY <1>1, <1>8, <1>9, <2>1 DEF DisksOK
  <2>2. QED
    BY <1>3, <2>1 DEF Records, Making
<1>13. OnlyUnusedIsWiped' /\ hist'.harmed \subseteq hist'.wiped
  <2>1. hist.harmed \subseteq Ops /\ o \notin hist.harmed
    BY <1>1, <1>7 DEF History, Records
  <2>2. QED
    BY <1>3, <1>9, <2>1 DEF Records, OnlyUnusedIsWiped
<1>14. QED
  BY <1>1, <1>4, <1>6, <1>10, <1>11, <1>12, <1>13, RecordsMove

LEMMA StepRecords ==
  ASSUME Typed, Typed', Records, Watched, [Next]_vars
  PROVE  Records'
<1>1. hist \in History /\ BoundsOK /\ BoundsOK' /\ OpsOK
  BY DEF Typed, RestOK
<1>2. ASSUME /\ UNCHANGED <<making, ops>>
             /\ \/ Fault \/ Outside \/ UNCHANGED bounds
                \/ acts < MaxActs /\ acts' = acts + 1 /\ UNCHANGED <<outside, faults>>
             /\ \/ hist' = hist
                \/ \E d : hist' = [hist EXCEPT !.late = @ \cup Late(d)]
                \/ \E L, w : hist' = [hist EXCEPT !.lazy = L, !.wrong = w]
                \/ \E L : hist' = [hist EXCEPT !.lazy = L]
      PROVE  Records'
  <2>1. faults <= faults'
    BY <1>1, <1>2, BoundsMove
  <2>2. /\ hist'.done = hist.done /\ hist'.wiped = hist.wiped /\ hist'.slow = hist.slow
        /\ hist'.dead = hist.dead /\ hist'.harmed = hist.harmed /\ hist.late \subseteq hist'.late
    BY <1>1, <1>2 DEF History
  <2>3. QED
    BY <1>1, <1>2, <2>1, <2>2, RecordsFrame
<1>3. CASE UNCHANGED vars
  BY <1>2, <1>3 DEF vars, system
<1>4. CASE Users
  BY <1>2, <1>4 DEF Users, HostMounts, HostUnmounts, AppStarts, AppStops, Replug
<1>5. CASE ReadMounts \/ ReadVolumes \/ LsblkFails
  BY <1>2, <1>5 DEF ReadMounts, ReadVolumes, LsblkFails, system
<1>6. CASE Post
  <2>1. PageOK
    BY DEF Typed
  <2>2. UNCHANGED <<system, ops, hist>> /\ acts < MaxActs /\ acts' = acts + 1 /\ UNCHANGED <<outside, faults>>
    BY <1>6, <2>1, Posted
  <2>3. QED
    BY <1>2, <2>2 DEF system
<1>7. CASE Mount
  BY <1>2, <1>7 DEF Mount
<1>8. CASE Umount
  <2>1. UNCHANGED hist \/ \E L, w : hist' = [hist EXCEPT !.lazy = L, !.wrong = w]
    BY <1>8, Zenon DEF Umount
  <2>2. UNCHANGED <<making, ops, bounds>>
    BY <1>8 DEF Umount
  <2>3. QED
    BY <1>2, <2>1, <2>2
<1>9. CASE Release
  <2>1. UNCHANGED hist \/ \E L : hist' = [hist EXCEPT !.lazy = L]
    BY <1>9, Zenon DEF Release
  <2>2. UNCHANGED <<making, ops, bounds>>
    BY <1>9 DEF Release
  <2>3. QED
    BY <1>2, <2>1, <2>2
<1>10. CASE Remember \/ CheckHost \/ CheckHostFails \/ CheckReferences \/ ReleaseFails \/ Released \/ Recheck
               \/ RequestTimesOut
  BY <1>2, <1>10 DEF Remember, CheckHost, CheckHostFails, CheckReferences, ReleaseFails, Released,
                     Recheck, RequestTimesOut, system
<1>11. CASE Start \/ StartFails
  BY <1>11, StartRecords
<1>12. ASSUME NEW o \in Ops, Begin(o) \/ WorkerChecksHost(o) \/ WorkerCheckFails(o) \/ WorkerChecksReferences(o)
       PROVE  Records'
  <2>1. UNCHANGED <<making, hist>> /\ (Fault \/ UNCHANGED bounds)
    BY <1>12 DEF Begin, WorkerChecksHost, WorkerCheckFails, WorkerChecksReferences, system
  <2>2. faults <= faults'
    BY <1>1, <2>1, BoundsMove
  <2>3. ops[o].pc \in {"begin", "host", "refs", "run"}
        /\ (Ends(o, "failed") \/ \E pc \in {"host", "refs", "run"} : Step(o, pc))
    BY <1>12 DEF Begin, WorkerChecksHost, WorkerCheckFails, WorkerChecksReferences
  <2>4. CASE Ends(o, "failed")
    BY <1>1, <2>1, <2>2, <2>3, <2>4, EndsMoves, RecordsBefore
  <2>5. ASSUME NEW pc \in {"host", "refs", "run"}, Step(o, pc)
        PROVE  Records'
    BY <1>1, <2>1, <2>2, <2>3, <2>5, StepMoves, RecordsBefore
  <2>6. QED
    BY <2>3, <2>4, <2>5
<1>13. ASSUME NEW o \in Ops, Worker(o)
       PROVE  Records'
  BY <1>12, <1>13, LabelRecords, MkfsRecords, StopRecords DEF Worker
<1>14. ASSUME NEW d \in Disks, MkfsEnds(d) \/ MkfsFails(d)
       PROVE  Records'
  BY <1>14, EndRecords
<1>15. QED
  BY <1>3, <1>4, <1>5, <1>6, <1>7, <1>8, <1>9, <1>10, <1>11, <1>13, <1>14
     DEF Next, Browser, Handler, Post

-----------------------------------------------------------------------------
(* What is known of the use of volumes *)

\* Mounts that only become fewer are no news, ...
LEMMA WatchedFewer ==
  ASSUME Watched, UNCHANGED <<disk, ops>>,
         \A m \in Dirs : Range(host'[m]) \subseteq Range(host[m]),
         \A a \in Apps : held'[a] \subseteq held[a],
         hist.late \subseteq hist'.late, open' \subseteq hist'.lazy
  PROVE  Watched'
<1>1. ASSUME NEW o \in Ops
      PROVE  Checked(o)'
  <2>1. References(DiskOf(o))' \subseteq References(DiskOf(o))
    BY DEF References, MountedOn, DiskOf
  <2>2. Checked(o)
    BY DEF Watched
  <2>3. QED
    BY <2>1, <2>2 DEF Checked
<1>2. QED
  BY <1>1 DEF Watched

\* ... and a new one makes those late that have checked its volume.
LEMMA WatchedMount ==
  ASSUME Typed, Watched, NEW d \in Disks, NEW m \in Dirs, host' = On(m, d),
         hist' = [hist EXCEPT !.late = @ \cup Late(d)], UNCHANGED <<disk, ops, held, open>>
  PROVE  Watched'
<1>1. hist'.late = hist.late \cup Late(d) /\ hist'.lazy = hist.lazy
  BY DEF Typed, RestOK, History
<1>2. \A x \in Dirs : Range(host'[x]) = IF x = m THEN Range(host[x]) \cup {d} ELSE Range(host[x])
  <2>1. HostOK
    BY DEF Typed
  <2>2. \A x \in Dirs : Range(On(m, d)[x]) = IF x = m THEN Range(host[x]) \cup {d} ELSE Range(host[x])
    BY <2>1, HostMoves
  <2>3. QED
    BY <2>2
<1>3. ASSUME NEW o \in Ops
      PROVE  Checked(o)'
  <2>1. Checked(o)
    BY DEF Watched
  <2>2. CASE DiskOf(o) = d
    BY <1>1, <2>2 DEF Checked, Late, DiskOf
  <2>3. CASE DiskOf(o) # d
    <3>1. References(DiskOf(o))' \subseteq References(DiskOf(o))
      BY <1>2, <2>3 DEF References, MountedOn, DiskOf
    <3>2. QED
      BY <1>1, <2>1, <3>1 DEF Checked
  <2>4. QED
    BY <2>2, <2>3
<1>4. QED
  BY <1>1, <1>3 DEF Watched

\* A worker that has found nothing is the only one to begin its command.
LEMMA WatchedWork ==
  ASSUME Typed, Watched, UNCHANGED <<disk, host, held, open>>,
         hist.late \subseteq hist'.late, hist.lazy \subseteq hist'.lazy,
         \A o \in Ops : ops'[o].pc = "run" /\ ops'[o].action = "format" =>
           \/ ops[o].pc = "run" /\ ops[o].action = "format" /\ ops'[o].node = ops[o].node
           \/ ops'[o].node = ops[o].node /\ References(DiskOf(o)) = {}
  PROVE  Watched'
<1>1. ASSUME NEW o \in Ops
      PROVE  Checked(o)'
  <2>1. Checked(o)
    BY DEF Watched
  <2>2. ASSUME ops'[o].node = ops[o].node
        PROVE  References(DiskOf(o))' \subseteq References(DiskOf(o))
    BY <2>2 DEF References, MountedOn, DiskOf
  <2>3. QED
    BY <2>1, <2>2 DEF Checked
<1>2. QED
  BY <1>1 DEF Watched

LEMMA WatchedUsers ==
  ASSUME Typed, Watched, Users
  PROVE  Watched'
<1>1. HostOK /\ DisksOK /\ OpsOK
  BY DEF Typed
<1>2. ASSUME NEW d \in Disks, NEW m \in Dirs, HostMounts(d, m)
      PROVE  Watched'
  BY <1>2, WatchedMount DEF HostMounts
<1>3. ASSUME NEW m \in Dirs, HostUnmounts(m)
      PROVE  Watched'
  <2>1. host[m] # << >> /\ host' = Off(m) /\ UNCHANGED <<disk, ops, held, open, hist>>
    BY <1>3 DEF HostUnmounts
  <2>2. Disks # {}
    BY DisksAssumption, <1>1 DEF DisksOK
  <2>3. \A x \in Dirs : Range(host'[x]) \subseteq Range(host[x])
    BY <1>1, <2>1, <2>2, HostMoves
  <2>4. QED
    BY <2>1, <2>3, WatchedFewer DEF Watched
<1>4. ASSUME NEW a \in Apps, AppStarts(a)
      PROVE  Watched'
  <2>1. /\ held' = [held EXCEPT ![a] = UNION {Range(host[m]) : m \in Dirs}]
        /\ UNCHANGED <<disk, host, open, ops, hist>>
    BY <1>4 DEF AppStarts
  <2>2. ASSUME NEW o \in Ops
        PROVE  Checked(o)'
    <3>1. Checked(o)
      BY DEF Watched
    <3>2. References(DiskOf(o))' # {} => References(DiskOf(o)) # {}
      <4>1. SUFFICES ASSUME NEW r \in References(DiskOf(o))'
                     PROVE  References(DiskOf(o)) # {}
        OBVIOUS
      <4>2. DiskOf(o)' = DiskOf(o)
        BY <2>1 DEF DiskOf
      <4>3. r \in References(DiskOf(o)) \/ DiskOf(o) \in UNION {Range(host[m]) : m \in Dirs}
        BY <1>1, <2>1, <4>1 DEF References, MountedOn, DiskOf, HostOK
      <4>4. QED
        BY <4>3 DEF References, MountedOn
    <3>3. QED
      BY <2>1, <3>1, <3>2 DEF Checked
  <2>3. QED
    BY <2>1, <2>2 DEF Watched
<1>5. ASSUME NEW a \in Apps, AppStops(a)
      PROVE  Watched'
  <2>1. held' = [held EXCEPT ![a] = {}] /\ open' = {} /\ UNCHANGED <<disk, host, ops, hist>>
    BY <1>5 DEF AppStops
  <2>2. \A x \in Apps : held'[x] \subseteq held[x]
    BY <1>1, <2>1 DEF HostOK
  <2>3. QED
    BY <2>1, <2>2, WatchedFewer
<1>6. ASSUME NEW n \in Nodes, NEW k \in Nodes, Replug(n, k)
      PROVE  Watched'
  <2>1. /\ UNCHANGED <<host, held, open, ops, hist>>
        /\ References(disk[n]) = {} /\ References(disk[k]) = {}
    BY <1>6 DEF Replug, InUse
  <2>2. /\ disk'[n] = disk[k] /\ disk'[k] = disk[n]
        /\ \A x \in Nodes : x # n /\ x # k => disk'[x] = disk[x]
    BY <1>1, <1>6, ReplugTyped
  <2>3. ASSUME NEW o \in Ops
        PROVE  Checked(o)'
    <3>1. Checked(o)
      BY DEF Watched
    <3>2. ops[o].pc = "run" => ops[o].node \in Nodes
      BY <1>1 DEF OpsOK, OperationOK
    <3>3. ASSUME ops[o].node = n \/ ops[o].node = k
          PROVE  References(DiskOf(o))' = {}
      BY <2>1, <2>2, <3>3 DEF References, MountedOn, DiskOf
    <3>4. ASSUME ops[o].node \in Nodes, ops[o].node # n, ops[o].node # k
          PROVE  References(DiskOf(o))' = References(DiskOf(o))
      BY <2>1, <2>2, <3>4 DEF References, MountedOn, DiskOf
    <3>5. QED
      BY <2>1, <3>1, <3>2, <3>3, <3>4 DEF Checked
  <2>4. QED
    BY <2>1, <2>3 DEF Watched
<1>7. QED
  BY <1>2, <1>3, <1>4, <1>5, <1>6 DEF Users

LEMMA WatchedRequest ==
  ASSUME Typed, Watched, Handler
  PROVE  Watched'
<1>1. HostOK /\ DisksOK /\ OpsOK /\ RequestOK
  BY DEF Typed
<1>2. hist \in History
  BY DEF Typed, RestOK
<1>3. req.pc # "none" => D \in Disks
  BY <1>1 DEF RequestOK, DisksOK, D
<1>4. open \subseteq hist.lazy
  BY DEF Watched
<1>5. CASE Mount
  <2>1. req.at \in Dirs /\ D \in Disks
    BY <1>1, <1>3, <1>5 DEF RequestOK, Mount
  <2>2. UNCHANGED <<disk, ops, held, open>>
    BY <1>5 DEF Mount
  <2>3. CASE UNCHANGED <<host, hist>>
    BY <2>2, <2>3, <1>4, WatchedFewer
  <2>4. CASE host' = On(req.at, D) /\ hist' = [hist EXCEPT !.late = @ \cup Late(D)]
    <3>1. PICK d \in Disks, m \in Dirs : d = D /\ m = req.at
      BY <2>1
    <3>2. host' = On(m, d) /\ hist' = [hist EXCEPT !.late = @ \cup Late(d)]
      BY <2>4, <3>1
    <3>3. QED
      BY <2>2, <3>2, WatchedMount
  <2>5. QED
    BY <1>5, <2>3, <2>4 DEF Mount
<1>6. CASE Umount
  <2>1. UNCHANGED <<disk, ops, held>> /\ req.at \in Dirs /\ D \in Disks
    BY <1>1, <1>3, <1>6 DEF RequestOK, Umount
  <2>2. CASE UNCHANGED <<host, open, hist>>
    BY <2>1, <2>2, <1>4, WatchedFewer
  <2>3. CASE /\ host[req.at] # << >>
             /\ host' = Off(req.at)
             /\ open' \in IF req.force THEN {open, open \cup {Top(req.at)}} ELSE {open}
             /\ hist' = [hist EXCEPT !.lazy = IF req.force THEN @ \cup {Top(req.at)} ELSE @,
                           !.wrong = @ \/ (TheRequest \notin old /\ D \notin Range(host[req.at]))]
    <3>1. \A x \in Dirs : Range(host'[x]) \subseteq Range(host[x])
      BY <1>1, <2>1, <2>3, HostMoves
    <3>2. /\ hist'.late = hist.late
          /\ hist'.lazy = IF req.force THEN hist.lazy \cup {Top(req.at)} ELSE hist.lazy
      BY <1>2, <2>3 DEF History
    <3>3. open' \subseteq hist'.lazy
      BY <1>4, <2>3, <3>2
    <3>4. QED
      BY <2>1, <3>1, <3>2, <3>3, WatchedFewer
  <2>4. QED
    BY <1>6, <2>2, <2>3 DEF Umount
<1>7. CASE Release
  <2> DEFINE r == CHOOSE x \in req.refs : TRUE
             here == IF r \in Dirs THEN host[r] # << >> ELSE D \in held[r]
             d == IF r \in Dirs THEN Top(r) ELSE D
  <2>1. UNCHANGED <<disk, ops>> /\ D \in Disks
    BY <1>3, <1>7 DEF Release
  <2>2. CASE UNCHANGED <<host, held, open, hist>>
    BY <2>1, <2>2, <1>4, WatchedFewer
  <2>3. CASE /\ here
             /\ host' = IF r \in Dirs THEN Off(r) ELSE host
             /\ held' = IF r \in Apps THEN [held EXCEPT ![r] = @ \ {d}] ELSE held
             /\ open' \in {open, open \cup {d}}
             /\ hist' = [hist EXCEPT !.lazy = @ \cup {d}]
    <3> HIDE DEF r
    <3>1. \A x \in Dirs : Range(host'[x]) \subseteq Range(host[x])
      BY <1>1, <2>1, <2>3, HostMoves
    <3> HIDE DEF d
    <3>2. \A x \in Apps : held'[x] \subseteq held[x]
      BY <1>1, <2>3 DEF HostOK
    <3>3. hist'.late = hist.late /\ hist'.lazy = hist.lazy \cup {d}
      BY <1>2, <2>3 DEF History
    <3>4. open' \subseteq hist'.lazy
      BY <1>4, <2>3, <3>3
    <3>5. QED
      BY <2>1, <3>1, <3>2, <3>3, <3>4, WatchedFewer
  <2>4. QED
    BY <1>7, <2>2, <2>3 DEF Release
<1>8. CASE Start \/ StartFails
  <2>1. NextOp \in Ops
    BY <1>8, NextOpIsFree DEF Start, StartFails
  <2>2. ops' \in {[ops EXCEPT ![NextOp] = New("running", "begin")], [ops EXCEPT ![NextOp] = NewFailed]}
    BY <1>8 DEF Start, StartFails, New, NewFailed
  <2>3. New("running", "begin").pc = "begin" /\ NewFailed.pc = "none"
    BY <1>1, NewTyped DEF RequestOK
  <2>4. \A o \in Ops : ops'[o].pc = "run" => ops'[o] = ops[o]
    BY <1>1, <2>1, <2>2, <2>3 DEF OpsOK
  <2>5. UNCHANGED <<disk, host, held, open, hist>>
    BY <1>8 DEF Start, StartFails, system
  <2>6. QED
    BY <2>4, <2>5, WatchedWork
<1>9. CASE ~(Mount \/ Umount \/ Release \/ Start \/ StartFails)
  <2>1. UNCHANGED <<disk, host, held, open, ops, hist>>
    BY <1>9 DEF Handler, Remember, CheckHost, CheckHostFails, CheckReferences, ReleaseFails, Released,
                Recheck, RequestTimesOut, system
  <2>2. QED
    BY <1>4, <2>1, WatchedFewer
<1>10. QED
  BY <1>5, <1>6, <1>7, <1>8, <1>9

\* Nothing is found only if there is nothing.
LEMMA FoundNothing ==
  ASSUME NEW d, {} \in Found(d)
  PROVE  References(d) = {}
  BY DEF Found

LEMMA WatchedWorker ==
  ASSUME Typed, Watched, NEW o \in Ops, Worker(o)
  PROVE  Watched'
<1>1. OpsOK /\ Only(o) /\ OperationOK(o)
  BY WorkerOps DEF Typed, OpsOK
<1>2. hist \in History
  BY DEF Typed, RestOK
<1>3. UNCHANGED <<disk, host, held, open>>
  BY DEF Worker, Begin, WorkerChecksHost, WorkerCheckFails, WorkerChecksReferences, Label, LabelFails,
         Mkfs, MkfsTimesOut, Save, WorkerDies, system
<1>4. hist.late \subseteq hist'.late /\ hist.lazy \subseteq hist'.lazy
  <2>1. CASE Mkfs(o)
    <3> DEFINE d == DiskOf(o)
               wiped == hist.wiped \cup {o}
               harmed == IF InUse(d) THEN hist.harmed \cup {o} ELSE hist.harmed
               late == IF d \in open /\ d \in hist.lazy THEN hist.late \cup {o} ELSE hist.late
               wrong == hist.wrong \/ (o \notin old /\ fs[d].id # ops[o].seen)
    <3>1. \/ UNCHANGED hist
          \/ hist' = [hist EXCEPT !.wiped = wiped, !.harmed = harmed, !.late = late, !.wrong = wrong]
      BY <2>1 DEF Mkfs
    <3>2. hist.late \subseteq late
      OBVIOUS
    <3> HIDE DEF wiped, harmed, late, wrong
    <3>3. QED
      BY <1>2, <3>1, <3>2 DEF History
  <2>2. CASE Label(o) \/ LabelFails(o)
    BY <1>2, <2>2, LabelledHistory, LabelFailsHistory DEF Label
  <2>3. CASE ~(Mkfs(o) \/ Label(o) \/ LabelFails(o))
    <3>1. \/ UNCHANGED hist
          \/ hist' = [hist EXCEPT !.slow = @ \cup {o}]
          \/ hist' = [hist EXCEPT !.dead = @ \cup {o}]
      BY <2>3 DEF Worker, Begin, WorkerChecksHost, WorkerCheckFails, WorkerChecksReferences,
                  MkfsTimesOut, Save, WorkerDies
    <3>2. QED
      BY <1>2, <3>1 DEF History
  <2>4. QED
    BY <2>1, <2>2, <2>3
<1>5. ops'[o].pc = "run" /\ ops'[o].action = "format" => References(DiskOf(o)) = {}
  <2>1. CASE Begin(o)
    <3>1. ops'[o].pc = IF ops[o].action = "format" THEN "host" ELSE "run"
      BY <1>1, <2>1, StepMoves DEF Begin
    <3>2. QED
      BY <1>1, <3>1 DEF Only
  <2>2. CASE WorkerChecksReferences(o)
    <3>1. PICK some \in Found(DiskOf(o)) : IF some # {} THEN Ends(o, "failed") ELSE Step(o, "run")
      BY <2>2 DEF WorkerChecksReferences
    <3>2. CASE some # {}
      BY <1>1, <3>1, <3>2, EndsMoves
    <3>3. CASE some = {}
      BY <3>1, <3>3, FoundNothing
    <3>4. QED
      BY <3>2, <3>3
  <2>3. CASE ~(Begin(o) \/ WorkerChecksReferences(o))
    <3>1. \/ \E pc \in {"refs", "wait"} : Step(o, pc)
          \/ \E v \in {"success", "failed"} : Ends(o, v)
          \/ Save(o) \/ WorkerDies(o)
      BY <2>3 DEF Worker, WorkerChecksHost, WorkerCheckFails, Label, LabelFails, Mkfs, MkfsTimesOut,
                  TimedOut
    <3>2. ASSUME NEW pc \in {"refs", "wait"}, Step(o, pc)
          PROVE  ops'[o].pc # "run"
      BY <1>1, <3>2, StepMoves
    <3>3. ASSUME NEW v \in {"success", "failed"}, Ends(o, v)
          PROVE  ops'[o].pc # "run"
      BY <1>1, <3>3, EndsMoves
    <3>4. CASE Save(o)
      <4>1. ops[o].verdict \in {"none", "running", "success", "failed"}
        BY <1>1 DEF OpsOK, Operation
      <4>2. QED
        BY <1>1, <3>4, <4>1, StopsMoves DEF Save
    <3>5. CASE WorkerDies(o)
      BY <1>1, <3>5, DiesMoves DEF WorkerDies
    <3>6. QED
      BY <3>1, <3>2, <3>3, <3>4, <3>5
  <2>4. QED
    BY <2>1, <2>2, <2>3
<1>6. \A x \in Ops : ops'[x].node = ops[x].node /\ (x # o => ops'[x] = ops[x])
  BY <1>1 DEF Only
<1>7. \A x \in Ops : ops'[x].pc = "run" /\ ops'[x].action = "format" =>
        \/ ops[x].pc = "run" /\ ops[x].action = "format" /\ ops'[x].node = ops[x].node
        \/ ops'[x].node = ops[x].node /\ References(DiskOf(x)) = {}
  BY <1>5, <1>6
<1>8. QED
  BY <1>3, <1>4, <1>7, WatchedWork

LEMMA StepWatched ==
  ASSUME Typed, Making, Watched, [Next]_vars
  PROVE  Watched'
<1>1. hist \in History /\ PageOK /\ OpsOK /\ DisksOK
  BY DEF Typed, RestOK
<1>2. open \subseteq hist.lazy
  BY DEF Watched
<1>3. ASSUME UNCHANGED <<disk, host, held, open, ops, hist>>
      PROVE  Watched'
  BY <1>2, <1>3, WatchedFewer
<1>4. CASE UNCHANGED vars
  BY <1>3, <1>4 DEF vars, system
<1>5. CASE ReadMounts \/ ReadVolumes \/ LsblkFails
  BY <1>3, <1>5 DEF ReadMounts, ReadVolumes, LsblkFails, system
<1>6. CASE Post
  <2>1. UNCHANGED <<system, ops, hist>>
    BY <1>1, <1>6, Posted
  <2>2. QED
    BY <1>3, <2>1 DEF system
<1>7. ASSUME NEW d \in Disks, MkfsEnds(d) \/ MkfsFails(d)
      PROVE  Watched'
  <2>1. PICK o \in Ops : o = making[d]
    BY <1>1, <1>7 DEF MkfsEnds, MkfsFails, DisksOK
  <2>2. UNCHANGED <<disk, host, held, open>> /\ hist' \in {hist, [hist EXCEPT !.done = @ \cup {o}]}
    BY <1>7, <2>1 DEF MkfsEnds, MkfsFails
  <2>3. PICK v \in {"success", "failed"} :
          ops' = IF ops[o].pc = "wait" THEN [ops EXCEPT ![o].pc = "save", ![o].verdict = v] ELSE ops
    BY <1>7, <2>1 DEF MkfsEnds, MkfsFails
  <2>4. /\ Only(o) /\ (ops[o].pc = "wait" => ops'[o].pc = "save") /\ (ops[o].pc # "wait" => ops' = ops)
    BY <1>1, <2>3, EndOps
  <2>5. hist'.late = hist.late /\ hist'.lazy = hist.lazy
    BY <1>1, <2>2 DEF History
  <2>6. \A x \in Ops : ops'[x].pc = "run" => ops'[x] = ops[x]
    BY <2>4 DEF Only
  <2>7. QED
    BY <2>2, <2>5, <2>6, WatchedWork
<1>8. QED
  BY <1>4, <1>5, <1>6, <1>7, WatchedUsers, WatchedRequest, WatchedWorker DEF Next, Browser, Post

-----------------------------------------------------------------------------
(* What has been seen *)

\* After a change everybody who is on the way is out of date, ...
LEMMA ViewsStale ==
  ASSUME Views, Changes, UNCHANGED page, hist'.wrong = FALSE,
         req'.pc # "none" => req.pc # "none",
         \A o \in Ops : ops'[o].pc # "none" => ops[o].pc # "none"
  PROVE  Views'
<1>1. page.pc \in {"half", "ready"} => ThePage \in old'
  BY DEF Changes, NoPage, Readers
<1>2. req'.pc # "none" => TheRequest \in old'
  BY DEF Changes, NoRequest, Readers
<1>3. \A o \in Ops : ops'[o].pc # "none" => o \in old'
  BY Numbers DEF Changes, Readers
<1>4. PageSeen' /\ ListedOnce'
  BY <1>1 DEF PageSeen, ListedOnce
<1>5. RequestSeen'
  BY <1>2 DEF RequestSeen
<1>6. \A o \in Ops : OperationSeen(o)'
  BY <1>3 DEF OperationSeen
<1>7. QED
  BY <1>4, <1>5, <1>6 DEF Views, ActsOnWhatWasSeen

\* What a request and an operation go on with.
RequestKeeps ==
  req'.pc # "none" =>
    /\ req.pc # "none" /\ req'.node = req.node /\ req'.seen = req.seen /\ req'.action = req.action
    /\ req'.at = req.at /\ (req'.pc = "umount" => req.pc = "umount")

OperationsKeep ==
  \A o \in Ops : ops'[o].pc # "none" =>
    ops[o].pc # "none" /\ ops'[o].node = ops[o].node /\ ops'[o].seen = ops[o].seen

LEMMA RequestSeenKeeps ==
  ASSUME RequestSeen, UNCHANGED <<disk, fs, host>>, TheRequest \notin old' => TheRequest \notin old,
         RequestKeeps
  PROVE  RequestSeen'
<1>1. SUFFICES ASSUME req'.pc # "none", TheRequest \notin old'
               PROVE  /\ req'.action \in {"format", "label"} => req'.seen = fs'[disk'[req'.node]].id
                      /\ req'.pc = "umount" => disk'[req'.node] \in Range(host'[req'.at])
  BY DEF RequestSeen, D
<1>2. QED
  BY <1>1 DEF RequestSeen, D, RequestKeeps

LEMMA OperationsSeenKeep ==
  ASSUME \A o \in Ops : OperationSeen(o), UNCHANGED <<disk, fs>>, old' \cap Ops = old \cap Ops,
         OperationsKeep
  PROVE  \A o \in Ops : OperationSeen(o)'
<1>1. SUFFICES ASSUME NEW o \in Ops, ops'[o].pc # "none", o \notin old'
               PROVE  ops'[o].seen = fs'[disk'[ops'[o].node]].id
  BY DEF OperationSeen, DiskOf
<1>2. QED
  BY <1>1 DEF OperationSeen, DiskOf, OperationsKeep

\* ... and without one all stays as it was.
LEMMA ViewsKeep ==
  ASSUME Views, UNCHANGED <<disk, fs, host, page, old>>, hist'.wrong = hist.wrong,
         RequestKeeps, OperationsKeep
  PROVE  Views'
<1>1. PageSeen /\ RequestSeen /\ (\A o \in Ops : OperationSeen(o)) /\ ListedOnce /\ ActsOnWhatWasSeen
  BY DEF Views
<1>2. PageSeen'
  <2>1. \A r : Shown(r) => Shown(r)'
    BY DEF Shown
  <2>2. QED
    BY <1>1, <2>1 DEF PageSeen, MountedOn
<1>3. ListedOnce' /\ ActsOnWhatWasSeen'
  BY <1>1 DEF ListedOnce, ActsOnWhatWasSeen
<1>4. RequestSeen'
  BY <1>1, RequestSeenKeeps
<1>5. \A o \in Ops : OperationSeen(o)'
  BY <1>1, OperationsSeenKeep
<1>6. QED
  BY <1>2, <1>3, <1>4, <1>5 DEF Views

LEMMA ViewsUsers ==
  ASSUME Typed, Views, Users
  PROVE  Views'
<1>1. ~hist.wrong /\ hist \in History
  BY DEF Views, ActsOnWhatWasSeen, Typed, RestOK
<1>2. ASSUME NEW a \in Apps, AppStarts(a) \/ AppStops(a)
      PROVE  Views'
  <2>1. UNCHANGED <<disk, fs, host, page, old, req, ops, hist>>
    BY <1>2 DEF AppStarts, AppStops
  <2>2. QED
    BY <2>1, ViewsKeep DEF RequestKeeps, OperationsKeep
<1>3. ASSUME NEW d \in Disks, NEW m \in Dirs, HostMounts(d, m)
      PROVE  Views'
  <2>1. UNCHANGED <<page, req, ops>> /\ Changes /\ hist' = [hist EXCEPT !.late = @ \cup Late(d)]
    BY <1>3 DEF HostMounts
  <2>2. hist'.wrong = FALSE
    BY <1>1, <2>1 DEF History
  <2>3. QED
    BY <2>1, <2>2, ViewsStale
<1>4. ASSUME (\E m \in Dirs : HostUnmounts(m)) \/ (\E n, k \in Nodes : Replug(n, k))
      PROVE  Views'
  <2>1. UNCHANGED <<page, req, ops, hist>> /\ Changes
    BY <1>4 DEF HostUnmounts, Replug
  <2>2. hist'.wrong = FALSE
    BY <1>1, <2>1 DEF History
  <2>3. QED
    BY <2>1, <2>2, ViewsStale
<1>5. QED
  BY <1>2, <1>3, <1>4 DEF Users

\* A page whose mounts have been read: they are there.
LEMMA ViewsMounts ==
  ASSUME Typed, Views, ReadMounts
  PROVE  Views'
<1>1. DisksOK /\ HostOK
  BY DEF Typed
<1>2. PageSeen /\ RequestSeen /\ (\A o \in Ops : OperationSeen(o)) /\ ActsOnWhatWasSeen
  BY DEF Views
<1>3. /\ page'.pc = "half"
      /\ page'.first = {<<NodeOf(Head(host[m])), m>> : m \in {x \in Dirs : host[x] # <<>>}}
      /\ old' = old \ {ThePage} /\ UNCHANGED <<disk, fs, host, req, ops, hist>>
  BY DEF ReadMounts, system
<1>4. ASSUME NEW m \in Dirs, host[m] # << >>
      PROVE  m \in MountedOn(disk[NodeOf(Head(host[m]))])
  <2>1. host[m] \in Seq(Disks)
    BY <1>1 DEF HostOK
  <2>2. Head(host[m]) \in Disks
    BY <1>4, <2>1, HeadTailProperties
  <2>3. Head(host[m]) \in Range(host[m])
    BY <1>4, <2>1, <2>2, Stack
  <2>4. disk[NodeOf(Head(host[m]))] = Head(host[m])
    BY <1>1, <2>2, NodeIsThere
  <2>5. QED
    BY <2>3, <2>4 DEF MountedOn
<1>5. ASSUME NEW x \in page'.first
      PROVE  x[2] \in MountedOn(disk[x[1]])
  <2>1. PICK m \in Dirs : host[m] # << >> /\ x = <<NodeOf(Head(host[m])), m>>
    BY <1>3, <1>5
  <2>2. x[1] = NodeOf(Head(host[m])) /\ x[2] = m
    BY <2>1
  <2>3. QED
    BY <1>4, <2>1, <2>2
<1>6. \A d : MountedOn(d)' = MountedOn(d)
  BY <1>3 DEF MountedOn
<1>7. PageSeen'
  BY <1>3, <1>5, <1>6 DEF PageSeen
<1>8. ListedOnce' /\ ActsOnWhatWasSeen'
  BY <1>2, <1>3 DEF ListedOnce, ActsOnWhatWasSeen
<1>9. RequestSeen'
  BY <1>2, <1>3, RequestSeenKeeps, Numbers DEF RequestKeeps
<1>10. \A o \in Ops : OperationSeen(o)'
  BY <1>2, <1>3, OperationsSeenKeep, Numbers DEF OperationsKeep
<1>11. QED
  BY <1>7, <1>8, <1>9, <1>10 DEF Views

\* What a page that is read in one go shows, and that it leaves nothing out.
LEMMA RowsSeen ==
  ASSUME DisksOK, PrefsOK, page \in Page,
         \A x \in page.first : x[2] \in MountedOn(disk[x[1]])
  PROVE  /\ ReadRows(Nodes) = MountedRows(Nodes) \cup Deduped(IdleRows(Nodes) \cup AutoRows(Nodes))
         /\ \A r \in ReadRows(Nodes) : Shown(r)
<1>1. page.first \subseteq Nodes \X Dirs
  BY DEF Page
<1>2. DeviceRows(Nodes) = {}
  <2>1. SUFFICES ASSUME NEW r \in DeviceRows(Nodes)
                 PROVE  FALSE
    OBVIOUS
  <2>2. <<r.node, r.at>> \in page.first /\ \A n \in Nodes : r.at \notin MountedOn(disk[n])
    BY <2>1, RowsOfParts
  <2>3. PICK x \in page.first : x = <<r.node, r.at>>
    BY <2>2
  <2>4. x \in Nodes \X Dirs
    BY <1>1, <2>3
  <2>5. r.node \in Nodes
    BY <2>3, <2>4
  <2>6. x[1] = r.node /\ x[2] = r.at
    BY <2>3
  <2>7. r.at \in MountedOn(disk[r.node])
    BY <2>3, <2>6
  <2>8. QED
    BY <2>2, <2>5, <2>7
<1>3. ReadRows(Nodes) = MountedRows(Nodes) \cup Deduped(IdleRows(Nodes) \cup AutoRows(Nodes))
  BY <1>2, RowsParts
<1>4. \A r \in MountedRows(Nodes) : Shown(r)
  <2>1. \A r \in MountedRows(Nodes) : r.at \in MountedOn(disk[r.node]) /\ r.id = fs[disk[r.node]].id
    BY RowsOfParts
  <2>2. QED
    BY <2>1 DEF Shown, MountedOn
<1>5. \A r \in IdleRows(Nodes) : Shown(r)
  <2>1. \A r \in IdleRows(Nodes) : r.at = None /\ r.id = fs[disk[r.node]].id
    BY RowsOfParts
  <2>2. QED
    BY <2>1 DEF Shown
<1>6. \A r \in AutoRows(Nodes) : Shown(r)
  <2>1. \A r \in AutoRows(Nodes) : r.node \in (Nodes \cup {None}) \ Nodes
    BY RowsOfParts
  <2>2. QED
    BY <2>1 DEF Shown
<1>7. QED
  BY <1>3, <1>4, <1>5, <1>6 DEF Deduped

\* A volume that is mounted has a row, and so has one that is not.
LEMMA RowsListed ==
  ASSUME DisksOK, PrefsOK, page \in Page, NEW n \in Nodes
  PROVE  \E r \in MountedRows(Nodes) \cup Deduped(IdleRows(Nodes) \cup AutoRows(Nodes)) : r.node = n
<1>1. CASE MountedOn(disk[n]) # {}
  <2>1. PICK m \in MountedOn(disk[n]) : TRUE
    BY <1>1
  <2>2. m \in Dirs
    BY DEF MountedOn
  <2> DEFINE L(x, y) == Listed(x, y, FALSE)
  <2>3. MountedRows(Nodes) =
          {r \in {L(x, y) : x \in Nodes, y \in Dirs} : r.at \in MountedOn(disk[r.node])}
    BY DEF MountedRows
  <2>4. L(n, m).node = n /\ L(n, m).at = m
    BY <2>2, RowTyped, ZenonT(60)
  <2> HIDE DEF L
  <2>5. L(n, m) \in MountedRows(Nodes)
    BY <2>1, <2>2, <2>3, <2>4
  <2>6. QED
    BY <2>4, <2>5
<1>2. CASE MountedOn(disk[n]) = {}
  <2> DEFINE app == \E a \in Apps : disk[n] \in held[a]
             r == Listed(n, None, app)
             All == IdleRows(Nodes) \cup AutoRows(Nodes)
  <2>1. r \in IdleRows(Nodes)
    BY <1>2 DEF IdleRows
  <2>2. app \in BOOLEAN
    OBVIOUS
  <2> HIDE DEF app
  <2>3. r \in Row /\ r.node = n
    BY <2>2, RowTyped
  <2> HIDE DEF r
  <2>4. \A x \in All : x \in Row
    BY RowsOfParts
  <2>5. ASSUME NEW x \in All, Key(x.id, x.node) = Key(r.id, r.node)
        PROVE  Score(x) <= Score(r)
    <3>1. x.id \in Ids \cup {None} /\ r.id \in Ids \cup {None}
      BY <2>3, <2>4, <2>5 DEF Row
    <3>2. CASE r.id # None
      BY <3>2 DEF Score
    <3>3. CASE r.id = None
      <4>1. Key(x.id, x.node) = n
        BY <2>3, <2>5, <3>3 DEF Key
      <4>2. x.id = None
        BY <3>1, <4>1, Numbers DEF Key
      <4>3. QED
        BY <3>3, <4>2 DEF Score
    <3>4. QED
      BY <3>2, <3>3
  <2>6. r \in Deduped(All)
    BY <2>1, <2>5 DEF Deduped
  <2>7. QED
    BY <2>3, <2>6
<1>3. QED
  BY <1>1, <1>2

\* Rows of one volume differ only in where it is mounted.
LEMMA RowsDiffer ==
  ASSUME DisksOK, PrefsOK, page \in Page, NEW n \in Nodes,
         NEW r \in MountedRows(Nodes) \cup Deduped(IdleRows(Nodes) \cup AutoRows(Nodes)), r.node = n,
         NEW x \in MountedRows(Nodes) \cup Deduped(IdleRows(Nodes) \cup AutoRows(Nodes)), x.node = n,
         r # x
  PROVE  r.at # None /\ x.at # None
<1> DEFINE idle == Listed(n, None, \E a \in Apps : disk[n] \in held[a])
<1>1. ASSUME NEW y \in MountedRows(Nodes) \cup Deduped(IdleRows(Nodes) \cup AutoRows(Nodes)), y.node = n
      PROVE  \/ y.at # None /\ MountedOn(disk[n]) # {}
             \/ y = idle /\ MountedOn(disk[n]) = {}
  <2>1. CASE y \in MountedRows(Nodes)
    <3>1. y.at \in MountedOn(disk[n])
      BY <1>1, <2>1, RowsOfParts
    <3>2. y.at \in Dirs
      BY <3>1 DEF MountedOn
    <3>3. QED
      BY <3>1, <3>2, Numbers
  <2>2. CASE y \in IdleRows(Nodes)
    <3>1. PICK k \in Nodes : /\ MountedOn(disk[k]) = {}
                             /\ y = Listed(k, None, \E a \in Apps : disk[k] \in held[a])
      BY <2>2 DEF IdleRows
    <3> DEFINE app(z) == \E a \in Apps : disk[z] \in held[a]
    <3>2. y = Listed(k, None, app(k)) /\ app(k) \in BOOLEAN
      BY <3>1
    <3> HIDE DEF app
    <3>3. y.node = k
      BY <3>2, RowTyped
    <3>4. QED
      BY <1>1, <3>1, <3>3
  <2>3. CASE y \in AutoRows(Nodes)
    <3>1. y.node \notin Nodes
      BY <2>3, RowsOfParts
    <3>2. QED
      BY <1>1, <3>1
  <2>4. QED
    BY <1>1, <2>1, <2>2, <2>3 DEF Deduped
<1> HIDE DEF idle
<1>2. QED
  BY <1>1

LEMMA ViewsVolumes ==
  ASSUME Typed, Views, ReadVolumes \/ LsblkFails
  PROVE  Views'
<1>1. DisksOK /\ PrefsOK /\ page \in Page
  BY DEF Typed, PageOK
<1>2. PageSeen /\ RequestSeen /\ (\A o \in Ops : OperationSeen(o)) /\ ActsOnWhatWasSeen
  BY DEF Views
<1>3. /\ page.pc = "half" /\ page'.pc = "ready" /\ UNCHANGED <<disk, fs, host, req, ops, hist>>
      /\ \/ old' = old /\ page'.rows = ReadRows(Nodes)
         \/ old' = old \cup {ThePage}
  BY DEF ReadVolumes, LsblkFails, system
<1>4. RequestSeen'
  BY <1>2, <1>3, RequestSeenKeeps, Numbers DEF RequestKeeps
<1>5. \A o \in Ops : OperationSeen(o)'
  BY <1>2, <1>3, OperationsSeenKeep, Numbers DEF OperationsKeep
<1>6. CASE ThePage \in old'
  BY <1>2, <1>3, <1>4, <1>5, <1>6 DEF Views, PageSeen, ListedOnce, ActsOnWhatWasSeen
<1>7. CASE ThePage \notin old'
  <2>1. page'.rows = ReadRows(Nodes) /\ \A x \in page.first : x[2] \in MountedOn(disk[x[1]])
    BY <1>2, <1>3, <1>7 DEF PageSeen
  <2>2. /\ page'.rows = MountedRows(Nodes) \cup Deduped(IdleRows(Nodes) \cup AutoRows(Nodes))
        /\ \A r \in page'.rows : Shown(r)
    BY <1>1, <2>1, RowsSeen
  <2>3. \A r : Shown(r) => Shown(r)'
    BY <1>3 DEF Shown
  <2>4. PageSeen'
    BY <1>3, <2>2, <2>3 DEF PageSeen
  <2> DEFINE All == MountedRows(Nodes) \cup Deduped(IdleRows(Nodes) \cup AutoRows(Nodes))
  <2>5. \A n \in Nodes : \E r \in All : r.node = n
    BY <1>1, RowsListed
  <2>6. \A n \in Nodes : \A r, x \in All :
          r.node = n /\ x.node = n /\ r # x => r.at # None /\ x.at # None
    BY <1>1, RowsDiffer
  <2>7. page'.rows = All
    BY <2>2
  <2> HIDE DEF All
  <2>8. ListedOnce'
    BY <2>5, <2>6, <2>7 DEF ListedOnce
  <2>9. QED
    BY <1>2, <1>3, <1>4, <1>5, <2>4, <2>8 DEF Views, ActsOnWhatWasSeen
<1>8. QED
  BY <1>6, <1>7

\* A form holds what its row shows.
LEMMA ViewsPost ==
  ASSUME Typed, Views, Post
  PROVE  Views'
<1>1. PageOK
  BY DEF Typed
<1>2. PageSeen /\ (\A o \in Ops : OperationSeen(o)) /\ ActsOnWhatWasSeen
  BY DEF Views
<1>3. PICK row \in page.rows :
        /\ page.pc = "ready" /\ row.node \in Nodes /\ page' = NoPage
        /\ old' = IF ThePage \in old THEN (old \ {ThePage}) \cup {TheRequest} ELSE old \ {TheRequest}
        /\ UNCHANGED <<system, ops, hist>> /\ req'.node = row.node
        /\ \/ req'.action = "mount" /\ req'.pc = "mount"
           \/ req'.action = "unmount" /\ req'.pc = "umount" /\ req'.at = row.at /\ row.at # None
           \/ req'.action = "release" /\ req'.pc = "host"
           \/ req'.action = "format" /\ req'.pc = "host" /\ req'.seen = row.id
           \/ req'.action = "label" /\ req'.pc = "start" /\ req'.seen = row.id
  BY <1>1, Posted
<1>4. UNCHANGED <<disk, fs, host>>
  BY <1>3 DEF system
<1>5. RequestSeen'
  <2>1. SUFFICES ASSUME TheRequest \notin old'
                 PROVE  /\ req'.action \in {"format", "label"} => req'.seen = fs[disk[row.node]].id
                        /\ req'.pc = "umount" => disk[row.node] \in Range(host[req'.at])
    BY <1>3, <1>4 DEF RequestSeen, D
  <2>2. ThePage \notin old
    BY <1>3, <2>1
  <2>3. Shown(row)
    BY <1>2, <1>3, <2>2 DEF PageSeen
  <2>4. row.node # None
    BY <1>3, Numbers
  <2>5. QED
    BY <1>3, <2>3, <2>4 DEF Shown
<1>6. \A o \in Ops : OperationSeen(o)'
  <2>1. old' \cap Ops = old \cap Ops
    BY <1>3, Numbers
  <2>2. QED
    BY <1>2, <1>3, <1>4, <2>1, OperationsSeenKeep DEF OperationsKeep
<1>7. PageSeen' /\ ListedOnce' /\ ActsOnWhatWasSeen'
  BY <1>2, <1>3 DEF PageSeen, ListedOnce, ActsOnWhatWasSeen, NoPage
<1>8. QED
  BY <1>5, <1>6, <1>7 DEF Views

LEMMA ViewsRequest ==
  ASSUME Typed, Views, Handler
  PROVE  Views'
<1>1. RequestOK /\ OpsOK /\ req \in Request
  BY DEF Typed, RequestOK
<1>2. ~hist.wrong /\ hist \in History
  BY DEF Views, ActsOnWhatWasSeen, Typed, RestOK
<1>3. req.pc # "none"
  BY <1>1, RequestSteps
<1>4. UNCHANGED <<disk, fs, page>>
  BY DEF Handler, Mount, Remember, Umount, CheckHost, CheckHostFails, CheckReferences, Release,
         ReleaseFails, Released, Recheck, Start, StartFails, RequestTimesOut, system
<1>5. Answers => req'.pc = "none"
  BY AnswersTyped
<1>6. ASSUME NEW pc \in Pcs, pc # "umount", Goes(pc)
      PROVE  RequestKeeps
  BY <1>1, <1>3, <1>6, GoesTyped DEF RequestKeeps
<1>7. CASE Mount
  <2>1. UNCHANGED ops
    BY <1>7 DEF Mount
  <2>2. CASE Changes /\ hist' = [hist EXCEPT !.late = @ \cup Late(D)]
    <3>1. hist'.wrong = FALSE
      BY <1>2, <2>2 DEF History
    <3>2. QED
      BY <1>3, <1>4, <2>1, <2>2, <3>1, ViewsStale
  <2>3. CASE UNCHANGED <<host, hist, old>> /\ (Goes("again") \/ Answers)
    <3>1. RequestKeeps
      BY <1>5, <1>6, <2>3 DEF RequestKeeps, Pcs
    <3>2. QED
      BY <1>4, <2>1, <2>3, <3>1, ViewsKeep DEF OperationsKeep
  <2>4. QED
    BY <1>7, <2>2, <2>3 DEF Mount
<1>8. CASE Umount
  <2>1. UNCHANGED ops /\ req.pc = "umount" /\ (Goes("refs") \/ Answers)
    BY <1>8 DEF Umount
  <2>2. CASE UNCHANGED <<host, open, hist, old>>
    <3>1. RequestKeeps
      BY <1>5, <1>6, <2>1 DEF RequestKeeps, Pcs
    <3>2. QED
      BY <1>4, <2>1, <2>2, <3>1, ViewsKeep DEF OperationsKeep
  <2>3. CASE /\ Changes
             /\ hist' = [hist EXCEPT !.lazy = IF req.force THEN @ \cup {Top(req.at)} ELSE @,
                           !.wrong = @ \/ (TheRequest \notin old /\ D \notin Range(host[req.at]))]
    <3>1. TheRequest \notin old => D \in Range(host[req.at])
      BY <2>1 DEF Views, RequestSeen
    <3>2. hist'.wrong = (hist.wrong \/ (TheRequest \notin old /\ D \notin Range(host[req.at])))
      BY <1>2, <2>3 DEF History
    <3>3. hist'.wrong = FALSE
      BY <1>2, <3>1, <3>2
    <3>4. QED
      BY <1>3, <1>4, <2>1, <2>3, <3>3, ViewsStale
  <2>4. QED
    BY <1>8, <2>2, <2>3 DEF Umount
<1>9. CASE Release
  <2> DEFINE r == CHOOSE x \in req.refs : TRUE
             d == IF r \in Dirs THEN Top(r) ELSE D
  <2>1. UNCHANGED ops /\ req' = [req EXCEPT !.refs = @ \ {r}] /\ req.pc \in {"unmount", "errors"}
    BY <1>9 DEF Release
  <2>2. hist' = hist \/ hist' = [hist EXCEPT !.lazy = @ \cup {d}]
    BY <1>9 DEF Release
  <2>3. Changes \/ UNCHANGED <<host, old>>
    BY <1>9 DEF Release
  <2> HIDE DEF r, d
  <2>4. hist'.wrong = hist.wrong
    BY <1>2, <2>2 DEF History
  <2>5. hist'.wrong = FALSE
    BY <1>2, <2>4 DEF History
  <2>6. RequestKeeps
    BY <1>1, <2>1 DEF Request, RequestKeeps
  <2>7. CASE Changes
    BY <1>3, <1>4, <2>1, <2>5, <2>7, ViewsStale
  <2>8. CASE UNCHANGED <<host, old>>
    BY <1>4, <2>1, <2>4, <2>6, <2>8, ViewsKeep DEF OperationsKeep
  <2>9. QED
    BY <2>3, <2>7, <2>8
<1>10. CASE Start
  <2>1. /\ req.pc = "start" /\ Answers /\ UNCHANGED <<disk, fs, host, page, hist>>
        /\ ops' = [ops EXCEPT ![NextOp] = New("running", "begin")]
        /\ old' = IF TheRequest \in old THEN Answered \cup {NextOp} ELSE Answered \ {NextOp}
    BY <1>10 DEF Start, New, system
  <2>2. PICK o \in Ops : o = NextOp
    BY <1>10, NextOpIsFree DEF Start
  <2>3. New("running", "begin").node = req.node /\ New("running", "begin").seen = req.seen
    BY <1>1, NewTyped
  <2>4. ops'[o].node = req.node /\ ops'[o].seen = req.seen /\ \A x \in Ops : x # o => ops'[x] = ops[x]
    BY <1>1, <2>1, <2>2, <2>3 DEF OpsOK
  <2>5. old' = IF TheRequest \in old THEN (old \ {TheRequest}) \cup {o} ELSE (old \ {TheRequest}) \ {o}
    BY <2>1, <2>2 DEF Answered
  <2>6. req.action \in {"format", "label"}
    BY <1>1, <2>1 DEF RequestOK
  <2>7. ASSUME NEW x \in Ops
        PROVE  OperationSeen(x)'
    <3>1. CASE x = o
      <4>1. SUFFICES ASSUME o \notin old'
                     PROVE  ops'[o].seen = fs'[disk'[ops'[o].node]].id
        BY <3>1 DEF OperationSeen, DiskOf
      <4>2. TheRequest \notin old
        BY <2>5, <4>1
      <4>3. req.seen = fs[disk[req.node]].id
        BY <2>1, <2>6, <4>2 DEF Views, RequestSeen, D
      <4>4. QED
        BY <2>1, <2>4, <4>3
    <3>2. CASE x # o
      <4>1. x \in old' <=> x \in old
        BY <2>5, <3>2, Numbers
      <4>2. OperationSeen(x)
        BY DEF Views
      <4>3. QED
        BY <2>1, <2>4, <3>2, <4>1, <4>2 DEF OperationSeen, DiskOf
    <3>3. QED
      BY <3>1, <3>2
  <2>8. ThePage \in old' <=> ThePage \in old
    BY <2>5, Numbers
  <2>9. PageSeen'
    <3>1. \A r : Shown(r) => Shown(r)'
      BY <2>1 DEF Shown
    <3>2. QED
      BY <2>1, <2>8, <3>1 DEF Views, PageSeen, MountedOn
  <2>10. ListedOnce' /\ ActsOnWhatWasSeen'
    BY <2>1, <2>8 DEF Views, ListedOnce, ActsOnWhatWasSeen
  <2>11. RequestSeen'
    BY <1>5, <2>1 DEF RequestSeen
  <2>12. QED
    BY <2>7, <2>9, <2>10, <2>11 DEF Views
<1>11. CASE StartFails
  <2>1. /\ Answers /\ UNCHANGED <<disk, fs, host, page, old, hist>>
        /\ ops' = [ops EXCEPT ![NextOp] = NewFailed]
    BY <1>11 DEF StartFails, NewFailed, system
  <2>2. NextOp \in Ops
    BY <1>11, NextOpIsFree DEF StartFails
  <2>3. NewFailed.pc = "none"
    BY <1>1, NewTyped
  <2>4. OperationsKeep
    BY <1>1, <2>1, <2>2, <2>3 DEF OpsOK, OperationsKeep
  <2>5. QED
    BY <1>5, <2>1, <2>4, ViewsKeep DEF RequestKeeps
<1>12. CASE Remember \/ CheckHost \/ CheckHostFails \/ Released \/ Recheck \/ RequestTimesOut
  <2>1. /\ UNCHANGED <<host, ops, old, hist>>
        /\ Answers \/ Goes("refs") \/ Goes("recheck") \/ Goes("start")
    BY <1>12 DEF Remember, CheckHost, CheckHostFails, Released, Recheck, RequestTimesOut, system
  <2>2. RequestKeeps
    BY <1>5, <1>6, <2>1 DEF RequestKeeps, Pcs
  <2>3. QED
    BY <1>4, <2>1, <2>2, ViewsKeep DEF OperationsKeep
<1>13. CASE CheckReferences
  <2>1. /\ UNCHANGED <<host, ops, old, hist>>
        /\ Answers \/ Goes("start") \/ \E some : req' = [req EXCEPT !.pc = "unmount", !.refs = some]
    BY <1>13 DEF CheckReferences, system
  <2>2. RequestKeeps
    <3>1. CASE Answers \/ Goes("start")
      BY <1>5, <1>6, <3>1 DEF RequestKeeps, Pcs
    <3>2. ASSUME NEW some, req' = [req EXCEPT !.pc = "unmount", !.refs = some]
          PROVE  RequestKeeps
      BY <1>1, <1>3, <3>2 DEF Request, RequestKeeps
    <3>3. QED
      BY <2>1, <3>1, <3>2
  <2>3. QED
    BY <1>4, <2>1, <2>2, ViewsKeep DEF OperationsKeep
<1>14. CASE ReleaseFails
  <2>1. UNCHANGED <<host, ops, old, hist>> /\ \E r : req' = [req EXCEPT !.pc = "errors", !.refs = @ \ {r}]
    BY <1>14 DEF ReleaseFails, system
  <2>2. ASSUME NEW r, req' = [req EXCEPT !.pc = "errors", !.refs = @ \ {r}]
        PROVE  RequestKeeps
    BY <1>1, <1>3, <2>2 DEF Request, RequestKeeps
  <2>3. QED
    BY <1>4, <2>1, <2>2, ViewsKeep DEF OperationsKeep
<1>15. QED
  BY <1>7, <1>8, <1>9, <1>10, <1>11, <1>12, <1>13, <1>14 DEF Handler

LEMMA ViewsWorker ==
  ASSUME Typed, Views, NEW o \in Ops, Worker(o)
  PROVE  Views'
<1>1. OpsOK /\ hist \in History
  BY DEF Typed, RestOK
<1>2. Only(o) /\ ops[o].pc # "none"
  BY <1>1, WorkerOps
<1>3. OperationsKeep
  BY <1>2 DEF OperationsKeep, Only
<1>4. UNCHANGED <<disk, host, page, req>>
  BY DEF Worker, Begin, WorkerChecksHost, WorkerCheckFails, WorkerChecksReferences, Label, LabelFails,
         Mkfs, MkfsTimesOut, Save, WorkerDies, system
<1>5. RequestKeeps
  BY <1>4 DEF RequestKeeps
<1>6. ~hist.wrong /\ (o \notin old => fs[DiskOf(o)].id = ops[o].seen)
  BY <1>2 DEF Views, ActsOnWhatWasSeen, OperationSeen
<1>7. CASE Label(o) \/ LabelFails(o)
  <2>1. UNCHANGED <<fs, old>>
    BY <1>7 DEF Label, LabelFails, system
  <2>2. hist'.wrong \in {hist.wrong, hist.wrong \/ (o \notin old /\ fs[DiskOf(o)].id # ops[o].seen)}
    BY <1>1, <1>7, LabelledHistory, LabelFailsHistory DEF Label
  <2>3. hist'.wrong = hist.wrong
    BY <1>1, <1>6, <2>2 DEF History
  <2>4. QED
    BY <1>3, <1>4, <1>5, <2>1, <2>3, ViewsKeep
<1>8. CASE Mkfs(o)
  <2>1. CASE UNCHANGED <<fs, making, hist, old>>
    BY <1>3, <1>4, <1>5, <2>1, ViewsKeep
  <2> DEFINE d == DiskOf(o)
             wiped == hist.wiped \cup {o}
             harmed == IF InUse(d) THEN hist.harmed \cup {o} ELSE hist.harmed
             late == IF d \in open /\ d \in hist.lazy THEN hist.late \cup {o} ELSE hist.late
             wrong == hist.wrong \/ (o \notin old /\ fs[d].id # ops[o].seen)
  <2>2. CASE /\ hist' = [hist EXCEPT !.wiped = wiped, !.harmed = harmed, !.late = late, !.wrong = wrong]
             /\ Changes
    <3>1. wrong = FALSE
      BY <1>6
    <3> HIDE DEF wiped, harmed, late, wrong
    <3>2. hist'.wrong = wrong
      BY <1>1, <2>2 DEF History
    <3>3. hist'.wrong = FALSE
      BY <3>1, <3>2
    <3>4. QED
      BY <1>3, <1>4, <2>2, <3>3, ViewsStale DEF OperationsKeep
  <2>3. QED
    BY <1>8, <2>1, <2>2 DEF Mkfs
<1>9. CASE ~(Label(o) \/ LabelFails(o) \/ Mkfs(o))
  <2>1. /\ UNCHANGED <<fs, old>>
        /\ \/ hist' = hist
           \/ hist' = [hist EXCEPT !.slow = @ \cup {o}]
           \/ hist' = [hist EXCEPT !.dead = @ \cup {o}]
    BY <1>9 DEF Worker, Begin, WorkerChecksHost, WorkerCheckFails, WorkerChecksReferences,
                MkfsTimesOut, Save, WorkerDies, system
  <2>2. hist'.wrong = hist.wrong
    BY <1>1, <2>1 DEF History
  <2>3. QED
    BY <1>3, <1>4, <1>5, <2>1, <2>2, ViewsKeep
<1>10. QED
  BY <1>7, <1>8, <1>9

LEMMA ViewsEnd ==
  ASSUME Typed, Views, NEW d \in Disks, MkfsEnds(d) \/ MkfsFails(d)
  PROVE  Views'
<1>1. OpsOK /\ DisksOK /\ hist \in History /\ ~hist.wrong
  BY DEF Typed, RestOK, Views, ActsOnWhatWasSeen
<1>2. PICK o \in Ops : o = making[d]
  BY <1>1 DEF MkfsEnds, MkfsFails, DisksOK
<1>3. /\ UNCHANGED <<page, req>> /\ Changes
      /\ hist' = hist \/ hist' = [hist EXCEPT !.done = @ \cup {o}]
  BY <1>2 DEF MkfsEnds, MkfsFails
<1>4. PICK v \in {"success", "failed"} :
        ops' = IF ops[o].pc = "wait" THEN [ops EXCEPT ![o].pc = "save", ![o].verdict = v] ELSE ops
  BY <1>2 DEF MkfsEnds, MkfsFails
<1>5. Only(o) /\ (ops[o].pc # "wait" => ops' = ops)
  BY <1>1, <1>4, EndOps
<1>6. \A x \in Ops : ops'[x].pc # "none" => ops[x].pc # "none"
  BY <1>5 DEF Only
<1>7. hist'.wrong = FALSE
  BY <1>1, <1>3 DEF History
<1>8. QED
  BY <1>3, <1>6, <1>7, ViewsStale

LEMMA StepViews ==
  ASSUME Typed, Views, [Next]_vars
  PROVE  Views'
<1>1. CASE UNCHANGED vars
  BY <1>1, ViewsKeep DEF vars, system, RequestKeeps, OperationsKeep
<1>2. CASE Next
  BY <1>2, ViewsUsers, ViewsMounts, ViewsVolumes, ViewsPost, ViewsRequest, ViewsWorker, ViewsEnd
     DEF Next, Browser, Post
<1>3. QED
  BY <1>1, <1>2

-----------------------------------------------------------------------------
(* The theorems *)

\* There are as many partitions as nodes, so every partition has one.
LEMMA InitPlaced ==
  ASSUME disk = CHOOSE f \in [Nodes -> Disks] : IsInjective(f)
  PROVE  disk \in [Nodes -> Disks] /\ IsInjective(disk) /\ Placed
<1>1. ExistsBijection(Nodes, Disks)
  BY DisksAssumption, FS_SameCardinalityBij
<1>2. \E f \in [Nodes -> Disks] : IsInjective(f)
  BY <1>1 DEF ExistsBijection, Bijection, Injection
<1>3. disk \in [Nodes -> Disks] /\ IsInjective(disk)
  BY <1>2
<1>4. disk \in Injection(Nodes, Disks)
  BY <1>3 DEF Injection
<1>5. IsFiniteSet(Nodes) /\ IsFiniteSet(Disks) /\ Cardinality(Nodes) = Cardinality(Disks)
  BY DisksAssumption
<1>6. disk \in Surjection(Nodes, Disks)
  BY <1>4, <1>5, FS_Injection
<1>7. Placed
  BY <1>6 DEF Surjection, Placed
<1>8. QED
  BY <1>3, <1>7

LEMMA InitTyped ==
  ASSUME Init
  PROVE  Typed
<1>1. disk \in [Nodes -> Disks] /\ IsInjective(disk) /\ Placed
  BY InitPlaced DEF Init
<1>2. DisksOK
  <2>1. fs = [d \in Disks |-> [id |-> d, type |-> First[d]]] /\ making = [d \in Disks |-> None]
    BY DEF Init
  <2>2. \A d \in Disks : First[d] \in Types /\ First[d] # None /\ d # None /\ d \in Ids
    BY DisksAssumption, Numbers DEF Ids
  <2>3. fs \in [Disks -> Filesystem] /\ making \in [Disks -> Ops \cup {None}]
    BY <2>1, <2>2 DEF Filesystem
  <2>4. QED
    BY <1>1, <2>1, <2>2, <2>3 DEF DisksOK
<1>3. HostOK
  BY EmptySeq DEF Init, HostOK
<1>4. PrefsOK
  BY DEF Init, PrefsOK
<1>5. PageOK
  BY DEF Init, PageOK, NoPage, Page
<1>6. RequestOK
  BY DEF Init, NoRequest, RequestOK, Request, Actions
<1>7. OpsOK
  <2>1. NoOperation \in Operation /\ NoOperation.pc = "none" /\ NoOperation.action = "none"
    BY DEF NoOperation, Operation, Actions
  <2>2. ops = [o \in Ops |-> NoOperation]
    BY DEF Init
  <2>3. QED
    BY <2>1, <2>2 DEF OpsOK, OperationOK
<1>8. RestOK
  <2>1. hist \in History /\ old \subseteq Readers
    BY DEF Init, History
  <2>2. BoundsOK
    BY BoundsAssumption DEF Init, BoundsOK
  <2>3. QED
    BY <2>1, <2>2 DEF RestOK
<1>9. QED
  BY <1>2, <1>3, <1>4, <1>5, <1>6, <1>7, <1>8 DEF Typed

LEMMA InitInvariant ==
  ASSUME Init
  PROVE  IInv
<1>1. Typed
  BY InitTyped
<1>2. \A d \in Disks : making[d] = None
  BY DEF Init
<1>3. \A o \in Ops : ops[o].pc = "none" /\ ops[o].status = "none"
  BY DEF Init, NoOperation
<1>4. /\ hist.done = {} /\ hist.wiped = {} /\ hist.slow = {} /\ hist.harmed = {} /\ hist.lazy = {}
      /\ hist.wrong = FALSE /\ open = {}
  BY DEF Init
<1>5. page.pc = "none" /\ req.pc = "none"
  BY DEF Init, NoPage, NoRequest
<1>6. Records
  BY <1>2, <1>3, <1>4 DEF Records, Making, Untouched, Recorded, Says, OnlyUnusedIsWiped
<1>7. Watched
  BY <1>3, <1>4 DEF Watched, Checked
<1>8. Views
  BY <1>3, <1>4, <1>5 DEF Views, PageSeen, RequestSeen, OperationSeen, ActsOnWhatWasSeen, ListedOnce
<1>9. QED
  BY <1>1, <1>6, <1>7, <1>8 DEF IInv

\* Every step keeps the invariant: what is on the disks and who has seen it.
THEOREM Invariance == Spec => []IInv
<1>1. Init => IInv
  BY InitInvariant
<1>2. IInv /\ [Next]_vars => IInv'
  <2>1. SUFFICES ASSUME IInv, [Next]_vars
                 PROVE  IInv'
    OBVIOUS
  <2>2. Typed /\ Records /\ Watched /\ Views /\ Making
    BY <2>1 DEF IInv, Records
  <2>3. Typed'
    BY <2>1, <2>2, StepTyped
  <2>4. Records' /\ Watched' /\ Views'
    BY <2>1, <2>2, <2>3, StepRecords, StepWatched, StepViews
  <2>5. QED
    BY <2>3, <2>4 DEF IInv
<1>3. QED
  BY <1>1, <1>2, PTL DEF Spec

\* Every variable has its type, and a partition one node.
THEOREM TypeCorrect == Spec => []TypeOK
<1>1. IInv => TypeOK
  BY DEF IInv, Typed, DisksOK, HostOK, PrefsOK, PageOK, RequestOK, OpsOK, RestOK, BoundsOK, TypeOK
<1>2. QED
  BY <1>1, Invariance, PTL

\* What is wiped, labelled or unmounted is what the user saw where he pointed, unless
\* something has changed since, and a wiped volume that was in use came into use after
\* the last check, or was detached on request, and its mkfs is told to go on.
THEOREM TouchesMeant == Spec => []TouchesOnlyWhatWasMeant
<1>1. IInv => TouchesOnlyWhatWasMeant
  BY DEF IInv, Records, Views, TouchesOnlyWhatWasMeant
<1>2. QED
  BY <1>1, Invariance, PTL

\* A record says what was done, whatever is late, fails or dies.
THEOREM RecordsTrue == Spec => []RecordIsTrue
<1>1. IInv => RecordIsTrue
  <2>1. SUFFICES ASSUME IInv, NEW o \in Ops
                 PROVE  /\ ops[o].status = "success" => o \in hist.done
                        /\ ops[o].status = "failed" /\ o \in hist.done => o \in hist.slow
                        /\ ops[o].status = "failed" /\ o \in hist.wiped \ hist.slow =>
                             o \notin hist.done /\ faults > 0
                        /\ ops[o].status = "running" /\ ops[o].pc = "none" => o \in hist.dead
    BY DEF RecordIsTrue
  <2>2. Recorded(o)
    BY <2>1 DEF IInv, Records
  <2>3. QED
    BY <2>2 DEF Recorded, Says
<1>2. QED
  BY <1>1, Invariance, PTL

\* A page that nothing has overtaken lists every volume, and an unmounted one once.
THEOREM PageComplete == Spec => []ListedOnce
<1>1. IInv => ListedOnce
  BY DEF IInv, Views
<1>2. QED
  BY <1>1, Invariance, PTL
=============================================================================
