---------------------------- MODULE TransfersProofs ----------------------------
(***************************************************************************)
(* Proofs about the two ways files take between the browser and the        *)
(* server: Uploads, for all pages, files, operations and bounds, and       *)
(* Downloads, for files of any size, any number of versions, loops,        *)
(* downloads, clicks and faults.                                           *)
(***************************************************************************)
EXTENDS Uploads, Downloads, SequenceTheorems, FiniteSetTheorems, TLAPS

-----------------------------------------------------------------------------
(* Uploads *)

USE ChosenAssumption, BoundsAssumption, BeforeAssumption, ContentsAssumption

-----------------------------------------------------------------------------
(* The inductive invariant *)

\* The first n chunks of a file.
FirstChunks(t, i, n) == [k \in 1..n |-> <<t, i, k>>]

Size(o) == Chosen[rows[o].tab][work[o].file].size

\* What the three kinds of requests do, and do not do.
ModeOK(o) ==
  /\ work[o].mode = "direct" =>
       work[o].pc \in {"find", "open", "copy", "save", "end"} /\ work[o].chunk = 1
  /\ work[o].mode = "worker" => work[o].pc = "end" /\ o \in resumed
  /\ work[o].mode = "chunks" => ~work[o].errors
  /\ work[o].mode = "chunks" /\ work[o].pc \in {"find", "open", "copy"} =>
       work[o].chunk = Size(o)
  /\ work[o].pc \in {"open", "copy"} => work[o].path \in Paths \ Before

\* The part holds the chunks that have come, and nothing else.
ReceivedOK(o) ==
  work[o].mode = "chunks" =>
    LET part == parts[o][File(o).name]
        first(n) == FirstChunks(rows[o].tab, work[o].file, n) IN
    /\ work[o].pc \in {"load", "write"} /\ work[o].chunk # 1 => part = first(work[o].chunk - 1)
    /\ work[o].pc \in {"find", "open", "copy"} => part = first(work[o].chunk)
    /\ work[o].pc = "save" /\ work[o].chunk # Size(o) => part = first(work[o].chunk)

\* The files before number n are in the list.
Through(list, n) == \A i \in Nat : 1 <= i /\ i < n => \E s \in list : s.file = i

Counting == {"write", "find", "open", "copy", "save"}

\* What has been saved when a request is at a file, and when it ends.
CountOK(o) ==
  /\ work[o].mode = "chunks" /\ work[o].pc = "load" => Through(rows[o].saved, work[o].file)
  /\ work[o].pc \in Counting /\ ~work[o].errors => Through(work[o].saved, work[o].file)
  /\ /\ work[o].pc = "save" /\ ~work[o].errors
     /\ work[o].mode = "chunks" => work[o].chunk = Size(o)
     => Through(work[o].saved, work[o].file + 1)
  /\ work[o].pc \in {"finish", "end"} /\ work[o].mode # "worker" /\ ~work[o].errors =>
       Through(rows[o].saved, Len(Files(o)) + 1)
  /\ rows[o].status = "success" /\ o \notin resumed =>
       Through(rows[o].saved, Len(Files(o)) + 1)

OneOK(o) == ModeOK(o) /\ ReceivedOK(o) /\ CountOK(o)

At(o, p) == work[o].pc \in {"open", "copy"} /\ work[o].path = p

\* Of a path that only one request has found free: nothing is there until it is
\* opened, and nobody else is at it.
Owned ==
  \A o \in Ops, p \in Paths \ raced : At(o, p) =>
    /\ work[o].pc = "open" => dest[p] = None
    /\ work[o].pc = "copy" => dest[p] = Torn
    /\ \A u \in Ops : At(u, p) => u = o

\* What is listed, or about to be.
Listed(o) == rows[o].saved \cup work[o].saved

\* What is listed is whole, nobody is at it, and it is listed once.
Kept ==
  \A o \in Ops : \A s \in Listed(o) : s.path \notin raced =>
    /\ rows[o].tab \in Tabs /\ s.file \in DOMAIN Chosen[rows[o].tab]
    /\ dest[s.path] = Whole(rows[o].tab, s.file)
    /\ \A u \in Ops : ~At(u, s.path)
    /\ \A u \in Ops : \A x \in Listed(u) : x.path = s.path => u = o /\ x = s

Untouched == \A p \in Before : dest[p] = Old

IInv == TypeOK /\ (\A o \in Ops : OneOK(o)) /\ Owned /\ Kept /\ Untouched

-----------------------------------------------------------------------------
(* The chosen files and their chunks *)

\* The files of a page.
LEMMA FilesOfTab ==
  ASSUME NEW t \in Tabs
  PROVE  /\ Len(Chosen[t]) \in Nat \ {0} /\ DOMAIN Chosen[t] = 1..Len(Chosen[t])
         /\ 1 \in DOMAIN Chosen[t]
         /\ \A i \in DOMAIN Chosen[t] :
              /\ i \in Indices /\ i \in Nat \ {0}
              /\ Chosen[t][i].name \in Names /\ Chosen[t][i].size \in Nat \ {0}
<1>1. Chosen[t] \in Seq([name : Names, size : Nat \ {0}]) /\ Chosen[t] # << >>
  OBVIOUS
<1>2. Len(Chosen[t]) \in Nat \ {0} /\ DOMAIN Chosen[t] = 1..Len(Chosen[t])
  BY <1>1
<1>3. \A i \in DOMAIN Chosen[t] : Chosen[t][i] \in [name : Names, size : Nat \ {0}]
  <2> DEFINE files == Chosen[t]  file == [name : Names, size : Nat \ {0}]
  <2>1. files \in Seq(file) /\ DOMAIN files = 1..Len(files)
    BY <1>1, <1>2
  <2> HIDE DEF files, file
  <2>2. \A i \in DOMAIN files : files[i] \in file
    BY <2>1, ElementOfSeq
  <2>3. QED
    BY <2>2 DEF files, file
<1>4. \A i \in DOMAIN Chosen[t] : i \in Indices
  BY DEF Indices
<1>5. QED
  BY <1>2, <1>3, <1>4

LEMMA IndicesAreNumbers == Indices \subseteq Nat \ {0}
  BY FilesOfTab DEF Indices

\* A row of chunks is a content of its own.
LEMMA FirstChunksType ==
  ASSUME NEW t \in Tabs, NEW i \in Indices, NEW n \in Nat
  PROVE  /\ FirstChunks(t, i, n) \in Contents
         /\ FirstChunks(t, i, n) \notin {None, Old, Torn}
         /\ Len(FirstChunks(t, i, n)) = n
<1>1. \A k \in 1..n : <<t, i, k>> \in Chunks
  BY DEF Chunks
<1>2. FirstChunks(t, i, n) \in Seq(Chunks) /\ Len(FirstChunks(t, i, n)) = n
  BY <1>1 DEF FirstChunks
<1>3. QED
  BY <1>2 DEF Contents

\* The next chunk makes a longer row, the first one a row of one.
LEMMA NextChunk ==
  ASSUME NEW t \in Tabs, NEW i \in Indices, NEW n \in Nat \ {0}
  PROVE  /\ n # 1 => Append(FirstChunks(t, i, n - 1), <<t, i, n>>) = FirstChunks(t, i, n)
         /\ <<<<t, i, 1>>>> = FirstChunks(t, i, 1)
<1>1. ASSUME n # 1
      PROVE  Append(FirstChunks(t, i, n - 1), <<t, i, n>>) = FirstChunks(t, i, n)
  <2> DEFINE s == FirstChunks(t, i, n - 1)  e == <<t, i, n>>  r == FirstChunks(t, i, n)
  <2>1. s \in Seq(Chunks) /\ Len(s) = n - 1 /\ r \in Seq(Chunks) /\ Len(r) = n
    BY FirstChunksType, n - 1 \in Nat DEF Contents
  <2>2. e \in Chunks
    BY DEF Chunks
  <2>3. /\ Append(s, e) \in Seq(Chunks) /\ Len(Append(s, e)) = n
        /\ \A k \in 1..(n - 1) : Append(s, e)[k] = s[k]
        /\ Append(s, e)[n] = e
    BY <2>1, <2>2
  <2>4. \A k \in 1..n : Append(s, e)[k] = r[k]
    <3>1. \A k \in 1..(n - 1) : s[k] = <<t, i, k>>
      BY DEF FirstChunks
    <3>2. \A k \in 1..n : r[k] = <<t, i, k>>
      BY DEF FirstChunks
    <3> HIDE DEF s, r, e
    <3>3. \A k \in 1..n : k \in 1..(n - 1) \/ k = n
      OBVIOUS
    <3>4. \A k \in 1..(n - 1) : Append(s, e)[k] = r[k]
      BY <2>3, <3>1, <3>2, 1..(n - 1) \subseteq 1..n
    <3>5. Append(s, e)[n] = r[n]
      BY <2>3, <3>2, n \in 1..n DEF e
    <3>6. QED
      BY <3>3, <3>4, <3>5
  <2> HIDE DEF s, r, e
  <2>5. Append(s, e) = r
    BY <2>1, <2>3, <2>4, SeqEqual
  <2>6. QED
    BY <2>5 DEF s, r, e
<1>2. <<<<t, i, 1>>>> = FirstChunks(t, i, 1)
  <2>1. <<<<t, i, 1>>>> = [k \in 1..1 |-> <<t, i, 1>>]
    OBVIOUS
  <2>2. \A k \in 1..1 : k = 1
    OBVIOUS
  <2>3. QED
    BY <2>1, <2>2 DEF FirstChunks
<1>3. QED
  BY <1>1, <1>2

-----------------------------------------------------------------------------
(* Types *)

LEMMA AtWork ==
  ASSUME TypeOK, NEW o \in Ops
  PROVE  /\ rows[o] \in Row /\ work[o] \in Work
         /\ work[o].pc # "none" =>
              /\ rows[o].status = "running" /\ rows[o].tab \in Tabs
              /\ Files(o) = Chosen[rows[o].tab]
         /\ work[o].pc \notin {"none", "finish", "end"} =>
              /\ work[o].file \in DOMAIN Files(o) /\ work[o].file \in Indices
              /\ work[o].file \in Nat \ {0}
              /\ File(o).size = Size(o) /\ Size(o) \in Nat \ {0}
              /\ work[o].chunk \in Nat \ {0} /\ work[o].chunk <= Size(o)
              /\ File(o).name \in Names
<1>1. rows[o] \in Row /\ work[o] \in Work
  BY DEF TypeOK
<1>2. ASSUME work[o].pc # "none"
      PROVE  /\ rows[o].status = "running" /\ rows[o].tab \in Tabs
             /\ Files(o) = Chosen[rows[o].tab]
  <2>1. rows[o].status = "running" /\ rows[o].tab # None
    BY <1>2 DEF TypeOK
  <2>2. rows[o].tab \in Tabs \cup {None}
    BY <1>1 DEF Row
  <2>3. QED
    BY <2>1, <2>2 DEF Files
<1>3. ASSUME work[o].pc \notin {"none", "finish", "end"}
      PROVE  work[o].file \in DOMAIN Files(o) /\ work[o].chunk \in 1..File(o).size
  BY <1>3 DEF TypeOK, Files
<1>4. ASSUME work[o].pc \notin {"none", "finish", "end"}
      PROVE  /\ work[o].file \in Indices /\ work[o].file \in Nat \ {0}
             /\ File(o).size = Size(o) /\ Size(o) \in Nat \ {0} /\ File(o).name \in Names
  <2>1. rows[o].tab \in Tabs /\ work[o].file \in DOMAIN Chosen[rows[o].tab]
    BY <1>2, <1>3, <1>4 DEF Files
  <2>2. QED
    BY <2>1, FilesOfTab DEF File, Size
<1>5. ASSUME work[o].pc \notin {"none", "finish", "end"}
      PROVE  work[o].chunk \in Nat \ {0} /\ work[o].chunk <= Size(o)
  BY <1>3, <1>4, <1>5
<1>6. QED
  BY ONLY <1>1, <1>2, <1>3, <1>4, <1>5

\* The next file, if there is one.
LEMMA NextFile ==
  ASSUME TypeOK, NEW o \in Ops, work[o].pc \notin {"none", "finish", "end"}
  PROVE  LET i == work[o].file + 1  t == rows[o].tab IN
         IF work[o].file < Len(Files(o))
           THEN /\ i \in DOMAIN Chosen[t] /\ i \in Indices
                /\ Chosen[t][i].size \in Nat \ {0} /\ 1 \in 1..Chosen[t][i].size
           ELSE work[o].file = Len(Files(o))
<1>1. /\ rows[o].tab \in Tabs /\ Files(o) = Chosen[rows[o].tab]
      /\ work[o].file \in DOMAIN Files(o) /\ work[o].file \in Nat \ {0}
  BY AtWork
<1> DEFINE files == Chosen[rows[o].tab]
<1>2. /\ Len(files) \in Nat \ {0} /\ DOMAIN files = 1..Len(files)
      /\ \A i \in DOMAIN files : i \in Indices /\ files[i].size \in Nat \ {0}
  BY <1>1, FilesOfTab
<1> HIDE DEF files
<1>3. work[o].file < Len(files) => work[o].file + 1 \in DOMAIN files
  BY <1>1, <1>2
<1>4. ~(work[o].file < Len(files)) => work[o].file = Len(files)
  BY <1>1, <1>2 DEF files
<1>5. \A i \in DOMAIN files : 1 \in 1..files[i].size
  BY <1>2
<1>6. QED
  BY <1>1, <1>2, <1>3, <1>4, <1>5 DEF files

\* A request that has work to do has a file and a chunk of it.
WorkOK(w, t) ==
  /\ w \in Work
  /\ w.pc # "none" => t \in Tabs
  /\ w.pc \notin {"none", "finish", "end"} =>
       w.file \in DOMAIN Chosen[t] /\ w.chunk \in 1..Chosen[t][w.file].size

\* The page waits for the operation, or as before for another one.
PageOK(o, t, pc) ==
  /\ page' \in [Tabs -> Ops \cup {None}]
  /\ \A x \in Tabs : page'[x] # None =>
       \/ page'[x] = o /\ t = x /\ pc # "none"
       \/ page'[x] # o /\ page'[x] = page[x]

RestOK ==
  /\ parts' \in [Ops -> [Names -> Contents]]
  /\ dest' \in [Paths -> Contents \cup {None, Old, Torn}]
  /\ raced' \subseteq Paths /\ resumed' \subseteq Ops /\ faults' \in 0..MaxFaults

\* A step of operation o gives it a row and work; what the page waits for stays at work.
LEMMA OneTypes ==
  ASSUME TypeOK, NEW o \in Ops, NEW r \in Row, NEW w,
         WorkOK(w, r.tab),
         r.status # "none" <=> r.tab # None,
         w.pc # "none" => r.status = "running",
         rows' = [rows EXCEPT ![o] = r], work' = [work EXCEPT ![o] = w],
         PageOK(o, r.tab, w.pc), RestOK
  PROVE  TypeOK'
<1>1. w \in Work
  BY DEF WorkOK
<1>2. rows' \in [Ops -> Row] /\ work' \in [Ops -> Work]
  BY <1>1 DEF TypeOK
<1>3. /\ rows'[o] = r /\ work'[o] = w
      /\ \A u \in Ops : u # o => rows'[u] = rows[u] /\ work'[u] = work[u]
  BY DEF TypeOK
<1>4. \A u \in Ops : rows'[u].status # "none" <=> rows'[u].tab # None
  BY <1>3 DEF TypeOK
<1>5. \A u \in Ops : work'[u].pc # "none" =>
        /\ rows'[u].status = "running"
        /\ work'[u].pc \notin {"finish", "end"} =>
             /\ work'[u].file \in DOMAIN Chosen[rows'[u].tab]
             /\ work'[u].chunk \in 1..Chosen[rows'[u].tab][work'[u].file].size
  <2>1. CASE work'[o].pc # "none"
    BY <1>3, <2>1 DEF TypeOK, WorkOK, File
  <2>2. CASE work'[o].pc = "none"
    BY <1>3, <2>2 DEF TypeOK, File
  <2>3. QED
    BY <2>1, <2>2
<1>6. \A t \in Tabs : page'[t] # None =>
        rows'[page'[t]].tab = t /\ work'[page'[t]].pc # "none"
  BY <1>3 DEF TypeOK, PageOK
<1>7. QED
  BY <1>2, <1>4, <1>5, <1>6 DEF TypeOK, File, PageOK, RestOK

LEMMA IdleType == \A t : WorkOK(Idle, t) /\ Idle.pc = "none" /\ Idle.mode = "chunks" /\ ~Idle.errors
                           /\ Idle.saved = {}
<1>1. Idle \in Work
  BY DEF Idle, Work
<1>2. QED
  BY <1>1 DEF WorkOK, Idle

LEMMA FollowingType ==
  ASSUME TypeOK, NEW o \in Ops, work[o].pc = "save"
  PROVE  /\ WorkOK(Following(o), rows[o].tab)
         /\ Following(o).pc = "none" => page[rows[o].tab] # o
<1> DEFINE w == work[o]
<1>1. /\ rows[o].tab \in Tabs /\ w \in Work /\ Files(o) = Chosen[rows[o].tab]
      /\ w.file \in DOMAIN Files(o) /\ w.file \in Indices /\ w.file \in Nat \ {0}
      /\ w.chunk \in Nat /\ File(o).size = Size(o) /\ Size(o) \in Nat \ {0}
  BY AtWork
<1>2. Size(o) = Files(o)[w.file].size
  BY DEF Size, Files
<1> DEFINE next(f, c) == [Idle EXCEPT !.pc = "load", !.file = f, !.chunk = c]
<1>3. \A f \in Indices, c \in Nat :
        next(f, c) \in Work /\ next(f, c).pc = "load" /\ next(f, c).file = f /\ next(f, c).chunk = c
  BY DEF Idle, Work
<1>4. [Idle EXCEPT !.pc = "finish"] \in Work
  BY DEF Idle, Work
<1>5. CASE page[rows[o].tab] # o
  BY <1>5, IdleType DEF Following
<1>6. CASE page[rows[o].tab] = o /\ w.chunk < Size(o)
  <2>1. Following(o) = next(w.file, w.chunk + 1)
    BY <1>1, <1>6 DEF Following
  <2> HIDE DEF next
  <2>2. /\ Following(o) \in Work /\ Following(o).pc = "load" /\ Following(o).file = w.file
        /\ Following(o).chunk = w.chunk + 1
    BY ONLY <1>1, <1>3, <2>1
  <2>3. w.chunk + 1 \in 1..Chosen[rows[o].tab][w.file].size
    BY ONLY <1>1, <1>2, <1>6
  <2>4. w.file \in DOMAIN Chosen[rows[o].tab] /\ rows[o].tab \in Tabs
    BY <1>1
  <2> HIDE DEF w
  <2>5. QED
    BY <2>2, <2>3, <2>4 DEF WorkOK
<1>7. CASE page[rows[o].tab] = o /\ ~(w.chunk < Size(o)) /\ w.file < Len(Files(o))
  <2>1. Following(o) = next(w.file + 1, 1)
    BY <1>1, <1>7 DEF Following
  <2> HIDE DEF next
  <2>2. /\ w.file + 1 \in DOMAIN Chosen[rows[o].tab] /\ w.file + 1 \in Indices
        /\ 1 \in 1..Chosen[rows[o].tab][w.file + 1].size
    BY <1>7, NextFile
  <2>3. /\ Following(o) \in Work /\ Following(o).pc = "load" /\ Following(o).file = w.file + 1
        /\ Following(o).chunk = 1
    BY <1>3, <2>1, <2>2
  <2>4. QED
    BY <1>1, <2>2, <2>3 DEF WorkOK
<1>8. CASE page[rows[o].tab] = o /\ ~(w.chunk < Size(o)) /\ ~(w.file < Len(Files(o)))
  <2>1. Following(o) = [Idle EXCEPT !.pc = "finish"]
    BY <1>1, <1>8 DEF Following
  <2>2. Following(o) \in Work /\ Following(o).pc = "finish"
    BY <1>4, <2>1 DEF Idle
  <2>3. QED
    BY <1>1, <2>2 DEF WorkOK
<1>9. QED
  BY <1>5, <1>6, <1>7, <1>8

LEMMA OnwardType ==
  ASSUME TypeOK, NEW o \in Ops, work[o].pc \in {"open", "copy", "save"}, work[o].chunk = 1
  PROVE  /\ WorkOK(Onward(o), rows[o].tab) /\ Onward(o).pc \in {"find", "end"}
         /\ Onward(o).mode = work[o].mode /\ Onward(o).chunk = 1
         /\ Onward(o).saved = work[o].saved /\ Onward(o).errors = work[o].errors
         /\ Onward(o).pc = "find" => Onward(o).file = work[o].file + 1
         /\ Onward(o).pc = "end" => work[o].file = Len(Files(o))
<1> DEFINE w == work[o]
<1>1. /\ rows[o].tab \in Tabs /\ w \in Work /\ Files(o) = Chosen[rows[o].tab]
      /\ w.file \in DOMAIN Files(o) /\ w.file \in Indices /\ w.file \in Nat \ {0}
      /\ w.chunk \in Nat
  BY AtWork
<1>2. CASE w.file < Len(Files(o))
  <2>1. Onward(o) = [w EXCEPT !.pc = "find", !.file = @ + 1]
    BY <1>2 DEF Onward
  <2>2. /\ w.file + 1 \in DOMAIN Chosen[rows[o].tab] /\ w.file + 1 \in Indices
        /\ 1 \in 1..Chosen[rows[o].tab][w.file + 1].size
    BY <1>2, NextFile
  <2>3. /\ Onward(o) \in Work /\ Onward(o).pc = "find" /\ Onward(o).file = w.file + 1
        /\ Onward(o).chunk = 1 /\ Onward(o).mode = w.mode /\ Onward(o).saved = w.saved
        /\ Onward(o).errors = w.errors
    BY <1>1, <2>1, <2>2 DEF Work
  <2>4. QED
    BY <1>1, <2>2, <2>3 DEF WorkOK
<1>3. CASE ~(w.file < Len(Files(o)))
  <2>1. Onward(o) = [w EXCEPT !.pc = "end"]
    BY <1>3 DEF Onward
  <2>2. /\ Onward(o) \in Work /\ Onward(o).pc = "end" /\ Onward(o).chunk = 1
        /\ Onward(o).mode = w.mode /\ Onward(o).saved = w.saved /\ Onward(o).errors = w.errors
    BY <1>1, <2>1 DEF Work
  <2>3. w.file = Len(Files(o))
    BY <1>3, NextFile
  <2>4. QED
    BY <1>1, <2>2, <2>3 DEF WorkOK
<1>4. QED
  BY <1>2, <1>3

LEMMA ToldPage ==
  ASSUME TypeOK, NEW o \in Ops, Told(o)
  PROVE  \A t, pc : PageOK(o, t, pc)
<1>1. \A t \in Tabs : page'[t] = None \/ (page'[t] # o /\ page'[t] = page[t])
  BY DEF Told
<1>2. page' \in [Tabs -> Ops \cup {None}]
  BY DEF Told, TypeOK
<1>3. QED
  BY <1>1, <1>2 DEF PageOK

LEMMA SamePage ==
  ASSUME TypeOK, NEW o \in Ops, page' = page, NEW pc, pc = "none" => page[rows[o].tab] # o
  PROVE  PageOK(o, rows[o].tab, pc)
  BY DEF TypeOK, PageOK

LEMMA StartTypes ==
  ASSUME TypeOK, NEW t \in Tabs, NEW o \in Ops, NEW mode \in {"chunks", "direct"},
         NEW pc \in {"load", "find"}, Started(t, o, mode, pc)
  PROVE  TypeOK'
<1> DEFINE r == [status |-> "running", tab |-> t, saved |-> {}]
           w == [Idle EXCEPT !.pc = pc, !.mode = mode, !.file = 1, !.chunk = 1]
<1>1. r \in Row /\ r.tab = t /\ r.status = "running"
  BY DEF Row
<1>2. 1 \in DOMAIN Chosen[t] /\ 1 \in Indices /\ 1 \in 1..Chosen[t][1].size
  BY FilesOfTab
<1>3. w \in Work /\ w.pc = pc /\ w.file = 1 /\ w.chunk = 1
  BY <1>2 DEF Idle, Work
<1>4. WorkOK(w, t)
  BY <1>2, <1>3 DEF WorkOK
<1>5. t # None
  OBVIOUS
<1>6. PageOK(o, t, pc)
  <2>1. page' = [page EXCEPT ![t] = o] /\ page \in [Tabs -> Ops \cup {None}]
    BY DEF Started, TypeOK
  <2>2. \A x \in Tabs : page[x] # o
    <3>1. rows[o].tab = None /\ o # None
      BY DEF Started, TypeOK
    <3>2. \A x \in Tabs : x # None /\ (page[x] # None => rows[page[x]].tab = x)
      BY DEF TypeOK
    <3>3. QED
      BY ONLY <3>1, <3>2
  <2>3. QED
    BY <2>1, <2>2 DEF PageOK
<1>7. rows' = [rows EXCEPT ![o] = r] /\ work' = [work EXCEPT ![o] = w]
  BY DEF Started
<1> HIDE DEF r, w
<1>8. RestOK
  BY DEF RestOK, Started, TypeOK
<1>9. QED
  BY <1>1, <1>3, <1>4, <1>5, <1>6, <1>7, <1>8, OneTypes

\* A request ends with its row in some state.
LEMMA EndTypes ==
  ASSUME TypeOK, NEW o \in Ops, work[o].pc # "none", Ends(o),
         NEW st \in {"running", "failed", "success"},
         rows' = [rows EXCEPT ![o].status = st],
         RestOK
  PROVE  TypeOK'
<1> DEFINE r == [rows[o] EXCEPT !.status = st]
<1>1. rows[o] \in Row /\ rows[o].tab \in Tabs
  BY AtWork
<1>2. r \in Row /\ r.tab = rows[o].tab /\ r.status # "none"
  BY <1>1 DEF Row
<1>3. rows' = [rows EXCEPT ![o] = r]
  BY DEF TypeOK
<1>4. r.tab # None
  BY <1>1, <1>2
<1>5. WorkOK(Idle, r.tab) /\ Idle.pc = "none"
  BY IdleType
<1>6. PageOK(o, r.tab, Idle.pc)
  BY ToldPage DEF Ends
<1> HIDE DEF r
<1>7. work' = [work EXCEPT ![o] = Idle]
  BY DEF Ends
<1>8. QED
  BY <1>2, <1>3, <1>4, <1>5, <1>6, <1>7, OneTypes

\* The request goes on and its row is as it was, but for the list.
LEMMA GoTypes ==
  ASSUME TypeOK, NEW o \in Ops, work[o].pc # "none", NEW w, WorkOK(w, rows[o].tab),
         w.pc = "none" => page[rows[o].tab] # o,
         NEW list \in SUBSET Saved,
         rows' = [rows EXCEPT ![o].saved = list], work' = [work EXCEPT ![o] = w], page' = page,
         RestOK
  PROVE  TypeOK'
<1> DEFINE r == [rows[o] EXCEPT !.saved = list]
<1>1. rows[o] \in Row /\ rows[o].tab \in Tabs /\ rows[o].status = "running"
  BY AtWork
<1>2. r \in Row /\ r.tab = rows[o].tab /\ r.status = "running"
  BY <1>1 DEF Row
<1>3. rows' = [rows EXCEPT ![o] = r]
  BY DEF TypeOK
<1>4. r.tab # None
  BY <1>1, <1>2
<1>5. PageOK(o, r.tab, w.pc)
  BY <1>2, SamePage
<1>6. WorkOK(w, r.tab) /\ r.status # "none"
  BY <1>2
<1> HIDE DEF r
<1>7. QED
  BY <1>2, <1>3, <1>4, <1>5, <1>6, OneTypes

LEMMA WholeType ==
  ASSUME NEW t \in Tabs, NEW i \in DOMAIN Chosen[t]
  PROVE  /\ Whole(t, i) = FirstChunks(t, i, Chosen[t][i].size)
         /\ Whole(t, i) \in Contents /\ Whole(t, i) \notin {None, Old, Torn}
<1>1. i \in Indices /\ Chosen[t][i].size \in Nat
  BY FilesOfTab
<1>2. QED
  BY <1>1, FirstChunksType DEF Whole, FirstChunks

\* Work that goes on with the same file and chunk.
Goes(o, pc, list, p) == [work[o] EXCEPT !.pc = pc, !.saved = list, !.path = p]

LEMMA SameFile ==
  ASSUME TypeOK, NEW o \in Ops, work[o].pc \notin {"none", "finish", "end"},
         NEW pc \in {"load", "write", "find", "open", "copy", "save"},
         NEW list \in SUBSET Saved, NEW p \in Paths \cup {None}
  PROVE  LET w == Goes(o, pc, list, p) IN
         /\ WorkOK(w, rows[o].tab)
         /\ w.pc = pc /\ w.saved = list /\ w.path = p /\ w.mode = work[o].mode
         /\ w.file = work[o].file /\ w.chunk = work[o].chunk /\ w.errors = work[o].errors
<1>1. /\ work[o] \in Work /\ rows[o].tab \in Tabs
      /\ work[o].file \in DOMAIN Chosen[rows[o].tab]
      /\ work[o].chunk \in 1..Chosen[rows[o].tab][work[o].file].size
  <2>1. /\ work[o] \in Work /\ rows[o].tab \in Tabs /\ Files(o) = Chosen[rows[o].tab]
        /\ work[o].file \in DOMAIN Files(o)
        /\ Size(o) \in Nat /\ work[o].chunk \in Nat \ {0} /\ work[o].chunk <= Size(o)
    BY AtWork
  <2>2. QED
    BY <2>1 DEF Size
<1> DEFINE w == Goes(o, pc, list, p)
<1>2. /\ w \in Work /\ w.pc = pc /\ w.saved = list /\ w.path = p /\ w.mode = work[o].mode
      /\ w.file = work[o].file /\ w.chunk = work[o].chunk /\ w.errors = work[o].errors
  BY <1>1 DEF Work, Goes
<1> HIDE DEF w
<1>3. WorkOK(w, rows[o].tab)
  BY <1>1, <1>2 DEF WorkOK
<1>4. QED
  BY <1>2, <1>3 DEF w

LEMMA RowKept ==
  ASSUME TypeOK, NEW o \in Ops, rows' = rows
  PROVE  rows' = [rows EXCEPT ![o].saved = rows[o].saved] /\ rows[o].saved \in SUBSET Saved
<1>1. rows \in [Ops -> Row]
  BY DEF TypeOK
<1>2. rows[o] \in Row
  BY <1>1
<1>3. [rows[o] EXCEPT !.saved = rows[o].saved] = rows[o] /\ rows[o].saved \in SUBSET Saved
  BY <1>2 DEF Row
<1>4. QED
  BY <1>1, <1>3

LEMMA LoadTypes == ASSUME TypeOK, NEW o \in Ops, Load(o) PROVE TypeOK'
<1>1. /\ work[o] \in Work /\ work[o].pc = "load" /\ rows[o].status = "running"
      /\ rows[o].saved \in SUBSET Saved
  BY AtWork DEF Load, Row
<1> DEFINE w == Goes(o, "write", rows[o].saved, work[o].path)
<1>2. w = [work[o] EXCEPT !.pc = "write", !.saved = rows[o].saved]
  BY <1>1, ZenonT(30) DEF Work, Goes
<1>3. work' = [work EXCEPT ![o] = w] /\ page' = page
  <2>1. work' = [work EXCEPT ![o].pc = "write", ![o].saved = rows[o].saved] /\ page' = page
    BY <1>1 DEF Load
  <2>2. work' = [work EXCEPT ![o] = [work[o] EXCEPT !.pc = "write", !.saved = rows[o].saved]]
    BY <2>1, Zenon
  <2>3. QED
    BY <1>2, <2>1, <2>2, Zenon
<1>4. WorkOK(w, rows[o].tab) /\ w.pc = "write"
  <2>1. work[o].path \in Paths \cup {None}
    BY <1>1 DEF Work
  <2>2. QED
    BY <1>1, <2>1, SameFile
<1>5. RestOK /\ rows' = rows
  BY DEF Load, RestOK, TypeOK
<1> HIDE DEF w
<1>6. QED
  BY <1>1, <1>3, <1>4, <1>5, RowKept, GoTypes

LEMMA WriteTypes == ASSUME TypeOK, NEW o \in Ops, Write(o) PROVE TypeOK'
<1>1. /\ work[o] \in Work /\ work[o].pc = "write" /\ rows[o].tab \in Tabs
      /\ work[o].saved \in SUBSET Saved /\ work[o].path \in Paths \cup {None}
      /\ work[o].file \in Indices /\ work[o].chunk \in Nat
  BY AtWork DEF Write, Work
<1>2. PICK pc \in {"find", "save"} : work' = [work EXCEPT ![o].pc = pc]
  BY DEF Write
<1> DEFINE w == Goes(o, pc, work[o].saved, work[o].path)
<1>3. w = [work[o] EXCEPT !.pc = pc]
  BY <1>1, ZenonT(30) DEF Work, Goes
<1>4. work' = [work EXCEPT ![o] = w] /\ page' = page /\ rows' = rows
  BY <1>1, <1>2, <1>3 DEF Write, TypeOK
<1>5. WorkOK(w, rows[o].tab) /\ w.pc = pc
  BY <1>1, SameFile
<1> DEFINE chunk == <<rows[o].tab, work[o].file, work[o].chunk>>
<1>6. chunk \in Chunks
  BY <1>1 DEF Chunks
<1>7. \A c \in Contents : Append(c, chunk) \in Contents
  <2> HIDE DEF chunk
  <2>1. QED
    BY <1>6 DEF Contents
<1>8. <<chunk>> \in Contents
  <2> HIDE DEF chunk
  <2>1. QED
    BY <1>6 DEF Contents
<1>9. parts' \in [Ops -> [Names -> Contents]]
  <2> HIDE DEF chunk
  <2>1. parts' = [parts EXCEPT ![o][File(o).name] =
                    IF work[o].chunk = 1 THEN <<chunk>> ELSE Append(@, chunk)]
    BY DEF Write, Session, chunk
  <2>2. parts \in [Ops -> [Names -> Contents]]
    BY DEF TypeOK
  <2>3. parts[o] \in [Names -> Contents] /\ File(o).name \in Names
    BY <1>1, <2>2, AtWork
  <2>4. parts[o][File(o).name] \in Contents
    BY <2>3
  <2>5. QED
    BY <1>7, <1>8, <2>1, <2>2, <2>3, <2>4
<1>10. RestOK
  BY <1>9 DEF Write, RestOK, TypeOK
<1> HIDE DEF w
<1>11. QED
  BY <1>1, <1>4, <1>5, <1>10, RowKept, GoTypes

LEMMA FindTypes == ASSUME TypeOK, NEW o \in Ops, Find(o) PROVE TypeOK'
<1>1. /\ work[o] \in Work /\ work[o].pc = "find" /\ work[o].saved \in SUBSET Saved
      /\ File(o).name \in Names
  BY AtWork DEF Find, Work
<1>2. PICK c \in 0..MaxCopies :
        /\ work' = [work EXCEPT ![o].pc = "open", ![o].path = <<File(o).name, c>>]
        /\ raced' \subseteq raced \cup {<<File(o).name, c>>}
  BY DEF Find
<1> DEFINE p == <<File(o).name, c>>
           w == Goes(o, "open", work[o].saved, p)
<1>3. p \in Paths
  BY <1>1 DEF Paths
<1>4. w = [work[o] EXCEPT !.pc = "open", !.path = p]
  BY <1>1, ZenonT(30) DEF Work, Goes
<1>5. work' = [work EXCEPT ![o] = w] /\ page' = page /\ rows' = rows
  BY <1>1, <1>2, <1>4 DEF Find, TypeOK
<1>6. WorkOK(w, rows[o].tab) /\ w.pc = "open"
  <2>1. /\ w \in Work /\ w.pc = "open"
        /\ w.file = work[o].file /\ w.chunk = work[o].chunk
    BY <1>1, <1>3, <1>4 DEF Work
  <2>2. /\ rows[o].tab \in Tabs /\ Files(o) = Chosen[rows[o].tab]
        /\ work[o].file \in DOMAIN Files(o)
        /\ Size(o) \in Nat /\ work[o].chunk \in Nat \ {0} /\ work[o].chunk <= Size(o)
    BY <1>1, AtWork
  <2>3. work[o].chunk \in 1..Chosen[rows[o].tab][work[o].file].size
    BY <2>2 DEF Size
  <2> HIDE DEF w
  <2>4. QED
    BY <2>1, <2>2, <2>3 DEF WorkOK
<1>7. RestOK
  BY <1>2, <1>3 DEF Find, RestOK, TypeOK
<1> HIDE DEF w
<1>8. QED
  BY <1>1, <1>5, <1>6, <1>7, RowKept, GoTypes

LEMMA OpenTypes == ASSUME TypeOK, NEW o \in Ops, ModeOK(o), Open(o) PROVE TypeOK'
<1>1. /\ work[o] \in Work /\ work[o].pc = "open" /\ work[o].saved \in SUBSET Saved
      /\ work[o].path \in Paths
  BY AtWork DEF Open, Work, ModeOK
<1> DEFINE w == Goes(o, "copy", work[o].saved, work[o].path)
<1>2. w = [work[o] EXCEPT !.pc = "copy"]
  BY <1>1, ZenonT(30) DEF Work, Goes
<1>3. work' = [work EXCEPT ![o] = w] /\ page' = page /\ rows' = rows
  BY <1>1, <1>2 DEF Open, TypeOK
<1>4. WorkOK(w, rows[o].tab) /\ w.pc = "copy"
  <2>1. work[o].pc \notin {"none", "finish", "end"} /\ work[o].path \in Paths \cup {None}
    BY <1>1
  <2>2. QED
    BY <1>1, <2>1, SameFile
<1>5. RestOK
  BY <1>1 DEF Open, RestOK, TypeOK
<1> HIDE DEF w
<1>6. QED
  BY <1>1, <1>3, <1>4, <1>5, RowKept, GoTypes

\* What is copied is a content.
LEMMA BroughtType ==
  ASSUME TypeOK, NEW o \in Ops, work[o].pc = "copy"
  PROVE  Brought(o) \in Contents /\ File(o).name \in Names
<1>1. /\ rows[o].tab \in Tabs /\ work[o].file \in DOMAIN Chosen[rows[o].tab]
      /\ File(o).name \in Names
  BY AtWork
<1>2. Whole(rows[o].tab, work[o].file) \in Contents
  BY <1>1, WholeType
<1>3. parts[o][File(o).name] \in Contents
  BY <1>1 DEF TypeOK
<1>4. QED
  BY <1>1, <1>2, <1>3 DEF Brought, Part, Session

LEMMA CopyTypes == ASSUME TypeOK, NEW o \in Ops, ModeOK(o), Copy(o) PROVE TypeOK'
<1>1. /\ work[o] \in Work /\ work[o].pc = "copy" /\ work[o].saved \in SUBSET Saved
      /\ work[o].path \in Paths /\ work[o].file \in Indices
  BY AtWork DEF Copy, Work, ModeOK
<1> DEFINE list == work[o].saved \cup {[file |-> work[o].file, path |-> work[o].path]}
           w == Goes(o, "save", list, work[o].path)
<1>2. list \in SUBSET Saved
  BY <1>1 DEF Saved
<1>3. w = [work[o] EXCEPT !.pc = "save", !.saved = list]
  BY <1>1, ZenonT(30) DEF Work, Goes
<1>4. work' = [work EXCEPT ![o] = w] /\ page' = page /\ rows' = rows
  BY <1>1, <1>3 DEF Copy, TypeOK
<1>5. WorkOK(w, rows[o].tab) /\ w.pc = "save"
  <2>1. work[o].path \in Paths \cup {None} /\ work[o].pc \notin {"none", "finish", "end"}
    BY <1>1
  <2>2. ASSUME NEW some \in SUBSET Saved, NEW x \in Paths \cup {None}
        PROVE  WorkOK(Goes(o, "save", some, x), rows[o].tab) /\ Goes(o, "save", some, x).pc = "save"
    BY <2>1, SameFile
  <2>3. QED
    BY <1>2, <2>1, <2>2
<1>6. dest' \in [Paths -> Contents \cup {None, Old, Torn}]
  BY <1>1, BroughtType DEF Copy, TypeOK
<1>7. parts' \in [Ops -> [Names -> Contents]]
  <2>1. << >> \in Contents
    BY DEF Contents
  <2>2. parts \in [Ops -> [Names -> Contents]] /\ File(o).name \in Names
    BY <1>1, BroughtType DEF TypeOK
  <2>3. parts' = parts \/ parts' = [parts EXCEPT ![o][File(o).name] = << >>]
    BY DEF Copy, Session
  <2>4. parts[o] \in [Names -> Contents]
    BY <2>2
  <2>5. [parts[o] EXCEPT ![File(o).name] = << >>] \in [Names -> Contents]
    BY <2>1, <2>2, <2>4
  <2>6. QED
    BY <2>2, <2>3, <2>5
<1>8. RestOK
  BY <1>6, <1>7 DEF Copy, RestOK, TypeOK
<1> HIDE DEF w, list
<1>9. QED
  BY <1>1, <1>4, <1>5, <1>8, RowKept, GoTypes

LEMMA SaveTypes == ASSUME TypeOK, NEW o \in Ops, ModeOK(o), Save(o) PROVE TypeOK'
<1> DEFINE w == IF work[o].mode = "direct" THEN Onward(o) ELSE Following(o)
<1>1. work[o] \in Work /\ work[o].pc = "save" /\ work[o].saved \in SUBSET Saved
  BY AtWork DEF Save, Work
<1>2. WorkOK(w, rows[o].tab) /\ (w.pc = "none" => page[rows[o].tab] # o)
  <2>1. CASE work[o].mode = "direct"
    BY <1>1, <2>1, OnwardType DEF ModeOK
  <2>2. CASE work[o].mode # "direct"
    BY <1>1, <2>2, FollowingType
  <2>3. QED
    BY <2>1, <2>2
<1>3. RestOK
  BY DEF Save, RestOK, TypeOK
<1>4. /\ rows' = [rows EXCEPT ![o].saved = work[o].saved]
      /\ work' = [work EXCEPT ![o] = w] /\ page' = page
  BY DEF Save
<1> HIDE DEF w
<1>5. QED
  BY <1>1, <1>2, <1>3, <1>4, GoTypes

LEMMA FileFailsTypes == ASSUME TypeOK, NEW o \in Ops, ModeOK(o), FileFails(o) PROVE TypeOK'
<1> DEFINE w == [Onward(o) EXCEPT !.errors = TRUE]
<1>1. work[o].pc \in {"open", "copy", "save"} /\ work[o].chunk = 1
  BY DEF FileFails, ModeOK
<1>2. WorkOK(Onward(o), rows[o].tab) /\ Onward(o).pc \in {"find", "end"}
  BY <1>1, OnwardType
<1>3. WorkOK(w, rows[o].tab) /\ w.pc # "none"
  <2>1. /\ w \in Work /\ w.pc = Onward(o).pc /\ w.file = Onward(o).file
        /\ w.chunk = Onward(o).chunk
    BY <1>2 DEF Work, WorkOK
  <2> HIDE DEF w
  <2>2. QED
    BY <1>2, <2>1 DEF WorkOK
<1>4. RestOK
  BY DEF FileFails, Fault, RestOK, TypeOK
<1>5. work' = [work EXCEPT ![o] = w] /\ page' = page /\ rows' = rows
  BY DEF FileFails
<1> HIDE DEF w
<1>6. QED
  BY <1>1, <1>3, <1>4, <1>5, RowKept, GoTypes

LEMMA SameStatus ==
  ASSUME TypeOK, NEW o \in Ops, work[o].pc # "none", rows' = rows
  PROVE  rows' = [rows EXCEPT ![o].status = "running"]
<1>1. rows \in [Ops -> Row] /\ rows[o] \in Row /\ rows[o].status = "running"
  BY AtWork DEF TypeOK
<1>2. [rows[o] EXCEPT !.status = "running"] = rows[o]
  BY <1>1 DEF Row
<1>3. QED
  BY <1>1, <1>2

LEMMA FailsTypes == ASSUME TypeOK, NEW o \in Ops, Fails(o) PROVE TypeOK'
<1>1. RestOK /\ work[o].pc # "none" /\ Ends(o) /\ rows' = rows
  BY DEF Fails, Fault, RestOK, TypeOK
<1>2. QED
  BY <1>1, SameStatus, EndTypes

LEMMA FinishTypes == ASSUME TypeOK, NEW o \in Ops, Finish(o) PROVE TypeOK'
<1>1. /\ work[o] \in Work /\ work[o].pc = "finish" /\ rows[o].status = "running"
      /\ rows[o].tab \in Tabs
  BY AtWork DEF Finish
<1>2. CASE Cardinality(rows[o].saved) # Len(Files(o))
  <2>1. RestOK /\ Ends(o) /\ rows' = [rows EXCEPT ![o].status = "failed"]
    BY <1>1, <1>2 DEF Finish, RestOK, TypeOK
  <2>2. QED
    BY <1>1, <2>1, EndTypes
<1>3. CASE Cardinality(rows[o].saved) = Len(Files(o))
  <2> DEFINE w == [work[o] EXCEPT !.pc = "end"]
  <2>1. w \in Work /\ w.pc = "end"
    BY <1>1 DEF Work
  <2>2. WorkOK(w, rows[o].tab)
    BY <1>1, <2>1 DEF WorkOK
  <2>3. << >> \in Contents
    BY DEF Contents
  <2>4. /\ work' = [work EXCEPT ![o] = w] /\ rows' = rows /\ page' = page
        /\ parts' = [parts EXCEPT ![o] = [n \in Names |-> << >>]]
        /\ UNCHANGED <<dest, raced, resumed, faults>>
    BY <1>1, <1>3 DEF Finish, Session, TypeOK
  <2>5. RestOK
    BY <2>3, <2>4 DEF RestOK, TypeOK
  <2> HIDE DEF w
  <2>6. QED
    BY <1>1, <2>1, <2>2, <2>4, <2>5, RowKept, GoTypes
<1>4. QED
  BY <1>2, <1>3

LEMMA EndStepTypes == ASSUME TypeOK, NEW o \in Ops, End(o) PROVE TypeOK'
<1>1. RestOK /\ work[o].pc # "none" /\ Ends(o) /\ rows' = [rows EXCEPT ![o].status = Verdict(o)]
  BY DEF End, RestOK, TypeOK
<1>2. Verdict(o) \in {"failed", "success"}
  BY DEF Verdict
<1>3. QED
  BY <1>1, <1>2, EndTypes

LEMMA ResumeTypes == ASSUME TypeOK, NEW o \in Ops, Resume(o) PROVE TypeOK'
<1> DEFINE r == [rows[o] EXCEPT !.status = "running"]
           w == [Idle EXCEPT !.pc = "end", !.mode = "worker"]
<1>1. rows[o] \in Row /\ rows[o].status = "failed" /\ rows[o].tab # None /\ work[o].pc = "none"
  BY DEF Resume, TypeOK
<1>2. r \in Row /\ r.tab = rows[o].tab /\ r.status = "running"
  BY <1>1 DEF Row
<1>3. w \in Work /\ w.pc = "end"
  BY DEF Idle, Work
<1>4. WorkOK(w, r.tab)
  <2>1. rows[o].tab \in Tabs
    BY <1>1 DEF Row
  <2> HIDE DEF w, r
  <2>2. QED
    BY <1>2, <1>3, <2>1 DEF WorkOK
<1>5. PageOK(o, r.tab, w.pc)
  BY <1>1, <1>2 DEF Resume, PageOK, TypeOK
<1>6. RestOK /\ rows' = [rows EXCEPT ![o] = r] /\ work' = [work EXCEPT ![o] = w]
  BY DEF Resume, RestOK, TypeOK
<1> HIDE DEF r, w
<1>7. QED
  BY <1>1, <1>2, <1>3, <1>4, <1>5, <1>6, OneTypes

LEMMA TypesKept == ASSUME TypeOK, \A o \in Ops : ModeOK(o), [Next]_vars PROVE TypeOK'
<1>1. CASE \E t \in Tabs : GivesUp(t)
  BY <1>1 DEF GivesUp, Fault, TypeOK, File
<1>2. CASE \E t \in Tabs, o \in Ops : StartChunks(t, o) \/ StartDirect(t, o)
  BY <1>2, StartTypes DEF StartChunks, StartDirect
<1>3. ASSUME NEW o \in Ops, Handle(o) PROVE TypeOK'
  BY <1>3, LoadTypes, WriteTypes, FindTypes, OpenTypes, CopyTypes, SaveTypes, FileFailsTypes,
     FailsTypes, FinishTypes, EndStepTypes DEF Handle
<1>4. CASE \E o \in Ops : Resume(o)
  BY <1>4, ResumeTypes
<1>5. CASE UNCHANGED vars
  BY <1>5 DEF vars, TypeOK, File
<1>6. QED
  BY <1>1, <1>2, <1>3, <1>4, <1>5 DEF Next

-----------------------------------------------------------------------------
(* What a request knows of its operation *)

\* What another operation does is of no concern.
LEMMA OneKept ==
  ASSUME NEW o \in Ops, OneOK(o), rows'[o] = rows[o], work'[o] = work[o], parts'[o] = parts[o],
         o \in resumed' <=> o \in resumed
  PROVE  OneOK(o)'
<1>1. ModeOK(o)'
  BY DEF OneOK, ModeOK, Size
<1>2. ReceivedOK(o)'
  BY DEF OneOK, ReceivedOK, File, Size
<1>3. CountOK(o)'
  BY DEF OneOK, CountOK, Size, Files
<1>4. QED
  BY <1>1, <1>2, <1>3 DEF OneOK

\* The work is at the same chunk of the same file as before.
SamePlace(o) ==
  /\ work'[o].mode = work[o].mode /\ work'[o].file = work[o].file
  /\ work'[o].chunk = work[o].chunk /\ work'[o].errors = work[o].errors
  /\ rows'[o].tab = rows[o].tab /\ rows'[o].status = rows[o].status

LEMMA SamePlaceSize ==
  ASSUME NEW o \in Ops, SamePlace(o)
  PROVE  Size(o)' = Size(o) /\ File(o)' = File(o) /\ Files(o)' = Files(o)
  BY DEF SamePlace, Size, File, Files

LEMMA LoadOne == ASSUME TypeOK, NEW o \in Ops, OneOK(o), Load(o) PROVE OneOK(o)'
<1>1. /\ work[o] \in Work /\ work[o].pc = "load" /\ rows[o].status = "running"
      /\ work[o].mode = "chunks"
  BY AtWork DEF Load, OneOK, ModeOK, Work
<1>2. /\ SamePlace(o) /\ work'[o].pc = "write" /\ work'[o].saved = rows[o].saved
      /\ rows' = rows /\ parts' = parts /\ resumed' = resumed
  BY <1>1 DEF Load, TypeOK, SamePlace, Work
<1>3. Size(o)' = Size(o) /\ File(o)' = File(o) /\ Files(o)' = Files(o)
  BY <1>2, SamePlaceSize
<1>4. ModeOK(o)'
  BY <1>1, <1>2, <1>3 DEF OneOK, ModeOK, SamePlace
<1>5. ReceivedOK(o)'
  BY <1>1, <1>2, <1>3 DEF OneOK, ReceivedOK, SamePlace
<1>6. CountOK(o)'
  BY <1>1, <1>2, <1>3 DEF OneOK, CountOK, SamePlace
<1>7. QED
  BY <1>4, <1>5, <1>6 DEF OneOK

LEMMA WriteOne == ASSUME TypeOK, NEW o \in Ops, OneOK(o), Write(o) PROVE OneOK(o)'
<1>1. /\ work[o] \in Work /\ work[o].pc = "write" /\ rows[o].status = "running"
      /\ work[o].mode = "chunks"
  BY AtWork DEF Write, OneOK, ModeOK, Work
<1>2. /\ rows[o].tab \in Tabs /\ work[o].file \in Indices /\ work[o].chunk \in Nat \ {0}
      /\ File(o).name \in Names /\ File(o).size = Size(o)
  BY <1>1, AtWork
<1>3. /\ SamePlace(o) /\ work'[o].saved = work[o].saved
      /\ work'[o].pc = IF work[o].chunk = Size(o) THEN "find" ELSE "save"
      /\ rows' = rows /\ resumed' = resumed
  BY <1>1, <1>2 DEF Write, TypeOK, SamePlace, Work
<1>4. Size(o)' = Size(o) /\ File(o)' = File(o) /\ Files(o)' = Files(o)
  BY <1>3, SamePlaceSize
<1>5. parts'[o][File(o).name] = FirstChunks(rows[o].tab, work[o].file, work[o].chunk)
  <2> DEFINE chunk == <<rows[o].tab, work[o].file, work[o].chunk>>
  <2>1. parts'[o][File(o).name] =
          IF work[o].chunk = 1 THEN <<chunk>> ELSE Append(parts[o][File(o).name], chunk)
    <3>1. parts \in [Ops -> [Names -> Contents]]
      BY DEF TypeOK
    <3>2. parts[o] \in [Names -> Contents]
      BY <3>1
    <3> HIDE DEF chunk
    <3>3. parts' = [parts EXCEPT ![o][File(o).name] =
                      IF work[o].chunk = 1 THEN <<chunk>> ELSE Append(@, chunk)]
      BY DEF Write, Session, chunk
    <3>4. QED
      BY <1>2, <3>1, <3>2, <3>3
  <2>2. CASE work[o].chunk = 1
    BY <1>2, <2>1, <2>2, NextChunk
  <2>3. CASE work[o].chunk # 1
    <3>1. parts[o][File(o).name] = FirstChunks(rows[o].tab, work[o].file, work[o].chunk - 1)
      BY <1>1, <2>3 DEF OneOK, ReceivedOK
    <3>2. Append(FirstChunks(rows[o].tab, work[o].file, work[o].chunk - 1), chunk)
            = FirstChunks(rows[o].tab, work[o].file, work[o].chunk)
      BY <1>2, <2>3, NextChunk
    <3> HIDE DEF chunk
    <3>3. QED
      BY <2>1, <2>3, <3>1, <3>2
  <2>4. QED
    BY <2>2, <2>3
<1>6. ModeOK(o)'
  BY <1>1, <1>3, <1>4 DEF OneOK, ModeOK, SamePlace
<1>7. ReceivedOK(o)'
  BY <1>1, <1>3, <1>4, <1>5 DEF ReceivedOK, SamePlace
<1>8. CountOK(o)'
  BY <1>1, <1>3, <1>4 DEF OneOK, CountOK, SamePlace, Counting
<1>9. QED
  BY <1>6, <1>7, <1>8 DEF OneOK

LEMMA FindOne ==
  ASSUME TypeOK, NEW o \in Ops, OneOK(o), Untouched, Find(o) PROVE OneOK(o)'
<1>1. work[o] \in Work /\ work[o].pc = "find" /\ rows[o].status = "running" /\ File(o).name \in Names
  BY AtWork DEF Find
<1>2. PICK c \in 0..MaxCopies :
        /\ work' = [work EXCEPT ![o].pc = "open", ![o].path = <<File(o).name, c>>]
        /\ dest[<<File(o).name, c>>] = None
  BY DEF Find, Available, Taken
<1>3. <<File(o).name, c>> \in Paths \ Before
  BY <1>1, <1>2 DEF Paths, Untouched
<1>4. /\ SamePlace(o) /\ work'[o].saved = work[o].saved /\ work'[o].pc = "open"
      /\ work'[o].path = <<File(o).name, c>>
      /\ rows' = rows /\ parts' = parts /\ resumed' = resumed
  BY <1>1, <1>2 DEF Find, TypeOK, SamePlace, Work
<1>5. Size(o)' = Size(o) /\ File(o)' = File(o) /\ Files(o)' = Files(o)
  BY <1>4, SamePlaceSize
<1>6. ModeOK(o)'
  BY <1>1, <1>3, <1>4, <1>5 DEF OneOK, ModeOK, SamePlace
<1>7. ReceivedOK(o)'
  BY <1>1, <1>4, <1>5 DEF OneOK, ReceivedOK, SamePlace
<1>8. CountOK(o)'
  BY <1>1, <1>4, <1>5 DEF OneOK, CountOK, SamePlace, Counting
<1>9. QED
  BY <1>6, <1>7, <1>8 DEF OneOK

LEMMA OpenOne == ASSUME TypeOK, NEW o \in Ops, OneOK(o), Open(o) PROVE OneOK(o)'
<1>1. work[o] \in Work /\ work[o].pc = "open" /\ rows[o].status = "running"
  BY AtWork DEF Open
<1>2. /\ SamePlace(o) /\ work'[o].saved = work[o].saved /\ work'[o].pc = "copy"
      /\ work'[o].path = work[o].path
      /\ rows' = rows /\ parts' = parts /\ resumed' = resumed
  BY <1>1 DEF Open, TypeOK, SamePlace, Work
<1>3. Size(o)' = Size(o) /\ File(o)' = File(o) /\ Files(o)' = Files(o)
  BY <1>2, SamePlaceSize
<1>4. ModeOK(o)'
  BY <1>1, <1>2, <1>3 DEF OneOK, ModeOK, SamePlace
<1>5. ReceivedOK(o)'
  BY <1>1, <1>2, <1>3 DEF OneOK, ReceivedOK, SamePlace
<1>6. CountOK(o)'
  BY <1>1, <1>2, <1>3 DEF OneOK, CountOK, SamePlace, Counting
<1>7. QED
  BY <1>4, <1>5, <1>6 DEF OneOK

LEMMA CopyOne == ASSUME TypeOK, NEW o \in Ops, OneOK(o), Copy(o) PROVE OneOK(o)'
<1>1. /\ work[o] \in Work /\ work[o].pc = "copy" /\ rows[o].status = "running"
      /\ work[o].file \in Nat \ {0}
  BY AtWork DEF Copy
<1> DEFINE new == [file |-> work[o].file, path |-> work[o].path]
<1>2. /\ SamePlace(o) /\ work'[o].saved = work[o].saved \cup {new} /\ work'[o].pc = "save"
      /\ rows' = rows /\ resumed' = resumed
  BY <1>1 DEF Copy, TypeOK, SamePlace, Work
<1>3. Size(o)' = Size(o) /\ File(o)' = File(o) /\ Files(o)' = Files(o)
  BY <1>2, SamePlaceSize
<1>4. ModeOK(o)'
  BY <1>1, <1>2, <1>3 DEF OneOK, ModeOK, SamePlace
<1>5. ReceivedOK(o)'
  BY <1>1, <1>2, <1>3 DEF OneOK, ModeOK, ReceivedOK, SamePlace
<1>6. ASSUME ~work[o].errors
      PROVE  Through(work'[o].saved, work[o].file) /\ Through(work'[o].saved, work[o].file + 1)
  <2>1. Through(work[o].saved, work[o].file)
    BY <1>1, <1>6 DEF OneOK, CountOK, Counting
  <2>2. new \in work'[o].saved /\ new.file = work[o].file
    BY <1>2
  <2> HIDE DEF new
  <2>3. QED
    BY <1>1, <1>2, <2>1, <2>2 DEF Through
<1>7. CountOK(o)'
  <2> HIDE DEF new
  <2>1. QED
    BY <1>1, <1>2, <1>3, <1>6 DEF CountOK, SamePlace, Counting
<1>8. QED
  BY <1>4, <1>5, <1>7 DEF OneOK

\* A list that goes to the next file, or to the end.
LEMMA ThroughNext ==
  ASSUME NEW list, NEW i, NEW j, i = j, Through(list, i) PROVE Through(list, j)
  OBVIOUS

LEMMA SaveOne == ASSUME TypeOK, NEW o \in Ops, OneOK(o), Save(o) PROVE OneOK(o)'
<1>1. /\ work[o] \in Work /\ work[o].pc = "save" /\ rows[o] \in Row /\ rows[o].status = "running"
      /\ work[o].file \in Nat \ {0} /\ work[o].chunk \in Nat \ {0} /\ work[o].chunk <= Size(o)
      /\ Size(o) \in Nat /\ File(o).size = Size(o)
  BY AtWork DEF Save
<1>2. /\ rows'[o].saved = work[o].saved /\ rows'[o].tab = rows[o].tab
      /\ rows'[o].status = "running" /\ parts' = parts /\ resumed' = resumed
  BY <1>1 DEF Save, TypeOK, Row
<1>3. Files(o)' = Files(o)
  BY <1>2 DEF Files
<1>4. work[o].mode # "worker"
  BY <1>1 DEF OneOK, ModeOK
<1>5. CASE work[o].mode = "direct"
  <2>1. work[o].chunk = 1
    BY <1>5 DEF OneOK, ModeOK
  <2>2. work'[o] = Onward(o)
    BY <1>5 DEF Save, TypeOK
  <2>3. /\ work'[o].pc \in {"find", "end"} /\ work'[o].mode = "direct" /\ work'[o].chunk = 1
        /\ work'[o].saved = work[o].saved /\ work'[o].errors = work[o].errors
        /\ work'[o].pc = "find" => work'[o].file = work[o].file + 1
        /\ work'[o].pc = "end" => work[o].file = Len(Files(o))
    BY <1>1, <1>5, <2>1, <2>2, OnwardType
  <2>4. ~work[o].errors => Through(work[o].saved, work[o].file + 1)
    BY <1>1, <1>5 DEF OneOK, CountOK
  <2>5. ModeOK(o)'
    BY <1>2, <2>3 DEF OneOK, ModeOK
  <2>6. ReceivedOK(o)'
    BY <2>3 DEF ReceivedOK
  <2>7. CountOK(o)'
    BY <1>1, <1>2, <1>3, <2>3, <2>4 DEF CountOK, Counting
  <2>8. QED
    BY <2>5, <2>6, <2>7 DEF OneOK
<1>6. CASE work[o].mode = "chunks"
  <2>1. work'[o] = Following(o)
    BY <1>6 DEF Save, TypeOK
  <2>2. ~work[o].errors
    BY <1>6 DEF OneOK, ModeOK
  <2>3. /\ Through(rows'[o].saved, work[o].file)
        /\ work[o].chunk = Size(o) => Through(rows'[o].saved, work[o].file + 1)
    BY <1>1, <1>2, <2>2 DEF OneOK, CountOK, Counting
  <2>4. CASE page[rows[o].tab] # o
    <3>1. work'[o] = Idle
      BY <2>1, <2>4 DEF Following
    <3>2. QED
      BY <1>2, <3>1 DEF OneOK, ModeOK, ReceivedOK, CountOK, Counting, Idle
  <2>5. CASE page[rows[o].tab] = o /\ work[o].chunk < Size(o)
    <3>1. work'[o] = [Idle EXCEPT !.pc = "load", !.file = work[o].file, !.chunk = work[o].chunk + 1]
      BY <1>1, <2>1, <2>5 DEF Following
    <3>2. /\ work'[o].pc = "load" /\ work'[o].mode = "chunks" /\ work'[o].file = work[o].file
          /\ work'[o].chunk = work[o].chunk + 1 /\ ~work'[o].errors
      BY <3>1 DEF Idle
    <3>3. File(o)' = File(o)
      BY <1>2, <3>2 DEF File
    <3>4. parts[o][File(o).name] = FirstChunks(rows[o].tab, work[o].file, work[o].chunk)
      BY <1>1, <1>6, <2>5 DEF OneOK, ReceivedOK
    <3>5. ModeOK(o)'
      BY <3>2 DEF ModeOK
    <3>6. ReceivedOK(o)'
      <4>1. work'[o].chunk - 1 = work[o].chunk
        BY <1>1, <3>2
      <4>2. QED
        BY <1>2, <3>2, <3>3, <3>4, <4>1 DEF ReceivedOK
    <3>7. CountOK(o)'
      BY <1>2, <2>3, <3>2 DEF CountOK, Counting
    <3>8. QED
      BY <3>5, <3>6, <3>7 DEF OneOK
  <2>6. CASE page[rows[o].tab] = o /\ ~(work[o].chunk < Size(o)) /\ work[o].file < Len(Files(o))
    <3>1. work'[o] = [Idle EXCEPT !.pc = "load", !.file = work[o].file + 1, !.chunk = 1]
      BY <1>1, <2>1, <2>6 DEF Following
    <3>2. /\ work'[o].pc = "load" /\ work'[o].mode = "chunks" /\ work'[o].file = work[o].file + 1
          /\ work'[o].chunk = 1 /\ ~work'[o].errors
      BY <3>1 DEF Idle
    <3>3. Through(rows'[o].saved, work'[o].file)
      BY <1>1, <2>3, <2>6, <3>2
    <3>4. QED
      BY <1>2, <3>2, <3>3 DEF OneOK, ModeOK, ReceivedOK, CountOK, Counting
  <2>7. CASE page[rows[o].tab] = o /\ ~(work[o].chunk < Size(o)) /\ ~(work[o].file < Len(Files(o)))
    <3>1. work'[o] = [Idle EXCEPT !.pc = "finish"]
      BY <1>1, <2>1, <2>7 DEF Following
    <3>2. work'[o].pc = "finish" /\ work'[o].mode = "chunks" /\ ~work'[o].errors
      BY <3>1 DEF Idle
    <3>3. work[o].file = Len(Files(o))
      BY <1>1, <2>7, NextFile
    <3>4. Through(rows'[o].saved, Len(Files(o)) + 1)
      BY <1>1, <2>3, <2>7, <3>3
    <3>5. QED
      BY <1>2, <1>3, <3>2, <3>4 DEF OneOK, ModeOK, ReceivedOK, CountOK, Counting
  <2>8. QED
    BY <2>4, <2>5, <2>6, <2>7
<1>7. QED
  BY <1>1, <1>4, <1>5, <1>6 DEF Work

LEMMA FileFailsOne == ASSUME TypeOK, NEW o \in Ops, OneOK(o), FileFails(o) PROVE OneOK(o)'
<1>1. /\ work[o].pc \in {"open", "copy", "save"} /\ work[o].mode = "direct"
      /\ work[o].chunk = 1 /\ rows[o].status = "running"
  BY AtWork DEF FileFails, OneOK, ModeOK
<1>2. /\ Onward(o) \in Work /\ Onward(o).pc \in {"find", "end"} /\ Onward(o).mode = "direct"
      /\ Onward(o).chunk = 1
  BY <1>1, OnwardType DEF WorkOK
<1>3. /\ work'[o] = [Onward(o) EXCEPT !.errors = TRUE]
      /\ rows' = rows /\ resumed' = resumed
  BY DEF FileFails, TypeOK
<1>4. /\ work'[o].pc \in {"find", "end"} /\ work'[o].mode = "direct" /\ work'[o].chunk = 1
      /\ work'[o].errors = TRUE
  BY <1>2, <1>3 DEF Work
<1>5. QED
  BY <1>1, <1>3, <1>4 DEF OneOK, ModeOK, ReceivedOK, CountOK, Counting

\* A request that has ended has nothing to know.
LEMMA EndedOne ==
  ASSUME TypeOK, NEW o \in Ops, work'[o] = Idle,
         rows'[o].status = "success" /\ o \notin resumed' =>
           Through(rows'[o].saved, Len(Files(o)') + 1)
  PROVE  OneOK(o)'
  BY DEF OneOK, ModeOK, ReceivedOK, CountOK, Counting, Idle

LEMMA FailsOne == ASSUME TypeOK, NEW o \in Ops, OneOK(o), Fails(o) PROVE OneOK(o)'
<1>1. work'[o] = Idle /\ rows' = rows /\ rows[o].status = "running"
  BY AtWork DEF Fails, Ends, TypeOK
<1>2. QED
  BY <1>1, EndedOne

LEMMA FinishOne == ASSUME TypeOK, NEW o \in Ops, OneOK(o), Finish(o) PROVE OneOK(o)'
<1>1. /\ work[o] \in Work /\ work[o].pc = "finish" /\ rows[o].status = "running"
      /\ rows[o] \in Row
  BY AtWork DEF Finish
<1>2. CASE Cardinality(rows[o].saved) # Len(Files(o))
  <2>1. rows' = [rows EXCEPT ![o].status = "failed"] /\ work' = [work EXCEPT ![o] = Idle]
    BY <1>1, <1>2 DEF Finish, Ends
  <2>2. work'[o] = Idle /\ rows'[o].status = "failed"
    BY <1>1, <2>1 DEF TypeOK, Row
  <2>3. QED
    BY <2>2, EndedOne
<1>3. CASE Cardinality(rows[o].saved) = Len(Files(o))
  <2>1. /\ work'[o].pc = "end" /\ SamePlace(o) /\ rows' = rows /\ resumed' = resumed
    BY <1>1, <1>3 DEF Finish, TypeOK, SamePlace, Work
  <2>2. Files(o)' = Files(o)
    BY <2>1, SamePlaceSize
  <2>3. QED
    BY <1>1, <2>1, <2>2 DEF OneOK, ModeOK, ReceivedOK, CountOK, Counting, SamePlace
<1>4. QED
  BY <1>2, <1>3

LEMMA EndOne == ASSUME TypeOK, NEW o \in Ops, OneOK(o), End(o) PROVE OneOK(o)'
<1>1. work[o] \in Work /\ work[o].pc = "end" /\ rows[o] \in Row
  BY AtWork DEF End
<1>2. /\ work'[o] = Idle /\ rows'[o].status = Verdict(o) /\ rows'[o].saved = rows[o].saved
      /\ rows'[o].tab = rows[o].tab /\ resumed' = resumed
  BY <1>1 DEF End, Ends, TypeOK, Row
<1>3. ASSUME Verdict(o) = "success", o \notin resumed
      PROVE  Through(rows[o].saved, Len(Files(o)) + 1)
  <2>1. ~work[o].errors
    BY <1>3 DEF Verdict
  <2>2. work[o].mode # "worker"
    BY <1>3 DEF OneOK, ModeOK
  <2>3. QED
    BY <1>1, <2>1, <2>2 DEF OneOK, CountOK
<1>4. Files(o)' = Files(o)
  BY <1>2 DEF Files
<1>5. QED
  BY <1>2, <1>3, <1>4, EndedOne

LEMMA ResumeOne == ASSUME TypeOK, NEW o \in Ops, OneOK(o), Resume(o) PROVE OneOK(o)'
<1>1. /\ rows[o] \in Row /\ work'[o] = [Idle EXCEPT !.pc = "end", !.mode = "worker"]
      /\ rows'[o].status = "running" /\ o \in resumed'
  BY DEF Resume, TypeOK
<1>2. work'[o].pc = "end" /\ work'[o].mode = "worker"
  BY <1>1 DEF Idle
<1>3. QED
  BY <1>1, <1>2 DEF OneOK, ModeOK, ReceivedOK, CountOK, Counting

LEMMA StartOne ==
  ASSUME TypeOK, NEW t \in Tabs, NEW o \in Ops,
         StartChunks(t, o) \/ StartDirect(t, o)
  PROVE  OneOK(o)'
<1>1. PICK mode \in {"chunks", "direct"}, pc \in {"load", "find"} :
        Started(t, o, mode, pc) /\ (mode = "chunks" <=> pc = "load")
  BY DEF StartChunks, StartDirect
<1>2. /\ work'[o] = [Idle EXCEPT !.pc = pc, !.mode = mode, !.file = 1, !.chunk = 1]
      /\ rows'[o].status = "running"
  BY <1>1 DEF Started, TypeOK
<1>3. /\ work'[o].pc = pc /\ work'[o].mode = mode /\ work'[o].file = 1 /\ work'[o].chunk = 1
      /\ ~work'[o].errors
  BY <1>2 DEF Idle
<1>4. \A list : Through(list, 1)
  BY DEF Through
<1>5. QED
  BY <1>1, <1>2, <1>3, <1>4 DEF OneOK, ModeOK, ReceivedOK, CountOK, Counting

\* A request or a worker touches its own operation only.
LEMMA OthersStay ==
  ASSUME TypeOK, NEW o \in Ops, Handle(o)
  PROVE  \A u \in Ops : u # o =>
           rows'[u] = rows[u] /\ work'[u] = work[u] /\ parts'[u] = parts[u]
<1>1. CASE Load(o) \/ Find(o) \/ Open(o) \/ FileFails(o) \/ Fails(o) \/ End(o)
  BY <1>1 DEF Load, Find, Open, FileFails, Fails, End, Ends, TypeOK
<1>2. CASE Write(o) \/ Copy(o)
  BY <1>2 DEF Write, Copy, Session, TypeOK
<1>3. CASE Save(o) \/ Finish(o)
  BY <1>3 DEF Save, Finish, Ends, Session, TypeOK
<1>4. QED
  BY <1>1, <1>2, <1>3 DEF Handle

LEMMA OneStep ==
  ASSUME TypeOK, \A o \in Ops : OneOK(o), Untouched, [Next]_vars
  PROVE  \A o \in Ops : OneOK(o)'
<1>1. ASSUME NEW t \in Tabs, GivesUp(t) PROVE \A o \in Ops : OneOK(o)'
  BY <1>1, OneKept DEF GivesUp
<1>2. ASSUME NEW t \in Tabs, NEW o \in Ops, StartChunks(t, o) \/ StartDirect(t, o)
      PROVE  \A u \in Ops : OneOK(u)'
  <2>1. /\ \A u \in Ops : u # o => rows'[u] = rows[u] /\ work'[u] = work[u]
        /\ parts' = parts /\ resumed' = resumed
    BY <1>2 DEF StartChunks, StartDirect, Started, TypeOK
  <2>2. QED
    BY <1>2, <2>1, StartOne, OneKept
<1>3. ASSUME NEW o \in Ops, Handle(o) PROVE \A u \in Ops : OneOK(u)'
  <2>1. OneOK(o)'
    BY <1>3, LoadOne, WriteOne, FindOne, OpenOne, CopyOne, SaveOne, FileFailsOne, FailsOne,
       FinishOne, EndOne DEF Handle
  <2>2. \A u \in Ops : u # o => rows'[u] = rows[u] /\ work'[u] = work[u] /\ parts'[u] = parts[u]
    BY <1>3, OthersStay
  <2>3. resumed' = resumed
    BY <1>3 DEF Handle, Load, Write, Find, Open, Copy, Save, FileFails, Fails, Finish, End
  <2>4. QED
    BY <2>1, <2>2, <2>3, OneKept
<1>4. ASSUME NEW o \in Ops, Resume(o) PROVE \A u \in Ops : OneOK(u)'
  <2>1. /\ \A u \in Ops : u # o => rows'[u] = rows[u] /\ work'[u] = work[u]
        /\ parts' = parts /\ resumed' = resumed \cup {o}
    BY <1>4 DEF Resume, TypeOK
  <2>2. QED
    BY <1>4, <2>1, ResumeOne, OneKept
<1>5. CASE UNCHANGED vars
  BY <1>5, OneKept DEF vars
<1>6. QED
  BY <1>1, <1>2, <1>3, <1>4, <1>5 DEF Next

-----------------------------------------------------------------------------
(* What is in the destination *)

FilesInv == Owned /\ Kept /\ Untouched

\* A request that goes on without the destination: it is at a file only if it was, and
\* lists what it had listed.
Stays(o) ==
  /\ work'[o].pc \in {"open", "copy"} => work'[o].pc = work[o].pc /\ work'[o].path = work[o].path
  /\ rows'[o].saved \cup work'[o].saved \subseteq Listed(o)
  /\ rows'[o].saved \cup work'[o].saved # {} => rows'[o].tab = rows[o].tab

LEMMA QuietFiles ==
  ASSUME FilesInv, dest' = dest, raced' = raced, \A o \in Ops : Stays(o)
  PROVE  FilesInv'
<1>1. \A o \in Ops : \A p : At(o, p)' => At(o, p) /\ work'[o].pc = work[o].pc
  BY DEF Stays, At
<1>2. \A o \in Ops : Listed(o)' \subseteq Listed(o)
  BY DEF Stays, Listed
<1>3. \A o \in Ops : Listed(o)' # {} => rows'[o].tab = rows[o].tab
  BY DEF Stays, Listed
<1>4. Owned'
  BY <1>1 DEF FilesInv, Owned
<1>5. Kept'
  <2>1. SUFFICES ASSUME NEW o \in Ops, NEW s \in Listed(o)', s.path \notin raced
                 PROVE  /\ rows'[o].tab \in Tabs /\ s.file \in DOMAIN Chosen[rows'[o].tab]
                        /\ dest[s.path] = Whole(rows'[o].tab, s.file)
                        /\ \A u \in Ops : ~At(u, s.path)'
                        /\ \A u \in Ops : \A x \in Listed(u)' : x.path = s.path => u = o /\ x = s
    BY DEF Kept, Whole
  <2>2. s \in Listed(o) /\ rows'[o].tab = rows[o].tab
    BY <1>2, <1>3
  <2>3. /\ rows[o].tab \in Tabs /\ s.file \in DOMAIN Chosen[rows[o].tab]
        /\ dest[s.path] = Whole(rows[o].tab, s.file)
        /\ \A u \in Ops : ~At(u, s.path)
        /\ \A u \in Ops : \A x \in Listed(u) : x.path = s.path => u = o /\ x = s
    BY <2>1, <2>2 DEF FilesInv, Kept
  <2>4. QED
    BY <1>1, <1>2, <2>2, <2>3
<1>6. Untouched'
  BY DEF FilesInv, Untouched
<1>7. QED
  BY <1>4, <1>5, <1>6 DEF FilesInv

\* A content that is listed is there.
LEMMA ListedIsThere ==
  ASSUME Kept, NEW o \in Ops, NEW s \in Listed(o), s.path \notin raced
  PROVE  dest[s.path] \notin {None, Torn}
  BY WholeType DEF Kept

\* A path that is found is nobody's, or two have found it.
LEMMA FindFiles == ASSUME TypeOK, FilesInv, NEW o \in Ops, Find(o) PROVE FilesInv'
<1>1. /\ work[o] \in Work /\ work[o].pc = "find" /\ work[o].saved \in SUBSET Saved
      /\ File(o).name \in Names
  BY AtWork DEF Find, Work
<1>2. PICK c \in 0..MaxCopies :
        /\ work' = [work EXCEPT ![o].pc = "open", ![o].path = <<File(o).name, c>>]
        /\ dest[<<File(o).name, c>>] = None
        /\ raced' = IF \E u \in Ops \ {o} : work[u].pc = "open" /\ work[u].path = <<File(o).name, c>>
                      THEN raced \cup {<<File(o).name, c>>} ELSE raced
  BY DEF Find, Available, Taken
<1> DEFINE p == <<File(o).name, c>>
<1>3. /\ \A u \in Ops : u # o => work'[u] = work[u]
      /\ work'[o].pc = "open" /\ work'[o].path = p /\ work'[o].saved = work[o].saved
      /\ rows' = rows /\ dest' = dest
  BY <1>1, <1>2 DEF Find, TypeOK, Work
<1>4. raced \subseteq raced' /\ dest[p] = None
      /\ (\A u \in Ops : u # o /\ work[u].pc = "open" /\ work[u].path = p => p \in raced')
  BY <1>2
<1>5. p \in Paths
  BY <1>1 DEF Paths
<1> HIDE DEF p
<1>6. \A u \in Ops : Listed(u)' = Listed(u)
  BY <1>3 DEF Listed
<1>7. /\ \A u \in Ops, q \in Paths : u # o => (At(u, q)' <=> At(u, q))
      /\ \A q \in Paths : At(o, q)' <=> q = p
  BY <1>3 DEF At
<1>8. \A u \in Ops : u # o /\ At(u, p) => p \in raced'
  <2>1. \A u \in Ops : u # o /\ At(u, p) /\ p \notin raced => work[u].pc # "copy"
    BY <1>4, <1>5 DEF FilesInv, Owned
  <2>2. QED
    BY <1>4, <2>1 DEF At
<1>9. Owned'
  <2>1. SUFFICES ASSUME NEW u \in Ops, NEW q \in Paths \ raced', At(u, q)'
                 PROVE  /\ work'[u].pc = "open" => dest[q] = None
                        /\ work'[u].pc = "copy" => dest[q] = Torn
                        /\ \A v \in Ops : At(v, q)' => v = u
    BY <1>3 DEF Owned
  <2>2. CASE q = p
    BY <1>3, <1>4, <1>7, <1>8, <2>1, <2>2
  <2>3. CASE q # p
    <3>1. u # o /\ At(u, q) /\ work'[u] = work[u]
      BY <1>3, <1>7, <2>1, <2>3
    <3>2. q \in Paths \ raced
      BY <1>4
    <3>3. /\ work[u].pc = "open" => dest[q] = None
          /\ work[u].pc = "copy" => dest[q] = Torn
          /\ \A v \in Ops : At(v, q) => v = u
      BY <3>1, <3>2 DEF FilesInv, Owned
    <3>4. \A v \in Ops : At(v, q)' => At(v, q)
      BY <1>7, <2>3
    <3>5. QED
      BY <3>1, <3>3, <3>4
  <2>4. QED
    BY <2>2, <2>3
<1>10. Kept'
  <2>1. SUFFICES ASSUME NEW u \in Ops, NEW s \in Listed(u)', s.path \notin raced'
                 PROVE  /\ rows'[u].tab \in Tabs /\ s.file \in DOMAIN Chosen[rows'[u].tab]
                        /\ dest'[s.path] = Whole(rows'[u].tab, s.file)
                        /\ \A v \in Ops : ~At(v, s.path)'
                        /\ \A v \in Ops : \A x \in Listed(v)' : x.path = s.path => v = u /\ x = s
    BY DEF Kept, Whole
  <2>2. s.path \notin raced /\ s \in Listed(u)
    BY <1>4, <1>6, <2>1
  <2>3. s.path # p
    BY <1>4, <2>2, ListedIsThere DEF FilesInv
  <2>4. \A v \in Ops : ~At(v, s.path)'
    <3>1. \A v \in Ops : ~At(v, s.path)
      BY <2>2 DEF FilesInv, Kept
    <3>2. QED
      BY <1>3, <2>3, <3>1 DEF At
  <2>5. QED
    BY <1>3, <1>6, <2>2, <2>4 DEF FilesInv, Kept
<1>11. Untouched'
  BY <1>3 DEF FilesInv, Untouched
<1>12. QED
  BY <1>9, <1>10, <1>11 DEF FilesInv


\* Who opens a path of his own disturbs nobody.
LEMMA OpenFiles == ASSUME TypeOK, FilesInv, NEW o \in Ops, ModeOK(o), Open(o) PROVE FilesInv'
<1> DEFINE p == work[o].path
<1>1. /\ work[o] \in Work /\ work[o].pc = "open" /\ p \in Paths \ Before
      /\ dest \in [Paths -> Contents \cup {None, Old, Torn}]
  BY AtWork DEF Open, ModeOK, TypeOK
<1>2. /\ \A u \in Ops : u # o => work'[u] = work[u]
      /\ work'[o].pc = "copy" /\ work'[o].path = p /\ work'[o].saved = work[o].saved
      /\ rows' = rows /\ raced' = raced
  BY <1>1 DEF Open, TypeOK, Work
<1>3. dest'[p] = Torn /\ \A q \in Paths : q # p => dest'[q] = dest[q]
  BY <1>1 DEF Open
<1> HIDE DEF p
<1>4. At(o, p) /\ \A q : At(o, q) => q = p
  BY <1>1 DEF At, p
<1>5. \A u \in Ops : \A q : At(u, q)' <=> At(u, q)
  <2>1. \A q : At(o, q)' <=> q = p
    BY <1>2 DEF At
  <2>2. QED
    BY <1>2, <1>4, <2>1 DEF At
<1>6. \A u \in Ops : Listed(u)' = Listed(u)
  BY <1>2 DEF Listed
<1>7. Owned'
  <2>1. SUFFICES ASSUME NEW u \in Ops, NEW q \in Paths \ raced', At(u, q)'
                 PROVE  /\ work'[u].pc = "open" => dest'[q] = None
                        /\ work'[u].pc = "copy" => dest'[q] = Torn
                        /\ \A v \in Ops : At(v, q)' => v = u
    BY DEF Owned
  <2>2. At(u, q) /\ q \in Paths \ raced
    BY <1>2, <1>5, <2>1
  <2>3. \A v \in Ops : At(v, q) => v = u
    BY <2>2 DEF FilesInv, Owned
  <2>4. CASE q = p
    BY <1>2, <1>3, <1>4, <1>5, <2>3, <2>4
  <2>5. CASE q # p
    <3>1. u # o /\ work'[u] = work[u] /\ dest'[q] = dest[q]
      BY <1>2, <1>3, <1>4, <2>2, <2>5
    <3>2. QED
      BY <1>5, <2>2, <2>3, <3>1 DEF FilesInv, Owned
  <2>6. QED
    BY <2>4, <2>5
<1>8. Kept'
  <2>1. SUFFICES ASSUME NEW u \in Ops, NEW s \in Listed(u)', s.path \notin raced'
                 PROVE  /\ rows'[u].tab \in Tabs /\ s.file \in DOMAIN Chosen[rows'[u].tab]
                        /\ dest'[s.path] = Whole(rows'[u].tab, s.file)
                        /\ \A v \in Ops : ~At(v, s.path)'
                        /\ \A v \in Ops : \A x \in Listed(v)' : x.path = s.path => v = u /\ x = s
    BY DEF Kept, Whole
  <2>2. s.path \notin raced /\ s \in Listed(u)
    BY <1>2, <1>6, <2>1
  <2>3. /\ rows[u].tab \in Tabs /\ s.file \in DOMAIN Chosen[rows[u].tab]
        /\ dest[s.path] = Whole(rows[u].tab, s.file)
        /\ \A v \in Ops : ~At(v, s.path)
        /\ \A v \in Ops : \A x \in Listed(v) : x.path = s.path => v = u /\ x = s
    BY <2>2 DEF FilesInv, Kept
  <2>4. s.path # p
    BY <1>4, <2>3
  <2>5. s.path \in Paths
    BY <2>2 DEF TypeOK, Listed, Row, Work, Saved
  <2>6. QED
    BY <1>2, <1>3, <1>5, <1>6, <2>3, <2>4, <2>5
<1>9. Untouched'
  BY <1>1, <1>3 DEF FilesInv, Untouched, p
<1>10. QED
  BY <1>7, <1>8, <1>9 DEF FilesInv

\* What is brought is the whole file.
LEMMA BroughtIsWhole ==
  ASSUME TypeOK, NEW o \in Ops, OneOK(o), work[o].pc = "copy"
  PROVE  Brought(o) = Whole(rows[o].tab, work[o].file)
<1>1. work[o] \in Work /\ rows[o].tab \in Tabs /\ work[o].file \in DOMAIN Chosen[rows[o].tab]
  BY AtWork
<1>2. CASE work[o].mode = "direct"
  BY <1>2 DEF Brought
<1>3. CASE work[o].mode = "chunks"
  <2>1. Part(o) = FirstChunks(rows[o].tab, work[o].file, Size(o))
    BY <1>3 DEF OneOK, ModeOK, ReceivedOK, Part, Session
  <2>2. Whole(rows[o].tab, work[o].file) = FirstChunks(rows[o].tab, work[o].file, Size(o))
    BY <1>1, WholeType DEF Size
  <2>3. QED
    BY <1>3, <2>1, <2>2 DEF Brought
<1>4. QED
  BY <1>1, <1>2, <1>3 DEF Work, OneOK, ModeOK

\* The copy makes the file whole; it is listed and nobody else is at it.
LEMMA CopyFiles == ASSUME TypeOK, FilesInv, NEW o \in Ops, OneOK(o), Copy(o) PROVE FilesInv'
<1> DEFINE p == work[o].path
           new == [file |-> work[o].file, path |-> p]
<1>1. /\ work[o] \in Work /\ work[o].pc = "copy" /\ p \in Paths \ Before
      /\ dest \in [Paths -> Contents \cup {None, Old, Torn}]
      /\ rows[o].tab \in Tabs /\ work[o].file \in DOMAIN Chosen[rows[o].tab]
  BY AtWork DEF Copy, OneOK, ModeOK, TypeOK
<1>2. /\ \A u \in Ops : u # o => work'[u] = work[u]
      /\ work'[o].pc = "save" /\ work'[o].saved = work[o].saved \cup {new}
      /\ rows' = rows /\ raced' = raced
  BY <1>1 DEF Copy, TypeOK, Work
<1>3. /\ p \notin raced => dest'[p] = Whole(rows[o].tab, work[o].file)
      /\ \A q \in Paths : q # p => dest'[q] = dest[q]
  BY <1>1, BroughtIsWhole DEF Copy
<1>4. At(o, p) /\ \A q : At(o, q) => q = p
  BY <1>1 DEF At
<1>5. new.path = p /\ new.file = work[o].file
  OBVIOUS
<1> HIDE DEF p, new
<1>6. \A u \in Ops : \A q : At(u, q)' => At(u, q) /\ u # o /\ work'[u] = work[u]
  BY <1>2 DEF At
<1>7. \A u \in Ops : Listed(u)' = IF u = o THEN Listed(u) \cup {new} ELSE Listed(u)
  BY <1>2 DEF Listed
<1>8. p \notin raced => \A u \in Ops : At(u, p) => u = o
  BY <1>1, <1>4 DEF FilesInv, Owned
<1>9. Owned'
  <2>1. SUFFICES ASSUME NEW u \in Ops, NEW q \in Paths \ raced', At(u, q)'
                 PROVE  /\ work'[u].pc = "open" => dest'[q] = None
                        /\ work'[u].pc = "copy" => dest'[q] = Torn
                        /\ \A v \in Ops : At(v, q)' => v = u
    BY DEF Owned
  <2>2. At(u, q) /\ q \in Paths \ raced /\ u # o /\ work'[u] = work[u]
    BY <1>2, <1>6, <2>1
  <2>3. q # p
    BY <1>8, <2>2
  <2>4. dest'[q] = dest[q]
    BY <1>3, <2>3
  <2>5. QED
    BY <1>6, <2>2, <2>4 DEF FilesInv, Owned
<1>10. Kept'
  <2>1. SUFFICES ASSUME NEW u \in Ops, NEW s \in Listed(u)', s.path \notin raced'
                 PROVE  /\ rows'[u].tab \in Tabs /\ s.file \in DOMAIN Chosen[rows'[u].tab]
                        /\ dest'[s.path] = Whole(rows'[u].tab, s.file)
                        /\ \A v \in Ops : ~At(v, s.path)'
                        /\ \A v \in Ops : \A x \in Listed(v)' : x.path = s.path => v = u /\ x = s
    BY DEF Kept, Whole
  <2>2. s.path \notin raced
    BY <1>2, <2>1
  <2>3. CASE s \in Listed(u)
    <3>1. /\ rows[u].tab \in Tabs /\ s.file \in DOMAIN Chosen[rows[u].tab]
          /\ dest[s.path] = Whole(rows[u].tab, s.file)
          /\ \A v \in Ops : ~At(v, s.path)
          /\ \A v \in Ops : \A x \in Listed(v) : x.path = s.path => v = u /\ x = s
      BY <2>2, <2>3 DEF FilesInv, Kept
    <3>2. s.path # p
      BY <1>4, <3>1
    <3>3. s.path \in Paths
      BY <2>3 DEF TypeOK, Listed, Row, Work, Saved
    <3>4. dest'[s.path] = dest[s.path]
      BY <1>3, <3>2, <3>3
    <3>5. \A v \in Ops : \A x \in Listed(v)' : x.path = s.path => x \in Listed(v)
      BY <1>5, <1>7, <3>2
    <3>6. QED
      BY <1>2, <1>6, <3>1, <3>4, <3>5
  <2>4. CASE u = o /\ s = new
    <3>1. s.path = p /\ s.file = work[o].file /\ p \notin raced
      BY <1>5, <2>2, <2>4
    <3>2. \A v \in Ops : ~At(v, s.path)'
      BY <1>6, <1>8, <3>1
    <3>3. \A v \in Ops : \A x \in Listed(v) : x.path # p
      BY <1>4, <3>1 DEF FilesInv, Kept
    <3>4. \A v \in Ops : \A x \in Listed(v)' : x.path = s.path => v = u /\ x = s
      BY <1>7, <2>4, <3>1, <3>3
    <3>5. QED
      BY <1>1, <1>2, <1>3, <2>4, <3>1, <3>2, <3>4
  <2>5. QED
    BY <1>7, <2>1, <2>3, <2>4
<1>11. Untouched'
  BY <1>1, <1>3 DEF FilesInv, Untouched, p
<1>12. QED
  BY <1>9, <1>10, <1>11 DEF FilesInv

LEMMA FilesStep ==
  ASSUME TypeOK, \A o \in Ops : OneOK(o), FilesInv, [Next]_vars
  PROVE  FilesInv'
<1>1. ASSUME NEW t \in Tabs, GivesUp(t) PROVE FilesInv'
  BY <1>1, QuietFiles DEF GivesUp, Stays, Listed
<1>2. ASSUME NEW t \in Tabs, NEW o \in Ops, StartChunks(t, o) \/ StartDirect(t, o)
      PROVE  FilesInv'
  <2>1. PICK mode \in {"chunks", "direct"}, pc \in {"load", "find"} : Started(t, o, mode, pc)
    BY <1>2 DEF StartChunks, StartDirect
  <2>2. /\ work' = [work EXCEPT ![o] =
                      [Idle EXCEPT !.pc = pc, !.mode = mode, !.file = 1, !.chunk = 1]]
        /\ rows' = [rows EXCEPT ![o] = [status |-> "running", tab |-> t, saved |-> {}]]
        /\ dest' = dest /\ raced' = raced
    BY <2>1 DEF Started
  <2>3. Stays(o)
    <3>1. work'[o].pc = pc /\ work'[o].saved = {} /\ rows'[o].saved = {}
      BY <2>2 DEF TypeOK, Idle
    <3>2. QED
      BY <3>1 DEF Stays
  <2>4. \A u \in Ops : u # o => Stays(u)
    BY <2>2 DEF Stays, Listed, TypeOK
  <2>5. QED
    BY <2>2, <2>3, <2>4, QuietFiles
<1>3. ASSUME NEW o \in Ops, Handle(o) \/ Resume(o) PROVE FilesInv'
  <2>1. \A u \in Ops : u # o => Stays(u)
    <3>1. \A u \in Ops : u # o => work'[u] = work[u] /\ rows'[u] = rows[u]
      BY <1>3, OthersStay DEF Resume, TypeOK
    <3>2. QED
      BY <3>1 DEF Stays, Listed
  <2>2. work[o] \in Work /\ rows[o] \in Row
    BY DEF TypeOK
  <2>3. CASE Load(o)
    <3>1. Stays(o)
      BY <2>2, <2>3 DEF Load, Ends, Idle, Stays, Listed, TypeOK, Work
    <3>2. QED
      BY <2>1, <2>3, <3>1, QuietFiles DEF Load
  <2>4. CASE Write(o)
    <3>1. Stays(o)
      BY <2>2, <2>4 DEF Write, Stays, Listed, TypeOK, Work
    <3>2. QED
      BY <2>1, <2>4, <3>1, QuietFiles DEF Write
  <2>5. CASE Save(o)
    <3>1. rows'[o].saved = work[o].saved /\ rows'[o].tab = rows[o].tab
      BY <2>2, <2>5 DEF Save, TypeOK, Row
    <3>2. work'[o].pc \notin {"open", "copy"} /\ work'[o].saved \subseteq work[o].saved
      <4>1. CASE work[o].mode = "direct"
        <5>1. work'[o] = Onward(o) /\ work[o].chunk = 1 /\ work[o].pc = "save"
          BY <2>5, <4>1 DEF Save, TypeOK, OneOK, ModeOK
        <5>2. QED
          BY <5>1, OnwardType
      <4>2. CASE work[o].mode # "direct"
        <5>1. work'[o] = Following(o)
          BY <2>5, <4>2 DEF Save, TypeOK
        <5>2. QED
          BY <5>1 DEF Following, Idle
      <4>3. QED
        BY <4>1, <4>2
    <3>3. Stays(o)
      BY <3>1, <3>2 DEF Stays, Listed
    <3>4. QED
      BY <2>1, <2>5, <3>3, QuietFiles DEF Save
  <2>6. CASE FileFails(o)
    <3>1. /\ Onward(o) \in Work /\ Onward(o).pc \in {"find", "end"}
          /\ Onward(o).saved = work[o].saved
      BY <2>6, OnwardType DEF FileFails, OneOK, ModeOK, WorkOK
    <3>2. work'[o] = [Onward(o) EXCEPT !.errors = TRUE] /\ rows' = rows
      BY <2>6 DEF FileFails, TypeOK
    <3>3. work'[o].pc \in {"find", "end"} /\ work'[o].saved = work[o].saved
      BY <3>1, <3>2 DEF Work
    <3>4. Stays(o)
      BY <3>2, <3>3 DEF Stays, Listed
    <3>5. QED
      BY <2>1, <2>6, <3>4, QuietFiles DEF FileFails
  <2>7. CASE Fails(o) \/ Finish(o) \/ End(o) \/ Resume(o)
    <3>1. \/ work'[o] = Idle
          \/ work'[o] = [work[o] EXCEPT !.pc = "end"]
          \/ work'[o] = [Idle EXCEPT !.pc = "end", !.mode = "worker"]
      BY <2>7 DEF Fails, Finish, End, Resume, Ends, TypeOK
    <3>2. work'[o].pc \in {"none", "end"} /\ work'[o].saved \subseteq work[o].saved
      <4>1. CASE work'[o] = [work[o] EXCEPT !.pc = "end"]
        BY <2>2, <4>1 DEF Work
      <4>2. CASE work'[o] = Idle
        BY <4>2, IdleType
      <4>3. CASE work'[o] = [Idle EXCEPT !.pc = "end", !.mode = "worker"]
        <5>1. work'[o].pc = "end" /\ work'[o].saved = {}
          BY <4>3 DEF Idle
        <5>2. QED
          BY <5>1
      <4>4. QED
        BY <3>1, <4>1, <4>2, <4>3
    <3>3. \/ rows' = rows
          \/ \E st \in {"failed", "success", "running"} : rows' = [rows EXCEPT ![o].status = st]
      BY <2>7 DEF Fails, Finish, End, Resume, Verdict
    <3>4. rows'[o].saved = rows[o].saved /\ rows'[o].tab = rows[o].tab
      BY <2>2, <3>3 DEF TypeOK, Row
    <3>5. Stays(o)
      BY <3>2, <3>4 DEF Stays, Listed
    <3>6. dest' = dest /\ raced' = raced
      BY <2>7 DEF Fails, Finish, End, Resume
    <3>7. QED
      BY <2>1, <3>5, <3>6, QuietFiles
  <2>8. CASE Find(o)
    BY <2>8, FindFiles
  <2>9. CASE Open(o)
    BY <2>9, OpenFiles DEF OneOK
  <2>10. CASE Copy(o)
    BY <2>10, CopyFiles
  <2>11. QED
    BY <1>3, <2>3, <2>4, <2>5, <2>6, <2>7, <2>8, <2>9, <2>10 DEF Handle
<1>4. CASE UNCHANGED vars
  BY <1>4, QuietFiles DEF vars, Stays, Listed
<1>5. QED
  BY <1>1, <1>2, <1>3, <1>4 DEF Next

-----------------------------------------------------------------------------
(* The theorems *)

LEMMA InitHolds == ASSUME Init PROVE IInv
<1>1. << >> \in Contents
  BY DEF Contents
<1>2. /\ Idle \in Work /\ Idle.pc = "none" /\ Idle.mode = "chunks" /\ ~Idle.errors
      /\ Idle.saved = {}
  BY IdleType DEF WorkOK
<1>3. NoRow \in Row /\ NoRow.status = "none" /\ NoRow.tab = None /\ NoRow.saved = {}
  BY DEF NoRow, Row
<1>4. \A o \in Ops : work[o] = Idle /\ rows[o] = NoRow
  BY DEF Init
<1>5. TypeOK
  <2>1. rows \in [Ops -> Row] /\ work \in [Ops -> Work]
    BY <1>2, <1>3 DEF Init
  <2>2. parts \in [Ops -> [Names -> Contents]]
    BY <1>1 DEF Init
  <2>3. dest \in [Paths -> Contents \cup {None, Old, Torn}]
    BY DEF Init
  <2>4. page \in [Tabs -> Ops \cup {None}] /\ \A t \in Tabs : page[t] = None
    BY DEF Init
  <2>5. raced \subseteq Paths /\ resumed \subseteq Ops /\ faults \in 0..MaxFaults
    BY DEF Init
  <2>6. QED
    BY <1>2, <1>3, <1>4, <2>1, <2>2, <2>3, <2>4, <2>5 DEF TypeOK
<1>6. \A o \in Ops : OneOK(o)
  BY <1>2, <1>3, <1>4 DEF OneOK, ModeOK, ReceivedOK, CountOK, Counting
<1>7. Owned /\ Kept
  BY <1>2, <1>3, <1>4 DEF Owned, Kept, At, Listed
<1>8. Untouched
  BY DEF Init, Untouched
<1>9. QED
  BY <1>5, <1>6, <1>7, <1>8 DEF IInv

\* Every reachable state satisfies the inductive invariant.
THEOREM Invariance == Spec => []IInv
<1>1. Init => IInv
  BY InitHolds
<1>2. IInv /\ [Next]_vars => IInv'
  <2>1. SUFFICES ASSUME IInv, [Next]_vars PROVE IInv'
    OBVIOUS
  <2>2. TypeOK'
    BY <2>1, TypesKept DEF IInv, OneOK
  <2>3. \A o \in Ops : OneOK(o)'
    BY <2>1, OneStep DEF IInv
  <2>4. FilesInv'
    BY <2>1, FilesStep DEF IInv, FilesInv
  <2>5. QED
    BY <2>2, <2>3, <2>4 DEF IInv, FilesInv
<1>3. QED
  BY <1>1, <1>2, PTL DEF Spec

\* Rows, parts, requests, pages and the destination have the states they should: a
\* page waits for an operation that is at work, and what is at work is running.
THEOREM TypeCorrect == Spec => []TypeOK
<1>1. IInv => TypeOK
  BY DEF IInv
<1>2. QED
  BY <1>1, Invariance, PTL

\* No file that was there is touched; what is listed as saved is there as a whole, at a
\* path of its own, unless two requests have found that path free.
THEOREM UploadsKeepFiles == Spec => []FilesKept
<1>1. IInv => FilesKept
  BY DEF IInv, Untouched, Kept, Listed, FilesKept
<1>2. QED
  BY <1>1, Invariance, PTL

\* An upload that ends as a success, and was not resumed, has saved every file.
THEOREM UploadSuccessIsWhole == Spec => []SuccessIsWhole
<1>1. ASSUME IInv, NEW o \in Ops, rows[o].status = "success", o \notin resumed,
             NEW i \in DOMAIN Files(o)
      PROVE  \E s \in rows[o].saved : s.file = i
  <2>1. rows[o].tab \in Tabs
    BY <1>1 DEF IInv, TypeOK, Row
  <2>2. DOMAIN Files(o) = 1..Len(Files(o)) /\ Len(Files(o)) \in Nat
    BY <2>1, FilesOfTab DEF Files
  <2>3. Through(rows[o].saved, Len(Files(o)) + 1)
    BY <1>1 DEF IInv, OneOK, CountOK
  <2>4. i \in Nat /\ 1 <= i /\ i < Len(Files(o)) + 1
    BY <1>1, <2>2
  <2>5. QED
    BY <2>3, <2>4 DEF Through
<1>2. IInv => SuccessIsWhole
  BY <1>1 DEF SuccessIsWhole
<1>3. QED
  BY <1>2, Invariance, PTL

-----------------------------------------------------------------------------
(* What was saved stays *)

\* A request that is at a file remembers the list of the row.
Remembers ==
  \A o \in Ops :
    /\ rows[o].status = "none" => rows[o].saved = {}
    /\ work[o].pc \in Counting => rows[o].saved \subseteq work[o].saved

\* What a step leaves of an operation.
Remains(o) ==
  /\ rows[o].saved \subseteq rows'[o].saved
  /\ rows[o].status = "success" => rows'[o].status = "success"

\* What holds of it after the step.
Remembered(o) ==
  /\ rows'[o].status = "none" => rows'[o].saved = {}
  /\ work'[o].pc \in Counting => rows'[o].saved \subseteq work'[o].saved

\* An operation whose row stays, and whose request remembers no less.
LEMMA RowStays ==
  ASSUME Remembers, NEW o \in Ops, rows'[o] = rows[o],
         \/ work'[o] = work[o]
         \/ work'[o].pc \notin Counting
         \/ rows[o].saved \subseteq work'[o].saved
         \/ work[o].pc \in Counting /\ work[o].saved \subseteq work'[o].saved
  PROVE  Remains(o) /\ Remembered(o)
BY DEF Remembers, Remains, Remembered

LEMMA HandleRemembers ==
  ASSUME TypeOK, Remembers, NEW o \in Ops, ModeOK(o), Handle(o)
  PROVE  Remains(o) /\ Remembered(o)
<1>1. work[o] \in Work /\ rows[o] \in Row /\ work \in [Ops -> Work] /\ rows \in [Ops -> Row]
  BY DEF TypeOK
<1>2. work[o].pc # "none" /\ rows[o].status = "running"
  <2>1. work[o].pc # "none"
    BY DEF Handle, Load, Write, Find, Open, Copy, Save, FileFails, Fails, Finish, End
  <2>2. QED
    BY <2>1, AtWork
<1>3. Idle.pc \notin Counting
  BY DEF Idle, Counting
<1>4. CASE Load(o)
  <2>1. rows' = rows /\ (work'[o] = Idle \/ work'[o] = [work[o] EXCEPT !.pc = "write", !.saved = rows[o].saved])
    BY <1>1, <1>4 DEF Load, Ends
  <2>2. work'[o].pc \notin Counting \/ work'[o].saved = rows[o].saved
    BY <1>1, <1>3, <2>1 DEF Work
  <2>3. QED
    BY <2>1, <2>2, RowStays
<1>5. CASE Write(o) \/ Open(o)
  <2>1. PICK pc : work'[o] = [work[o] EXCEPT !.pc = pc]
    BY <1>1, <1>5 DEF Write, Open
  <2>2. rows' = rows /\ work'[o].saved = work[o].saved /\ work[o].pc \in Counting
    BY <1>1, <1>5, <2>1 DEF Write, Open, Work, Counting
  <2>3. QED
    BY <2>2, RowStays
<1>6. CASE Find(o)
  <2>1. PICK p : work'[o] = [work[o] EXCEPT !.pc = "open", !.path = p]
    <3>1. PICK c \in 0..MaxCopies :
            work' = [work EXCEPT ![o].pc = "open", ![o].path = <<File(o).name, c>>]
      BY <1>6, Zenon DEF Find
    <3> DEFINE path == <<File(o).name, c>>
    <3>2. work' = [work EXCEPT ![o].pc = "open", ![o].path = path]
      BY <3>1
    <3> HIDE DEF path
    <3>3. work'[o] = [work[o] EXCEPT !.pc = "open", !.path = path]
      BY <1>1, <3>2
    <3>4. QED
      BY <3>3, Zenon
  <2>2. work'[o].saved = work[o].saved /\ rows' = rows /\ work[o].pc \in Counting
    BY <1>1, <1>6, <2>1 DEF Find, Work, Counting
  <2>3. QED
    BY <2>2, RowStays
<1>7. CASE Copy(o)
  <2> DEFINE new == [file |-> work[o].file, path |-> work[o].path]
  <2>1. work'[o] = [work[o] EXCEPT !.pc = "save", !.saved = @ \cup {new}]
    <3>1. work' = [work EXCEPT ![o].pc = "save", ![o].saved = @ \cup {new}]
      BY <1>7, Zenon DEF Copy
    <3> HIDE DEF new
    <3>2. QED
      BY <1>1, <3>1
  <2> HIDE DEF new
  <2>2. work[o].saved \subseteq work'[o].saved /\ rows' = rows /\ work[o].pc \in Counting
    BY <1>1, <1>7, <2>1 DEF Copy, Work, Counting
  <2>3. QED
    BY <2>2, RowStays
<1>8. CASE Save(o)
  <2>1. rows'[o].saved = work[o].saved /\ rows'[o].status = rows[o].status /\ work[o].pc = "save"
    BY <1>1, <1>8 DEF Save, Row
  <2>2. rows[o].saved \subseteq work[o].saved
    BY <2>1 DEF Remembers, Counting
  <2>3. work'[o].pc \in Counting => work'[o].saved = work[o].saved
    <3>1. CASE work[o].mode = "direct"
      <4>1. work[o].chunk = 1 /\ work'[o] = Onward(o)
        BY <1>1, <1>8, <3>1 DEF Save, ModeOK
      <4>2. QED
        BY <1>2, <2>1, <3>1, <4>1, OnwardType
    <3>2. CASE work[o].mode # "direct"
      <4>1. work'[o] = Following(o)
        BY <1>1, <1>8, <3>2 DEF Save
      <4>2. QED
        BY <4>1 DEF Following, Idle, Counting
    <3>3. QED
      BY <3>1, <3>2
  <2>4. QED
    BY <1>2, <2>1, <2>2, <2>3 DEF Remains, Remembered
<1>9. CASE FileFails(o)
  <2>1. /\ rows' = rows /\ work[o].pc \in {"open", "copy", "save"} /\ work[o].mode = "direct"
        /\ work[o].chunk = 1 /\ work'[o] = [Onward(o) EXCEPT !.errors = TRUE]
    BY <1>1, <1>9 DEF FileFails, ModeOK
  <2>2. Onward(o).saved = work[o].saved /\ Onward(o) \in Work
    BY <1>2, <2>1, OnwardType DEF WorkOK
  <2>3. work'[o].saved = work[o].saved
    BY <2>1, <2>2 DEF Work
  <2>4. QED
    BY <2>1, <2>3, RowStays DEF Counting
<1>10. CASE Fails(o)
  BY <1>1, <1>3, <1>10, RowStays DEF Fails, Ends
<1>11. CASE Finish(o)
  <2>1. rows'[o].saved = rows[o].saved /\ rows'[o].status # "none"
    BY <1>1, <1>2, <1>11 DEF Finish, Row
  <2>2. work'[o].pc \notin Counting
    BY <1>1, <1>3, <1>11 DEF Finish, Ends, Work, Counting
  <2>3. QED
    BY <1>2, <2>1, <2>2 DEF Remains, Remembered
<1>12. CASE End(o)
  <2>1. rows'[o].saved = rows[o].saved /\ rows'[o].status # "none" /\ work'[o] = Idle
    BY <1>1, <1>12 DEF End, Ends, Row, Verdict
  <2>2. QED
    BY <1>2, <1>3, <2>1 DEF Remains, Remembered
<1>13. QED
  BY <1>4, <1>5, <1>6, <1>7, <1>8, <1>9, <1>10, <1>11, <1>12 DEF Handle

LEMMA RemembersKept ==
  ASSUME IInv, Remembers, [Next]_vars
  PROVE  \A o \in Ops : Remains(o) /\ Remembered(o)
<1>1. TypeOK /\ work \in [Ops -> Work] /\ rows \in [Ops -> Row] /\ \A o \in Ops : ModeOK(o)
  BY DEF IInv, TypeOK, OneOK
<1>2. ASSUME NEW u \in Ops, rows'[u] = rows[u], work'[u] = work[u]
      PROVE  Remains(u) /\ Remembered(u)
  BY <1>2, RowStays
<1>3. ASSUME NEW t \in Tabs, NEW o \in Ops, StartChunks(t, o) \/ StartDirect(t, o)
      PROVE  \A u \in Ops : Remains(u) /\ Remembered(u)
  <2>1. /\ \A u \in Ops : u # o => rows'[u] = rows[u] /\ work'[u] = work[u]
        /\ rows[o].status = "none" /\ rows'[o].saved = {} /\ rows'[o].status = "running"
    BY <1>1, <1>3 DEF StartChunks, StartDirect, Started
  <2>2. Remains(o) /\ Remembered(o)
    BY <2>1 DEF Remembers, Remains, Remembered
  <2>3. QED
    BY <1>2, <2>1, <2>2
<1>4. ASSUME NEW o \in Ops, Handle(o)
      PROVE  \A u \in Ops : Remains(u) /\ Remembered(u)
  BY <1>1, <1>2, <1>4, HandleRemembers, OthersStay
<1>5. ASSUME NEW o \in Ops, Resume(o)
      PROVE  \A u \in Ops : Remains(u) /\ Remembered(u)
  <2>1. /\ \A u \in Ops : u # o => rows'[u] = rows[u] /\ work'[u] = work[u]
        /\ rows[o].status = "failed" /\ rows'[o].saved = rows[o].saved
        /\ rows'[o].status = "running" /\ work'[o].pc = "end"
    BY <1>1, <1>5 DEF Resume, Row, Idle
  <2>2. Remains(o) /\ Remembered(o)
    BY <2>1 DEF Remains, Remembered, Counting
  <2>3. QED
    BY <1>2, <2>1, <2>2
<1>6. CASE (\E t \in Tabs : GivesUp(t)) \/ UNCHANGED vars
  <2>1. rows' = rows /\ work' = work
    BY <1>6 DEF GivesUp, vars
  <2>2. QED
    BY <1>2, <2>1
<1>7. QED
  BY <1>3, <1>4, <1>5, <1>6 DEF Next

\* Nobody is at a path that is listed.
LEMMA SavedIsLeft ==
  ASSUME IInv, [Next]_vars, NEW o \in Ops, NEW s \in rows[o].saved, s.path \notin raced
  PROVE  dest'[s.path] = dest[s.path]
<1>1. \A u \in Ops : ~At(u, s.path)
  BY DEF IInv, Kept, Listed
<1>2. dest \in [Paths -> Contents \cup {None, Old, Torn}]
  BY DEF IInv, TypeOK
<1>3. ASSUME NEW u \in Ops, Open(u) \/ Copy(u)
      PROVE  dest'[s.path] = dest[s.path]
  <2>1. work[u].path # s.path
    BY <1>1, <1>3 DEF Open, Copy, At
  <2>2. \E content : dest' = [dest EXCEPT ![work[u].path] = content]
    BY <1>3 DEF Open, Copy
  <2>3. QED
    BY <1>2, <2>1, <2>2
<1>4. ASSUME NEW u \in Ops, Handle(u), ~Open(u), ~Copy(u)
      PROVE  dest' = dest
  BY <1>4 DEF Handle, Load, Write, Find, Save, FileFails, Fails, Finish, End
<1>5. CASE UNCHANGED vars \/ (\E u \in Ops : Resume(u))
           \/ (\E t \in Tabs : GivesUp(t) \/ \E u \in Ops : StartChunks(t, u) \/ StartDirect(t, u))
  BY <1>5 DEF vars, Resume, GivesUp, StartChunks, StartDirect, Started
<1>6. QED
  BY <1>3, <1>4, <1>5 DEF Next

LEMMA RacedStays == ASSUME [Next]_vars PROVE raced \subseteq raced'
<1>1. ASSUME NEW o \in Ops, Handle(o) PROVE raced \subseteq raced'
  BY <1>1 DEF Handle, Load, Write, Find, Open, Copy, Save, FileFails, Fails, Finish, End
<1>2. QED
  BY <1>1 DEF Next, GivesUp, StartChunks, StartDirect, Started, Resume, vars

\* For any pages, files, faults and resumptions: no step takes a saved file off the list of
\* its operation or, unless two requests found its path free, touches it; and no step
\* takes a success back.
THEOREM SavedFilesStay == Spec => SavedStays
<1>1. Init => Remembers
  BY DEF Init, NoRow, Idle, Remembers, Counting
<1>2. IInv /\ Remembers /\ [Next]_vars => Remembers'
  BY RemembersKept DEF Remembers, Remembered
<1> DEFINE Leaves ==
             \A o \in Ops :
               /\ rows[o].saved \subseteq rows'[o].saved
               /\ rows[o].status = "success" => rows'[o].status = "success"
               /\ \A s \in rows[o].saved : s.path \notin raced' => dest'[s.path] = dest[s.path]
<1>3. IInv /\ Remembers /\ [Next]_vars => Leaves
  <2>1. SUFFICES ASSUME IInv, Remembers, [Next]_vars, NEW o \in Ops
                 PROVE  /\ Remains(o)
                        /\ \A s \in rows[o].saved : s.path \notin raced' => dest'[s.path] = dest[s.path]
    BY DEF Remains
  <2>2. QED
    BY <2>1, RemembersKept, SavedIsLeft, RacedStays
<1>4. Spec => [][Leaves]_vars
  BY <1>1, <1>2, <1>3, Invariance, PTL DEF Spec
<1>5. QED
  BY <1>4 DEF SavedStays

-----------------------------------------------------------------------------
(* Downloads *)

USE SizeAssumption, LoopsAssumption, NullAssumption

-----------------------------------------------------------------------------
(* The inductive invariant *)

Requesting == {"fetch", "body"}

\* As long as no two loops have been at work, there is one at most, ...
OneLoop == \A k, l \in Working : k = l

\* ... what it asks for and what it writes is the chunk at the offset, and the file is
\* closed when it is full, ...
Aligned ==
  /\ transfer.offset <= PageSize
  /\ transfer.offset > 0 => transfer.etag # Null
  /\ transfer.closing => transfer.offset = PageSize
  /\ transfer.state = "complete" => transfer.offset = PageSize
  /\ \A l \in Loops :
       /\ loop[l].pc \in {"fetch", "body", "write"} =>
            transfer.offset < PageSize /\ ~transfer.closing
       /\ loop[l].pc \in Requesting => loop[l].start = transfer.offset
       /\ loop[l].pc = "body" => loop[l].etag = transfer.etag /\ loop[l].etag # Null
       /\ loop[l].pc = "write" =>
            /\ loop[l].at = transfer.offset /\ loop[l].number = transfer.number
            /\ loop[l].chunk.at = transfer.offset /\ transfer.etag # Null
       /\ loop[l].pc = "close" => transfer.closing

\* ... and if the file was never replaced under a chunk, the chunk is of the version
\* that was begun, as are those before it.
InPlace(p) == transfer.file[p] = [version |-> transfer.etag, at |-> p]

Intact ==
  /\ \A l \in Loops : loop[l].pc = "write" => loop[l].chunk.version = transfer.etag
  /\ transfer.state # "stopped" \/ transfer.closing =>
       \A p \in 0..(transfer.offset - 1) : InPlace(p)

DInv ==
  /\ DTypeOK
  /\ RunningIsServed
  /\ ~hist.overlap => OneLoop /\ Aligned
  /\ ~hist.overlap /\ ~hist.torn => Intact

-----------------------------------------------------------------------------
(* Types *)

\* The numbers that the constants give.
LEMMA Numbers ==
  /\ PageSize \in Nat /\ PageSize > 0
  /\ Positions \subseteq Nat /\ 0 \in Positions
  /\ \A p \in Positions : 0..p \subseteq Positions
  /\ MaxStarts \in Nat /\ MaxClicks \in Nat /\ MaxLosses \in Nat
<1>1. PageSize \in Nat /\ PageSize > 0
  BY DEF PageSize
<1>2. Cardinality(Loops) \in Nat
  BY FS_CardinalityType
<1>3. QED
  BY <1>1, <1>2 DEF Positions

\* A loop has a chunk in its hands exactly while it writes.
LoopOK(i) == i \in Loop /\ (i.pc = "write" <=> i.chunk # Null)

\* A loop that has returned.
LEMMA NoLoopType == LoopOK(NoLoop) /\ NoLoop.pc = "none"
  BY Numbers DEF LoopOK, NoLoop, Loop

\* A new download, and none.
LEMMA FreshType ==
  /\ \A n \in 0..MaxStarts :
       /\ Fresh(n) \in Transfer /\ Fresh(n).number = n
       /\ Fresh(n).state = "running" /\ Fresh(n).offset = 0 /\ Fresh(n).etag = Null
       /\ ~Fresh(n).closing
  /\ NoTransfer \in Transfer /\ NoTransfer.number = 0 /\ NoTransfer.state = "none"
  /\ NoTransfer.offset = 0 /\ ~NoTransfer.closing
<1>1. \A n \in 0..MaxStarts : Fresh(n) \in Transfer
  BY Numbers DEF Fresh, Transfer, States
<1>2. \A n : /\ Fresh(n).number = n /\ Fresh(n).state = "running" /\ Fresh(n).offset = 0
             /\ Fresh(n).etag = Null /\ Fresh(n).closing = FALSE
  BY DEF Fresh
<1>3. Fresh(0) \in Transfer
  BY <1>1, Numbers
<1>4. \A u \in Transfer : LET v == [u EXCEPT !.state = "none"] IN
        /\ v \in Transfer /\ v.number = u.number /\ v.state = "none" /\ v.offset = u.offset
        /\ v.closing = u.closing
  BY DEF Transfer, States
<1>5. QED
  BY <1>1, <1>2, <1>3, <1>4 DEF NoTransfer

\* What Proceed makes of a loop (i) and of the transfer t (u).
ProceedsTo(t, i, u) ==
  /\ LoopOK(i) /\ u \in Transfer
  /\ u.number = t.number /\ u.offset = t.offset /\ u.etag = t.etag /\ u.file = t.file
  /\ \/ /\ t.state = "running" /\ t.offset < PageSize
        /\ i.pc = "fetch" /\ i.start = t.offset /\ u.state = "running" /\ u.closing = t.closing
     \/ /\ t.state = "running" /\ t.offset >= PageSize /\ ~t.closing
        /\ i.pc = "close" /\ u.state = "running" /\ u.closing
     \/ /\ t.state = "running" /\ t.offset >= PageSize /\ t.closing
        /\ i.pc = "none" /\ u.state = "error" /\ u.closing
     \/ t.state # "running" /\ i.pc = "none" /\ u = t

\* A loop goes on, ends the file, or returns.
LEMMA ProceedShape ==
  ASSUME NEW l \in Loops, NEW t \in Transfer, Proceed(l, t)
  PROVE  \E i, u : /\ ProceedsTo(t, i, u)
                   /\ loop' = [loop EXCEPT ![l] = i] /\ transfer' = u
<1>1. t.offset \in Positions /\ t.closing \in BOOLEAN
  BY DEF Transfer
<1>2. CASE t.state = "running" /\ t.offset < PageSize
  <2> DEFINE i == [NoLoop EXCEPT !.pc = "fetch", !.start = t.offset]
             u == [t EXCEPT !.controller = l]
  <2>1. loop' = [loop EXCEPT ![l] = i] /\ transfer' = u
    BY <1>1, <1>2, Numbers DEF Proceed
  <2>2. LoopOK(i) /\ i.pc = "fetch" /\ i.start = t.offset
    <3>1. \A n \in Loop, s \in Positions :
            LET m == [n EXCEPT !.pc = "fetch", !.start = s] IN
            m \in Loop /\ m.pc = "fetch" /\ m.start = s /\ m.chunk = n.chunk
      BY DEF Loop
    <3>2. NoLoop \in Loop /\ NoLoop.chunk = Null
      BY NoLoopType DEF LoopOK, NoLoop
    <3>3. QED
      BY <1>1, <3>1, <3>2 DEF LoopOK
  <2>3. /\ u \in Transfer /\ u.number = t.number /\ u.offset = t.offset /\ u.etag = t.etag
        /\ u.file = t.file /\ u.state = t.state /\ u.closing = t.closing
    BY DEF Transfer
  <2>4. QED
    BY <1>2, <2>1, <2>2, <2>3 DEF ProceedsTo
<1>3. CASE t.state = "running" /\ t.offset >= PageSize /\ ~t.closing
  <2> DEFINE i == [NoLoop EXCEPT !.pc = "close"]
             u == [t EXCEPT !.closing = TRUE]
  <2>1. loop' = [loop EXCEPT ![l] = i] /\ transfer' = u
    BY <1>1, <1>3, Numbers DEF Proceed
  <2>2. LoopOK(i) /\ i.pc = "close"
    BY Numbers DEF LoopOK, NoLoop, Loop
  <2>3. /\ u \in Transfer /\ u.number = t.number /\ u.offset = t.offset /\ u.etag = t.etag
        /\ u.file = t.file /\ u.state = t.state /\ u.closing
    BY DEF Transfer
  <2>4. QED
    BY <1>3, <2>1, <2>2, <2>3 DEF ProceedsTo
<1>4. CASE t.state = "running" /\ t.offset >= PageSize /\ t.closing
  <2> DEFINE u == [t EXCEPT !.state = "error"]
  <2>1. loop' = [loop EXCEPT ![l] = NoLoop] /\ transfer' = u
    BY <1>1, <1>4, Numbers DEF Proceed
  <2>2. /\ u \in Transfer /\ u.number = t.number /\ u.offset = t.offset /\ u.etag = t.etag
        /\ u.file = t.file /\ u.state = "error" /\ u.closing = t.closing
    BY DEF Transfer, States
  <2>3. QED
    BY <1>4, <2>1, <2>2, NoLoopType DEF ProceedsTo
<1>5. CASE t.state # "running"
  BY <1>5, NoLoopType DEF Proceed, ProceedsTo
<1>6. t.offset < PageSize \/ t.offset >= PageSize
  <2>1. t.offset \in Nat /\ PageSize \in Nat
    BY <1>1, Numbers
  <2>2. QED
    BY <2>1
<1>7. QED
  BY <1>2, <1>3, <1>4, <1>5, <1>6, Zenon

\* After an error the loop has returned and the transfer is not running.
LEMMA CaughtShape ==
  ASSUME DTypeOK, NEW l \in Loops, Caught(l)
  PROVE  /\ loop' = [loop EXCEPT ![l] = NoLoop]
         /\ transfer' \in Transfer /\ transfer'.number = transfer.number
         /\ transfer'.offset = transfer.offset /\ transfer'.etag = transfer.etag
         /\ transfer'.file = transfer.file /\ transfer'.closing = transfer.closing
         /\ transfer'.state \in {transfer.state, "error"} /\ transfer'.state # "running"
         /\ transfer.state = "stopped" <=> transfer'.state = "stopped"
<1>1. transfer \in Transfer
  BY DEF DTypeOK
<1>2. LET u == [transfer EXCEPT !.state = "error"] IN
      /\ u \in Transfer /\ u.number = transfer.number /\ u.offset = transfer.offset
      /\ u.etag = transfer.etag /\ u.file = transfer.file /\ u.closing = transfer.closing
      /\ u.state = "error"
  BY <1>1 DEF Transfer, States
<1>3. QED
  BY <1>1, <1>2 DEF Caught

\* The loop that is entered is one that has returned.
LEMMA FreeLoopIsFree ==
  Working # Loops => FreeLoop \in Loops /\ FreeLoop \notin Working
<1>1. Working # Loops => \E l \in Loops : l \notin Working
  BY DEF Working
<1>2. QED
  BY <1>1, Zenon DEF FreeLoop

\* One loop takes a new state.
LEMMA LoopMoves ==
  ASSUME DTypeOK, NEW l \in Loops, NEW i, LoopOK(i), loop' = [loop EXCEPT ![l] = i]
  PROVE  /\ \A k \in Loops : loop'[k] = IF k = l THEN i ELSE loop[k]
         /\ loop' \in [Loops -> Loop]
         /\ \A k \in Loops : loop'[k].pc = "write" <=> loop'[k].chunk # Null
         /\ i.pc # "none" => Working' # {}
         /\ OneLoop /\ (l \in Working \/ Working = {}) =>
              OneLoop' /\ \A k \in Loops \ {l} : loop'[k].pc = "none"
<1>1. \A k \in Loops : loop'[k] = IF k = l THEN i ELSE loop[k]
  BY DEF DTypeOK
<1>2. loop' \in [Loops -> Loop]
  BY DEF DTypeOK, LoopOK
<1>3. \A k \in Loops : loop'[k].pc = "write" <=> loop'[k].chunk # Null
  BY <1>1 DEF DTypeOK, LoopOK
<1>4. i.pc # "none" => l \in Working'
  BY <1>1 DEF Working
<1>5. ASSUME OneLoop, l \in Working \/ Working = {}
      PROVE  OneLoop' /\ \A k \in Loops \ {l} : loop'[k].pc = "none"
  <2>1. \A k \in Loops \ {l} : loop[k].pc = "none"
    BY <1>5 DEF OneLoop, Working
  <2>2. \A k \in Loops \ {l} : loop'[k].pc = "none"
    BY <1>1, <2>1
  <2>3. QED
    BY <2>2 DEF OneLoop, Working
<1>6. QED
  BY <1>1, <1>2, <1>3, <1>4, <1>5

\* One loop ends.
LEMMA LoopStops ==
  ASSUME DTypeOK, NEW l \in Working, loop' = [loop EXCEPT ![l] = NoLoop]
  PROVE  /\ loop'[l].pc = "none" /\ loop' \in [Loops -> Loop]
         /\ \A k \in Loops : loop'[k].pc = "write" <=> loop'[k].chunk # Null
         /\ OneLoop => OneLoop' /\ \A k \in Loops \ {l} : loop'[k].pc = "none"
<1>1. l \in Loops /\ LoopOK(NoLoop) /\ NoLoop.pc = "none"
  BY NoLoopType DEF Working
<1>2. \A k \in Loops : loop'[k] = IF k = l THEN NoLoop ELSE loop[k]
  BY DEF DTypeOK
<1>3. loop' \in [Loops -> Loop]
  BY <1>1 DEF DTypeOK, LoopOK
<1>4. \A k \in Loops : loop'[k].pc = "write" <=> loop'[k].chunk # Null
  BY <1>1, <1>2 DEF DTypeOK, LoopOK
<1>5. ASSUME OneLoop
      PROVE  OneLoop' /\ \A k \in Loops \ {l} : loop'[k].pc = "none"
  <2>1. \A k \in Loops \ {l} : loop[k].pc = "none"
    BY <1>5 DEF OneLoop, Working
  <2>2. \A k \in Loops \ {l} : loop'[k].pc = "none"
    BY <1>2, <2>1
  <2>3. QED
    BY <2>2 DEF OneLoop, Working
<1>6. QED
  BY <1>1, <1>2, <1>3, <1>4, <1>5

\* The numbers of downloads, clicks and faults that a step leaves alone.
LEMMA SameBounds ==
  ASSUME DTypeOK, UNCHANGED <<starting, bounds>>
  PROVE  /\ starting' \in 0..MaxStarts /\ starts' \in 0..MaxStarts
         /\ clicks' \in 0..MaxClicks /\ losses' \in 0..MaxLosses
         /\ starts' - starting' = transfer.number
  BY DEF DTypeOK, bounds

-----------------------------------------------------------------------------
(* The steps of a loop *)

\* An error leaves the file as it is, and nobody waits for a loop any more.
LEMMA InvCaught ==
  ASSUME DInv, NEW l \in Working, Caught(l), UNCHANGED <<source, share, starting>>,
         starts' = starts, clicks' = clicks, losses' \in 0..MaxLosses,
         hist' \in History, hist'.overlap = hist.overlap, hist.torn => hist'.torn
  PROVE  DInv'
<1>1. DTypeOK /\ l \in Loops
  BY DEF DInv, Working
<1>2. /\ loop' = [loop EXCEPT ![l] = NoLoop]
      /\ transfer' \in Transfer /\ transfer'.number = transfer.number
      /\ transfer'.offset = transfer.offset /\ transfer'.etag = transfer.etag
      /\ transfer'.file = transfer.file /\ transfer'.closing = transfer.closing
      /\ transfer'.state \in {transfer.state, "error"} /\ transfer'.state # "running"
      /\ transfer.state = "stopped" <=> transfer'.state = "stopped"
  BY <1>1, CaughtShape
<1>3. /\ loop' \in [Loops -> Loop]
      /\ \A k \in Loops : loop'[k].pc = "write" <=> loop'[k].chunk # Null
      /\ OneLoop => OneLoop' /\ \A k \in Loops \ {l} : loop'[k].pc = "none"
      /\ loop'[l].pc = "none"
  BY <1>1, <1>2, LoopStops
<1>4. DTypeOK'
  BY <1>1, <1>2, <1>3 DEF DTypeOK
<1>5. RunningIsServed'
  BY <1>2 DEF RunningIsServed
<1>6. OneLoop /\ Aligned => OneLoop' /\ Aligned'
  BY <1>2, <1>3 DEF Aligned, Requesting
<1>7. OneLoop /\ Intact => Intact'
  BY <1>2, <1>3 DEF Intact, InPlace
<1>8. QED
  BY <1>4, <1>5, <1>6, <1>7 DEF DInv, DTypeOK, History

\* The headers of a response: the transfer keeps its version, or takes that of its
\* first response.
LEMMA InvHeaders ==
  ASSUME DInv, NEW l \in Loops, Headers(l)
  PROVE  DInv'
<1>1. DTypeOK /\ l \in Working /\ loop[l].pc = "fetch" /\ loop[l] \in Loop
  BY DEF DInv, DTypeOK, Headers, Working
<1>2. UNCHANGED <<source, share, starting, hist, bounds>>
  BY DEF Headers
<1>3. CASE Caught(l)
  BY <1>1, <1>2, <1>3, InvCaught DEF bounds, DTypeOK, History
<1>4. CASE Honored(l) /\ Expected(l)
  <2> DEFINE i == [loop[l] EXCEPT !.pc = "body", !.etag = source]
             u == [transfer EXCEPT !.etag = source]
  <2>1. transfer \in Transfer /\ source \in Versions /\ source # Null
    BY <1>1 DEF DTypeOK
  <2>2. /\ u \in Transfer /\ u.number = transfer.number /\ u.offset = transfer.offset
        /\ u.file = transfer.file /\ u.closing = transfer.closing /\ u.state = transfer.state
        /\ u.etag = source
    BY <2>1 DEF Transfer
  <2>3. LoopOK(i) /\ i.pc = "body" /\ i.start = loop[l].start /\ i.etag = source
    <3>1. /\ i \in Loop /\ i.pc = "body" /\ i.start = loop[l].start /\ i.etag = source
          /\ i.chunk = loop[l].chunk
      BY <1>1, <2>1 DEF Loop
    <3>2. loop[l].chunk = Null
      BY <1>1 DEF DTypeOK
    <3>3. QED
      BY <3>1, <3>2 DEF LoopOK
  <2>4. loop' = [loop EXCEPT ![l] = i] /\ transfer' = u
    <3>1. loop' = [loop EXCEPT ![l].pc = "body", ![l].etag = source]
      BY <1>4 DEF Headers
    <3>2. [loop EXCEPT ![l].pc = "body", ![l].etag = source] = [loop EXCEPT ![l] = i]
      BY <1>1 DEF DTypeOK
    <3>3. QED
      BY <1>4, <3>1, <3>2 DEF Headers
  <2> HIDE DEF i, u
  <2>5. transfer.etag \in {Null, source}
    BY <1>4 DEF Expected
  <2>6. /\ loop' \in [Loops -> Loop] /\ Working' # {}
        /\ \A k \in Loops : loop'[k].pc = "write" <=> loop'[k].chunk # Null
        /\ OneLoop => OneLoop' /\ \A k \in Loops \ {l} : loop'[k].pc = "none"
        /\ loop'[l] = i
    <3>1. i.pc # "none" /\ (l \in Working \/ Working = {}) /\ DTypeOK
      BY <1>1, <2>3 DEF Working
    <3>2. LoopOK(i) /\ loop' = [loop EXCEPT ![l] = i]
      BY <2>3, <2>4
    <3>3. /\ \A k \in Loops : loop'[k] = IF k = l THEN i ELSE loop[k]
          /\ loop' \in [Loops -> Loop]
          /\ \A k \in Loops : loop'[k].pc = "write" <=> loop'[k].chunk # Null
          /\ i.pc # "none" => Working' # {}
          /\ OneLoop /\ (l \in Working \/ Working = {}) =>
               OneLoop' /\ \A k \in Loops \ {l} : loop'[k].pc = "none"
      BY <3>1, <3>2, LoopMoves
    <3>4. QED
      BY ONLY <3>1, <3>3
  <2>7. DTypeOK' /\ RunningIsServed'
    BY <1>1, <1>2, <2>2, <2>4, <2>6, SameBounds DEF DTypeOK, RunningIsServed
  <2>8. OneLoop /\ Aligned => OneLoop' /\ Aligned'
    BY <1>1, <2>1, <2>2, <2>3, <2>4, <2>6 DEF Aligned, Requesting
  <2>9. OneLoop /\ Aligned /\ Intact => Intact'
    <3>1. transfer.offset > 0 /\ Aligned => source = transfer.etag
      BY <2>5 DEF Aligned
    <3>2. transfer.offset \in Nat
      BY <2>1, Numbers DEF Transfer
    <3>3. QED
      BY <2>2, <2>3, <2>4, <2>6, <3>1, <3>2 DEF Intact, InPlace
  <2>10. QED
    BY <1>2, <2>7, <2>8, <2>9 DEF DInv
<1>5. QED
  BY <1>3, <1>4 DEF Headers

\* A body that arrives is the chunk at the offset, of the version of the headers
\* unless the file was replaced in between.
LEMMA InvBody ==
  ASSUME DInv, NEW l \in Loops, Body(l)
  PROVE  DInv'
<1>1. DTypeOK /\ l \in Working /\ loop[l].pc = "body" /\ loop[l] \in Loop
  BY DEF DInv, DTypeOK, Body, Working
<1>2. UNCHANGED <<source, share, starting, bounds>>
  BY DEF Body
<1>3. /\ hist' \in History /\ hist'.overlap = hist.overlap
      /\ ~hist'.torn => ~hist.torn /\ source = loop[l].etag
  <2>1. hist \in History
    BY <1>1 DEF DTypeOK
  <2>2. PICK b \in BOOLEAN : b = (hist.torn \/ source # loop[l].etag)
    BY Zenon
  <2>3. hist' = [hist EXCEPT !.torn = b]
    BY <2>2, Zenon DEF Body
  <2>4. QED
    BY <2>1, <2>2, <2>3 DEF History
<1>4. CASE Caught(l)
  BY <1>1, <1>2, <1>3, <1>4, InvCaught DEF bounds, DTypeOK, History
<1>5. CASE loop[l].start < Sizes[source]
  <2> DEFINE c == [version |-> source, at |-> loop[l].start]
             i == [NoLoop EXCEPT !.pc = "write", !.at = transfer.offset,
                     !.number = transfer.number, !.chunk = c]
  <2>1. transfer \in Transfer /\ source \in Versions
    BY <1>1 DEF DTypeOK
  <2>2. c \in Chunk /\ c.version = source /\ c.at = loop[l].start
    BY <1>1, <2>1 DEF Loop, Chunk
  <2> HIDE DEF c
  <2>3. /\ LoopOK(i) /\ i.pc = "write" /\ i.at = transfer.offset
        /\ i.number = transfer.number /\ i.chunk = c
    <3>1. NoLoop \in Loop
      BY NoLoopType DEF LoopOK
    <3>2. transfer.offset \in Positions /\ transfer.number \in 0..MaxStarts
      BY <2>1 DEF Transfer
    <3>3. c # Null
      BY <2>2, NullAssumption
    <3>4. /\ i \in Loop /\ i.pc = "write" /\ i.at = transfer.offset
          /\ i.number = transfer.number /\ i.chunk = c
      BY <2>2, <3>1, <3>2 DEF Loop
    <3> HIDE DEF i
    <3>5. QED
      BY <3>3, <3>4 DEF LoopOK
  <2>4. loop' = [loop EXCEPT ![l] = i] /\ transfer' = transfer
    BY <1>5 DEF Body, c
  <2> HIDE DEF i
  <2>5. /\ loop' \in [Loops -> Loop] /\ Working' # {}
        /\ \A k \in Loops : loop'[k].pc = "write" <=> loop'[k].chunk # Null
        /\ OneLoop => OneLoop' /\ \A k \in Loops \ {l} : loop'[k].pc = "none"
        /\ loop'[l] = i
    <3>1. i.pc # "none" /\ (l \in Working \/ Working = {}) /\ DTypeOK
      BY <1>1, <2>3 DEF Working
    <3>2. LoopOK(i) /\ loop' = [loop EXCEPT ![l] = i]
      BY <2>3, <2>4
    <3>3. /\ \A k \in Loops : loop'[k] = IF k = l THEN i ELSE loop[k]
          /\ loop' \in [Loops -> Loop]
          /\ \A k \in Loops : loop'[k].pc = "write" <=> loop'[k].chunk # Null
          /\ i.pc # "none" => Working' # {}
          /\ OneLoop /\ (l \in Working \/ Working = {}) =>
               OneLoop' /\ \A k \in Loops \ {l} : loop'[k].pc = "none"
      BY <3>1, <3>2, LoopMoves
    <3>4. QED
      BY ONLY <3>1, <3>3
  <2>6. DTypeOK' /\ RunningIsServed'
    BY <1>1, <1>2, <1>3, <2>1, <2>4, <2>5, SameBounds DEF DTypeOK, RunningIsServed
  <2>7. OneLoop /\ Aligned => OneLoop' /\ Aligned'
    BY <1>1, <2>2, <2>3, <2>4, <2>5 DEF Aligned, Requesting
  <2>8. OneLoop /\ Aligned /\ Intact /\ ~hist'.torn => Intact'
    BY <1>1, <1>3, <2>2, <2>3, <2>4, <2>5 DEF Aligned, Intact, InPlace
  <2>9. QED
    BY <1>3, <2>6, <2>7, <2>8 DEF DInv
<1>6. QED
  BY <1>4, <1>5 DEF Body

\* A lost connection.
LEMMA InvLost ==
  ASSUME DInv, NEW l \in Loops, Lost(l)
  PROVE  DInv'
<1>1. DTypeOK /\ l \in Working
  BY DEF DInv, Lost, Working
<1>2. losses' \in 0..MaxLosses /\ starts' = starts /\ clicks' = clicks
  BY <1>1, Numbers DEF Lost, Loses, DTypeOK
<1>3. QED
  BY <1>1, <1>2, InvCaught DEF Lost, DTypeOK

\* A chunk is written: with one loop it is the one at the offset, in the file it was
\* meant for.
LEMMA InvWritten ==
  ASSUME DInv, NEW l \in Loops, Written(l)
  PROVE  DInv'
<1> DEFINE i == loop[l]
           t == IF i.number = transfer.number THEN [transfer EXCEPT !.file[i.at] = i.chunk]
                ELSE transfer
           v == [t EXCEPT !.offset = @ + 1]
<1>1. DTypeOK /\ l \in Working /\ i.pc = "write" /\ i \in Loop /\ transfer \in Transfer
  BY DEF DInv, DTypeOK, Written, Working
<1>2. UNCHANGED <<source, share, starting, hist, bounds>> /\ transfer.offset + 1 \in Positions
  BY DEF Written
<1>3. i.chunk \in Chunk /\ i.at \in Positions
  BY <1>1 DEF DTypeOK, Loop
<1>4. /\ t \in Transfer /\ t.number = transfer.number /\ t.offset = transfer.offset
      /\ t.etag = transfer.etag /\ t.closing = transfer.closing /\ t.state = transfer.state
      /\ i.number = transfer.number => t.file = [transfer.file EXCEPT ![i.at] = i.chunk]
  BY <1>1, <1>3 DEF Transfer
<1> HIDE DEF t
<1>5. /\ v \in Transfer /\ v.number = transfer.number /\ v.offset = transfer.offset + 1
      /\ v.etag = transfer.etag /\ v.closing = transfer.closing /\ v.state = transfer.state
      /\ v.file = t.file
  BY <1>2, <1>4 DEF Transfer
<1>6. Proceed(l, v)
  BY DEF Written, t
<1> HIDE DEF i, v
<1>7. PICK j, u : ProceedsTo(v, j, u) /\ loop' = [loop EXCEPT ![l] = j] /\ transfer' = u
  BY <1>5, <1>6, ProceedShape
<1>8. /\ LoopOK(j) /\ u \in Transfer
      /\ u.number = transfer.number /\ u.offset = transfer.offset + 1
      /\ u.etag = transfer.etag /\ u.file = t.file
      /\ u.state = "running" => j.pc # "none"
      /\ j.pc \in {"none", "fetch", "close"}
      /\ u.state = "complete" => transfer.state = "complete"
      /\ u.state = "stopped" <=> transfer.state = "stopped"
  BY <1>5, <1>7 DEF ProceedsTo
<1>9. /\ loop' \in [Loops -> Loop] /\ (j.pc # "none" => Working' # {})
      /\ \A k \in Loops : loop'[k].pc = "write" <=> loop'[k].chunk # Null
      /\ OneLoop => OneLoop' /\ \A k \in Loops \ {l} : loop'[k].pc = "none"
      /\ loop'[l] = j
  <2>1. DTypeOK /\ l \in Loops /\ LoopOK(j) /\ loop' = [loop EXCEPT ![l] = j]
    BY <1>1, <1>7, <1>8
  <2>2. loop'[l] = j
    BY <2>1 DEF DTypeOK
  <2>3. QED
    BY <1>1, <2>1, <2>2, LoopMoves
<1>10. DTypeOK' /\ RunningIsServed'
  BY <1>1, <1>2, <1>7, <1>8, <1>9, SameBounds DEF DTypeOK, RunningIsServed
<1>11. transfer.offset \in Nat /\ PageSize \in Nat
  BY <1>1, Numbers DEF Transfer
<1>12. Aligned => /\ transfer.offset < PageSize /\ ~transfer.closing
                  /\ i.at = transfer.offset /\ i.number = transfer.number
                  /\ i.chunk.at = transfer.offset /\ transfer.etag # Null
                  /\ transfer.state # "complete"
  <2>1. Aligned => transfer.offset < PageSize
    BY <1>1 DEF Aligned, i
  <2>2. Aligned /\ transfer.state = "complete" => transfer.offset = PageSize
    BY DEF Aligned
  <2>3. Aligned => transfer.state # "complete"
    BY <1>11, <2>1, <2>2
  <2>4. QED
    BY <1>1, <2>1, <2>3 DEF Aligned, i
<1>13. OneLoop /\ Aligned => OneLoop' /\ Aligned'
  <2> SUFFICES ASSUME OneLoop, Aligned PROVE Aligned'
    BY <1>9
  <2>1. CASE j.pc = "fetch"
    <3>1. u.offset < PageSize /\ ~u.closing /\ j.start = u.offset /\ u.state = "running"
      BY <1>5, <1>7, <1>12, <2>1 DEF ProceedsTo
    <3>2. QED
      BY <1>7, <1>8, <1>9, <1>11, <1>12, <2>1, <3>1 DEF Aligned, Requesting
  <2>2. CASE j.pc = "close"
    <3>1. u.offset = PageSize /\ u.closing
      BY <1>5, <1>7, <1>8, <1>11, <1>12, <2>2 DEF ProceedsTo
    <3>2. QED
      BY <1>7, <1>8, <1>9, <1>11, <1>12, <2>2, <3>1 DEF Aligned, Requesting
  <2>3. CASE j.pc = "none"
    <3>1. ~u.closing
      BY <1>5, <1>7, <1>12, <2>3 DEF ProceedsTo
    <3>2. QED
      BY <1>7, <1>8, <1>9, <1>11, <1>12, <2>3, <3>1 DEF Aligned, Requesting
  <2>4. QED
    BY <1>8, <2>1, <2>2, <2>3
<1>14. OneLoop /\ Aligned /\ Intact => Intact'
  <2> SUFFICES ASSUME OneLoop, Aligned, Intact, u.state # "stopped" \/ u.closing,
                      NEW p \in 0..transfer.offset
               PROVE  u.file[p] = [version |-> u.etag, at |-> p]
    BY <1>7, <1>8, <1>9, <1>11 DEF Intact, InPlace
  <2>1. transfer.state # "stopped"
    BY <1>5, <1>7, <1>8, <1>12 DEF ProceedsTo
  <2>2. i.chunk = [version |-> transfer.etag, at |-> transfer.offset]
    <3>1. i.chunk.version = transfer.etag
      BY <1>1 DEF Intact, i
    <3>2. QED
      BY <1>3, <1>12, <3>1 DEF Chunk
  <2>3. u.file = [transfer.file EXCEPT ![transfer.offset] = i.chunk]
    BY <1>4, <1>8, <1>12
  <2>4. transfer.file \in [Positions -> Chunk \cup {Null}] /\ transfer.offset \in Positions
    BY <1>1 DEF Transfer
  <2>5. CASE p = transfer.offset
    BY <1>8, <2>2, <2>3, <2>4, <2>5
  <2>6. CASE p # transfer.offset
    <3>1. p \in 0..(transfer.offset - 1)
      BY <1>11, <2>6
    <3>2. transfer.file[p] = [version |-> transfer.etag, at |-> p]
      BY <2>1, <3>1 DEF Intact, InPlace
    <3>3. p \in Positions
      BY <1>11, <2>4, <3>1, Numbers
    <3>4. QED
      BY <1>8, <2>3, <2>4, <2>6, <3>2, <3>3
  <2>7. QED
    BY <2>5, <2>6
<1>15. QED
  BY <1>2, <1>10, <1>13, <1>14 DEF DInv

\* The file is closed: with one loop it is full.
LEMMA InvClosed ==
  ASSUME DInv, NEW l \in Loops, Closed(l)
  PROVE  DInv'
<1>1. DTypeOK /\ l \in Working /\ loop[l].pc = "close"
  BY DEF DInv, DTypeOK, Closed, Working
<1>2. UNCHANGED <<source, share, starting, hist, bounds>>
  BY DEF Closed
<1>3. CASE Caught(l)
  BY <1>1, <1>2, <1>3, InvCaught DEF bounds, DTypeOK, History
<1>4. CASE /\ loop' = [loop EXCEPT ![l] = NoLoop]
           /\ transfer' = [transfer EXCEPT !.state = "complete"]
  <2>1. transfer \in Transfer
    BY <1>1 DEF DTypeOK
  <2>2. /\ transfer' \in Transfer /\ transfer'.number = transfer.number
        /\ transfer'.offset = transfer.offset /\ transfer'.etag = transfer.etag
        /\ transfer'.file = transfer.file /\ transfer'.closing = transfer.closing
        /\ transfer'.state = "complete"
    BY <1>4, <2>1 DEF Transfer, States
  <2>3. /\ loop' \in [Loops -> Loop]
        /\ \A k \in Loops : loop'[k].pc = "write" <=> loop'[k].chunk # Null
        /\ OneLoop => OneLoop' /\ \A k \in Loops \ {l} : loop'[k].pc = "none"
        /\ loop'[l].pc = "none"
    BY <1>1, <1>4, LoopStops
  <2>4. DTypeOK' /\ RunningIsServed'
    BY <1>1, <1>2, <2>2, <2>3, SameBounds DEF DTypeOK, RunningIsServed
  <2>5. Aligned => transfer.closing /\ transfer.offset = PageSize
    BY <1>1, <2>1 DEF Aligned, Transfer
  <2>6. OneLoop /\ Aligned => OneLoop' /\ Aligned'
    BY <2>2, <2>3, <2>5 DEF Aligned, Requesting
  <2>7. OneLoop /\ Aligned /\ Intact => Intact'
    BY <2>2, <2>3, <2>5 DEF Intact, InPlace
  <2>8. QED
    BY <1>2, <2>4, <2>6, <2>7 DEF DInv
<1>5. QED
  BY <1>3, <1>4 DEF Closed

-----------------------------------------------------------------------------
(* The steps of the user and of the server *)

\* A call of downloadNextChunks with a transfer whose file is intact: while it is the
\* only one, it goes on where the transfer is.
LEMMA InvEnter ==
  ASSUME DInv, NEW t \in Transfer, Enter(t), t.state = "running",
         UNCHANGED <<source, share>>, starting' \in 0..MaxStarts, starts' = starts,
         clicks' \in 0..MaxClicks, losses' = losses, t.number = starts - starting',
         Aligned =>
           /\ t.offset <= PageSize /\ (t.offset > 0 => t.etag # Null)
           /\ t.closing => t.offset = PageSize,
         Intact => \A p \in 0..(t.offset - 1) : t.file[p] = [version |-> t.etag, at |-> p]
  PROVE  DInv'
<1>1. DTypeOK /\ FreeLoop \in Loops /\ FreeLoop \notin Working
  BY FreeLoopIsFree DEF DInv, Enter
<1>2. PICK l, i, u :
        l \in Loops /\ ProceedsTo(t, i, u) /\ loop' = [loop EXCEPT ![l] = i] /\ transfer' = u
  BY <1>1, ProceedShape DEF Enter
<1>3. /\ LoopOK(i) /\ u \in Transfer /\ u.number = t.number /\ u.offset = t.offset
      /\ u.etag = t.etag /\ u.file = t.file
      /\ u.state = "running" => i.pc # "none"
      /\ i.pc \in {"none", "fetch", "close"} /\ u.state \in {"running", "error"}
  BY <1>2 DEF ProceedsTo
<1>4. hist' \in History /\ hist'.torn = hist.torn
      /\ (~hist'.overlap => ~hist.overlap /\ Working = {})
  <2>1. hist \in History
    BY <1>1 DEF DTypeOK
  <2>2. PICK b \in BOOLEAN : b = (hist.overlap \/ Working # {})
    BY Zenon
  <2>3. hist' = [hist EXCEPT !.overlap = b]
    BY <2>2, Zenon DEF Enter
  <2>4. QED
    BY <2>1, <2>2, <2>3 DEF History
<1>5. /\ loop' \in [Loops -> Loop] /\ (i.pc # "none" => Working' # {})
      /\ \A k \in Loops : loop'[k].pc = "write" <=> loop'[k].chunk # Null
      /\ OneLoop /\ Working = {} => OneLoop' /\ \A k \in Loops \ {l} : loop'[k].pc = "none"
      /\ loop'[l] = i
  <2>1. DTypeOK /\ l \in Loops /\ LoopOK(i) /\ loop' = [loop EXCEPT ![l] = i]
    BY <1>1, <1>2, <1>3
  <2>2. loop'[l] = i
    BY <2>1 DEF DTypeOK
  <2>3. QED
    BY <2>1, <2>2, LoopMoves
<1>6. DTypeOK' /\ RunningIsServed'
  BY <1>1, <1>2, <1>3, <1>4, <1>5 DEF DTypeOK, RunningIsServed
<1>7. t.offset \in Nat /\ PageSize \in Nat /\ t.closing \in BOOLEAN
  BY Numbers DEF Transfer
<1>8. ASSUME OneLoop, Aligned, Working = {} PROVE OneLoop' /\ Aligned'
  <2>1. CASE i.pc = "fetch"
    <3>1. u.offset < PageSize /\ i.start = u.offset /\ u.closing = t.closing
      BY <1>2, <1>3, <2>1 DEF ProceedsTo
    <3>2. ~u.closing
      BY <1>3, <1>7, <1>8, <3>1
    <3>3. QED
      BY <1>2, <1>3, <1>5, <1>7, <1>8, <2>1, <3>1, <3>2 DEF Aligned, Requesting
  <2>2. CASE i.pc = "close"
    <3>1. u.offset = PageSize /\ u.closing
      BY <1>2, <1>3, <1>7, <1>8, <2>2 DEF ProceedsTo
    <3>2. QED
      BY <1>2, <1>3, <1>5, <1>7, <1>8, <2>2, <3>1 DEF Aligned, Requesting
  <2>3. CASE i.pc = "none"
    <3>1. u.offset = PageSize
      BY <1>2, <1>3, <1>7, <1>8, <2>3 DEF ProceedsTo
    <3>2. QED
      BY <1>2, <1>3, <1>5, <1>7, <1>8, <2>3, <3>1 DEF Aligned, Requesting
  <2>4. QED
    BY <1>3, <2>1, <2>2, <2>3
<1>9. ASSUME OneLoop, Intact, Working = {} PROVE Intact'
  <2>1. \A k \in Loops : loop'[k].pc # "write"
    BY <1>3, <1>5, <1>9
  <2>2. QED
    BY <1>2, <1>3, <1>9, <2>1 DEF Intact, InPlace
<1>10. QED
  BY <1>4, <1>6, <1>8, <1>9 DEF DInv

\* Another download is asked for, and begun.
LEMMA InvStart ==
  ASSUME DInv, Start \/ FileChosen
  PROVE  DInv'
<1>1. DTypeOK
  BY DEF DInv
<1>2. CASE Start
  <2>1. UNCHANGED <<source, share, transfer, loop, hist, clicks, losses>>
    BY <1>2 DEF Start
  <2>2. /\ starting' \in 0..MaxStarts /\ starts' \in 0..MaxStarts
        /\ starts' - starting' = starts - starting
    BY <1>1, <1>2, Numbers DEF Start, DTypeOK, Transfer
  <2>3. DTypeOK'
    BY <1>1, <2>1, <2>2 DEF DTypeOK
  <2>4. QED
    BY <2>1, <2>3 DEF DInv, RunningIsServed, OneLoop, Aligned, Intact, InPlace, Working
<1>3. CASE FileChosen
  <2>1. transfer.number + 1 \in 0..MaxStarts /\ transfer.number \in Nat /\ starting \in Nat
    BY <1>1, <1>3, Numbers DEF FileChosen, DTypeOK, Transfer
  <2>2. starting' \in 0..MaxStarts /\ transfer.number + 1 = starts - starting'
    BY <1>1, <1>3, <2>1, Numbers DEF FileChosen, DTypeOK
  <2> DEFINE t == Fresh(transfer.number + 1)
  <2>3. /\ t \in Transfer /\ t.number = transfer.number + 1 /\ t.state = "running"
        /\ t.offset = 0 /\ ~t.closing
    BY <2>1, FreshType
  <2>4. Enter(t) /\ UNCHANGED <<source, share>> /\ starts' = starts /\ losses' = losses
    BY <1>3 DEF FileChosen, bounds
  <2>5. clicks' \in 0..MaxClicks
    BY <1>1, <1>3 DEF FileChosen, bounds, DTypeOK
  <2> HIDE DEF t
  <2>6. QED
    BY <2>2, <2>3, <2>4, <2>5, InvEnter, Numbers
<1>4. QED
  BY <1>2, <1>3

\* Resume, or Retry, from where the transfer stands.
LEMMA InvResume ==
  ASSUME DInv, ResumeTransfer
  PROVE  DInv'
<1>1. DTypeOK /\ transfer \in Transfer /\ transfer.state \in {"paused", "error"}
  BY DEF DInv, DTypeOK, ResumeTransfer
<1>2. /\ Resumed \in Transfer /\ Resumed.number = transfer.number
      /\ Resumed.offset = transfer.offset /\ Resumed.etag = transfer.etag
      /\ Resumed.file = transfer.file /\ Resumed.closing = transfer.closing
      /\ Resumed.state = "running"
  BY <1>1 DEF Resumed, Transfer, States
<1>3. /\ Enter(Resumed) /\ UNCHANGED <<source, share, starting, starts, losses>>
      /\ clicks' \in 0..MaxClicks
  BY <1>1, Numbers DEF ResumeTransfer, Click, DTypeOK
<1>4. /\ starting' \in 0..MaxStarts /\ transfer.number = starts - starting'
  BY <1>1, <1>3 DEF DTypeOK
<1>5. Aligned => /\ transfer.offset <= PageSize
                 /\ transfer.offset > 0 => transfer.etag # Null
                 /\ transfer.closing => transfer.offset = PageSize
  BY DEF Aligned
<1>6. Intact => \A p \in 0..(transfer.offset - 1) :
        transfer.file[p] = [version |-> transfer.etag, at |-> p]
  BY <1>1 DEF Intact, InPlace
<1> HIDE DEF Resumed
<1>7. QED
  BY <1>2, <1>3, <1>4, <1>5, <1>6, InvEnter

\* Pause and stop: a loop that waits for a response ends.
LEMMA InvHalt ==
  ASSUME DInv, Pause \/ Stop
  PROVE  DInv'
<1>1. DTypeOK /\ transfer \in Transfer
  BY DEF DInv, DTypeOK
<1>2. /\ transfer' \in Transfer /\ transfer'.number = transfer.number
      /\ transfer'.offset = transfer.offset /\ transfer'.etag = transfer.etag
      /\ transfer'.closing = transfer.closing /\ transfer'.state \in {"paused", "stopped"}
      /\ transfer.state = "running" \/ transfer'.state = "stopped"
      /\ transfer'.state # "stopped" \/ transfer.closing =>
           transfer'.file = transfer.file /\ transfer.state # "stopped"
  <2>1. CASE Pause
    BY <1>1, <2>1 DEF Pause, Transfer, States
  <2>2. CASE Stop
    <3>1. PICK f : transfer' = [transfer EXCEPT !.state = "stopped", !.file = f]
                   /\ f = IF transfer.closing THEN transfer.file
                          ELSE [p \in Positions |-> Null]
      BY <2>2 DEF Stop
    <3>2. f \in [Positions -> Chunk \cup {Null}]
      BY <1>1, <3>1 DEF Transfer
    <3>3. QED
      BY <1>1, <2>2, <3>1, <3>2 DEF Stop, Transfer, States
  <2>3. QED
    BY <2>1, <2>2
<1>3. \A k \in Loops : loop'[k] = loop[k] \/ loop'[k] = NoLoop
  BY <1>1 DEF Pause, Stop, Aborted, DTypeOK
<1>4. loop' \in [Loops -> Loop]
  BY <1>1, NoLoopType DEF Pause, Stop, Aborted, DTypeOK, LoopOK
<1>5. \A k \in Loops : loop'[k].pc = "write" <=> loop'[k].chunk # Null
  BY <1>1, <1>3, NoLoopType DEF DTypeOK, LoopOK
<1>6. UNCHANGED <<source, share, starting, hist, starts, losses>> /\ clicks' \in 0..MaxClicks
  <2>1. Click /\ UNCHANGED <<source, share, starting, hist, starts, losses>>
    BY DEF Pause, Stop, Click
  <2>2. clicks \in 0..MaxClicks /\ MaxClicks \in Nat
    BY <1>1, Numbers DEF DTypeOK
  <2>3. QED
    BY <2>1, <2>2 DEF Click
<1>7. DTypeOK'
  BY <1>1, <1>2, <1>4, <1>5, <1>6 DEF DTypeOK
<1>8. RunningIsServed'
  BY <1>2 DEF RunningIsServed
<1>9. OneLoop => OneLoop'
  BY <1>3, NoLoopType DEF OneLoop, Working
<1>10. Aligned => Aligned'
  BY <1>2, <1>3, NoLoopType DEF Aligned, Requesting
<1>11. Intact => Intact'
  <2>1. Intact => \A k \in Loops : loop'[k].pc = "write" =>
                    loop'[k].chunk.version = transfer'.etag
    BY <1>2, <1>3, NoLoopType DEF Intact
  <2>2. QED
    BY <1>2, <2>1 DEF Intact, InPlace
<1>12. QED
  BY <1>6, <1>7, <1>8, <1>9, <1>10, <1>11 DEF DInv

\* The server's side: neither a new version nor a revoked share touches the page.
LEMMA InvServer ==
  ASSUME DInv, Replace \/ Revoke
  PROVE  DInv'
<1>1. UNCHANGED <<transfer, loop, starting, hist, starts, clicks>>
  BY DEF Replace, Revoke, Loses, bounds
<1>2. source' \in Versions /\ share' \in BOOLEAN /\ losses' \in 0..MaxLosses
  <2>1. CASE Replace
    BY <2>1 DEF Replace, bounds, DInv, DTypeOK
  <2>2. CASE Revoke
    BY <2>2, Numbers DEF Revoke, Loses, DInv, DTypeOK
  <2>3. QED
    BY <2>1, <2>2
<1>3. DTypeOK'
  BY <1>1, <1>2 DEF DInv, DTypeOK
<1>4. QED
  BY <1>1, <1>3 DEF DInv, RunningIsServed, OneLoop, Aligned, Intact, InPlace, Working

-----------------------------------------------------------------------------
(* The theorems *)

\* The first states satisfy the inductive invariant.
LEMMA InvInit == DInit => DInv
<1> SUFFICES ASSUME DInit PROVE DInv
  OBVIOUS
<1>1. \A l \in Loops : loop[l] = NoLoop
  BY DEF DInit
<1>2. DTypeOK
  <2>1. loop \in [Loops -> Loop] /\ \A l \in Loops : loop[l].pc = "write" <=> loop[l].chunk # Null
    BY <1>1, NoLoopType DEF DInit, LoopOK
  <2>2. source \in Versions /\ share \in BOOLEAN /\ hist \in History
    BY DEF DInit, History
  <2>3. transfer \in Transfer /\ transfer.number = starts - starting
    BY FreshType DEF DInit
  <2>4. QED
    BY <2>1, <2>2, <2>3, Numbers DEF DInit, DTypeOK
<1>3. transfer.state = "none" /\ transfer.offset = 0 /\ ~transfer.closing
  BY FreshType DEF DInit
<1>4. RunningIsServed /\ OneLoop
  BY <1>1, <1>3, NoLoopType DEF RunningIsServed, OneLoop, Working
<1>5. Aligned /\ Intact
  BY <1>1, <1>3, NoLoopType, Numbers DEF Aligned, Requesting, Intact, InPlace
<1>6. QED
  BY <1>2, <1>4, <1>5 DEF DInv

\* Every step keeps it.
LEMMA InvStep == DInv /\ [DNext]_dvars => DInv'
<1> SUFFICES ASSUME DInv, [DNext]_dvars PROVE DInv'
  OBVIOUS
<1>1. CASE UNCHANGED dvars
  BY <1>1 DEF dvars, bounds, DInv, DTypeOK, RunningIsServed, OneLoop, Aligned, Intact, InPlace,
              Working
<1>2. ASSUME NEW l \in Loops, Step(l) PROVE DInv'
  BY <1>2, InvHeaders, InvBody, InvLost, InvWritten, InvClosed DEF Step
<1>3. CASE DNext
  BY <1>2, <1>3, InvStart, InvResume, InvHalt, InvServer DEF DNext, User
<1>4. QED
  BY <1>1, <1>3

\* The inductive invariant holds in every state.
THEOREM DownloadInvariance == DSpec => []DInv
  BY InvInit, InvStep, PTL DEF DSpec

\* Page, loops and server keep their types.
THEOREM DownloadTypes == DSpec => []DTypeOK
<1>1. DInv => DTypeOK
  BY DEF DInv
<1>2. QED
  BY <1>1, DownloadInvariance, PTL

\* What a download has written is one version, chunk by chunk in its place, and a
\* complete one is as long as the page told, unless two loops were at work or the file
\* was replaced under a chunk.
THEOREM DownloadIsIntact == DSpec => []ChunksInPlace
<1>1. DInv => ChunksInPlace
  BY DEF DInv, Aligned, Intact, InPlace, ChunksInPlace
<1>2. QED
  BY <1>1, DownloadInvariance, PTL

\* No pause, error or overtaken loop leaves a download running with nobody at work.
THEOREM DownloadIsServed == DSpec => []RunningIsServed
<1>1. DInv => RunningIsServed
  BY DEF DInv
<1>2. QED
  BY <1>1, DownloadInvariance, PTL
=============================================================================
