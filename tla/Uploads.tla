------------------------------- MODULE Uploads -------------------------------
(***************************************************************************)
(* Uploads of the file manager: the page sends each file in chunks, one    *)
(* request after the other, or all of them in one request; the server      *)
(* collects the chunks of a file in a folder of the operation and moves    *)
(* the file to a free name in the destination when the last one is there.  *)
(*                                                                         *)
(* Several pages upload at a time.  A name that was found free is taken    *)
(* some steps later; the destination is another file system, so that what  *)
(* is moved there is copied.  A request that the page has given up goes    *)
(* on, and the page may start anew.                                        *)
(***************************************************************************)
EXTENDS Integers, Sequences, FiniteSets

CONSTANTS
  Tabs,         \* pages
  Chosen,       \* by tab, the files to upload: name and size in chunks
  Names,
  Before,       \* the paths that exist in the beginning
  Ops,          \* numbers of the operations there may be
  Old, Torn,    \* contents: what was there before; what is not there as a whole
  None,
  MaxCopies, MaxFaults   \* bounds

ASSUME ChosenAssumption ==
  Chosen \in [Tabs -> Seq([name : Names, size : Nat \ {0}]) \ {<< >>}]

ASSUME BoundsAssumption == Ops \subseteq Nat /\ MaxCopies \in Nat /\ MaxFaults \in Nat

\* A name, or the name with a number.
Paths == Names \X (0..MaxCopies)

ASSUME BeforeAssumption == Before \subseteq Paths

VARIABLES
  rows,      \* FileOperation
  parts,     \* the folders of the operations, by name of the part
  dest,      \* the destination, by path
  work,      \* the request, or the worker, that is at an operation
  page,      \* the operation that a tab waits for
  raced,     \* history: paths that two requests have found free
  resumed,   \* history: operations that were resumed
  faults

vars == <<rows, parts, dest, work, page, raced, resumed, faults>>

-----------------------------------------------------------------------------
(* Types *)

Indices == UNION {DOMAIN Chosen[t] : t \in Tabs}

Chunks == Tabs \X Indices \X Nat

Contents == Seq(Chunks)

ASSUME ContentsAssumption ==
  /\ {None, Old, Torn} \cap Contents = {} /\ None # Old /\ None # Torn /\ Old # Torn
  /\ None \notin Tabs \cup Ops

Saved == [file : Indices, path : Paths]

\* saved: completed_sources.
Row == [status : {"none", "running", "failed", "success"}, tab : Tabs \cup {None}, saved : SUBSET Saved]

NoRow == [status |-> "none", tab |-> None, saved |-> {}]

\* saved: as in the row that was loaded, and what was added since.
Work == [pc : {"none", "load", "write", "find", "open", "copy", "save", "finish", "end"},
         mode : {"chunks", "direct", "worker"}, file : Indices \cup {0}, chunk : Nat,
         saved : SUBSET Saved, path : Paths \cup {None}, errors : BOOLEAN]

Idle == [pc |-> "none", mode |-> "chunks", file |-> 0, chunk |-> 0, saved |-> {}, path |-> None,
         errors |-> FALSE]

File(o) == Chosen[rows[o].tab][work[o].file]

TypeOK ==
  /\ rows \in [Ops -> Row]
  /\ \A o \in Ops : rows[o].status # "none" <=> rows[o].tab # None
  /\ parts \in [Ops -> [Names -> Contents]]
  /\ dest \in [Paths -> Contents \cup {None, Old, Torn}]
  /\ work \in [Ops -> Work]
  /\ \A o \in Ops : work[o].pc # "none" =>
       /\ rows[o].status = "running"
       /\ work[o].pc \notin {"finish", "end"} =>
            /\ work[o].file \in DOMAIN Chosen[rows[o].tab]
            /\ work[o].chunk \in 1..File(o).size
  /\ page \in [Tabs -> Ops \cup {None}]
  /\ \A t \in Tabs : page[t] # None => rows[page[t]].tab = t /\ work[page[t]].pc # "none"
  /\ raced \subseteq Paths /\ resumed \subseteq Ops /\ faults \in 0..MaxFaults

-----------------------------------------------------------------------------
Init ==
  /\ rows = [o \in Ops |-> NoRow]
  /\ parts = [o \in Ops |-> [n \in Names |-> << >>]]
  /\ dest = [p \in Paths |-> IF p \in Before THEN Old ELSE None]
  /\ work = [o \in Ops |-> Idle]
  /\ page = [t \in Tabs |-> None]
  /\ raced = {} /\ resumed = {} /\ faults = 0

Fault == faults < MaxFaults /\ faults' = faults + 1

Files(o) == Chosen[rows[o].tab]

-----------------------------------------------------------------------------
(* The page *)

\* The operation is created, and its first request is under way.
Started(t, o, mode, pc) ==
  /\ page[t] = None /\ rows[o].status = "none"
  /\ \A u \in Ops : u < o => rows[u].status # "none"
  /\ rows' = [rows EXCEPT ![o] = [status |-> "running", tab |-> t, saved |-> {}]]
  /\ page' = [page EXCEPT ![t] = o]
  /\ work' = [work EXCEPT ![o] = [Idle EXCEPT !.pc = pc, !.mode = mode, !.file = 1, !.chunk = 1]]
  /\ UNCHANGED <<parts, dest, raced, resumed, faults>>

\* startUpload and start_chunked_upload
StartChunks(t, o) == Started(t, o, "chunks", "load")

\* startDirectUpload
StartDirect(t, o) == Started(t, o, "direct", "find")

\* The answer does not arrive, or nobody waits for it any more.
GivesUp(t) ==
  /\ page[t] # None /\ Fault
  /\ page' = [page EXCEPT ![t] = None]
  /\ UNCHANGED <<rows, parts, dest, work, raced, resumed>>

\* Mutant of Told: nobody is told.
ToldNobody(o) == UNCHANGED page

\* The page is told how it ended, or that it has failed.
Told(o) == page' = [t \in Tabs |-> IF page[t] = o THEN None ELSE page[t]]

Ends(o) == work' = [work EXCEPT ![o] = Idle] /\ Told(o)

\* The request that follows an answer, if the page still waits for it.
Following(o) ==
  LET w == work[o] IN
  IF page[rows[o].tab] # o THEN Idle
  ELSE IF w.chunk < File(o).size THEN [Idle EXCEPT !.pc = "load", !.file = w.file, !.chunk = w.chunk + 1]
  ELSE IF w.file < Len(Files(o)) THEN [Idle EXCEPT !.pc = "load", !.file = w.file + 1, !.chunk = 1]
  ELSE [Idle EXCEPT !.pc = "finish"]

-----------------------------------------------------------------------------
(* save_upload_chunk, and save_uploaded_files for each file *)

Load(o) ==
  /\ work[o].pc = "load"
  /\ IF rows[o].status # "running" THEN Ends(o)
     ELSE /\ work' = [work EXCEPT ![o].pc = "write", ![o].saved = rows[o].saved]
          /\ UNCHANGED page
  /\ UNCHANGED <<rows, parts, dest, raced, resumed, faults>>

\* Mutant of Session: one folder for all operations.
SessionShared(o) == CHOOSE u \in Ops : TRUE

\* _upload_session_root
Session(o) == o

Part(o) == parts[Session(o)][File(o).name]

\* The first chunk empties the part.
Write(o) ==
  LET chunk == <<rows[o].tab, work[o].file, work[o].chunk>> IN
  /\ work[o].pc = "write"
  /\ parts' = [parts EXCEPT ![Session(o)][File(o).name] =
                 IF work[o].chunk = 1 THEN <<chunk>> ELSE Append(@, chunk)]
  /\ work' = [work EXCEPT ![o].pc = IF work[o].chunk = File(o).size THEN "find" ELSE "save"]
  /\ UNCHANGED <<rows, dest, page, raced, resumed, faults>>

Taken(p) == dest[p] # None

\* _available_upload_path
Available(name, c) == ~Taken(<<name, c>>) /\ \A d \in 0..(c - 1) : Taken(<<name, d>>)

Find(o) ==
  /\ work[o].pc = "find"
  /\ \E c \in 0..MaxCopies :
       LET p == <<File(o).name, c>> IN
       /\ Available(File(o).name, c)
       /\ work' = [work EXCEPT ![o].pc = "open", ![o].path = p]
       /\ raced' = IF \E u \in Ops \ {o} : work[u].pc = "open" /\ work[u].path = p
                     THEN raced \cup {p} ELSE raced
  /\ UNCHANGED <<rows, parts, dest, page, resumed, faults>>

\* The file is created, or emptied if it is there by now.
Open(o) ==
  /\ work[o].pc = "open"
  /\ dest' = [dest EXCEPT ![work[o].path] = Torn]
  /\ work' = [work EXCEPT ![o].pc = "copy"]
  /\ UNCHANGED <<rows, parts, page, raced, resumed, faults>>

Whole(t, i) == [k \in 1..Chosen[t][i].size |-> <<t, i, k>>]

Brought(o) == IF work[o].mode = "direct" THEN Whole(rows[o].tab, work[o].file) ELSE Part(o)

\* Two that write one file may mix what they write.
Copy(o) ==
  LET p == work[o].path IN
  /\ work[o].pc = "copy"
  /\ \E content \in {Brought(o)} \cup IF p \in raced THEN {Torn} ELSE {} :
       dest' = [dest EXCEPT ![p] = content]
  /\ parts' = IF work[o].mode = "direct" THEN parts
              ELSE [parts EXCEPT ![Session(o)][File(o).name] = << >>]
  /\ work' = [work EXCEPT ![o].pc = "save", ![o].saved = @ \cup {[file |-> work[o].file, path |-> p]}]
  /\ UNCHANGED <<rows, page, raced, resumed, faults>>

\* The next file of a request with all of them.
Onward(o) ==
  IF work[o].file < Len(Files(o)) THEN [work[o] EXCEPT !.pc = "find", !.file = @ + 1]
  ELSE [work[o] EXCEPT !.pc = "end"]

Save(o) ==
  /\ work[o].pc = "save"
  /\ rows' = [rows EXCEPT ![o].saved = work[o].saved]
  /\ work' = [work EXCEPT ![o] = IF work[o].mode = "direct" THEN Onward(o) ELSE Following(o)]
  /\ UNCHANGED <<parts, dest, page, raced, resumed, faults>>

\* What fails of one file is noted, and the next one is taken.
FileFails(o) ==
  /\ work[o].mode = "direct" /\ work[o].pc \in {"open", "copy", "save"} /\ Fault
  /\ work' = [work EXCEPT ![o] = [Onward(o) EXCEPT !.errors = TRUE]]
  /\ UNCHANGED <<rows, parts, dest, page, raced, resumed>>

\* The request fails, or whoever is at it dies.
Fails(o) ==
  /\ work[o].pc # "none" /\ Fault
  /\ Ends(o)
  /\ UNCHANGED <<rows, parts, dest, raced, resumed>>

-----------------------------------------------------------------------------
(* How it ends *)

\* finish_chunked_upload: the folder is removed, or the operation has failed.
Finish(o) ==
  /\ work[o].pc = "finish"
  /\ IF rows[o].status # "running" THEN Ends(o) /\ UNCHANGED <<rows, parts>>
     ELSE IF Cardinality(rows[o].saved) # Len(Files(o))
     THEN rows' = [rows EXCEPT ![o].status = "failed"] /\ Ends(o) /\ UNCHANGED parts
     ELSE /\ parts' = [parts EXCEPT ![Session(o)] = [n \in Names |-> << >>]]
          /\ work' = [work EXCEPT ![o].pc = "end"]
          /\ UNCHANGED <<rows, page>>
  /\ UNCHANGED <<dest, raced, resumed, faults>>

\* Mutant of Verdict: what was noted is forgotten.
VerdictAlways(o) == "success"

Verdict(o) == IF work[o].errors THEN "failed" ELSE "success"

\* finalize_file_operation
End(o) ==
  /\ work[o].pc = "end"
  /\ rows' = [rows EXCEPT ![o].status = Verdict(o)]
  /\ Ends(o)
  /\ UNCHANGED <<parts, dest, raced, resumed, faults>>

\* A worker finds that each of the sources, which are the files that were saved, is
\* completed.
Resume(o) ==
  /\ rows[o].status = "failed"
  /\ rows' = [rows EXCEPT ![o].status = "running"]
  /\ work' = [work EXCEPT ![o] = [Idle EXCEPT !.pc = "end", !.mode = "worker"]]
  /\ resumed' = resumed \cup {o}
  /\ UNCHANGED <<parts, dest, page, raced, faults>>

-----------------------------------------------------------------------------
Handle(o) ==
  \/ Load(o) \/ Write(o) \/ Find(o) \/ Open(o) \/ Copy(o) \/ Save(o)
  \/ FileFails(o) \/ Fails(o) \/ Finish(o) \/ End(o)

Next ==
  \/ \E t \in Tabs : GivesUp(t) \/ \E o \in Ops : StartChunks(t, o) \/ StartDirect(t, o)
  \/ \E o \in Ops : Handle(o) \/ Resume(o)

Spec == Init /\ [][Next]_vars

-----------------------------------------------------------------------------
(* Properties *)

\* No file that was there is touched, and what an operation lists as saved is there as
\* a whole, at a path of its own, unless two requests have found the path free.
FilesKept ==
  /\ \A p \in Before : dest[p] = Old
  /\ \A o \in Ops, s \in Saved : s \in rows[o].saved /\ s.path \notin raced =>
       /\ dest[s.path] = Whole(rows[o].tab, s.file)
       /\ \A u \in Ops : \A x \in rows[u].saved : x.path = s.path => u = o /\ x = s

\* An upload that ends as a success, other than by a resume, has saved every file.
SuccessIsWhole ==
  \A o \in Ops : rows[o].status = "success" /\ o \notin resumed =>
    \A i \in DOMAIN Files(o) : \E s \in rows[o].saved : s.file = i

\* What an operation has saved stays on its list whatever requests, failures and
\* resumptions follow, and in the destination, unless two requests have found the path
\* free.  A success is final.
SavedStays ==
  [][\A o \in Ops :
       /\ rows[o].saved \subseteq rows'[o].saved
       /\ rows[o].status = "success" => rows'[o].status = "success"
       /\ \A s \in rows[o].saved : s.path \notin raced' => dest'[s.path] = dest[s.path]]_vars
=============================================================================
