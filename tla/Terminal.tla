------------------------------ MODULE Terminal ------------------------------
(***************************************************************************)
(* The web terminal: sessions of the server, each a process on a           *)
(* pseudo-terminal with a backlog of its output, and one page that shows   *)
(* one of them, over a websocket or, where websockets do not get through,  *)
(* by polling.                                                             *)
(*                                                                         *)
(* The page asks for output after its cursor, so that a connection that is *)
(* lost loses nothing.  What can go wrong lies between the two ways:       *)
(* answers that come after the page has gone over to something else, input *)
(* that waits, sessions that end while nobody is connected.                *)
(*                                                                         *)
(* Output is counted in chunks, numbered by session as the reader thread   *)
(* numbers them; input is counted in keystrokes.  Sizes, status texts and  *)
(* pings are left out.                                                     *)
(***************************************************************************)
EXTENDS Integers, Sequences, FiniteSets

CONSTANTS
  MaxSessions,  \* bounds the sessions that are created
  MaxChunks,    \* bounds the output of a session
  Backlog,      \* MAX_BUFFER_CHUNKS
  Slots,        \* bounds the HTTP requests under way
  MaxKeys,      \* bounds what the user types
  MaxMoves,     \* bounds what else the user does
  MaxLosses     \* bounds lost connections, failed requests, restarts

ASSUME SizesAssumption ==
  /\ {MaxSessions, MaxChunks, Backlog} \subseteq Nat \ {0}
  /\ {MaxKeys, MaxMoves, MaxLosses} \subseteq Nat

VARIABLES
  term,     \* the sessions and the registry
  born,     \* how many there have been
  doomed,   \* what the cleanup thread has found expired
  sock,     \* the page's websocket with its consumer
  calls,    \* the page's requests to the HTTP interface
  tab,      \* the script's variables
  typed,    \* input that waits in the page
  screen,   \* what the terminal shows: <<session, chunk>>, oldest first
  past,     \* history
  keys, moves, losses

tvars == <<term, born, doomed, sock, calls, tab, typed, screen, past, keys, moves, losses>>

-----------------------------------------------------------------------------
(* Types *)

NoSession == 0

Ids == 1..MaxSessions

Chunks == 0..MaxChunks

\* alive: not closed, its process runs; listed: in the registry.  Idle is at any
\* time what nobody attends to.
Term == [made : Chunks, alive : BOOLEAN, listed : BOOLEAN]

\* Output messages carry the chunks lo..hi of session id.
Message == [type : {"session"}, id : Ids, cursor : Chunks, reused : BOOLEAN]
             \cup [type : {"output"}, id : Ids, lo : 1..MaxChunks, hi : Chunks]
             \cup [type : {"bye"}]

\* want, from: the URL's session_id and cursor; served, sent, loop: the consumer's
\* session, cursor and output loop.
Sock == [state : {"none", "connecting", "accepted", "open", "closed", "failed"},
         want : Ids \cup {NoSession}, from : Chunks, served : Ids \cup {NoSession}, sent : Chunks,
         loop : {"on", "over"}, chan : Seq(Message)]

Free == [kind |-> "free"]

Call == [kind : {"start", "poll", "close"}, step : {"sent", "reading", "answered", "failed"},
         awaited : BOOLEAN, stale : BOOLEAN, id : Ids \cup {NoSession}, cursor : Chunks,
         reused : BOOLEAN, lo : 1..(MaxChunks + 1), alive : BOOLEAN]

\* awaited: the page is still there; stale: it has turned to a websocket since.

\* session, cursor: terminalSessionId, terminalCursor; fb, fcur, polling:
\* fallbackSession, fallbackCursor, fallbackPolling; chain: which of the
\* fallbackInputQueues; timer: reconnectTimer; blank: nothing can be seen.
Page == [session : Ids \cup {NoSession}, cursor : Chunks, replayed : BOOLEAN, ready : BOOLEAN,
         timer : BOOLEAN, blank : BOOLEAN, fb : Ids \cup {NoSession}, fcur : Chunks,
         polling : BOOLEAN, chain : Nat]

\* for: the session the page showed; chain 0: pendingInputQueue.
Typed == [n : 1..MaxKeys, for : Ids \cup {NoSession}, chain : Nat]

\* late: the page has taken a stale answer; strayed: the
\* input of one session has reached another; outlived: so did input that was
\* queued in a fallback before.  evicted: chunks a reader came too late for.
Past == [late : BOOLEAN, strayed : BOOLEAN, outlived : BOOLEAN,
         evicted : SUBSET (Ids \X (1..MaxChunks))]

TTypeOK ==
  /\ term \in [Ids -> Term]
  /\ born \in 0..MaxSessions /\ doomed \subseteq Ids
  /\ sock \in Sock
  /\ calls \in [Slots -> Call \cup {Free}]
  /\ tab \in Page
  /\ typed \subseteq Typed
  /\ screen \in Seq(Ids \X (1..MaxChunks))
  /\ past \in Past
  /\ keys \in 0..MaxKeys /\ moves \in 0..MaxMoves /\ losses \in 0..MaxLosses

-----------------------------------------------------------------------------
(* State functions *)

\* TerminalSession.alive
Alive(s) == s # NoSession /\ term[s].alive

\* Mutant of Oldest: one chunk too many.
OldestOff(s, cursor) ==
  IF cursor + Backlog > term[s].made THEN cursor + 1 ELSE term[s].made - Backlog

\* The oldest chunk that read_since finds after the cursor.
Oldest(s, cursor) ==
  IF cursor + Backlog >= term[s].made THEN cursor + 1 ELSE term[s].made - Backlog + 1

\* What it no longer finds.
Missed(s, cursor) == {<<s, n>> : n \in (cursor + 1)..(Oldest(s, cursor) - 1)}

\* The registry's get finds what is alive, and forgets what is dead.
Found(s) == s # NoSession /\ term[s].listed /\ Alive(s)

AfterGet(s) ==
  IF s = NoSession \/ Found(s) THEN term ELSE [term EXCEPT ![s].listed = FALSE]

Unborn == [made |-> 0, alive |-> FALSE, listed |-> FALSE]

NoSock == [state |-> "none", want |-> NoSession, from |-> 0, served |-> NoSession, sent |-> 0,
           loop |-> "over", chan |-> <<>>]

NewCall(kind, s, cursor) ==
  [kind |-> kind, step |-> "sent", awaited |-> TRUE, stale |-> FALSE, id |-> s, cursor |-> cursor,
   reused |-> FALSE, lo |-> 1, alive |-> FALSE]

\* A request without an answer.
Failed(call) == [NewCall(call.kind, call.id, 0) EXCEPT !.step = "failed", !.stale = call.stale]

\* The page turns elsewhere.
Stale(cs) ==
  [c \in Slots |-> IF cs[c] # Free /\ cs[c].kind # "close" THEN [cs[c] EXCEPT !.stale = TRUE]
                  ELSE cs[c]]

Busy == sock.state \in {"connecting", "accepted", "open"}

FreeSlots == {c \in Slots : calls[c] = Free}

\* A new request.
Send(kind, s) ==
  /\ FreeSlots # {}
  /\ calls' = [calls EXCEPT ![CHOOSE c \in FreeSlots : TRUE] = NewCall(kind, s, 0)]

Chunk(s, lo, hi) == [i \in 1..(hi - lo + 1) |-> <<s, lo + i - 1>>]

Move == moves < MaxMoves /\ moves' = moves + 1 /\ UNCHANGED <<keys, losses>>

Loss == losses < MaxLosses /\ losses' = losses + 1 /\ UNCHANGED <<keys, moves>>

\* A new fallbackInputQueue.  (One in which nothing waits is as good.)
NewChain(chain) == IF \E t \in typed : t.chain = chain THEN chain + 1 ELSE chain

\* stopFallbackPolling
StopFallback(p) ==
  IF p.fb = NoSession THEN p
  ELSE [p EXCEPT !.polling = FALSE, !.fb = NoSession, !.chain = NewChain(@)]

\* shouldReplayFromStart
Replay(p) == p.session # NoSession /\ p.cursor # 0 /\ ~p.replayed /\ p.blank

\* connect, as the page p is.  An older socket is closed, and nothing more is
\* heard of it.
Connect(p) ==
  /\ tab' = [StopFallback(p) EXCEPT !.ready = FALSE, !.timer = FALSE,
                                    !.replayed = @ \/ Replay(p)]
  /\ sock' = [NoSock EXCEPT !.state = "connecting", !.want = p.session,
                            !.from = IF Replay(p) THEN 0 ELSE p.cursor]

\* saveSession
Saved(p, s, cursor) ==
  [p EXCEPT !.session = s, !.cursor = cursor,
            !.replayed = IF p.session \in {NoSession, s} THEN @ ELSE FALSE,
            !.blank = IF p.session \in {NoSession, s} THEN @ ELSE TRUE]

\* Mutant of Flushable: what waits goes to whichever session there is.
FlushableAll(s, reused) == {t \in typed : t.chain = 0}

\* flushPendingInput
Flushable(s, reused) ==
  {t \in typed : t.chain = 0 /\ (t.for = NoSession \/ (reused /\ t.for = s))}

Strays(some, s) == \E t \in some : t.for \notin {NoSession, s}

-----------------------------------------------------------------------------
TInit ==
  /\ term = [s \in Ids |-> Unborn]
  /\ born = 0 /\ doomed = {}
  /\ tab = [session |-> NoSession, cursor |-> 0, replayed |-> FALSE, ready |-> FALSE,
            timer |-> FALSE, blank |-> TRUE, fb |-> NoSession, fcur |-> 0,
            polling |-> FALSE, chain |-> 1]
  /\ sock = [NoSock EXCEPT !.state = "connecting"]
  /\ calls = [c \in Slots |-> Free]
  /\ typed = {} /\ screen = <<>>
  /\ past = [late |-> FALSE, strayed |-> FALSE, outlived |-> FALSE, evicted |-> {}]
  /\ keys = 0 /\ moves = 0 /\ losses = 0

server == <<term, born, doomed>>
client == <<tab, typed, screen>>
limits == <<keys, moves, losses>>

-----------------------------------------------------------------------------
(* Sessions *)

\* _reader_loop takes a chunk.  (One it takes after the process has ended is as if
\* it had taken it before.)
Output(s) ==
  /\ term[s].alive
  /\ term[s].made < MaxChunks
  /\ term' = [term EXCEPT ![s].made = @ + 1]
  /\ UNCHANGED <<born, doomed, sock, calls, client, past, limits>>

\* The process ends, and with it its reader thread.
Exit(s) ==
  /\ term[s].alive
  /\ term' = [term EXCEPT ![s].alive = FALSE]
  /\ UNCHANGED <<born, doomed, sock, calls, client, past, limits>>

\* Somebody pings or polls the session.
Attended(s) ==
  \/ sock.state = "open" /\ sock.served = s
  \/ tab.polling /\ tab.fb = s

\* Mutant of Expires: only what is dead.
ExpiresDead(s) == term[s].listed /\ ~Alive(s)

Expires(s) == term[s].listed /\ (~Alive(s) \/ ~Attended(s))

\* _cleanup_loop: one look at all of them, under the lock; of those that nobody
\* attends to, some have had the idle timeout pass.  (Those that are dead can go at
\* once: they are as good as gone.)  ...
CleanupLook(s) ==
  /\ doomed = {} /\ Expires(s)
  /\ \E some \in SUBSET {t \in Ids : Expires(t)} :
       /\ s \in some
       /\ doomed' = {t \in some : Alive(t)}
       /\ term' = [t \in Ids |-> [term[t] EXCEPT !.listed = @ /\ t \notin some \ doomed']]
  /\ UNCHANGED <<born, sock, calls, client, past, limits>>

\* ... Then one after the other is taken out and closed, also one that somebody
\* has come back to.
CleanupClose(s) ==
  /\ s \in doomed
  /\ doomed' = doomed \ {s}
  /\ term' = IF term[s].listed THEN [term EXCEPT ![s].listed = FALSE, ![s].alive = FALSE]
             ELSE term
  /\ UNCHANGED <<born, sock, calls, client, past, limits>>

\* A client asks for a session and gets it, or else a new one.
Given(want, s, reused) ==
  IF Found(want)
  THEN /\ s = want /\ reused
       /\ term' = AfterGet(want)
       /\ born' = born
  ELSE /\ born < MaxSessions
       /\ s = born + 1 /\ ~reused
       /\ term' = [AfterGet(want) EXCEPT ![s].alive = TRUE, ![s].listed = TRUE]
       /\ born' = born + 1

-----------------------------------------------------------------------------
(* The consumer *)

\* connect and _attach_terminal.
Accept ==
  /\ sock.state = "connecting"
  /\ \E s \in Ids, reused \in BOOLEAN :
       /\ Given(sock.want, s, reused)
       /\ LET cursor == IF reused THEN sock.from ELSE 0 IN
            sock' = [NoSock EXCEPT !.state = "accepted", !.served = s, !.sent = cursor,
                                   !.loop = "on",
                                   !.chan = <<[type |-> "session", id |-> s, cursor |-> cursor,
                                             reused |-> reused]>>]
  /\ UNCHANGED <<doomed, calls, client, past, limits>>

Connected == sock.state \in {"accepted", "open"}

\* _output_loop: its condition is asked after each read.
LoopEnds ==
  /\ Connected /\ sock.loop = "on" /\ ~Alive(sock.served)
  /\ sock' = [sock EXCEPT !.loop = "over"]
  /\ UNCHANGED <<server, calls, client, past, limits>>

NewOutput(s, cursor) ==
  IF term[s].made = cursor THEN <<>>
  ELSE <<[type |-> "output", id |-> s, lo |-> Oldest(s, cursor), hi |-> term[s].made]>>

\* Mutant of LoopRead: the cursor counts the chunks of the message.
LoopReadCount ==
  LET s == sock.served IN
  /\ Connected /\ sock.loop = "on" /\ term[s].made > sock.sent
  /\ sock' = [sock EXCEPT !.sent = @ + term[s].made - Oldest(s, sock.sent) + 1,
                          !.chan = @ \o NewOutput(s, sock.sent)]
  /\ UNCHANGED <<server, calls, client, past, limits>>

\* ... and its body: read_since.  A session that has ended is told.
LoopRead ==
  LET s == sock.served
      new == term[s].made > sock.sent IN
  /\ Connected /\ sock.loop = "on"
  /\ new \/ ~Alive(s)
  /\ sock' = [sock EXCEPT !.loop = IF Alive(s) THEN "on" ELSE "over",
                          !.sent = IF new THEN term[s].made ELSE @,
                          !.chan = @ \o (IF new THEN NewOutput(s, sock.sent) ELSE <<>>)
                                     \o (IF Alive(s) THEN <<>> ELSE <<[type |-> "bye"]>>)]
  /\ past' = [past EXCEPT !.evicted = @ \cup (IF new THEN Missed(s, sock.sent) ELSE {})]
  /\ UNCHANGED <<server, calls, client, limits>>

\* The connection is lost, or _idle_watchdog ends it because a page has been
\* asleep.
Drop ==
  /\ Connected /\ Loss
  /\ sock' = [NoSock EXCEPT !.state = IF sock.state = "open" THEN "closed" ELSE "failed"]
  /\ UNCHANGED <<server, calls, client, past>>

\* Websockets do not get through, here or at the moment.
HandshakeFails ==
  /\ sock.state = "connecting" /\ Loss
  /\ sock' = [NoSock EXCEPT !.state = "failed"]
  /\ UNCHANGED <<server, calls, client, past>>

\* The web container restarts; its sessions go with it.
Restart ==
  /\ born > 0 /\ Loss
  /\ term' = [s \in Ids |-> [term[s] EXCEPT !.alive = FALSE, !.listed = FALSE]]
  /\ doomed' = {}
  /\ sock' = IF ~Connected THEN sock
             ELSE [NoSock EXCEPT !.state = IF sock.state = "open" THEN "closed" ELSE "failed"]
  /\ calls' = [c \in Slots |-> IF calls[c] # Free /\ calls[c].step \in {"sent", "reading"}
                               THEN IF calls[c].awaited THEN Failed(calls[c]) ELSE Free
                               ELSE calls[c]]
  /\ UNCHANGED <<born, client, past>>

-----------------------------------------------------------------------------
(* The HTTP interface *)

Answered(c, call) == calls' = [calls EXCEPT ![c] = IF @.awaited THEN call ELSE Free]

Refused(c) == Answered(c, Failed(calls[c]))

\* TerminalSessionStartView
ServeStart(c) ==
  /\ calls[c] # Free /\ calls[c].kind = "start" /\ calls[c].step = "sent"
  /\ \E s \in Ids, reused \in BOOLEAN :
       /\ Given(calls[c].id, s, reused)
       /\ Answered(c, [calls[c] EXCEPT !.step = "answered", !.id = s, !.reused = reused])
  /\ UNCHANGED <<doomed, sock, client, past, limits>>

\* TerminalSessionPollView: it finds the session, ...
ServePoll(c) ==
  /\ calls[c] # Free /\ calls[c].kind = "poll" /\ calls[c].step = "sent"
  /\ term' = AfterGet(calls[c].id)
  /\ IF Found(calls[c].id) THEN calls' = [calls EXCEPT ![c].step = "reading"] ELSE Refused(c)
  /\ UNCHANGED <<born, doomed, sock, client, past, limits>>

\* ... and read_since waits for output, for the session's end or for its time.
ReadPoll(c) ==
  LET s == calls[c].id
      new == term[s].made > calls[c].cursor IN
  /\ calls[c] # Free /\ calls[c].kind = "poll" /\ calls[c].step = "reading"
  /\ Answered(c, [calls[c] EXCEPT !.step = "answered", !.alive = Alive(s),
                                  !.lo = IF new THEN Oldest(s, calls[c].cursor)
                                         ELSE calls[c].cursor + 1,
                                  !.cursor = IF new THEN term[s].made ELSE @])
  /\ past' = [past EXCEPT !.evicted = @ \cup (IF new THEN Missed(s, calls[c].cursor) ELSE {})]
  /\ UNCHANGED <<server, sock, client, limits>>

\* TerminalSessionCloseView: registry.close
ServeClose(c) ==
  LET s == calls[c].id IN
  /\ calls[c] # Free /\ calls[c].kind = "close" /\ calls[c].step = "sent"
  /\ term' = [term EXCEPT ![s].alive = @ /\ ~Found(s), ![s].listed = FALSE]
  /\ Answered(c, [calls[c] EXCEPT !.step = "answered"])
  /\ UNCHANGED <<born, doomed, sock, client, past, limits>>

\* It is lost on the way.
CallFails(c) ==
  /\ calls[c] # Free /\ calls[c].step \in {"sent", "reading"}
  /\ Loss
  /\ Refused(c)
  /\ UNCHANGED <<server, sock, client, past>>

-----------------------------------------------------------------------------
(* The page: websocket *)

\* Input that waited goes the way sendTerminalInput would send it now, in page p.
Flush(p, s, reused) ==
  LET some == Flushable(s, reused)
      rest == {t \in typed : t.chain # 0} IN
  IF p.ready /\ sock.state = "open"
  THEN /\ typed' = rest
       /\ past' = [past EXCEPT !.strayed = @ \/ Strays(some, sock.served)]
  ELSE /\ typed' = rest \cup {[t EXCEPT !.chain = p.chain] : t \in some}
       /\ UNCHANGED past

Opened ==
  /\ sock.state = "accepted"
  /\ sock' = [sock EXCEPT !.state = "open"]
  /\ UNCHANGED <<server, calls, client, past, limits>>

\* A new session clears the terminal; so does in effect a replay, which is asked
\* for when nothing can be seen.
ReceiveSession ==
  LET m == Head(sock.chan)
      p == [Saved(tab, m.id, m.cursor) EXCEPT !.ready = TRUE] IN
  /\ sock.state = "open" /\ sock.chan # <<>> /\ m.type = "session"
  /\ sock' = [sock EXCEPT !.chan = Tail(@)]
  /\ tab' = p
  /\ screen' = IF tab.session \notin {NoSession, m.id} \/ m.cursor = 0 THEN <<>> ELSE screen
  /\ Flush(p, m.id, m.reused)
  /\ UNCHANGED <<server, calls, limits>>

ReceiveOutput ==
  LET m == Head(sock.chan) IN
  /\ sock.state = "open" /\ sock.chan # <<>> /\ m.type = "output"
  /\ sock' = [sock EXCEPT !.chan = Tail(@)]
  /\ tab' = [tab EXCEPT !.cursor = m.hi, !.replayed = FALSE, !.blank = FALSE]
  /\ screen' = screen \o Chunk(m.id, m.lo, m.hi)
  /\ UNCHANGED <<server, calls, typed, past, limits>>

Ended == sock.state \in {"closed", "failed"} \/ (sock.state = "open" /\ sock.chan # <<>>
                                                 /\ Head(sock.chan).type = "bye")

\* The listener of "close": a connection that never opened makes the page fall
\* back to HTTP, another one is tried again.
SocketClosed ==
  /\ Ended
  /\ sock' = NoSock
  /\ IF sock.state = "failed" /\ tab.fb = NoSession
     THEN /\ Send("start", tab.session)
          /\ tab' = [tab EXCEPT !.ready = FALSE]
     ELSE /\ tab' = [tab EXCEPT !.ready = FALSE, !.timer = @ \/ tab.session # NoSession]
          /\ UNCHANGED calls
  /\ UNCHANGED <<server, typed, screen, past, limits>>

\* scheduleReconnect's timer.
TimerFires ==
  /\ tab.timer
  /\ IF Busy THEN tab' = [tab EXCEPT !.timer = FALSE] /\ UNCHANGED <<sock, calls>>
     ELSE Connect(tab) /\ calls' = Stale(calls)
  /\ UNCHANGED <<server, typed, screen, past, limits>>

-----------------------------------------------------------------------------
(* The page: HTTP *)

Result(c, kind) ==
  calls[c] # Free /\ calls[c].kind = kind /\ calls[c].step \in {"answered", "failed"}

\* startHttpFallback has its answer, and polling begins.
FallbackStarted(c) ==
  LET call == calls[c]
      cursor == IF call.reused THEN tab.cursor ELSE 0
      p == [Saved(tab, call.id, cursor) EXCEPT !.fb = call.id, !.fcur = cursor,
                                               !.polling = TRUE, !.chain = NewChain(@)] IN
  /\ Result(c, "start")
  /\ IF call.step = "failed"
     THEN /\ calls' = [calls EXCEPT ![c] = Free]
          /\ UNCHANGED <<client, past>>
     ELSE /\ calls' = [calls EXCEPT ![c] = NewCall("poll", call.id, cursor)]
          /\ tab' = p
          /\ screen' = IF tab.session \notin {NoSession, call.id} \/ cursor = 0 THEN <<>>
                       ELSE screen
          /\ LET some == Flushable(call.id, call.reused)
                 rest == {t \in typed : t.chain # 0} IN
             IF p.ready /\ sock.state = "open"
             THEN /\ typed' = rest
                  /\ past' = [past EXCEPT !.late = call.stale,
                                          !.strayed = @ \/ Strays(some, sock.served)]
             ELSE /\ typed' = rest \cup {[t EXCEPT !.chain = p.chain] : t \in some}
                  /\ past' = [past EXCEPT !.late = call.stale]
  /\ UNCHANGED <<server, sock, limits>>

\* pollFallback has an answer, whatever has become of its session since.
Polled(c) ==
  LET call == calls[c]
      fcur == IF call.cursor # 0 THEN call.cursor ELSE tab.fcur
      shown == Chunk(call.id, call.lo, call.cursor)
      seen == [tab EXCEPT !.fcur = fcur, !.cursor = fcur,
                          !.replayed = @ /\ shown = <<>>, !.blank = @ /\ shown = <<>>]
      p == IF call.step = "failed"
           THEN [tab EXCEPT !.polling = FALSE, !.fb = NoSession,
                            !.timer = @ \/ tab.session # NoSession]
           ELSE IF call.alive THEN seen
           ELSE [seen EXCEPT !.polling = FALSE, !.fb = NoSession, !.session = NoSession,
                             !.cursor = 0] IN
  /\ Result(c, "poll")
  /\ tab' = p
  /\ screen' = IF call.step = "failed" THEN screen ELSE screen \o shown
  /\ past' = [past EXCEPT !.late = call.stale]
  /\ calls' = [calls EXCEPT ![c] = IF p.polling /\ p.fb # NoSession
                                   THEN NewCall("poll", p.fb, p.fcur) ELSE Free]
  /\ UNCHANGED <<server, sock, typed, limits>>

\* forceNewTerminal goes on, whatever became of its request.
CloseReturns(c) ==
  /\ Result(c, "close")
  /\ calls' = Stale([calls EXCEPT ![c] = Free])
  /\ Connect(tab)
  /\ UNCHANGED <<server, typed, screen, past, limits>>

\* queueFallbackInput: the next in its queue is posted to what is the fallback's
\* session by then.
PostInput(t) ==
  /\ t \in typed /\ t.chain # 0
  /\ \A u \in typed : u.chain = t.chain => t.n <= u.n
  /\ typed' = typed \ {t}
  /\ term' = AfterGet(tab.fb)
  /\ past' = IF Found(tab.fb) /\ Strays({t}, tab.fb)
             THEN IF t.chain = tab.chain THEN [past EXCEPT !.strayed = TRUE]
                  ELSE [past EXCEPT !.outlived = TRUE]
             ELSE past
  /\ UNCHANGED <<born, doomed, sock, calls, tab, screen, limits>>

\* trimPendingInput: it has waited too long.
Trim(t) ==
  /\ t \in typed /\ t.chain = 0
  /\ \A u \in typed : u.chain = 0 => t.n <= u.n
  /\ typed' = typed \ {t}
  /\ UNCHANGED <<server, sock, calls, tab, screen, past, limits>>

-----------------------------------------------------------------------------
(* The user *)

\* sendTerminalInput
Type ==
  LET waiting(chain) == typed \cup {[n |-> keys + 1, for |-> tab.session, chain |-> chain]} IN
  /\ keys < MaxKeys /\ keys' = keys + 1 /\ UNCHANGED <<moves, losses>>
  /\ IF tab.ready /\ sock.state = "open"
     THEN /\ past' = [past EXCEPT !.strayed = @ \/ tab.session \notin {NoSession, sock.served}]
          /\ UNCHANGED <<typed, tab, sock, calls>>
     ELSE /\ UNCHANGED past
          /\ IF tab.fb # NoSession
             THEN typed' = waiting(tab.chain) /\ UNCHANGED <<tab, sock, calls>>
             ELSE /\ Busy \/ tab.session # NoSession
                  /\ typed' = waiting(0)
                  /\ IF Busy THEN UNCHANGED <<tab, sock, calls>>
                     ELSE Connect(tab) /\ calls' = Stale(calls)
  /\ UNCHANGED <<server, screen>>

\* The button, a page that wakes up, or checkConnectionHealth.
Reconnect ==
  /\ Move
  /\ Connect(tab) /\ calls' = Stale(calls)
  /\ UNCHANGED <<server, typed, screen, past>>

\* forceNewTerminal
ForceNew ==
  LET p == [StopFallback(tab) EXCEPT !.ready = FALSE, !.timer = FALSE, !.session = NoSession,
                                     !.cursor = 0, !.blank = TRUE] IN
  /\ Move
  /\ typed' = {t \in typed : t.chain # 0}
  /\ screen' = <<>>
  /\ IF tab.session = NoSession
     THEN Connect(p) /\ calls' = Stale(calls)
     ELSE /\ tab' = p
          /\ sock' = NoSock
          /\ FreeSlots # {}
          /\ calls' = [Stale(calls) EXCEPT ![CHOOSE c \in FreeSlots : TRUE] =
                         NewCall("close", tab.session, 0)]
  /\ UNCHANGED <<server, past>>

\* Nothing can be seen any more: the button, or the program clears its screen.
Clear ==
  /\ Move
  /\ tab' = [tab EXCEPT !.blank = TRUE]
  /\ UNCHANGED <<server, sock, calls, typed, screen, past>>

\* The page is loaded again; it remembers the session only.
Reload ==
  /\ Move
  /\ tab' = [tab EXCEPT !.cursor = 0, !.replayed = FALSE, !.ready = FALSE, !.timer = FALSE,
                        !.blank = TRUE, !.fb = NoSession, !.fcur = 0, !.polling = FALSE]
  /\ sock' = [NoSock EXCEPT !.state = "connecting", !.want = tab.session]
  /\ screen' = <<>>
  /\ typed' = {}
  /\ calls' = [c \in Slots |-> IF calls[c] = Free \/ calls[c].step \in {"answered", "failed"}
                               THEN Free ELSE [calls[c] EXCEPT !.awaited = FALSE]]
  /\ UNCHANGED <<server, past>>

-----------------------------------------------------------------------------
Cleanup(s) == CleanupLook(s) \/ CleanupClose(s)

Consumer == Accept \/ LoopEnds \/ LoopRead

Serve(c) == ServeStart(c) \/ ServePoll(c) \/ ReadPoll(c) \/ ServeClose(c)

Script ==
  \/ Opened \/ ReceiveSession \/ ReceiveOutput \/ SocketClosed \/ TimerFires
  \/ \E c \in Slots : FallbackStarted(c) \/ Polled(c) \/ CloseReturns(c)
  \/ \E t \in typed : PostInput(t)

User == Type \/ Reconnect \/ ForceNew \/ Clear \/ Reload

Step ==
  \/ \E s \in Ids : Output(s) \/ Exit(s) \/ Cleanup(s)
  \/ Consumer \/ Script \/ User
  \/ Drop \/ HandshakeFails \/ Restart
  \/ \E c \in Slots : Serve(c) \/ CallFails(c)
  \/ \E t \in typed : Trim(t)

\* Behaviours are followed up to the first answer that comes late, it included.
TNext == ~past.late /\ Step

TSpec == TInit /\ [][TNext]_tvars

\* Threads and event loops go on, time passes.
TFairSpec ==
  /\ TSpec
  /\ \A s \in Ids : WF_tvars(CleanupLook(s)) /\ WF_tvars(CleanupClose(s))

-----------------------------------------------------------------------------
(* Properties *)

\* A page that took no late answers shows the output of its session in order,
\* each chunk once, up to the cursor it will ask after: nothing but what the
\* backlog had dropped is missing, whatever connections were lost on the way.
ShownUpToCursor ==
  ~past.late =>
    /\ \A i, j \in DOMAIN screen :
         i < j /\ screen[i][1] = tab.session /\ screen[j][1] = tab.session
           => screen[i][2] < screen[j][2]
    /\ \A n \in 1..tab.cursor :
         tab.session # NoSession /\ <<tab.session, n>> \notin past.evicted
           => \E i \in DOMAIN screen : screen[i] = <<tab.session, n>>
    /\ \A i \in DOMAIN screen : screen[i][1] = tab.session => screen[i][2] <= tab.cursor

\* As long as the page stays with a session, its output goes on at the end and the
\* cursor forward, or everything is cleared and shown again from the start.
OutputGoesOn ==
  [][~past'.late /\ tab.session # NoSession /\ tab'.session = tab.session =>
       \/ screen' = <<>> /\ tab'.cursor = 0
       \/ /\ tab.cursor <= tab'.cursor
          /\ DOMAIN screen \subseteq DOMAIN screen'
          /\ \A i \in DOMAIN screen : screen'[i] = screen[i]]_tvars

\* What is typed for one session does not get into another, unless it was still
\* queued when its fallback was given up, or after a late answer.
InputReachesItsSession == past.strayed => past.late

\* A session that no page attends to, or whose process has ended, does not stay.
Reaped == \A s \in Ids : []<>(~term[s].listed \/ (Alive(s) /\ Attended(s)) \/ past.late)

-----------------------------------------------------------------------------
(* What the code says of itself and does not keep: counterexamples in README. *)

\* The page is told when its session has ended.
EndIsTold == sock.state = "open" /\ sock.loop = "over" => sock.chan # <<>>
=============================================================================
