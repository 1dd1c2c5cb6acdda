----------------------------- MODULE PagesProofs -----------------------------
(***************************************************************************)
(* What holds of the pages that show something and act on it: the web      *)
(* terminal with any number of sessions, requests and chunks of output,    *)
(* and process control with any number of pids, processes, containers and  *)
(* requests under way together.                                            *)
(***************************************************************************)
EXTENDS Processes, Terminal, FiniteSetTheorems, TLAPS

-----------------------------------------------------------------------------
(* The web terminal: the inductive invariant *)

\* A request whose answer the page will take, and take for what it asked.
WaitedFor(c) == calls[c] # Free /\ calls[c].kind # "close" /\ calls[c].awaited /\ ~calls[c].stale

\* The chunks lo..hi of session id follow those up to a cursor: what lies between is
\* no longer to be had and was missed.
Continues(missed, id, cursor, lo, hi) ==
  cursor < lo /\ cursor <= hi /\ \A n \in (cursor + 1)..(lo - 1) : <<id, n>> \in missed

\* What is in a request, whether or not somebody waits for it.
WellFilled(call) ==
  /\ call.step \in {"answered", "failed"} => call.awaited
  /\ call.kind \in {"poll", "close"} \/ call.step = "answered" => call.id # NoSession
  /\ call.lo <= call.cursor + 1

Filled == \A c \in Slots : calls[c] # Free => WellFilled(calls[c])

\* What page p is waiting for.
RightlyAsked(call, p, missed) ==
  /\ call.kind = "start" =>
       (call.step = "sent" \/ (call.step = "answered" /\ call.reused) => call.id = p.session)
  /\ call.kind = "poll" =>
       /\ call.id = p.fb
       /\ call.step \in {"sent", "reading"} => call.cursor = p.fcur
       /\ call.step = "answered" => Continues(missed, call.id, p.fcur, call.lo, call.cursor)

\* The page waits for one answer at a time, and only without a websocket.
Asking ==
  \A c \in Slots : WaitedFor(c) =>
    /\ sock.state = "none"
    /\ \A d \in Slots : WaitedFor(d) => d = c
    /\ RightlyAsked(calls[c], tab, past.evicted)

\* The fallback and the websocket exclude each other, and each is for the page's
\* session, from where the page is or from the start.
Connection ==
  /\ tab.ready => sock.state \in {"open", "closed"}
  /\ tab.fb # NoSession => sock.state = "none" /\ tab.session = tab.fb /\ tab.cursor = tab.fcur
  /\ tab.session = NoSession => tab.cursor = 0
  /\ sock.state = "connecting" => sock.want = tab.session /\ sock.from \in {0, tab.cursor}

\* The session has not been told yet.
Greeting == sock.chan # <<>> /\ sock.chan[1].type = "session"

\* The page's cursor after the i-th message that is on its way.
Reach(i) ==
  IF i = 0 THEN tab.cursor
  ELSE IF sock.chan[i].type = "output" THEN sock.chan[i].hi
  ELSE sock.chan[i].cursor

\* What is on its way continues what the page has, message by message, up to where the
\* consumer is.
Stream ==
  Connected =>
    /\ sock.served # NoSession
    /\ sock.state = "accepted" => Greeting
    /\ Greeting => /\ ~tab.ready /\ sock.chan[1].id = sock.served
                   /\ sock.chan[1].cursor # 0 =>
                        tab.session = sock.served /\ tab.cursor = sock.chan[1].cursor
    /\ ~Greeting => tab.session = sock.served
    /\ \A i \in DOMAIN sock.chan :
         /\ sock.chan[i].type = "session" => i = 1
         /\ sock.chan[i].type = "bye" => i = Len(sock.chan) /\ sock.loop = "over"
         /\ sock.chan[i].type = "output" =>
              /\ sock.chan[i].id = sock.served /\ sock.chan[i].lo <= sock.chan[i].hi
              /\ Continues(past.evicted, sock.served, Reach(i - 1), sock.chan[i].lo, sock.chan[i].hi)
    /\ sock.loop = "on" => sock.sent = Reach(Len(sock.chan))

\* What waits in the fallback's own queue was typed for its session.
Queue ==
  /\ tab.chain >= 1
  /\ \A t \in typed :
       /\ t.chain <= tab.chain
       /\ tab.fb # NoSession /\ t.chain = tab.chain => t.for \in {NoSession, tab.fb}

\* All of it ends with a late answer, as the behaviours do.
TInv == Asking /\ Connection /\ Stream /\ Queue /\ ShownUpToCursor /\ InputReachesItsSession

TIInv == TTypeOK /\ Filled /\ (~past.late => TInv)

-----------------------------------------------------------------------------
(* The web terminal: types *)

\* Sizes and sessions.
LEMMA Sizes ==
  /\ MaxSessions \in Nat \ {0} /\ MaxChunks \in Nat \ {0} /\ Backlog \in Nat \ {0}
  /\ MaxKeys \in Nat /\ MaxMoves \in Nat /\ MaxLosses \in Nat
  /\ \A s \in Ids : s \in Nat /\ s # NoSession
  /\ \A n \in Chunks : n \in Nat /\ n <= MaxChunks
  /\ NoSession \notin Ids /\ 0 \in Chunks
  BY SizesAssumption DEF Ids, Chunks, NoSession

\* A request is not a free slot.
LEMMA CallIsNotFree ==
  ASSUME NEW call \in Call
  PROVE  call # Free
<1>1. call.kind # "free"
  BY DEF Call
<1>2. QED
  BY <1>1 DEF Free

\* What a slot holds.
LEMMA Slot ==
  ASSUME calls \in [Slots -> Call \cup {Free}], NEW c \in Slots
  PROVE  /\ calls[c] \in Call <=> calls[c] # Free
         /\ calls[c] # Free =>
              /\ calls[c].id \in Ids \cup {NoSession} /\ calls[c].cursor \in Chunks
              /\ calls[c].lo \in 1..(MaxChunks + 1)
              /\ calls[c].reused \in BOOLEAN /\ calls[c].alive \in BOOLEAN
              /\ calls[c].awaited \in BOOLEAN /\ calls[c].stale \in BOOLEAN
              /\ calls[c].kind \in {"start", "poll", "close"}
              /\ calls[c].step \in {"sent", "reading", "answered", "failed"}
<1>1. calls[c] \in Call <=> calls[c] # Free
  BY CallIsNotFree
<1>2. QED
  BY <1>1 DEF Call

\* A new request.
LEMMA NewCallType ==
  ASSUME NEW kind \in {"start", "poll", "close"}, NEW s \in Ids \cup {NoSession}, NEW n \in Chunks
  PROVE  NewCall(kind, s, n) \in Call
  BY Sizes DEF NewCall, Call

\* A request that has failed.
LEMMA FailedType ==
  ASSUME NEW call \in Call
  PROVE  /\ Failed(call) \in Call
         /\ Failed(call).kind = call.kind /\ Failed(call).stale = call.stale
         /\ Failed(call).step = "failed" /\ Failed(call).awaited
         /\ Failed(call).id = call.id /\ Failed(call).cursor = 0 /\ Failed(call).lo = 1
<1>1. /\ call.kind \in {"start", "poll", "close"} /\ call.stale \in BOOLEAN
      /\ call.id \in Ids \cup {NoSession}
  BY DEF Call
<1>2. /\ NewCall(call.kind, call.id, 0) \in Call
      /\ NewCall(call.kind, call.id, 0).kind = call.kind
      /\ NewCall(call.kind, call.id, 0).awaited
      /\ NewCall(call.kind, call.id, 0).id = call.id
      /\ NewCall(call.kind, call.id, 0).cursor = 0 /\ NewCall(call.kind, call.id, 0).lo = 1
  BY <1>1, Sizes, NewCallType DEF NewCall
<1>3. QED
  BY <1>1, <1>2 DEF Failed, Call

\* A message by its type.
LEMMA MessageType ==
  ASSUME NEW m \in Message
  PROVE  /\ m.type \in {"session", "output", "bye"}
         /\ m.type = "session" => m.id \in Ids /\ m.cursor \in Chunks /\ m.reused \in BOOLEAN
         /\ m.type = "output" => m.id \in Ids /\ m.lo \in 1..MaxChunks /\ m.hi \in Chunks
  BY DEF Message

\* Messages that are sent.
LEMMA MessagesSent ==
  /\ \A s \in Ids, n \in Chunks, b \in BOOLEAN :
       [type |-> "session", id |-> s, cursor |-> n, reused |-> b] \in Message
  /\ \A s \in Ids, n \in 1..MaxChunks, k \in Chunks :
       [type |-> "output", id |-> s, lo |-> n, hi |-> k] \in Message
  /\ [type |-> "bye"] \in Message
  BY DEF Message

\* The page's websocket before it is connected.
LEMMA NoSockType ==
  /\ NoSock \in Sock /\ NoSock.state = "none" /\ NoSock.chan = <<>>
  /\ \A x \in {"none", "connecting", "closed", "failed"} :
       [NoSock EXCEPT !.state = x] \in Sock /\ [NoSock EXCEPT !.state = x].state = x
<1>1. <<>> \in Seq(Message) /\ NoSession \in Ids \cup {NoSession} /\ 0 \in Chunks
  BY Sizes
<1>2. NoSock \in Sock /\ NoSock.state = "none" /\ NoSock.chan = <<>>
  BY <1>1 DEF NoSock, Sock
<1>3. ASSUME NEW x \in {"none", "connecting", "closed", "failed"}
      PROVE  [NoSock EXCEPT !.state = x] \in Sock /\ [NoSock EXCEPT !.state = x].state = x
  BY <1>2 DEF Sock
<1>4. QED
  BY <1>2, <1>3

\* Parts of the state by type.
LEMMA Parts ==
  ASSUME TTypeOK
  PROVE  /\ sock.state \in {"none", "connecting", "accepted", "open", "closed", "failed"}
         /\ sock.want \in Ids \cup {NoSession} /\ sock.from \in Chunks
         /\ sock.served \in Ids \cup {NoSession} /\ sock.sent \in Chunks
         /\ sock.loop \in {"on", "over"} /\ sock.chan \in Seq(Message)
         /\ tab.session \in Ids \cup {NoSession} /\ tab.cursor \in Chunks
         /\ tab.fb \in Ids \cup {NoSession} /\ tab.fcur \in Chunks /\ tab.chain \in Nat
         /\ tab.replayed \in BOOLEAN /\ tab.ready \in BOOLEAN /\ tab.timer \in BOOLEAN
         /\ tab.blank \in BOOLEAN /\ tab.polling \in BOOLEAN
         /\ past.evicted \subseteq Ids \X (1..MaxChunks)
         /\ past.late \in BOOLEAN /\ past.strayed \in BOOLEAN /\ past.outlived \in BOOLEAN
         /\ \A s \in Ids : /\ term[s].made \in Chunks
                           /\ term[s].alive \in BOOLEAN /\ term[s].listed \in BOOLEAN
  BY DEF TTypeOK, Sock, Page, Past, Term

\* A chunk of the screen.
LEMMA ChunkType ==
  ASSUME NEW s \in Ids, NEW lo \in 1..(MaxChunks + 1), NEW hi \in Chunks, lo <= hi + 1
  PROVE  /\ Chunk(s, lo, hi) \in Seq(Ids \X (1..MaxChunks))
         /\ Len(Chunk(s, lo, hi)) = hi - lo + 1
         /\ \A i \in 1..(hi - lo + 1) : Chunk(s, lo, hi)[i] = <<s, lo + i - 1>>
<1>1. hi - lo + 1 \in Nat
  BY Sizes
<1>2. \A i \in 1..(hi - lo + 1) : <<s, lo + i - 1>> \in Ids \X (1..MaxChunks)
  BY Sizes
<1>3. Chunk(s, lo, hi) \in [1..(hi - lo + 1) -> Ids \X (1..MaxChunks)]
  BY <1>2 DEF Chunk
<1>4. Chunk(s, lo, hi) \in Seq(Ids \X (1..MaxChunks)) /\ Len(Chunk(s, lo, hi)) = hi - lo + 1
  BY <1>1, <1>3
<1>5. \A i \in 1..(hi - lo + 1) : Chunk(s, lo, hi)[i] = <<s, lo + i - 1>>
  BY DEF Chunk
<1>6. QED
  BY <1>4, <1>5

\* A session that is found is one.
LEMMA GetType ==
  ASSUME TTypeOK, NEW s \in Ids \cup {NoSession}
  PROVE  /\ AfterGet(s) \in [Ids -> Term]
         /\ Found(s) => s \in Ids
<1>1. s # NoSession => s \in Ids
  OBVIOUS
<1>2. term \in [Ids -> Term]
  BY DEF TTypeOK
<1>3. s \in Ids => [term EXCEPT ![s].listed = FALSE] \in [Ids -> Term]
  BY <1>2 DEF Term
<1>4. QED
  BY <1>1, <1>2, <1>3 DEF AfterGet, Found

\* The session that a client is given.
LEMMA GivenType ==
  ASSUME TTypeOK, NEW want \in Ids \cup {NoSession}, NEW s \in Ids, NEW reused \in BOOLEAN,
         Given(want, s, reused)
  PROVE  /\ term' \in [Ids -> Term] /\ born' \in 0..MaxSessions
         /\ reused => s = want
<1>1. AfterGet(want) \in [Ids -> Term]
  BY GetType
<1> DEFINE t == AfterGet(want)
           u == [t EXCEPT ![s].alive = TRUE, ![s].listed = TRUE]
<1>2. (s = want /\ reused /\ term' = t /\ born' = born)
      \/ (~reused /\ born < MaxSessions /\ born' = born + 1 /\ term' = u)
  BY DEF Given
<1> HIDE DEF t
<1>3. t \in [Ids -> Term]
  BY <1>1 DEF t
<1>4. u \in [Ids -> Term]
  BY <1>3 DEF Term
<1> HIDE DEF u
<1>5. born \in 0..MaxSessions
  BY DEF TTypeOK
<1>6. QED
  BY <1>2, <1>3, <1>4, <1>5, Sizes

\* What read_since returns starts after the cursor, and what is left out is noted.
LEMMA ReadSince ==
  ASSUME TTypeOK, NEW s \in Ids, NEW cursor \in Chunks, term[s].made > cursor
  PROVE  /\ Oldest(s, cursor) \in 1..MaxChunks
         /\ cursor < Oldest(s, cursor) /\ Oldest(s, cursor) <= term[s].made
         /\ \A n \in (cursor + 1)..(Oldest(s, cursor) - 1) : <<s, n>> \in Missed(s, cursor)
         /\ Missed(s, cursor) \subseteq Ids \X (1..MaxChunks)
<1>1. cursor \in Nat /\ term[s].made \in Nat /\ term[s].made <= MaxChunks
  BY Parts, Sizes
<1>2. /\ Oldest(s, cursor) \in Nat /\ Oldest(s, cursor) <= MaxChunks
      /\ cursor < Oldest(s, cursor) /\ Oldest(s, cursor) <= term[s].made
  BY <1>1, Sizes DEF Oldest
<1>3. QED
  BY <1>1, <1>2, Sizes DEF Missed

-----------------------------------------------------------------------------
(* The web terminal: what a step leaves alone *)

\* Requests, of which none was made or answered.
LEMMA AskingKept ==
  ASSUME Asking, calls' = calls,
         sock.state = "none" => sock'.state = "none",
         tab'.session = tab.session, tab'.fb = tab.fb, tab'.fcur = tab.fcur,
         past.evicted \subseteq past'.evicted
  PROVE  Asking'
<1>1. \A c \in Slots : WaitedFor(c)' = WaitedFor(c)
  BY DEF WaitedFor
<1>2. \A c \in Slots : RightlyAsked(calls[c], tab, past.evicted)
                         => RightlyAsked(calls[c], tab', past'.evicted)
  BY DEF RightlyAsked, Continues
<1>3. QED
  BY <1>1, <1>2 DEF Asking

\* Nobody is waited for.
LEMMA NothingAsked ==
  ASSUME \A c \in Slots : ~WaitedFor(c)'
  PROVE  Asking'
  BY DEF Asking

\* What is on its way.
LEMMA StreamKept ==
  ASSUME Stream, sock'.state = sock.state, sock'.served = sock.served, sock'.sent = sock.sent,
         sock'.loop \in {sock.loop, "over"}, sock'.chan = sock.chan,
         tab'.session = tab.session, tab'.cursor = tab.cursor, tab'.ready => tab.ready,
         past.evicted \subseteq past'.evicted
  PROVE  Stream'
<1>1. Connected' = Connected /\ Greeting' = Greeting
  BY DEF Connected, Greeting
<1>2. \A i : Reach(i)' = Reach(i)
  BY DEF Reach
<1>3. \A s, n, lo, hi :
        Continues(past.evicted, s, n, lo, hi) => Continues(past'.evicted, s, n, lo, hi)
  BY DEF Continues
<1>4. QED
  BY <1>1, <1>2, <1>3 DEF Stream

\* Nothing is on its way without a connection.
LEMMA NoStream ==
  ASSUME sock'.state \notin {"accepted", "open"}
  PROVE  Stream'
  BY DEF Stream, Connected

\* Input that waits.
LEMMA QueueKept ==
  ASSUME Queue, typed' \subseteq typed, tab'.chain = tab.chain,
         tab'.fb \in {tab.fb, NoSession}
  PROVE  Queue'
  BY DEF Queue

\* What is shown.
LEMMA ShownKept ==
  ASSUME ShownUpToCursor, ~past.late, screen' = screen,
         tab'.session = tab.session, tab'.cursor = tab.cursor,
         past.evicted \subseteq past'.evicted
  PROVE  ShownUpToCursor'
  BY DEF ShownUpToCursor

\* An empty screen at the start of a session.
LEMMA ShownNothing ==
  ASSUME screen' = <<>>, tab'.cursor = 0
  PROVE  ShownUpToCursor'
  BY DEF ShownUpToCursor

\* No session is shown.
LEMMA ShowsNobody ==
  ASSUME TTypeOK', tab'.session = NoSession, tab'.cursor = 0
  PROVE  ShownUpToCursor'
<1>1. screen' \in Seq(Ids \X (1..MaxChunks)) /\ NoSession \notin Ids
  BY Sizes DEF TTypeOK
<1>2. \A i \in DOMAIN screen' : screen'[i][1] # NoSession
  BY <1>1
<1>3. QED
  BY <1>2 DEF ShownUpToCursor

\* A step that changes no more than the sessions, what the user may still do and what
\* the consumer or the page has put aside.
LEMMA OnlySessions ==
  ASSUME TIInv, ~past.late, UNCHANGED <<sock, calls, tab, typed, screen, past>>,
         term' \in [Ids -> Term], born' \in 0..MaxSessions, doomed' \subseteq Ids,
         keys' \in 0..MaxKeys, moves' \in 0..MaxMoves, losses' \in 0..MaxLosses
  PROVE  TIInv'
<1>1. TTypeOK'
  BY DEF TIInv, TTypeOK
<1>2. Filled'
  BY DEF TIInv, Filled
<1>3. TInv
  BY DEF TIInv
<1>4. Asking' /\ Stream' /\ Queue' /\ ShownUpToCursor'
  BY <1>3, AskingKept, StreamKept, QueueKept, ShownKept DEF TInv
<1>5. Connection' /\ InputReachesItsSession'
  BY <1>3 DEF TInv, Connection, InputReachesItsSession
<1>6. QED
  BY <1>1, <1>2, <1>4, <1>5 DEF TIInv, TInv

LEMMA KeepsSession ==
  ASSUME TIInv, ~past.late, NEW s \in Ids, Output(s) \/ Exit(s) \/ Cleanup(s)
  PROVE  TIInv'
<1>1. term \in [Ids -> Term] /\ born \in 0..MaxSessions /\ doomed \subseteq Ids
  BY DEF TIInv, TTypeOK
<1>2. term[s].made \in Nat /\ MaxChunks \in Nat
  BY <1>1, Sizes DEF Term
<1>3. term' \in [Ids -> Term]
  <2>1. CASE Output(s)
    <3>1. term[s].made + 1 \in Chunks
      BY <1>2, <2>1 DEF Output, Chunks
    <3>2. QED
      BY <1>1, <2>1, <3>1 DEF Output, Term
  <2>2. CASE Exit(s)
    BY <1>1, <2>2 DEF Exit, Term
  <2>3. CASE CleanupLook(s)
    <3>1. PICK some \in SUBSET {t \in Ids : Expires(t)} :
            term' = [t \in Ids |-> [term[t] EXCEPT !.listed = @ /\ t \notin some \ doomed']]
      BY <2>3 DEF CleanupLook
    <3>2. \A t \in Ids : [term[t] EXCEPT !.listed = @ /\ t \notin some \ doomed'] \in Term
      BY <1>1 DEF Term
    <3>3. QED
      BY <3>1, <3>2
  <2>4. CASE CleanupClose(s)
    BY <1>1, <2>4 DEF CleanupClose, Term
  <2>5. QED
    BY <2>1, <2>2, <2>3, <2>4 DEF Cleanup
<1>4. /\ UNCHANGED <<born, sock, calls, tab, typed, screen, past, keys, moves, losses>>
      /\ doomed' \subseteq Ids
  BY <1>1 DEF Output, Exit, Cleanup, CleanupLook, CleanupClose, client, limits
<1>5. QED
  BY <1>1, <1>3, <1>4, OnlySessions DEF TIInv, TTypeOK

\* A step of the user or a fault, and the steps that are neither.
LEMMA Counts ==
  ASSUME TTypeOK, Move \/ Loss \/ UNCHANGED limits
  PROVE  keys' \in 0..MaxKeys /\ moves' \in 0..MaxMoves /\ losses' \in 0..MaxLosses
<1>1. keys \in 0..MaxKeys /\ moves \in 0..MaxMoves /\ losses \in 0..MaxLosses
  BY DEF TTypeOK
<1>2. QED
  BY <1>1, Sizes DEF Move, Loss, limits

-----------------------------------------------------------------------------
(* The web terminal: the consumer *)

\* What happens to the websocket alone.
LEMMA OnlySocket ==
  ASSUME TIInv, ~past.late, UNCHANGED <<calls, tab, typed, screen>>,
         term' \in [Ids -> Term], born' \in 0..MaxSessions, doomed' \subseteq Ids,
         keys' \in 0..MaxKeys, moves' \in 0..MaxMoves, losses' \in 0..MaxLosses,
         sock' \in Sock, past' \in Past,
         past'.late = past.late, past'.strayed = past.strayed, past.evicted \subseteq past'.evicted,
         sock.state = "none" => sock'.state = "none",
         tab.ready => sock'.state \in {"open", "closed"},
         sock'.state = "connecting" => sock' = sock,
         Stream'
  PROVE  TIInv'
<1>1. TTypeOK'
  BY DEF TIInv, TTypeOK
<1>2. Filled'
  BY DEF TIInv, Filled
<1>3. TInv
  BY DEF TIInv
<1>4. Asking' /\ Queue' /\ ShownUpToCursor'
  BY <1>3, AskingKept, QueueKept, ShownKept DEF TInv
<1>5. Connection' /\ InputReachesItsSession'
  BY <1>3 DEF TInv, Connection, InputReachesItsSession
<1>6. QED
  BY <1>1, <1>2, <1>4, <1>5 DEF TIInv, TInv

\* A session that was asked for is taken up where the page is, another one from its start.
LEMMA KeepsAccept ==
  ASSUME TIInv, ~past.late, Accept
  PROVE  TIInv'
<1>1. TTypeOK /\ Connection /\ sock.state = "connecting"
  BY DEF TIInv, TInv, Accept
<1>2. PICK s \in Ids, reused \in BOOLEAN :
        /\ Given(sock.want, s, reused)
        /\ LET cursor == IF reused THEN sock.from ELSE 0 IN
             sock' = [NoSock EXCEPT !.state = "accepted", !.served = s, !.sent = cursor,
                                    !.loop = "on",
                                    !.chan = <<[type |-> "session", id |-> s, cursor |-> cursor,
                                              reused |-> reused]>>]
  BY DEF Accept
<1>3. /\ term' \in [Ids -> Term] /\ born' \in 0..MaxSessions
      /\ reused => s = sock.want
  BY <1>1, <1>2, GivenType, Parts
<1> DEFINE cursor == IF reused THEN sock.from ELSE 0
           m == [type |-> "session", id |-> s, cursor |-> cursor, reused |-> reused]
<1>4. cursor \in Chunks /\ (cursor # 0 => cursor = tab.cursor /\ s = tab.session)
  BY <1>1, <1>3, Parts, Sizes DEF Connection
<1>5. sock' = [NoSock EXCEPT !.state = "accepted", !.served = s, !.sent = cursor,
                             !.loop = "on", !.chan = <<m>>]
  BY <1>2
<1> HIDE DEF cursor
<1>6. m \in Message /\ m.type = "session" /\ m.id = s /\ m.cursor = cursor
  BY <1>4, MessagesSent
<1> HIDE DEF m
<1>7. <<m>> \in Seq(Message) /\ Len(<<m>>) = 1 /\ <<m>>[1] = m /\ <<m>> # <<>>
  BY <1>6
<1>8. /\ sock' \in Sock /\ sock'.state = "accepted" /\ sock'.served = s /\ sock'.sent = cursor
      /\ sock'.loop = "on" /\ sock'.chan = <<m>>
  BY <1>4, <1>5, <1>7, NoSockType DEF Sock
<1>9. ~tab.ready
  BY <1>1 DEF Connection
<1>10. UNCHANGED <<doomed, calls, tab, typed, screen, past, keys, moves, losses>>
  BY DEF Accept, client, limits
<1>11. Stream'
  <2>1. Greeting' /\ Reach(1)' = cursor /\ DOMAIN sock'.chan = {1} /\ Len(sock'.chan) = 1
    BY <1>6, <1>7, <1>8 DEF Greeting, Reach
  <2>2. s # NoSession
    BY Sizes
  <2>3. QED
    BY <1>4, <1>6, <1>7, <1>8, <1>9, <1>10, <2>1, <2>2 DEF Stream
<1>12. past \in Past /\ doomed \subseteq Ids
  BY <1>1 DEF TTypeOK
<1>13. keys \in 0..MaxKeys /\ moves \in 0..MaxMoves /\ losses \in 0..MaxLosses
  BY <1>1 DEF TTypeOK
<1>14. QED
  BY <1>1, <1>3, <1>8, <1>9, <1>10, <1>11, <1>12, <1>13, OnlySocket

LEMMA KeepsLoopEnds ==
  ASSUME TIInv, ~past.late, LoopEnds \/ Opened
  PROVE  TIInv'
<1>1. TTypeOK /\ Connection /\ Stream /\ sock \in Sock
  BY DEF TIInv, TInv, TTypeOK
<1>2. UNCHANGED <<term, born, doomed, calls, tab, typed, screen, past, keys, moves, losses>>
  BY DEF LoopEnds, Opened, client, limits, server
<1>3. CASE LoopEnds
  <2>1. sock' = [sock EXCEPT !.loop = "over"] /\ sock.state \in {"accepted", "open"}
    BY <1>3 DEF LoopEnds, Connected
  <2>2. /\ sock' \in Sock /\ sock'.state = sock.state /\ sock'.served = sock.served
        /\ sock'.sent = sock.sent /\ sock'.loop = "over" /\ sock'.chan = sock.chan
    BY <1>1, <2>1 DEF Sock
  <2>3. Stream'
    BY <1>1, <1>2, <2>2, StreamKept
  <2>4. QED
    BY <1>1, <1>2, <2>1, <2>2, <2>3, OnlySocket DEF TTypeOK, Connection
<1>4. CASE Opened
  <2>1. sock' = [sock EXCEPT !.state = "open"] /\ sock.state = "accepted"
    BY <1>4 DEF Opened
  <2>2. /\ sock' \in Sock /\ sock'.state = "open" /\ sock'.served = sock.served
        /\ sock'.sent = sock.sent /\ sock'.loop = sock.loop /\ sock'.chan = sock.chan
    BY <1>1, <2>1 DEF Sock
  <2>3. Stream'
    <3>1. Connected /\ Connected' /\ Greeting' = Greeting
      BY <2>1, <2>2 DEF Connected, Greeting
    <3>2. \A i : Reach(i)' = Reach(i)
      BY <1>2, <2>2 DEF Reach
    <3>3. QED
      BY <1>1, <1>2, <2>1, <2>2, <3>1, <3>2 DEF Stream
  <2>4. QED
    BY <1>1, <1>2, <2>1, <2>2, <2>3, OnlySocket DEF TTypeOK, Connection
<1>5. QED
  BY <1>3, <1>4

LEMMA KeepsDrop ==
  ASSUME TIInv, ~past.late, Drop \/ HandshakeFails
  PROVE  TIInv'
<1>1. TTypeOK /\ Connection
  BY DEF TIInv, TInv
<1>2. /\ UNCHANGED <<term, born, doomed, calls, tab, typed, screen, past>>
      /\ keys' \in 0..MaxKeys /\ moves' \in 0..MaxMoves /\ losses' \in 0..MaxLosses
  BY <1>1, Counts DEF Drop, HandshakeFails, client, server
<1>3. PICK x \in {"closed", "failed"} :
        /\ sock' = [NoSock EXCEPT !.state = x]
        /\ sock.state \in {"connecting", "accepted", "open"}
        /\ sock.state = "open" => x = "closed"
  BY DEF Drop, HandshakeFails, Connected
<1>4. sock' \in Sock /\ sock'.state = x
  BY <1>3, NoSockType
<1>5. Stream'
  BY <1>4, NoStream
<1>6. QED
  BY <1>1, <1>2, <1>3, <1>4, <1>5, OnlySocket DEF TTypeOK, Connection

\* There is output that the consumer has not sent, and the message it comes in.
Fresh == term[sock.served].made > sock.sent

FreshOutput == [type |-> "output", id |-> sock.served, lo |-> Oldest(sock.served, sock.sent),
                hi |-> term[sock.served].made]

LEMMA FreshType ==
  ASSUME TTypeOK, Stream, Connected, Fresh
  PROVE  /\ FreshOutput \in Message /\ NewOutput(sock.served, sock.sent) = <<FreshOutput>>
         /\ FreshOutput.type = "output" /\ FreshOutput.id = sock.served
         /\ FreshOutput.lo \in Nat /\ FreshOutput.lo <= FreshOutput.hi
         /\ FreshOutput.hi = term[sock.served].made /\ FreshOutput.hi \in Chunks
         /\ Continues(Missed(sock.served, sock.sent), sock.served, sock.sent, FreshOutput.lo,
                      FreshOutput.hi)
         /\ Missed(sock.served, sock.sent) \subseteq Ids \X (1..MaxChunks)
<1> DEFINE s == sock.served
<1>1. s \in Ids /\ sock.sent \in Chunks /\ term[s].made \in Chunks /\ term[s].made > sock.sent
  BY Parts DEF Stream, Fresh
<1>2. /\ Oldest(s, sock.sent) \in 1..MaxChunks
      /\ sock.sent < Oldest(s, sock.sent) /\ Oldest(s, sock.sent) <= term[s].made
      /\ \A n \in (sock.sent + 1)..(Oldest(s, sock.sent) - 1) : <<s, n>> \in Missed(s, sock.sent)
      /\ Missed(s, sock.sent) \subseteq Ids \X (1..MaxChunks)
  BY <1>1, ReadSince
<1>3. FreshOutput \in Message
  BY <1>1, <1>2, MessagesSent DEF FreshOutput
<1>4. NewOutput(s, sock.sent) = <<FreshOutput>>
  BY <1>1, Sizes DEF NewOutput, FreshOutput
<1>5. /\ FreshOutput.type = "output" /\ FreshOutput.id = s
      /\ FreshOutput.lo = Oldest(s, sock.sent) /\ FreshOutput.hi = term[s].made
  BY DEF FreshOutput
<1>6. Continues(Missed(s, sock.sent), s, sock.sent, Oldest(s, sock.sent), term[s].made)
  BY <1>1, <1>2, Sizes DEF Continues
<1>7. QED
  BY <1>1, <1>2, <1>3, <1>4, <1>5, <1>6, Sizes

\* What the output loop adds to what is on its way.
LEMMA ReadMessages ==
  ASSUME TTypeOK, Stream, LoopRead
  PROVE  \E a, b \in Seq(Message) :
           /\ sock' = [sock EXCEPT !.loop = IF Alive(sock.served) THEN "on" ELSE "over",
                                   !.sent = IF Fresh THEN term[sock.served].made ELSE @,
                                   !.chan = @ \o a \o b]
           /\ a = (IF Fresh THEN <<FreshOutput>> ELSE <<>>)
           /\ b = (IF Alive(sock.served) THEN <<>> ELSE <<[type |-> "bye"]>>)
<1> DEFINE a == IF Fresh THEN <<FreshOutput>> ELSE <<>>
           b == IF Alive(sock.served) THEN <<>> ELSE <<[type |-> "bye"]>>
<1>1. Fresh => FreshOutput \in Message /\ NewOutput(sock.served, sock.sent) = <<FreshOutput>>
  BY FreshType DEF LoopRead
<1>2. a \in Seq(Message) /\ b \in Seq(Message)
  BY <1>1, MessagesSent
<1>3. sock' = [sock EXCEPT !.loop = IF Alive(sock.served) THEN "on" ELSE "over",
                           !.sent = IF Fresh THEN term[sock.served].made ELSE @,
                           !.chan = @ \o a \o b]
  BY <1>1 DEF LoopRead, Fresh
<1>4. QED
  BY <1>2, <1>3

LEMMA Lengths ==
  ASSUME NEW x \in Seq(Message)
  PROVE  Len(x) \in Nat /\ DOMAIN x = 1..Len(x) /\ (x = <<>> <=> Len(x) = 0)
  OBVIOUS

\* Two parts of a stream.
LEMMA Joined ==
  ASSUME NEW x \in Seq(Message), NEW y \in Seq(Message)
  PROVE  /\ x \o y \in Seq(Message) /\ Len(x \o y) = Len(x) + Len(y)
         /\ \A i \in 1..Len(x) : (x \o y)[i] = x[i]
         /\ Len(y) >= 1 => (x \o y)[Len(x) + 1] = y[1]
  OBVIOUS

\* A stream goes on with new output.
Extended(chan, next, fresh, alive) ==
  /\ next \in Seq(Message)
  /\ Len(next) = Len(chan) + (IF fresh THEN 1 ELSE 0) + (IF alive THEN 0 ELSE 1)
  /\ \A i \in 1..Len(chan) : next[i] = chan[i]

LEMMA Appended ==
  ASSUME NEW chan \in Seq(Message), NEW fresh \in BOOLEAN, NEW alive \in BOOLEAN,
         NEW a \in Seq(Message), NEW b \in Seq(Message),
         Len(a) = (IF fresh THEN 1 ELSE 0), Len(b) = (IF alive THEN 0 ELSE 1)
  PROVE  /\ Extended(chan, chan \o a \o b, fresh, alive)
         /\ fresh => (chan \o a \o b)[Len(chan) + 1] = a[1]
         /\ ~alive => (chan \o a \o b)[Len(chan \o a \o b)] = b[1]
<1>1. Len(a) = (IF fresh THEN 1 ELSE 0)
  OBVIOUS
<1>2. Len(b) = (IF alive THEN 0 ELSE 1)
  OBVIOUS
<1>3. /\ chan \o a \in Seq(Message) /\ Len(chan \o a) = Len(chan) + Len(a)
      /\ \A i \in 1..Len(chan) : (chan \o a)[i] = chan[i]
      /\ fresh => (chan \o a)[Len(chan) + 1] = a[1]
  <2>1. /\ chan \o a \in Seq(Message) /\ Len(chan \o a) = Len(chan) + Len(a)
        /\ \A i \in 1..Len(chan) : (chan \o a)[i] = chan[i]
        /\ Len(a) >= 1 => (chan \o a)[Len(chan) + 1] = a[1]
    BY Joined, Zenon
  <2>2. QED
    BY <1>1, <2>1
<1> DEFINE c == chan \o a
<1> HIDE DEF c
<1>4. /\ c \in Seq(Message) /\ Len(c) = Len(chan) + Len(a)
      /\ \A i \in 1..Len(chan) : c[i] = chan[i]
      /\ fresh => c[Len(chan) + 1] = a[1]
  BY <1>3 DEF c
<1>5. /\ c \o b \in Seq(Message) /\ Len(c \o b) = Len(c) + Len(b)
      /\ \A i \in 1..Len(c) : (c \o b)[i] = c[i]
      /\ ~alive => (c \o b)[Len(c) + 1] = b[1]
  <2>1. c \in Seq(Message)
    BY <1>4
  <2>2. /\ c \o b \in Seq(Message) /\ Len(c \o b) = Len(c) + Len(b)
        /\ \A i \in 1..Len(c) : (c \o b)[i] = c[i]
        /\ Len(b) >= 1 => (c \o b)[Len(c) + 1] = b[1]
    BY <2>1, Joined, Zenon
  <2>3. QED
    BY <1>2, <2>2
<1> DEFINE d == c \o b
<1> HIDE DEF d
<1>6. /\ d \in Seq(Message) /\ Len(d) = Len(c) + Len(b)
      /\ \A i \in 1..Len(c) : d[i] = c[i]
      /\ ~alive => d[Len(c) + 1] = b[1]
  BY <1>5 DEF d
<1>7. Len(chan) \in Nat
  OBVIOUS
<1>8. /\ Len(d) = Len(chan) + (IF fresh THEN 1 ELSE 0) + (IF alive THEN 0 ELSE 1)
      /\ \A i \in 1..Len(chan) : d[i] = chan[i]
  <2>1. \A i \in 1..Len(chan) : i \in 1..Len(c)
    BY <1>1, <1>4, <1>7
  <2>2. \A i \in 1..Len(chan) : d[i] = chan[i]
    BY <1>4, <1>6, <2>1
  <2>3. Len(d) = Len(chan) + Len(a) + Len(b)
    BY <1>4, <1>6
  <2>4. Len(d) = Len(chan) + (IF fresh THEN 1 ELSE 0) + (IF alive THEN 0 ELSE 1)
    BY <1>1, <1>2, <2>3
  <2>5. QED
    BY <2>2, <2>4
<1>9. fresh => d[Len(chan) + 1] = a[1]
  <2>1. fresh => Len(c) = Len(chan) + 1
    BY <1>1, <1>4
  <2>2. fresh => Len(chan) + 1 \in 1..Len(c)
    BY <1>7, <2>1
  <2>3. QED
    BY <1>4, <1>6, <2>2
<1>10. ~alive => d[Len(d)] = b[1]
  BY <1>2, <1>6
<1>11. QED
  BY <1>6, <1>8, <1>9, <1>10 DEF Extended, c, d

\* A stream that goes on, goes on from where the consumer was.
LEMMA StreamGoesOn ==
  ASSUME Stream, Connected, sock.loop = "on", sock.chan \in Seq(Message),
         UNCHANGED tab, sock'.state = sock.state, sock'.served = sock.served,
         past.evicted \subseteq past'.evicted,
         Extended(sock.chan, sock'.chan, Fresh, Alive(sock.served)),
         sock'.loop = "on" <=> Alive(sock.served), sock'.loop \in {"on", "over"},
         Fresh => LET m == sock'.chan[Len(sock.chan) + 1] IN
                  /\ m.type = "output" /\ m.id = sock.served /\ m.lo <= m.hi /\ sock'.sent = m.hi
                  /\ Continues(past'.evicted, sock.served, sock.sent, m.lo, m.hi),
         ~Fresh => sock'.sent = sock.sent,
         ~Alive(sock.served) => sock'.chan[Len(sock'.chan)].type = "bye"
  PROVE  Stream'
<1>1. sock'.chan \in Seq(Message)
  BY DEF Extended
<1>2. PICK n \in Nat, k \in Nat : n = Len(sock.chan) /\ k = Len(sock'.chan)
  BY <1>1, Lengths
<1>3. /\ k = n + (IF Fresh THEN 1 ELSE 0) + (IF Alive(sock.served) THEN 0 ELSE 1)
      /\ \A i \in 1..n : sock'.chan[i] = sock.chan[i]
  BY <1>2 DEF Extended
<1>4. /\ DOMAIN sock.chan = 1..n /\ DOMAIN sock'.chan = 1..k
      /\ (sock.chan = <<>> <=> n = 0) /\ (sock'.chan = <<>> <=> k = 0)
  BY <1>1, <1>2, Lengths
<1>5. Connected' /\ sock.served # NoSession
  BY DEF Connected, Stream
<1>6. \A i \in 1..n : sock.chan[i].type # "bye"
  BY <1>4 DEF Stream
<1>7. \A i \in 0..n : Reach(i)' = Reach(i)
  BY <1>3 DEF Reach
<1>8. sock.sent = Reach(n)
  BY <1>2 DEF Stream
<1>9. \A i \in 1..k : i \in 1..n \/ (Fresh /\ i = n + 1) \/ (~Alive(sock.served) /\ i = k)
  BY <1>3
<1>10. ~Alive(sock.served) => sock'.chan[k].type = "bye"
  BY <1>2
<1> DEFINE m == sock'.chan[n + 1]
<1>11. Fresh => /\ m.type = "output" /\ m.id = sock.served /\ m.lo <= m.hi /\ sock'.sent = m.hi
                /\ Continues(past'.evicted, sock.served, sock.sent, m.lo, m.hi)
  BY <1>2
<1>12. Greeting' = Greeting /\ (Greeting => sock'.chan[1] = sock.chan[1])
  <2>1. CASE n = 0
    <3>1. k # 0 => sock'.chan[1].type # "session"
      BY <1>3, <1>9, <1>10, <1>11, <2>1
    <3>2. QED
      BY <1>4, <2>1, <3>1 DEF Greeting
  <2>2. CASE n # 0
    <3>1. k # 0 /\ sock'.chan[1] = sock.chan[1]
      BY <1>3, <2>2
    <3>2. QED
      BY <1>4, <2>2, <3>1 DEF Greeting
  <2>3. QED
    BY <2>1, <2>2
<1>13. ASSUME NEW i \in 1..k
       PROVE  /\ sock'.chan[i].type = "session" => i = 1
              /\ sock'.chan[i].type = "bye" => i = k /\ sock'.loop = "over"
              /\ sock'.chan[i].type = "output" =>
                   /\ sock'.chan[i].id = sock'.served /\ sock'.chan[i].lo <= sock'.chan[i].hi
                   /\ Continues(past'.evicted, sock'.served, Reach(i - 1)', sock'.chan[i].lo,
                                sock'.chan[i].hi)
  <2>1. CASE i \in 1..n
    <3>1. /\ sock'.chan[i] = sock.chan[i] /\ sock.chan[i].type # "bye"
          /\ Reach(i - 1)' = Reach(i - 1)
      BY <1>3, <1>6, <1>7, <2>1
    <3>2. /\ sock.chan[i].type = "session" => i = 1
          /\ sock.chan[i].type = "output" =>
               /\ sock.chan[i].id = sock.served /\ sock.chan[i].lo <= sock.chan[i].hi
               /\ Continues(past.evicted, sock.served, Reach(i - 1), sock.chan[i].lo,
                            sock.chan[i].hi)
      BY <1>4, <2>1 DEF Stream
    <3>3. QED
      BY <3>1, <3>2 DEF Continues
  <2>2. CASE Fresh /\ i = n + 1
    <3>1. sock'.chan[i] = m /\ i - 1 = n
      BY <1>3, <1>11, <2>2
    <3>2. Reach(i - 1)' = sock.sent
      BY <1>3, <1>7, <1>8, <3>1
    <3>3. QED
      BY <1>11, <2>2, <3>1, <3>2
  <2>3. CASE ~Alive(sock.served) /\ i = k
    BY <1>10, <2>3
  <2>4. QED
    BY <1>9, <2>1, <2>2, <2>3
<1>14. sock'.loop = "on" => sock'.sent = Reach(k)'
  <2>1. Fresh => Reach(n + 1)' = m.hi
    BY <1>3, <1>11 DEF Reach
  <2>2. Alive(sock.served) /\ Fresh => k = n + 1
    BY <1>3
  <2>3. Alive(sock.served) /\ ~Fresh => k = n
    BY <1>3
  <2>4. Reach(n)' = Reach(n)
    BY <1>3, <1>7
  <2>5. QED
    BY <1>8, <1>11, <2>1, <2>2, <2>3, <2>4
<1>15. QED
  <2>1. /\ sock'.state = "accepted" => Greeting'
        /\ Greeting' => /\ ~tab'.ready /\ sock'.chan[1].id = sock'.served
                        /\ sock'.chan[1].cursor # 0 =>
                             tab'.session = sock'.served /\ tab'.cursor = sock'.chan[1].cursor
        /\ ~Greeting' => tab'.session = sock'.served
    BY <1>12 DEF Stream
  <2>2. QED
    BY <1>2, <1>4, <1>5, <1>13, <1>14, <2>1 DEF Stream

LEMMA KeepsLoopRead ==
  ASSUME TIInv, ~past.late, LoopRead
  PROVE  TIInv'
<1>1. /\ TTypeOK /\ Connection /\ Stream /\ Connected /\ sock.loop = "on"
      /\ sock \in Sock /\ past \in Past
  BY DEF TIInv, TInv, TTypeOK, LoopRead
<1>2. PICK a, b \in Seq(Message) :
        /\ sock' = [sock EXCEPT !.loop = IF Alive(sock.served) THEN "on" ELSE "over",
                                !.sent = IF Fresh THEN term[sock.served].made ELSE @,
                                !.chan = @ \o a \o b]
        /\ a = (IF Fresh THEN <<FreshOutput>> ELSE <<>>)
        /\ b = (IF Alive(sock.served) THEN <<>> ELSE <<[type |-> "bye"]>>)
  BY <1>1, ReadMessages
<1>3. sock.chan \in Seq(Message) /\ sock.sent \in Chunks
  BY <1>1, Parts
<1>4. Fresh \in BOOLEAN /\ Alive(sock.served) \in BOOLEAN
  BY <1>1, Parts DEF Fresh, Alive, Stream
<1> DEFINE next == sock.chan \o a \o b
           bye == [type |-> "bye"]
<1>5. /\ Extended(sock.chan, next, Fresh, Alive(sock.served))
      /\ Fresh => next[Len(sock.chan) + 1] = FreshOutput
      /\ ~Alive(sock.served) => next[Len(next)] = bye
  <2>1. /\ Len(a) = (IF Fresh THEN 1 ELSE 0) /\ (Fresh => a[1] = FreshOutput)
        /\ Len(b) = (IF Alive(sock.served) THEN 0 ELSE 1) /\ (~Alive(sock.served) => b[1] = bye)
    BY <1>2
  <2> HIDE DEF bye
  <2>2. PICK alive \in BOOLEAN, fresh \in BOOLEAN : alive = Alive(sock.served) /\ fresh = Fresh
    BY <1>4
  <2>3. Len(a) = (IF fresh THEN 1 ELSE 0) /\ Len(b) = (IF alive THEN 0 ELSE 1)
    BY <2>1, <2>2
  <2>4. /\ Extended(sock.chan, next, fresh, alive)
        /\ fresh => next[Len(sock.chan) + 1] = a[1]
        /\ ~alive => next[Len(next)] = b[1]
    BY <1>3, <2>3, Appended
  <2>5. QED
    BY <2>1, <2>2, <2>4
<1>6. next \in Seq(Message)
  BY <1>5 DEF Extended
<1>7. Fresh => /\ FreshOutput.type = "output" /\ FreshOutput.id = sock.served
               /\ FreshOutput.lo <= FreshOutput.hi
               /\ FreshOutput.hi = term[sock.served].made /\ FreshOutput.hi \in Chunks
               /\ Continues(Missed(sock.served, sock.sent), sock.served, sock.sent, FreshOutput.lo,
                            FreshOutput.hi)
               /\ Missed(sock.served, sock.sent) \subseteq Ids \X (1..MaxChunks)
  BY <1>1, FreshType
<1> HIDE DEF next
<1>8. sock' = [sock EXCEPT !.loop = IF Alive(sock.served) THEN "on" ELSE "over",
                           !.sent = IF Fresh THEN FreshOutput.hi ELSE @, !.chan = next]
  BY <1>2, <1>7 DEF next
<1>9. /\ sock' \in Sock /\ sock'.state = sock.state /\ sock'.served = sock.served
      /\ sock'.loop = (IF Alive(sock.served) THEN "on" ELSE "over") /\ sock'.chan = next
      /\ sock'.sent = (IF Fresh THEN FreshOutput.hi ELSE sock.sent)
  BY <1>1, <1>3, <1>6, <1>7, <1>8 DEF Sock
<1>10. /\ past' = [past EXCEPT !.evicted =
                    @ \cup (IF Fresh THEN Missed(sock.served, sock.sent) ELSE {})]
       /\ UNCHANGED <<term, born, doomed, calls, tab, typed, screen, keys, moves, losses>>
  BY DEF LoopRead, Fresh, client, limits, server
<1>11. /\ past' \in Past /\ past'.late = past.late /\ past'.strayed = past.strayed
       /\ past.evicted \subseteq past'.evicted
       /\ Fresh => Missed(sock.served, sock.sent) \subseteq past'.evicted
  <2>1. past.evicted \cup (IF Fresh THEN Missed(sock.served, sock.sent) ELSE {})
          \subseteq Ids \X (1..MaxChunks)
    BY <1>1, <1>7 DEF Past
  <2>2. QED
    BY <1>1, <1>10, <2>1 DEF Past
<1>12. Fresh => Continues(past'.evicted, sock.served, sock.sent, FreshOutput.lo, FreshOutput.hi)
  BY <1>7, <1>11 DEF Continues
<1>13. ~Alive(sock.served) => next[Len(next)].type = "bye"
  BY <1>5
<1>14. Stream'
  <2>1. /\ Extended(sock.chan, sock'.chan, Fresh, Alive(sock.served))
        /\ Fresh => sock'.chan[Len(sock.chan) + 1] = FreshOutput
        /\ ~Alive(sock.served) => sock'.chan[Len(sock'.chan)].type = "bye"
    BY <1>5, <1>9, <1>13
  <2>2. UNCHANGED tab /\ past.evicted \subseteq past'.evicted
    BY <1>10, <1>11
  <2>3. /\ sock'.loop = "on" <=> Alive(sock.served)
        /\ sock'.loop \in {"on", "over"}
    BY <1>9
  <2>4. /\ sock'.state = sock.state /\ sock'.served = sock.served
        /\ ~Fresh => sock'.sent = sock.sent
    BY <1>9
  <2>5. Fresh => LET m == sock'.chan[Len(sock.chan) + 1] IN
                 /\ m.type = "output" /\ m.id = sock.served /\ m.lo <= m.hi /\ sock'.sent = m.hi
                 /\ Continues(past'.evicted, sock.served, sock.sent, m.lo, m.hi)
    BY <1>7, <1>9, <1>12, <2>1
  <2>6. QED
    BY <1>1, <1>3, <2>1, <2>2, <2>3, <2>4, <2>5, StreamGoesOn
<1>15. QED
  BY <1>1, <1>9, <1>10, <1>11, <1>14, OnlySocket DEF TTypeOK, Connection, Connected

-----------------------------------------------------------------------------
(* The web terminal: the HTTP interface *)

\* One request is answered, or dropped.
LEMMA Reply ==
  ASSUME TIInv, ~past.late, UNCHANGED <<sock, tab, typed, screen>>,
         term' \in [Ids -> Term], born' \in 0..MaxSessions, doomed' \subseteq Ids,
         keys' \in 0..MaxKeys, moves' \in 0..MaxMoves, losses' \in 0..MaxLosses,
         past' \in Past, past'.late = past.late, past'.strayed = past.strayed,
         past.evicted \subseteq past'.evicted,
         NEW c \in Slots, calls[c] # Free,
         NEW x \in Call \cup {Free}, calls' = [calls EXCEPT ![c] = x],
         x # Free => /\ x.kind = calls[c].kind /\ x.stale = calls[c].stale
                     /\ x.awaited = calls[c].awaited /\ WellFilled(x)
                     /\ WaitedFor(c) => RightlyAsked(x, tab, past'.evicted)
  PROVE  TIInv'
<1>1. TTypeOK /\ Filled /\ TInv /\ calls \in [Slots -> Call \cup {Free}]
  BY DEF TIInv, TTypeOK
<1>2. \A d \in Slots : calls'[d] = IF d = c THEN x ELSE calls[d]
  BY <1>1
<1>3. calls' \in [Slots -> Call \cup {Free}]
  BY <1>1
<1>4. TTypeOK'
  BY <1>1, <1>3 DEF TTypeOK
<1>5. Filled'
  BY <1>1, <1>2 DEF Filled
<1>6. \A d \in Slots : WaitedFor(d)' => WaitedFor(d)
  BY <1>2 DEF WaitedFor
<1>7. \A d \in Slots : RightlyAsked(calls[d], tab, past.evicted)
                         => RightlyAsked(calls[d], tab, past'.evicted)
  BY DEF RightlyAsked, Continues
<1>8. \A d \in Slots : WaitedFor(d)' => RightlyAsked(calls'[d], tab, past'.evicted)
  <2> SUFFICES ASSUME NEW d \in Slots, WaitedFor(d)'
               PROVE  RightlyAsked(calls'[d], tab, past'.evicted)
    OBVIOUS
  <2>1. WaitedFor(d) /\ calls'[d] # Free
    BY <1>6 DEF WaitedFor
  <2>2. QED
    BY <1>1, <1>2, <1>7, <2>1 DEF TInv, Asking
<1>9. Asking'
  BY <1>1, <1>6, <1>8 DEF TInv, Asking
<1>10. Stream' /\ Queue' /\ ShownUpToCursor'
  BY <1>1, StreamKept, QueueKept, ShownKept, Parts DEF TInv
<1>11. Connection' /\ InputReachesItsSession'
  BY <1>1 DEF TInv, Connection, InputReachesItsSession
<1>12. QED
  BY <1>4, <1>5, <1>9, <1>10, <1>11 DEF TIInv, TInv

\* A request for a session.
LEMMA KeepsServeStart ==
  ASSUME TIInv, ~past.late, NEW c \in Slots, ServeStart(c)
  PROVE  TIInv'
<1>1. /\ TTypeOK /\ Filled /\ Asking /\ past \in Past
      /\ doomed \subseteq Ids /\ keys \in 0..MaxKeys /\ moves \in 0..MaxMoves /\ losses \in 0..MaxLosses
  BY DEF TIInv, TInv, TTypeOK
<1>2. calls[c] # Free /\ calls[c].kind = "start" /\ calls[c].step = "sent"
  BY DEF ServeStart
<1>3. /\ calls[c] \in Call /\ calls[c].id \in Ids \cup {NoSession} /\ calls[c].awaited \in BOOLEAN
      /\ WellFilled(calls[c])
  BY <1>1, <1>2, Slot DEF TTypeOK, Filled
<1>4. PICK s \in Ids, reused \in BOOLEAN :
        /\ Given(calls[c].id, s, reused)
        /\ Answered(c, [calls[c] EXCEPT !.step = "answered", !.id = s, !.reused = reused])
  BY DEF ServeStart
<1>5. /\ term' \in [Ids -> Term] /\ born' \in 0..MaxSessions
      /\ reused => s = calls[c].id
  BY <1>1, <1>3, <1>4, GivenType
<1> DEFINE y == [calls[c] EXCEPT !.step = "answered", !.id = s, !.reused = reused]
           x == IF calls[c].awaited THEN y ELSE Free
<1>6. /\ y \in Call /\ y.kind = "start" /\ y.stale = calls[c].stale /\ y.awaited = calls[c].awaited
      /\ y.step = "answered" /\ y.id = s /\ y.reused = reused
      /\ y.lo = calls[c].lo /\ y.cursor = calls[c].cursor
  BY <1>2, <1>3 DEF Call
<1>7. calls' = [calls EXCEPT ![c] = x]
  BY <1>4 DEF Answered
<1> HIDE DEF y
<1>8. WaitedFor(c) => RightlyAsked(y, tab, past'.evicted)
  BY <1>1, <1>2, <1>5, <1>6 DEF Asking, RightlyAsked
<1>9. calls[c].awaited => WellFilled(y)
  BY <1>3, <1>6, Sizes DEF WellFilled
<1>10. x \in Call \cup {Free}
  BY <1>6
<1>11. x # Free => x = y /\ calls[c].awaited
  OBVIOUS
<1> HIDE DEF x
<1>12. UNCHANGED <<doomed, sock, tab, typed, screen, past, keys, moves, losses>>
  BY DEF ServeStart, client, limits
<1>13. x # Free => /\ x.kind = calls[c].kind /\ x.stale = calls[c].stale
                   /\ x.awaited = calls[c].awaited /\ WellFilled(x)
                   /\ WaitedFor(c) => RightlyAsked(x, tab, past'.evicted)
  BY <1>2, <1>6, <1>8, <1>9, <1>11
<1>14. QED
  BY <1>1, <1>2, <1>5, <1>7, <1>10, <1>12, <1>13, Reply

\* A request that fails.
LEMMA RefusedKept ==
  ASSUME TIInv, ~past.late, UNCHANGED <<sock, tab, typed, screen, past>>,
         term' \in [Ids -> Term], born' \in 0..MaxSessions, doomed' \subseteq Ids,
         keys' \in 0..MaxKeys, moves' \in 0..MaxMoves, losses' \in 0..MaxLosses,
         NEW c \in Slots, calls[c] # Free, calls[c].step \in {"sent", "reading"}, Refused(c)
  PROVE  TIInv'
<1>1. TTypeOK /\ Filled /\ Asking /\ past \in Past
  BY DEF TIInv, TInv, TTypeOK
<1>2. calls[c] \in Call /\ calls[c].awaited \in BOOLEAN /\ WellFilled(calls[c])
  BY <1>1, Slot DEF TTypeOK, Filled
<1> DEFINE y == Failed(calls[c])
           x == IF calls[c].awaited THEN y ELSE Free
<1>3. /\ y \in Call /\ y.kind = calls[c].kind /\ y.stale = calls[c].stale /\ y.awaited
      /\ y.step = "failed" /\ y.id = calls[c].id /\ y.lo = 1 /\ y.cursor = 0
  BY <1>2, FailedType
<1>4. calls' = [calls EXCEPT ![c] = x]
  BY DEF Answered, Refused
<1> HIDE DEF y
<1>5. WaitedFor(c) => RightlyAsked(y, tab, past'.evicted)
  BY <1>1, <1>3 DEF Asking, RightlyAsked
<1>6. WellFilled(y)
  BY <1>2, <1>3 DEF WellFilled
<1>7. x \in Call \cup {Free}
  BY <1>3
<1>8. x # Free => x = y /\ calls[c].awaited
  OBVIOUS
<1> HIDE DEF x
<1>9. x # Free => /\ x.kind = calls[c].kind /\ x.stale = calls[c].stale
                  /\ x.awaited = calls[c].awaited /\ WellFilled(x)
                  /\ WaitedFor(c) => RightlyAsked(x, tab, past'.evicted)
  BY <1>2, <1>3, <1>5, <1>6, <1>8
<1>10. QED
  BY <1>1, <1>4, <1>7, <1>9, Reply

LEMMA KeepsCallFails ==
  ASSUME TIInv, ~past.late, NEW c \in Slots, CallFails(c)
  PROVE  TIInv'
<1>1. TTypeOK
  BY DEF TIInv
<1>2. /\ UNCHANGED <<term, born, doomed, sock, tab, typed, screen, past>>
      /\ keys' \in 0..MaxKeys /\ moves' \in 0..MaxMoves /\ losses' \in 0..MaxLosses
      /\ calls[c] # Free /\ calls[c].step \in {"sent", "reading"} /\ Refused(c)
  BY <1>1, Counts DEF CallFails, client, server
<1>3. QED
  BY <1>1, <1>2, RefusedKept DEF TTypeOK

\* A poll finds its session.
LEMMA KeepsServePoll ==
  ASSUME TIInv, ~past.late, NEW c \in Slots, ServePoll(c)
  PROVE  TIInv'
<1>1. /\ TTypeOK /\ Filled /\ Asking /\ past \in Past /\ born \in 0..MaxSessions
      /\ doomed \subseteq Ids /\ keys \in 0..MaxKeys /\ moves \in 0..MaxMoves /\ losses \in 0..MaxLosses
  BY DEF TIInv, TInv, TTypeOK
<1>2. calls[c] # Free /\ calls[c].kind = "poll" /\ calls[c].step = "sent"
  BY DEF ServePoll
<1>3. /\ calls[c] \in Call /\ calls[c].id \in Ids \cup {NoSession} /\ WellFilled(calls[c])
  BY <1>1, <1>2, Slot DEF TTypeOK, Filled
<1>4. term' \in [Ids -> Term]
  BY <1>1, <1>3, GetType DEF ServePoll
<1>5. UNCHANGED <<born, doomed, sock, tab, typed, screen, past, keys, moves, losses>>
  BY DEF ServePoll, client, limits
<1>6. CASE Found(calls[c].id)
  <2> DEFINE x == [calls[c] EXCEPT !.step = "reading"]
  <2>1. /\ x \in Call /\ x.kind = "poll" /\ x.stale = calls[c].stale /\ x.awaited = calls[c].awaited
        /\ x.step = "reading" /\ x.id = calls[c].id /\ x.lo = calls[c].lo
        /\ x.cursor = calls[c].cursor
    BY <1>2, <1>3 DEF Call
  <2>2. calls' = [calls EXCEPT ![c] = x]
    BY <1>6 DEF ServePoll
  <2> HIDE DEF x
  <2>3. WaitedFor(c) => RightlyAsked(x, tab, past'.evicted)
    BY <1>1, <1>2, <2>1 DEF Asking, RightlyAsked
  <2>4. WellFilled(x)
    BY <1>2, <1>3, <2>1 DEF WellFilled
  <2>5. QED
    BY <1>1, <1>2, <1>4, <1>5, <2>1, <2>2, <2>3, <2>4, Reply
<1>7. CASE ~Found(calls[c].id)
  <2>1. Refused(c)
    BY <1>7 DEF ServePoll
  <2>2. QED
    BY <1>1, <1>2, <1>4, <1>5, <2>1, RefusedKept
<1>8. QED
  BY <1>6, <1>7

\* A poll is answered with what there is after its cursor.
LEMMA KeepsReadPoll ==
  ASSUME TIInv, ~past.late, NEW c \in Slots, ReadPoll(c)
  PROVE  TIInv'
<1> DEFINE s == calls[c].id
           new == term[s].made > calls[c].cursor
           lo == IF new THEN Oldest(s, calls[c].cursor) ELSE calls[c].cursor + 1
           hi == IF new THEN term[s].made ELSE calls[c].cursor
           missed == IF new THEN Missed(s, calls[c].cursor) ELSE {}
<1>1. /\ TTypeOK /\ Filled /\ Asking /\ past \in Past /\ term \in [Ids -> Term]
      /\ born \in 0..MaxSessions /\ doomed \subseteq Ids
      /\ keys \in 0..MaxKeys /\ moves \in 0..MaxMoves /\ losses \in 0..MaxLosses
  BY DEF TIInv, TInv, TTypeOK
<1>2. calls[c] # Free /\ calls[c].kind = "poll" /\ calls[c].step = "reading"
  BY DEF ReadPoll
<1>3. /\ calls[c] \in Call /\ calls[c].awaited \in BOOLEAN /\ WellFilled(calls[c])
      /\ s \in Ids /\ calls[c].cursor \in Chunks /\ term[s].made \in Chunks
  <2>1. /\ calls[c] \in Call /\ calls[c].id \in Ids \cup {NoSession} /\ calls[c].awaited \in BOOLEAN
        /\ WellFilled(calls[c]) /\ calls[c].cursor \in Chunks
    BY <1>1, <1>2, Slot DEF TTypeOK, Filled
  <2>2. s \in Ids
    BY <1>2, <2>1 DEF WellFilled
  <2>3. QED
    BY <1>1, <2>1, <2>2, Parts
<1>4. new => /\ Oldest(s, calls[c].cursor) \in 1..MaxChunks
             /\ calls[c].cursor < Oldest(s, calls[c].cursor)
             /\ Oldest(s, calls[c].cursor) <= term[s].made
             /\ \A n \in (calls[c].cursor + 1)..(Oldest(s, calls[c].cursor) - 1) :
                  <<s, n>> \in Missed(s, calls[c].cursor)
             /\ Missed(s, calls[c].cursor) \subseteq Ids \X (1..MaxChunks)
  BY <1>1, <1>3, ReadSince
<1>5. /\ lo \in 1..(MaxChunks + 1) /\ hi \in Chunks /\ lo <= hi + 1
      /\ Continues(missed, s, calls[c].cursor, lo, hi) /\ missed \subseteq Ids \X (1..MaxChunks)
  <2>1. calls[c].cursor \in Nat /\ term[s].made \in Nat /\ calls[c].cursor <= MaxChunks
        /\ MaxChunks \in Nat
    BY <1>3, Sizes
  <2>2. CASE new
    BY <1>3, <1>4, <2>1, <2>2 DEF Continues
  <2>3. CASE ~new
    BY <1>3, <2>1, <2>3 DEF Continues
  <2>4. QED
    BY <2>2, <2>3
<1>6. /\ Answered(c, [calls[c] EXCEPT !.step = "answered", !.alive = Alive(s), !.lo = lo,
                                      !.cursor = hi])
      /\ past' = [past EXCEPT !.evicted = @ \cup missed]
  BY DEF ReadPoll
<1> HIDE DEF lo, hi, missed
<1> DEFINE y == [calls[c] EXCEPT !.step = "answered", !.alive = Alive(s), !.lo = lo, !.cursor = hi]
           x == IF calls[c].awaited THEN y ELSE Free
<1>7. Alive(s) \in BOOLEAN
  BY <1>1, <1>3, Parts DEF Alive
<1>8. /\ y \in Call /\ y.kind = "poll" /\ y.stale = calls[c].stale /\ y.awaited = calls[c].awaited
      /\ y.step = "answered" /\ y.id = s /\ y.lo = lo /\ y.cursor = hi
  BY <1>2, <1>3, <1>5, <1>7 DEF Call
<1>9. calls' = [calls EXCEPT ![c] = x]
  BY <1>6 DEF Answered
<1> HIDE DEF y
<1>10. /\ past' \in Past /\ past'.late = past.late /\ past'.strayed = past.strayed
       /\ past.evicted \subseteq past'.evicted /\ missed \subseteq past'.evicted
  <2>1. past.evicted \cup missed \subseteq Ids \X (1..MaxChunks)
    BY <1>1, <1>5 DEF Past
  <2>2. QED
    BY <1>1, <1>6, <2>1 DEF Past
<1>11. WaitedFor(c) => RightlyAsked(y, tab, past'.evicted)
  <2>1. WaitedFor(c) => s = tab.fb /\ calls[c].cursor = tab.fcur
    BY <1>1, <1>2 DEF Asking, RightlyAsked
  <2>2. Continues(past'.evicted, s, calls[c].cursor, lo, hi)
    BY <1>5, <1>10 DEF Continues
  <2>3. QED
    BY <1>8, <2>1, <2>2 DEF RightlyAsked
<1>12. calls[c].awaited => WellFilled(y)
  BY <1>3, <1>5, <1>8, Sizes DEF WellFilled
<1>13. x \in Call \cup {Free}
  BY <1>8
<1>14. x # Free => x = y /\ calls[c].awaited
  OBVIOUS
<1> HIDE DEF x
<1>15. UNCHANGED <<term, born, doomed, sock, tab, typed, screen, keys, moves, losses>>
  BY DEF ReadPoll, client, limits, server
<1>16. x # Free => /\ x.kind = calls[c].kind /\ x.stale = calls[c].stale
                   /\ x.awaited = calls[c].awaited /\ WellFilled(x)
                   /\ WaitedFor(c) => RightlyAsked(x, tab, past'.evicted)
  BY <1>2, <1>8, <1>11, <1>12, <1>14
<1>17. QED
  BY <1>1, <1>2, <1>9, <1>10, <1>13, <1>15, <1>16, Reply

\* A session is closed.
LEMMA KeepsServeClose ==
  ASSUME TIInv, ~past.late, NEW c \in Slots, ServeClose(c)
  PROVE  TIInv'
<1>1. /\ TTypeOK /\ Filled /\ past \in Past /\ term \in [Ids -> Term]
      /\ born \in 0..MaxSessions /\ doomed \subseteq Ids
      /\ keys \in 0..MaxKeys /\ moves \in 0..MaxMoves /\ losses \in 0..MaxLosses
  BY DEF TIInv, TTypeOK
<1>2. calls[c] # Free /\ calls[c].kind = "close" /\ calls[c].step = "sent"
  BY DEF ServeClose
<1>3. /\ calls[c] \in Call /\ calls[c].awaited \in BOOLEAN /\ WellFilled(calls[c])
      /\ calls[c].id \in Ids
  <2>1. /\ calls[c] \in Call /\ calls[c].id \in Ids \cup {NoSession} /\ calls[c].awaited \in BOOLEAN
        /\ WellFilled(calls[c])
    BY <1>1, <1>2, Slot DEF TTypeOK, Filled
  <2>2. QED
    BY <1>2, <2>1 DEF WellFilled
<1> DEFINE s == calls[c].id
           y == [calls[c] EXCEPT !.step = "answered"]
           x == IF calls[c].awaited THEN y ELSE Free
<1>4. term' \in [Ids -> Term]
  <2>1. term' = [term EXCEPT ![s].alive = @ /\ ~Found(s), ![s].listed = FALSE]
    BY DEF ServeClose
  <2>2. PICK b \in BOOLEAN : b = (term[s].alive /\ ~Found(s))
    OBVIOUS
  <2> HIDE DEF s
  <2>3. s \in Ids
    BY <1>3 DEF s
  <2>4. term' = [term EXCEPT ![s].alive = b, ![s].listed = FALSE]
    BY <1>1, <2>1, <2>2, <2>3
  <2>5. QED
    BY <1>1, <2>3, <2>4 DEF Term
<1>5. /\ y \in Call /\ y.kind = "close" /\ y.stale = calls[c].stale /\ y.awaited = calls[c].awaited
      /\ y.step = "answered" /\ y.id = s /\ y.lo = calls[c].lo /\ y.cursor = calls[c].cursor
  BY <1>2, <1>3 DEF Call
<1>6. calls' = [calls EXCEPT ![c] = x]
  BY DEF ServeClose, Answered
<1> HIDE DEF y
<1>7. calls[c].awaited => WellFilled(y)
  BY <1>2, <1>3, <1>5 DEF WellFilled
<1>8. ~WaitedFor(c)
  BY <1>2 DEF WaitedFor
<1>9. x \in Call \cup {Free}
  BY <1>5
<1>10. x # Free => x = y /\ calls[c].awaited
  OBVIOUS
<1> HIDE DEF x
<1>11. UNCHANGED <<born, doomed, sock, tab, typed, screen, past, keys, moves, losses>>
  BY DEF ServeClose, client, limits
<1>12. x # Free => /\ x.kind = calls[c].kind /\ x.stale = calls[c].stale
                   /\ x.awaited = calls[c].awaited /\ WellFilled(x)
                   /\ WaitedFor(c) => RightlyAsked(x, tab, past'.evicted)
  BY <1>2, <1>5, <1>7, <1>8, <1>10
<1>13. QED
  BY <1>1, <1>2, <1>4, <1>6, <1>9, <1>11, <1>12, Reply

\* A restart ends every session and every connection, and fails every request.
LEMMA KeepsRestart ==
  ASSUME TIInv, ~past.late, Restart
  PROVE  TIInv'
<1>1. /\ TTypeOK /\ Filled /\ TInv /\ past \in Past /\ sock \in Sock /\ term \in [Ids -> Term]
      /\ calls \in [Slots -> Call \cup {Free}]
  BY DEF TIInv, TTypeOK
<1>2. /\ UNCHANGED <<born, tab, typed, screen, past>> /\ doomed' = {}
      /\ keys' \in 0..MaxKeys /\ moves' \in 0..MaxMoves /\ losses' \in 0..MaxLosses
  BY <1>1, Counts DEF Restart, client
<1>3. term' \in [Ids -> Term]
  <2>1. \A s \in Ids : [term[s] EXCEPT !.alive = FALSE, !.listed = FALSE] \in Term
    BY <1>1 DEF Term
  <2>2. QED
    BY <2>1 DEF Restart
<1>4. /\ sock' \in Sock
      /\ IF Connected THEN sock'.state = (IF sock.state = "open" THEN "closed" ELSE "failed")
                      ELSE sock' = sock
  <2>1. CASE Connected
    <3>1. PICK x \in {"closed", "failed"} :
            sock' = [NoSock EXCEPT !.state = x] /\ x = (IF sock.state = "open" THEN "closed" ELSE "failed")
      BY <2>1 DEF Restart
    <3>2. sock' \in Sock /\ sock'.state = x
      BY <3>1, NoSockType
    <3>3. QED
      BY <2>1, <3>1, <3>2
  <2>2. CASE ~Connected
    BY <1>1, <2>2 DEF Restart
  <2>3. QED
    BY <2>1, <2>2
<1>5. \A c \in Slots :
        \/ calls'[c] = Free
        \/ calls'[c] = calls[c] /\ calls[c] # Free
        \/ /\ calls'[c] = Failed(calls[c]) /\ calls[c] # Free /\ calls[c].awaited
           /\ calls[c].step \in {"sent", "reading"}
  BY DEF Restart
<1>6. \A c \in Slots : calls[c] # Free =>
        /\ calls[c] \in Call /\ WellFilled(calls[c])
        /\ Failed(calls[c]) \in Call /\ Failed(calls[c]).kind = calls[c].kind
        /\ Failed(calls[c]).stale = calls[c].stale /\ Failed(calls[c]).step = "failed"
        /\ Failed(calls[c]).awaited /\ Failed(calls[c]).id = calls[c].id
        /\ Failed(calls[c]).cursor = 0 /\ Failed(calls[c]).lo = 1
  BY <1>1, Slot, FailedType DEF Filled
<1>7. calls' \in [Slots -> Call \cup {Free}]
  <2>1. \A c \in Slots : calls'[c] \in Call \cup {Free}
    BY <1>5, <1>6
  <2>2. calls' = [c \in Slots |-> calls'[c]]
    BY DEF Restart
  <2>3. QED
    BY <2>1, <2>2
<1>8. TTypeOK'
  BY <1>1, <1>2, <1>3, <1>4, <1>7 DEF TTypeOK
<1>9. Filled'
  <2>1. \A c \in Slots : calls[c] # Free => WellFilled(Failed(calls[c]))
    BY <1>6 DEF WellFilled
  <2>2. QED
    BY <1>5, <1>6, <2>1 DEF Filled
<1>10. \A c \in Slots : WaitedFor(c)' => WaitedFor(c)
  BY <1>5, <1>6 DEF WaitedFor
<1>11. Asking'
  <2>1. \A c \in Slots : calls[c] # Free /\ RightlyAsked(calls[c], tab, past.evicted)
                           => RightlyAsked(Failed(calls[c]), tab, past.evicted)
    BY <1>6 DEF RightlyAsked
  <2>2. \A c \in Slots : WaitedFor(c)' => RightlyAsked(calls'[c], tab, past.evicted)
    BY <1>1, <1>5, <1>10, <2>1 DEF TInv, Asking, WaitedFor
  <2>3. sock.state = "none" => sock'.state = "none"
    BY <1>4 DEF Connected
  <2>4. QED
    BY <1>1, <1>2, <1>10, <2>2, <2>3 DEF TInv, Asking
<1>12. Stream'
  BY <1>4, NoStream DEF Connected
<1>13. Queue' /\ ShownUpToCursor'
  BY <1>1, <1>2, QueueKept, ShownKept, Parts DEF TInv
<1>14. Connection' /\ InputReachesItsSession'
  BY <1>1, <1>2, <1>4 DEF TInv, Connection, InputReachesItsSession, Connected
<1>15. QED
  BY <1>8, <1>9, <1>11, <1>12, <1>13, <1>14 DEF TIInv, TInv

-----------------------------------------------------------------------------
(* The web terminal: the page and its websocket *)

\* Once the page has turned elsewhere it waits for no answer.
LEMMA StaleType ==
  ASSUME NEW cs \in [Slots -> Call \cup {Free}]
  PROVE  /\ Stale(cs) \in [Slots -> Call \cup {Free}]
         /\ \A c \in Slots : IF cs[c] = Free THEN Stale(cs)[c] = Free
                             ELSE /\ Stale(cs)[c] # Free
                                  /\ WellFilled(cs[c]) => WellFilled(Stale(cs)[c])
                                  /\ Stale(cs)[c].kind = "close" \/ Stale(cs)[c].stale
<1>1. ASSUME NEW c \in Slots
      PROVE  /\ Stale(cs)[c] \in Call \cup {Free}
             /\ IF cs[c] = Free THEN Stale(cs)[c] = Free
                ELSE /\ Stale(cs)[c] # Free
                     /\ WellFilled(cs[c]) => WellFilled(Stale(cs)[c])
                     /\ Stale(cs)[c].kind = "close" \/ Stale(cs)[c].stale
  <2>1. CASE cs[c] = Free \/ cs[c].kind = "close"
    BY <2>1, CallIsNotFree DEF Stale
  <2>2. CASE cs[c] # Free /\ cs[c].kind # "close"
    <3> DEFINE x == [cs[c] EXCEPT !.stale = TRUE]
    <3>1. cs[c] \in Call /\ Stale(cs)[c] = x
      BY <2>2 DEF Stale
    <3>2. /\ x \in Call /\ x.stale /\ x.step = cs[c].step /\ x.awaited = cs[c].awaited
          /\ x.kind = cs[c].kind /\ x.id = cs[c].id /\ x.lo = cs[c].lo /\ x.cursor = cs[c].cursor
      BY <3>1 DEF Call
    <3> HIDE DEF x
    <3>3. WellFilled(cs[c]) => WellFilled(x)
      BY <3>2 DEF WellFilled
    <3>4. QED
      BY <2>2, <3>1, <3>2, <3>3, CallIsNotFree
  <2>3. QED
    BY <2>1, <2>2
<1>2. Stale(cs) \in [Slots -> Call \cup {Free}]
  BY <1>1 DEF Stale
<1>3. QED
  BY <1>1, <1>2

\* Requests of which the page has turned away.
LEMMA TurnedAway ==
  ASSUME NEW cs \in [Slots -> Call \cup {Free}], calls' = Stale(cs),
         \A c \in Slots : cs[c] # Free => WellFilled(cs[c])
  PROVE  calls' \in [Slots -> Call \cup {Free}] /\ Filled' /\ \A c \in Slots : ~WaitedFor(c)'
BY StaleType DEF Filled, WaitedFor

\* A page without a fallback.
LEMMA StopsFallback ==
  ASSUME NEW p \in Page
  PROVE  /\ StopFallback(p) \in Page /\ StopFallback(p).fb = NoSession
         /\ StopFallback(p).chain >= p.chain
         /\ StopFallback(p).session = p.session /\ StopFallback(p).cursor = p.cursor
<1>1. NewChain(p.chain) \in Nat /\ NewChain(p.chain) >= p.chain
  BY DEF Page, NewChain
<1>2. p.chain >= p.chain
  BY DEF Page
<1>3. QED
  BY <1>1, <1>2 DEF StopFallback, Page

\* A connection is tried for the page's session, from its cursor or from the start.
LEMMA ConnectType ==
  ASSUME NEW p \in Page, Connect(p)
  PROVE  /\ tab' \in Page /\ tab'.session = p.session /\ tab'.cursor = p.cursor
         /\ ~tab'.ready /\ tab'.fb = NoSession /\ tab'.chain >= p.chain
         /\ sock' \in Sock /\ sock'.state = "connecting" /\ sock'.want = p.session
         /\ sock'.from \in {0, p.cursor}
<1> DEFINE q == StopFallback(p)
<1>1. /\ q \in Page /\ q.fb = NoSession /\ q.chain >= p.chain
      /\ q.session = p.session /\ q.cursor = p.cursor
  BY StopsFallback
<1> HIDE DEF q
<1>2. tab' = [q EXCEPT !.ready = FALSE, !.timer = FALSE, !.replayed = @ \/ Replay(p)]
  BY DEF Connect, q
<1>3. /\ tab' \in Page /\ tab'.session = q.session /\ tab'.cursor = q.cursor
      /\ ~tab'.ready /\ tab'.fb = q.fb /\ tab'.chain = q.chain
  <2>1. PICK b \in BOOLEAN : b = (q.replayed \/ Replay(p))
    OBVIOUS
  <2>2. tab' = [q EXCEPT !.ready = FALSE, !.timer = FALSE, !.replayed = b]
    BY <1>2, <2>1
  <2>3. QED
    BY <1>1, <2>2 DEF Page
<1>4. PICK from \in {0, p.cursor} :
        sock' = [NoSock EXCEPT !.state = "connecting", !.want = p.session, !.from = from]
  BY DEF Connect
<1>5. from \in Chunks /\ p.session \in Ids \cup {NoSession}
  BY Sizes DEF Page
<1>6. /\ sock' \in Sock /\ sock'.state = "connecting" /\ sock'.want = p.session
      /\ sock'.from = from
  BY <1>4, <1>5, NoSockType DEF Sock
<1>7. QED
  BY <1>1, <1>3, <1>6

\* The page connects; whatever was under way is given up.
LEMMA Connects ==
  ASSUME TIInv, ~past.late, NEW p \in Page, Connect(p), p.chain >= tab.chain,
         p.session = NoSession => p.cursor = 0,
         UNCHANGED <<term, born, doomed, past>>,
         NEW cs \in [Slots -> Call \cup {Free}], calls' = Stale(cs),
         \A c \in Slots : cs[c] # Free => WellFilled(cs[c]),
         keys' \in 0..MaxKeys, moves' \in 0..MaxMoves, losses' \in 0..MaxLosses,
         typed' \subseteq Typed, \A t \in typed' : t.chain <= p.chain,
         screen' \in Seq(Ids \X (1..MaxChunks)),
         TTypeOK' => ShownUpToCursor'
  PROVE  TIInv'
<1>1. TTypeOK /\ TInv
  BY DEF TIInv
<1>2. /\ tab' \in Page /\ tab'.session = p.session /\ tab'.cursor = p.cursor
      /\ ~tab'.ready /\ tab'.fb = NoSession /\ tab'.chain >= p.chain
      /\ sock' \in Sock /\ sock'.state = "connecting" /\ sock'.want = p.session
      /\ sock'.from \in {0, p.cursor}
  BY ConnectType
<1>3. calls' \in [Slots -> Call \cup {Free}] /\ Filled' /\ \A c \in Slots : ~WaitedFor(c)'
  BY TurnedAway
<1>4. TTypeOK'
  BY <1>1, <1>2, <1>3 DEF TTypeOK
<1>5. Asking' /\ Stream' /\ ShownUpToCursor'
  BY <1>2, <1>3, <1>4, NothingAsked, NoStream
<1>6. Queue'
  <2>1. tab.chain >= 1 /\ tab.chain \in Nat /\ p.chain \in Nat /\ tab'.chain \in Nat
    BY <1>1, <1>2, Parts DEF TInv, Queue, Page
  <2>2. \A t \in typed' : t.chain \in Nat
    BY DEF Typed
  <2>3. \A t \in typed' : t.chain <= tab'.chain
    BY <1>2, <2>1, <2>2
  <2>4. tab'.chain >= 1
    BY <1>2, <2>1
  <2>5. QED
    BY <1>2, <2>3, <2>4 DEF Queue
<1>7. Connection' /\ InputReachesItsSession'
  BY <1>1, <1>2 DEF TInv, Connection, InputReachesItsSession
<1>8. QED
  BY <1>3, <1>4, <1>5, <1>6, <1>7 DEF TIInv, TInv

\* The page changes in what nobody relies on.
LEMMA OnlyPage ==
  ASSUME TIInv, ~past.late, UNCHANGED <<born, doomed, sock, calls, screen>>,
         term' \in [Ids -> Term],
         keys' \in 0..MaxKeys, moves' \in 0..MaxMoves, losses' \in 0..MaxLosses,
         tab' \in Page, tab'.session = tab.session, tab'.cursor = tab.cursor,
         tab'.fb = tab.fb, tab'.fcur = tab.fcur, tab'.chain = tab.chain, tab'.ready = tab.ready,
         typed' \subseteq Typed, Queue',
         past' \in Past, past'.late = past.late, past'.strayed = past.strayed,
         past'.evicted = past.evicted
  PROVE  TIInv'
<1>1. TTypeOK /\ Filled /\ TInv
  BY DEF TIInv
<1>2. TTypeOK'
  BY <1>1 DEF TTypeOK
<1>3. Filled'
  BY <1>1 DEF Filled
<1>4. Asking' /\ Stream' /\ ShownUpToCursor'
  BY <1>1, AskingKept, StreamKept, ShownKept, Parts DEF TInv
<1>5. Connection' /\ InputReachesItsSession'
  BY <1>1 DEF TInv, Connection, InputReachesItsSession
<1>6. QED
  BY <1>1, <1>2, <1>3, <1>4, <1>5 DEF TIInv, TInv


\* The page after a connection has ended.
LEMMA Closes ==
  ASSUME TTypeOK, SocketClosed
  PROVE  /\ tab' \in Page /\ ~tab'.ready
         /\ tab'.session = tab.session /\ tab'.cursor = tab.cursor
         /\ tab'.fb = tab.fb /\ tab'.fcur = tab.fcur /\ tab'.chain = tab.chain
<1>1. tab \in Page
  BY DEF TTypeOK
<1>2. PICK b \in BOOLEAN : tab' = [tab EXCEPT !.ready = FALSE, !.timer = b]
  <2>1. tab.timer \in BOOLEAN /\ (tab.timer \/ tab.session # NoSession) \in BOOLEAN
    BY <1>1 DEF Page
  <2>2. CASE tab' = [tab EXCEPT !.ready = FALSE]
    <3>1. tab' = [tab EXCEPT !.ready = FALSE, !.timer = tab.timer]
      BY <1>1, <2>2 DEF Page
    <3>2. QED
      BY <2>1, <3>1
  <2>3. CASE tab' = [tab EXCEPT !.ready = FALSE, !.timer = @ \/ tab.session # NoSession]
    BY <2>1, <2>3
  <2>4. QED
    BY <2>2, <2>3 DEF SocketClosed
<1>3. QED
  BY <1>1, <1>2 DEF Page

\* The fallback is asked for only when nothing else is.
LEMMA KeepsSocketClosed ==
  ASSUME TIInv, ~past.late, SocketClosed
  PROVE  TIInv'
<1>1. /\ TTypeOK /\ Filled /\ TInv /\ calls \in [Slots -> Call \cup {Free}]
  BY DEF TIInv, TTypeOK
<1>2. /\ UNCHANGED <<term, born, doomed, typed, screen, past, keys, moves, losses>>
      /\ sock' = NoSock /\ sock.state # "none"
  BY DEF SocketClosed, Ended, server, limits
<1>3. sock' \in Sock /\ sock'.state = "none"
  BY <1>2, NoSockType
<1>4. /\ tab' \in Page /\ ~tab'.ready
      /\ tab'.session = tab.session /\ tab'.cursor = tab.cursor
      /\ tab'.fb = tab.fb /\ tab'.fcur = tab.fcur /\ tab'.chain = tab.chain
  BY <1>1, Closes
<1>5. tab.fb = NoSession /\ \A c \in Slots : ~WaitedFor(c)
  BY <1>1, <1>2 DEF TInv, Connection, Asking
<1>6. \/ calls' = calls
      \/ \E c \in Slots : calls[c] = Free
                          /\ calls' = [calls EXCEPT ![c] = NewCall("start", tab.session, 0)]
  BY DEF SocketClosed, Send, FreeSlots
<1>7. /\ calls' \in [Slots -> Call \cup {Free}] /\ Filled' /\ Asking'
  <2>1. CASE calls' = calls
    <3>1. Filled' /\ \A c \in Slots : ~WaitedFor(c)'
      BY <1>1, <1>5, <2>1 DEF Filled, WaitedFor
    <3>2. QED
      BY <1>1, <2>1, <3>1, NothingAsked
  <2>2. ASSUME NEW c \in Slots, calls[c] = Free,
               calls' = [calls EXCEPT ![c] = NewCall("start", tab.session, 0)]
        PROVE  calls' \in [Slots -> Call \cup {Free}] /\ Filled' /\ Asking'
    <3> DEFINE x == NewCall("start", tab.session, 0)
    <3>1. /\ x \in Call /\ x # Free /\ x.kind = "start" /\ x.step = "sent" /\ x.awaited
          /\ x.id = tab.session /\ x.cursor = 0 /\ x.lo = 1
      BY <1>1, Parts, Sizes, NewCallType, CallIsNotFree DEF NewCall
    <3> HIDE DEF x
    <3>2. \A d \in Slots : calls'[d] = IF d = c THEN x ELSE calls[d]
      BY <1>1, <2>2 DEF x
    <3>3. WellFilled(x) /\ RightlyAsked(x, tab', past'.evicted)
      BY <1>4, <3>1 DEF WellFilled, RightlyAsked
    <3>4. calls' \in [Slots -> Call \cup {Free}]
      BY <1>1, <2>2, <3>1 DEF x
    <3>5. Filled'
      BY <1>1, <3>2, <3>3 DEF Filled
    <3>6. \A d \in Slots : WaitedFor(d)' => d = c
      BY <1>5, <3>2 DEF WaitedFor
    <3>7. Asking'
      BY <1>3, <3>2, <3>3, <3>6 DEF Asking
    <3>8. QED
      BY <3>4, <3>5, <3>7
  <2>3. QED
    BY <1>6, <2>1, <2>2
<1>8. TTypeOK'
  BY <1>1, <1>2, <1>3, <1>4, <1>7 DEF TTypeOK
<1>9. Stream' /\ Queue' /\ ShownUpToCursor'
  BY <1>1, <1>2, <1>3, <1>4, NoStream, QueueKept, ShownKept, Parts DEF TInv
<1>10. Connection' /\ InputReachesItsSession'
  BY <1>1, <1>2, <1>3, <1>4, <1>5 DEF TInv, Connection, InputReachesItsSession
<1>11. QED
  BY <1>7, <1>8, <1>9, <1>10 DEF TIInv, TInv

\* The page connects as it is.
LEMMA ConnectsAsItIs ==
  ASSUME TIInv, ~past.late, Connect(tab), calls' = Stale(calls),
         UNCHANGED <<term, born, doomed, screen, past>>,
         keys' \in 0..MaxKeys, moves' \in 0..MaxMoves, losses' \in 0..MaxLosses,
         typed' \subseteq Typed, \A t \in typed' : t.chain <= tab.chain
  PROVE  TIInv'
<1>1. /\ TTypeOK /\ Filled /\ TInv /\ calls \in [Slots -> Call \cup {Free}] /\ tab \in Page
      /\ screen \in Seq(Ids \X (1..MaxChunks))
  BY DEF TIInv, TTypeOK
<1>2. tab.chain >= tab.chain /\ (tab.session = NoSession => tab.cursor = 0)
  BY <1>1, Parts DEF TInv, Connection
<1>3. tab'.session = tab.session /\ tab'.cursor = tab.cursor
  BY <1>1, ConnectType
<1>4. ShownUpToCursor'
  BY <1>1, <1>3, ShownKept, Parts DEF TInv
<1>5. \A c \in Slots : calls[c] # Free => WellFilled(calls[c])
  BY <1>1 DEF Filled
<1>6. QED
  BY <1>1, <1>2, <1>4, <1>5, Connects

\* What waits and the page that it waits in.
LEMMA Waiting ==
  ASSUME TIInv, ~past.late
  PROVE  /\ typed \subseteq Typed /\ \A t \in typed : t.chain <= tab.chain
         /\ keys \in 0..MaxKeys /\ moves \in 0..MaxMoves /\ losses \in 0..MaxLosses
         /\ tab \in Page /\ past \in Past /\ term \in [Ids -> Term]
         /\ born \in 0..MaxSessions /\ doomed \subseteq Ids
  BY DEF TIInv, TTypeOK, TInv, Queue

LEMMA KeepsTimerFires ==
  ASSUME TIInv, ~past.late, TimerFires
  PROVE  TIInv'
<1>1. UNCHANGED <<term, born, doomed, typed, screen, past, keys, moves, losses>>
  BY DEF TimerFires, server, limits
<1>2. CASE Busy
  <2>1. tab' = [tab EXCEPT !.timer = FALSE] /\ UNCHANGED <<sock, calls>>
    BY <1>2 DEF TimerFires
  <2>2. /\ tab' \in Page /\ tab'.session = tab.session /\ tab'.cursor = tab.cursor
        /\ tab'.fb = tab.fb /\ tab'.fcur = tab.fcur /\ tab'.chain = tab.chain
        /\ tab'.ready = tab.ready
    BY <2>1, Waiting DEF Page
  <2>3. Queue'
    BY <1>1, <2>2, QueueKept DEF TIInv, TInv
  <2>4. QED
    BY <1>1, <2>1, <2>2, <2>3, Waiting, OnlyPage
<1>3. CASE ~Busy
  <2>1. Connect(tab) /\ calls' = Stale(calls)
    BY <1>3 DEF TimerFires
  <2>2. QED
    BY <1>1, <2>1, Waiting, ConnectsAsItIs
<1>4. QED
  BY <1>2, <1>3

LEMMA KeepsReconnect ==
  ASSUME TIInv, ~past.late, Reconnect
  PROVE  TIInv'
<1>1. /\ UNCHANGED <<term, born, doomed, typed, screen, past>>
      /\ Connect(tab) /\ calls' = Stale(calls) /\ Move
  BY DEF Reconnect, server
<1>2. keys' \in 0..MaxKeys /\ moves' \in 0..MaxMoves /\ losses' \in 0..MaxLosses
  BY <1>1, Counts DEF TIInv
<1>3. QED
  BY <1>1, <1>2, Waiting, ConnectsAsItIs

LEMMA KeepsClear ==
  ASSUME TIInv, ~past.late, Clear
  PROVE  TIInv'
<1>1. /\ UNCHANGED <<term, born, doomed, sock, calls, typed, screen, past>>
      /\ tab' = [tab EXCEPT !.blank = TRUE] /\ Move
  BY DEF Clear, server
<1>2. keys' \in 0..MaxKeys /\ moves' \in 0..MaxMoves /\ losses' \in 0..MaxLosses
  BY <1>1, Counts DEF TIInv
<1>3. /\ tab' \in Page /\ tab'.session = tab.session /\ tab'.cursor = tab.cursor
      /\ tab'.fb = tab.fb /\ tab'.fcur = tab.fcur /\ tab'.chain = tab.chain
      /\ tab'.ready = tab.ready
  BY <1>1, Waiting DEF Page
<1>4. Queue'
  BY <1>1, <1>3, QueueKept DEF TIInv, TInv
<1>5. QED
  BY <1>1, <1>2, <1>3, <1>4, Waiting, OnlyPage

\* A close request has returned: the page goes on with a new connection.
LEMMA KeepsCloseReturns ==
  ASSUME TIInv, ~past.late, NEW c \in Slots, CloseReturns(c)
  PROVE  TIInv'
<1>1. /\ TTypeOK /\ Filled /\ TInv /\ calls \in [Slots -> Call \cup {Free}] /\ tab \in Page
      /\ screen \in Seq(Ids \X (1..MaxChunks))
  BY DEF TIInv, TTypeOK
<1>2. /\ UNCHANGED <<term, born, doomed, typed, screen, past, keys, moves, losses>>
      /\ Connect(tab) /\ calls' = Stale([calls EXCEPT ![c] = Free])
  BY DEF CloseReturns, server, limits
<1> DEFINE cs == [calls EXCEPT ![c] = Free]
<1>3. cs \in [Slots -> Call \cup {Free}] /\ \A d \in Slots : cs[d] # Free => WellFilled(cs[d])
  BY <1>1 DEF Filled
<1>4. calls' = Stale(cs)
  BY <1>2
<1> HIDE DEF cs
<1>5. tab.chain >= tab.chain /\ (tab.session = NoSession => tab.cursor = 0)
  BY <1>1, Parts DEF TInv, Connection
<1>6. tab'.session = tab.session /\ tab'.cursor = tab.cursor
  BY <1>1, <1>2, ConnectType
<1>7. ShownUpToCursor'
  BY <1>1, <1>2, <1>6, ShownKept, Parts DEF TInv
<1>8. QED
  BY <1>1, <1>2, <1>3, <1>4, <1>5, <1>7, Waiting, Connects

\* Input that is posted reaches its session, unless its fallback was given up before.
LEMMA KeepsPostInput ==
  ASSUME TIInv, ~past.late, NEW t \in typed, PostInput(t)
  PROVE  TIInv'
<1>1. TTypeOK /\ Queue /\ UNCHANGED <<born, doomed, sock, calls, tab, screen, keys, moves, losses>>
  BY DEF TIInv, TInv, PostInput, limits
<1>2. typed' = typed \ {t} /\ term' = AfterGet(tab.fb)
  BY DEF PostInput
<1>3. term' \in [Ids -> Term]
  BY <1>1, <1>2, GetType, Parts
<1>4. Found(tab.fb) /\ t.chain = tab.chain => t.for \in {NoSession, tab.fb}
  BY <1>1 DEF Queue, Found
<1>5. past' \in {past, [past EXCEPT !.outlived = TRUE]}
  BY <1>4 DEF PostInput, Strays
<1>6. /\ past' \in Past /\ past'.late = past.late /\ past'.strayed = past.strayed
      /\ past'.evicted = past.evicted
  BY <1>5, Waiting DEF Past
<1>7. typed' \subseteq typed /\ Queue'
  BY <1>1, <1>2, QueueKept
<1>8. QED
  BY <1>1, <1>3, <1>6, <1>7, Waiting, OnlyPage

LEMMA KeepsTrim ==
  ASSUME TIInv, ~past.late, NEW t \in typed, Trim(t)
  PROVE  TIInv'
<1>1. /\ UNCHANGED <<term, born, doomed, sock, calls, tab, screen, past, keys, moves, losses>>
      /\ typed' \subseteq typed
  BY DEF Trim, server, limits
<1>2. Queue'
  BY <1>1, QueueKept DEF TIInv, TInv
<1>3. QED
  BY <1>1, <1>2, Waiting, OnlyPage

\* Input that is typed is for the session that the page shows: the one it is sent to, the
\* one its fallback has, or the one it waits for.
LEMMA KeepsType ==
  ASSUME TIInv, ~past.late, Type
  PROVE  TIInv'
<1>1. /\ TTypeOK /\ Connection /\ Stream /\ Queue
      /\ UNCHANGED <<term, born, doomed, screen, moves, losses>>
      /\ keys < MaxKeys /\ keys' = keys + 1
  BY DEF TIInv, TInv, Type, server
<1>2. /\ keys' \in 0..MaxKeys /\ keys + 1 \in 1..MaxKeys
      /\ moves' \in 0..MaxMoves /\ losses' \in 0..MaxLosses
  BY <1>1, Waiting, Sizes
<1>3. CASE tab.ready /\ sock.state = "open"
  <2>1. /\ past' = [past EXCEPT !.strayed = @ \/ tab.session \notin {NoSession, sock.served}]
        /\ UNCHANGED <<typed, tab, sock, calls>>
    BY <1>3 DEF Type
  <2>2. tab.session = sock.served
    BY <1>1, <1>3 DEF Stream, Connected
  <2>3. (past.strayed \/ tab.session \notin {NoSession, sock.served}) = past.strayed
    BY <1>1, <2>2, Parts
  <2>4. /\ past' \in Past /\ past'.late = past.late /\ past'.strayed = past.strayed
        /\ past'.evicted = past.evicted
    BY <2>1, <2>3, Waiting DEF Past
  <2>5. Queue'
    BY <1>1, <2>1 DEF Queue
  <2>6. QED
    BY <1>1, <1>2, <2>1, <2>4, <2>5, Waiting, OnlyPage
<1>4. CASE ~(tab.ready /\ sock.state = "open")
  <2> DEFINE new(chain) == [n |-> keys + 1, for |-> tab.session, chain |-> chain]
  <2>1. \A chain \in Nat : /\ new(chain) \in Typed /\ new(chain).for = tab.session
                           /\ new(chain).chain = chain
    BY <1>1, <1>2, Parts DEF Typed
  <2>2. UNCHANGED past
    BY <1>4 DEF Type
  <2>3. CASE tab.fb # NoSession
    <3>1. typed' = typed \cup {new(tab.chain)} /\ UNCHANGED <<tab, sock, calls>>
      BY <1>4, <2>3 DEF Type
    <3> HIDE DEF new
    <3>2. typed' \subseteq Typed
      BY <1>1, <2>1, <3>1, Waiting, Parts
    <3>3. /\ new(tab.chain).for = tab.fb /\ new(tab.chain).chain = tab.chain
          /\ tab.chain <= tab.chain
      BY <1>1, <2>1, <2>3, Parts DEF Connection
    <3>4. Queue'
      BY <1>1, <3>1, <3>3 DEF Queue
    <3>5. QED
      BY <1>1, <1>2, <2>2, <3>1, <3>2, <3>4, Waiting, OnlyPage
  <2>4. CASE tab.fb = NoSession
    <3>1. typed' = typed \cup {new(0)}
      BY <1>4, <2>4 DEF Type
    <3>2. \/ UNCHANGED <<tab, sock, calls>>
          \/ Connect(tab) /\ calls' = Stale(calls)
      BY <1>4, <2>4 DEF Type
    <3> HIDE DEF new
    <3>3. typed' \subseteq Typed
      BY <1>1, <2>1, <3>1, Waiting
    <3>4. new(0).chain = 0 /\ 0 <= tab.chain /\ tab.chain # 0
      BY <1>1, <2>1, Parts DEF Queue
    <3>5. \A t \in typed' : t.chain <= tab.chain
      BY <3>1, <3>4, Waiting
    <3>6. CASE UNCHANGED <<tab, sock, calls>>
      <4>1. Queue'
        BY <1>1, <2>4, <3>5, <3>6 DEF Queue
      <4>2. QED
        BY <1>1, <1>2, <2>2, <3>3, <3>6, <4>1, Waiting, OnlyPage
    <3>7. CASE Connect(tab) /\ calls' = Stale(calls)
      BY <1>1, <1>2, <2>2, <3>3, <3>5, <3>7, ConnectsAsItIs
    <3>8. QED
      BY <3>2, <3>6, <3>7
  <2>5. QED
    BY <2>3, <2>4
<1>5. QED
  BY <1>3, <1>4

\* A new terminal: the page forgets its session, and with it what it shows.
LEMMA KeepsForceNew ==
  ASSUME TIInv, ~past.late, ForceNew
  PROVE  TIInv'
<1>1. /\ TTypeOK /\ Filled /\ TInv /\ calls \in [Slots -> Call \cup {Free}] /\ tab \in Page
      /\ UNCHANGED <<term, born, doomed, past>> /\ Move
      /\ typed' = {t \in typed : t.chain # 0} /\ screen' = <<>>
  BY DEF TIInv, TTypeOK, ForceNew, server
<1>2. keys' \in 0..MaxKeys /\ moves' \in 0..MaxMoves /\ losses' \in 0..MaxLosses
  BY <1>1, Counts
<1> DEFINE q == StopFallback(tab)
           p == [q EXCEPT !.ready = FALSE, !.timer = FALSE, !.session = NoSession,
                          !.cursor = 0, !.blank = TRUE]
<1>3. q \in Page /\ q.fb = NoSession /\ q.chain >= tab.chain
  BY <1>1, StopsFallback
<1>4. \/ tab.session = NoSession /\ Connect(p) /\ calls' = Stale(calls)
      \/ /\ tab.session # NoSession /\ tab' = p /\ sock' = NoSock
         /\ \E c \in Slots : calls' = [Stale(calls) EXCEPT ![c] = NewCall("close", tab.session, 0)]
  BY DEF ForceNew, FreeSlots
<1> HIDE DEF q
<1>5. /\ p \in Page /\ p.session = NoSession /\ p.cursor = 0 /\ p.fb = NoSession
      /\ p.chain = q.chain /\ ~p.ready
  BY <1>3, Sizes DEF Page
<1> HIDE DEF p
<1>6. /\ typed' \subseteq Typed /\ \A t \in typed' : t.chain <= p.chain
      /\ p.chain >= tab.chain /\ p.chain >= 1
  <2>1. tab.chain \in Nat /\ q.chain \in Nat /\ tab.chain >= 1
    BY <1>1, <1>3, Parts DEF Page, TInv, Queue
  <2>2. \A t \in typed : t.chain \in Nat /\ t.chain <= tab.chain
    BY Waiting DEF Typed
  <2>3. QED
    BY <1>1, <1>3, <1>5, <2>1, <2>2, Waiting
<1>7. screen' \in Seq(Ids \X (1..MaxChunks))
  BY <1>1
<1>8. CASE Connect(p) /\ calls' = Stale(calls)
  <2>1. tab'.cursor = 0
    BY <1>5, <1>8, ConnectType
  <2>2. ShownUpToCursor'
    BY <1>1, <2>1, ShownNothing
  <2>3. \A c \in Slots : calls[c] # Free => WellFilled(calls[c])
    BY <1>1 DEF Filled
  <2>4. QED
    BY <1>1, <1>2, <1>5, <1>6, <1>7, <1>8, <2>2, <2>3, Connects
<1>9. ASSUME tab.session # NoSession, tab' = p, sock' = NoSock,
             NEW c \in Slots, calls' = [Stale(calls) EXCEPT ![c] = NewCall("close", tab.session, 0)]
      PROVE  TIInv'
  <2> DEFINE x == NewCall("close", tab.session, 0)
  <2>1. /\ x \in Call /\ x # Free /\ x.kind = "close" /\ x.step = "sent" /\ x.awaited
        /\ x.id = tab.session /\ x.cursor = 0 /\ x.lo = 1
    BY <1>1, Parts, Sizes, NewCallType, CallIsNotFree DEF NewCall
  <2>2. calls' = [Stale(calls) EXCEPT ![c] = x]
    BY <1>9
  <2> HIDE DEF x
  <2>3. Stale(calls) \in [Slots -> Call \cup {Free}]
    BY <1>1, StaleType
  <2>4. /\ calls' \in [Slots -> Call \cup {Free}]
        /\ \A d \in Slots : calls'[d] = IF d = c THEN x ELSE Stale(calls)[d]
    BY <2>1, <2>2, <2>3
  <2>5. \A d \in Slots :
          Stale(calls)[d] # Free => /\ WellFilled(Stale(calls)[d])
                                    /\ Stale(calls)[d].kind = "close" \/ Stale(calls)[d].stale
    BY <1>1, StaleType DEF Filled
  <2>6. WellFilled(x)
    BY <1>9, <2>1 DEF WellFilled
  <2>7. Filled'
    BY <2>4, <2>5, <2>6 DEF Filled
  <2>8. \A d \in Slots : ~WaitedFor(d)'
    BY <2>1, <2>4, <2>5 DEF WaitedFor
  <2>9. sock' \in Sock /\ sock'.state = "none"
    BY <1>9, NoSockType
  <2>10. TTypeOK'
    BY <1>1, <1>2, <1>5, <1>6, <1>7, <1>9, <2>4, <2>9 DEF TTypeOK
  <2>11. Asking' /\ Stream' /\ ShownUpToCursor'
    BY <1>1, <1>5, <1>9, <2>8, <2>9, NothingAsked, NoStream, ShownNothing
  <2>12. Queue'
    BY <1>5, <1>6, <1>9 DEF Queue
  <2>13. Connection' /\ InputReachesItsSession'
    BY <1>1, <1>5, <1>9, <2>9 DEF TInv, Connection, InputReachesItsSession
  <2>14. QED
    BY <2>7, <2>10, <2>11, <2>12, <2>13 DEF TIInv, TInv
<1>10. QED
  BY <1>4, <1>8, <1>9

\* A page that is loaded again connects from the start.
LEMMA KeepsReload ==
  ASSUME TIInv, ~past.late, Reload
  PROVE  TIInv'
<1>1. /\ TTypeOK /\ Filled /\ TInv /\ calls \in [Slots -> Call \cup {Free}] /\ tab \in Page
      /\ UNCHANGED <<term, born, doomed, past>> /\ Move
      /\ typed' = {} /\ screen' = <<>>
  BY DEF TIInv, TTypeOK, Reload, server
<1>2. keys' \in 0..MaxKeys /\ moves' \in 0..MaxMoves /\ losses' \in 0..MaxLosses
  BY <1>1, Counts
<1>3. tab' = [tab EXCEPT !.cursor = 0, !.replayed = FALSE, !.ready = FALSE, !.timer = FALSE,
                         !.blank = TRUE, !.fb = NoSession, !.fcur = 0, !.polling = FALSE]
  BY DEF Reload
<1>4. /\ tab' \in Page /\ tab'.session = tab.session /\ tab'.cursor = 0 /\ ~tab'.ready
      /\ tab'.fb = NoSession /\ tab'.chain = tab.chain
  BY <1>1, <1>3, Sizes DEF Page
<1>5. /\ sock' \in Sock /\ sock'.state = "connecting" /\ sock'.want = tab.session /\ sock'.from = 0
  BY <1>1, NoSockType, Parts DEF Reload, NoSock, Sock
<1>6. \A c \in Slots :
        \/ calls'[c] = Free
        \/ /\ calls[c] # Free /\ calls[c].step \in {"sent", "reading"}
           /\ calls'[c] = [calls[c] EXCEPT !.awaited = FALSE]
  <2>1. \A c \in Slots :
          calls'[c] = IF calls[c] = Free \/ calls[c].step \in {"answered", "failed"} THEN Free
                      ELSE [calls[c] EXCEPT !.awaited = FALSE]
    BY DEF Reload
  <2>2. QED
    BY <1>1, <2>1, Slot
<1>7. \A c \in Slots :
        \/ calls'[c] = Free
        \/ /\ calls'[c] \in Call /\ ~calls'[c].awaited /\ WellFilled(calls'[c])
  <2> SUFFICES ASSUME NEW c \in Slots, calls'[c] # Free
               PROVE  calls'[c] \in Call /\ ~calls'[c].awaited /\ WellFilled(calls'[c])
    OBVIOUS
  <2> DEFINE x == [calls[c] EXCEPT !.awaited = FALSE]
  <2>1. /\ calls[c] \in Call /\ WellFilled(calls[c]) /\ calls[c].step \in {"sent", "reading"}
        /\ calls'[c] = x
    BY <1>1, <1>6 DEF Filled
  <2>2. /\ x \in Call /\ ~x.awaited /\ x.step = calls[c].step /\ x.kind = calls[c].kind
        /\ x.id = calls[c].id /\ x.lo = calls[c].lo /\ x.cursor = calls[c].cursor
    BY <2>1 DEF Call
  <2> HIDE DEF x
  <2>3. WellFilled(x)
    BY <2>1, <2>2 DEF WellFilled
  <2>4. QED
    BY <2>1, <2>2, <2>3
<1>8. calls' \in [Slots -> Call \cup {Free}]
  <2>1. calls' = [c \in Slots |-> calls'[c]]
    BY DEF Reload
  <2>2. QED
    BY <1>7, <2>1
<1>9. Filled' /\ \A c \in Slots : ~WaitedFor(c)'
  BY <1>7 DEF Filled, WaitedFor
<1>10. TTypeOK'
  BY <1>1, <1>2, <1>4, <1>5, <1>8 DEF TTypeOK
<1>11. Asking' /\ Stream' /\ ShownUpToCursor'
  BY <1>1, <1>4, <1>5, <1>9, NothingAsked, NoStream, ShownNothing
<1>12. Queue'
  BY <1>1, <1>4 DEF TInv, Queue
<1>13. Connection' /\ InputReachesItsSession'
  BY <1>1, <1>4, <1>5 DEF TInv, Connection, InputReachesItsSession
<1>14. QED
  BY <1>9, <1>10, <1>11, <1>12, <1>13 DEF TIInv, TInv

-----------------------------------------------------------------------------
(* The web terminal: what the page receives *)

\* A screen goes on with n chunks, the first of them numbered lo.
Goes(x, y, s, k, n, lo) ==
  /\ DOMAIN x = 1..k /\ DOMAIN y = 1..(k + n)
  /\ \A i \in 1..k : y[i] = x[i]
  /\ \A i \in 1..n : y[k + i] = <<s, lo + i - 1>>

LEMMA Concatenated ==
  ASSUME NEW S, NEW x \in Seq(S), NEW y \in Seq(S)
  PROVE  /\ x \o y \in Seq(S) /\ Len(x \o y) = Len(x) + Len(y)
         /\ DOMAIN x = 1..Len(x) /\ DOMAIN (x \o y) = 1..(Len(x) + Len(y))
         /\ \A i \in 1..Len(x) : (x \o y)[i] = x[i]
         /\ \A i \in 1..Len(y) : (x \o y)[Len(x) + i] = y[i]
<1>1. x \o y \in Seq(S) /\ Len(x \o y) = Len(x) + Len(y)
  OBVIOUS
<1>2. DOMAIN x = 1..Len(x)
  OBVIOUS
<1>3. DOMAIN (x \o y) = 1..(Len(x) + Len(y))
  BY <1>1
<1>4. \A i \in 1..Len(x) : (x \o y)[i] = x[i]
  OBVIOUS
<1>5. \A i \in 1..Len(y) : (x \o y)[Len(x) + i] = y[i]
  OBVIOUS
<1>6. QED
  BY <1>1, <1>2, <1>3, <1>4, <1>5

LEMMA ScreenGoes ==
  ASSUME NEW x \in Seq(Ids \X (1..MaxChunks)), NEW s \in Ids, NEW lo \in 1..(MaxChunks + 1),
         NEW hi \in Chunks, lo <= hi + 1
  PROVE  /\ x \o Chunk(s, lo, hi) \in Seq(Ids \X (1..MaxChunks))
         /\ Goes(x, x \o Chunk(s, lo, hi), s, Len(x), hi - lo + 1, lo)
<1> DEFINE c == Chunk(s, lo, hi)
<1>1. /\ c \in Seq(Ids \X (1..MaxChunks)) /\ Len(c) = hi - lo + 1
      /\ \A i \in 1..(hi - lo + 1) : c[i] = <<s, lo + i - 1>>
  BY ChunkType
<1> HIDE DEF c
<1>2. PICK k \in Nat, n \in Nat : k = Len(x) /\ n = Len(c)
  BY <1>1
<1>3. /\ x \o c \in Seq(Ids \X (1..MaxChunks)) /\ Len(x \o c) = k + n
      /\ DOMAIN x = 1..k /\ DOMAIN (x \o c) = 1..(k + n)
      /\ \A i \in 1..k : (x \o c)[i] = x[i]
      /\ \A i \in 1..n : (x \o c)[k + i] = c[i]
  <2> DEFINE S == Ids \X (1..MaxChunks)
  <2>1. x \in Seq(S) /\ c \in Seq(S)
    BY <1>1
  <2> HIDE DEF S
  <2>2. /\ x \o c \in Seq(S) /\ Len(x \o c) = Len(x) + Len(c)
        /\ DOMAIN x = 1..Len(x) /\ DOMAIN (x \o c) = 1..(Len(x) + Len(c))
        /\ \A i \in 1..Len(x) : (x \o c)[i] = x[i]
        /\ \A i \in 1..Len(c) : (x \o c)[Len(x) + i] = c[i]
    BY <2>1, Concatenated
  <2>3. QED
    BY <1>2, <2>2 DEF S
<1>4. Goes(x, x \o c, s, k, n, lo)
  BY <1>1, <1>2, <1>3 DEF Goes
<1>5. QED
  BY <1>1, <1>2, <1>3, <1>4 DEF c

\* A page that has the chunks of a session up to its cursor, and is given those that follow.
LEMMA ShownGoes ==
  ASSUME TTypeOK, ShownUpToCursor, ~past.late,
         NEW s \in Ids, tab.session = s, tab'.session = s,
         NEW lo \in Nat, NEW hi \in Nat, NEW k \in Nat, NEW n \in Nat, n = hi - lo + 1,
         Continues(past'.evicted, s, tab.cursor, lo, hi), past.evicted \subseteq past'.evicted,
         Goes(screen, screen', s, k, n, lo), tab'.cursor = hi
  PROVE  ShownUpToCursor'
<1>5. \A i \in 1..k : screen'[i] = screen[i]
  BY DEF Goes
<1>6. \A i \in 1..n : screen'[k + i] = <<s, lo + i - 1>>
  BY DEF Goes
<1>7. DOMAIN screen' = 1..(k + n) /\ DOMAIN screen = 1..k
  BY DEF Goes
<1>4. n = hi - lo + 1
  OBVIOUS
<1>8. tab.cursor \in Nat /\ lo \in Nat /\ hi \in Nat /\ tab.cursor < lo /\ tab.cursor <= hi
  BY Parts, Sizes DEF Continues
<1>9. \A i \in 1..k : screen[i][1] \in Ids /\ screen[i][2] \in Nat
  <2>1. screen \in Seq(Ids \X (1..MaxChunks))
    BY DEF TTypeOK
  <2>2. \A i \in DOMAIN screen : screen[i] \in Ids \X (1..MaxChunks)
    BY <2>1
  <2>3. \A i \in 1..k : screen[i] \in Ids \X (1..MaxChunks)
    BY <1>7, <2>2
  <2>4. \A z \in Ids \X (1..MaxChunks) : z[1] \in Ids /\ z[2] \in Nat
    OBVIOUS
  <2>5. QED
    BY <2>3, <2>4
<1>10. \A i \in 1..k : screen[i][1] = s => screen[i][2] <= tab.cursor
  BY <1>7 DEF ShownUpToCursor
<1>11. ASSUME NEW i \in 1..(k + n), NEW j \in 1..(k + n), i < j,
              screen'[i][1] = s, screen'[j][1] = s
       PROVE  screen'[i][2] < screen'[j][2]
  <2>1. CASE j \in 1..k
    <3>1. i \in 1..k
      BY <1>4, <1>11, <2>1
    <3>2. screen'[i] = screen[i] /\ screen'[j] = screen[j]
      BY <1>5, <2>1, <3>1
    <3>3. QED
      BY <1>7, <1>11, <2>1, <3>1, <3>2 DEF ShownUpToCursor
  <2>2. CASE j \notin 1..k
    <3>1. j - k \in 1..n /\ j = k + (j - k)
      BY <1>4, <1>11, <2>2
    <3>2. PICK b \in 1..n : j = k + b /\ screen'[j] = <<s, lo + b - 1>>
      BY <1>6, <3>1
    <3>3. CASE i \in 1..k
      <4>1. screen'[i] = screen[i] /\ screen[i][2] <= tab.cursor /\ screen[i][2] \in Nat
        BY <1>5, <1>9, <1>10, <1>11, <3>3
      <4>2. screen'[j][2] = lo + b - 1 /\ b \in Nat /\ b >= 1
        BY <3>2
      <4>3. screen'[i][2] = screen[i][2]
        BY <4>1
      <4>4. screen[i][2] \in Nat /\ screen[i][2] <= tab.cursor
        BY <4>1
      <4>5. QED
        BY <1>8, <4>2, <4>3, <4>4
    <3>4. CASE i \notin 1..k
      <4>1. i - k \in 1..n /\ i = k + (i - k)
        BY <1>4, <1>11, <3>4
      <4>2. PICK a \in 1..n : i = k + a /\ screen'[i] = <<s, lo + a - 1>>
        BY <1>6, <4>1
      <4>3. screen'[i][2] = lo + a - 1 /\ screen'[j][2] = lo + b - 1
        BY <3>2, <4>2
      <4>4. a < b
        BY <1>4, <1>11, <3>2, <4>2
      <4>5. QED
        BY <1>4, <1>8, <4>3, <4>4
    <3>5. QED
      BY <3>3, <3>4
  <2>3. QED
    BY <2>1, <2>2
<1>12. ASSUME NEW m \in 1..hi, <<s, m>> \notin past'.evicted
       PROVE  \E i \in 1..(k + n) : screen'[i] = <<s, m>>
  <2>1. CASE m <= tab.cursor
    <3>1. <<s, m>> \notin past.evicted /\ m \in 1..tab.cursor
      BY <1>8, <1>12, <2>1
    <3>2. s # NoSession
      BY Sizes
    <3>3. PICK i \in 1..k : screen[i] = <<s, m>>
      BY <1>7, <3>1, <3>2 DEF ShownUpToCursor
    <3>4. i \in 1..(k + n)
      BY <1>4
    <3>5. QED
      BY <1>5, <3>3, <3>4
  <2>2. CASE m > tab.cursor
    <3>1. m >= lo
      <4>1. m \notin (tab.cursor + 1)..(lo - 1)
        BY <1>12 DEF Continues
      <4>2. QED
        BY <1>8, <2>2, <4>1
    <3>2. PICK a \in 1..n : lo + a - 1 = m
      <4>1. m - lo + 1 \in 1..n /\ lo + (m - lo + 1) - 1 = m
        BY <1>4, <1>8, <1>12, <3>1
      <4>2. QED
        BY <4>1
    <3>3. screen'[k + a] = <<s, m>>
      BY <1>6, <3>2
    <3>4. k + a \in 1..(k + n)
      BY <1>4
    <3>5. QED
      BY <3>3, <3>4
  <2>3. QED
    BY <1>8, <2>1, <2>2
<1>13. ASSUME NEW i \in 1..(k + n), screen'[i][1] = s
       PROVE  screen'[i][2] <= hi
  <2>1. CASE i \in 1..k
    <3>1. screen'[i] = screen[i] /\ screen[i][2] <= tab.cursor /\ screen[i][2] \in Nat
      BY <1>5, <1>9, <1>10, <1>13, <2>1
    <3>2. QED
      BY <1>8, <3>1
  <2>2. CASE i \notin 1..k
    <3>1. i - k \in 1..n /\ i = k + (i - k)
      BY <1>4, <2>2
    <3>2. PICK a \in 1..n : screen'[i] = <<s, lo + a - 1>>
      BY <1>6, <3>1
    <3>3. screen'[i][2] = lo + a - 1
      BY <3>2
    <3>4. QED
      BY <1>4, <1>8, <3>3
  <2>3. QED
    BY <2>1, <2>2
<1>14. QED
  <2>1. DOMAIN screen' = 1..(k + n) /\ tab'.session = s /\ tab'.cursor = hi
    BY <1>7
  <2>2. QED
    BY <1>11, <1>12, <1>13, <2>1 DEF ShownUpToCursor

LEMMA ShownGrows ==
  ASSUME TTypeOK, ShownUpToCursor, ~past.late,
         NEW s \in Ids, tab.session = s, tab'.session = s,
         NEW lo \in 1..(MaxChunks + 1), NEW hi \in Chunks, lo <= hi + 1,
         Continues(past'.evicted, s, tab.cursor, lo, hi), past.evicted \subseteq past'.evicted,
         screen' = screen \o Chunk(s, lo, hi), tab'.cursor = hi
  PROVE  screen' \in Seq(Ids \X (1..MaxChunks)) /\ ShownUpToCursor'
<1>1. screen \in Seq(Ids \X (1..MaxChunks))
  BY DEF TTypeOK
<1>2. /\ screen' \in Seq(Ids \X (1..MaxChunks))
      /\ Goes(screen, screen', s, Len(screen), hi - lo + 1, lo)
  BY <1>1, ScreenGoes
<1>3. PICK k \in Nat, n \in Nat : k = Len(screen) /\ n = hi - lo + 1
  BY <1>1, Sizes
<1>4. Goes(screen, screen', s, k, n, lo) /\ n = hi - lo + 1 /\ lo \in Nat /\ hi \in Nat
  BY <1>2, <1>3, Sizes
<1>5. QED
  BY <1>2, <1>4, ShownGoes

\* What is left of a stream.
LEMMA Rest ==
  ASSUME NEW x \in Seq(Message), x # <<>>
  PROVE  /\ Tail(x) \in Seq(Message) /\ Len(Tail(x)) = Len(x) - 1 /\ Len(x) >= 1
         /\ Head(x) = x[1] /\ Head(x) \in Message
         /\ \A i \in 1..(Len(x) - 1) : Tail(x)[i] = x[i + 1]
  OBVIOUS

\* The rest of a stream, once its first message has been taken.
Follows(x, y, n) ==
  /\ DOMAIN x = 1..n /\ Len(x) = n /\ DOMAIN y = 1..(n - 1) /\ Len(y) = n - 1
  /\ \A i \in 1..(n - 1) : y[i] = x[i + 1]
  /\ y = <<>> <=> n = 1

LEMMA RestFollows ==
  ASSUME NEW x \in Seq(Message), x # <<>>
  PROVE  \E n \in Nat \ {0} : Follows(x, Tail(x), n)
<1>1. PICK n \in Nat \ {0} : n = Len(x)
  BY Rest, Lengths
<1>2. /\ Tail(x) \in Seq(Message) /\ Len(Tail(x)) = n - 1
      /\ \A i \in 1..(n - 1) : Tail(x)[i] = x[i + 1]
  BY <1>1, Rest
<1>3. DOMAIN Tail(x) = 1..(n - 1) /\ (Tail(x) = <<>> <=> n - 1 = 0)
  BY <1>2, Lengths
<1>4. DOMAIN x = 1..n
  BY <1>1, Lengths
<1> DEFINE y == Tail(x)
<1> HIDE DEF y
<1>5. /\ Len(y) = n - 1 /\ DOMAIN y = 1..(n - 1) /\ (y = <<>> <=> n - 1 = 0)
      /\ \A i \in 1..(n - 1) : y[i] = x[i + 1]
  BY <1>2, <1>3 DEF y
<1>6. n - 1 = 0 <=> n = 1
  OBVIOUS
<1>7. Follows(x, y, n)
  BY <1>1, <1>4, <1>5, <1>6 DEF Follows
<1>8. QED
  BY <1>7 DEF y

LEMMA StreamFollows ==
  ASSUME Stream, Connected, NEW n \in Nat \ {0}, Follows(sock.chan, sock'.chan, n),
         sock'.state = "open", sock'.served = sock.served, sock'.sent = sock.sent,
         sock'.loop = sock.loop,
         tab'.session = sock.served, tab'.cursor = Reach(1),
         past.evicted \subseteq past'.evicted
  PROVE  Stream'
<1>1. n \in Nat /\ n >= 1 /\ n = Len(sock.chan)
  BY DEF Follows
<1>2. /\ Len(sock'.chan) = n - 1 /\ DOMAIN sock'.chan = 1..(n - 1)
      /\ DOMAIN sock.chan = 1..n
      /\ \A i \in 1..(n - 1) : sock'.chan[i] = sock.chan[i + 1]
      /\ (sock'.chan = <<>> <=> n = 1)
  BY DEF Follows
<1>3. \A i \in 1..n : /\ sock.chan[i].type = "session" => i = 1
                      /\ sock.chan[i].type = "bye" => i = n /\ sock.loop = "over"
                      /\ sock.chan[i].type = "output" =>
                           /\ sock.chan[i].id = sock.served /\ sock.chan[i].lo <= sock.chan[i].hi
                           /\ Continues(past.evicted, sock.served, Reach(i - 1), sock.chan[i].lo,
                                        sock.chan[i].hi)
  <2>1. Len(sock.chan) = n /\ DOMAIN sock.chan = 1..n
    BY <1>1, <1>2
  <2>2. QED
    BY <2>1 DEF Stream
<1>4. ~Greeting'
  <2>1. n # 1 => sock'.chan[1] = sock.chan[2] /\ 2 \in 1..n
    <3>1. n # 1 => n >= 2
      OBVIOUS
    <3>2. n >= 2 => 1 \in 1..(n - 1) /\ 2 \in 1..n
      OBVIOUS
    <3>3. n >= 2 => sock'.chan[1] = sock.chan[1 + 1]
      BY <1>2, <3>2
    <3>4. QED
      BY <3>1, <3>2, <3>3
  <2>2. n # 1 => sock'.chan[1].type # "session"
    BY <1>3, <2>1
  <2>3. QED
    BY <1>2, <2>2 DEF Greeting
<1>5. \A i \in 0..(n - 1) : Reach(i)' = Reach(i + 1)
  <2>1. Reach(0)' = Reach(1)
    BY DEF Reach
  <2>2. ASSUME NEW i \in 1..(n - 1)
        PROVE  Reach(i)' = Reach(i + 1)
    <3>1. sock'.chan[i] = sock.chan[i + 1]
      BY <1>2
    <3>2. i # 0 /\ i + 1 # 0
      OBVIOUS
    <3>3. QED
      BY <3>1, <3>2 DEF Reach
  <2>3. QED
    BY <2>1, <2>2
<1>6. ASSUME NEW i \in 1..(n - 1)
      PROVE  /\ sock'.chan[i].type = "session" => i = 1
             /\ sock'.chan[i].type = "bye" => i = n - 1 /\ sock.loop = "over"
             /\ sock'.chan[i].type = "output" =>
                  /\ sock'.chan[i].id = sock.served /\ sock'.chan[i].lo <= sock'.chan[i].hi
                  /\ Continues(past'.evicted, sock.served, Reach(i - 1)', sock'.chan[i].lo,
                               sock'.chan[i].hi)
  <2>1. i + 1 \in 1..n /\ i - 1 \in 0..(n - 1) /\ (i - 1) + 1 = i /\ (i + 1) - 1 = i /\ i + 1 # 1
    OBVIOUS
  <2>2. sock'.chan[i] = sock.chan[i + 1] /\ Reach(i - 1)' = Reach((i + 1) - 1)
    BY <1>2, <1>5, <2>1
  <2>3. QED
    BY <1>3, <2>1, <2>2 DEF Continues
<1>7. sock.loop = "on" => sock'.sent = Reach(n - 1)'
  <2>1. Reach(n - 1)' = Reach(n)
    BY <1>1, <1>5
  <2>2. QED
    BY <1>1, <2>1 DEF Stream
<1>8. Connected' /\ sock.served # NoSession
  BY DEF Connected, Stream
<1>9. QED
  BY <1>2, <1>4, <1>6, <1>7, <1>8 DEF Stream

LEMMA StreamTaken ==
  ASSUME Stream, Connected, sock.chan \in Seq(Message), sock.chan # <<>>,
         sock'.state = "open", sock'.served = sock.served, sock'.sent = sock.sent,
         sock'.loop = sock.loop, sock'.chan = Tail(sock.chan),
         tab'.session = sock.served, tab'.cursor = Reach(1),
         past.evicted \subseteq past'.evicted
  PROVE  Stream'
<1>1. PICK n \in Nat \ {0} : Follows(sock.chan, sock'.chan, n)
  BY RestFollows
<1>2. QED
  BY <1>1, StreamFollows

\* A message that the page takes.
LEMMA Taken ==
  ASSUME TTypeOK, sock.chan # <<>>, sock' = [sock EXCEPT !.chan = Tail(@)]
  PROVE  /\ sock' \in Sock /\ sock'.state = sock.state /\ sock'.served = sock.served
         /\ sock'.sent = sock.sent /\ sock'.loop = sock.loop /\ sock'.chan = Tail(sock.chan)
         /\ Head(sock.chan) \in Message /\ Head(sock.chan) = sock.chan[1] /\ 1 \in DOMAIN sock.chan
<1>1. sock.chan \in Seq(Message) /\ sock \in Sock
  BY Parts DEF TTypeOK
<1>2. /\ Tail(sock.chan) \in Seq(Message) /\ Len(sock.chan) >= 1
      /\ Head(sock.chan) \in Message /\ Head(sock.chan) = sock.chan[1]
  BY <1>1, Rest
<1>3. 1 \in DOMAIN sock.chan
  BY <1>1, <1>2
<1>4. QED
  BY <1>1, <1>2, <1>3 DEF Sock

\* What is known of a message when the page takes it.
LEMMA Arrived ==
  ASSUME TIInv, ~past.late, sock.state = "open", sock.chan # <<>>
  PROVE  /\ TTypeOK /\ TInv /\ Connected /\ sock.chan \in Seq(Message)
         /\ tab.fb = NoSession /\ \A c \in Slots : ~WaitedFor(c)
         /\ 1 \in DOMAIN sock.chan /\ Head(sock.chan) = sock.chan[1] /\ sock.chan[1] \in Message
<1>1. TTypeOK /\ TInv /\ Connected /\ sock.chan \in Seq(Message)
  BY Parts DEF TIInv, Connected
<1>2. tab.fb = NoSession /\ \A c \in Slots : ~WaitedFor(c)
  BY <1>1 DEF TInv, Connection, Asking
<1>3. /\ 1 \in DOMAIN sock.chan /\ Head(sock.chan) = sock.chan[1] /\ sock.chan[1] \in Message
  BY <1>1, Rest, Lengths
<1>4. QED
  BY <1>1, <1>2, <1>3

\* A page whose session is given.
LEMMA SavedType ==
  ASSUME NEW p \in Page, NEW s \in Ids, NEW n \in Chunks
  PROVE  /\ Saved(p, s, n) \in Page
         /\ Saved(p, s, n).session = s /\ Saved(p, s, n).cursor = n
         /\ Saved(p, s, n).fb = p.fb /\ Saved(p, s, n).fcur = p.fcur
         /\ Saved(p, s, n).chain = p.chain /\ Saved(p, s, n).ready = p.ready
<1>1. PICK a \in BOOLEAN, b \in BOOLEAN :
        /\ Saved(p, s, n) = [p EXCEPT !.session = s, !.cursor = n, !.replayed = a, !.blank = b]
  <2>1. p.replayed \in BOOLEAN /\ p.blank \in BOOLEAN
    BY DEF Page
  <2>2. QED
    BY <2>1 DEF Saved
<1>2. QED
  BY <1>1 DEF Page

\* The consumer tells which session it has and from where; input that waited for this
\* session, or for none, goes to it.
LEMMA KeepsReceiveSession ==
  ASSUME TIInv, ~past.late, ReceiveSession
  PROVE  TIInv'
<1>1. /\ sock.state = "open" /\ sock.chan # <<>> /\ sock' = [sock EXCEPT !.chan = Tail(@)]
      /\ UNCHANGED <<term, born, doomed, calls, keys, moves, losses>>
  BY DEF ReceiveSession, server, limits
<1>2. /\ TTypeOK /\ TInv /\ Connected /\ sock.chan \in Seq(Message)
      /\ tab.fb = NoSession /\ \A c \in Slots : ~WaitedFor(c)
      /\ 1 \in DOMAIN sock.chan /\ Head(sock.chan) = sock.chan[1] /\ sock.chan[1] \in Message
  BY <1>1, Arrived
<1>3. /\ sock' \in Sock /\ sock'.state = "open" /\ sock'.served = sock.served
      /\ sock'.sent = sock.sent /\ sock'.loop = sock.loop /\ sock'.chan = Tail(sock.chan)
  BY <1>1, <1>2, Taken
<1> DEFINE m == sock.chan[1]
           p == [Saved(tab, m.id, m.cursor) EXCEPT !.ready = TRUE]
<1>4. m.type = "session" /\ m.id \in Ids /\ m.cursor \in Chunks /\ m.reused \in BOOLEAN
  BY <1>2, MessageType DEF ReceiveSession
<1>5. /\ m.id = sock.served
      /\ m.cursor # 0 => tab.session = m.id /\ tab.cursor = m.cursor
  BY <1>1, <1>2, <1>4 DEF TInv, Stream, Greeting
<1>6. /\ tab' = p /\ Flush(p, m.id, m.reused)
      /\ screen' = IF tab.session \notin {NoSession, m.id} \/ m.cursor = 0 THEN <<>> ELSE screen
  BY <1>2 DEF ReceiveSession
<1> HIDE DEF m
<1>7. /\ p \in Page /\ p.session = m.id /\ p.cursor = m.cursor /\ p.ready
      /\ p.fb = tab.fb /\ p.chain = tab.chain
  <2>1. tab \in Page
    BY <1>2 DEF TTypeOK
  <2>2. /\ Saved(tab, m.id, m.cursor) \in Page
        /\ Saved(tab, m.id, m.cursor).session = m.id
        /\ Saved(tab, m.id, m.cursor).cursor = m.cursor
        /\ Saved(tab, m.id, m.cursor).fb = tab.fb
        /\ Saved(tab, m.id, m.cursor).chain = tab.chain
    BY <1>4, <2>1, SavedType
  <2>3. QED
    BY <2>2 DEF Page
<1> HIDE DEF p
<1>8. /\ typed' \subseteq typed
      /\ past' = [past EXCEPT !.strayed = @ \/ Strays(Flushable(m.id, m.reused), sock.served)]
  BY <1>1, <1>6, <1>7 DEF Flush
<1>9. past' = past
  <2>1. ~Strays(Flushable(m.id, m.reused), sock.served)
    BY <1>5 DEF Strays, Flushable
  <2>2. past \in Past
    BY <1>2 DEF TTypeOK
  <2>3. QED
    BY <1>8, <2>1, <2>2 DEF Past
<1>10. screen' \in Seq(Ids \X (1..MaxChunks))
  BY <1>2, <1>6 DEF TTypeOK
<1>11. TTypeOK'
  BY <1>1, <1>2, <1>3, <1>6, <1>7, <1>8, <1>9, <1>10 DEF TTypeOK
<1>12. Filled'
  BY <1>1 DEF TIInv, Filled
<1>13. Asking'
  <2>1. \A c \in Slots : ~WaitedFor(c)'
    BY <1>1, <1>2 DEF WaitedFor
  <2>2. QED
    BY <2>1, NothingAsked
<1>14. Stream'
  <2>1. Reach(1) = m.cursor
    BY <1>4 DEF Reach, m
  <2>2. /\ tab'.session = sock.served /\ tab'.cursor = Reach(1)
        /\ past.evicted \subseteq past'.evicted
    BY <1>5, <1>6, <1>7, <1>9, <2>1
  <2>3. QED
    BY <1>1, <1>2, <1>3, <2>2, StreamTaken DEF TInv
<1>15. Queue' /\ tab'.fb = NoSession
  BY <1>2, <1>6, <1>7, <1>8, QueueKept DEF TInv
<1>16. ShownUpToCursor'
  <2>1. CASE m.cursor = 0
    BY <1>6, <1>7, <2>1, ShownNothing
  <2>2. CASE m.cursor # 0
    <3>1. /\ screen' = screen /\ tab'.session = tab.session /\ tab'.cursor = tab.cursor
      BY <1>5, <1>6, <1>7, <2>2
    <3>2. QED
      BY <1>2, <1>9, <3>1, ShownKept DEF TInv
  <2>3. QED
    BY <2>1, <2>2
<1>17. Connection' /\ InputReachesItsSession'
  <2>1. tab'.session # NoSession
    BY <1>4, <1>6, <1>7, Sizes
  <2>2. QED
    BY <1>2, <1>3, <1>9, <1>15, <2>1 DEF TInv, Connection, InputReachesItsSession
<1>18. QED
  BY <1>11, <1>12, <1>13, <1>14, <1>15, <1>16, <1>17 DEF TIInv, TInv

\* Output that arrives follows what is shown.
LEMMA KeepsReceiveOutput ==
  ASSUME TIInv, ~past.late, ReceiveOutput
  PROVE  TIInv'
<1>1. /\ sock.state = "open" /\ sock.chan # <<>> /\ sock' = [sock EXCEPT !.chan = Tail(@)]
      /\ UNCHANGED <<term, born, doomed, calls, typed, past, keys, moves, losses>>
  BY DEF ReceiveOutput, server, limits
<1>2. /\ TTypeOK /\ TInv /\ Connected /\ sock.chan \in Seq(Message)
      /\ tab.fb = NoSession /\ \A c \in Slots : ~WaitedFor(c)
      /\ 1 \in DOMAIN sock.chan /\ Head(sock.chan) = sock.chan[1] /\ sock.chan[1] \in Message
  BY <1>1, Arrived
<1>3. /\ sock' \in Sock /\ sock'.state = "open" /\ sock'.served = sock.served
      /\ sock'.sent = sock.sent /\ sock'.loop = sock.loop /\ sock'.chan = Tail(sock.chan)
  BY <1>1, <1>2, Taken
<1> DEFINE m == sock.chan[1]
<1>4. m.type = "output" /\ m.id \in Ids /\ m.lo \in 1..MaxChunks /\ m.hi \in Chunks
  BY <1>2, MessageType DEF ReceiveOutput
<1>5. /\ tab' = [tab EXCEPT !.cursor = m.hi, !.replayed = FALSE, !.blank = FALSE]
      /\ screen' = screen \o Chunk(m.id, m.lo, m.hi)
  BY <1>2 DEF ReceiveOutput
<1>6. /\ m.id = sock.served /\ tab.session = sock.served /\ m.lo <= m.hi
      /\ Continues(past.evicted, m.id, tab.cursor, m.lo, m.hi)
  <2>1. ~Greeting
    BY <1>4 DEF Greeting
  <2>2. /\ m.id = sock.served /\ m.lo <= m.hi
        /\ Continues(past.evicted, sock.served, Reach(1 - 1), m.lo, m.hi)
    BY <1>2, <1>4 DEF TInv, Stream
  <2>3. Reach(1 - 1) = tab.cursor
    BY DEF Reach
  <2>4. QED
    BY <1>2, <2>1, <2>2, <2>3 DEF TInv, Stream
<1>7. Reach(1) = m.hi
  BY <1>4 DEF Reach
<1> HIDE DEF m
<1>8. /\ tab' \in Page /\ tab'.session = tab.session /\ tab'.cursor = m.hi
      /\ tab'.fb = tab.fb /\ tab'.chain = tab.chain
  BY <1>2, <1>4, <1>5 DEF TTypeOK, Page
<1>9. screen' \in Seq(Ids \X (1..MaxChunks)) /\ ShownUpToCursor'
  <2>1. m.lo \in 1..(MaxChunks + 1) /\ m.lo <= m.hi + 1
    BY <1>4, <1>6, Sizes
  <2>2. tab.session = m.id /\ tab'.session = m.id /\ past'.evicted = past.evicted
    BY <1>1, <1>6, <1>8
  <2>3. ShownUpToCursor /\ Continues(past'.evicted, m.id, tab.cursor, m.lo, m.hi)
    BY <1>2, <1>6, <2>2 DEF TInv
  <2>4. QED
    BY <1>2, <1>4, <1>5, <1>8, <2>1, <2>2, <2>3, ShownGrows
<1>10. TTypeOK'
  BY <1>1, <1>2, <1>3, <1>8, <1>9 DEF TTypeOK
<1>11. Filled'
  BY <1>1 DEF TIInv, Filled
<1>12. Asking'
  <2>1. \A c \in Slots : ~WaitedFor(c)'
    BY <1>1, <1>2 DEF WaitedFor
  <2>2. QED
    BY <2>1, NothingAsked
<1>13. Stream'
  <2>1. /\ tab'.session = sock.served /\ tab'.cursor = Reach(1)
        /\ past.evicted \subseteq past'.evicted
    BY <1>1, <1>6, <1>7, <1>8
  <2>2. QED
    BY <1>1, <1>2, <1>3, <2>1, StreamTaken DEF TInv
<1>14. Queue'
  BY <1>1, <1>2, <1>8, QueueKept DEF TInv
<1>15. Connection' /\ InputReachesItsSession'
  <2>1. tab'.session # NoSession
    BY <1>4, <1>6, <1>8, Sizes
  <2>2. QED
    BY <1>1, <1>2, <1>3, <1>8, <2>1 DEF TInv, Connection, InputReachesItsSession
<1>16. QED
  BY <1>9, <1>10, <1>11, <1>12, <1>13, <1>14, <1>15 DEF TIInv, TInv

-----------------------------------------------------------------------------
(* The web terminal: the page and its fallback *)

\* A slot with another request in it.
LEMMA Replaced ==
  ASSUME calls \in [Slots -> Call \cup {Free}], Filled, NEW c \in Slots,
         NEW x \in Call \cup {Free}, x # Free => WellFilled(x),
         calls' = [calls EXCEPT ![c] = x]
  PROVE  /\ calls' \in [Slots -> Call \cup {Free}] /\ Filled' /\ calls'[c] = x
         /\ \A d \in Slots : WaitedFor(d)' => d = c \/ WaitedFor(d)
<1>1. \A d \in Slots : calls'[d] = IF d = c THEN x ELSE calls[d]
  OBVIOUS
<1>2. calls' \in [Slots -> Call \cup {Free}]
  OBVIOUS
<1>3. QED
  BY <1>1, <1>2 DEF Filled, WaitedFor

\* A request that the page waits for is the only one, and there is no websocket.
LEMMA AskedAlone ==
  ASSUME TIInv, ~past.late, NEW c \in Slots, calls[c] # Free, calls[c].kind # "close",
         calls[c].step \in {"answered", "failed"}
  PROVE  /\ TTypeOK /\ Filled /\ TInv /\ calls[c] \in Call /\ WellFilled(calls[c])
         /\ ~calls[c].stale => /\ sock.state = "none" /\ ~tab.ready
                               /\ \A d \in Slots : WaitedFor(d) => d = c
                               /\ RightlyAsked(calls[c], tab, past.evicted)
<1>1. TTypeOK /\ Filled /\ TInv
  BY DEF TIInv
<1>2. calls[c] \in Call /\ WellFilled(calls[c])
  BY <1>1 DEF TTypeOK, Filled
<1>3. ~calls[c].stale => WaitedFor(c)
  BY <1>2 DEF WellFilled, WaitedFor
<1>4. QED
  BY <1>1, <1>2, <1>3 DEF TInv, Asking, Connection

\* A new queue comes after all that waits.
LEMMA NewChainType ==
  ASSUME TTypeOK, Queue
  PROVE  /\ NewChain(tab.chain) \in Nat /\ NewChain(tab.chain) >= 1
         /\ \A t \in typed : t.chain < NewChain(tab.chain)
<1>1. tab.chain \in Nat /\ tab.chain >= 1 /\ \A t \in typed : t.chain \in Nat /\ t.chain <= tab.chain
  BY Parts DEF TTypeOK, Typed, Queue
<1>2. CASE \E t \in typed : t.chain = tab.chain
  <2>1. NewChain(tab.chain) = tab.chain + 1
    BY <1>2 DEF NewChain
  <2>2. QED
    BY <1>1, <2>1
<1>3. CASE ~\E t \in typed : t.chain = tab.chain
  <2>1. NewChain(tab.chain) = tab.chain
    BY <1>3 DEF NewChain
  <2>2. \A t \in typed : t.chain < tab.chain
    BY <1>1, <1>3
  <2>3. QED
    BY <1>1, <2>1, <2>2
<1>4. QED
  BY <1>2, <1>3

\* What waits goes to the queue of the new fallback.
LEMMA Requeued ==
  ASSUME TTypeOK, NEW k \in Nat, NEW s, NEW reused \in BOOLEAN
  PROVE  LET next == {t \in typed : t.chain # 0} \cup
                       {[t EXCEPT !.chain = k] : t \in Flushable(s, reused)} IN
         /\ next \subseteq Typed
         /\ \A u \in next : \/ u \in typed
                            \/ u.chain = k /\ u.for \in {NoSession, s}
<1>1. typed \subseteq Typed
  BY DEF TTypeOK
<1>2. ASSUME NEW t \in Flushable(s, reused)
      PROVE  /\ [t EXCEPT !.chain = k] \in Typed
             /\ [t EXCEPT !.chain = k].chain = k /\ [t EXCEPT !.chain = k].for \in {NoSession, s}
  <2>1. t \in Typed /\ t.for \in {NoSession, s}
    BY <1>1 DEF Flushable
  <2>2. QED
    BY <2>1 DEF Typed
<1>3. QED
  BY <1>1, <1>2

\* The fallback starts where the page is, or from the start of a new session.
LEMMA KeepsFallbackStarted ==
  ASSUME TIInv, ~past.late, NEW c \in Slots, FallbackStarted(c)
  PROVE  TIInv'
<1> DEFINE call == calls[c]
           cursor == IF call.reused THEN tab.cursor ELSE 0
           p == [Saved(tab, call.id, cursor) EXCEPT !.fb = call.id, !.fcur = cursor,
                                                     !.polling = TRUE, !.chain = NewChain(@)]
           some == Flushable(call.id, call.reused)
           rest == {t \in typed : t.chain # 0}
<1>1. /\ calls[c] # Free /\ calls[c].kind = "start" /\ calls[c].step \in {"answered", "failed"}
      /\ UNCHANGED <<term, born, doomed, sock, keys, moves, losses>>
  BY DEF FallbackStarted, Result, server, limits
<1>2. /\ TTypeOK /\ Filled /\ TInv /\ call \in Call /\ WellFilled(call)
      /\ ~call.stale => /\ sock.state = "none" /\ ~tab.ready
                        /\ \A d \in Slots : WaitedFor(d) => d = c
                        /\ RightlyAsked(call, tab, past.evicted)
  BY <1>1, AskedAlone
<1>3. CASE call.step = "failed"
  <2>1. calls' = [calls EXCEPT ![c] = Free] /\ UNCHANGED <<tab, typed, screen, past>>
    BY <1>3 DEF FallbackStarted, client
  <2>2. Free \in Call \cup {Free} /\ (Free # Free => FALSE)
    OBVIOUS
  <2>3. QED
    BY <1>1, <2>1, <2>2, Waiting, Reply
<1>4. CASE call.step = "answered"
  <2>1. /\ calls' = [calls EXCEPT ![c] = NewCall("poll", call.id, cursor)]
        /\ tab' = p
        /\ screen' = IF tab.session \notin {NoSession, call.id} \/ cursor = 0 THEN <<>> ELSE screen
        /\ IF p.ready /\ sock.state = "open"
           THEN /\ typed' = rest
                /\ past' = [past EXCEPT !.late = call.stale, !.strayed = @ \/ Strays(some, sock.served)]
           ELSE /\ typed' = rest \cup {[t EXCEPT !.chain = p.chain] : t \in some}
                /\ past' = [past EXCEPT !.late = call.stale]
    BY <1>4 DEF FallbackStarted
  <2>2. /\ call.id \in Ids /\ call.reused \in BOOLEAN /\ call.stale \in BOOLEAN
        /\ cursor \in Chunks
    <3>1. call.id \in Ids \cup {NoSession} /\ call.reused \in BOOLEAN /\ call.stale \in BOOLEAN
      BY <1>2 DEF Call
    <3>2. QED
      BY <1>2, <1>4, <3>1, Parts, Sizes DEF WellFilled
  <2>3. NewChain(tab.chain) \in Nat /\ NewChain(tab.chain) >= 1
        /\ \A t \in typed : t.chain < NewChain(tab.chain)
    BY <1>2, NewChainType DEF TInv
  <2>4. PICK k \in Nat : k = NewChain(tab.chain)
    BY <2>3
  <2>5. ~call.stale => (IF call.reused THEN call.id = tab.session /\ cursor = tab.cursor
                        ELSE cursor = 0)
    BY <1>1, <1>2, <1>4 DEF RightlyAsked
  <2> HIDE DEF cursor
  <2>6. p = [Saved(tab, call.id, cursor) EXCEPT !.fb = call.id, !.fcur = cursor,
                                               !.polling = TRUE, !.chain = k]
    <3>1. PICK q \in Page : q = Saved(tab, call.id, cursor) /\ q.chain = tab.chain
      BY <1>2, <2>2, SavedType DEF TTypeOK
    <3>2. QED
      BY <2>4, <3>1 DEF Page
  <2> HIDE DEF p
  <2>7. /\ p \in Page /\ p.session = call.id /\ p.cursor = cursor /\ p.fb = call.id
        /\ p.fcur = cursor /\ p.chain = k /\ p.ready = tab.ready
    <3>1. PICK q \in Page : /\ q = Saved(tab, call.id, cursor)
                            /\ q.session = call.id /\ q.cursor = cursor /\ q.ready = tab.ready
      BY <1>2, <2>2, SavedType DEF TTypeOK
    <3>2. p = [q EXCEPT !.fb = call.id, !.fcur = cursor, !.polling = TRUE, !.chain = k]
      BY <2>6, <3>1
    <3>3. QED
      BY <2>2, <3>1, <3>2 DEF Page
  <2>8. LET next == rest \cup {[t EXCEPT !.chain = k] : t \in some} IN
        /\ next \subseteq Typed
        /\ \A u \in next : \/ u \in typed
                           \/ u.chain = k /\ u.for \in {NoSession, call.id}
    BY <1>2, <2>2, Requeued
  <2>9. /\ typed' \subseteq Typed
        /\ \A u \in typed' : \/ u \in typed
                             \/ u.chain = k /\ u.for \in {NoSession, call.id}
    <3>1. typed' \in {rest, rest \cup {[t EXCEPT !.chain = k] : t \in some}}
      BY <2>1, <2>7
    <3>2. QED
      BY <2>8, <3>1
  <2>10. /\ past' \in Past /\ past'.late = call.stale /\ past'.evicted = past.evicted
         /\ ~call.stale => past'.strayed = past.strayed
    <3>1. past \in Past
      BY <1>2 DEF TTypeOK
    <3>2. CASE p.ready /\ sock.state = "open"
      <4>1. (past.strayed \/ Strays(some, sock.served)) \in BOOLEAN
        OBVIOUS
      <4>2. past' = [past EXCEPT !.late = call.stale, !.strayed = @ \/ Strays(some, sock.served)]
        BY <2>1, <3>2
      <4>3. call.stale
        BY <1>2, <3>2
      <4> HIDE DEF some
      <4>4. QED
        BY <2>2, <3>1, <4>1, <4>2, <4>3 DEF Past
    <3>3. CASE ~(p.ready /\ sock.state = "open")
      BY <2>1, <2>2, <3>1, <3>3 DEF Past
    <3>4. QED
      BY <3>2, <3>3
  <2>11. screen' \in Seq(Ids \X (1..MaxChunks))
    BY <1>2, <2>1 DEF TTypeOK
  <2> DEFINE x == NewCall("poll", call.id, cursor)
  <2>12. /\ x \in Call /\ x # Free /\ x.kind = "poll" /\ x.step = "sent" /\ x.awaited /\ ~x.stale
         /\ x.id = call.id /\ x.cursor = cursor /\ x.lo = 1
    BY <2>2, NewCallType, CallIsNotFree DEF NewCall
  <2>13. calls' = [calls EXCEPT ![c] = x] /\ x \in Call \cup {Free}
    BY <2>1, <2>12
  <2> HIDE DEF x
  <2>14. WellFilled(x)
    BY <2>2, <2>12, Sizes DEF WellFilled
  <2>15. /\ calls' \in [Slots -> Call \cup {Free}] /\ Filled' /\ calls'[c] = x
         /\ \A d \in Slots : WaitedFor(d)' => d = c \/ WaitedFor(d)
    BY <1>2, <2>13, <2>14, Replaced DEF TTypeOK
  <2>16. TTypeOK'
    BY <1>1, <1>2, <2>1, <2>7, <2>9, <2>10, <2>11, <2>15 DEF TTypeOK
  <2>17. ASSUME ~past'.late
         PROVE  TInv'
    <3>1. ~call.stale /\ sock.state = "none" /\ ~tab.ready /\ \A d \in Slots : WaitedFor(d) => d = c
      BY <1>2, <2>10, <2>17
    <3>2. Asking'
      <4>1. RightlyAsked(x, tab', past'.evicted)
        BY <2>1, <2>7, <2>12 DEF RightlyAsked
      <4>2. \A d \in Slots : WaitedFor(d)' => d = c
        BY <2>15, <3>1
      <4>3. sock'.state = "none"
        BY <1>1, <3>1
      <4>4. QED
        BY <2>15, <4>1, <4>2, <4>3 DEF Asking
    <3>3. Stream'
      BY <1>1, <3>1, NoStream
    <3>4. Queue'
      <4>1. \A t \in typed : t.chain \in Nat /\ t.chain < k
        BY <1>2, <2>3, <2>4 DEF TTypeOK, Typed
      <4>2. tab'.chain = k /\ tab'.fb = call.id /\ k >= 1
        BY <2>1, <2>3, <2>4, <2>7
      <4>3. \A t \in typed' : t.chain <= k /\ (t.chain = k => t.for \in {NoSession, call.id})
        <5>1. \A t \in typed : t.chain <= k /\ t.chain # k
          BY <4>1
        <5>2. k <= k
          OBVIOUS
        <5>3. QED
          BY <2>9, <5>1, <5>2
      <4>4. QED
        BY <4>2, <4>3 DEF Queue
    <3>5. ShownUpToCursor'
      <4>1. CASE cursor = 0
        BY <2>1, <2>7, <4>1, ShownNothing
      <4>2. CASE cursor # 0
        <5>1. call.id = tab.session /\ cursor = tab.cursor
          BY <2>5, <3>1, <4>2
        <5>2. screen' = screen /\ tab'.session = tab.session /\ tab'.cursor = tab.cursor
          BY <2>1, <2>7, <4>2, <5>1
        <5>3. QED
          BY <1>2, <2>10, <5>2, ShownKept DEF TInv
      <4>3. QED
        BY <4>1, <4>2
    <3>6. Connection' /\ InputReachesItsSession'
      <4>1. tab'.session # NoSession
        BY <2>1, <2>2, <2>7, Sizes
      <4>2. QED
        BY <1>1, <1>2, <2>1, <2>7, <2>10, <3>1, <4>1 DEF TInv, Connection, InputReachesItsSession
    <3>7. QED
      BY <3>2, <3>3, <3>4, <3>5, <3>6 DEF TInv
  <2>18. QED
    BY <2>15, <2>16, <2>17 DEF TIInv
<1>5. QED
  BY <1>1, <1>3, <1>4

\* What the page makes of an answer to a poll.
LEMMA PolledPage ==
  ASSUME TTypeOK, NEW c \in Slots, calls[c] \in Call, Polled(c)
  PROVE  /\ tab' \in Page /\ tab'.ready = tab.ready /\ tab'.chain = tab.chain
         /\ calls[c].step = "failed" =>
              /\ tab'.session = tab.session /\ tab'.cursor = tab.cursor /\ tab'.fb = NoSession
         /\ calls[c].step # "failed" /\ calls[c].alive =>
              /\ tab'.session = tab.session /\ tab'.fb = tab.fb
              /\ tab'.cursor = tab'.fcur
              /\ tab'.fcur = IF calls[c].cursor # 0 THEN calls[c].cursor ELSE tab.fcur
         /\ calls[c].step # "failed" /\ ~calls[c].alive =>
              /\ tab'.session = NoSession /\ tab'.cursor = 0 /\ tab'.fb = NoSession
<1> DEFINE call == calls[c]
           fcur == IF call.cursor # 0 THEN call.cursor ELSE tab.fcur
           shown == Chunk(call.id, call.lo, call.cursor)
           seen == [tab EXCEPT !.fcur = fcur, !.cursor = fcur,
                                !.replayed = @ /\ shown = <<>>, !.blank = @ /\ shown = <<>>]
<1>1. tab \in Page /\ fcur \in Chunks
  BY DEF TTypeOK, Page, Call
<1>2. tab.timer \in BOOLEAN /\ tab.replayed \in BOOLEAN /\ tab.blank \in BOOLEAN
  BY <1>1 DEF Page
<1>3. tab' = IF call.step = "failed"
             THEN [tab EXCEPT !.polling = FALSE, !.fb = NoSession, !.timer = @ \/ tab.session # NoSession]
             ELSE IF call.alive THEN seen
             ELSE [seen EXCEPT !.polling = FALSE, !.fb = NoSession, !.session = NoSession, !.cursor = 0]
  BY DEF Polled
<1> HIDE DEF fcur, shown
<1>4. PICK a \in BOOLEAN, b \in BOOLEAN : a = (tab.replayed /\ shown = <<>>) /\ b = (tab.blank /\ shown = <<>>)
  OBVIOUS
<1>5. seen = [tab EXCEPT !.fcur = fcur, !.cursor = fcur, !.replayed = a, !.blank = b]
  BY <1>1, <1>4 DEF Page
<1> HIDE DEF seen
<1>6. /\ seen \in Page /\ seen.session = tab.session /\ seen.fb = tab.fb
      /\ seen.cursor = fcur /\ seen.fcur = fcur
      /\ seen.ready = tab.ready /\ seen.chain = tab.chain
  BY <1>1, <1>5 DEF Page
<1>7. CASE call.step = "failed"
  <2>1. PICK timer \in BOOLEAN : tab' = [tab EXCEPT !.polling = FALSE, !.fb = NoSession, !.timer = timer]
    <3>1. (tab.timer \/ tab.session # NoSession) \in BOOLEAN
      OBVIOUS
    <3>2. QED
      BY <1>1, <1>3, <1>7, <3>1 DEF Page
  <2>2. QED
    BY <1>1, <1>7, <2>1 DEF Page
<1>8. CASE call.step # "failed" /\ call.alive
  BY <1>3, <1>6, <1>8 DEF fcur
<1>9. CASE call.step # "failed" /\ ~call.alive
  BY <1>3, <1>6, <1>9, Sizes DEF Page
<1>10. QED
  BY <1>7, <1>8, <1>9

\* The answer to a poll is shown, and the next one asked; or the session has ended.
LEMMA KeepsPolled ==
  ASSUME TIInv, ~past.late, NEW c \in Slots, Polled(c)
  PROVE  TIInv'
<1> DEFINE call == calls[c]
<1>1. /\ calls[c] # Free /\ calls[c].kind = "poll" /\ calls[c].step \in {"answered", "failed"}
      /\ UNCHANGED <<term, born, doomed, sock, typed, keys, moves, losses>>
      /\ past' = [past EXCEPT !.late = call.stale]
  BY DEF Polled, Result, server, limits
<1>2. /\ TTypeOK /\ Filled /\ TInv /\ call \in Call /\ WellFilled(call)
      /\ ~call.stale => /\ sock.state = "none" /\ ~tab.ready
                        /\ \A d \in Slots : WaitedFor(d) => d = c
                        /\ RightlyAsked(call, tab, past.evicted)
  BY <1>1, AskedAlone
<1>3. /\ call.id \in Ids /\ call.stale \in BOOLEAN /\ call.cursor \in Chunks
      /\ call.lo \in 1..(MaxChunks + 1) /\ call.lo <= call.cursor + 1
  <2>1. /\ call.id \in Ids \cup {NoSession} /\ call.stale \in BOOLEAN /\ call.cursor \in Chunks
        /\ call.lo \in 1..(MaxChunks + 1)
    BY <1>2 DEF Call
  <2>2. QED
    BY <1>1, <1>2, <2>1 DEF WellFilled
<1>4. /\ tab' \in Page /\ tab'.ready = tab.ready /\ tab'.chain = tab.chain
      /\ call.step = "failed" =>
           /\ tab'.session = tab.session /\ tab'.cursor = tab.cursor /\ tab'.fb = NoSession
      /\ call.step # "failed" /\ call.alive =>
           /\ tab'.session = tab.session /\ tab'.fb = tab.fb
           /\ tab'.cursor = tab'.fcur
           /\ tab'.fcur = IF call.cursor # 0 THEN call.cursor ELSE tab.fcur
      /\ call.step # "failed" /\ ~call.alive =>
           /\ tab'.session = NoSession /\ tab'.cursor = 0 /\ tab'.fb = NoSession
  BY <1>2, PolledPage
<1>5. /\ past' \in Past /\ past'.late = call.stale /\ past'.evicted = past.evicted
      /\ past'.strayed = past.strayed
  BY <1>1, <1>2, <1>3 DEF TTypeOK, Past
<1>6. /\ screen' = IF call.step = "failed" THEN screen
                   ELSE screen \o Chunk(call.id, call.lo, call.cursor)
      /\ \/ calls' = [calls EXCEPT ![c] = Free]
         \/ /\ tab'.fb # NoSession
            /\ calls' = [calls EXCEPT ![c] = NewCall("poll", tab'.fb, tab'.fcur)]
  BY DEF Polled
<1>7. screen' \in Seq(Ids \X (1..MaxChunks))
  <2>1. screen \in Seq(Ids \X (1..MaxChunks))
    BY <1>2 DEF TTypeOK
  <2>2. screen \o Chunk(call.id, call.lo, call.cursor) \in Seq(Ids \X (1..MaxChunks))
    BY <1>3, <2>1, ScreenGoes
  <2>3. QED
    BY <1>6, <2>1, <2>2
<1>8. PICK x \in Call \cup {Free} :
        /\ calls' = [calls EXCEPT ![c] = x]
        /\ x # Free => /\ x.kind = "poll" /\ x.step = "sent" /\ x.id = tab'.fb
                       /\ x.id # NoSession /\ x.cursor = tab'.fcur /\ WellFilled(x)
  <2>1. CASE calls' = [calls EXCEPT ![c] = Free]
    BY <2>1
  <2>2. CASE /\ tab'.fb # NoSession
             /\ calls' = [calls EXCEPT ![c] = NewCall("poll", tab'.fb, tab'.fcur)]
    <3> DEFINE x == NewCall("poll", tab'.fb, tab'.fcur)
    <3>1. tab'.fb \in Ids \cup {NoSession} /\ tab'.fcur \in Chunks
      BY <1>4 DEF Page
    <3>2. /\ x \in Call /\ x.kind = "poll" /\ x.step = "sent" /\ x.id = tab'.fb
          /\ x.cursor = tab'.fcur /\ x.lo = 1
      BY <3>1, NewCallType DEF NewCall
    <3> HIDE DEF x
    <3>3. WellFilled(x)
      BY <2>2, <3>1, <3>2, Sizes DEF WellFilled
    <3>4. calls' = [calls EXCEPT ![c] = x]
      BY <2>2 DEF x
    <3>5. QED
      BY <2>2, <3>2, <3>3, <3>4
  <2>3. QED
    BY <1>6, <2>1, <2>2
<1>9. /\ calls' \in [Slots -> Call \cup {Free}] /\ Filled' /\ calls'[c] = x
      /\ \A d \in Slots : WaitedFor(d)' => d = c \/ WaitedFor(d)
  BY <1>2, <1>8, Replaced DEF TTypeOK
<1>10. TTypeOK'
  BY <1>1, <1>2, <1>4, <1>5, <1>7, <1>9 DEF TTypeOK
<1>11. ASSUME ~past'.late
       PROVE  TInv'
  <2>1. /\ sock.state = "none" /\ ~tab.ready /\ \A d \in Slots : WaitedFor(d) => d = c
        /\ call.id = tab.fb
        /\ call.step # "failed" => Continues(past.evicted, call.id, tab.fcur, call.lo, call.cursor)
    BY <1>1, <1>2, <1>5, <1>11 DEF RightlyAsked
  <2>2. tab.session = call.id /\ tab.cursor = tab.fcur
    BY <1>2, <1>3, <2>1, Sizes DEF TInv, Connection
  <2>3. call.step # "failed" =>
          (IF call.cursor # 0 THEN call.cursor ELSE tab.fcur) = call.cursor
    <3>1. call.cursor \in Nat /\ tab.fcur \in Nat
      BY <1>2, <1>3, Parts, Sizes
    <3>2. QED
      BY <2>1, <3>1 DEF Continues
  <2>4. Asking'
    <3>1. x # Free => RightlyAsked(x, tab', past'.evicted)
      BY <1>8 DEF RightlyAsked
    <3>2. \A d \in Slots : WaitedFor(d)' => d = c
      BY <1>9, <2>1
    <3>3. sock'.state = "none"
      BY <1>1, <2>1
    <3>4. \A d \in Slots : WaitedFor(d)' => calls'[d] = x /\ x # Free
      BY <1>9, <3>2 DEF WaitedFor
    <3>5. QED
      BY <3>1, <3>2, <3>3, <3>4 DEF Asking
  <2>5. Stream'
    BY <1>1, <2>1, NoStream
  <2>6. Queue'
    BY <1>1, <1>2, <1>4, QueueKept DEF TInv
  <2>7. ShownUpToCursor'
    <3>1. CASE call.step = "failed"
      BY <1>2, <1>4, <1>5, <1>6, <3>1, ShownKept DEF TInv
    <3>2. CASE call.step # "failed" /\ call.alive
      <4>1. /\ tab'.session = call.id /\ tab'.cursor = call.cursor
            /\ screen' = screen \o Chunk(call.id, call.lo, call.cursor)
        BY <1>4, <1>6, <2>2, <2>3, <3>2
      <4>2. ShownUpToCursor /\ Continues(past'.evicted, call.id, tab.cursor, call.lo, call.cursor)
        BY <1>2, <1>5, <2>1, <2>2, <3>2 DEF TInv
      <4>3. past.evicted \subseteq past'.evicted
        BY <1>5
      <4>4. QED
        BY <1>2, <1>3, <2>2, <4>1, <4>2, <4>3, ShownGrows
    <3>3. CASE call.step # "failed" /\ ~call.alive
      BY <1>4, <1>10, <3>3, ShowsNobody
    <3>4. QED
      BY <3>1, <3>2, <3>3
  <2>8. Connection' /\ InputReachesItsSession'
    BY <1>1, <1>2, <1>3, <1>4, <1>5, <2>1, <2>2, Sizes DEF TInv, Connection, InputReachesItsSession
  <2>9. QED
    BY <2>4, <2>5, <2>6, <2>7, <2>8 DEF TInv
<1>12. QED
  BY <1>9, <1>10, <1>11 DEF TIInv

-----------------------------------------------------------------------------
(* The web terminal: theorems *)

LEMMA TStarts == TInit => TIInv
<1> SUFFICES ASSUME TInit PROVE TIInv
  OBVIOUS
<1>1. sock \in Sock /\ sock.state = "connecting" /\ sock.want = NoSession /\ sock.from = 0
  BY NoSockType DEF TInit, NoSock, Sock
<1>2. /\ tab \in Page /\ tab.session = NoSession /\ tab.cursor = 0 /\ ~tab.ready
      /\ tab.fb = NoSession /\ tab.chain = 1
  BY Sizes DEF TInit, Page
<1>3. past \in Past /\ ~past.late /\ ~past.strayed
  BY DEF TInit, Past
<1>4. term \in [Ids -> Term]
  BY Sizes DEF TInit, Term, Unborn
<1>5. TTypeOK
  BY <1>1, <1>2, <1>3, <1>4, Sizes DEF TInit, TTypeOK
<1>6. \A c \in Slots : calls[c] = Free
  BY DEF TInit
<1>7. Filled /\ Asking
  BY <1>6 DEF Filled, Asking, WaitedFor
<1>8. Connection /\ Stream
  BY <1>1, <1>2 DEF Connection, Stream, Connected
<1>9. Queue /\ ShownUpToCursor /\ InputReachesItsSession
  BY <1>2, <1>3 DEF TInit, Queue, ShownUpToCursor, InputReachesItsSession
<1>10. QED
  BY <1>5, <1>7, <1>8, <1>9 DEF TIInv, TInv

LEMMA TKeeps ==
  ASSUME TIInv, TNext
  PROVE  TIInv'
<1>1. ~past.late /\ Step
  BY DEF TNext
<1>2. ASSUME NEW s \in Ids, Output(s) \/ Exit(s) \/ Cleanup(s)
      PROVE  TIInv'
  BY <1>1, <1>2, KeepsSession
<1>3. CASE Consumer
  BY <1>1, <1>3, KeepsAccept, KeepsLoopEnds, KeepsLoopRead DEF Consumer
<1>4. CASE Script
  <2>1. CASE Opened \/ ReceiveSession \/ ReceiveOutput \/ SocketClosed \/ TimerFires
    BY <1>1, <2>1, KeepsLoopEnds, KeepsReceiveSession, KeepsReceiveOutput, KeepsSocketClosed,
       KeepsTimerFires
  <2>2. ASSUME NEW c \in Slots, FallbackStarted(c) \/ Polled(c) \/ CloseReturns(c)
        PROVE  TIInv'
    BY <1>1, <2>2, KeepsFallbackStarted, KeepsPolled, KeepsCloseReturns
  <2>3. ASSUME NEW t \in typed, PostInput(t)
        PROVE  TIInv'
    BY <1>1, <2>3, KeepsPostInput
  <2>4. QED
    BY <1>4, <2>1, <2>2, <2>3 DEF Script
<1>5. CASE User
  BY <1>1, <1>5, KeepsType, KeepsReconnect, KeepsForceNew, KeepsClear, KeepsReload DEF User
<1>6. CASE Drop \/ HandshakeFails \/ Restart
  BY <1>1, <1>6, KeepsDrop, KeepsRestart
<1>7. ASSUME NEW c \in Slots, Serve(c) \/ CallFails(c)
      PROVE  TIInv'
  BY <1>1, <1>7, KeepsServeStart, KeepsServePoll, KeepsReadPoll, KeepsServeClose, KeepsCallFails
     DEF Serve
<1>8. ASSUME NEW t \in typed, Trim(t)
      PROVE  TIInv'
  BY <1>1, <1>8, KeepsTrim
<1>9. QED
  BY <1>1, <1>2, <1>3, <1>4, <1>5, <1>6, <1>7, <1>8 DEF Step

LEMMA TStutters ==
  ASSUME TIInv, UNCHANGED tvars
  PROVE  TIInv'
<1>1. UNCHANGED <<term, born, doomed, sock, calls, tab, typed, screen, past, keys, moves, losses>>
  BY DEF tvars
<1>2. TTypeOK' /\ Filled'
  BY <1>1 DEF TIInv, TTypeOK, Filled
<1>3. ASSUME ~past'.late
      PROVE  TInv'
  <2>1. TInv /\ ~past.late /\ TTypeOK
    BY <1>1, <1>3 DEF TIInv
  <2>2. Asking' /\ Stream' /\ Queue' /\ ShownUpToCursor'
    BY <1>1, <2>1, AskingKept, StreamKept, QueueKept, ShownKept, Parts DEF TInv
  <2>3. Connection' /\ InputReachesItsSession'
    BY <1>1, <2>1 DEF TInv, Connection, InputReachesItsSession
  <2>4. QED
    BY <2>2, <2>3 DEF TInv
<1>4. QED
  BY <1>2, <1>3 DEF TIInv

\* The invariant of the terminal: what the page waits for, what it is connected to, what is
\* on its way to it and what waits in it fit together.
THEOREM TerminalInvariance == TSpec => []TIInv
<1>1. TIInv /\ [TNext]_tvars => TIInv'
  BY TKeeps, TStutters
<1>2. QED
  BY TStarts, <1>1, PTL DEF TSpec

\* Sessions, connection, requests and page stay within their types.
THEOREM TerminalTypes == TSpec => []TTypeOK
<1>1. TIInv => TTypeOK
  BY DEF TIInv
<1>2. QED
  BY TerminalInvariance, <1>1, PTL

\* Whatever connections are lost, the page shows its session's output in order, once, and
\* all of it up to its cursor but what the backlog had dropped.
THEOREM ScreenIsWhole == TSpec => []ShownUpToCursor
<1>1. TIInv => ShownUpToCursor
  BY DEF TIInv, TInv, ShownUpToCursor
<1>2. QED
  BY TerminalInvariance, <1>1, PTL

\* What is typed for one session does not get into another, as long as no late answer is
\* taken and no fallback is given up with input in its queue.
THEOREM InputArrives == TSpec => []InputReachesItsSession
<1>1. TIInv => InputReachesItsSession
  BY DEF TIInv, TInv, InputReachesItsSession
<1>2. QED
  BY TerminalInvariance, <1>1, PTL

-----------------------------------------------------------------------------
(* The web terminal: output goes on *)

\* What is shown goes on at its end, or all of it is shown again from the start.
Onward ==
  \/ screen' = <<>> /\ tab'.cursor = 0
  \/ /\ tab.cursor <= tab'.cursor
     /\ DOMAIN screen \subseteq DOMAIN screen'
     /\ \A i \in DOMAIN screen : screen'[i] = screen[i]

\* Nothing that is shown changes.
Resting == screen' = screen /\ tab'.session = tab.session /\ tab'.cursor = tab.cursor

LEMMA RestsOnward ==
  ASSUME TTypeOK, screen' = screen, tab'.cursor = tab.cursor
  PROVE  Onward
<1>1. tab.cursor <= tab'.cursor
  BY Parts, Sizes
<1>2. QED
  BY <1>1 DEF Onward

\* Output is added.
LEMMA GrowsOnward ==
  ASSUME TTypeOK, NEW s \in Ids, NEW lo \in 1..(MaxChunks + 1), NEW hi \in Chunks,
         lo <= hi + 1, screen' = screen \o Chunk(s, lo, hi),
         tab'.cursor = hi, tab.cursor <= hi
  PROVE  Onward
<1>1. screen \in Seq(Ids \X (1..MaxChunks))
  BY DEF TTypeOK
<1>2. Goes(screen, screen', s, Len(screen), hi - lo + 1, lo)
  BY <1>1, ScreenGoes
<1>3. PICK k \in Nat, n \in Nat : k = Len(screen) /\ n = hi - lo + 1
  BY <1>1, Sizes
<1>4. DOMAIN screen = 1..k /\ DOMAIN screen' = 1..(k + n) /\ \A i \in 1..k : screen'[i] = screen[i]
  BY <1>2, <1>3 DEF Goes
<1>5. 1..k \subseteq 1..(k + n)
  OBVIOUS
<1>6. QED
  BY <1>4, <1>5 DEF Onward

\* The steps in which the page takes no output and stays where it is.
LEMMA Rests ==
  ASSUME TIInv, ~past.late,
         \/ \E s \in Ids : Output(s) \/ Exit(s) \/ Cleanup(s)
         \/ Consumer \/ Drop \/ HandshakeFails \/ Restart
         \/ \E c \in Slots : Serve(c) \/ CallFails(c) \/ CloseReturns(c)
         \/ Opened \/ SocketClosed \/ TimerFires \/ Type \/ Reconnect \/ Clear
         \/ \E t \in typed : PostInput(t) \/ Trim(t)
  PROVE  Resting
<1>1. TTypeOK /\ tab \in Page
  BY DEF TIInv, TTypeOK
<1>2. Connect(tab) => tab'.session = tab.session /\ tab'.cursor = tab.cursor
  BY <1>1, ConnectType
<1>3. CASE \E s \in Ids : Output(s) \/ Exit(s) \/ Cleanup(s)
  BY <1>3 DEF Output, Exit, Cleanup, CleanupLook, CleanupClose, client, Resting
<1>4. CASE Consumer \/ Drop \/ HandshakeFails \/ Restart
  BY <1>4 DEF Consumer, Accept, LoopEnds, LoopRead, Drop, HandshakeFails, Restart, client, Resting
<1>5. CASE \E c \in Slots : Serve(c) \/ CallFails(c)
  BY <1>5 DEF Serve, ServeStart, ServePoll, ReadPoll, ServeClose, CallFails, client, Resting
<1>6. CASE \E c \in Slots : CloseReturns(c)
  BY <1>2, <1>6 DEF CloseReturns, Resting
<1>7. CASE Opened
  BY <1>7 DEF Opened, client, Resting
<1>8. CASE SocketClosed
  <2>1. tab'.session = tab.session /\ tab'.cursor = tab.cursor
    BY <1>1, <1>8, Closes
  <2>2. QED
    BY <1>8, <2>1 DEF SocketClosed, Resting
<1>9. CASE TimerFires
  <2>1. CASE tab' = [tab EXCEPT !.timer = FALSE]
    BY <1>1, <1>9, <2>1 DEF TimerFires, Page, Resting
  <2>2. CASE Connect(tab)
    BY <1>2, <1>9, <2>2 DEF TimerFires, Resting
  <2>3. QED
    BY <1>9, <2>1, <2>2 DEF TimerFires
<1>10. CASE Type
  <2>1. UNCHANGED tab \/ Connect(tab)
    BY <1>10 DEF Type
  <2>2. QED
    BY <1>2, <1>10, <2>1 DEF Type, Resting
<1>11. CASE Reconnect
  BY <1>2, <1>11 DEF Reconnect, Resting
<1>12. CASE Clear
  BY <1>1, <1>12 DEF Clear, Page, Resting
<1>13. CASE \E t \in typed : PostInput(t) \/ Trim(t)
  BY <1>13 DEF PostInput, Trim, Resting
<1>14. QED
  BY <1>3, <1>4, <1>5, <1>6, <1>7, <1>8, <1>9, <1>10, <1>11, <1>12, <1>13

\* A session that the consumer tells is shown from where the page is or from the start.
LEMMA SessionOnward ==
  ASSUME TIInv, ~past.late, ReceiveSession, tab.session # NoSession, tab'.session = tab.session
  PROVE  Onward
<1> DEFINE m == sock.chan[1]
           p == [Saved(tab, m.id, m.cursor) EXCEPT !.ready = TRUE]
<1>1. /\ TTypeOK /\ TInv /\ Connected /\ 1 \in DOMAIN sock.chan
      /\ Head(sock.chan) = m /\ m \in Message
  BY Arrived DEF ReceiveSession
<1>2. m.type = "session" /\ m.id \in Ids /\ m.cursor \in Chunks
  BY <1>1, MessageType DEF ReceiveSession
<1>3. m.cursor # 0 => tab.session = m.id /\ tab.cursor = m.cursor
  BY <1>1, <1>2 DEF TInv, Stream, Greeting, ReceiveSession
<1>4. /\ tab' = p
      /\ screen' = IF tab.session \notin {NoSession, m.id} \/ m.cursor = 0 THEN <<>> ELSE screen
  BY <1>1 DEF ReceiveSession
<1> HIDE DEF m
<1>5. p.session = m.id /\ p.cursor = m.cursor
  <2>1. PICK q \in Page : q = Saved(tab, m.id, m.cursor) /\ q.session = m.id /\ q.cursor = m.cursor
    BY <1>1, <1>2, SavedType DEF TTypeOK
  <2>2. p = [q EXCEPT !.ready = TRUE]
    BY <2>1
  <2>3. QED
    BY <2>1, <2>2 DEF Page
<1>6. CASE m.cursor = 0
  BY <1>4, <1>5, <1>6 DEF Onward
<1>7. CASE m.cursor # 0
  <2>1. screen' = screen /\ tab'.cursor = tab.cursor
    BY <1>3, <1>4, <1>5, <1>7
  <2>2. QED
    BY <1>1, <2>1, RestsOnward
<1>8. QED
  BY <1>6, <1>7

\* Output that arrives over the websocket.
LEMMA OutputOnward ==
  ASSUME TIInv, ~past.late, ReceiveOutput
  PROVE  Onward
<1> DEFINE m == sock.chan[1]
<1>1. /\ TTypeOK /\ TInv /\ Connected /\ 1 \in DOMAIN sock.chan
      /\ Head(sock.chan) = m /\ m \in Message
  BY Arrived DEF ReceiveOutput
<1>2. m.type = "output" /\ m.id \in Ids /\ m.lo \in 1..MaxChunks /\ m.hi \in Chunks
  BY <1>1, MessageType DEF ReceiveOutput
<1>3. /\ tab' = [tab EXCEPT !.cursor = m.hi, !.replayed = FALSE, !.blank = FALSE]
      /\ screen' = screen \o Chunk(m.id, m.lo, m.hi)
  BY <1>1 DEF ReceiveOutput
<1>4. m.lo <= m.hi /\ tab.cursor <= m.hi
  <2>1. m.lo <= m.hi /\ Continues(past.evicted, sock.served, Reach(1 - 1), m.lo, m.hi)
    BY <1>1, <1>2 DEF TInv, Stream
  <2>2. Reach(1 - 1) = tab.cursor
    BY DEF Reach
  <2>3. QED
    BY <2>1, <2>2 DEF Continues
<1> HIDE DEF m
<1>5. tab'.cursor = m.hi
  BY <1>1, <1>3 DEF TTypeOK, Page
<1>6. m.lo \in 1..(MaxChunks + 1) /\ m.lo <= m.hi + 1
  BY <1>2, <1>4, Sizes
<1>7. QED
  BY <1>1, <1>2, <1>3, <1>4, <1>5, <1>6, GrowsOnward

\* The fallback starts from where the page is or from the start.
LEMMA FallbackOnward ==
  ASSUME TIInv, ~past.late, NEW c \in Slots, FallbackStarted(c), ~past'.late
  PROVE  Onward
<1> DEFINE call == calls[c]
           cursor == IF call.reused THEN tab.cursor ELSE 0
           p == [Saved(tab, call.id, cursor) EXCEPT !.fb = call.id, !.fcur = cursor,
                                                     !.polling = TRUE, !.chain = NewChain(@)]
<1>1. /\ calls[c] # Free /\ calls[c].kind = "start" /\ calls[c].step \in {"answered", "failed"}
  BY DEF FallbackStarted, Result
<1>2. /\ TTypeOK /\ Filled /\ TInv /\ call \in Call /\ WellFilled(call)
      /\ ~call.stale => RightlyAsked(call, tab, past.evicted)
  BY <1>1, AskedAlone
<1>3. CASE call.step = "failed"
  <2>1. UNCHANGED <<tab, screen>>
    BY <1>3 DEF FallbackStarted, client
  <2>2. QED
    BY <1>2, <2>1, RestsOnward
<1>4. CASE call.step = "answered"
  <2>1. /\ tab' = p
        /\ screen' = IF tab.session \notin {NoSession, call.id} \/ cursor = 0 THEN <<>> ELSE screen
        /\ past'.late = call.stale
    <3>1. past \in Past
      BY <1>2 DEF TTypeOK
    <3>2. \/ past' = [past EXCEPT !.late = call.stale]
          \/ \E b \in BOOLEAN : past' = [past EXCEPT !.late = call.stale, !.strayed = b]
      BY <1>4 DEF FallbackStarted
    <3>3. past'.late = call.stale
      BY <3>1, <3>2 DEF Past
    <3>4. QED
      BY <1>4, <3>3 DEF FallbackStarted
  <2>2. ~call.stale
    BY <2>1
  <2>3. /\ call.id \in Ids /\ call.reused \in BOOLEAN /\ cursor \in Chunks
    <3>1. call.id \in Ids \cup {NoSession} /\ call.reused \in BOOLEAN
      BY <1>2 DEF Call
    <3>2. QED
      BY <1>2, <1>4, <3>1, Parts, Sizes DEF WellFilled
  <2>4. IF call.reused THEN call.id = tab.session /\ cursor = tab.cursor ELSE cursor = 0
    BY <1>1, <1>2, <1>4, <2>2 DEF RightlyAsked
  <2>5. NewChain(tab.chain) \in Nat
    BY <1>2, NewChainType DEF TInv
  <2> HIDE DEF cursor
  <2>6. p.cursor = cursor
    <3>1. PICK q \in Page : q = Saved(tab, call.id, cursor) /\ q.cursor = cursor
      BY <1>2, <2>3, SavedType DEF TTypeOK
    <3>2. p = [q EXCEPT !.fb = call.id, !.fcur = cursor, !.polling = TRUE, !.chain = NewChain(@)]
      BY <3>1
    <3>3. QED
      BY <3>1, <3>2 DEF Page
  <2> HIDE DEF p
  <2>7. CASE cursor = 0
    BY <2>1, <2>6, <2>7 DEF Onward
  <2>8. CASE cursor # 0
    <3>1. screen' = screen /\ tab'.cursor = tab.cursor
      BY <2>1, <2>4, <2>6, <2>8
    <3>2. QED
      BY <1>2, <3>1, RestsOnward
  <2>9. QED
    BY <2>7, <2>8
<1>5. QED
  BY <1>1, <1>3, <1>4

\* The answer to a poll; after the last one the page has no session.
LEMMA PollOnward ==
  ASSUME TIInv, ~past.late, NEW c \in Slots, Polled(c), ~past'.late,
         tab.session # NoSession, tab'.session = tab.session
  PROVE  Onward
<1> DEFINE call == calls[c]
<1>1. /\ calls[c] # Free /\ calls[c].kind = "poll" /\ calls[c].step \in {"answered", "failed"}
      /\ past' = [past EXCEPT !.late = call.stale]
  BY DEF Polled, Result
<1>2. /\ TTypeOK /\ Filled /\ TInv /\ call \in Call /\ WellFilled(call)
      /\ ~call.stale => RightlyAsked(call, tab, past.evicted)
  BY <1>1, AskedAlone
<1>3. ~call.stale
  BY <1>1, <1>2 DEF TTypeOK, Past
<1>4. /\ call.id \in Ids /\ call.cursor \in Chunks
      /\ call.lo \in 1..(MaxChunks + 1) /\ call.lo <= call.cursor + 1
  <2>1. /\ call.id \in Ids \cup {NoSession} /\ call.cursor \in Chunks
        /\ call.lo \in 1..(MaxChunks + 1)
    BY <1>2 DEF Call
  <2>2. QED
    BY <1>1, <1>2, <2>1 DEF WellFilled
<1>5. /\ call.step = "failed" => tab'.cursor = tab.cursor
      /\ call.step # "failed" /\ call.alive =>
           tab'.cursor = IF call.cursor # 0 THEN call.cursor ELSE tab.fcur
      /\ call.step # "failed" /\ ~call.alive => tab'.session = NoSession
  BY <1>2, PolledPage
<1>6. screen' = IF call.step = "failed" THEN screen
                ELSE screen \o Chunk(call.id, call.lo, call.cursor)
  BY DEF Polled
<1>7. CASE call.step = "failed"
  BY <1>2, <1>5, <1>6, <1>7, RestsOnward
<1>8. CASE call.step # "failed"
  <2>1. call.id = tab.fb /\ Continues(past.evicted, call.id, tab.fcur, call.lo, call.cursor)
    BY <1>1, <1>2, <1>3, <1>8 DEF RightlyAsked
  <2>2. tab.cursor = tab.fcur /\ tab.fcur \in Nat /\ call.cursor \in Nat
    BY <1>2, <1>4, <2>1, Parts, Sizes DEF TInv, Connection
  <2>3. tab.cursor <= call.cursor
    BY <2>1, <2>2 DEF Continues
  <2>4. tab'.cursor = call.cursor
    BY <1>5, <1>8, <2>2, <2>3
  <2>5. QED
    BY <1>2, <1>4, <1>6, <1>8, <2>3, <2>4, GrowsOnward
<1>9. QED
  BY <1>7, <1>8

\* The user turns to a new session, or loads the page again.
LEMMA UserOnward ==
  ASSUME TIInv, ForceNew \/ Reload, tab.session # NoSession, tab'.session = tab.session
  PROVE  Onward
<1>1. tab \in Page
  BY DEF TIInv, TTypeOK
<1>2. CASE ForceNew
  <2>1. tab' = [StopFallback(tab) EXCEPT !.ready = FALSE, !.timer = FALSE, !.session = NoSession,
                                        !.cursor = 0, !.blank = TRUE]
    BY <1>2 DEF ForceNew
  <2>2. StopFallback(tab) \in Page
    BY <1>1, StopsFallback
  <2>3. tab'.session = NoSession
    BY <2>1, <2>2 DEF Page
  <2>4. QED
    BY <2>3
<1>3. CASE Reload
  BY <1>1, <1>3 DEF Reload, Page, Onward
<1>4. QED
  BY <1>2, <1>3

LEMMA StepsOnward ==
  ASSUME TIInv, TNext, ~past'.late, tab.session # NoSession, tab'.session = tab.session
  PROVE  Onward
<1>1. ~past.late /\ Step /\ TTypeOK
  BY DEF TNext, TIInv
<1>2. Resting => Onward
  BY <1>1, RestsOnward DEF Resting
<1>3. CASE \/ \E s \in Ids : Output(s) \/ Exit(s) \/ Cleanup(s)
           \/ Consumer \/ Drop \/ HandshakeFails \/ Restart
           \/ \E c \in Slots : Serve(c) \/ CallFails(c)
           \/ \E t \in typed : Trim(t)
  BY <1>1, <1>2, <1>3, Rests
<1>4. CASE Script
  <2>1. CASE \/ Opened \/ SocketClosed \/ TimerFires
             \/ \E c \in Slots : CloseReturns(c)
             \/ \E t \in typed : PostInput(t)
    BY <1>1, <1>2, <2>1, Rests
  <2>2. CASE ReceiveSession \/ ReceiveOutput
    BY <1>1, <2>2, SessionOnward, OutputOnward
  <2>3. CASE \E c \in Slots : FallbackStarted(c) \/ Polled(c)
    BY <1>1, <2>3, FallbackOnward, PollOnward
  <2>4. QED
    BY <1>4, <2>1, <2>2, <2>3 DEF Script
<1>5. CASE User
  BY <1>1, <1>2, <1>5, Rests, UserOnward DEF User
<1>6. QED
  BY <1>1, <1>3, <1>4, <1>5 DEF Step

\* As long as the page stays with a session, what is shown of it goes on at the end and
\* the cursor forward, or everything is shown again from the start: over the websocket, in
\* the fallback, and from one to the other.
THEOREM OutputContinues == TSpec => OutputGoesOn
<1> DEFINE Good == ~past'.late /\ tab.session # NoSession /\ tab'.session = tab.session => Onward
<1>1. TIInv /\ [TNext]_tvars => Good
  <2> SUFFICES ASSUME TIInv, [TNext]_tvars, ~past'.late, tab.session # NoSession,
                      tab'.session = tab.session
               PROVE  Onward
    OBVIOUS
  <2>1. CASE UNCHANGED tvars
    BY <2>1, RestsOnward DEF tvars, TIInv
  <2>2. QED
    BY <2>1, StepsOnward
<1>2. Good <=>
        (~past'.late /\ tab.session # NoSession /\ tab'.session = tab.session =>
           \/ screen' = <<>> /\ tab'.cursor = 0
           \/ /\ tab.cursor <= tab'.cursor
              /\ DOMAIN screen \subseteq DOMAIN screen'
              /\ \A i \in DOMAIN screen : screen'[i] = screen[i])
  BY DEF Onward
<1> HIDE DEF Good
<1>3. QED
  BY <1>1, <1>2, TerminalInvariance, PTL DEF TSpec, OutputGoesOn

USE ProgramsAssumption, BoundsAssumption, NoneAssumption

-----------------------------------------------------------------------------
(* Process control: the inductive invariant *)

Holding == {"names", "act", "wait", "spawn"}

\* A request holds the row and the action it was posted with, and only a restart goes
\* on after the signal.
Held ==
  \A r \in Requests :
    /\ req[r].pc # "none" => req[r].row # None /\ req[r].action # None
    /\ req[r].pc \in {"wait", "spawn"} => req[r].action = "restart"

\* What was read is a process that has been, and as long as one has its number it is
\* the same one.
ReadOnce ==
  /\ \A p \in Live : table[p].line <= births
  /\ \A r \in Requests : req[r].first # None =>
       /\ req[r].first.id <= births /\ req[r].first.line <= births
       /\ \A p \in Live : table[p].id = req[r].first.id => table[p] = req[r].first

\* Before it acts, a request has found the process it has read to be the one shown, if
\* that one still has the pid.
Checked ==
  \A r \in Requests :
    req[r].pc \in {"act", "wait"} /\ Kept(r) => Looks(req[r].row, req[r].first)

\* The map knows every process that is older than it, ...
MapIsTrue ==
  /\ cache.births <= births
  /\ cache.ok => \A p \in Live : table[p].id <= cache.births =>
                   cache.inits[p] = IF table[p].box # Own THEN table[p].box ELSE None

\* ... so that the container of a request is that of the process it has read.
Located ==
  \A r \in Requests :
    req[r].first # None /\ req[r].box # None /\ ~req[r].late => req[r].box = req[r].first.box

\* While one restart of a process is under way, the process is nowhere but at the pid
\* that is shown, and not even there once it waits for its launch.
RestartedAlone ==
  \A r \in Requests :
    req[r].pc \in Holding /\ req[r].action = "restart" =>
      /\ \A q \in Restarts(req[r].first.line) : q # r => req[r].first.line \in hist.double
      /\ \A p \in Live : table[p].line = req[r].first.line =>
           \/ req[r].first.line \in hist.double
           \/ req[r].pc # "spawn" /\ p = req[r].row.pid

Inv == /\ Held /\ ReadOnce /\ Checked /\ MapIsTrue /\ Located
       /\ RestartedAlone /\ HitsWhatWasShown /\ RunsOnce

IInv == TypeOK /\ Inv

-----------------------------------------------------------------------------
(* Process control: types *)

\* The process that has a pid.
LEMMA LiveProcess ==
  ASSUME TypeOK
  PROVE  /\ \A p \in Live : p \in Pids /\ table[p] \in Process
         /\ \A p \in Pids : table[p] # None <=> p \in Live
  BY DEF TypeOK, Live

\* A request that has been posted holds a row of the page.
LEMMA PostedRequest ==
  ASSUME TypeOK, Held, NEW r \in Requests
  PROVE  /\ req[r] \in Request
         /\ req[r].pc # "none" => /\ req[r].row \in Row /\ req[r].row.pid \in Pids
                                 /\ req[r].action \in Actions
         /\ req[r].pc \in Holding <=> req[r].first # None
         /\ req[r].first # None => req[r].first \in Process
<1>1. req[r] \in Request
  BY DEF TypeOK
<1>2. req[r].pc # "none" => req[r].row \in Row /\ req[r].action \in Actions
  BY <1>1 DEF Held, Request
<1>3. req[r].pc # "none" => req[r].row.pid \in Pids
  BY <1>2 DEF Row
<1>4. QED
  BY <1>1, <1>2, <1>3 DEF TypeOK, Holding, Request

\* The map of the containers.
LEMMA MapType ==
  ASSUME TypeOK
  PROVE  /\ NoCache \in Cache /\ ~NoCache.ok
         /\ Map \in Cache /\ Map.ok
         /\ Map = IF cache.ok THEN cache ELSE Inits
         /\ Inits.births = births
         /\ \A p \in Pids : Inits.inits[p] =
                            IF table[p] # None /\ table[p].box # Own THEN table[p].box ELSE None
<1>1. births \in 0..MaxBirths /\ cache \in Cache
  BY DEF TypeOK
<1>2. NoCache \in Cache /\ ~NoCache.ok
  BY BoundsAssumption DEF NoCache, Cache
<1>3. \A p \in Pids : table[p] # None => table[p].box \in Boxes \cup {None}
  BY DEF TypeOK, Process
<1>4. [p \in Pids |-> IF table[p] # None /\ table[p].box # Own THEN table[p].box ELSE None]
        \in [Pids -> Boxes \cup {None}]
  BY <1>3
<1>5. Inits \in Cache /\ Inits.ok
  BY <1>1, <1>4 DEF Inits, Cache
<1>6. QED
  BY <1>1, <1>2, <1>5 DEF Map, Inits

\* A container that is found is one of the containers.
LEMMA ContainerType ==
  ASSUME TypeOK, NEW p \in Pids, NEW i \in Process, NEW known \in BOOLEAN
  PROVE  Container(p, i, known) \in Boxes \cup {None}
<1>1. i.box \in Boxes \cup {None}
  BY DEF Process
<1>2. Map.inits[p] \in Boxes \cup {None}
  BY MapType DEF Cache
<1>3. QED
  BY <1>1, <1>2 DEF Container

\* The row of a live process.
LEMMA RowType ==
  ASSUME TypeOK, NEW p \in Live, NEW at \in Times \cup {None}
  PROVE  RowOf(p, at) \in Row /\ RowOf(p, at).pid = p /\ RowOf(p, at).at = at
  BY LiveProcess DEF RowOf, Row, Process

\* A request that is over.
LEMMA NoRequestType ==
  NoRequest \in Request /\ NoRequest.pc = "none" /\ NoRequest.first = None
  BY DEF NoRequest, Request

\* The process table, as far as TypeOK tells of it.
TableOK ==
  /\ table \in [Pids -> Process \cup {None}]
  /\ \A p, q \in Live : p # q => table[p].id # table[q].id
  /\ \A p \in Live : table[p].id <= births /\ table[p].born <= now
  /\ \A p, q \in Live : table[p].box \in Boxes \ {Own} /\ table[p].box = table[q].box => p = q

\* Processes that end leave a process table.
LEMMA TableShrinks ==
  ASSUME TypeOK, UNCHANGED births, now' \in Times, now <= now',
         table' = [p \in Pids |-> table'[p]],
         \A p \in Pids : table'[p] \in {table[p], None}
  PROVE  TableOK'
<1>1. Live' \subseteq Live /\ \A p \in Live' : table'[p] = table[p]
  BY DEF Live
<1>2. table' \in [Pids -> Process \cup {None}]
  BY DEF TypeOK
<1>3. \A p \in Live' : table'[p].born <= now'
  <2>1. \A p \in Live : table[p].born \in Nat /\ table[p].born <= now
    BY LiveProcess, BoundsAssumption DEF TypeOK, Process, Times
  <2>2. now \in Nat /\ now' \in Nat
    BY BoundsAssumption DEF TypeOK, Times
  <2>3. QED
    BY <1>1, <2>1, <2>2
<1>4. QED
  BY <1>1, <1>2, <1>3 DEF TypeOK, TableOK

\* A process that is born has a number of its own, and a container of its own.
LEMMA TableGrows ==
  ASSUME TypeOK, UNCHANGED now, NEW p \in Pids, table[p] = None, births < MaxBirths,
         births' = births + 1, NEW i \in Process, i.id = births', i.born = now,
         table' = [table EXCEPT ![p] = i],
         i.box \in {None, Own} \/ \A q \in Live : table[q].box # i.box
  PROVE  TableOK' /\ births' \in 0..MaxBirths
<1>1. births \in Nat /\ births' \in 0..MaxBirths /\ births' > births
  BY BoundsAssumption DEF TypeOK
<1>2. \A q \in Pids : table'[q] = IF q = p THEN i ELSE table[q]
  BY DEF TypeOK
<1>3. /\ \A q \in Live : q # p /\ table[q].id \in Nat /\ table[q].id <= births
      /\ Live' = Live \cup {p} /\ p \notin Live
  <2>1. i # None
    BY NoneAssumption
  <2>2. \A q \in Live : table[q].id \in Nat /\ table[q].id <= births
    BY LiveProcess, BoundsAssumption DEF TypeOK, Process, Births
  <2>3. QED
    BY <1>2, <2>1, <2>2 DEF Live
<1>4. table' \in [Pids -> Process \cup {None}]
  BY DEF TypeOK
<1>5. \A q, x \in Live' : q # x => table'[q].id # table'[x].id
  <2>1. \A q \in Live : table[q].id # i.id
    BY <1>1, <1>3
  <2>2. QED
    BY <1>2, <1>3, <2>1 DEF TypeOK
<1>6. \A q \in Live' : table'[q].id <= births' /\ table'[q].born <= now'
  <2>1. now \in Nat
    BY BoundsAssumption DEF TypeOK, Times
  <2>2. QED
    BY <1>1, <1>2, <1>3, <2>1 DEF TypeOK
<1>7. \A q, x \in Live' :
        table'[q].box \in Boxes \ {Own} /\ table'[q].box = table'[x].box => q = x
  <2>1. ASSUME NEW q \in Live', NEW x \in Live', q # x,
               table'[q].box \in Boxes \ {Own}, table'[q].box = table'[x].box
        PROVE  FALSE
    <3>1. CASE q # p /\ x # p
      BY <1>2, <1>3, <2>1, <3>1 DEF TypeOK
    <3>2. CASE q = p \/ x = p
      <4>1. i.box \in Boxes \ {Own}
        BY <1>2, <1>3, <2>1, <3>2
      <4>2. \A y \in Live : table[y].box # i.box
        BY <4>1, NoneAssumption
      <4>3. QED
        BY <1>2, <1>3, <2>1, <3>2, <4>2
    <3>3. QED
      BY <3>1, <3>2
  <2>2. QED
    BY <2>1
<1>8. QED
  BY <1>1, <1>4, <1>5, <1>6, <1>7 DEF TableOK

-----------------------------------------------------------------------------
(* Process control: steps in which no process is born and none is read *)

\* A request stays, is over, is posted, or goes on with what it has read.
Moves(r) ==
  \/ req'[r] = req[r]
  \/ req'[r].pc = "none" /\ req'[r].first = None
  \/ /\ req'[r].pc = "read" /\ req'[r].first = None
     /\ req'[r].row # None /\ req'[r].action # None
  \/ /\ req[r].pc \in Holding /\ req'[r].pc \in Holding
     /\ req'[r].row = req[r].row /\ req'[r].action = req[r].action
     /\ req'[r].first = req[r].first /\ req'[r].box = req[r].box /\ req'[r].late = req[r].late
     /\ req'[r].pc \in {"act", "wait"} /\ Kept(r) => Looks(req[r].row, req[r].first)
     /\ req'[r].pc \in {"wait", "spawn"} => req[r].action = "restart"
     /\ req'[r].pc = "spawn" => req[r].pc = "spawn" \/ table'[req[r].row.pid] = None

\* Such a step keeps what is known of the requests, and a process does not come to run
\* twice.
LEMMA RequestsMove ==
  ASSUME TypeOK, Inv, UNCHANGED births, hist'.double = hist.double,
         \A p \in Pids : table'[p] \in {table[p], None},
         \A r \in Requests : Moves(r)
  PROVE  Held' /\ ReadOnce' /\ Checked' /\ Located' /\ RestartedAlone' /\ RunsOnce'
<1>1. Live' \subseteq Live /\ \A p \in Live' : p \in Pids /\ table'[p] = table[p]
  BY DEF Live
<1>2. \A r \in Requests : req'[r].pc \in Holding =>
        /\ req[r].pc \in Holding /\ req[r].row.pid \in Pids /\ req[r].first # None
        /\ req'[r].row = req[r].row /\ req'[r].action = req[r].action
        /\ req'[r].first = req[r].first /\ req'[r].box = req[r].box /\ req'[r].late = req[r].late
        /\ req'[r].pc = "spawn" => req[r].pc = "spawn" \/ table'[req[r].row.pid] = None
  <2>1. SUFFICES ASSUME NEW r \in Requests, req'[r].pc \in Holding
        PROVE  /\ req[r].pc \in Holding /\ req[r].row.pid \in Pids /\ req[r].first # None
               /\ req'[r].row = req[r].row /\ req'[r].action = req[r].action
               /\ req'[r].first = req[r].first /\ req'[r].box = req[r].box
               /\ req'[r].late = req[r].late
               /\ req'[r].pc = "spawn" => req[r].pc = "spawn" \/ table'[req[r].row.pid] = None
    OBVIOUS
  <2>2. req[r].pc \in Holding /\ req'[r].first = req[r].first
    BY <2>1 DEF Moves, Holding
  <2>3. req[r].row.pid \in Pids /\ req[r].first # None
    BY <2>2, PostedRequest DEF Inv, Holding
  <2>4. QED
    BY <2>1, <2>2, <2>3 DEF Moves, Holding
<1>3. \A r \in Requests : req'[r].first # None => req'[r].first = req[r].first
  BY DEF Moves
<1>4. Held'
  <2>1. ASSUME NEW r \in Requests
        PROVE  /\ req'[r].pc # "none" => req'[r].row # None /\ req'[r].action # None
               /\ req'[r].pc \in {"wait", "spawn"} => req'[r].action = "restart"
    BY DEF Moves, Inv, Held, Holding
  <2>2. QED
    BY <2>1 DEF Held
<1>5. ReadOnce'
  BY <1>1, <1>3 DEF Inv, ReadOnce
<1>6. Checked'
  <2>1. SUFFICES ASSUME NEW r \in Requests, req'[r].pc \in {"act", "wait"}, Kept(r)'
        PROVE  Looks(req'[r].row, req'[r].first)
    BY DEF Checked, Looks
  <2>2. /\ req[r].pc \in Holding /\ req[r].row.pid \in Pids
        /\ req'[r].row = req[r].row /\ req'[r].first = req[r].first
    BY <1>2, <2>1 DEF Holding
  <2>3. Kept(r)
    BY <2>1, <2>2 DEF Kept, At
  <2>4. Looks(req[r].row, req[r].first)
    BY <2>1, <2>3 DEF Moves, Inv, Checked
  <2>5. QED
    BY <2>2, <2>4
<1>7. Located'
  <2>1. \A r \in Requests : req'[r].first # None => req'[r].pc \in Holding \/ req'[r] = req[r]
    BY DEF Moves
  <2>2. QED
    BY <1>2, <2>1 DEF Inv, Located
<1>8. RestartedAlone'
  <2>1. SUFFICES ASSUME NEW r \in Requests, req'[r].pc \in Holding, req'[r].action = "restart"
        PROVE  /\ \A q \in Restarts(req[r].first.line)' :
                    q # r => req[r].first.line \in hist.double
               /\ \A p \in Live' : table'[p].line = req[r].first.line =>
                    \/ req[r].first.line \in hist.double
                    \/ req'[r].pc # "spawn" /\ p = req[r].row.pid
    BY <1>2 DEF RestartedAlone
  <2>2. /\ \A q \in Restarts(req[r].first.line) : q # r => req[r].first.line \in hist.double
        /\ \A p \in Live : table[p].line = req[r].first.line =>
             \/ req[r].first.line \in hist.double
             \/ req[r].pc # "spawn" /\ p = req[r].row.pid
    BY <1>2, <2>1 DEF Inv, RestartedAlone
  <2>3. ASSUME NEW p \in Live', table'[p].line = req[r].first.line
        PROVE  \/ req[r].first.line \in hist.double
               \/ req'[r].pc # "spawn" /\ p = req[r].row.pid
    <3>1. p \in Live /\ table[p].line = req[r].first.line /\ table'[p] # None
      BY <1>1, <2>3 DEF Live
    <3>2. QED
      BY <1>2, <2>1, <2>2, <3>1
  <2>4. \A q \in Restarts(req[r].first.line)' : q \in Restarts(req[r].first.line)
    BY <1>2, <2>1 DEF Restarts, Holding
  <2>5. QED
    BY <2>2, <2>3, <2>4
<1>9. RunsOnce'
  BY <1>1 DEF Inv, RunsOnce
<1>10. QED
  BY <1>4, <1>5, <1>6, <1>7, <1>8, <1>9

-----------------------------------------------------------------------------
(* Process control: steps in which a process is born *)

\* The launch of a request that waited for it.
Launches(r, i) ==
  /\ req[r].pc = "spawn" /\ i.line = req[r].first.line
  /\ req'[r].pc = "none"

\* A process that is new, or launched by a restart that is over with that, runs once
\* if only one restart of it was under way.
LEMMA ProcessIsBorn ==
  ASSUME TypeOK, Inv, NEW p \in Pids, table[p] = None, births < MaxBirths,
         births' = births + 1, NEW i \in Process, i.id = births',
         table' = [table EXCEPT ![p] = i], UNCHANGED <<hist, cache>>,
         \A r \in Requests : req'[r] = req[r] \/ (req'[r].pc = "none" /\ req'[r].first = None),
         i.line = births' \/ \E r \in Requests : Launches(r, i)
  PROVE  Inv'
<1>1. births \in Nat /\ births' > births
  BY BoundsAssumption DEF TypeOK
<1>2. /\ table'[p] = i /\ \A q \in Pids \ {p} : table'[q] = table[q]
      /\ Live' = Live \cup {p} /\ p \notin Live /\ Live \subseteq Pids
  BY NoneAssumption DEF TypeOK, Live
<1>3. /\ \A q \in Live : table[q].line \in Nat /\ table[q].line <= births
      /\ \A q \in Live : table[q].id \in Nat /\ table[q].id <= births
  <2>1. \A q \in Live : table[q].id \in Nat /\ table[q].line \in Nat
    BY LiveProcess, BoundsAssumption DEF Process, Births
  <2>2. QED
    BY <2>1 DEF Inv, ReadOnce, TypeOK
<1>4. \A r \in Requests : req[r].first # None =>
        /\ req[r].first.id \in Nat /\ req[r].first.id <= births
        /\ req[r].first.line \in Nat /\ req[r].first.line <= births
  <2>1. \A r \in Requests : req[r].first # None => req[r].first \in Process
    BY DEF TypeOK, Request
  <2>2. \A x \in Process : x.id \in Nat /\ x.line \in Nat
    BY BoundsAssumption DEF Process, Births
  <2>3. QED
    BY <2>1, <2>2 DEF Inv, ReadOnce
<1>5. \A r \in Requests : req'[r].pc \in Holding \/ req'[r].first # None =>
        req'[r] = req[r] /\ req[r].first # None /\ req[r].row.pid \in Pids
  <2>1. \A r \in Requests : req[r].pc \in Holding \/ req[r].first # None =>
          req[r].first # None /\ req[r].row.pid \in Pids
    BY PostedRequest DEF Inv, Holding
  <2>2. QED
    BY <2>1 DEF Holding
<1>6. i.line \in Nat /\ i.line <= births'
  BY <1>1, <1>4, PostedRequest DEF Launches, Inv, Holding
<1>7. Held'
  BY DEF Inv, Held
<1>8. ReadOnce'
  <2>1. \A q \in Live' : table'[q].line <= births'
    BY <1>1, <1>2, <1>3, <1>6
  <2>2. ASSUME NEW r \in Requests, req'[r].first # None
        PROVE  /\ req'[r].first.id <= births' /\ req'[r].first.line <= births'
               /\ \A q \in Live' : table'[q].id = req'[r].first.id => table'[q] = req'[r].first
    <3>1. req'[r].first = req[r].first /\ req[r].first # None
      BY <1>5, <2>2
    <3>2. \A q \in Live : table[q].id = req[r].first.id => table[q] = req[r].first
      BY <3>1 DEF Inv, ReadOnce
    <3>3. req[r].first.id # i.id
      BY <1>1, <1>4, <3>1
    <3>4. QED
      BY <1>1, <1>2, <1>4, <3>1, <3>2, <3>3
  <2>3. QED
    BY <2>1, <2>2 DEF ReadOnce
<1>9. Checked'
  <2>1. SUFFICES ASSUME NEW r \in Requests, req'[r].pc \in {"act", "wait"}, Kept(r)'
        PROVE  Looks(req'[r].row, req'[r].first)
    BY DEF Checked, Looks
  <2>2. req'[r] = req[r] /\ req[r].first # None /\ req[r].row.pid \in Pids
    BY <1>5, <2>1 DEF Holding
  <2>3. req[r].row.pid # p
    BY <1>1, <1>2, <1>4, <2>1, <2>2 DEF Kept, At
  <2>4. Kept(r)
    BY <1>2, <2>1, <2>2, <2>3 DEF Kept, At
  <2>5. QED
    BY <2>1, <2>2, <2>4 DEF Inv, Checked
<1>10. MapIsTrue'
  <2>1. cache.births \in Nat /\ cache.births <= births
    BY BoundsAssumption DEF TypeOK, Cache, Inv, MapIsTrue
  <2>2. \A q \in Live' : table'[q].id <= cache.births => q \in Live /\ table'[q] = table[q]
    BY <1>1, <1>2, <2>1
  <2>3. cache'.births <= births'
    BY <1>1, <2>1
  <2>4. QED
    BY <2>2, <2>3 DEF Inv, MapIsTrue
<1>11. Located'
  BY <1>5 DEF Inv, Located
<1>12. RestartedAlone'
  <2>1. SUFFICES ASSUME NEW r \in Requests, req'[r].pc \in Holding, req'[r].action = "restart"
        PROVE  /\ \A q \in Restarts(req[r].first.line)' :
                    q # r => req'[r].first.line \in hist'.double
               /\ \A q \in Live' : table'[q].line = req'[r].first.line =>
                    \/ req'[r].first.line \in hist'.double
                    \/ req'[r].pc # "spawn" /\ q = req'[r].row.pid
    BY DEF RestartedAlone
  <2>2. req'[r] = req[r] /\ req[r].first # None
    BY <1>5, <2>1
  <2>3. /\ \A q \in Restarts(req[r].first.line) : q # r => req[r].first.line \in hist.double
        /\ \A q \in Live : table[q].line = req[r].first.line =>
             \/ req[r].first.line \in hist.double
             \/ req[r].pc # "spawn" /\ q = req[r].row.pid
    BY <2>1, <2>2 DEF Inv, RestartedAlone
  <2>4. \A q \in Restarts(req[r].first.line)' : q \in Restarts(req[r].first.line)
    BY <1>5, <2>2 DEF Restarts, Holding
  <2>5. i.line = req[r].first.line => req[r].first.line \in hist.double
    <3>1. i.line # births' \/ i.line # req[r].first.line
      BY <1>1, <1>4, <2>2
    <3>2. ASSUME NEW x \in Requests, Launches(x, i), i.line = req[r].first.line
          PROVE  req[r].first.line \in hist.double
      <4>1. x # r /\ req[x].action = "restart"
        BY <2>1, <3>2 DEF Launches, Holding, Inv, Held
      <4>2. x \in Restarts(req[r].first.line)
        BY <3>2, <4>1 DEF Launches, Restarts
      <4>3. QED
        BY <2>3, <4>1, <4>2
    <3>3. QED
      BY <3>1, <3>2
  <2>6. \A q \in Live' : table'[q].line = req[r].first.line =>
          \/ req[r].first.line \in hist.double
          \/ req[r].pc # "spawn" /\ q = req[r].row.pid
    BY <1>2, <2>3, <2>5
  <2>7. QED
    BY <2>2, <2>3, <2>4, <2>6
<1>13. HitsWhatWasShown'
  BY DEF Inv, HitsWhatWasShown
<1>14. RunsOnce'
  <2>1. \A q \in Live : table[q].line = i.line => i.line \in hist.double
    <3>1. \A q \in Live : table[q].line # births'
      BY <1>1, <1>3
    <3>2. ASSUME NEW x \in Requests, Launches(x, i), NEW q \in Live, table[q].line = i.line
          PROVE  i.line \in hist.double
      <4>1. req[x].pc = "spawn" /\ req[x].action = "restart"
        BY <3>2 DEF Launches, Inv, Held
      <4>2. QED
        BY <3>2, <4>1 DEF Launches, Inv, RestartedAlone, Holding
    <3>3. QED
      BY <3>1, <3>2
  <2>2. ASSUME NEW a \in Live', NEW b \in Live', a # b, table'[a].line = table'[b].line
        PROVE  table'[a].line \in hist.double
    <3>1. CASE a # p /\ b # p
      <4>1. a \in Live /\ b \in Live /\ table'[a] = table[a] /\ table'[b] = table[b]
        BY <1>2, <3>1
      <4>2. QED
        BY <2>2, <4>1 DEF Inv, RunsOnce
    <3>2. CASE a = p
      BY <1>2, <2>1, <2>2, <3>2
    <3>3. CASE b = p
      BY <1>2, <2>1, <2>2, <3>3
    <3>4. QED
      BY <3>1, <3>2, <3>3
  <2>3. QED
    BY <2>2 DEF RunsOnce
<1>15. QED
  BY <1>7, <1>8, <1>9, <1>10, <1>11, <1>12, <1>13, <1>14 DEF Inv

-----------------------------------------------------------------------------
(* Process control: steps in which a process is read *)

\* The map that is read is true.
LEMMA MapIsRead ==
  ASSUME TypeOK, MapIsTrue
  PROVE  /\ Map.births \in Nat /\ Map.births <= births
         /\ \A p \in Live : table[p].id <= Map.births =>
              Map.inits[p] = IF table[p].box # Own THEN table[p].box ELSE None
<1>1. births \in Nat /\ Map.births \in Nat
  BY MapType, BoundsAssumption DEF TypeOK, Cache
<1>2. CASE cache.ok
  BY <1>1, <1>2, MapType DEF MapIsTrue
<1>3. CASE ~cache.ok
  <2>1. Map = Inits
    BY <1>3, MapType
  <2>2. \A p \in Live : Inits.inits[p] = IF table[p].box # Own THEN table[p].box ELSE None
    BY MapType DEF Live
  <2>3. Inits.births = births
    BY MapType
  <2>4. QED
    BY <1>1, <2>1, <2>2, <2>3
<1>4. QED
  BY <1>2, <1>3

\* The container that is detected, by a map that is not older than the process, is its
\* container.
LEMMA ContainerIsTrue ==
  ASSUME TypeOK, MapIsTrue, NEW p \in Live, NEW known \in BOOLEAN,
         Container(p, table[p], known) # None,
         ~(InCgroup(table[p]) = None /\ known /\ Map.births < table[p].id)
  PROVE  Container(p, table[p], known) = table[p].box
<1>1. table[p].id \in Nat /\ Map.births \in Nat
  BY LiveProcess, MapIsRead, BoundsAssumption DEF Process, Births
<1>2. CASE InCgroup(table[p]) # None
  BY <1>2 DEF Container
<1>3. CASE InCgroup(table[p]) = None
  <2>1. known
    BY <1>3 DEF Container
  <2>2. table[p].id <= Map.births
    BY <1>1, <1>3, <2>1
  <2>3. Map.inits[p] = IF table[p].box # Own THEN table[p].box ELSE None
    BY <2>2, MapIsRead
  <2>4. QED
    BY <1>3, <2>1, <2>3 DEF Container
<1>4. QED
  BY <1>2, <1>3

\* What is read of a process is true of it, and of the restarts of it that are under
\* way the reading one is recorded.
LEMMA ProcessIsRead ==
  ASSUME TypeOK, Inv, NEW r \in Requests, NEW known \in BOOLEAN, Reads(r, known),
         UNCHANGED <<table, births>>
  PROVE  /\ Inv'
         /\ req' \in [Requests -> Request] /\ cache' \in Cache /\ hist' \in History
         /\ \A x \in Requests : (req'[x].pc \in Holding) <=> (req'[x].first # None)
<1>. DEFINE i == At(r)
            b == Container(req[r].row.pid, i, known)
<1>1. /\ req \in [Requests -> Request] /\ cache \in Cache /\ hist \in History
      /\ \A x \in Requests : (req[x].pc \in Holding) <=> (req[x].first # None)
  BY DEF TypeOK, Holding
<1>2. req[r].row.pid \in Pids /\ req[r].pc = "read"
  BY PostedRequest DEF Reads, Inv
<1>3. CASE i = None
  <2>1. req' = [req EXCEPT ![r] = NoRequest] /\ UNCHANGED <<cache, hist>>
    BY <1>3 DEF Reads, Answers
  <2>2. /\ req' \in [Requests -> Request]
        /\ \A x \in Requests : req'[x] = IF x = r THEN NoRequest ELSE req[x]
    BY <1>1, <2>1, NoRequestType
  <2>3. \A x \in Requests : Moves(x)
    BY <2>2, NoRequestType DEF Moves
  <2>4. Held' /\ ReadOnce' /\ Checked' /\ Located' /\ RestartedAlone' /\ RunsOnce'
    BY <2>1, <2>3, RequestsMove
  <2>5. MapIsTrue' /\ HitsWhatWasShown'
    BY <2>1 DEF Inv, MapIsTrue, HitsWhatWasShown, Live
  <2>6. QED
    BY <1>1, <2>1, <2>2, <2>4, <2>5, NoRequestType DEF Inv, Holding
<1>4. CASE i # None
  <2>1. req[r].row.pid \in Live /\ i = table[req[r].row.pid] /\ i \in Process
    BY <1>2, <1>4, LiveProcess DEF At
  <2>2. PICK late \in BOOLEAN : late = (InCgroup(i) = None /\ known /\ Map.births < i.id)
    BY Zenon
  <2>3. req' = [req EXCEPT ![r].pc = "names", ![r].first = i, ![r].box = b, ![r].late = late]
    BY <1>4, <2>2, Zenon DEF Reads
  <2>4. b \in Boxes \cup {None}
    BY <1>2, <2>1, ContainerType
  <2>5. /\ hist' = IF req[r].action = "restart" /\ Restarts(i.line) # {}
                   THEN [hist EXCEPT !.double = @ \cup {i.line}] ELSE hist
        /\ cache' = IF InCgroup(i) = None /\ known THEN Map ELSE cache
    BY <1>4, Zenon DEF Reads
  <2>6. b # None /\ ~late => b = i.box
    BY <2>1, <2>2, ContainerIsTrue DEF Inv
  <2>. HIDE DEF i, b
  <2>7. /\ \A x \in Requests \ {r} : req'[x] = req[x]
        /\ req'[r].pc = "names" /\ req'[r].row = req[r].row /\ req'[r].action = req[r].action
        /\ req'[r].first = i /\ req'[r].box = b /\ req'[r].late = late
    BY <1>1, <2>3 DEF Request
  <2>8. req' \in [Requests -> Request]
    <3>1. req[r] \in Request
      BY <1>1
    <3>2. [req[r] EXCEPT !.pc = "names", !.first = i, !.box = b, !.late = late] \in Request
      BY ONLY <2>1, <2>2, <2>4, <3>1, Zenon DEF Request
    <3>3. req' = [req EXCEPT ![r] = [req[r] EXCEPT !.pc = "names", !.first = i, !.box = b, !.late = late]]
      BY <1>1, <2>3
    <3>4. QED
      BY <1>1, <3>2, <3>3
  <2>9. i.line \in Births /\ i # None
    BY <2>1, NoneAssumption DEF Process
  <2>10. /\ hist' \in History /\ hist.double \subseteq hist'.double
         /\ hist'.wrong = hist.wrong /\ hist'.stray = hist.stray
         /\ req[r].action = "restart" /\ Restarts(i.line) # {} => i.line \in hist'.double
    BY <1>1, <2>5, <2>9 DEF History
  <2>11. cache' \in Cache /\ cache' \in {cache, Map}
    BY <1>1, <2>5, MapType
  <2>12. Held'
    BY <1>2, <2>7 DEF Inv, Held
  <2>13. ReadOnce'
    <3>1. i.id <= births /\ i.line <= births
      BY <2>1 DEF Inv, ReadOnce, TypeOK
    <3>2. \A p \in Live : table[p].id = i.id => table[p] = i
      BY <2>1 DEF TypeOK
    <3>3. QED
      BY <2>7, <3>1, <3>2 DEF Inv, ReadOnce, Live
  <2>14. Checked'
    <3>1. ASSUME NEW x \in Requests, req'[x].pc \in {"act", "wait"}, Kept(x)'
          PROVE  Looks(req'[x].row, req'[x].first)
      BY <2>7, <3>1 DEF Inv, Checked, Kept, At
    <3>2. QED
      BY <3>1 DEF Checked, Looks
  <2>15. MapIsTrue'
    BY <2>11, MapIsRead DEF Inv, MapIsTrue, Live
  <2>16. Located'
    BY <2>6, <2>7 DEF Inv, Located
  <2>17. \A line : \A q \in Requests : q # r =>
           (req'[q].pc \in Holding /\ req'[q].action = "restart" /\ req'[q].first.line = line
              <=> q \in Restarts(line))
    BY <2>7 DEF Restarts, Holding
  <2>18. RestartedAlone'
    <3>1. SUFFICES ASSUME NEW x \in Requests, req'[x].pc \in Holding, req'[x].action = "restart",
                          NEW line, line = req'[x].first.line
          PROVE  /\ \A q \in Requests : q # x /\ req'[q].pc \in Holding
                      /\ req'[q].action = "restart" /\ req'[q].first.line = line
                      => line \in hist'.double
                 /\ \A p \in Live : table[p].line = line =>
                      \/ line \in hist'.double
                      \/ req'[x].pc # "spawn" /\ p = req'[x].row.pid
      BY DEF RestartedAlone, Restarts, Holding, Live
    <3>2. CASE x = r
      <4>1. line = i.line /\ req[r].action = "restart"
        BY <2>7, <3>1, <3>2
      <4>2. \A p \in Live : table[p].line = line => line \in hist.double \/ p = req[r].row.pid
        BY <2>1, <4>1 DEF Inv, RunsOnce
      <4>3. QED
        BY <2>7, <2>10, <2>17, <3>2, <4>1, <4>2
    <3>3. CASE x # r
      <4>1. /\ req[x].pc \in Holding /\ req[x].action = "restart" /\ req[x].first.line = line
            /\ req'[x] = req[x]
        BY <2>7, <3>1, <3>3
      <4>2. x \in Restarts(line)
        BY <4>1 DEF Restarts, Holding
      <4>3. /\ \A q \in Restarts(line) : q # x => line \in hist.double
            /\ \A p \in Live : table[p].line = line =>
                 \/ line \in hist.double
                 \/ req[x].pc # "spawn" /\ p = req[x].row.pid
        BY <4>1 DEF Inv, RestartedAlone
      <4>4. req'[r].action = "restart" /\ req'[r].first.line = line => line \in hist'.double
        BY <2>7, <2>10, <4>2
      <4>5. QED
        BY <2>10, <2>17, <4>1, <4>3, <4>4
    <3>4. QED
      BY <3>2, <3>3
  <2>19. HitsWhatWasShown' /\ RunsOnce'
    BY <2>10 DEF Inv, HitsWhatWasShown, RunsOnce, Live
  <2>20. \A x \in Requests : (req'[x].pc \in Holding) <=> (req'[x].first # None)
    BY <1>1, <2>7, <2>9 DEF Holding
  <2>21. QED
    BY <2>8, <2>10, <2>11, <2>12, <2>13, <2>14, <2>15, <2>16, <2>18, <2>19, <2>20 DEF Inv
<1>5. QED
  BY <1>3, <1>4

-----------------------------------------------------------------------------
(* Process control: what the actions do to the requests and to the history *)

RequestsOK ==
  /\ req \in [Requests -> Request]
  /\ \A r \in Requests : (req[r].pc \in Holding) <=> (req[r].first # None)

\* A request that is answered.
LEMMA RequestAnswered ==
  ASSUME TypeOK, NEW r \in Requests, Answers(r)
  PROVE  /\ RequestsOK' /\ req'[r] = NoRequest
         /\ \A x \in Requests : req'[x] = req[x] \/ (req'[x].pc = "none" /\ req'[x].first = None)
         /\ \A x \in Requests : Moves(x)
<1>1. RequestsOK
  BY DEF TypeOK, RequestsOK, Holding
<1>2. /\ req' \in [Requests -> Request]
      /\ \A x \in Requests : req'[x] = IF x = r THEN NoRequest ELSE req[x]
  BY <1>1, NoRequestType DEF RequestsOK, Answers
<1>3. \A x \in Requests : req'[x] = req[x] \/ (req'[x].pc = "none" /\ req'[x].first = None)
  BY <1>2, NoRequestType
<1>4. \A x \in Requests : Moves(x)
  BY <1>3 DEF Moves
<1>5. RequestsOK'
  BY <1>1, <1>2, NoRequestType DEF RequestsOK, Holding
<1>6. QED
  BY <1>2, <1>3, <1>4, <1>5

\* A request that goes on.
LEMMA GoesOn ==
  ASSUME TypeOK, NEW r \in Requests, NEW pc \in Holding, req[r].pc \in Holding,
         req' = [req EXCEPT ![r].pc = pc],
         pc \in {"act", "wait"} /\ Kept(r) => Looks(req[r].row, req[r].first),
         pc \in {"wait", "spawn"} => req[r].action = "restart",
         pc = "spawn" => table'[req[r].row.pid] = None
  PROVE  RequestsOK' /\ \A x \in Requests : Moves(x)
<1>1. RequestsOK
  BY DEF TypeOK, RequestsOK, Holding
<1>2. [req[r] EXCEPT !.pc = pc] \in Request
  <2>1. req[r] \in Request
    BY <1>1 DEF RequestsOK
  <2>2. QED
    BY <2>1 DEF Request, Holding
<1>3. req' \in [Requests -> Request]
  BY <1>1, <1>2 DEF RequestsOK
<1>4. /\ \A x \in Requests \ {r} : req'[x] = req[x]
      /\ req'[r].pc = pc /\ req'[r].row = req[r].row /\ req'[r].action = req[r].action
      /\ req'[r].first = req[r].first /\ req'[r].box = req[r].box /\ req'[r].late = req[r].late
  BY <1>1 DEF RequestsOK, Request
<1>5. RequestsOK'
  BY <1>1, <1>3, <1>4 DEF RequestsOK
<1>6. \A x \in Requests : Moves(x)
  <2>1. Moves(r)
    BY <1>4 DEF Moves
  <2>2. QED
    BY <1>4, <2>1 DEF Moves
<1>7. QED
  BY <1>5, <1>6

\* What still has the pid of a request is what it has read.
LEMMA KeptIsFirst ==
  ASSUME TypeOK, Inv, NEW r \in Requests, req[r].pc \in Holding, Kept(r)
  PROVE  At(r) = req[r].first
<1>1. req[r].first # None /\ req[r].row.pid \in Pids
  BY PostedRequest DEF Inv, Holding
<1>2. QED
  BY <1>1 DEF Kept, At, Live, Inv, ReadOnce

\* A request that acts hits what was shown, if it hits what it has read.
LEMMA HitsRight ==
  ASSUME TypeOK, Inv, NEW r \in Requests, req[r].pc \in {"act", "wait"}
  PROVE  /\ Hits(hist, r) \in History /\ Hits(hist, r).double = hist.double
         /\ ~Hits(hist, r).wrong /\ ~Hits(hist, r).stray
<1>1. hist \in History /\ ~hist.wrong /\ ~hist.stray
  BY DEF TypeOK, Inv, HitsWhatWasShown
<1>2. PICK wrong \in BOOLEAN : wrong = (hist.wrong \/ (Kept(r) /\ ~Looks(req[r].row, At(r))))
  BY Zenon
<1>3. PICK unasked \in BOOLEAN : unasked = (hist.unasked \/ req[r].row.box # req[r].box)
  BY Zenon
<1>4. Kept(r) => Looks(req[r].row, At(r))
  BY KeptIsFirst DEF Inv, Checked, Holding
<1>5. ~wrong
  BY <1>1, <1>2, <1>4
<1>6. Hits(hist, r) = [hist EXCEPT !.wrong = wrong, !.unasked = unasked]
  BY <1>2, <1>3, Zenon DEF Hits
<1>7. QED
  BY <1>1, <1>5, <1>6 DEF History

\* Nor is another container hit.
LEMMA NothingStrays ==
  ASSUME TypeOK, Inv, NEW r \in Requests, req[r].pc = "act", req[r].box # None
  PROVE  ~(Kept(r) /\ At(r).box # req[r].box /\ ~req[r].late)
<1>1. req[r].first # None
  BY PostedRequest DEF Inv, Holding
<1>2. QED
  BY <1>1, KeptIsFirst DEF Inv, Located, Holding

\* A process table that has lost processes is as true as the map that was made of it.
LEMMA MapStaysTrue ==
  ASSUME TypeOK, MapIsTrue, UNCHANGED births, cache' \in {cache, NoCache, Map},
         \A p \in Pids : table'[p] \in {table[p], None}
  PROVE  MapIsTrue' /\ cache' \in Cache
<1>1. Live' \subseteq Live /\ \A p \in Live' : table'[p] = table[p]
  BY DEF Live
<1>2. births \in Nat
  BY BoundsAssumption DEF TypeOK
<1>3. cache' \in Cache
  BY MapType DEF TypeOK
<1>4. CASE cache' = NoCache
  BY <1>2, <1>3, <1>4 DEF NoCache, MapIsTrue
<1>5. CASE cache' = cache
  BY <1>1, <1>3, <1>5 DEF MapIsTrue
<1>6. CASE cache' = Map
  BY <1>1, <1>3, <1>6, MapIsRead DEF MapIsTrue
<1>7. QED
  BY <1>3, <1>4, <1>5, <1>6

-----------------------------------------------------------------------------
(* Process control: each action keeps the invariant *)

BoundsOK == acts \in 0..MaxActs /\ outside \in 0..MaxOutside /\ faults \in 0..MaxFaults

PagesOK == samples \subseteq Row /\ (\A x \in samples : x.at # None) /\ page \subseteq Row

LEMMA TypeParts ==
  TypeOK <=> /\ now \in Times /\ births \in 0..MaxBirths /\ TableOK
             /\ PagesOK /\ cache \in Cache /\ RequestsOK /\ up \in BOOLEAN
             /\ hist \in History /\ BoundsOK
  BY DEF TypeOK, TableOK, PagesOK, RequestsOK, BoundsOK, Holding

\* What the counters count.
LEMMA Counted ==
  ASSUME TypeOK
  PROVE  /\ Fault => BoundsOK'
         /\ Outside => BoundsOK'
         /\ UNCHANGED bounds => BoundsOK'
         /\ (acts < MaxActs /\ acts' = acts + 1 /\ UNCHANGED <<outside, faults>>) => BoundsOK'
<1>1. BoundsOK /\ {MaxActs, MaxOutside, MaxFaults} \subseteq Nat
  BY BoundsAssumption DEF TypeOK, BoundsOK
<1>2. QED
  BY <1>1 DEF BoundsOK, Fault, Outside, bounds

\* A step in which no process is born and none is read, and nothing else than what was
\* shown is hit, keeps the invariant.
LEMMA StepKeeps ==
  ASSUME IInv, UNCHANGED births, now' \in Times, now <= now',
         table' = [p \in Pids |-> table'[p]], \A p \in Pids : table'[p] \in {table[p], None},
         PagesOK', cache' \in {cache, NoCache, Map}, up' \in BOOLEAN, BoundsOK',
         RequestsOK', \A r \in Requests : Moves(r),
         hist' \in History, hist'.double = hist.double, ~hist'.wrong, ~hist'.stray
  PROVE  IInv'
<1>1. TypeOK /\ Inv /\ MapIsTrue
  BY DEF IInv, Inv
<1>2. TableOK' /\ births' \in 0..MaxBirths
  BY <1>1, TableShrinks DEF TypeOK
<1>3. MapIsTrue' /\ cache' \in Cache
  BY <1>1, MapStaysTrue
<1>4. TypeOK'
  BY <1>2, <1>3 DEF TypeOK, TableOK, PagesOK, RequestsOK, BoundsOK, Holding
<1>5. Held' /\ ReadOnce' /\ Checked' /\ Located' /\ RestartedAlone' /\ RunsOnce'
  BY <1>1, RequestsMove
<1>6. HitsWhatWasShown'
  BY DEF HitsWhatWasShown
<1>7. QED
  BY <1>3, <1>4, <1>5, <1>6 DEF IInv, Inv

\* What stays when it is not touched.
LEMMA Untouched ==
  ASSUME IInv
  PROVE  /\ TypeOK /\ Inv
         /\ UNCHANGED now => now' \in Times /\ now <= now'
         /\ UNCHANGED table => /\ table' = [p \in Pids |-> table'[p]]
                               /\ \A p \in Pids : table'[p] \in {table[p], None}
         /\ UNCHANGED <<samples, page>> => PagesOK'
         /\ UNCHANGED up => up' \in BOOLEAN
         /\ UNCHANGED req => RequestsOK' /\ \A r \in Requests : Moves(r)
         /\ UNCHANGED hist => /\ hist' \in History /\ hist'.double = hist.double
                              /\ ~hist'.wrong /\ ~hist'.stray
<1>1. TypeOK /\ Inv
  BY DEF IInv
<1>2. /\ now \in Times /\ table \in [Pids -> Process \cup {None}] /\ PagesOK /\ RequestsOK
      /\ up \in BOOLEAN /\ hist \in History
  BY <1>1, TypeParts DEF TableOK
<1>3. UNCHANGED now => now' \in Times /\ now <= now'
  BY <1>2, BoundsAssumption DEF Times
<1>4. UNCHANGED table => /\ table' = [p \in Pids |-> table'[p]]
                         /\ \A p \in Pids : table'[p] \in {table[p], None}
  BY <1>2
<1>5. UNCHANGED <<samples, page>> => PagesOK'
  BY <1>2 DEF PagesOK
<1>6. UNCHANGED req => RequestsOK' /\ \A r \in Requests : Moves(r)
  BY <1>2 DEF RequestsOK, Moves
<1>7. ~hist.wrong /\ ~hist.stray
  BY <1>1 DEF Inv, HitsWhatWasShown
<1>8. QED
  BY <1>1, <1>2, <1>3, <1>4, <1>5, <1>6, <1>7

\* A process that ends.
LEMMA GoneShrinks ==
  ASSUME TypeOK, NEW p \in Pids, Gone(p)
  PROVE  /\ table' = [q \in Pids |-> table'[q]] /\ table'[p] = None
         /\ \A q \in Pids : table'[q] \in {table[q], None}
  BY DEF TypeOK, Gone

\* Time passes.
LEMMA KeepsTick ==
  ASSUME IInv, Tick
  PROVE  IInv'
<1>1. now' \in Times /\ now <= now'
  BY BoundsAssumption DEF IInv, TypeOK, Times, Tick
<1>2. UNCHANGED <<table, births, samples, page, req, up, hist, bounds>> /\ cache' = NoCache
  BY DEF Tick
<1>3. QED
  BY <1>1, <1>2, Untouched, Counted, StepKeeps

\* A process ends.
LEMMA KeepsExits ==
  ASSUME IInv, NEW p \in Pids, Exits(p)
  PROVE  IInv'
<1>1. UNCHANGED <<now, births, samples, page, cache, req, up, hist>> /\ Gone(p) /\ Outside
  BY DEF Exits, Gone
<1>2. QED
  BY <1>1, Untouched, GoneShrinks, Counted, StepKeeps

\* A process is started.
LEMMA KeepsStarts ==
  ASSUME IInv, NEW p \in Pids, NEW g \in Programs, Starts(p, g)
  PROVE  IInv'
<1>. DEFINE i == Started(g, births', now)
<1>1. /\ table[p] = None /\ births < MaxBirths /\ births' = births + 1
      /\ table' = [table EXCEPT ![p] = i] /\ Outside
      /\ UNCHANGED <<now, samples, page, cache, req, up, hist>>
      /\ g.box # None => \A q \in Live : table[q].box # g.box
  BY DEF Starts
<1>2. births' \in Births /\ now \in Times
  BY <1>1, BoundsAssumption DEF IInv, TypeOK, Births
<1>3. /\ i \in Process /\ i.id = births' /\ i.line = births' /\ i.born = now /\ i.box = g.box
      /\ g.box \in (Boxes \ {Own}) \cup {None}
  BY <1>2, ProgramsAssumption DEF Process, Started, Names, Users, Commands
<1>. HIDE DEF i
<1>4. TableOK' /\ births' \in 0..MaxBirths
  BY <1>1, <1>3, TableGrows DEF IInv
<1>5. TypeOK'
  BY <1>1, <1>4, Untouched, Counted
     DEF IInv, TypeOK, TableOK, PagesOK, RequestsOK, BoundsOK, Holding
<1>6. Inv'
  BY <1>1, <1>3, ProcessIsBorn DEF IInv
<1>7. QED
  BY <1>5, <1>6 DEF IInv

\* The processes are sampled.
LEMMA KeepsSample ==
  ASSUME IInv, Sample
  PROVE  IInv'
<1>1. UNCHANGED <<now, table, births, page, cache, req, up, hist, bounds>> /\ samples' = Sampled
  BY DEF Sample
<1>2. now \in Times /\ now # None /\ page \subseteq Row
  BY NoneAssumption DEF IInv, TypeOK
<1>3. \A p \in Live : RowOf(p, now) \in Row /\ RowOf(p, now).at = now
  BY <1>2, RowType DEF IInv
<1>4. PagesOK'
  BY <1>1, <1>2, <1>3 DEF PagesOK, Sampled
<1>5. QED
  BY <1>1, <1>4, Untouched, Counted, StepKeeps

\* The pages are loaded.
LEMMA KeepsLoadPages ==
  ASSUME IInv, LoadPages
  PROVE  IInv'
<1>1. /\ UNCHANGED <<now, table, births, samples, req, up, hist, bounds>> /\ cache' = Map
      /\ page' = Told(LiveRows \cup HistoricalRows)
  BY DEF LoadPages
<1>2. samples \subseteq Row /\ (\A x \in samples : x.at # None) /\ TypeOK
  BY DEF IInv, TypeOK
<1>3. \A x \in LiveRows \cup HistoricalRows : x \in Row /\ x.pid \in Live
  <2>1. \A x \in LiveRows : x \in Row /\ x.pid \in Live
    BY <1>2, RowType DEF LiveRows
  <2>2. \A x \in HistoricalRows : x \in Row /\ x.pid \in Live
    BY <1>2 DEF HistoricalRows, Row, Live
  <2>3. QED
    BY <2>1, <2>2
<1>4. \A x \in LiveRows \cup HistoricalRows :
        [x EXCEPT !.box = Container(x.pid, table[x.pid], TRUE)] \in Row
  <2>1. ASSUME NEW x \in Row, x.pid \in Live
        PROVE  [x EXCEPT !.box = Container(x.pid, table[x.pid], TRUE)] \in Row
    <3>1. Container(x.pid, table[x.pid], TRUE) \in Boxes \cup {None}
      BY <1>2, <2>1, LiveProcess, ContainerType
    <3>2. QED
      BY <3>1 DEF Row
  <2>2. QED
    BY <1>3, <2>1
<1>5. PagesOK'
  BY <1>1, <1>2, <1>4 DEF PagesOK, Told
<1>6. QED
  BY <1>1, <1>5, Untouched, Counted, StepKeeps

\* A request is posted.
LEMMA KeepsPost ==
  ASSUME IInv, NEW r \in Requests, Post(r)
  PROVE  IInv'
<1>1. /\ UNCHANGED <<now, table, births, cache, up, hist>>
      /\ acts < MaxActs /\ acts' = acts + 1 /\ UNCHANGED <<outside, faults>>
      /\ page' = {} /\ samples' \in {{}, samples}
  BY DEF Post
<1>2. PICK row \in page, action \in Actions :
        req' = [req EXCEPT ![r] = [NoRequest EXCEPT !.pc = "read", !.row = row, !.action = action]]
  BY DEF Post
<1>3. RequestsOK /\ PagesOK
  BY DEF IInv, TypeOK, RequestsOK, PagesOK, Holding
<1>4. row \in Row /\ row # None /\ action # None
  BY <1>2, <1>3, NoneAssumption DEF PagesOK
<1>. DEFINE q == [NoRequest EXCEPT !.pc = "read", !.row = row, !.action = action]
<1>5. /\ q \in Request /\ q.pc = "read" /\ q.first = None /\ q.row # None /\ q.action # None
  BY <1>2, <1>4 DEF NoRequest, Request
<1>6. req' = [req EXCEPT ![r] = q]
  BY <1>2
<1>. HIDE DEF q
<1>7. RequestsOK'
  BY <1>3, <1>5, <1>6 DEF RequestsOK, Holding
<1>8. \A x \in Requests : Moves(x)
  BY <1>3, <1>5, <1>6 DEF RequestsOK, Moves
<1>9. PagesOK'
  BY <1>1, <1>3 DEF PagesOK
<1>10. QED
  BY <1>1, <1>7, <1>8, <1>9, Untouched, Counted, StepKeeps

\* A process is read, ...
LEMMA KeepsReads ==
  ASSUME IInv, NEW r \in Requests, NEW known \in BOOLEAN, Reads(r, known), BoundsOK',
         UNCHANGED <<now, table, births, samples, page, up>>
  PROVE  IInv'
<1>1. /\ Inv' /\ cache' \in Cache /\ hist' \in History /\ req' \in [Requests -> Request]
      /\ \A x \in Requests : (req'[x].pc \in Holding) <=> (req'[x].first # None)
  BY ProcessIsRead DEF IInv
<1>2. TypeOK'
  BY <1>1 DEF IInv, TypeOK, BoundsOK, Holding, Live
<1>3. QED
  BY <1>1, <1>2 DEF IInv

LEMMA KeepsRead ==
  ASSUME IInv, NEW r \in Requests, Read(r) \/ ReadBlind(r)
  PROVE  IInv'
<1>1. CASE Read(r)
  BY <1>1, Counted, KeepsReads DEF Read, IInv
<1>2. CASE ReadBlind(r)
  BY <1>2, Counted, KeepsReads DEF ReadBlind, IInv
<1>3. QED
  BY <1>1, <1>2

\* ... and its name and user.
LEMMA KeepsReadNames ==
  ASSUME IInv, NEW r \in Requests, ReadNames(r)
  PROVE  IInv'
<1>1. /\ UNCHANGED <<now, table, births, samples, page, cache, up, hist, bounds>>
      /\ req[r].pc = "names"
  BY DEF ReadNames
<1>2. RequestsOK' /\ \A x \in Requests : Moves(x)
  <2>1. CASE At(r) # None /\ Valid(req[r].row, req[r].first, At(r))
    <3>1. req' = [req EXCEPT ![r].pc = "act"]
      BY <2>1 DEF ReadNames
    <3>2. ASSUME Kept(r)
          PROVE  Looks(req[r].row, req[r].first)
      <4>1. /\ At(r) = req[r].first
            /\ req[r].row \in Row /\ req[r].first \in Process
        BY <1>1, <3>2, KeptIsFirst, PostedRequest DEF IInv, Inv, Holding
      <4>2. /\ req[r].row.at # None => req[r].row.at \in Nat
            /\ req[r].first.born \in Nat /\ Tolerance \in Nat
        BY <4>1, BoundsAssumption DEF Row, Process, Times
      <4>3. QED
        BY <2>1, <4>1, <4>2 DEF Valid, Recent, SameCommand, Looks
    <3>3. QED
      BY <1>1, <3>1, <3>2, GoesOn DEF IInv, Holding
  <2>2. CASE ~(At(r) # None /\ Valid(req[r].row, req[r].first, At(r)))
    BY <2>2, RequestAnswered DEF ReadNames, IInv
  <2>3. QED
    BY <2>1, <2>2
<1>3. QED
  BY <1>1, <1>2, Untouched, Counted, StepKeeps

\* A container is stopped, killed or restarted.
LEMMA KeepsDocker ==
  ASSUME IInv, NEW r \in Requests, Docker(r)
  PROVE  IInv'
<1>1. /\ UNCHANGED <<now, births, samples, page, bounds>>
      /\ req[r].pc = "act" /\ req[r].box # None
      /\ table' = [p \in Pids |-> IF table[p] # None /\ table[p].box = req[r].box
                                  THEN None ELSE table[p]]
      /\ hist' = [Hits(hist, r) EXCEPT
                    !.stray = @ \/ (Kept(r) /\ At(r).box # req[r].box /\ ~req[r].late)]
  BY DEF Docker
<1>2. TypeOK /\ Inv /\ RequestsOK
  BY DEF IInv, TypeOK, RequestsOK, Holding
<1>3. hist' \in History /\ hist'.double = hist.double /\ ~hist'.wrong /\ ~hist'.stray
  <2>1. /\ Hits(hist, r) \in History /\ Hits(hist, r).double = hist.double
        /\ ~Hits(hist, r).wrong /\ ~Hits(hist, r).stray
    BY <1>1, <1>2, HitsRight
  <2>2. ~(Kept(r) /\ At(r).box # req[r].box /\ ~req[r].late)
    BY <1>1, <1>2, NothingStrays
  <2>3. PICK b \in BOOLEAN :
          b = (Hits(hist, r).stray \/ (Kept(r) /\ At(r).box # req[r].box /\ ~req[r].late))
    BY Zenon
  <2>4. ~b
    BY <2>1, <2>2, <2>3
  <2>5. hist' = [Hits(hist, r) EXCEPT !.stray = b]
    BY <1>1, <2>3, Zenon
  <2>6. QED
    BY <2>1, <2>4, <2>5 DEF History
<1>4. /\ table' = [p \in Pids |-> table'[p]]
      /\ \A p \in Pids : table'[p] \in {table[p], None}
  BY <1>1
<1>5. /\ RequestsOK' /\ (\A x \in Requests : Moves(x))
      /\ cache' \in {cache, NoCache, Map} /\ up' \in BOOLEAN
  <2>1. CASE req[r].box = Own
    <3>1. /\ req' = [x \in Requests |-> NoRequest]
          /\ cache' = NoCache /\ up' \in BOOLEAN
      BY <2>1 DEF Docker
    <3>2. RequestsOK' /\ \A x \in Requests : Moves(x)
      BY <3>1, NoRequestType DEF RequestsOK, Moves, Holding
    <3>3. QED
      BY <3>1, <3>2
  <2>2. CASE req[r].box # Own
    BY <1>2, <2>2, RequestAnswered, Untouched DEF Docker
  <2>3. QED
    BY <2>1, <2>2
<1>6. QED
  BY <1>1, <1>2, <1>3, <1>4, <1>5, Untouched, Counted, StepKeeps

\* A process is sent a signal.
LEMMA KeepsSignal ==
  ASSUME IInv, NEW r \in Requests, Signal(r)
  PROVE  IInv'
<1>1. /\ UNCHANGED <<now, births, samples, page, cache, up, bounds>>
      /\ req[r].pc = "act"
  BY DEF Signal
<1>2. TypeOK /\ Inv /\ req[r].row.pid \in Pids
  BY <1>1, PostedRequest DEF IInv, Inv
<1>3. CASE At(r) = None \/ (req[r].action = "restart" /\ req[r].first.cmd = None)
  <2>1. Answers(r) /\ UNCHANGED <<table, hist>>
    BY <1>3 DEF Signal
  <2>2. QED
    BY <1>1, <1>2, <2>1, RequestAnswered, Untouched, Counted, StepKeeps
<1>4. CASE ~(At(r) = None \/ (req[r].action = "restart" /\ req[r].first.cmd = None))
  <2>1. /\ Gone(req[r].row.pid) \/ UNCHANGED table
        /\ hist' = Hits(hist, r)
        /\ IF req[r].action = "restart" THEN req' = [req EXCEPT ![r].pc = "wait"] ELSE Answers(r)
    BY <1>4 DEF Signal
  <2>2. /\ table' = [p \in Pids |-> table'[p]]
        /\ \A p \in Pids : table'[p] \in {table[p], None}
    BY <1>2, <2>1, GoneShrinks, Untouched
  <2>3. RequestsOK' /\ \A x \in Requests : Moves(x)
    <3>1. CASE req[r].action = "restart"
      <4>1. Kept(r) => Looks(req[r].row, req[r].first)
        BY <1>1, <1>2 DEF Inv, Checked
      <4>2. QED
        BY <1>1, <1>2, <2>1, <3>1, <4>1, GoesOn DEF Holding
    <3>2. CASE req[r].action # "restart"
      BY <1>2, <2>1, <3>2, RequestAnswered
    <3>3. QED
      BY <3>1, <3>2
  <2>4. hist' \in History /\ hist'.double = hist.double /\ ~hist'.wrong /\ ~hist'.stray
    BY <1>1, <1>2, <2>1, HitsRight
  <2>5. QED
    BY <1>1, <1>2, <2>2, <2>3, <2>4, Untouched, Counted, StepKeeps
<1>5. QED
  BY <1>3, <1>4

\* A restart waits until the pid is free, or kills who has it.
LEMMA KeepsWait ==
  ASSUME IInv, NEW r \in Requests, Wait(r)
  PROVE  IInv'
<1>1. /\ UNCHANGED <<now, births, samples, page, cache, up, bounds>>
      /\ req[r].pc = "wait" /\ req' = [req EXCEPT ![r].pc = "spawn"]
      /\ IF Survives(r) THEN Gone(req[r].row.pid) /\ hist' = Hits(hist, r)
                        ELSE UNCHANGED <<table, hist>>
  BY DEF Wait
<1>2. TypeOK /\ Inv /\ req[r].row.pid \in Pids /\ req[r].action = "restart"
  BY <1>1, PostedRequest DEF IInv, Inv, Held
<1>3. /\ table' = [p \in Pids |-> table'[p]]
      /\ \A p \in Pids : table'[p] \in {table[p], None}
      /\ table'[req[r].row.pid] = None
  BY <1>1, <1>2, GoneShrinks, Untouched DEF Survives, At
<1>4. hist' \in History /\ hist'.double = hist.double /\ ~hist'.wrong /\ ~hist'.stray
  BY <1>1, <1>2, HitsRight, Untouched
<1>5. RequestsOK' /\ \A x \in Requests : Moves(x)
  BY <1>1, <1>2, <1>3, GoesOn DEF Holding
<1>6. QED
  BY <1>1, <1>2, <1>3, <1>4, <1>5, Untouched, Counted, StepKeeps

\* A restart launches the command.
LEMMA KeepsSpawn ==
  ASSUME IInv, NEW r \in Requests, Spawn(r)
  PROVE  IInv'
<1>. DEFINE i == Spawned(r)
<1>1. /\ UNCHANGED <<now, samples, page, cache, up, hist, bounds>>
      /\ req[r].pc = "spawn" /\ births < MaxBirths /\ births' = births + 1 /\ Answers(r)
  BY DEF Spawn
<1>2. PICK p \in Pids \ Live : table' = [table EXCEPT ![p] = i]
  BY DEF Spawn
<1>3. table[p] = None
  BY <1>2 DEF Live
<1>4. TypeOK /\ Inv /\ req[r].first \in Process
  BY <1>1, PostedRequest DEF IInv, Inv, Holding
<1>5. births + 1 \in Births /\ now \in Times
  BY <1>1, <1>4, BoundsAssumption DEF TypeOK, Births
<1>6. /\ i \in Process /\ i.id = births' /\ i.born = now /\ i.box = Own
      /\ i.line = req[r].first.line
  BY <1>1, <1>4, <1>5, ProgramsAssumption DEF Spawned, Process, Users
<1>. HIDE DEF i
<1>7. TableOK' /\ births' \in 0..MaxBirths
  BY <1>1, <1>2, <1>3, <1>4, <1>6, TableGrows
<1>8. /\ RequestsOK' /\ req'[r].pc = "none"
      /\ \A x \in Requests : req'[x] = req[x] \/ (req'[x].pc = "none" /\ req'[x].first = None)
  BY <1>1, <1>4, RequestAnswered, NoRequestType
<1>9. TypeOK'
  BY <1>1, <1>7, <1>8, Untouched, Counted
     DEF IInv, TypeOK, TableOK, PagesOK, RequestsOK, BoundsOK, Holding
<1>10. Launches(r, i)
  BY <1>1, <1>6, <1>8 DEF Launches
<1>11. Inv'
  BY <1>1, <1>2, <1>3, <1>4, <1>6, <1>8, <1>10, ProcessIsBorn
<1>12. QED
  BY <1>9, <1>11 DEF IInv

\* The command cannot be launched, or docker refuses.
LEMMA KeepsCommandFails ==
  ASSUME IInv, NEW r \in Requests, CommandFails(r)
  PROVE  IInv'
<1>1. UNCHANGED <<now, table, births, samples, page, cache, up, hist>> /\ Fault /\ Answers(r)
  BY DEF CommandFails
<1>2. QED
  BY <1>1, RequestAnswered, Untouched, Counted, StepKeeps

-----------------------------------------------------------------------------
(* Process control: theorems *)

\* In the beginning a process has the number of those at smaller pids and itself.
Before(p) == {q \in Pids : q <= p /\ Running[q] # None}

LEMMA FirstNumbers ==
  LET first == {p \in Pids : Running[p] # None} IN
  /\ Cardinality(first) \in 0..MaxBirths
  /\ \A p \in first : Cardinality(Before(p)) \in 1..Cardinality(first)
  /\ \A p, q \in first : p # q => Cardinality(Before(p)) # Cardinality(Before(q))
<1>. DEFINE first == {p \in Pids : Running[p] # None}
<1>1. IsFiniteSet(first) /\ \A p \in Pids : p \in Nat
  <2>1. \A p \in Pids : p \in Nat
    BY ProgramsAssumption
  <2>2. first \in SUBSET Pids /\ IsFiniteSet(Pids)
    BY ProgramsAssumption
  <2>3. QED
    BY <2>1, <2>2, FS_Subset
<1>2. Cardinality(first) \in 0..MaxBirths
  BY <1>1, FS_CardinalityType, BoundsAssumption
<1>3. \A p \in first : Before(p) \subseteq first /\ p \in Before(p)
  BY <1>1 DEF Before
<1>4. \A p \in first : IsFiniteSet(Before(p)) /\ Cardinality(Before(p)) \in 1..Cardinality(first)
  <2>1. SUFFICES ASSUME NEW p \in first
        PROVE  IsFiniteSet(Before(p)) /\ Cardinality(Before(p)) \in 1..Cardinality(first)
    OBVIOUS
  <2>2. IsFiniteSet(Before(p)) /\ Cardinality(Before(p)) <= Cardinality(first)
    BY <1>1, <1>3, FS_Subset
  <2>3. Cardinality(Before(p)) \in Nat /\ Cardinality(Before(p)) # 0
    BY <1>3, <2>2, FS_CardinalityType, FS_EmptySet
  <2>4. QED
    BY <1>2, <2>2, <2>3
<1>5. \A p, q \in first : p < q => Cardinality(Before(p)) # Cardinality(Before(q))
  <2>1. SUFFICES ASSUME NEW p \in first, NEW q \in first, p < q
        PROVE  Cardinality(Before(p)) # Cardinality(Before(q))
    OBVIOUS
  <2>2. p \in Nat /\ q \in Nat
    BY <1>1
  <2>3. Before(p) \subseteq Before(q)
    <3>1. ASSUME NEW x \in Pids, x <= p
          PROVE  x <= q
      <4>1. x \in Nat
        BY <1>1
      <4>2. QED
        BY <2>1, <2>2, <3>1, <4>1
    <3>2. QED
      BY <3>1 DEF Before
  <2>4. q \in Before(q) /\ q \notin Before(p)
    BY <2>1, <2>2 DEF Before
  <2>5. QED
    BY <1>4, <2>3, <2>4, FS_Subset
<1>6. \A p, q \in first : p # q => p < q \/ q < p
  <2>1. \A p \in first : p \in Nat
    BY <1>1
  <2>2. QED
    BY <2>1
<1>7. QED
  BY <1>2, <1>4, <1>5, <1>6

LEMMA InvInit ==
  ASSUME Init
  PROVE  IInv
<1>. DEFINE first == {p \in Pids : Running[p] # None}
<1>1. /\ now = 0 /\ births = Cardinality(first) /\ samples = {} /\ page = {} /\ cache = NoCache
      /\ req = [r \in Requests |-> NoRequest] /\ up = TRUE
      /\ hist = [wrong |-> FALSE, stray |-> FALSE, unasked |-> FALSE, double |-> {}]
      /\ acts = 0 /\ outside = 0 /\ faults = 0
      /\ table = [p \in Pids |-> IF Running[p] = None THEN None
                                 ELSE Started(Running[p], Cardinality(Before(p)), 0)]
  BY DEF Init, Before
<1>2. /\ Cardinality(first) \in 0..MaxBirths
      /\ \A p \in first : Cardinality(Before(p)) \in 1..Cardinality(first)
      /\ \A p, q \in first : p # q => Cardinality(Before(p)) # Cardinality(Before(q))
  BY FirstNumbers
<1>3. MaxBirths \in Nat /\ 0 \in Times
  BY BoundsAssumption DEF Times
<1>4. \A p \in first :
        /\ Running[p] \in Programs
        /\ Started(Running[p], Cardinality(Before(p)), 0) \in Process
        /\ Started(Running[p], Cardinality(Before(p)), 0) # None
  <2>1. SUFFICES ASSUME NEW p \in first
        PROVE  /\ Running[p] \in Programs
               /\ Started(Running[p], Cardinality(Before(p)), 0) \in Process
    BY NoneAssumption
  <2>2. Running[p] \in Programs
    BY ProgramsAssumption
  <2>3. Cardinality(Before(p)) \in Births
    BY <1>2, <1>3 DEF Births
  <2>4. Running[p].box \in Boxes \cup {None}
    BY <2>2, ProgramsAssumption
  <2>5. QED
    BY <1>3, <2>2, <2>3, <2>4 DEF Started, Process, Names, Users, Commands
<1>5. /\ Live = first
      /\ \A p \in Live : /\ p \in Pids /\ table[p] \in Process
                         /\ table[p].id = Cardinality(Before(p))
                         /\ table[p].line = Cardinality(Before(p))
                         /\ table[p].born = 0 /\ table[p].box = Running[p].box
  <2>1. \A p \in Pids : table[p] = IF Running[p] = None THEN None
                                   ELSE Started(Running[p], Cardinality(Before(p)), 0)
    BY <1>1
  <2>2. Live = first
    BY <1>4, <2>1 DEF Live
  <2>3. \A p \in first : p \in Pids /\ Running[p] # None
    OBVIOUS
  <2>4. \A p \in first : table[p] = Started(Running[p], Cardinality(Before(p)), 0)
    BY <2>1, <2>3
  <2>5. \A g, n : /\ Started(g, n, 0).id = n /\ Started(g, n, 0).line = n
                  /\ Started(g, n, 0).born = 0 /\ Started(g, n, 0).box = g.box
    BY DEF Started
  <2>6. QED
    BY <1>4, <2>2, <2>3, <2>4, <2>5
<1>6. \A p \in first : Cardinality(Before(p)) \in Nat /\ Cardinality(Before(p)) <= births
  BY <1>1, <1>2
<1>. HIDE DEF first
<1>7. TableOK
  <2>1. table \in [Pids -> Process \cup {None}]
    <3>1. \A p \in Pids : table[p] \in Process \cup {None}
      BY <1>5 DEF Live
    <3>2. QED
      BY <1>1, <3>1
  <2>2. \A p, q \in Live : table[p].box \in Boxes \ {Own} /\ table[p].box = table[q].box => p = q
    <3>1. \A p \in first : p \in Pids /\ Running[p] # None
      BY DEF first
    <3>2. None \notin Boxes
      BY NoneAssumption
    <3>3. ASSUME NEW p \in first, NEW q \in first, Running[p].box \in Boxes,
                 Running[p].box = Running[q].box
          PROVE  p = q
      BY <3>1, <3>2, <3>3, ProgramsAssumption
    <3>4. SUFFICES ASSUME NEW p \in Live, NEW q \in Live,
                          table[p].box \in Boxes \ {Own}, table[p].box = table[q].box
                   PROVE  p = q
      OBVIOUS
    <3>5. /\ p \in first /\ q \in first
          /\ table[p].box = Running[p].box /\ table[q].box = Running[q].box
      BY ONLY <1>5, <3>4
    <3>6. QED
      BY <3>3, <3>4, <3>5
  <2>3. QED
    BY <1>1, <1>2, <1>5, <1>6, <2>1, <2>2 DEF TableOK
<1>8. RequestsOK
  BY <1>1, NoRequestType DEF RequestsOK, Holding
<1>9. PagesOK /\ BoundsOK /\ hist \in History /\ cache \in Cache
  <2>1. TableOK
    BY <1>7
  <2>2. NoCache \in Cache
    BY BoundsAssumption DEF NoCache, Cache
  <2>3. QED
    BY <1>1, <2>2, BoundsAssumption DEF PagesOK, BoundsOK, History
<1>10. TypeOK
  BY <1>1, <1>2, <1>3, <1>7, <1>8, <1>9 DEF TypeOK, TableOK, RequestsOK, PagesOK, BoundsOK, Holding
<1>11. \A r \in Requests : req[r].pc = "none" /\ req[r].first = None
  BY <1>1, NoRequestType
<1>12. Held /\ Checked /\ Located /\ RestartedAlone
  BY <1>11 DEF Held, Checked, Located, RestartedAlone, Holding
<1>13. ReadOnce
  BY <1>5, <1>6, <1>11 DEF ReadOnce
<1>14. MapIsTrue
  BY <1>1, <1>2 DEF MapIsTrue, NoCache
<1>15. HitsWhatWasShown /\ RunsOnce
  BY <1>1, <1>2, <1>5 DEF HitsWhatWasShown, RunsOnce, first
<1>16. QED
  BY <1>10, <1>12, <1>13, <1>14, <1>15 DEF IInv, Inv

\* Every step keeps the invariant.
LEMMA InvStep ==
  ASSUME IInv, [Next]_vars
  PROVE  IInv'
<1>1. CASE Tick
  BY <1>1, KeepsTick
<1>2. ASSUME NEW p \in Pids, Exits(p) \/ \E g \in Programs : Starts(p, g)
      PROVE  IInv'
  BY <1>2, KeepsExits, KeepsStarts
<1>3. CASE Sample \/ LoadPages
  BY <1>3, KeepsSample, KeepsLoadPages
<1>4. ASSUME NEW r \in Requests, Handle(r)
      PROVE  IInv'
  BY <1>4, KeepsPost, KeepsRead, KeepsReadNames, KeepsDocker, KeepsSignal, KeepsWait,
     KeepsSpawn, KeepsCommandFails DEF Handle
<1>5. CASE UNCHANGED vars
  <2>1. TypeOK'
    BY <1>5 DEF vars, bounds, IInv, TypeOK, Live
  <2>2. Held' /\ ReadOnce' /\ Checked' /\ MapIsTrue' /\ Located'
    BY <1>5 DEF vars, bounds, IInv, Live, Inv, Held, ReadOnce, Checked, MapIsTrue, Located, Kept, At
  <2>3. RestartedAlone' /\ HitsWhatWasShown' /\ RunsOnce'
    BY <1>5 DEF vars, bounds, IInv, Live, Inv, RestartedAlone, HitsWhatWasShown, RunsOnce,
                Restarts, Holding
  <2>4. QED
    BY <2>1, <2>2, <2>3 DEF IInv, Inv
<1>6. QED
  BY <1>1, <1>2, <1>3, <1>4, <1>5 DEF Next, Host

\* The inductive invariant holds in every state.
THEOREM Invariance == Spec => []IInv
  BY InvInit, InvStep, PTL DEF Spec

\* The process table has no process twice and no container two first processes; pages,
\* map and requests keep their types.
THEOREM TypeCorrect == Spec => []TypeOK
<1>1. IInv => TypeOK
  BY DEF IInv
<1>2. QED
  BY <1>1, Invariance, PTL

\* However many requests are under way and whatever exits and starts between their
\* steps: what a request hits is what its page showed, unless the pid was given away
\* during the request or the map was older than the process.
THEOREM HitsShown == Spec => []HitsWhatWasShown
<1>1. IInv => HitsWhatWasShown
  BY DEF IInv, Inv
<1>2. QED
  BY <1>1, Invariance, PTL

\* A process comes to run twice only by restarts of it that overlap.
THEOREM RestartedOnce == Spec => []RunsOnce
<1>1. IInv => RunsOnce
  BY DEF IInv, Inv
<1>2. QED
  BY <1>1, Invariance, PTL
=============================================================================
