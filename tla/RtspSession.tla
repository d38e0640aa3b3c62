----------------------------- MODULE RtspSession -----------------------------
(***************************************************************************)
(* veda::rtsp::Session (src/rtsp/session.cpp) for every connected client,  *)
(* driven by the single epoll thread of veda::rtsp::Server: bytes arrive   *)
(* in chunks, feed() cuts them into requests and answers one after the     *)
(* other, and the handlers call the media hub.                             *)
(*                                                                         *)
(* `pc' is where the epoll thread is: "wait" in epoll_wait, "feed" in the  *)
(* loop of Session::feed for client `active', or inside the hub call of a  *)
(* handler ("describe", "play", "pause", "teardown", "drop").  The hub is  *)
(* any hub that returns: subscribe may succeed or fail (MediaHub models    *)
(* what happens inside).                                                   *)
(*                                                                         *)
(* Requests are messages as RtspParser reads them: parse_request returns a *)
(* request, nothing ("MALFORMED"), or throws ("BADNUMBER"), which nothing  *)
(* up to main() catches.  The unfinished tail of rx_buffer_ is kept as a   *)
(* number of fragments, the complete messages of the chunk being fed as    *)
(* `queue'.                                                                *)
(***************************************************************************)
EXTENDS RtspParser

CONSTANTS
  Clients,      \* client connections
  Requests,     \* the messages clients may send
  SessionIds,   \* values generate_session_id may return
  MaxRx,        \* kMaxRxBuffer, in requests and fragments
  MaxChunk,     \* most requests, and most fragments, one read may deliver
  HasHub,       \* FALSE: the session was built with hub = nullptr
  None          \* no client, id, port, streamer or request

States == {"INIT", "READY", "PLAYING", "CLOSED"}

\* The largest uint16_t.
MaxPort == 65535

\* A Transport header as far as parse_transport tells them apart: no
\* client_port, a value that is no number, one port, "rtp-rtcp", "rtp-junk".
\* A value in front of the first '-' has no sign, one behind it may have.
Transports ==
  [kind : {"absent", "noport", "nan"}]
    \union [kind : {"single", "half"}, rtp : Nat]
    \union [kind : {"pair"}, rtp : Nat, rtcp : Int]

\* A header line: the value has the form its name promises.
IsHeaderLine(l) ==
  \/ l = <<"no colon">>
  \/ /\ iequals(l[1], <<"CSeq">>) => l[2] = <<>> \/ l[2][1] \in Int
     /\ iequals(l[1], <<"Transport">>) => l[2] \in Transports

ASSUME SessionAssumption ==
  /\ \A m \in Requests :
       /\ m.line \in RequestLines
       /\ m.headers \in Seq(Range(m.headers))
       /\ \A l \in Range(m.headers) : IsHeaderLine(l)
  /\ None \notin SessionIds \union Clients \union Requests \union Nat
  /\ MaxRx \in Nat \ {0} /\ MaxChunk \in Nat \ {0}
  /\ HasHub \in BOOLEAN

VARIABLES
  conn,         \* conn[c]: c is in the server's client table
  sess,         \* sess[c]: the members of c's Session
  pc,           \* where the epoll thread is
  active,       \* the client whose event it is handling
  queue,        \* complete messages left in rx_buffer_ of the active client
  cur,          \* the message taken last from the queue
  sent,         \* the answers sent to cur, in order: [cseq, code]
  negotiated    \* negotiated[c]: client port echoed by c's latest SETUP 200

table == <<conn, sess, negotiated>>
exchange == <<queue, cur, sent>>
vars == <<table, pc, active, exchange>>

\* A Session as its constructor leaves it.
NewSession ==
  [state_ |-> "INIT", session_id_ |-> None, client_rtp_port_ |-> 0,
   client_rtcp_port_ |-> 0, streamer_ |-> None, rx_buffer_ |-> 0]

NoSession == [NewSession EXCEPT !.state_ = "CLOSED"]

Init ==
  /\ conn = [c \in Clients |-> FALSE]
  /\ sess = [c \in Clients |-> NoSession]
  /\ pc = "wait"
  /\ active = None
  /\ queue = <<>>
  /\ cur = None
  /\ sent = <<>>
  /\ negotiated = [c \in Clients |-> None]

------------------------------------------------------------------------------
(* Helpers                                                                 *)

\* parse_transport writes the session's port members as it goes: they keep
\* what was parsed even when the result is false.
parse_transport(t, rtp, rtcp) ==
  CASE t.kind = "single" ->
         [ok |-> t.rtp \in 1..MaxPort, rtp |-> t.rtp, rtcp |-> t.rtp + 1]
    [] t.kind = "pair" ->
         [ok |-> t.rtp \in 1..MaxPort, rtp |-> t.rtp, rtcp |-> t.rtcp]
    [] t.kind = "half" -> [ok |-> FALSE, rtp |-> t.rtp, rtcp |-> rtcp]
    [] OTHER -> [ok |-> FALSE, rtp |-> rtp, rtcp |-> rtcp]

\* Mutant: the port is not narrowed.
Uint16Wide(n) == n

\* static_cast<uint16_t>
Uint16(n) == n % (MaxPort + 1)

\* Mutant: SETUP renegotiates while PLAYING.
method_allowed_anytime_setup(state, m) ==
  \/ m \in {"OPTIONS", "GET_PARAMETER", "DESCRIBE", "SETUP"}
  \/ m = "PLAY" /\ state = "READY"
  \/ m = "PAUSE" /\ state = "PLAYING"
  \/ m = "TEARDOWN" /\ state \in {"READY", "PLAYING"}

method_allowed(state, m) ==
  \/ m \in {"OPTIONS", "GET_PARAMETER", "DESCRIBE"}
  \/ m = "SETUP" /\ state \in {"INIT", "READY"}
  \/ m = "PLAY" /\ state = "READY"
  \/ m = "PAUSE" /\ state = "PLAYING"
  \/ m = "TEARDOWN" /\ state \in {"READY", "PLAYING"}

\* A Session header is an id, or an id with a parameter (";timeout=60").
session_header_matches(r, s) == r.session # <<>> /\ r.session[1] = s.session_id_

\* The request at the head of the buffer, the one that is being handled, and
\* the session they are for.
Parsed == [m \in Requests |-> parse_request(m)]
Req == Parsed[Head(queue)]
Cur == Parsed[cur]
S == sess[active]

Feeding == pc = "feed" /\ queue # <<>>

\* handle() lets method m through.
Handling(m) == Feeding /\ Req.method = m /\ method_allowed(S.state_, m)

Reply(r, code) == [cseq |-> r.cseq, code |-> code]

\* Mutant: a request that cannot be parsed stays in the buffer.
RestOfMalformed == IF Req.method = "MALFORMED" THEN queue ELSE Tail(queue)
Rest == Tail(queue)

\* Take the request off the buffer, leaving the answers `replies' behind.
Take(replies) == queue' = Rest /\ cur' = Head(queue) /\ sent' = replies

\* Take the request, answer it, and go round the loop of feed().
Answer(code) ==
  Take(<<Reply(Req, code)>>) /\ UNCHANGED <<table, pc, active>>

\* Take the request and call the hub; the answer comes afterwards unless it
\* is among the replies.
Enter(where, replies) == Take(replies) /\ pc' = where /\ UNCHANGED <<table, active>>

\* The hub has returned, and the answers to the request are `replies'.
Leave(where, replies) ==
  pc' = where /\ sent' = replies /\ UNCHANGED <<conn, active, queue, cur, negotiated>>

------------------------------------------------------------------------------
(* Server events                                                           *)

Accept(c) ==
  /\ pc = "wait"
  /\ ~conn[c]
  /\ conn' = [conn EXCEPT ![c] = TRUE]
  /\ sess' = [sess EXCEPT ![c] = NewSession]
  /\ UNCHANGED <<negotiated, pc, active, exchange>>

\* A read delivers complete requests, then fragments of an unfinished one.
\* feed() refuses a buffer that has become too long before it looks inside.
Readable(c, reqs, frags) ==
  LET size == sess[c].rx_buffer_ + Len(reqs) + frags
      tail == IF reqs = <<>> THEN size ELSE frags
  IN /\ pc = "wait"
     /\ conn[c]
     /\ Len(reqs) + frags > 0
     /\ active' = c
     /\ IF size > MaxRx
          THEN /\ pc' = "drop"
               /\ UNCHANGED <<queue, sess>>
          ELSE /\ pc' = "feed"
               /\ queue' = reqs
               /\ sess' = [sess EXCEPT ![c].rx_buffer_ = tail]
     /\ UNCHANGED <<conn, negotiated, cur, sent>>

\* EPOLLHUP, EPOLLERR or EPOLLRDHUP, or a read that returns no bytes.
HangUp(c) ==
  /\ pc = "wait"
  /\ conn[c]
  /\ active' = c
  /\ pc' = "drop"
  /\ UNCHANGED <<table, exchange>>

\* c's entry of the client table is erased and its Session destroyed.
Erase(c) ==
  /\ conn' = [conn EXCEPT ![c] = FALSE]
  /\ sess' = [sess EXCEPT ![c] = NoSession]
  /\ negotiated' = [negotiated EXCEPT ![c] = None]

\* The thread is done with the event.
Wait ==
  pc' = "wait" /\ active' = None /\ queue' = <<>> /\ cur' = None /\ sent' = <<>>

\* drop_client: on_disconnect, i.e. stop_streaming and CLOSED, then erase.
DropClient == pc = "drop" /\ Erase(active) /\ Wait

\* SIGINT: the loop ends, clients.clear() destroys the sessions one by one.
Shutdown ==
  pc = "wait" /\ pc' = "clear" /\ UNCHANGED <<table, active, exchange>>

ClearClient(c) ==
  pc = "clear" /\ conn[c] /\ Erase(c) /\ UNCHANGED <<pc, active, exchange>>

Stopped ==
  /\ pc = "clear"
  /\ \A c \in Clients : ~conn[c]
  /\ pc' = "exited"
  /\ UNCHANGED <<table, active, exchange>>

------------------------------------------------------------------------------
(* Session::feed and Session::handle                                       *)

FeedReturns ==
  pc = "feed" /\ queue = <<>> /\ Wait /\ UNCHANGED table

FeedMalformed == Feeding /\ Req.method = "MALFORMED" /\ Answer(400)

\* The exception leaves feed(), run() and main(): the process terminates.
FeedThrows == Feeding /\ Req.method = "BADNUMBER" /\ Enter("crashed", <<>>)

HandleUnknown == Feeding /\ Req.method = "UNKNOWN" /\ Answer(501)

HandleNotAllowed ==
  /\ Feeding
  /\ Req.method \in Methods \ {"UNKNOWN"}
  /\ ~method_allowed(S.state_, Req.method)
  /\ Answer(455)

HandleOptions ==
  (Handling("OPTIONS") \/ Handling("GET_PARAMETER")) /\ Answer(200)

HandleDescribe == Handling("DESCRIBE") /\ Enter("describe", <<>>)

DescribeReturns ==
  pc = "describe" /\ Leave("feed", <<Reply(Cur, 200)>>) /\ UNCHANGED sess

------------------------------------------------------------------------------
(* SETUP                                                                   *)

HandleSetupNoTransport ==
  Handling("SETUP") /\ Req.transport.kind = "absent" /\ Answer(400)

\* Mutant: the state is set before the outcome is known.
WithPortsReady(p) ==
  [S EXCEPT !.client_rtp_port_ = p.rtp, !.client_rtcp_port_ = p.rtcp,
            !.state_ = "READY"]

\* The session with the port members parse_transport has assigned.
WithPorts(p) ==
  [S EXCEPT !.client_rtp_port_ = p.rtp, !.client_rtcp_port_ = p.rtcp]

HandleSetup ==
  /\ Handling("SETUP")
  /\ Req.transport.kind # "absent"
  /\ LET p == parse_transport(Req.transport, S.client_rtp_port_, S.client_rtcp_port_)
     IN \/ /\ ~p.ok
           /\ sess' = [sess EXCEPT ![active] = WithPorts(p)]
           /\ UNCHANGED negotiated
           /\ Take(<<Reply(Req, 461)>>)
        \/ /\ p.ok
           /\ \E id \in IF S.session_id_ = None THEN SessionIds ELSE {S.session_id_} :
                sess' = [sess EXCEPT ![active] =
                           [WithPorts(p) EXCEPT !.session_id_ = id, !.state_ = "READY"]]
           /\ negotiated' = [negotiated EXCEPT ![active] = p.rtp]
           /\ Take(<<Reply(Req, 200)>>)
  /\ UNCHANGED <<conn, pc, active>>

------------------------------------------------------------------------------
(* PLAY, PAUSE, TEARDOWN                                                   *)

\* The 454 that PLAY, PAUSE and TEARDOWN share.
HandleWrongSession ==
  /\ \E m \in {"PLAY", "PAUSE", "TEARDOWN"} : Handling(m)
  /\ ~session_header_matches(Req, S)
  /\ Answer(454)

\* Streamer::connect fails: socket() has no descriptor, inet_pton or connect()
\* refuses the address.
HandlePlayNoSocket ==
  Handling("PLAY") /\ session_header_matches(Req, S) /\ Answer(500)

\* The streamer is connected and 200 goes out before the hub is called.
HandlePlay ==
  /\ Handling("PLAY")
  /\ session_header_matches(Req, S)
  /\ Enter("play", <<Reply(Req, 200)>>)

\* Mutant: the answer already sent is also returned to feed().
PlayRepliesTwice == Append(sent, Reply(Cur, 200))
\* handle_play returns an empty text.
PlayReplies == sent

\* subscribe returned true.
PlaySubscribed ==
  /\ pc = "play"
  /\ HasHub
  /\ sess' = [sess EXCEPT ![active].streamer_ = Uint16(S.client_rtp_port_),
                          ![active].state_ = "PLAYING"]
  /\ Leave("feed", PlayReplies)

\* No hub, or subscribe returned false: 200 is out, the session stays READY.
PlayUnavailable == pc = "play" /\ Leave("feed", sent) /\ UNCHANGED sess

\* Mutant: the streamer is kept when the session is torn down.
StreamingStoppedKeeps(state) ==
  [sess EXCEPT ![active].state_ = state,
               ![active].streamer_ = IF state = "CLOSED" THEN S.streamer_ ELSE None]
\* stop_streaming has returned and the streamer is dropped, after PAUSE too
\* (session.hpp's comment has PAUSE keep it).
StreamingStopped(state) ==
  [sess EXCEPT ![active].state_ = state, ![active].streamer_ = None]

HandlePause ==
  Handling("PAUSE") /\ session_header_matches(Req, S) /\ Enter("pause", <<>>)

PauseStopped ==
  /\ pc = "pause"
  /\ sess' = StreamingStopped("READY")
  /\ Leave("feed", <<Reply(Cur, 200)>>)

HandleTeardown ==
  Handling("TEARDOWN") /\ session_header_matches(Req, S) /\ Enter("teardown", <<>>)

\* Mutant: feed() carries on with the requests behind TEARDOWN.
AfterTeardownGoesOn == "feed"
\* feed() returns false: later requests are not looked at.
AfterTeardown == "drop"

TeardownStopped ==
  /\ pc = "teardown"
  /\ sess' = StreamingStopped("CLOSED")
  /\ Leave(AfterTeardown, <<Reply(Cur, 200)>>)

------------------------------------------------------------------------------

\* The process has ended.
Exited == pc \in {"exited", "crashed"} /\ UNCHANGED vars

Chunks == UNION {[1..n -> Requests] : n \in 0..MaxChunk}

Events ==
  \/ \E c \in Clients :
       \/ Accept(c)
       \/ HangUp(c)
       \/ \E reqs \in Chunks, frags \in 0..MaxChunk : Readable(c, reqs, frags)
  \/ Shutdown

EpollStep ==
  \/ FeedReturns \/ FeedMalformed \/ FeedThrows
  \/ HandleUnknown \/ HandleNotAllowed \/ HandleOptions
  \/ HandleDescribe \/ DescribeReturns
  \/ HandleSetupNoTransport \/ HandleSetup
  \/ HandleWrongSession
  \/ HandlePlayNoSocket \/ HandlePlay \/ PlaySubscribed \/ PlayUnavailable
  \/ HandlePause \/ PauseStopped
  \/ HandleTeardown \/ TeardownStopped
  \/ DropClient
  \/ (\E c \in Clients : ClearClient(c))
  \/ Stopped

Next == Events \/ EpollStep \/ Exited

Spec == Init /\ [][Next]_vars

\* The epoll thread keeps running and hub calls return (MediaHub's
\* EveryCallReturns); clients and the operator need not do anything.
FairSpec == Spec /\ WF_vars(EpollStep)

------------------------------------------------------------------------------
(* Properties                                                              *)

\* The members of a Session.
Ids == SessionIds \union {None}
Streamers == 0..MaxPort \union {None}
Buffers == 0..MaxRx
Sessions ==
  [state_ : States, session_id_ : Ids, client_rtp_port_ : Nat,
   client_rtcp_port_ : Int, streamer_ : Streamers, rx_buffer_ : Buffers]

\* The client table.
TableType ==
  /\ conn \in [Clients -> BOOLEAN]
  /\ sess \in [Clients -> Sessions]
  /\ negotiated \in [Clients -> (1..MaxPort) \union {None}]

\* The thread, and what it is working on.
ThreadType ==
  /\ pc \in {"wait", "feed", "describe", "play", "pause", "teardown", "drop",
             "clear", "exited", "crashed"}
  /\ active \in Clients \union {None}
  /\ queue \in Seq(Requests)
  /\ cur \in Requests \union {None}
  /\ sent \in Seq([cseq : Int, code : Nat])

\* Every variable has its type.
TypeOK == TableType /\ ThreadType

\* feed() and the handlers share the sending of answers: handle_play sends its
\* own 200 and returns nothing, everyone else returns the text.  However they
\* split it, a request that has been dealt with got exactly one answer, with
\* its own CSeq (0 if it could not be parsed or has none), in whatever spelling and
\* among whatever other lines the client wrote it, pipelined or not.
OneAnswerPerRequest ==
  (pc \in {"feed", "drop"} /\ cur # None) =>
    /\ Len(sent) = 1
    /\ IF cur.line # "ok" \/ WrittenCSeqs(cur) = {}
         THEN sent[1].cseq = 0 ELSE sent[1].cseq \in WrittenCSeqs(cur)

\* A session that is PLAYING has the streamer the hub sends to, and one that was
\* never set up or is over has none: tearing down leaves nothing subscribed to
\* the hub on behalf of a session that is over.  What a READY session has is
\* left open: session.hpp says that PAUSE keeps the streamer for the next PLAY,
\* handle_pause drops it.
StreamerMatchesState ==
  \A c \in Clients :
    /\ sess[c].state_ = "PLAYING" => sess[c].streamer_ # None
    /\ sess[c].state_ \in {"INIT", "CLOSED"} => sess[c].streamer_ = None

\* A session that streams or may stream was set up: it has an id the client
\* was told, and a SETUP that was answered with 200.  A session that is not in
\* the client table is closed.
SetUpBeforePlay ==
  \A c \in Clients :
    /\ sess[c].state_ \in {"READY", "PLAYING"} =>
         sess[c].session_id_ # None /\ negotiated[c] # None
    /\ ~conn[c] => sess[c].state_ = "CLOSED"

\* What the client was answered last, as RtspStateMachine sees it.
LastAnswer(c) ==
  IF c = active /\ cur # None /\ sent # <<>>
    THEN [method |-> Cur.method, code |-> sent[1].code]
    ELSE None
Machine == INSTANCE RtspStateMachine WITH
             Quiet <- None,
             st <- [c \in Clients |-> sess[c].state_],
             answer <- [c \in Clients |-> LastAnswer(c)]

\* The session implements the state machine of session.hpp and
\* docs/state-machine.md: answers and transitions come from its tables.
ImplementsStateMachine == Machine!Spec

\* After TEARDOWN nothing that was pipelined behind it is handled or answered:
\* the only thing left to happen to the session is its removal.
NothingAfterTeardown ==
  [][ \A c \in Clients :
        (conn[c] /\ sess[c].state_ = "CLOSED") =>
          active = c /\ ~conn'[c] /\ sent' = <<>> ]_vars

\* The thread that serves all clients gets back to epoll_wait after every
\* event, however many requests a client pipelines, or the process ends.
LoopReturns ==
  (pc \notin {"wait", "exited", "crashed"}) ~> (pc \in {"wait", "exited", "crashed"})

------------------------------------------------------------------------------
(* What comments and documents say, and the code does not do               *)

\* docs/state-machine.md: in READY the RTP port is negotiated.  The port PLAY
\* will stream to is the one the client was last told with 200.
ReadyPortIsNegotiated ==
  \A c \in Clients :
    sess[c].state_ \in {"READY", "PLAYING"} =>
      sess[c].client_rtp_port_ = negotiated[c]

\* parser.hpp: a request that is broken is answered with 400.
BrokenRequestIs400 ==
  (cur # None /\ Cur.method \in {"MALFORMED", "BADNUMBER"}) =>
    Len(sent) = 1 /\ sent[1].code = 400
==============================================================================
