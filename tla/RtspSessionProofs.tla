-------------------------- MODULE RtspSessionProofs --------------------------
(***************************************************************************)
(* Proofs about RtspSession and the parser it reads requests with, for any *)
(* number of clients, any messages they may send and any size of buffer.   *)
(***************************************************************************)
EXTENDS RtspSession, WellFoundedInduction, TLAPS

(***************************************************************************)
(* The inductive invariant.                                                *)
(***************************************************************************)

\* The hub calls of the handlers, and where else a client is being served.
HubCall == [describe |-> "DESCRIBE", play |-> "PLAY", pause |-> "PAUSE",
            teardown |-> "TEARDOWN"]
Serving == DOMAIN HubCall \union {"feed", "drop"}

\* The client served is in the table; between events nothing is under way.
ThreadInv ==
  IF pc \in Serving
    THEN active \in Clients /\ conn[active]
    ELSE pc # "crashed" =>
           active = None /\ queue = <<>> /\ cur = None /\ sent = <<>>

\* A session that is in the table is closed only on its way out.
ClosedInv ==
  \A c \in Clients :
    conn[c] /\ sess[c].state_ = "CLOSED" => active = c /\ pc = "drop"

\* A handler is inside the hub for the request it took, in a state that lets it
\* through; PLAY alone has been answered by then.
HubInv ==
  /\ pc \in DOMAIN HubCall =>
       /\ cur # None /\ Cur.method = HubCall[pc]
       /\ sent = IF pc = "play" THEN <<Reply(Cur, 200)>> ELSE <<>>
  /\ pc = "play" => S.state_ = "READY"
  /\ pc = "pause" => S.state_ = "PLAYING"
  /\ pc = "teardown" => S.state_ \in {"READY", "PLAYING"}

\* Between two requests the last one has its answer.
AnswerInv ==
  /\ cur = None => sent = <<>>
  /\ pc \in {"feed", "drop"} /\ cur # None =>
       /\ Cur.method # "BADNUMBER"
       /\ \E code \in Nat : sent = <<Reply(Cur, code)>>

\* handle_pause drops the streamer, so READY has none either: this is what makes
\* StreamerMatchesState inductive, not a promise of session.hpp.
StreamerInv ==
  \A c \in Clients : (sess[c].streamer_ # None) <=> (sess[c].state_ = "PLAYING")

SessionInv ==
  /\ TypeOK
  /\ ThreadInv /\ ClosedInv /\ HubInv /\ AnswerInv
  /\ StreamerInv /\ SetUpBeforePlay

------------------------------------------------------------------------------
(* The parser                                                              *)

\* A finite set of positive numbers has a greatest one.
LEMMA MaxIsMember ==
  ASSUME NEW n \in Nat, NEW s, s \subseteq 1..n, s # {}
  PROVE  Max(s) \in s
<1> DEFINE below == {n - i : i \in s}
<1>1. below \subseteq Nat /\ below # {}
  <2>1. \A i \in s : n - i \in Nat
    OBVIOUS
  <2> QED BY <2>1
<1>2. PICK d \in below : \A e \in below : ~(<<e, d>> \in OpToRel(<, Nat))
  BY <1>1, NatLessThanWellFounded, WFMin
<1>3. PICK i \in s : d = n - i
  BY <1>2
<1>4. ASSUME NEW j \in s PROVE i >= j
  <2>1. n - j \in below /\ i \in 1..n /\ j \in 1..n
    OBVIOUS
  <2>2. ~(n - j < d)
    BY <1>1, <1>2, <2>1 DEF OpToRel
  <2> QED BY <1>3, <2>1, <2>2
<1> QED BY <1>4 DEF Max

\* A line of a request, and the header it gives.
LineOf(m, key, i) ==
  /\ i \in DOMAIN m.headers
  /\ m.headers[i] # <<"no colon">>
  /\ m.headers[i][1] = key

\* The map of headers has the names written in the request, each with the value
\* of one of its lines.
LEMMA HeadersFacts ==
  ASSUME NEW m \in Requests
  PROVE  /\ \A key \in DOMAIN headers(m) :
              \E i : LineOf(m, key, i) /\ headers(m)[key] = m.headers[i][2]
         /\ \A key, i : LineOf(m, key, i) => key \in DOMAIN headers(m)
<1> DEFINE lines == {i \in DOMAIN m.headers : m.headers[i] # <<"no colon">>}
           Under(key) == {i \in lines : m.headers[i][1] = key}
           keys == {m.headers[i][1] : i \in lines}
<1>1. headers(m) = [key \in keys |-> m.headers[Max(Under(key))][2]]
  BY DEF headers
<1>2. DOMAIN m.headers = 1..Len(m.headers) /\ Len(m.headers) \in Nat
  BY SessionAssumption
<1>3. ASSUME NEW key \in keys PROVE Max(Under(key)) \in Under(key)
  BY <1>2, MaxIsMember
<1>4. ASSUME NEW key \in keys
      PROVE  \E i : LineOf(m, key, i) /\ headers(m)[key] = m.headers[i][2]
  <2>1. LineOf(m, key, Max(Under(key)))
    BY <1>3 DEF LineOf
  <2> QED BY <1>1, <2>1
<1>5. ASSUME NEW key, NEW i, LineOf(m, key, i) PROVE key \in keys
  BY <1>5 DEF LineOf
<1>6. DOMAIN headers(m) = keys
  BY <1>1
<1> QED BY <1>4, <1>5, <1>6

\* header() returns the value of a line of that name, if there is one.
LEMMA HeaderFacts ==
  ASSUME NEW m \in Requests, NEW name, NEW none
  PROVE  \/ /\ header(headers(m), name, none) = none
            /\ \A key, i : LineOf(m, key, i) => ~iequals(key, <<name>>)
         \/ \E key, i : /\ LineOf(m, key, i) /\ iequals(key, <<name>>)
                        /\ header(headers(m), name, none) = m.headers[i][2]
<1> DEFINE h == headers(m)
           found == {key \in DOMAIN h : iequals(key, <<name>>)}
<1>1. header(h, name, none) = IF found = {} THEN none ELSE h[CHOOSE key \in found : TRUE]
  BY DEF header
<1> HIDE DEF h
<1>2. CASE found = {}
  <2>1. \A key, i : LineOf(m, key, i) => key \in DOMAIN h
    BY HeadersFacts DEF h
  <2> QED BY <1>1, <1>2, <2>1 DEF h
<1>3. CASE found # {}
  <2>1. PICK key \in found : header(h, name, none) = h[key]
    BY <1>1, <1>3
  <2>2. PICK i : LineOf(m, key, i) /\ h[key] = m.headers[i][2]
    BY <2>1, HeadersFacts DEF h
  <2> QED BY <2>1, <2>2 DEF h
<1> QED BY <1>2, <1>3

\* cseq_value returns a CSeq the client wrote, if there is one, else 0.
LEMMA CSeqFacts ==
  ASSUME NEW m \in Requests
  PROVE  LET v == cseq_value(headers(m)) IN
         v # <<>> =>
           /\ v[1] \in Int
           /\ IF WrittenCSeqs(m) = {} THEN v[1] = 0 ELSE v[1] \in WrittenCSeqs(m)
<1> DEFINE v == cseq_value(headers(m))
<1>1. ASSUME NEW key, NEW i, LineOf(m, key, i), iequals(key, <<"CSeq">>),
             m.headers[i][2] # <<>>
      PROVE  m.headers[i][2][1] \in Int /\ m.headers[i][2][1] \in WrittenCSeqs(m)
  <2>1. m.headers[i] \in Range(m.headers)
    BY <1>1 DEF LineOf, Range
  <2>2. iequals(m.headers[i][1], <<"CSeq">>) /\ m.headers[i] # <<"no colon">>
    BY <1>1 DEF LineOf
  <2>3. IsHeaderLine(m.headers[i])
    BY <2>1, SessionAssumption
  <2> QED BY <1>1, <2>1, <2>2, <2>3 DEF IsHeaderLine, WrittenCSeqs
<1>2. \/ /\ v = <<0>>
         /\ \A key, i : LineOf(m, key, i) => ~iequals(key, <<"CSeq">>)
      \/ \E key, i : /\ LineOf(m, key, i) /\ iequals(key, <<"CSeq">>)
                     /\ v = m.headers[i][2]
  <2>1. CASE <<"CSeq", "exact">> \in DOMAIN headers(m)
    <3>1. iequals(<<"CSeq", "exact">>, <<"CSeq">>)
      BY DEF iequals
    <3>2. v = headers(m)[<<"CSeq", "exact">>]
      BY <2>1 DEF cseq_value
    <3> QED BY <2>1, <3>1, <3>2, HeadersFacts
  <2>2. CASE <<"CSeq", "exact">> \notin DOMAIN headers(m)
    <3>1. v = header(headers(m), "CSeq", <<0>>)
      BY <2>2 DEF cseq_value
    <3> QED BY <3>1, HeaderFacts
  <2> QED BY <2>1, <2>2
<1>3. ASSUME \A key, i : LineOf(m, key, i) => ~iequals(key, <<"CSeq">>)
      PROVE  WrittenCSeqs(m) = {}
  BY <1>3 DEF WrittenCSeqs, LineOf, Range
<1>4. CASE v = <<0>> /\ WrittenCSeqs(m) = {}
  <2>1. v[1] = 0
    BY <1>4
  <2> QED BY <1>4, <2>1
<1>5. ASSUME NEW key, NEW i, LineOf(m, key, i), iequals(key, <<"CSeq">>),
             v = m.headers[i][2], v # <<>>
      PROVE  v[1] \in Int /\ v[1] \in WrittenCSeqs(m)
  BY <1>1, <1>5
<1> HIDE DEF v
<1>6. v # <<>> => /\ v[1] \in Int
                  /\ IF WrittenCSeqs(m) = {} THEN v[1] = 0 ELSE v[1] \in WrittenCSeqs(m)
  BY <1>2, <1>3, <1>4, <1>5
<1> QED BY <1>6 DEF v

\* What parse_request makes of a message.
LEMMA ParseFacts ==
  ASSUME NEW m \in Requests
  PROVE  /\ Parsed[m] = parse_request(m)
         /\ Parsed[m].method \in Methods \union {"MALFORMED", "BADNUMBER"}
         /\ Parsed[m].cseq \in Int
         /\ Parsed[m].method \in Methods => Parsed[m].transport \in Transports
         /\ Parsed[m].method # "BADNUMBER" =>
              IF m.line # "ok" \/ WrittenCSeqs(m) = {}
                THEN Parsed[m].cseq = 0 ELSE Parsed[m].cseq \in WrittenCSeqs(m)
<1> DEFINE v == cseq_value(headers(m))
           t == header(headers(m), "Transport", [kind |-> "absent"])
           r == parse_request(m)
<1>1. Parsed[m] = r
  BY DEF Parsed
<1>2. string_to_method(m.method) \in Methods
  BY DEF string_to_method, iequals, Methods
<1>3. t \in Transports
  <2>1. CASE t = [kind |-> "absent"]
    BY <2>1 DEF Transports
  <2>2. ASSUME NEW key, NEW i, LineOf(m, key, i), iequals(key, <<"Transport">>),
               t = m.headers[i][2]
        PROVE  t \in Transports
    <3>1. m.headers[i] \in Range(m.headers)
      BY <2>2 DEF LineOf, Range
    <3>2. IsHeaderLine(m.headers[i])
      BY <3>1, SessionAssumption
    <3> QED BY <2>2, <3>2 DEF IsHeaderLine, LineOf
  <2> QED BY <2>1, <2>2, HeaderFacts
<1>4. v # <<>> => /\ v[1] \in Int
                  /\ IF WrittenCSeqs(m) = {} THEN v[1] = 0 ELSE v[1] \in WrittenCSeqs(m)
  BY CSeqFacts
<1> HIDE DEF v, t
<1>5. CASE m.line # "ok"
  <2>1. r.method = "MALFORMED" /\ r.cseq = 0
    BY <1>5 DEF parse_request
  <2> QED BY <1>1, <1>5, <2>1 DEF Methods
<1>6. CASE m.line = "ok" /\ v = <<>>
  <2>1. r.method = "BADNUMBER" /\ r.cseq = 0
    BY <1>6 DEF parse_request, v
  <2> QED BY <1>1, <2>1 DEF Methods
<1>7. CASE m.line = "ok" /\ v # <<>>
  <2>1. r.method = string_to_method(m.method) /\ r.cseq = v[1] /\ r.transport = t
    BY <1>7 DEF parse_request, v, t
  <2> QED BY <1>1, <1>2, <1>3, <1>4, <1>7, <2>1
<1> QED BY <1>5, <1>6, <1>7

------------------------------------------------------------------------------
(* Sessions                                                                *)

\* Sessions as a record: its fields, and the changes the handlers make.
LEMMA SessionFields ==
  ASSUME NEW s \in Sessions
  PROVE  /\ s.state_ \in States /\ s.session_id_ \in Ids
         /\ s.client_rtp_port_ \in Nat /\ s.client_rtcp_port_ \in Int
         /\ s.streamer_ \in Streamers /\ s.rx_buffer_ \in Buffers
BY DEF Sessions

\* A port that is narrowed is one.
LEMMA Uint16Facts ==
  MaxPort \in Nat \ {0} /\ \A n \in Nat : Uint16(n) \in 0..MaxPort
<1>1. MaxPort = 65535
  BY DEF MaxPort
<1>2. ASSUME NEW n \in Nat PROVE Uint16(n) \in 0..MaxPort
  <2>1. 0 <= n % 65536 /\ n % 65536 <= 65535 /\ n % 65536 \in Int
    OBVIOUS
  <2>2. Uint16(n) = n % 65536
    BY <1>1 DEF Uint16
  <2>3. MaxPort \in Nat /\ 0 <= Uint16(n) /\ Uint16(n) <= MaxPort /\ Uint16(n) \in Int
    BY <1>1, <2>1, <2>2
  <2> QED BY <2>3
<1>3. MaxPort \in Nat \ {0}
  BY <1>1
<1> QED BY <1>2, <1>3

------------------------------------------------------------------------------
(* What the handlers have in common                                        *)

\* feed() has a request in hand, of a client whose session is not closed.
LEMMA FeedingFacts ==
  ASSUME SessionInv, Feeding
  PROVE  /\ active \in Clients /\ conn[active] /\ S \in Sessions /\ S.state_ # "CLOSED"
         /\ Head(queue) \in Requests /\ Head(queue) # None
         /\ Tail(queue) \in Seq(Requests)
         /\ Req = Parsed[Head(queue)] /\ Req.cseq \in Int
         /\ Req.method \in Methods \union {"MALFORMED", "BADNUMBER"}
         /\ Req.method \in Methods => Req.transport \in Transports
<1>1. pc = "feed" /\ queue # <<>> /\ queue \in Seq(Requests)
  BY DEF Feeding, SessionInv, TypeOK, ThreadType
<1>2. active \in Clients /\ conn[active]
  BY <1>1 DEF SessionInv, ThreadInv, Serving
<1>3. S \in Sessions
  <2>1. active \in Clients /\ sess \in [Clients -> Sessions]
    BY <1>2 DEF SessionInv, TypeOK, TableType
  <2> QED BY <2>1 DEF S
<1>4. S.state_ # "CLOSED"
  BY <1>1, <1>2 DEF SessionInv, ClosedInv, S
<1>5. Head(queue) \in Requests /\ Tail(queue) \in Seq(Requests)
  BY <1>1
<1>6. Head(queue) # None
  BY <1>5, SessionAssumption
<1> QED BY <1>2, <1>3, <1>4, <1>5, <1>6, ParseFacts DEF Req

\* The request that is being handled or has been answered last.
LEMMA CurFacts ==
  ASSUME SessionInv, cur # None
  PROVE  cur \in Requests /\ Cur = Parsed[cur] /\ Cur.cseq \in Int
<1>1. cur \in Requests
  BY DEF SessionInv, TypeOK, ThreadType
<1> QED BY <1>1, ParseFacts DEF Cur

\* Where the thread is inside a hub call.
LEMMA HubFacts ==
  ASSUME SessionInv, pc \in DOMAIN HubCall
  PROVE  /\ active \in Clients /\ conn[active] /\ S \in Sessions /\ S.state_ # "CLOSED"
         /\ cur # None /\ Cur.method = HubCall[pc] /\ Cur.cseq \in Int
         /\ sent = IF pc = "play" THEN <<Reply(Cur, 200)>> ELSE <<>>
<1>1. pc \in {"describe", "play", "pause", "teardown"}
  BY DEF HubCall
<1>2. active \in Clients /\ conn[active]
  BY DEF SessionInv, ThreadInv, Serving
<1>3. S \in Sessions
  <2>1. active \in Clients /\ sess \in [Clients -> Sessions]
    BY <1>2 DEF SessionInv, TypeOK, TableType
  <2> QED BY <2>1 DEF S
<1>4. S.state_ # "CLOSED"
  BY <1>1, <1>2 DEF SessionInv, ClosedInv, S
<1> QED BY <1>2, <1>3, <1>4, CurFacts DEF SessionInv, HubInv

\* The request in hand is answered, and that is all.
Answered ==
  Feeding /\ Req.method # "BADNUMBER" /\ \E code \in Nat : Answer(code)

LEMMA AnsweredFacts ==
  ASSUME SessionInv,
         \/ FeedMalformed \/ HandleUnknown \/ HandleNotAllowed \/ HandleOptions
         \/ HandleSetupNoTransport \/ HandleWrongSession \/ HandlePlayNoSocket
  PROVE  Answered
<1>1. "BADNUMBER" \notin Methods
  BY DEF Methods
<1>2. CASE FeedMalformed
  BY <1>2 DEF FeedMalformed, Answered
<1>3. CASE HandleUnknown
  BY <1>3 DEF HandleUnknown, Answered
<1>4. CASE HandleNotAllowed
  BY <1>1, <1>4 DEF HandleNotAllowed, Answered
<1>5. CASE HandleOptions
  BY <1>5 DEF HandleOptions, Handling, Answered
<1>6. CASE HandleSetupNoTransport
  BY <1>6 DEF HandleSetupNoTransport, Handling, Answered
<1>7. CASE HandleWrongSession
  BY <1>7 DEF HandleWrongSession, Handling, Answered
<1>8. CASE HandlePlayNoSocket
  BY <1>8 DEF HandlePlayNoSocket, Handling, Answered
<1> QED BY <1>2, <1>3, <1>4, <1>5, <1>6, <1>7, <1>8

\* The request in hand goes to the hub by way of `where'.
Entered(where) ==
  /\ Handling(HubCall[where])
  /\ Enter(where, IF where = "play" THEN <<Reply(Req, 200)>> ELSE <<>>)

LEMMA EnteredFacts ==
  ASSUME SessionInv, HandleDescribe \/ HandlePlay \/ HandlePause \/ HandleTeardown
  PROVE  \E where \in DOMAIN HubCall : Entered(where)
<1>1. DOMAIN HubCall = {"describe", "play", "pause", "teardown"}
  BY DEF HubCall
<1>2. CASE HandleDescribe
  BY <1>1, <1>2 DEF HandleDescribe, Entered, HubCall
<1>3. CASE HandlePlay
  BY <1>1, <1>3 DEF HandlePlay, Entered, HubCall
<1>4. CASE HandlePause
  BY <1>1, <1>4 DEF HandlePause, Entered, HubCall
<1>5. CASE HandleTeardown
  BY <1>1, <1>5 DEF HandleTeardown, Entered, HubCall
<1> QED BY <1>2, <1>3, <1>4, <1>5

\* The hub has returned: the request is answered with 200, and the session has a
\* streamer if it is PLAYING now.
Left(x) ==
  /\ x.state_ = "CLOSED" <=> pc = "teardown"
  /\ x.state_ \in {"READY", "PLAYING"} => S.state_ \in {"READY", "PLAYING"}
  /\ x.session_id_ = S.session_id_
  /\ x.streamer_ # None <=> x.state_ = "PLAYING"
  /\ sess' = [sess EXCEPT ![active] = x]
  /\ Leave(IF pc = "teardown" THEN "drop" ELSE "feed", <<Reply(Cur, 200)>>)

LEMMA LeftFacts ==
  ASSUME SessionInv,
         \/ DescribeReturns \/ PlaySubscribed \/ PlayUnavailable
         \/ PauseStopped \/ TeardownStopped
  PROVE  pc \in DOMAIN HubCall /\ \E x \in Sessions : Left(x)
<1>1. pc \in DOMAIN HubCall
  BY DEF DescribeReturns, PlaySubscribed, PlayUnavailable, PauseStopped,
         TeardownStopped, HubCall
<1>2. /\ active \in Clients /\ S \in Sessions /\ S.state_ # "CLOSED"
      /\ sent = IF pc = "play" THEN <<Reply(Cur, 200)>> ELSE <<>>
      /\ S.streamer_ # None <=> S.state_ = "PLAYING"
  BY <1>1, HubFacts DEF SessionInv, StreamerInv, S
<1>3. sess = [sess EXCEPT ![active] = S]
  <2>1. sess \in [Clients -> Sessions]
    BY DEF SessionInv, TypeOK, TableType
  <2> QED BY <1>2, <2>1 DEF S
<1>4. CASE DescribeReturns \/ PlayUnavailable
  <2>1. pc # "teardown"
    BY <1>4 DEF DescribeReturns, PlayUnavailable
  <2>2. sess' = sess /\ Leave("feed", <<Reply(Cur, 200)>>)
    BY <1>2, <1>4 DEF DescribeReturns, PlayUnavailable
  <2> QED BY <1>1, <1>2, <1>3, <2>1, <2>2 DEF Left
<1>5. CASE PlaySubscribed
  <2> DEFINE p == Uint16(S.client_rtp_port_)
             x == [S EXCEPT !.streamer_ = p, !.state_ = "PLAYING"]
  <2>1. p \in 0..MaxPort
    <3>1. S.client_rtp_port_ \in Nat
      BY <1>2, SessionFields
    <3> QED BY <3>1, Uint16Facts
  <2>2. p \in Streamers /\ p # None
    BY <2>1, SessionAssumption DEF Streamers
  <2> HIDE DEF p
  <2>3. /\ x \in Sessions /\ x.state_ = "PLAYING" /\ x.streamer_ = p
        /\ x.session_id_ = S.session_id_
    <3>1. S \in Sessions /\ "PLAYING" \in States /\ p \in Streamers
      BY <1>2, <2>2 DEF States
    <3> QED BY <3>1 DEF Sessions
  <2>4. sess' = [sess EXCEPT ![active] = x]
    BY <1>5 DEF PlaySubscribed, S, p
  <2>5. pc = "play" /\ Leave("feed", <<Reply(Cur, 200)>>)
    BY <1>2, <1>5 DEF PlaySubscribed, PlayReplies
  <2>6. S.state_ = "READY"
    BY <2>5 DEF SessionInv, HubInv
  <2> QED BY <1>1, <2>2, <2>3, <2>4, <2>5, <2>6 DEF Left
<1>6. ASSUME NEW state \in {"READY", "CLOSED"}, sess' = StreamingStopped(state)
      PROVE  \E x \in Sessions :
               /\ sess' = [sess EXCEPT ![active] = x]
               /\ x.state_ = state /\ x.streamer_ = None
               /\ x.session_id_ = S.session_id_
  <2> DEFINE x == [S EXCEPT !.state_ = state, !.streamer_ = None]
  <2>1. None \in Streamers /\ state \in States
    BY DEF Streamers, States
  <2>2. /\ x \in Sessions /\ x.state_ = state /\ x.streamer_ = None
        /\ x.session_id_ = S.session_id_
    <3>1. S \in Sessions
      BY <1>2
    <3> QED BY <2>1, <3>1 DEF Sessions
  <2>3. sess' = [sess EXCEPT ![active] = x]
    BY <1>6 DEF StreamingStopped, S
  <2> QED BY <2>2, <2>3
<1>7. CASE PauseStopped
  <2>1. S.state_ = "PLAYING" /\ pc = "pause" /\ Leave("feed", <<Reply(Cur, 200)>>)
    BY <1>7 DEF PauseStopped, SessionInv, HubInv
  <2>2. PICK x \in Sessions :
          /\ sess' = [sess EXCEPT ![active] = x]
          /\ x.state_ = "READY" /\ x.streamer_ = None /\ x.session_id_ = S.session_id_
    BY <1>6, <1>7 DEF PauseStopped
  <2> QED BY <1>1, <2>1, <2>2 DEF Left
<1>8. CASE TeardownStopped
  <2>1. /\ S.state_ \in {"READY", "PLAYING"} /\ pc = "teardown"
        /\ Leave("drop", <<Reply(Cur, 200)>>)
    BY <1>8 DEF TeardownStopped, AfterTeardown, SessionInv, HubInv
  <2>2. PICK x \in Sessions :
          /\ sess' = [sess EXCEPT ![active] = x]
          /\ x.state_ = "CLOSED" /\ x.streamer_ = None /\ x.session_id_ = S.session_id_
    BY <1>6, <1>8 DEF TeardownStopped
  <2> QED BY <1>1, <2>1, <2>2 DEF Left
<1> QED BY <1>4, <1>5, <1>7, <1>8

\* SETUP leaves the ports parse_transport has read, and if they will do, an id
\* and the state READY.
SetUp(x, code, told) ==
  /\ x.streamer_ = S.streamer_
  /\ IF code = 200
       THEN x.state_ = "READY" /\ x.session_id_ \in SessionIds /\ told[active] # None
       ELSE x.state_ = S.state_ /\ x.session_id_ = S.session_id_ /\ told = negotiated
  /\ sess' = [sess EXCEPT ![active] = x]
  /\ negotiated' = told
  /\ Take(<<Reply(Req, code)>>)
  /\ UNCHANGED <<conn, pc, active>>

LEMMA SetUpFacts ==
  ASSUME SessionInv, HandleSetup
  PROVE  /\ Feeding /\ Req.method = "SETUP" /\ S.state_ \in {"INIT", "READY"}
         /\ \E x \in Sessions, code \in {200, 461},
               told \in [Clients -> (1..MaxPort) \union {None}] :
              SetUp(x, code, told)
              /\ \A c \in Clients \ {active} : told[c] = negotiated[c]
<1>1. Feeding /\ Req.method = "SETUP" /\ S.state_ \in {"INIT", "READY"}
  BY DEF HandleSetup, Handling, method_allowed
<1>2. active \in Clients /\ S \in Sessions
  BY <1>1, FeedingFacts
<1>3. negotiated \in [Clients -> (1..MaxPort) \union {None}]
  BY DEF SessionInv, TypeOK, TableType
<1>4. sess[active] = S
  BY DEF S
<1> DEFINE t == Req.transport
           p == parse_transport(t, S.client_rtp_port_, S.client_rtcp_port_)
           x == WithPorts(p)
<1>5. t \in Transports
  BY <1>1, FeedingFacts DEF Methods
<1>6. p.rtp \in Nat /\ p.rtcp \in Int /\ (p.ok => p.rtp \in 1..MaxPort)
  <2>1. S.client_rtp_port_ \in Nat /\ S.client_rtcp_port_ \in Int
    BY <1>2, SessionFields
  <2> HIDE DEF t
  <2>2. CASE t.kind = "single"
    <3>1. t.rtp \in Nat /\ t.rtp + 1 \in Int
      BY <1>5, <2>2 DEF Transports
    <3>2. p = [ok |-> t.rtp \in 1..MaxPort, rtp |-> t.rtp, rtcp |-> t.rtp + 1]
      BY <2>2 DEF parse_transport
    <3>3. p.rtp = t.rtp /\ p.rtcp = t.rtp + 1
      BY <3>2
    <3> HIDE DEF p
    <3>4. p.ok => t.rtp \in 1..MaxPort
      BY <3>2
    <3> QED BY <3>1, <3>3, <3>4
  <2>3. CASE t.kind = "pair"
    <3>1. t.rtp \in Nat /\ t.rtcp \in Int
      BY <1>5, <2>3 DEF Transports
    <3>2. p = [ok |-> t.rtp \in 1..MaxPort, rtp |-> t.rtp, rtcp |-> t.rtcp]
      BY <2>3 DEF parse_transport
    <3>3. p.rtp = t.rtp /\ p.rtcp = t.rtcp
      BY <3>2
    <3> HIDE DEF p
    <3>4. p.ok => t.rtp \in 1..MaxPort
      BY <3>2
    <3> QED BY <3>1, <3>3, <3>4
  <2>4. CASE t.kind = "half"
    <3>1. t.rtp \in Nat
      BY <1>5, <2>4 DEF Transports
    <3>2. p = [ok |-> FALSE, rtp |-> t.rtp, rtcp |-> S.client_rtcp_port_]
      BY <2>4 DEF parse_transport
    <3> QED BY <2>1, <3>1, <3>2
  <2>5. CASE t.kind \notin {"single", "pair", "half"}
    <3>1. p = [ok |-> FALSE, rtp |-> S.client_rtp_port_, rtcp |-> S.client_rtcp_port_]
      BY <2>5 DEF parse_transport
    <3> QED BY <2>1, <3>1
  <2> QED BY <2>2, <2>3, <2>4, <2>5
<1> HIDE DEF p
<1>7. /\ x \in Sessions /\ x.state_ = S.state_ /\ x.streamer_ = S.streamer_
      /\ x.session_id_ = S.session_id_
  BY <1>2, <1>6 DEF WithPorts, Sessions
<1> HIDE DEF x
<1>8. CASE ~p.ok
  <2>1. /\ sess' = [sess EXCEPT ![active] = x] /\ negotiated' = negotiated
        /\ Take(<<Reply(Req, 461)>>) /\ UNCHANGED <<conn, pc, active>>
    BY <1>8 DEF HandleSetup, p, x
  <2>2. SetUp(x, 461, negotiated)
    BY <1>7, <2>1 DEF SetUp
  <2> QED BY <1>1, <1>3, <1>7, <2>2
<1>9. CASE p.ok
  <2>1. PICK id \in IF S.session_id_ = None THEN SessionIds ELSE {S.session_id_} :
          sess' = [sess EXCEPT ![active] =
                     [x EXCEPT !.session_id_ = id, !.state_ = "READY"]]
    BY <1>9 DEF HandleSetup, p, x
  <2> DEFINE y == [x EXCEPT !.session_id_ = id, !.state_ = "READY"]
             told == [negotiated EXCEPT ![active] = p.rtp]
  <2>2. id \in SessionIds /\ id \in Ids
    <3>1. S.session_id_ \in SessionIds \union {None}
      BY <1>2, SessionFields DEF Ids
    <3> QED BY <3>1 DEF Ids
  <2>3. /\ y \in Sessions /\ y.state_ = "READY" /\ y.streamer_ = S.streamer_
        /\ y.session_id_ = id
    <3>1. "READY" \in States
      BY DEF States
    <3> QED BY <1>7, <2>2, <3>1 DEF Sessions
  <2>4. p.rtp # None
    BY <1>6, SessionAssumption
  <2>5. /\ told \in [Clients -> (1..MaxPort) \union {None}] /\ told[active] # None
        /\ \A c \in Clients \ {active} : told[c] = negotiated[c]
    BY <1>2, <1>3, <1>6, <1>9, <2>4
  <2>6. negotiated' = told /\ Take(<<Reply(Req, 200)>>) /\ UNCHANGED <<conn, pc, active>>
    BY <1>9 DEF HandleSetup, p
  <2> HIDE DEF y, told
  <2>7. sess' = [sess EXCEPT ![active] = y]
    BY <2>1 DEF y
  <2>8. SetUp(y, 200, told)
    BY <2>2, <2>3, <2>5, <2>6, <2>7 DEF SetUp
  <2> QED BY <1>1, <2>3, <2>5, <2>8
<1> QED BY <1>8, <1>9

\* A request taken off the buffer is the one to be answered next.
LEMMA TakeFacts ==
  ASSUME SessionInv, Feeding, queue' = Rest, cur' = Head(queue)
  PROVE  /\ queue' \in Seq(Requests)
         /\ cur' \in Requests /\ cur' # None /\ Cur' = Req
BY FeedingFacts DEF Rest, Cur

\* One answer is a sequence of answers.
LEMMA ReplyFacts ==
  ASSUME NEW r, r.cseq \in Int, NEW code \in Nat
  PROVE  <<Reply(r, code)>> \in Seq([cseq : Int, code : Nat])
<1>1. Reply(r, code) \in [cseq : Int, code : Nat]
  BY DEF Reply
<1> QED BY <1>1

\* A step is an event, or one of five things a request may meet, or the end of
\* a client or of the process.
LEMMA StepCases ==
  ASSUME SessionInv, [Next]_vars
  PROVE  \/ \E c \in Clients : Accept(c) \/ HangUp(c) \/ ClearClient(c)
         \/ \E c \in Clients, reqs \in Chunks, frags \in 0..MaxChunk :
              Readable(c, reqs, frags)
         \/ FeedReturns \/ DropClient
         \/ FeedThrows \/ Answered \/ (\E where \in DOMAIN HubCall : Entered(where))
         \/ HandleSetup
         \/ (pc \in DOMAIN HubCall /\ \E x \in Sessions : Left(x))
         \/ Shutdown \/ Stopped \/ UNCHANGED vars
<1>1. CASE Events
  BY <1>1 DEF Events
<1>2. CASE EpollStep
  BY <1>2, AnsweredFacts, EnteredFacts, LeftFacts DEF EpollStep
<1>3. CASE Exited
  BY <1>3 DEF Exited
<1> QED BY <1>1, <1>2, <1>3 DEF Next

------------------------------------------------------------------------------
(* Types                                                                   *)

\* Every step keeps the types of the client table.
LEMMA TableTypeStep ==
  ASSUME SessionInv, [Next]_vars
  PROVE  TableType'
<1> DEFINE Told == (1..MaxPort) \union {None}
<1>1. /\ conn \in [Clients -> BOOLEAN] /\ sess \in [Clients -> Sessions]
      /\ negotiated \in [Clients -> Told]
  BY DEF SessionInv, TypeOK, TableType
<1> HIDE DEF Told
<1>2. None \in Told
  BY DEF Told
<1>3. ASSUME conn' \in [Clients -> BOOLEAN], sess' \in [Clients -> Sessions],
             negotiated' \in [Clients -> Told]
      PROVE  TableType'
  BY <1>3 DEF TableType, Told
<1>4. NewSession \in Sessions /\ NoSession \in Sessions
  <2>1. "INIT" \in States /\ "CLOSED" \in States /\ None \in Ids /\ None \in Streamers
    BY DEF States, Ids, Streamers
  <2>2. 0 \in Buffers
    BY SessionAssumption DEF Buffers
  <2>3. NewSession \in Sessions
    BY <2>1, <2>2 DEF NewSession, Sessions
  <2> QED BY <2>1, <2>3 DEF NoSession, Sessions
<1>5. CASE UNCHANGED table
  <2>1. UNCHANGED <<conn, sess, negotiated>>
    BY <1>5 DEF table
  <2> QED BY <1>1, <1>3, <2>1
<1>6. ASSUME NEW c \in Clients, Accept(c) PROVE TableType'
  <2>1. sess' \in [Clients -> Sessions] /\ negotiated' = negotiated
    BY <1>1, <1>4, <1>6 DEF Accept
  <2>2. conn' \in [Clients -> BOOLEAN]
    BY <1>1, <1>6 DEF Accept
  <2> QED BY <1>1, <1>3, <2>1, <2>2
<1>7. ASSUME NEW c \in Clients, NEW reqs \in Chunks, NEW frags \in 0..MaxChunk,
             Readable(c, reqs, frags)
      PROVE  TableType'
  <2> DEFINE size == sess[c].rx_buffer_ + Len(reqs) + frags
             tail == IF reqs = <<>> THEN size ELSE frags
  <2>1. conn' = conn /\ negotiated' = negotiated
    BY <1>7 DEF Readable
  <2>2. CASE size > MaxRx
    <3>1. sess' = sess
      BY <1>7, <2>2 DEF Readable
    <3> QED BY <1>1, <1>3, <2>1, <3>1
  <2>3. CASE ~(size > MaxRx)
    <3>1. sess' = [sess EXCEPT ![c].rx_buffer_ = tail]
      BY <1>7, <2>3 DEF Readable
    <3>2. sess[c].rx_buffer_ \in Nat /\ sess[c] \in Sessions
      BY <1>1, SessionFields, SessionAssumption DEF Buffers
    <3>3. reqs \in Seq(Requests)
      BY SessionAssumption DEF Chunks
    <3>4. Len(reqs) \in Nat /\ frags \in Nat
      BY <3>3, SessionAssumption
    <3>5. tail \in Buffers
      BY <2>3, <3>2, <3>4, SessionAssumption DEF Buffers
    <3> HIDE DEF tail
    <3>6. [sess[c] EXCEPT !.rx_buffer_ = tail] \in Sessions
      BY <3>2, <3>5 DEF Sessions
    <3>7. sess' \in [Clients -> Sessions]
      BY <1>1, <3>1, <3>6
    <3> QED BY <1>1, <1>3, <2>1, <3>7
  <2> QED BY <2>2, <2>3
<1>8. ASSUME NEW c \in Clients, Erase(c) PROVE TableType'
  <2>1. sess' \in [Clients -> Sessions] /\ negotiated' \in [Clients -> Told]
    BY <1>1, <1>2, <1>4, <1>8 DEF Erase
  <2>2. conn' \in [Clients -> BOOLEAN]
    BY <1>1, <1>8 DEF Erase
  <2> QED BY <1>3, <2>1, <2>2
<1>9. CASE \E c \in Clients : HangUp(c)
  BY <1>5, <1>9 DEF HangUp, table
<1>10. ASSUME NEW c \in Clients, ClearClient(c) PROVE TableType'
  BY <1>8, <1>10 DEF ClearClient
<1>11. CASE FeedReturns \/ FeedThrows \/ Answered \/ Shutdown \/ Stopped \/ UNCHANGED vars
  BY <1>5, <1>11 DEF FeedReturns, FeedThrows, Answered, Enter, Answer, Shutdown,
                     Stopped, vars, table
<1>12. CASE DropClient
  <2>1. active \in Clients
    BY <1>12 DEF DropClient, SessionInv, ThreadInv, Serving
  <2> QED BY <1>8, <1>12, <2>1 DEF DropClient
<1>13. CASE \E where \in DOMAIN HubCall : Entered(where)
  BY <1>5, <1>13 DEF Entered, Enter
<1>14. CASE HandleSetup
  <2>1. PICK x \in Sessions, code \in {200, 461}, told \in [Clients -> Told] :
          SetUp(x, code, told)
    BY <1>14, SetUpFacts DEF Told
  <2>2. sess' = [sess EXCEPT ![active] = x] /\ negotiated' = told /\ conn' = conn
    BY <2>1 DEF SetUp
  <2>3. sess' \in [Clients -> Sessions]
    BY <1>1, <2>2
  <2> QED BY <1>1, <1>3, <2>1, <2>2, <2>3
<1>15. CASE pc \in DOMAIN HubCall /\ \E x \in Sessions : Left(x)
  <2>1. PICK x \in Sessions : Left(x)
    BY <1>15
  <2>2. sess' = [sess EXCEPT ![active] = x] /\ negotiated' = negotiated /\ conn' = conn
    BY <2>1 DEF Left, Leave
  <2>3. sess' \in [Clients -> Sessions]
    BY <1>1, <2>2
  <2> QED BY <1>1, <1>3, <2>1, <2>2, <2>3
<1> QED BY <1>6, <1>7, <1>9, <1>10, <1>11, <1>12, <1>13, <1>14, <1>15, StepCases

\* Every step keeps the types of the thread's variables.
LEMMA ThreadTypeStep ==
  ASSUME SessionInv, [Next]_vars
  PROVE  ThreadType'
<1> USE DEF SessionInv, TypeOK, ThreadType, exchange
<1>1. DOMAIN HubCall = {"describe", "play", "pause", "teardown"}
  BY DEF HubCall
<1>2. <<>> \in Seq(Requests) /\ <<>> \in Seq([cseq : Int, code : Nat])
  OBVIOUS
<1>3. CASE \E c \in Clients : Accept(c) \/ HangUp(c) \/ ClearClient(c)
  BY <1>3 DEF Accept, HangUp, ClearClient
<1>4. ASSUME NEW c \in Clients, NEW reqs \in Chunks, NEW frags \in 0..MaxChunk,
             Readable(c, reqs, frags)
      PROVE  ThreadType'
  <2>1. reqs \in Seq(Requests)
    BY SessionAssumption DEF Chunks
  <2>2. /\ active' = c /\ pc' \in {"drop", "feed"} /\ queue' \in {queue, reqs}
        /\ UNCHANGED <<cur, sent>>
    BY <1>4 DEF Readable
  <2> QED BY <2>1, <2>2
<1>5. CASE FeedReturns \/ DropClient
  BY <1>2, <1>5 DEF FeedReturns, DropClient, Wait
<1>6. CASE FeedThrows
  <2>1. /\ Feeding /\ queue' = Rest /\ cur' = Head(queue) /\ sent' = <<>>
        /\ pc' = "crashed" /\ active' = active
    BY <1>6 DEF FeedThrows, Enter, Take
  <2>2. queue' \in Seq(Requests) /\ cur' \in Requests
    BY <2>1, TakeFacts
  <2> QED BY <1>2, <2>1, <2>2
<1>7. CASE Answered
  <2>1. PICK code \in Nat : /\ queue' = Rest /\ cur' = Head(queue)
                           /\ sent' = <<Reply(Req, code)>> /\ UNCHANGED <<pc, active>>
    BY <1>7 DEF Answered, Answer, Take
  <2>2. Feeding
    BY <1>7 DEF Answered
  <2>3. queue' \in Seq(Requests) /\ cur' \in Requests
    BY <2>1, <2>2, TakeFacts
  <2>4. sent' \in Seq([cseq : Int, code : Nat])
    BY <2>1, <2>2, ReplyFacts, FeedingFacts
  <2> QED BY <2>1, <2>3, <2>4
<1>8. ASSUME NEW where \in DOMAIN HubCall, Entered(where) PROVE ThreadType'
  <2>1. /\ Feeding /\ pc' = where /\ active' = active
        /\ queue' = Rest /\ cur' = Head(queue)
        /\ sent' = IF where = "play" THEN <<Reply(Req, 200)>> ELSE <<>>
    BY <1>8 DEF Entered, Handling, Enter, Take
  <2>2. <<Reply(Req, 200)>> \in Seq([cseq : Int, code : Nat])
    BY <2>1, ReplyFacts, FeedingFacts, ZenonT(30)
  <2>3. queue' \in Seq(Requests) /\ cur' \in Requests
    BY <2>1, TakeFacts
  <2>4. sent' \in Seq([cseq : Int, code : Nat])
    BY <1>2, <2>1, <2>2
  <2> QED BY <1>1, <2>1, <2>3, <2>4
<1>9. CASE HandleSetup
  <2>1. PICK code \in {200, 461} :
          /\ queue' = Rest /\ cur' = Head(queue)
          /\ sent' = <<Reply(Req, code)>> /\ UNCHANGED <<pc, active>>
    BY <1>9, SetUpFacts DEF SetUp, Take
  <2>2. Feeding /\ code \in Nat
    BY <1>9, SetUpFacts
  <2>3. queue' \in Seq(Requests) /\ cur' \in Requests
    BY <2>1, <2>2, TakeFacts
  <2>4. sent' \in Seq([cseq : Int, code : Nat])
    BY <2>1, <2>2, ReplyFacts, FeedingFacts
  <2> QED BY <2>1, <2>3, <2>4
<1>10. CASE pc \in DOMAIN HubCall /\ \E x \in Sessions : Left(x)
  <2>1. /\ pc' \in {"drop", "feed"} /\ sent' = <<Reply(Cur, 200)>>
        /\ UNCHANGED <<active, queue, cur>>
    BY <1>10 DEF Left, Leave
  <2>2. sent' \in Seq([cseq : Int, code : Nat])
    BY <1>10, <2>1, ReplyFacts, HubFacts
  <2> QED BY <2>1, <2>2
<1>11. CASE Shutdown \/ Stopped \/ UNCHANGED vars
  BY <1>11 DEF Shutdown, Stopped, vars
<1> QED BY <1>3, <1>4, <1>5, <1>6, <1>7, <1>8, <1>9, <1>10, <1>11, StepCases

------------------------------------------------------------------------------
(* The parts of the invariant, each kept by every step                     *)

\* The thread serves a client of the table, and keeps nothing between events.
LEMMA ThreadStep ==
  ASSUME SessionInv, [Next]_vars
  PROVE  ThreadInv'
<1> USE DEF ThreadInv, Serving, table, exchange
<1>1. ThreadInv
  BY DEF SessionInv
<1>2. DOMAIN HubCall = {"describe", "play", "pause", "teardown"}
  BY DEF HubCall
<1>3. conn \in [Clients -> BOOLEAN]
  BY DEF SessionInv, TypeOK, TableType
<1>4. ASSUME NEW c \in Clients, Accept(c) PROVE ThreadInv'
  BY <1>1, <1>2, <1>4 DEF Accept
<1>5. ASSUME NEW c \in Clients, HangUp(c) PROVE ThreadInv'
  BY <1>2, <1>5 DEF HangUp
<1>6. ASSUME NEW c \in Clients, ClearClient(c) PROVE ThreadInv'
  BY <1>1, <1>2, <1>6 DEF ClearClient
<1>7. ASSUME NEW c \in Clients, NEW reqs \in Chunks, NEW frags \in 0..MaxChunk,
             Readable(c, reqs, frags)
      PROVE  ThreadInv'
  <2>1. active' = c /\ pc' \in {"drop", "feed"} /\ conn[c] /\ conn' = conn
    BY <1>7 DEF Readable
  <2> QED BY <1>2, <2>1
<1>8. CASE FeedReturns \/ DropClient
  BY <1>2, <1>8 DEF FeedReturns, DropClient, Wait
<1>9. CASE FeedThrows
  BY <1>2, <1>9 DEF FeedThrows, Enter
<1>10. CASE Answered \/ HandleSetup
  <2>1. pc = "feed" /\ UNCHANGED <<pc, active, conn>>
    BY <1>10, SetUpFacts DEF Answered, Answer, SetUp, Feeding
  <2> QED BY <1>1, <1>2, <2>1
<1>11. ASSUME NEW where \in DOMAIN HubCall, Entered(where) PROVE ThreadInv'
  <2>1. pc = "feed" /\ pc' = where /\ UNCHANGED <<active, conn>>
    BY <1>11 DEF Entered, Handling, Feeding, Enter
  <2> QED BY <1>1, <1>2, <2>1
<1>12. CASE pc \in DOMAIN HubCall /\ \E x \in Sessions : Left(x)
  <2>1. pc' \in {"drop", "feed"} /\ UNCHANGED <<active, conn>>
    BY <1>12 DEF Left, Leave
  <2> QED BY <1>1, <1>2, <1>12, <2>1
<1>13. CASE Shutdown \/ Stopped \/ UNCHANGED vars
  BY <1>1, <1>2, <1>13 DEF Shutdown, Stopped, vars
<1> QED BY <1>4, <1>5, <1>6, <1>7, <1>8, <1>9, <1>10, <1>11, <1>12, <1>13, StepCases

\* Only TEARDOWN closes a session that is in the table, and then it is dropped.
LEMMA ClosedStep ==
  ASSUME SessionInv, [Next]_vars
  PROVE  ClosedInv'
<1> USE DEF table, exchange
<1>1. \A c \in Clients : sess[c].state_ = "CLOSED" => ~conn[c] \/ (active = c /\ pc = "drop")
  BY DEF SessionInv, ClosedInv
<1>2. sess \in [Clients -> Sessions]
  BY DEF SessionInv, TypeOK, TableType
<1>3. SUFFICES ASSUME NEW d \in Clients, sess'[d].state_ = "CLOSED", conn'[d]
               PROVE  active' = d /\ pc' = "drop"
  BY DEF ClosedInv
<1>4. ASSUME UNCHANGED <<sess, conn, active>>, pc # "drop" PROVE active' = d /\ pc' = "drop"
  BY <1>1, <1>3, <1>4
<1>5. ASSUME NEW c \in Clients, Accept(c) PROVE active' = d /\ pc' = "drop"
  <2>1. NewSession.state_ # "CLOSED" /\ sess' = [sess EXCEPT ![c] = NewSession]
    BY <1>5 DEF NewSession, Accept
  <2>2. d # c
    BY <1>2, <1>3, <2>1
  <2>3. sess[d].state_ = "CLOSED" /\ conn[d]
    <3>1. sess'[d] = sess[d]
      BY <1>2, <2>1, <2>2
    <3>2. conn'[d] = conn[d]
      BY <1>5, <2>2 DEF Accept, SessionInv, TypeOK, TableType
    <3> QED BY <1>3, <3>1, <3>2
  <2> QED BY <1>1, <1>5, <2>3 DEF Accept
<1>6. ASSUME NEW c \in Clients, HangUp(c) PROVE active' = d /\ pc' = "drop"
  BY <1>4, <1>6, <1>1, <1>3 DEF HangUp
<1>7. ASSUME NEW c \in Clients, Erase(c), pc \in {"drop", "clear"},
             pc = "drop" => active = c
      PROVE  active' = d /\ pc' = "drop"
  <2>1. d # c
    BY <1>3, <1>7 DEF Erase, SessionInv, TypeOK, TableType
  <2>2. sess'[d] = sess[d]
    BY <1>2, <1>7, <2>1 DEF Erase
  <2>3. conn'[d] = conn[d]
    BY <1>7, <2>1 DEF Erase, SessionInv, TypeOK, TableType
  <2> QED BY <1>1, <1>3, <1>7, <2>1, <2>2, <2>3
<1>8. ASSUME NEW c \in Clients, ClearClient(c) PROVE active' = d /\ pc' = "drop"
  BY <1>7, <1>8 DEF ClearClient
<1>9. CASE DropClient
  <2>1. active \in Clients
    BY <1>9 DEF DropClient, SessionInv, ThreadInv, Serving
  <2> QED BY <1>7, <1>9, <2>1 DEF DropClient
<1>10. ASSUME NEW c \in Clients, NEW reqs \in Chunks, NEW frags \in 0..MaxChunk,
              Readable(c, reqs, frags)
       PROVE  active' = d /\ pc' = "drop"
  <2>1. conn' = conn /\ pc = "wait"
    BY <1>10 DEF Readable
  <2>2. sess'[d].state_ = sess[d].state_
    <3>1. \E n : sess' = sess \/ sess' = [sess EXCEPT ![c].rx_buffer_ = n]
      BY <1>10 DEF Readable
    <3> QED BY <1>2, <3>1 DEF Sessions
  <2> QED BY <1>1, <1>3, <2>1, <2>2
<1>11. CASE FeedReturns \/ FeedThrows \/ Shutdown \/ Stopped
  <2>1. UNCHANGED <<sess, conn>> /\ pc # "drop"
    BY <1>11 DEF FeedReturns, FeedThrows, Feeding, Enter, Shutdown, Stopped
  <2> QED BY <1>1, <1>3, <2>1
<1>12. CASE Answered \/ \E where \in DOMAIN HubCall : Entered(where)
  <2>1. UNCHANGED <<sess, conn, active>> /\ pc # "drop"
    BY <1>12 DEF Answered, Answer, Entered, Handling, Feeding, Enter
  <2> QED BY <1>4, <2>1
<1>13. CASE HandleSetup
  <2>1. PICK x \in Sessions :
          /\ sess' = [sess EXCEPT ![active] = x]
          /\ x.state_ = "READY" \/ x.state_ = S.state_
          /\ UNCHANGED <<conn, active, pc>>
    BY <1>13, SetUpFacts DEF SetUp
  <2>2. pc # "drop" /\ S.state_ # "CLOSED"
    BY <1>13, SetUpFacts, FeedingFacts DEF Feeding
  <2>3. d # active /\ sess'[d] = sess[d]
    BY <1>2, <1>3, <2>1, <2>2
  <2> QED BY <1>1, <1>3, <2>1, <2>2, <2>3
<1>14. CASE pc \in DOMAIN HubCall /\ \E x \in Sessions : Left(x)
  <2>1. PICK x \in Sessions :
          /\ sess' = [sess EXCEPT ![active] = x]
          /\ x.state_ = "CLOSED" => pc = "teardown"
          /\ UNCHANGED <<conn, active>>
          /\ pc = "teardown" => pc' = "drop"
    BY <1>14 DEF Left, Leave
  <2>2. pc # "drop"
    BY <1>14 DEF HubCall
  <2>3. CASE d = active
    BY <1>2, <1>3, <2>1, <2>3
  <2>4. CASE d # active
    <3>1. sess'[d] = sess[d]
      BY <1>2, <2>1, <2>4
    <3> QED BY <1>1, <1>3, <2>1, <2>2, <3>1
  <2> QED BY <2>3, <2>4
<1>15. CASE UNCHANGED vars
  BY <1>1, <1>3, <1>15 DEF vars
<1> QED BY <1>5, <1>6, <1>8, <1>9, <1>10, <1>11, <1>12, <1>13, <1>14, <1>15, StepCases

\* A handler goes to the hub with the request it took, in the state it looked at.
LEMMA HubStep ==
  ASSUME SessionInv, [Next]_vars
  PROVE  HubInv'
<1> USE DEF table, exchange
<1>1. DOMAIN HubCall = {"describe", "play", "pause", "teardown"}
  BY DEF HubCall
<1>2. ASSUME pc' \notin DOMAIN HubCall PROVE HubInv'
  BY <1>1, <1>2 DEF HubInv
<1>3. CASE \E c \in Clients : Accept(c) \/ HangUp(c) \/ ClearClient(c)
  BY <1>1, <1>2, <1>3 DEF Accept, HangUp, ClearClient
<1>4. CASE \E c \in Clients, reqs \in Chunks, frags \in 0..MaxChunk : Readable(c, reqs, frags)
  BY <1>1, <1>2, <1>4 DEF Readable
<1>5. CASE FeedReturns \/ DropClient \/ FeedThrows \/ Shutdown \/ Stopped
  BY <1>1, <1>2, <1>5 DEF FeedReturns, DropClient, Wait, FeedThrows, Enter, Shutdown, Stopped
<1>6. CASE Answered \/ HandleSetup
  BY <1>1, <1>2, <1>6, SetUpFacts DEF Answered, Answer, SetUp, Feeding
<1>7. ASSUME NEW where \in DOMAIN HubCall, Entered(where) PROVE HubInv'
  <2>1. /\ Feeding /\ Req.method = HubCall[where]
        /\ method_allowed(S.state_, Req.method)
        /\ pc' = where /\ UNCHANGED <<sess, active>>
        /\ queue' = Rest /\ cur' = Head(queue)
        /\ sent' = IF where = "play" THEN <<Reply(Req, 200)>> ELSE <<>>
    BY <1>7 DEF Entered, Handling, Enter, Take
  <2>2. cur' # None /\ Cur' = Req
    BY <2>1, TakeFacts
  <2>3. (Reply(Cur, 200))' = Reply(Req, 200)
    BY <2>2 DEF Reply
  <2>4. S' = S
    BY <2>1 DEF S
  <2>5. CASE where = "describe"
    BY <2>1, <2>2, <2>5 DEF HubInv
  <2>6. CASE where = "play"
    <3>1. S.state_ = "READY"
      BY <2>1, <2>6 DEF HubCall, method_allowed
    <3> QED BY <2>1, <2>2, <2>3, <2>4, <2>6, <3>1 DEF HubInv
  <2>7. CASE where = "pause"
    <3>1. S.state_ = "PLAYING"
      BY <2>1, <2>7 DEF HubCall, method_allowed
    <3> QED BY <2>1, <2>2, <2>4, <2>7, <3>1 DEF HubInv
  <2>8. CASE where = "teardown"
    <3>1. S.state_ \in {"READY", "PLAYING"}
      BY <2>1, <2>8 DEF HubCall, method_allowed
    <3> QED BY <2>1, <2>2, <2>4, <2>8, <3>1 DEF HubInv
  <2> QED BY <1>1, <2>5, <2>6, <2>7, <2>8
<1>8. CASE pc \in DOMAIN HubCall /\ \E x \in Sessions : Left(x)
  <2>1. pc' \in {"drop", "feed"}
    BY <1>8 DEF Left, Leave
  <2> QED BY <1>1, <1>2, <2>1
<1>9. CASE UNCHANGED vars
  BY <1>9 DEF vars, SessionInv, HubInv, S, Cur, Reply
<1> QED BY <1>3, <1>4, <1>5, <1>6, <1>7, <1>8, <1>9, StepCases

\* Whichever way a request is dealt with, it gets its one answer.
LEMMA AnswerStep ==
  ASSUME SessionInv, [Next]_vars
  PROVE  AnswerInv'
<1> USE DEF table, exchange
<1>1. DOMAIN HubCall = {"describe", "play", "pause", "teardown"}
  BY DEF HubCall
<1>2. pc \in {"wait", "clear"} => cur = None /\ sent = <<>>
  BY <1>1 DEF SessionInv, ThreadInv, Serving
<1>3. ASSUME cur' = None, sent' = <<>> PROVE AnswerInv'
  BY <1>3 DEF AnswerInv
<1>4. CASE \E c \in Clients : Accept(c) \/ HangUp(c) \/ ClearClient(c)
  BY <1>2, <1>3, <1>4 DEF Accept, HangUp, ClearClient
<1>5. CASE \E c \in Clients, reqs \in Chunks, frags \in 0..MaxChunk : Readable(c, reqs, frags)
  BY <1>2, <1>3, <1>5 DEF Readable
<1>6. CASE FeedReturns \/ DropClient
  BY <1>3, <1>6 DEF FeedReturns, DropClient, Wait
<1>7. CASE Shutdown \/ Stopped
  BY <1>2, <1>3, <1>7 DEF Shutdown, Stopped
<1>8. CASE FeedThrows
  <2>1. /\ Feeding /\ queue' = Rest /\ cur' = Head(queue) /\ pc' = "crashed"
    BY <1>8 DEF FeedThrows, Enter, Take
  <2>2. cur' # None
    BY <2>1, TakeFacts
  <2> QED BY <2>1, <2>2 DEF AnswerInv
<1>9. ASSUME NEW code \in Nat, Feeding, queue' = Rest, cur' = Head(queue),
             sent' = <<Reply(Req, code)>>, Req.method # "BADNUMBER"
      PROVE  AnswerInv'
  <2>1. cur' # None /\ Cur' = Req
    BY <1>9, TakeFacts
  <2>2. (Reply(Cur, code))' = Reply(Req, code)
    BY <2>1 DEF Reply
  <2> QED BY <1>9, <2>1, <2>2 DEF AnswerInv
<1>10. CASE Answered
  BY <1>9, <1>10 DEF Answered, Answer, Take
<1>11. CASE HandleSetup
  <2>1. PICK code \in {200, 461} :
          /\ queue' = Rest /\ cur' = Head(queue) /\ sent' = <<Reply(Req, code)>>
    BY <1>11, SetUpFacts DEF SetUp, Take
  <2>2. Feeding /\ code \in Nat /\ Req.method # "BADNUMBER"
    BY <1>11, SetUpFacts
  <2> QED BY <1>9, <2>1, <2>2
<1>12. ASSUME NEW where \in DOMAIN HubCall, Entered(where) PROVE AnswerInv'
  <2>1. /\ Feeding /\ queue' = Rest /\ cur' = Head(queue) /\ pc' = where
    BY <1>12 DEF Entered, Handling, Enter, Take
  <2>2. cur' # None
    BY <2>1, TakeFacts
  <2> QED BY <1>1, <2>1, <2>2 DEF AnswerInv
<1>13. CASE pc \in DOMAIN HubCall /\ \E x \in Sessions : Left(x)
  <2>1. cur' = cur /\ sent' = <<Reply(Cur, 200)>>
    BY <1>13 DEF Left, Leave
  <2>2. cur # None /\ Cur.method # "BADNUMBER"
    BY <1>13, HubFacts DEF HubCall
  <2>3. Cur' = Cur /\ (Reply(Cur, 200))' = Reply(Cur, 200)
    BY <2>1 DEF Cur, Reply
  <2> QED BY <2>1, <2>2, <2>3 DEF AnswerInv
<1>14. CASE UNCHANGED vars
  BY <1>14 DEF vars, SessionInv, AnswerInv, Cur, Reply
<1> QED BY <1>4, <1>5, <1>6, <1>7, <1>8, <1>10, <1>11, <1>12, <1>13, <1>14, StepCases

\* How a session changes in a step: into one of its own kind.
LEMMA SessionChange ==
  ASSUME SessionInv, [Next]_vars, NEW d \in Clients
  PROVE  \/ /\ sess'[d].state_ = sess[d].state_
            /\ sess'[d].streamer_ = sess[d].streamer_
            /\ sess'[d].session_id_ = sess[d].session_id_
            /\ negotiated'[d] = negotiated[d]
         \/ conn'[d] /\ sess'[d] = NewSession
         \/ sess'[d] = NoSession
         \/ /\ sess'[d].state_ = "READY" /\ sess[d].state_ \in {"INIT", "READY"}
            /\ sess'[d].streamer_ = sess[d].streamer_
            /\ sess'[d].session_id_ \in SessionIds /\ negotiated'[d] # None
         \/ /\ sess'[d].streamer_ # None <=> sess'[d].state_ = "PLAYING"
            /\ sess'[d].state_ \in {"READY", "PLAYING"} =>
                 sess[d].state_ \in {"READY", "PLAYING"}
            /\ sess'[d].session_id_ = sess[d].session_id_
            /\ negotiated'[d] = negotiated[d]
<1> USE DEF table, exchange
<1>1. sess \in [Clients -> Sessions]
  BY DEF SessionInv, TypeOK, TableType
<1>2. CASE sess'[d] = sess[d] /\ negotiated'[d] = negotiated[d]
  BY <1>2
<1>3. ASSUME NEW c \in Clients, Accept(c)
      PROVE  \/ conn'[d] /\ sess'[d] = NewSession
             \/ sess'[d] = sess[d] /\ negotiated'[d] = negotiated[d]
  <2>1. CASE d = c
    <3>1. conn'[d]
      BY <1>3, <2>1 DEF Accept, SessionInv, TypeOK, TableType
    <3>2. sess'[d] = NewSession
      BY <1>1, <1>3, <2>1 DEF Accept
    <3> QED BY <3>1, <3>2
  <2>2. CASE d # c
    BY <1>1, <1>3, <2>2 DEF Accept
  <2> QED BY <2>1, <2>2
<1>4. ASSUME NEW c \in Clients, Erase(c)
      PROVE  \/ sess'[d] = NoSession
             \/ sess'[d] = sess[d] /\ negotiated'[d] = negotiated[d]
  <2>1. negotiated \in [Clients -> (1..MaxPort) \union {None}]
    BY DEF SessionInv, TypeOK, TableType
  <2>2. CASE d = c
    BY <1>1, <1>4, <2>2 DEF Erase
  <2>3. CASE d # c
    BY <1>1, <1>4, <2>1, <2>3 DEF Erase
  <2> QED BY <2>2, <2>3
<1>5. CASE \E c \in Clients : ClearClient(c)
  BY <1>2, <1>4, <1>5 DEF ClearClient
<1>6. CASE DropClient
  <2>1. active \in Clients
    BY <1>6 DEF DropClient, SessionInv, ThreadInv, Serving
  <2> QED BY <1>2, <1>4, <1>6, <2>1 DEF DropClient
<1>7. ASSUME NEW c \in Clients, NEW reqs \in Chunks, NEW frags \in 0..MaxChunk,
             Readable(c, reqs, frags)
      PROVE  /\ sess'[d].state_ = sess[d].state_
             /\ sess'[d].streamer_ = sess[d].streamer_
             /\ sess'[d].session_id_ = sess[d].session_id_
             /\ negotiated'[d] = negotiated[d]
  <2>1. negotiated' = negotiated
    BY <1>7 DEF Readable
  <2>2. \E n : sess' = sess \/ sess' = [sess EXCEPT ![c].rx_buffer_ = n]
    BY <1>7 DEF Readable
  <2> QED BY <1>1, <2>1, <2>2 DEF Sessions
<1>8. CASE (\E c \in Clients : HangUp(c)) \/ FeedReturns \/ FeedThrows \/ Answered
           \/ (\E where \in DOMAIN HubCall : Entered(where)) \/ Shutdown \/ Stopped
  <2>1. sess' = sess /\ negotiated' = negotiated
    BY <1>8 DEF HangUp, FeedReturns, FeedThrows, Answered, Answer, Entered, Enter,
                Shutdown, Stopped
  <2> QED BY <1>2, <2>1
<1>9. CASE HandleSetup
  <2>1. S.state_ \in {"INIT", "READY"} /\ sess[active] = S
    BY <1>9, SetUpFacts DEF S
  <2>2. PICK x \in Sessions, code \in {200, 461},
             told \in [Clients -> (1..MaxPort) \union {None}] :
          /\ SetUp(x, code, told)
          /\ \A c \in Clients \ {active} : told[c] = negotiated[c]
    BY <1>9, SetUpFacts
  <2>3. CASE d # active
    BY <1>1, <1>2, <2>2, <2>3 DEF SetUp
  <2>4. CASE d = active
    <3>1. sess'[d] = x /\ negotiated'[d] = told[d]
      BY <1>1, <2>2, <2>4 DEF SetUp
    <3> QED BY <2>1, <2>2, <2>4, <3>1 DEF SetUp
  <2> QED BY <2>3, <2>4
<1>10. CASE pc \in DOMAIN HubCall /\ \E x \in Sessions : Left(x)
  <2>1. PICK x \in Sessions : Left(x)
    BY <1>10
  <2>2. sess' = [sess EXCEPT ![active] = x] /\ negotiated' = negotiated
    BY <2>1 DEF Left, Leave
  <2>3. CASE d # active
    BY <1>1, <1>2, <2>2, <2>3
  <2>4. CASE d = active
    <3>1. sess'[d] = x /\ sess[d] = S
      BY <1>1, <2>2, <2>4 DEF S
    <3> QED BY <2>1, <2>2, <3>1 DEF Left
  <2> QED BY <2>3, <2>4
<1>11. CASE UNCHANGED vars
  BY <1>2, <1>11 DEF vars
<1> QED BY <1>2, <1>3, <1>5, <1>6, <1>7, <1>8, <1>9, <1>10, <1>11, StepCases

\* A session has a streamer exactly while it is PLAYING.
LEMMA StreamerStep ==
  ASSUME SessionInv, [Next]_vars
  PROVE  StreamerInv'
<1> SUFFICES ASSUME NEW d \in Clients
             PROVE  sess'[d].streamer_ # None <=> sess'[d].state_ = "PLAYING"
  BY DEF StreamerInv
<1>1. sess[d].streamer_ # None <=> sess[d].state_ = "PLAYING"
  BY DEF SessionInv, StreamerInv
<1>2. /\ NewSession.streamer_ = None /\ NewSession.state_ = "INIT"
      /\ NoSession.streamer_ = None /\ NoSession.state_ = "CLOSED"
  BY DEF NewSession, NoSession
<1> QED BY <1>1, <1>2, SessionChange

\* What may stream was set up; who is not in the table is closed.
LEMMA SetUpStep ==
  ASSUME SessionInv, [Next]_vars
  PROVE  SetUpBeforePlay'
<1> SUFFICES ASSUME NEW d \in Clients
             PROVE  /\ sess'[d].state_ \in {"READY", "PLAYING"} =>
                         sess'[d].session_id_ # None /\ negotiated'[d] # None
                    /\ ~conn'[d] => sess'[d].state_ = "CLOSED"
  BY DEF SetUpBeforePlay
<1>1. NewSession.state_ = "INIT" /\ NoSession.state_ = "CLOSED"
  BY DEF NewSession, NoSession
<1>2. sess'[d].state_ \in {"READY", "PLAYING"} =>
        sess'[d].session_id_ # None /\ negotiated'[d] # None
  <2>1. sess[d].state_ \in {"READY", "PLAYING"} =>
          sess[d].session_id_ # None /\ negotiated[d] # None
    BY DEF SessionInv, SetUpBeforePlay
  <2>2. None \notin SessionIds
    BY SessionAssumption
  <2> QED BY <1>1, <2>1, <2>2, SessionChange
<1>3. ~conn'[d] => sess'[d].state_ = "CLOSED"
  <2>1. ~conn[d] => sess[d].state_ = "CLOSED"
    BY DEF SessionInv, SetUpBeforePlay
  <2>2. conn \in [Clients -> BOOLEAN] /\ sess \in [Clients -> Sessions]
    BY DEF SessionInv, TypeOK, TableType
  <2> USE DEF table, exchange
  <2>3. ASSUME NEW c \in Clients, Accept(c) PROVE ~conn'[d] => sess'[d].state_ = "CLOSED"
    BY <2>1, <2>2, <2>3 DEF Accept
  <2>4. ASSUME NEW c \in Clients, Erase(c) PROVE ~conn'[d] => sess'[d].state_ = "CLOSED"
    BY <1>1, <2>1, <2>2, <2>4 DEF Erase
  <2>5. CASE \E c \in Clients : ClearClient(c)
    BY <2>4, <2>5 DEF ClearClient
  <2>6. CASE DropClient
    <3>1. active \in Clients
      BY <2>6 DEF DropClient, SessionInv, ThreadInv, Serving
    <3> QED BY <2>4, <2>6, <3>1 DEF DropClient
  <2>7. ASSUME conn' = conn, conn[d] \/ sess'[d].state_ = sess[d].state_
        PROVE  ~conn'[d] => sess'[d].state_ = "CLOSED"
    BY <2>1, <2>7
  <2>8. ASSUME NEW c \in Clients, NEW reqs \in Chunks, NEW frags \in 0..MaxChunk,
               Readable(c, reqs, frags)
        PROVE  ~conn'[d] => sess'[d].state_ = "CLOSED"
    <3>1. conn' = conn
      BY <2>8 DEF Readable
    <3>2. \E n : sess' = sess \/ sess' = [sess EXCEPT ![c].rx_buffer_ = n]
      BY <2>8 DEF Readable
    <3>3. sess'[d].state_ = sess[d].state_
      BY <2>2, <3>2 DEF Sessions
    <3> QED BY <2>7, <3>1, <3>3
  <2>9. CASE (\E c \in Clients : HangUp(c)) \/ FeedReturns \/ FeedThrows \/ Answered
             \/ (\E where \in DOMAIN HubCall : Entered(where)) \/ Shutdown \/ Stopped
    <3>1. sess' = sess /\ conn' = conn
      BY <2>9 DEF HangUp, FeedReturns, FeedThrows, Answered, Answer, Entered, Enter,
                  Shutdown, Stopped
    <3> QED BY <2>7, <3>1
  <2>10. ASSUME NEW x, sess' = [sess EXCEPT ![active] = x], conn' = conn, conn[active]
         PROVE  ~conn'[d] => sess'[d].state_ = "CLOSED"
    <3>1. CASE d = active
      BY <2>7, <2>10, <3>1
    <3>2. CASE d # active
      <4>1. sess'[d] = sess[d]
        BY <2>2, <2>10, <3>2
      <4> QED BY <2>7, <2>10, <4>1
    <3> QED BY <3>1, <3>2
  <2>11. CASE HandleSetup
    BY <2>10, <2>11, SetUpFacts, FeedingFacts DEF SetUp
  <2>12. CASE pc \in DOMAIN HubCall /\ \E x \in Sessions : Left(x)
    BY <2>10, <2>12, HubFacts DEF Left, Leave
  <2>13. CASE UNCHANGED vars
    BY <2>7, <2>13 DEF vars
  <2> QED BY <2>3, <2>5, <2>6, <2>8, <2>9, <2>11, <2>12, <2>13, StepCases
<1> QED BY <1>2, <1>3

------------------------------------------------------------------------------
(* Theorems                                                                *)

\* The server starts in the invariant, with nobody connected.
LEMMA InitInv == Init => SessionInv
<1> SUFFICES ASSUME Init PROVE SessionInv
  OBVIOUS
<1> USE DEF Init
<1>1. NoSession \in Sessions
  <2>1. "CLOSED" \in States /\ None \in Ids /\ None \in Streamers /\ 0 \in Nat /\ 0 \in Int
    BY DEF States, Ids, Streamers
  <2>2. 0 \in Buffers
    BY SessionAssumption DEF Buffers
  <2>3. NoSession = [state_ |-> "CLOSED", session_id_ |-> None, client_rtp_port_ |-> 0,
                     client_rtcp_port_ |-> 0, streamer_ |-> None, rx_buffer_ |-> 0]
    BY DEF NoSession, NewSession
  <2> QED BY <2>1, <2>2, <2>3 DEF Sessions
<1>2. TableType
  BY <1>1 DEF TableType
<1>3. ThreadType
  BY DEF ThreadType
<1>4. NoSession.state_ = "CLOSED" /\ NoSession.streamer_ = None
  BY DEF NoSession, NewSession
<1>5. ThreadInv /\ HubInv /\ AnswerInv
  BY DEF ThreadInv, Serving, HubCall, HubInv, AnswerInv
<1>6. ClosedInv /\ StreamerInv /\ SetUpBeforePlay
  <2>1. \A c \in Clients : sess[c] = NoSession
    OBVIOUS
  <2>2. \A c \in Clients : ~conn[c]
    OBVIOUS
  <2> QED BY <1>4, <2>1, <2>2 DEF ClosedInv, StreamerInv, SetUpBeforePlay
<1> QED BY <1>2, <1>3, <1>5, <1>6 DEF SessionInv, TypeOK

\* The inductive invariant of the sessions and the thread that serves them.
THEOREM SessionInvariant == Spec => []SessionInv
<1>1. SessionInv /\ [Next]_vars => SessionInv'
  <2> SUFFICES ASSUME SessionInv, [Next]_vars PROVE SessionInv'
    OBVIOUS
  <2>1. TypeOK'
    BY TableTypeStep, ThreadTypeStep DEF TypeOK
  <2>2. ThreadInv' /\ ClosedInv' /\ HubInv' /\ AnswerInv'
    BY ThreadStep, ClosedStep, HubStep, AnswerStep
  <2>3. StreamerInv' /\ SetUpBeforePlay'
    BY StreamerStep, SetUpStep
  <2> QED BY <2>1, <2>2, <2>3 DEF SessionInv
<1> QED BY <1>1, InitInv, PTL DEF Spec

\* Every variable keeps its type: ports, ids and buffers, and answers only of
\* requests that were parsed.
THEOREM TypeCorrect == Spec => []TypeOK
<1>1. SessionInv => TypeOK
  BY DEF SessionInv
<1> QED BY <1>1, SessionInvariant, PTL

\* Whoever sends the answer, feed() or the handler, each request gets one, with
\* a CSeq the client wrote.
THEOREM OneAnswer == Spec => []OneAnswerPerRequest
<1>1. SessionInv => OneAnswerPerRequest
  <2> SUFFICES ASSUME SessionInv, pc \in {"feed", "drop"}, cur # None
               PROVE  /\ Len(sent) = 1
                      /\ IF cur.line # "ok" \/ WrittenCSeqs(cur) = {}
                           THEN sent[1].cseq = 0 ELSE sent[1].cseq \in WrittenCSeqs(cur)
    BY DEF OneAnswerPerRequest
  <2>1. Cur.method # "BADNUMBER" /\ \E code \in Nat : sent = <<Reply(Cur, code)>>
    BY DEF SessionInv, AnswerInv
  <2>2. cur \in Requests /\ Cur = Parsed[cur]
    BY CurFacts
  <2>3. Len(sent) = 1 /\ sent[1].cseq = Cur.cseq
    BY <2>1 DEF Reply
  <2>4. IF cur.line # "ok" \/ WrittenCSeqs(cur) = {}
          THEN Cur.cseq = 0 ELSE Cur.cseq \in WrittenCSeqs(cur)
    BY <2>1, <2>2, ParseFacts
  <2> QED BY <2>3, <2>4
<1> QED BY <1>1, SessionInvariant, PTL

\* handle_play gives a PLAYING session its streamer, and stop_streaming leaves
\* none to a session that is torn down.
THEOREM StreamerFollowsState == Spec => []StreamerMatchesState
<1>1. SessionInv => StreamerMatchesState
  BY DEF SessionInv, StreamerInv, StreamerMatchesState
<1> QED BY <1>1, SessionInvariant, PTL

\* PLAY streams to a client that SETUP told an id and a port.
THEOREM PlayNeedsSetUp == Spec => []SetUpBeforePlay
<1>1. SessionInv => SetUpBeforePlay
  BY DEF SessionInv
<1> QED BY <1>1, SessionInvariant, PTL

\* Once TEARDOWN has closed the session, feed() looks at nothing more.
THEOREM TeardownIsLast == Spec => NothingAfterTeardown
<1> DEFINE A == \A c \in Clients :
                  (conn[c] /\ sess[c].state_ = "CLOSED") =>
                     active = c /\ ~conn'[c] /\ sent' = <<>>
<1>1. ASSUME SessionInv, [Next]_vars PROVE A \/ UNCHANGED vars
  <2>1. SUFFICES ASSUME NEW c \in Clients, conn[c], sess[c].state_ = "CLOSED",
                        ~UNCHANGED vars
                 PROVE  active = c /\ ~conn'[c] /\ sent' = <<>>
    OBVIOUS
  <2>2. active = c /\ pc = "drop"
    BY <1>1, <2>1 DEF SessionInv, ClosedInv
  <2>3. DropClient
    BY <1>1, <2>1, <2>2, StepCases
       DEF Accept, HangUp, ClearClient, Readable, FeedReturns, FeedThrows, Feeding,
           Answered, Entered, Handling, HandleSetup, HubCall, Shutdown, Stopped
  <2> QED BY <1>1, <2>2, <2>3 DEF DropClient, Erase, Wait, SessionInv, TypeOK, TableType
<1>2. SessionInv /\ [Next]_vars => [A]_vars
  BY <1>1
<1> QED BY <1>2, SessionInvariant, PTL DEF Spec, NothingAfterTeardown

------------------------------------------------------------------------------
(* The refinement of RtspStateMachine                                      *)

\* What the state machine sees.
StateOf == [c \in Clients |-> sess[c].state_]
AnswerOf == [c \in Clients |-> LastAnswer(c)]

\* The states let through what the table of the state machine allows.
LEMMA AllowedFacts ==
  ASSUME NEW state \in {"INIT", "READY", "PLAYING"}, NEW m \in Methods \ {"UNKNOWN"}
  PROVE  method_allowed(state, m) <=> m \in Machine!Allowed(state)
BY DEF method_allowed, Machine!Allowed, Methods

\* A client that is not being answered is quiet.
LEMMA QuietFacts ==
  ASSUME NEW c \in Clients
  PROVE  /\ c # active \/ cur = None \/ sent = <<>> => LastAnswer(c) = None
         /\ c # active' \/ cur' = None \/ sent' = <<>> => LastAnswer(c)' = None
BY DEF LastAnswer

\* An answer to the client being served is an exchange of the state machine.
LEMMA ExchangeStep ==
  ASSUME SessionInv, active \in Clients, active' = active,
         NEW m \in Machine!Methods, NEW code, code \in Machine!Codes(S.state_, m),
         S.state_ # "CLOSED", cur' # None, Cur'.method = m,
         sent' # <<>>, sent'[1].code = code,
         \A c \in Clients \ {active} : sess'[c].state_ = sess[c].state_,
         sess'[active].state_ = Machine!After(S.state_, m, code)
  PROVE  Machine!Next
<1>1. StateOf[active] = S.state_
  BY DEF StateOf, S
<1>2. LastAnswer(active)' = [method |-> m, code |-> code]
  BY DEF LastAnswer
<1>3. \A c \in Clients \ {active} : LastAnswer(c)' = None /\ LastAnswer(c) = None
  BY QuietFacts
<1>4. AnswerOf' = [AnswerOf EXCEPT ![active] = [method |-> m, code |-> code]]
  BY <1>2, <1>3 DEF AnswerOf
<1>5. StateOf' = [StateOf EXCEPT ![active] = Machine!After(@, m, code)]
  BY <1>1 DEF StateOf
<1>6. Machine!Exchange(active, m)
  BY <1>1, <1>4, <1>5 DEF Machine!Exchange, StateOf, AnswerOf
<1> QED BY <1>6 DEF Machine!Next

\* The next request is being worked on.
LEMMA AwaitStep ==
  ASSUME SessionInv, active \in Clients, cur' = None \/ sent' = <<>>,
         \A c \in Clients : sess'[c].state_ = sess[c].state_
  PROVE  Machine!Next
<1>1. \A c \in Clients : LastAnswer(c)' = None
  BY QuietFacts
<1>2. \A c \in Clients \ {active} : LastAnswer(c) = None
  BY QuietFacts
<1>3. AnswerOf' = [AnswerOf EXCEPT ![active] = None]
  BY <1>1, <1>2 DEF AnswerOf
<1>4. StateOf' = StateOf
  BY DEF StateOf
<1>5. Machine!Await(active)
  BY <1>3, <1>4 DEF Machine!Await, StateOf, AnswerOf
<1> QED BY <1>5 DEF Machine!Next

\* Nothing the state machine sees has changed.
LEMMA HiddenStep ==
  ASSUME \A c \in Clients : sess'[c].state_ = sess[c].state_,
         \A c \in Clients : LastAnswer(c)' = LastAnswer(c)
  PROVE  UNCHANGED Machine!vars
BY DEF Machine!vars

\* The end of a connection.
LEMMA CloseStep ==
  ASSUME SessionInv, NEW d \in Clients, Erase(d), cur' = None,
         d = active \/ cur = None
  PROVE  Machine!Next
<1>1. sess \in [Clients -> Sessions]
  BY DEF SessionInv, TypeOK, TableType
<1>2. sess' = [sess EXCEPT ![d] = NoSession] /\ NoSession.state_ = "CLOSED"
  BY DEF Erase, NoSession, NewSession
<1>3. StateOf' = [StateOf EXCEPT ![d] = "CLOSED"]
  <2>1. sess'[d].state_ = "CLOSED" /\ \A c \in Clients \ {d} : sess'[c] = sess[c]
    BY <1>1, <1>2
  <2> QED BY <2>1 DEF StateOf
<1>4. AnswerOf' = [AnswerOf EXCEPT ![d] = None]
  <2>1. \A c \in Clients : LastAnswer(c)' = None
    BY QuietFacts
  <2>2. \A c \in Clients \ {d} : LastAnswer(c) = None
    BY QuietFacts
  <2> QED BY <2>1, <2>2 DEF AnswerOf
<1>5. Machine!Close(d)
  BY <1>3, <1>4 DEF Machine!Close, StateOf, AnswerOf
<1> QED BY <1>5 DEF Machine!Next

\* feed() goes on to the next request with an answer the tables allow.
LEMMA AnswerRefines ==
  ASSUME SessionInv, Feeding, NEW m \in Machine!Methods, Req.method = m,
         NEW code, code \in Machine!Codes(S.state_, m),
         queue' = Rest, cur' = Head(queue), sent' = <<Reply(Req, code)>>,
         active' = active,
         \A c \in Clients \ {active} : sess'[c].state_ = sess[c].state_,
         sess'[active].state_ = Machine!After(S.state_, m, code)
  PROVE  Machine!Next
<1>1. active \in Clients /\ S.state_ # "CLOSED"
  BY FeedingFacts
<1>2. cur' # None /\ Cur'.method = m
  BY TakeFacts
<1>3. sent' # <<>> /\ sent'[1].code = code
  BY DEF Reply
<1> QED BY <1>1, <1>2, <1>3, ExchangeStep

\* The answers that leave the session alone.
LEMMA PlainRefines ==
  ASSUME SessionInv, Feeding, NEW m \in Machine!Methods, Req.method = m,
         NEW code, code \in Machine!Codes(S.state_, m), Answer(code),
         Machine!After(S.state_, m, code) = S.state_
  PROVE  Machine!Next
<1>1. /\ queue' = Rest /\ cur' = Head(queue) /\ sent' = <<Reply(Req, code)>>
      /\ sess' = sess /\ active' = active
  BY DEF Answer, Take, table
<1>2. sess'[active].state_ = Machine!After(S.state_, m, code)
  BY <1>1 DEF S
<1> QED BY <1>1, <1>2, AnswerRefines

\* Each answer that is sent without going to the hub is in the tables.
LEMMA AnsweredRefines ==
  ASSUME SessionInv,
         \/ FeedMalformed \/ HandleUnknown \/ HandleNotAllowed \/ HandleOptions
         \/ HandleSetupNoTransport \/ HandleWrongSession \/ HandlePlayNoSocket
  PROVE  Machine!Next
<1> USE DEF Machine!Methods, Machine!After
<1>1. Feeding => S.state_ \in {"INIT", "READY", "PLAYING"}
  <2>1. Feeding => S.state_ \in States /\ S.state_ # "CLOSED"
    BY FeedingFacts, SessionFields
  <2> QED BY <2>1 DEF States
<1>2. ASSUME NEW m \in Methods \ {"UNKNOWN"}, Handling(m)
      PROVE  Feeding /\ Req.method = m /\ m \in Machine!Allowed(S.state_)
  BY <1>1, <1>2, AllowedFacts DEF Handling
<1>3. CASE FeedMalformed
  <2>1. 400 \in Machine!Codes(S.state_, "MALFORMED")
    BY DEF Machine!Codes
  <2>2. Feeding /\ Req.method = "MALFORMED" /\ Answer(400)
    BY <1>3 DEF FeedMalformed
  <2> QED BY <2>1, <2>2, PlainRefines
<1>4. CASE HandleUnknown
  <2>1. 501 \in Machine!Codes(S.state_, "UNKNOWN")
    BY DEF Machine!Codes
  <2>2. Feeding /\ Req.method = "UNKNOWN" /\ Answer(501)
    BY <1>4 DEF HandleUnknown
  <2> QED BY <2>1, <2>2, PlainRefines
<1>5. CASE HandleNotAllowed
  <2>1. PICK m \in Methods \ {"UNKNOWN"} :
          Feeding /\ Req.method = m /\ ~method_allowed(S.state_, m) /\ Answer(455)
    BY <1>5 DEF HandleNotAllowed
  <2>2. m \notin Machine!Allowed(S.state_) /\ m # "MALFORMED" /\ m \in Machine!Methods
    BY <1>1, <2>1, AllowedFacts DEF Methods
  <2>3. 455 \in Machine!Codes(S.state_, m)
    BY <2>1, <2>2 DEF Machine!Codes
  <2> QED BY <2>1, <2>2, <2>3, PlainRefines
<1>6. CASE HandleOptions
  <2>1. PICK m \in {"OPTIONS", "GET_PARAMETER"} : Handling(m) /\ Answer(200)
    BY <1>6 DEF HandleOptions
  <2>2. Feeding /\ Req.method = m /\ m \in Machine!Allowed(S.state_)
    BY <1>2, <2>1 DEF Methods
  <2>3. 200 \in Machine!Codes(S.state_, m)
    BY <2>1, <2>2 DEF Machine!Codes
  <2> QED BY <2>1, <2>2, <2>3, PlainRefines
<1>7. CASE HandleSetupNoTransport
  <2>1. Handling("SETUP") /\ Answer(400)
    BY <1>7 DEF HandleSetupNoTransport
  <2>2. Feeding /\ Req.method = "SETUP" /\ "SETUP" \in Machine!Allowed(S.state_)
    BY <1>2, <2>1 DEF Methods
  <2>3. 400 \in Machine!Codes(S.state_, "SETUP")
    BY <2>2 DEF Machine!Codes
  <2> QED BY <2>1, <2>2, <2>3, PlainRefines
<1>8. CASE HandleWrongSession
  <2>1. PICK m \in {"PLAY", "PAUSE", "TEARDOWN"} : Handling(m) /\ Answer(454)
    BY <1>8 DEF HandleWrongSession
  <2>2. Feeding /\ Req.method = m /\ m \in Machine!Allowed(S.state_)
    BY <1>2, <2>1 DEF Methods
  <2>3. 454 \in Machine!Codes(S.state_, m)
    BY <2>1, <2>2 DEF Machine!Codes
  <2> QED BY <2>1, <2>2, <2>3, PlainRefines
<1>9. CASE HandlePlayNoSocket
  <2>1. Handling("PLAY") /\ Answer(500)
    BY <1>9 DEF HandlePlayNoSocket
  <2>2. Feeding /\ Req.method = "PLAY" /\ "PLAY" \in Machine!Allowed(S.state_)
    BY <1>2, <2>1 DEF Methods
  <2>3. 500 \in Machine!Codes(S.state_, "PLAY")
    BY <2>2 DEF Machine!Codes
  <2> QED BY <2>1, <2>2, <2>3, PlainRefines
<1> QED BY <1>3, <1>4, <1>5, <1>6, <1>7, <1>8, <1>9

\* SETUP moves the session with 200, and only then.
LEMMA SetUpRefines ==
  ASSUME SessionInv, HandleSetup
  PROVE  Machine!Next
<1>1. Feeding /\ Req.method = "SETUP" /\ S.state_ \in {"INIT", "READY"}
  BY SetUpFacts
<1>2. PICK x \in Sessions, code \in {200, 461} :
        /\ code = 200 => x.state_ = "READY"
        /\ code # 200 => x.state_ = S.state_
        /\ sess' = [sess EXCEPT ![active] = x]
        /\ queue' = Rest /\ cur' = Head(queue) /\ sent' = <<Reply(Req, code)>>
        /\ active' = active
  BY SetUpFacts DEF SetUp, Take
<1>3. sess \in [Clients -> Sessions] /\ active \in Clients
  BY <1>1, FeedingFacts DEF SessionInv, TypeOK, TableType
<1>4. sess'[active] = x /\ \A c \in Clients \ {active} : sess'[c] = sess[c]
  BY <1>2, <1>3
<1>5. x.state_ = Machine!After(S.state_, "SETUP", code)
  BY <1>2 DEF Machine!After
<1>6. code \in Machine!Codes(S.state_, "SETUP") /\ "SETUP" \in Machine!Methods
  BY <1>1, <1>2 DEF Machine!Codes, Machine!Allowed, Machine!Methods
<1> QED BY <1>1, <1>2, <1>4, <1>5, <1>6, AnswerRefines

\* A request that goes to the hub is worked on; PLAY has its answer by then.
LEMMA EnteredRefines ==
  ASSUME SessionInv, NEW where \in DOMAIN HubCall, Entered(where)
  PROVE  Machine!Next
<1>1. /\ Feeding /\ Req.method = HubCall[where] /\ method_allowed(S.state_, Req.method)
      /\ queue' = Rest /\ cur' = Head(queue) /\ sess' = sess /\ active' = active
      /\ sent' = IF where = "play" THEN <<Reply(Req, 200)>> ELSE <<>>
  BY DEF Entered, Handling, Enter, Take, table
<1>2. active \in Clients
  BY <1>1, FeedingFacts
<1>3. CASE where = "play"
  <2>1. Req.method = "PLAY" /\ S.state_ = "READY"
    BY <1>1, <1>3 DEF HubCall, method_allowed
  <2>2. "PLAY" \in Machine!Methods /\ 200 \in Machine!Codes(S.state_, "PLAY")
    BY <2>1 DEF Machine!Methods, Machine!Codes, Machine!Allowed
  <2>3. sess'[active].state_ = Machine!After(S.state_, "PLAY", 200)
    BY <1>1 DEF Machine!After, S
  <2> QED BY <1>1, <1>3, <2>1, <2>2, <2>3, AnswerRefines
<1>4. CASE where # "play"
  BY <1>1, <1>2, <1>4, AwaitStep
<1> QED BY <1>3, <1>4

\* The hub has returned: the answer that is due, or the start of the stream.
LEMMA LeftRefines ==
  ASSUME SessionInv,
         \/ DescribeReturns \/ PlaySubscribed \/ PlayUnavailable
         \/ PauseStopped \/ TeardownStopped
  PROVE  Machine!Next \/ UNCHANGED Machine!vars
<1>1. pc \in DOMAIN HubCall
  BY LeftFacts
<1>2. /\ active \in Clients /\ S.state_ # "CLOSED" /\ cur # None
      /\ Cur.method = HubCall[pc] /\ S \in Sessions
      /\ sent = IF pc = "play" THEN <<Reply(Cur, 200)>> ELSE <<>>
  BY <1>1, HubFacts
<1>3. sess \in [Clients -> Sessions] /\ sess[active] = S
  BY DEF SessionInv, TypeOK, TableType, S
<1>4. ASSUME NEW m \in Machine!Methods, 200 \in Machine!Codes(S.state_, m), Cur.method = m,
             NEW where, Leave(where, <<Reply(Cur, 200)>>),
             \A c \in Clients \ {active} : sess'[c].state_ = sess[c].state_,
             sess'[active].state_ = Machine!After(S.state_, m, 200)
      PROVE  Machine!Next
  <2>1. cur' = cur /\ active' = active /\ sent' = <<Reply(Cur, 200)>>
    BY <1>4 DEF Leave
  <2>2. Cur' = Cur /\ sent' # <<>> /\ sent'[1].code = 200
    BY <2>1 DEF Cur, Reply
  <2> QED BY <1>2, <1>4, <2>1, <2>2, ExchangeStep
<1>5. ASSUME NEW state \in {"READY", "CLOSED"}, sess' = StreamingStopped(state)
      PROVE  /\ sess'[active].state_ = state
             /\ \A c \in Clients \ {active} : sess'[c].state_ = sess[c].state_
  <2>1. sess' = [sess EXCEPT ![active] = [S EXCEPT !.state_ = state, !.streamer_ = None]]
    BY <1>5 DEF StreamingStopped, S
  <2>2. [S EXCEPT !.state_ = state, !.streamer_ = None].state_ = state
    BY <1>2 DEF Sessions
  <2> QED BY <1>2, <1>3, <2>1, <2>2
<1>6. CASE DescribeReturns
  <2>1. Cur.method = "DESCRIBE" /\ Leave("feed", <<Reply(Cur, 200)>>) /\ sess' = sess
    BY <1>2, <1>6 DEF DescribeReturns, HubCall
  <2>2. S.state_ \in {"INIT", "READY", "PLAYING"}
    BY <1>2, SessionFields DEF States
  <2>3. "DESCRIBE" \in Machine!Methods /\ 200 \in Machine!Codes(S.state_, "DESCRIBE")
    BY <2>2 DEF Machine!Methods, Machine!Codes, Machine!Allowed
  <2>4. sess'[active].state_ = Machine!After(S.state_, "DESCRIBE", 200)
    BY <1>3, <2>1 DEF Machine!After
  <2> QED BY <1>4, <2>1, <2>3, <2>4
<1>7. CASE PlaySubscribed
  <2>1. S.state_ = "READY" /\ pc = "play"
    BY <1>7 DEF PlaySubscribed, SessionInv, HubInv
  <2>2. cur' = cur /\ active' = active /\ sent' = sent
    BY <1>7 DEF PlaySubscribed, Leave, PlayReplies
  <2>3. \A c \in Clients : LastAnswer(c)' = LastAnswer(c)
    BY <2>2 DEF LastAnswer, Cur
  <2>4. LastAnswer(active) = [method |-> "PLAY", code |-> 200]
    BY <1>2, <2>1 DEF LastAnswer, HubCall, Reply
  <2> DEFINE x == [S EXCEPT !.streamer_ = Uint16(S.client_rtp_port_), !.state_ = "PLAYING"]
  <2>5. x.state_ = "PLAYING"
    BY <1>2 DEF Sessions
  <2>6. sess' = [sess EXCEPT ![active] = x]
    BY <1>7 DEF PlaySubscribed, S
  <2> HIDE DEF x
  <2>7. StateOf' = [StateOf EXCEPT ![active] = "PLAYING"]
    <3>1. sess'[active].state_ = "PLAYING" /\ \A c \in Clients \ {active} : sess'[c] = sess[c]
      BY <1>2, <1>3, <2>5, <2>6
    <3> QED BY <3>1 DEF StateOf
  <2>8. StateOf[active] = "READY" /\ AnswerOf[active] = [method |-> "PLAY", code |-> 200]
    BY <1>2, <2>1, <2>4 DEF StateOf, AnswerOf, S
  <2>9. AnswerOf' = AnswerOf
    BY <2>3 DEF AnswerOf
  <2>10. PICK c \in Clients : c = active
    BY <1>2
  <2>11. Machine!StartStreaming(c)
    BY <2>7, <2>8, <2>9, <2>10 DEF Machine!StartStreaming, StateOf, AnswerOf
  <2>12. Machine!Next
    BY <2>10, <2>11 DEF Machine!Next
  <2> QED BY <2>12
<1>8. CASE PlayUnavailable
  <2>1. cur' = cur /\ active' = active /\ sent' = sent /\ sess' = sess
    BY <1>8 DEF PlayUnavailable, Leave
  <2>2. \A c \in Clients : LastAnswer(c)' = LastAnswer(c)
    BY <2>1 DEF LastAnswer, Cur
  <2> QED BY <2>1, <2>2, HiddenStep
<1>9. CASE PauseStopped
  <2>1. /\ Cur.method = "PAUSE" /\ Leave("feed", <<Reply(Cur, 200)>>)
        /\ sess' = StreamingStopped("READY") /\ S.state_ = "PLAYING"
    BY <1>2, <1>9 DEF PauseStopped, HubCall, SessionInv, HubInv
  <2>2. "PAUSE" \in Machine!Methods /\ 200 \in Machine!Codes(S.state_, "PAUSE")
    BY <2>1 DEF Machine!Methods, Machine!Codes, Machine!Allowed
  <2>3. Machine!After(S.state_, "PAUSE", 200) = "READY"
    BY DEF Machine!After
  <2> QED BY <1>4, <1>5, <2>1, <2>2, <2>3
<1>10. CASE TeardownStopped
  <2>1. /\ Cur.method = "TEARDOWN" /\ Leave("drop", <<Reply(Cur, 200)>>)
        /\ sess' = StreamingStopped("CLOSED") /\ S.state_ \in {"READY", "PLAYING"}
    BY <1>2, <1>10 DEF TeardownStopped, AfterTeardown, HubCall, SessionInv, HubInv
  <2>2. "TEARDOWN" \in Machine!Methods /\ 200 \in Machine!Codes(S.state_, "TEARDOWN")
    BY <2>1 DEF Machine!Methods, Machine!Codes, Machine!Allowed
  <2>3. Machine!After(S.state_, "TEARDOWN", 200) = "CLOSED"
    BY DEF Machine!After
  <2> QED BY <1>4, <1>5, <2>1, <2>2, <2>3
<1> QED BY <1>6, <1>7, <1>8, <1>9, <1>10

\* What comes from outside, and the end of clients and of the process.
LEMMA EventRefines ==
  ASSUME SessionInv,
         \/ Events \/ FeedReturns \/ FeedThrows \/ DropClient \/ Stopped \/ UNCHANGED vars
         \/ \E c \in Clients : ClearClient(c)
  PROVE  Machine!Next \/ UNCHANGED Machine!vars
<1> USE DEF table, exchange
<1>1. sess \in [Clients -> Sessions]
  BY DEF SessionInv, TypeOK, TableType
<1>2. pc \in {"wait", "clear"} => cur = None /\ sent = <<>>
  BY DEF SessionInv, ThreadInv, Serving, HubCall
<1>3. ASSUME \A c \in Clients : sess'[c].state_ = sess[c].state_, cur = None, cur' = None
      PROVE  UNCHANGED Machine!vars
  BY <1>3, QuietFacts, HiddenStep
<1>4. ASSUME NEW d \in Clients, Accept(d) PROVE Machine!Next
  <2>1. NewSession.state_ = "INIT" /\ sess' = [sess EXCEPT ![d] = NewSession]
    BY <1>4 DEF Accept, NewSession
  <2>2. cur = None /\ cur' = None /\ ~conn[d]
    BY <1>2, <1>4 DEF Accept
  <2>3. StateOf' = [StateOf EXCEPT ![d] = "INIT"]
    <3>1. sess'[d].state_ = "INIT" /\ \A c \in Clients \ {d} : sess'[c] = sess[c]
      BY <1>1, <2>1
    <3> QED BY <3>1 DEF StateOf
  <2>4. StateOf[d] = "CLOSED"
    BY <2>2 DEF StateOf, SessionInv, SetUpBeforePlay
  <2>5. AnswerOf' = AnswerOf
    BY <2>2, QuietFacts DEF AnswerOf
  <2>6. Machine!Open(d)
    BY <2>3, <2>4, <2>5 DEF Machine!Open, StateOf, AnswerOf
  <2> QED BY <2>6 DEF Machine!Next
<1>5. CASE (\E c \in Clients : HangUp(c)) \/ Shutdown \/ Stopped
  BY <1>2, <1>3, <1>5 DEF HangUp, Shutdown, Stopped
<1>6. ASSUME NEW d \in Clients, NEW reqs \in Chunks, NEW frags \in 0..MaxChunk,
             Readable(d, reqs, frags)
      PROVE  UNCHANGED Machine!vars
  <2>1. cur = None /\ cur' = None
    BY <1>2, <1>6 DEF Readable
  <2>2. \E n : sess' = sess \/ sess' = [sess EXCEPT ![d].rx_buffer_ = n]
    BY <1>6 DEF Readable
  <2>3. \A c \in Clients : sess'[c].state_ = sess[c].state_
    BY <1>1, <2>2 DEF Sessions
  <2> QED BY <1>3, <2>1, <2>3
<1>7. ASSUME NEW d \in Clients, ClearClient(d) PROVE Machine!Next
  BY <1>2, <1>7, CloseStep DEF ClearClient
<1>8. CASE DropClient
  <2>1. active \in Clients
    BY <1>8 DEF DropClient, SessionInv, ThreadInv, Serving
  <2> QED BY <1>8, <2>1, CloseStep DEF DropClient, Wait
<1>9. CASE FeedReturns \/ FeedThrows
  <2>1. active \in Clients
    BY <1>9 DEF FeedReturns, FeedThrows, Feeding, SessionInv, ThreadInv, Serving
  <2>2. sess' = sess /\ (cur' = None \/ sent' = <<>>)
    BY <1>9 DEF FeedReturns, Wait, FeedThrows, Enter, Take
  <2> QED BY <2>1, <2>2, AwaitStep
<1>10. CASE UNCHANGED vars
  <2>1. UNCHANGED <<sess, active, cur, sent>>
    BY <1>10 DEF vars
  <2> QED BY <2>1, HiddenStep DEF LastAnswer, Cur
<1> QED BY <1>4, <1>5, <1>6, <1>7, <1>8, <1>9, <1>10 DEF Events

\* The sessions implement the state machine of session.hpp and the documents:
\* every step of the server is one of its steps for one client, or none.
THEOREM SessionRefinesMachine == Spec => ImplementsStateMachine
<1>1. Init => Machine!Init
  <2> SUFFICES ASSUME Init PROVE Machine!Init
    OBVIOUS
  <2>1. \A c \in Clients : sess[c].state_ = "CLOSED" /\ LastAnswer(c) = None
    BY QuietFacts DEF Init, NoSession, NewSession
  <2> QED BY <2>1 DEF Machine!Init
<1>2. SessionInv /\ [Next]_vars => [Machine!Next]_Machine!vars
  <2> SUFFICES ASSUME SessionInv, [Next]_vars
               PROVE  Machine!Next \/ UNCHANGED Machine!vars
    OBVIOUS
  <2>1. CASE Events \/ Exited \/ UNCHANGED vars
    BY <2>1, EventRefines DEF Exited
  <2>2. CASE EpollStep
    BY <2>2, EventRefines, AnsweredRefines, EnteredFacts, EnteredRefines, SetUpRefines,
       LeftRefines DEF EpollStep
  <2> QED BY <2>1, <2>2 DEF Next
<1> QED BY <1>1, <1>2, SessionInvariant, PTL DEF Spec, ImplementsStateMachine, Machine!Spec
==============================================================================
