-------------------------- MODULE EpollServerProofs --------------------------
(***************************************************************************)
(* Proofs about EpollServer, for any number of connections, descriptors,   *)
(* pipelined requests and units of an answer.                              *)
(***************************************************************************)
EXTENDS EpollServer, WellFoundedInduction, TLAPS

\* Where the thread serves the client of event `ev'.
Serving == {"feed", "write", "drop"}

(***************************************************************************)
(* The inductive invariant.                                                *)
(***************************************************************************)

\* Before the loop nobody is connected and epoll is not there yet; after it
\* nothing is open.
StartInv ==
  /\ pc \in StartPCs => \A fd \in Fds : clients[fd] = None
  /\ pc \in StartPCs \ {"epoll_ctl"} => ~epoll_fd
  /\ pc \in {"failed", "exited"} =>
       ~listener /\ ~epoll_fd /\ \A fd \in Fds : clients[fd] = None

\* The table, the descriptors and epoll's interest agree.
TableInv ==
  /\ clients = open
  /\ interest = {fd \in Fds : open[fd] # None}

\* Events wait for different descriptors, each for the client that the table
\* has there, and that they were raised for.
BatchInv ==
  /\ \A e, f \in batch : e.fd = f.fd => e = f
  /\ pc \in {"batch"} \union Serving =>
       \A e \in batch \ {ListenerEvent} : clients[e.fd] = e.conn

\* So is the event being handled; it is over and done with its descriptor in
\* this batch.  No hang-up was reported for a client that is being answered.
ServedInv ==
  /\ IF pc \in Serving \union {"killed", "crashed"}
       THEN /\ ev \in ClientEvents
            /\ clients[ev.fd] = ev.conn
            /\ \A e \in batch : e.fd # ev.fd
       ELSE ev = None
  /\ pc \in {"feed", "write", "killed"} => ~ev.hup

\* A write meets an error only if the peer is away, and it was EPIPE that
\* ended the process.
FaultInv ==
  /\ \A c \in Conns : sock[c].fault # "none" => sock[c].peer = "gone"
  /\ pc = "killed" => sock[Cur].fault = "pipe"

\* Units of the current answer that have been written, none if it is whole.
Written == (AnswerLen - remaining) % AnswerLen

\* Only the answer being written is unfinished, by what is still to be written.
AnswerInv ==
  \A c \in Conns :
    sock[c].fault = "none" =>
      sock[c].mid = IF pc = "write" /\ Cur = c THEN Written ELSE 0

ServerInv ==
  /\ TypeOK
  /\ StartInv /\ TableInv /\ BatchInv /\ ServedInv
  /\ SubscribersAreClients /\ FaultInv /\ AnswerInv

------------------------------------------------------------------------------
(* Lemmas about operators                                                  *)

\* % as the width of a counter: the remainder of a number in range is itself.
LEMMA ModFacts ==
  ASSUME NEW m \in Nat \ {0}
  PROVE  /\ \A n \in Nat : n % m \in 0..(m - 1)
         /\ \A n \in 0..(m - 1) : n % m = n
         /\ m % m = 0
BY Z3

\* A free descriptor has a lowest one: accept returns one that was free.
LEMMA LowestIsFree ==
  ASSUME FreeFds # {}
  PROVE  Lowest(FreeFds) \in FreeFds
<1>1. FreeFds \subseteq Nat
  BY ServerAssumption DEF FreeFds
<1>2. PICK fd \in FreeFds : \A g \in FreeFds : ~(<<g, fd>> \in OpToRel(<, Nat))
  BY <1>1, NatLessThanWellFounded, WFMin
<1>3. ASSUME NEW g \in FreeFds PROVE fd <= g
  <2>1. ~(g < fd)
    BY <1>1, <1>2 DEF OpToRel
  <2> QED BY <1>1, <2>1
<1> QED BY <1>2, <1>3 DEF Lowest

\* The events of clients and the listener's are told apart by their descriptor.
LEMMA ListenerFd ==
  /\ ListenerEvent \notin ClientEvents /\ None \notin ClientEvents
  /\ \A e \in ClientEvents : e.fd \in Fds /\ e.conn \in Conns /\ e.fd # None
BY ServerAssumption DEF ListenerEvent, ClientEvents

------------------------------------------------------------------------------
(* Types                                                                   *)

\* Every step keeps the types of the thread's variables.
LEMMA ControlStep ==
  ASSUME ServerInv, [Next]_vars
  PROVE  ControlType'
<1> USE ServerAssumption DEF ServerInv, TypeOK, ControlType, setupVars, feedVars
<1>1. CASE Start
  <2>1. CASE ListenerStep
    <3>1. pc' \in StartPCs
      BY <2>1 DEF ListenerStep, After, StartPCs
    <3> QED BY <2>1, <3>1 DEF ListenerStep
  <2>2. CASE ListenerFails \/ CreateEpoll
    BY <2>2 DEF ListenerFails, CreateEpoll, StartPCs, Ended
  <2>3. CASE EpollFails \/ AddListener
    BY <2>3 DEF EpollFails, AddListener, LoopTest, EpollAfterFailure, Ended
  <2> QED BY <1>1, <2>1, <2>2, <2>3 DEF Start
<1>2. CASE EpollWait \/ Timeout \/ BatchDone \/ Sigint
  BY <1>2 DEF EpollWait, Timeout, BatchDone, Sigint, LoopTest
<1>3. CASE (\E c \in Conns : Accept(c) \/ AcceptUnwatched(c)) \/ AcceptFails
  BY <1>3 DEF Accept, AcceptUnwatched, AcceptFails, Accepting
<1>4. ASSUME NEW e \in batch, HandleHangUp(e) \/ HandleRead(e) PROVE ControlType'
  BY <1>4 DEF HandleHangUp, HandleRead, Pick
<1>5. CASE FeedReturns \/ FeedThrows \/ \E r \in Requests : BeginAnswer(r)
  BY <1>5 DEF FeedReturns, FeedThrows, BeginAnswer, Requests, Ended
<1>6. ASSUME NEW n \in 1..AnswerLen, WriteSome(n) PROVE ControlType'
  BY <1>6 DEF WriteSome, LeftAfter, Writing
<1>7. CASE WriteFails \/ WriteKills \/ WriteDone
  <2>1. CASE WriteFails
    BY <2>1 DEF WriteFails, LeftAfterError
  <2>2. CASE WriteKills
    BY <2>2 DEF WriteKills, Ended
  <2>3. CASE WriteDone
    BY <2>3 DEF WriteDone, Requests
  <2> QED BY <1>7, <2>1, <2>2, <2>3
<1>8. CASE DropClient \/ (\E fd \in Fds : ClearClient(fd)) \/ Return
  <2>1. CASE DropClient
    BY <2>1 DEF DropClient
  <2>2. CASE \E fd \in Fds : ClearClient(fd)
    BY <2>2 DEF ClearClient
  <2>3. CASE Return
    BY <2>3 DEF Return, Ended
  <2> QED BY <1>8, <2>1, <2>2, <2>3
<1>9. CASE Peers
  BY <1>9 DEF Peers, Connect, PeerSends, PeerReads, PeerShutsDown, PeerCloses,
              PeerResets, Peer
<1>10. CASE UNCHANGED vars
  BY <1>10 DEF vars
<1> QED BY <1>1, <1>2, <1>3, <1>4, <1>5, <1>6, <1>7, <1>8, <1>9, <1>10
        DEF Next, Loop, Gone

\* Every step keeps the types of the events.
LEMMA EventStep ==
  ASSUME ServerInv, [Next]_vars
  PROVE  EventType'
<1> USE ListenerFd DEF ServerInv, TypeOK, EventType, TableType, feedVars
<1>1. CASE Start
  BY <1>1 DEF Start, ListenerStep, ListenerFails, CreateEpoll, EpollFails, AddListener
<1>2. CASE EpollWait
  <2>1. ASSUME NEW fd \in interest PROVE Event(fd) \in ClientEvents
    <3>1. fd \in Fds /\ open[fd] \in Conns
      BY <2>1 DEF TableInv
    <3> QED BY <3>1 DEF Event, ClientEvents
  <2>2. Ready \subseteq ClientEvents \union {ListenerEvent}
    BY <2>1 DEF Ready
  <2> QED BY <1>2, <2>2 DEF EpollWait
<1>3. CASE Timeout \/ BatchDone \/ Sigint
  BY <1>3 DEF Timeout, BatchDone, Sigint
<1>4. CASE (\E c \in Conns : Accept(c) \/ AcceptUnwatched(c)) \/ AcceptFails
  BY <1>4 DEF Accept, AcceptUnwatched, AcceptFails
<1>5. ASSUME NEW e \in batch, HandleHangUp(e) \/ HandleRead(e) PROVE EventType'
  BY <1>5 DEF HandleHangUp, HandleRead, Pick
<1>6. CASE FeedReturns \/ FeedThrows \/ \E r \in Requests : BeginAnswer(r)
  BY <1>6 DEF FeedReturns, FeedThrows, BeginAnswer
<1>7. CASE (\E n \in 1..AnswerLen : WriteSome(n)) \/ WriteFails \/ WriteKills \/ WriteDone
  BY <1>7 DEF WriteSome, WriteFails, WriteKills, WriteDone
<1>8. CASE DropClient \/ (\E fd \in Fds : ClearClient(fd)) \/ Return
  BY <1>8 DEF DropClient, ClearClient, Return
<1>9. CASE Peers
  BY <1>9 DEF Peers, Connect, PeerSends, PeerReads, PeerShutsDown, PeerCloses,
              PeerResets, Peer
<1>10. CASE UNCHANGED vars
  BY <1>10 DEF vars
<1> QED BY <1>1, <1>2, <1>3, <1>4, <1>5, <1>6, <1>7, <1>8, <1>9, <1>10
        DEF Next, Loop, Gone

\* Where the thread serves a client, the table has it.
LEMMA Served ==
  ASSUME ServerInv, pc \in Serving \union {"killed", "crashed"}
  PROVE  ev.fd \in Fds /\ Cur = ev.conn /\ Cur \in Conns /\ Cur # None
BY ListenerFd, ServerAssumption DEF ServerInv, ServedInv, Cur

\* What forgetting a client does to the table.
LEMMA ForgetFacts ==
  ASSUME ServerInv, NEW fd \in Fds, clients[fd] # None, Forget(fd)
  PROVE  /\ clients[fd] \in Conns
         /\ clients' = [clients EXCEPT ![fd] = None]
         /\ open' = [open EXCEPT ![fd] = None]
         /\ interest' = interest \ {fd}
         /\ subscribers' = subscribers \ {clients[fd]}
         /\ sock' = [sock EXCEPT ![clients[fd]] = Closed]
BY DEF Forget, TableAfter, SubscribersAfter, ServerInv, TypeOK, TableType

\* Every step keeps the types of the table and the descriptors.
LEMMA TableTypeStep ==
  ASSUME ServerInv, [Next]_vars
  PROVE  TableType'
<1> USE DEF ServerInv, TypeOK, TableType, connVars, tableVars
<1>1. CASE Start
  BY <1>1 DEF Start, ListenerStep, ListenerFails, CreateEpoll, EpollFails, AddListener
<1>2. CASE EpollWait \/ Timeout \/ BatchDone \/ Sigint
  BY <1>2 DEF EpollWait, Timeout, BatchDone, Sigint
<1>3. ASSUME NEW c \in Conns, Accept(c) PROVE TableType'
  <2>1. Lowest(FreeFds) \in Fds
    BY <1>3, LowestIsFree DEF Accept, FreeFds
  <2> QED BY <1>3, <2>1 DEF Accept, Emplace
<1>4. CASE (\E c \in Conns : AcceptUnwatched(c)) \/ AcceptFails
  BY <1>4 DEF AcceptUnwatched, AcceptFails
<1>5. ASSUME NEW e \in batch, HandleHangUp(e) \/ HandleRead(e) PROVE TableType'
  BY <1>5 DEF HandleHangUp, HandleRead, Pick
<1>6. CASE FeedReturns \/ FeedThrows \/ \E r \in Requests : BeginAnswer(r)
  BY <1>6 DEF FeedReturns, FeedThrows, BeginAnswer, SubscribersAtAnswer
<1>7. CASE (\E n \in 1..AnswerLen : WriteSome(n)) \/ WriteFails \/ WriteKills
  BY <1>7 DEF WriteSome, WriteFails, WriteKills
<1>8. CASE WriteDone
  BY <1>8, Served DEF WriteDone, Serving
<1>9. CASE DropClient
  BY <1>9, Served, ForgetFacts DEF DropClient, Serving, Cur
<1>10. ASSUME NEW fd \in Fds, ClearClient(fd) PROVE TableType'
  BY <1>10, ForgetFacts DEF ClearClient
<1>11. CASE Return
  BY <1>11 DEF Return
<1>12. CASE Peers
  BY <1>12 DEF Peers, Connect, PeerSends, PeerReads, PeerShutsDown, PeerCloses,
               PeerResets, Peer
<1>13. CASE UNCHANGED vars
  BY <1>13 DEF vars
<1> QED BY <1>1, <1>2, <1>3, <1>4, <1>5, <1>6, <1>7, <1>8, <1>9, <1>10, <1>11,
           <1>12, <1>13 DEF Next, Loop, Gone

Sockets ==
  [peer : {"new", "open", "half", "gone"}, inbox : BOOLEAN, unread : 0..SndBuf,
   fault : {"none", "reset", "pipe"}, mid : 0..(AnswerLen - 1)]

\* Sockets as a record: its fields, and the changes of one field that keep it one.
LEMMA SocketFacts ==
  /\ Fresh \in Sockets /\ Closed \in Sockets
  /\ \A s \in Sockets :
       /\ s.peer \in {"new", "open", "half", "gone"} /\ s.unread \in 0..SndBuf
       /\ s.fault \in {"none", "reset", "pipe"} /\ s.mid \in 0..(AnswerLen - 1)
       /\ \A p \in {"new", "open", "half", "gone"} : [s EXCEPT !.peer = p] \in Sockets
       /\ [s EXCEPT !.inbox = FALSE] \in Sockets /\ [s EXCEPT !.inbox = TRUE] \in Sockets
       /\ \A n \in 0..SndBuf : [s EXCEPT !.unread = n] \in Sockets
       /\ \A f \in {"none", "reset", "pipe"} : [s EXCEPT !.fault = f] \in Sockets
       /\ \A n \in 0..(AnswerLen - 1) : [s EXCEPT !.mid = n] \in Sockets
<1>1. Fresh \in Sockets
  <2>1. 0 \in 0..SndBuf /\ 0 \in 0..(AnswerLen - 1)
    BY ServerAssumption
  <2> QED BY <2>1 DEF Fresh, Sockets
<1>2. Closed \in Sockets
  BY <1>1 DEF Closed, Sockets
<1>3. ASSUME NEW s \in Sockets
      PROVE  /\ s.peer \in {"new", "open", "half", "gone"} /\ s.unread \in 0..SndBuf
             /\ s.fault \in {"none", "reset", "pipe"} /\ s.mid \in 0..(AnswerLen - 1)
  BY DEF Sockets
<1>4. ASSUME NEW s \in Sockets, NEW p \in {"new", "open", "half", "gone"}
      PROVE  [s EXCEPT !.peer = p] \in Sockets
  BY DEF Sockets
<1>5. ASSUME NEW s \in Sockets
      PROVE  [s EXCEPT !.inbox = FALSE] \in Sockets /\ [s EXCEPT !.inbox = TRUE] \in Sockets
  BY DEF Sockets
<1>6. ASSUME NEW s \in Sockets, NEW n \in 0..SndBuf PROVE [s EXCEPT !.unread = n] \in Sockets
  BY DEF Sockets
<1>7. ASSUME NEW s \in Sockets, NEW f \in {"none", "reset", "pipe"}
      PROVE  [s EXCEPT !.fault = f] \in Sockets
  BY DEF Sockets
<1>8. ASSUME NEW s \in Sockets, NEW n \in 0..(AnswerLen - 1)
      PROVE  [s EXCEPT !.mid = n] \in Sockets
  BY DEF Sockets
<1> QED BY <1>1, <1>2, <1>3, <1>4, <1>5, <1>6, <1>7, <1>8

\* The two changes of several fields: a write, and a reset.
LEMMA SocketUpdates ==
  ASSUME NEW s \in Sockets, NEW u \in 0..SndBuf, NEW f \in {"none", "reset", "pipe"}
  PROVE  /\ \A m \in 0..(AnswerLen - 1) :
              [s EXCEPT !.mid = m, !.unread = u, !.fault = f] \in Sockets
         /\ \A b \in BOOLEAN :
              [s EXCEPT !.peer = "gone", !.inbox = b, !.unread = u, !.fault = f] \in Sockets
<1>1. ASSUME NEW m \in 0..(AnswerLen - 1)
      PROVE  [s EXCEPT !.mid = m, !.unread = u, !.fault = f] \in Sockets
  BY DEF Sockets
<1>2. ASSUME NEW b \in BOOLEAN
      PROVE  [s EXCEPT !.peer = "gone", !.inbox = b, !.unread = u, !.fault = f] \in Sockets
  BY DEF Sockets
<1> QED BY <1>1, <1>2

\* Every step keeps the types of the sockets.
LEMMA SocketStep ==
  ASSUME ServerInv, [Next]_vars
  PROVE  SocketType'
<1> USE ServerAssumption DEF ServerInv, TypeOK, SocketType, connVars
<1>1. Closed \in Sockets
  BY SocketFacts
<1>2. sock \in [Conns -> Sockets]
  BY DEF Sockets
<1>3. SUFFICES sock' \in [Conns -> Sockets]
  BY DEF Sockets
<1>4. CASE Start
  BY <1>2, <1>4 DEF Start, ListenerStep, ListenerFails, CreateEpoll, EpollFails, AddListener
<1>5. CASE EpollWait \/ Timeout \/ BatchDone \/ Sigint
  BY <1>2, <1>5 DEF EpollWait, Timeout, BatchDone, Sigint
<1>6. CASE (\E c \in Conns : Accept(c) \/ AcceptUnwatched(c)) \/ AcceptFails
  BY <1>1, <1>2, <1>6 DEF Accept, AcceptUnwatched, AcceptFails
<1>7. ASSUME NEW e \in batch, HandleHangUp(e) PROVE sock' \in [Conns -> Sockets]
  BY <1>2, <1>7 DEF HandleHangUp
<1>8. ASSUME NEW e \in batch, HandleRead(e) PROVE sock' \in [Conns -> Sockets]
  BY <1>2, <1>8, ZenonT(30) DEF HandleRead, Sockets
<1>9. CASE FeedReturns \/ FeedThrows \/ (\E r \in Requests : BeginAnswer(r))
             \/ WriteKills \/ WriteDone
  BY <1>2, <1>9 DEF FeedReturns, FeedThrows, BeginAnswer, WriteKills, WriteDone
<1>10. ASSUME NEW n \in 1..AnswerLen, WriteSome(n) PROVE sock' \in [Conns -> Sockets]
  <2>1. Cur \in Conns
    BY <1>10, Served DEF WriteSome, Writing, Serving
  <2>2. sock[Cur].unread + n \in 0..SndBuf
    BY <1>2, <1>10, <2>1 DEF WriteSome, Sockets
  <2>3. (sock[Cur].mid + n) % AnswerLen \in 0..(AnswerLen - 1)
    <3>1. sock[Cur].mid + n \in Nat
      BY <1>2, <2>1, SocketFacts
    <3> QED BY <3>1, ModFacts
  <2>4. sock[Cur] \in Sockets
    BY <1>2, <2>1
  <2> DEFINE s == sock[Cur]
             t == [s EXCEPT !.mid = (s.mid + n) % AnswerLen,
                            !.unread = IF s.peer = "gone" THEN 0 ELSE s.unread + n,
                            !.fault = IF s.peer = "gone" THEN "pipe" ELSE "none"]
  <2>5. t \in Sockets
    <3>1. (IF s.peer = "gone" THEN 0 ELSE s.unread + n) \in 0..SndBuf
      BY <2>2
    <3> QED BY <2>3, <2>4, <3>1, SocketUpdates
  <2>6. sock' = [sock EXCEPT ![Cur] = t]
    BY <1>10 DEF WriteSome
  <2> QED BY <1>2, <2>1, <2>5, <2>6
<1>11. CASE WriteFails
  <2>1. Cur \in Conns
    BY <1>11, Served DEF WriteFails, Writing, Serving
  <2> QED BY <1>2, <1>11, <2>1 DEF WriteFails, Sockets
<1>12. CASE DropClient
  BY <1>1, <1>2, <1>12, Served, ForgetFacts DEF DropClient, Serving, Cur
<1>13. ASSUME NEW fd \in Fds, ClearClient(fd) PROVE sock' \in [Conns -> Sockets]
  BY <1>1, <1>2, <1>13, ForgetFacts DEF ClearClient
<1>14. CASE Return
  BY <1>2, <1>14 DEF Return
<1>15. ASSUME NEW c \in Conns,
              Connect(c) \/ PeerSends(c) \/ PeerShutsDown(c) \/ PeerCloses(c)
       PROVE  sock' \in [Conns -> Sockets]
  BY <1>2, <1>15, SocketFacts, ZenonT(30) DEF Connect, PeerSends, PeerShutsDown, PeerCloses, Peer
<1>16. ASSUME NEW c \in Conns, PeerReads(c) PROVE sock' \in [Conns -> Sockets]
  BY <1>2, <1>16 DEF PeerReads, Peer, Sockets
<1>17. ASSUME NEW c \in Conns, PeerResets(c) PROVE sock' \in [Conns -> Sockets]
  <2>1. PICK left \in {FALSE, sock[c].inbox} :
          Peer(c, [sock[c] EXCEPT !.peer = "gone", !.inbox = left, !.unread = 0,
                     !.fault = IF @ = "none" /\ sock[c].peer = "open"
                                 THEN "reset" ELSE "pipe"])
    BY <1>17 DEF PeerResets
  <2> DEFINE t == [sock[c] EXCEPT !.peer = "gone", !.inbox = left, !.unread = 0,
                     !.fault = IF @ = "none" /\ sock[c].peer = "open"
                                 THEN "reset" ELSE "pipe"]
  <2>2. sock[c] \in Sockets
    BY <1>2
  <2>3. left \in BOOLEAN
    BY <2>2 DEF Sockets
  <2>4. t \in Sockets
    <3>1. (IF sock[c].fault = "none" /\ sock[c].peer = "open"
             THEN "reset" ELSE "pipe") \in {"none", "reset", "pipe"}
      OBVIOUS
    <3>2. 0 \in 0..SndBuf
      OBVIOUS
    <3> QED BY <2>2, <2>3, <3>1, <3>2, SocketUpdates
  <2>5. sock' = [sock EXCEPT ![c] = t]
    BY <2>1 DEF Peer
  <2> QED BY <1>2, <2>4, <2>5
<1>18. CASE UNCHANGED vars
  BY <1>2, <1>18 DEF vars
<1> QED BY <1>4, <1>5, <1>6, <1>7, <1>8, <1>9, <1>10, <1>11, <1>12, <1>13, <1>14,
           <1>15, <1>16, <1>17, <1>18 DEF Next, Loop, Peers, Gone

------------------------------------------------------------------------------
(* The parts of the invariant, each kept by every step                     *)

\* Start-up opens nothing too much; the way out leaves nothing open.
LEMMA StartStep ==
  ASSUME ServerInv, [Next]_vars
  PROVE  StartInv'
<1> USE DEF ServerInv, TypeOK, ControlType, TableType, StartInv, connVars, tableVars,
            setupVars, StartPCs, Ended
<1>1. CASE ListenerStep
  <2>1. pc' \in {"setsockopt", "bind", "listen", "epoll_create"}
    BY <1>1 DEF ListenerStep, After
  <2>2. pc \in StartPCs \ {"epoll_ctl"}
    BY <1>1 DEF ListenerStep, After
  <2> QED BY <1>1, <2>1, <2>2 DEF ListenerStep
<1>2. CASE ListenerFails
  <2>1. pc \in StartPCs \ {"epoll_ctl"}
    BY <1>2 DEF ListenerFails, After
  <2> QED BY <1>2, <2>1 DEF ListenerFails
<1>3. CASE CreateEpoll \/ EpollFails \/ AddListener
  BY <1>3 DEF CreateEpoll, EpollFails, AddListener, LoopTest, EpollAfterFailure
<1>4. CASE EpollWait \/ Timeout \/ BatchDone \/ Sigint
  BY <1>4 DEF EpollWait, Timeout, BatchDone, Sigint, LoopTest
<1>5. CASE (\E c \in Conns : Accept(c) \/ AcceptUnwatched(c)) \/ AcceptFails
  BY <1>5 DEF Accept, AcceptUnwatched, AcceptFails, Accepting
<1>6. ASSUME NEW e \in batch, HandleHangUp(e) \/ HandleRead(e) PROVE StartInv'
  BY <1>6 DEF HandleHangUp, HandleRead, Pick
<1>7. CASE FeedReturns \/ FeedThrows \/ \E r \in Requests : BeginAnswer(r)
  BY <1>7 DEF FeedReturns, FeedThrows, BeginAnswer
<1>8. CASE (\E n \in 1..AnswerLen : WriteSome(n)) \/ WriteFails
  BY <1>8 DEF WriteSome, WriteFails, Writing
<1>9. CASE WriteKills \/ WriteDone
  BY <1>9 DEF WriteKills, WriteDone, Writing
<1>10. CASE DropClient \/ \E fd \in Fds : ClearClient(fd)
  BY <1>10 DEF DropClient, ClearClient
<1>11. CASE Return
  BY <1>11 DEF Return
<1>12. CASE Peers
  BY <1>12 DEF Peers, Connect, PeerSends, PeerReads, PeerShutsDown, PeerCloses,
               PeerResets, Peer
<1>13. CASE UNCHANGED vars
  BY <1>13 DEF vars
<1> QED BY <1>1, <1>2, <1>3, <1>4, <1>5, <1>6, <1>7, <1>8, <1>9, <1>10, <1>11,
           <1>12, <1>13 DEF Next, Start, Loop, Gone

\* Accept and the removal of a client keep table, descriptors and epoll in step.
LEMMA TableStep ==
  ASSUME ServerInv, [Next]_vars
  PROVE  TableInv'
<1> USE DEF ServerInv, TypeOK, TableType, TableInv, connVars, tableVars
<1>1. CASE Start
  BY <1>1 DEF Start, ListenerStep, ListenerFails, CreateEpoll, EpollFails, AddListener
<1>2. CASE EpollWait \/ Timeout \/ BatchDone \/ Sigint
  BY <1>2 DEF EpollWait, Timeout, BatchDone, Sigint
<1>3. ASSUME NEW c \in Conns, Accept(c) PROVE TableInv'
  <2> DEFINE fd == Lowest(FreeFds)
  <2>1. fd \in Fds /\ open[fd] = None
    BY <1>3, LowestIsFree DEF Accept, FreeFds
  <2>2. c # None
    BY ServerAssumption
  <2>3. open' = [open EXCEPT ![fd] = c] /\ clients' = [clients EXCEPT ![fd] = c]
    BY <1>3, <2>1 DEF Accept, Emplace
  <2> HIDE DEF fd
  <2>4. interest' = interest \union {fd}
    BY <1>3 DEF Accept, fd
  <2> QED BY <2>1, <2>2, <2>3, <2>4
<1>4. CASE (\E c \in Conns : AcceptUnwatched(c)) \/ AcceptFails
  BY <1>4 DEF AcceptUnwatched, AcceptFails
<1>5. ASSUME NEW e \in batch, HandleHangUp(e) \/ HandleRead(e) PROVE TableInv'
  BY <1>5 DEF HandleHangUp, HandleRead, Pick
<1>6. CASE FeedReturns \/ FeedThrows \/ \E r \in Requests : BeginAnswer(r)
  BY <1>6 DEF FeedReturns, FeedThrows, BeginAnswer
<1>7. CASE (\E n \in 1..AnswerLen : WriteSome(n)) \/ WriteFails \/ WriteKills \/ WriteDone
  BY <1>7 DEF WriteSome, WriteFails, WriteKills, WriteDone
<1>8. ASSUME NEW fd \in Fds, clients[fd] # None, Forget(fd) PROVE TableInv'
  BY <1>8, ForgetFacts
<1>9. CASE DropClient
  BY <1>8, <1>9, Served DEF DropClient, Serving, Cur
<1>10. CASE \E fd \in Fds : ClearClient(fd)
  BY <1>8, <1>10 DEF ClearClient
<1>11. CASE Return
  BY <1>11 DEF Return
<1>12. CASE Peers
  BY <1>12 DEF Peers, Connect, PeerSends, PeerReads, PeerShutsDown, PeerCloses,
               PeerResets, Peer
<1>13. CASE UNCHANGED vars
  BY <1>13 DEF vars
<1> QED BY <1>1, <1>2, <1>3, <1>4, <1>5, <1>6, <1>7, <1>9, <1>10, <1>11, <1>12,
           <1>13 DEF Next, Loop, Gone

\* Nobody stays subscribed who leaves the table.
LEMMA SubscribersStep ==
  ASSUME ServerInv, [Next]_vars
  PROVE  SubscribersAreClients'
<1> USE DEF ServerInv, TypeOK, TableType, SubscribersAreClients, connVars, tableVars
<1>1. CASE Start
  BY <1>1 DEF Start, ListenerStep, ListenerFails, CreateEpoll, EpollFails, AddListener
<1>2. CASE EpollWait \/ Timeout \/ BatchDone \/ Sigint
  BY <1>2 DEF EpollWait, Timeout, BatchDone, Sigint
<1>3. ASSUME NEW c \in Conns, Accept(c) PROVE SubscribersAreClients'
  <2>1. \A fd \in Fds : clients[fd] # None => clients'[fd] = clients[fd]
    BY <1>3 DEF Accept, Emplace
  <2>2. subscribers' = subscribers
    BY <1>3 DEF Accept
  <2> QED BY <2>1, <2>2, ServerAssumption
<1>4. CASE (\E c \in Conns : AcceptUnwatched(c)) \/ AcceptFails
  BY <1>4 DEF AcceptUnwatched, AcceptFails
<1>5. ASSUME NEW e \in batch, HandleHangUp(e) \/ HandleRead(e) PROVE SubscribersAreClients'
  BY <1>5 DEF HandleHangUp, HandleRead, Pick
<1>6. CASE FeedReturns \/ FeedThrows \/ \E r \in Requests : BeginAnswer(r)
  BY <1>6 DEF FeedReturns, FeedThrows, BeginAnswer, SubscribersAtAnswer
<1>7. CASE (\E n \in 1..AnswerLen : WriteSome(n)) \/ WriteFails \/ WriteKills
  BY <1>7 DEF WriteSome, WriteFails, WriteKills
<1>8. CASE WriteDone
  BY <1>8, Served DEF WriteDone, Serving, Cur
<1>9. ASSUME NEW fd \in Fds, clients[fd] # None, Forget(fd) PROVE SubscribersAreClients'
  <2>1. ASSUME NEW c \in subscribers' PROVE \E g \in Fds : clients'[g] = c
    <3>1. c \in subscribers /\ c # clients[fd]
      BY <1>9, <2>1, ForgetFacts
    <3>2. PICK g \in Fds : clients[g] = c
      BY <3>1
    <3> QED BY <1>9, <3>1, <3>2, ForgetFacts
  <2> QED BY <2>1
<1>10. CASE DropClient
  BY <1>9, <1>10, Served DEF DropClient, Serving, Cur
<1>11. CASE \E fd \in Fds : ClearClient(fd)
  BY <1>9, <1>11 DEF ClearClient
<1>12. CASE Return
  BY <1>12 DEF Return
<1>13. CASE Peers
  BY <1>13 DEF Peers, Connect, PeerSends, PeerReads, PeerShutsDown, PeerCloses,
               PeerResets, Peer
<1>14. CASE UNCHANGED vars
  BY <1>14 DEF vars
<1> QED BY <1>1, <1>2, <1>3, <1>4, <1>5, <1>6, <1>7, <1>8, <1>10, <1>11, <1>12,
           <1>13, <1>14 DEF Next, Loop, Gone

\* epoll_wait raises one event for each descriptor, for the client behind it.
LEMMA ReadyFacts ==
  ASSUME ServerInv
  PROVE  /\ \A e, f \in Ready : e.fd = f.fd => e = f
         /\ \A e \in Ready \ {ListenerEvent} : clients[e.fd] = e.conn
<1>1. ASSUME NEW e \in Ready \ {ListenerEvent}
      PROVE  e.fd \in Fds /\ e = Event(e.fd) /\ e.conn = open[e.fd]
  <2>1. PICK fd \in interest : e = Event(fd)
    BY DEF Ready
  <2> QED BY <2>1 DEF Event, ServerInv, TypeOK, TableType
<1>2. ListenerEvent.fd = None /\ None \notin Fds
  BY ServerAssumption DEF ListenerEvent
<1> QED BY <1>1, <1>2 DEF ServerInv, TableInv

\* The events still waiting keep their client: accept never takes a descriptor
\* that is in the table, and drop_client only closes that of its own event.
LEMMA BatchStep ==
  ASSUME ServerInv, [Next]_vars
  PROVE  BatchInv'
<1> USE ListenerFd DEF ServerInv, TypeOK, TableType, EventType, BatchInv, connVars, tableVars
<1>1. CASE Start
  <2>1. UNCHANGED <<batch, clients>>
    BY <1>1 DEF Start, ListenerStep, ListenerFails, CreateEpoll, EpollFails, AddListener
  <2>2. pc' \notin {"batch"} \union Serving
    <3>1. CASE ListenerStep
      BY <3>1 DEF ListenerStep, After, Serving
    <3>2. CASE ~ListenerStep
      BY <1>1, <3>2 DEF Start, ListenerFails, CreateEpoll, EpollFails, AddListener,
                        LoopTest, Serving
    <3> QED BY <3>1, <3>2
  <2> QED BY <2>1, <2>2
<1>2. CASE EpollWait
  BY <1>2, ReadyFacts DEF EpollWait
<1>3. CASE Timeout \/ BatchDone
  BY <1>3 DEF Timeout, BatchDone, LoopTest, Serving
<1>4. CASE Sigint
  BY <1>4 DEF Sigint, Serving
<1>5. ASSUME NEW c \in Conns, Accept(c) PROVE BatchInv'
  <2>1. batch' = batch \ {ListenerEvent} /\ pc = "batch" /\ pc' = "batch"
    BY <1>5 DEF Accept, Accepting
  <2>2. \A fd \in Fds : clients[fd] # None => clients'[fd] = clients[fd]
    BY <1>5 DEF Accept, Emplace
  <2>3. ASSUME NEW e \in batch \ {ListenerEvent} PROVE clients'[e.fd] = e.conn
    <3>1. e.fd \in Fds /\ clients[e.fd] = e.conn /\ e.conn # None
      BY <2>1, ServerAssumption
    <3> QED BY <2>2, <3>1
  <2> QED BY <2>1, <2>3
<1>6. CASE (\E c \in Conns : AcceptUnwatched(c)) \/ AcceptFails
  BY <1>6 DEF AcceptUnwatched, AcceptFails, Accepting
<1>7. ASSUME NEW e \in batch, HandleHangUp(e) \/ HandleRead(e) PROVE BatchInv'
  BY <1>7 DEF HandleHangUp, HandleRead, Pick
<1>8. CASE FeedReturns \/ FeedThrows \/ \E r \in Requests : BeginAnswer(r)
  BY <1>8 DEF FeedReturns, FeedThrows, BeginAnswer, Serving
<1>9. CASE (\E n \in 1..AnswerLen : WriteSome(n)) \/ WriteFails \/ WriteKills \/ WriteDone
  BY <1>9 DEF WriteSome, WriteFails, WriteKills, WriteDone, Serving
<1>10. CASE DropClient
  <2>1. ev.fd \in Fds /\ clients' = [clients EXCEPT ![ev.fd] = None] /\ batch' = batch
    BY <1>10, Served, ForgetFacts DEF DropClient, Serving, Cur
  <2>2. \A e \in batch : e.fd # ev.fd
    BY <1>10 DEF DropClient, Serving, ServedInv
  <2>3. \A e \in batch \ {ListenerEvent} : clients[e.fd] = e.conn /\ e.fd \in Fds
    BY <1>10 DEF DropClient, Serving
  <2> QED BY <2>1, <2>2, <2>3
<1>11. CASE (\E fd \in Fds : ClearClient(fd)) \/ Return
  BY <1>11 DEF ClearClient, Return, Serving
<1>12. CASE Peers
  BY <1>12 DEF Peers, Connect, PeerSends, PeerReads, PeerShutsDown, PeerCloses,
               PeerResets, Peer
<1>13. CASE UNCHANGED vars
  BY <1>13 DEF vars
<1> QED BY <1>1, <1>2, <1>3, <1>4, <1>5, <1>6, <1>7, <1>8, <1>9, <1>10, <1>11,
           <1>12, <1>13 DEF Next, Loop, Gone

\* The event being handled stays with its client until it is done with.
LEMMA ServedStep ==
  ASSUME ServerInv, [Next]_vars
  PROVE  ServedInv'
<1> USE ListenerFd DEF ServerInv, TypeOK, TableType, EventType, ServedInv, Serving,
                       connVars, tableVars, feedVars
<1>1. CASE Start
  <2>1. ev' = ev /\ pc \notin Serving \union {"killed", "crashed"}
    BY <1>1 DEF Start, ListenerStep, ListenerFails, CreateEpoll, EpollFails, AddListener, After
  <2>2. pc' \notin Serving \union {"killed", "crashed"}
    <3>1. CASE ListenerStep
      BY <3>1 DEF ListenerStep, After
    <3>2. CASE ~ListenerStep
      BY <1>1, <3>2 DEF Start, ListenerFails, CreateEpoll, EpollFails, AddListener, LoopTest
    <3> QED BY <3>1, <3>2
  <2> QED BY <2>1, <2>2
<1>2. CASE EpollWait \/ Timeout \/ BatchDone
  BY <1>2 DEF EpollWait, Timeout, BatchDone, LoopTest
<1>3. CASE Sigint
  BY <1>3 DEF Sigint
<1>4. CASE (\E c \in Conns : Accept(c) \/ AcceptUnwatched(c)) \/ AcceptFails
  BY <1>4 DEF Accept, AcceptUnwatched, AcceptFails, Accepting
<1>5. ASSUME NEW e \in batch, HandleHangUp(e) \/ HandleRead(e) PROVE ServedInv'
  <2>1. /\ pc = "batch" /\ e \in batch \ {ListenerEvent} /\ ev' = e
        /\ batch' = batch \ {e} /\ clients' = clients
    BY <1>5 DEF HandleHangUp, HandleRead, Pick
  <2>2. e \in ClientEvents /\ clients[e.fd] = e.conn /\ clients[e.fd] # None
    BY <2>1, ServerAssumption DEF BatchInv
  <2>3. \A f \in batch' : f.fd # e.fd
    BY <2>1 DEF BatchInv
  <2>4. pc' = "drop" \/ (pc' = "feed" /\ ~e.hup)
    BY <1>5, <2>2 DEF HandleHangUp, HandleRead, HangUp
  <2> QED BY <2>1, <2>2, <2>3, <2>4
<1>6. CASE FeedReturns \/ FeedThrows \/ \E r \in Requests : BeginAnswer(r)
  BY <1>6 DEF FeedReturns, FeedThrows, BeginAnswer
<1>7. CASE (\E n \in 1..AnswerLen : WriteSome(n)) \/ WriteFails
  BY <1>7 DEF WriteSome, WriteFails, Writing
<1>8. CASE WriteKills \/ WriteDone
  BY <1>8 DEF WriteKills, WriteDone, Writing
<1>9. CASE DropClient
  BY <1>9 DEF DropClient
<1>10. CASE (\E fd \in Fds : ClearClient(fd)) \/ Return
  BY <1>10 DEF ClearClient, Return
<1>11. CASE Peers
  <2>1. UNCHANGED <<pc, clients, batch, ev>>
    BY <1>11 DEF Peers, Connect, PeerSends, PeerReads, PeerShutsDown, PeerCloses,
                 PeerResets, Peer
  <2> QED BY <2>1
<1>12. CASE UNCHANGED vars
  BY <1>12 DEF vars
<1> QED BY <1>1, <1>2, <1>3, <1>4, <1>5, <1>6, <1>7, <1>8, <1>9, <1>10, <1>11,
           <1>12 DEF Next, Loop, Gone

\* What a peer may do to a connection: an error is behind a reset, and the units
\* of an answer are the server's own.
LEMMA PeersFacts ==
  ASSUME ServerInv, Peers
  PROVE  /\ pc \notin Ended
         /\ UNCHANGED <<pc, clients, ev, remaining>>
         /\ \A c \in Conns :
              /\ sock'[c].mid = sock[c].mid
              /\ sock[c].fault # "none" => sock'[c].fault # "none"
              /\ sock'[c].fault # "none" => sock'[c].peer = "gone"
<1> DEFINE Kept(c) ==
      /\ sock'[c].mid = sock[c].mid
      /\ sock[c].fault # "none" => sock'[c].fault # "none"
      /\ sock'[c].fault # "none" => sock'[c].peer = "gone"
<1>1. sock \in [Conns -> Sockets]
  BY DEF ServerInv, TypeOK, SocketType, Sockets
<1>2. ASSUME NEW c \in Conns PROVE sock[c].fault # "none" => sock[c].peer = "gone"
  BY DEF ServerInv, FaultInv
<1>3. PICK c \in Conns :
        \/ Connect(c) \/ PeerSends(c) \/ PeerReads(c)
        \/ PeerShutsDown(c) \/ PeerCloses(c) \/ PeerResets(c)
  BY DEF Peers
<1>4. pc \notin Ended /\ UNCHANGED <<pc, clients, ev, remaining>>
  BY <1>3 DEF Connect, Listening, PeerSends, PeerReads, PeerShutsDown, PeerCloses,
              PeerResets, Peer, tableVars, feedVars
<1>5. \E s : sock' = [sock EXCEPT ![c] = s]
  BY <1>3 DEF Connect, PeerSends, PeerReads, PeerShutsDown, PeerCloses, PeerResets, Peer
<1>6. ASSUME NEW d \in Conns \ {c} PROVE Kept(d)
  <2>1. sock'[d] = sock[d]
    BY <1>5
  <2> QED BY <1>2, <2>1
<1>7. Kept(c)
  <2> USE DEF Sockets, Peer
  <2>1. CASE Connect(c) \/ PeerSends(c) \/ PeerShutsDown(c)
    <3>1. sock[c].fault = "none"
      BY <1>2, <2>1, <1>1 DEF Connect, PeerSends, PeerShutsDown
    <3>2. sock'[c].mid = sock[c].mid /\ sock'[c].fault = sock[c].fault
      BY <1>1, <2>1 DEF Connect, PeerSends, PeerShutsDown
    <3> QED BY <3>1, <3>2
  <2>2. CASE PeerReads(c)
    <3>1. /\ sock'[c].mid = sock[c].mid /\ sock'[c].fault = sock[c].fault
          /\ sock'[c].peer = sock[c].peer
      BY <1>1, <2>2 DEF PeerReads
    <3> QED BY <1>2, <3>1
  <2>3. CASE PeerCloses(c)
    <3>1. /\ sock'[c].mid = sock[c].mid /\ sock'[c].fault = sock[c].fault
          /\ sock'[c].peer = "gone"
      BY <1>1, <2>3 DEF PeerCloses
    <3> QED BY <3>1
  <2>4. CASE PeerResets(c)
    <3>1. /\ sock'[c].mid = sock[c].mid /\ sock'[c].fault # "none"
          /\ sock'[c].peer = "gone"
      BY <1>1, <2>4 DEF PeerResets
    <3> QED BY <3>1
  <2> QED BY <1>3, <2>1, <2>2, <2>3, <2>4
<1> QED BY <1>4, <1>6, <1>7

\* Errors of a write come from peers that are away.
LEMMA FaultStep ==
  ASSUME ServerInv, [Next]_vars
  PROVE  FaultInv'
<1> DEFINE AwayIfBroken(c) == sock'[c].fault # "none" => sock'[c].peer = "gone"
<1> USE DEF ServerInv, TypeOK, FaultInv, connVars, tableVars, feedVars
<1>1. sock \in [Conns -> Sockets]
  BY DEF SocketType, Sockets
<1>2. CASE Start
  <2>1. sock' = sock
    BY <1>2 DEF Start, ListenerStep, ListenerFails, CreateEpoll, EpollFails, AddListener
  <2>2. pc' # "killed"
    <3>1. CASE ListenerStep
      BY <3>1 DEF ListenerStep, After
    <3>2. CASE ~ListenerStep
      BY <1>2, <3>2 DEF Start, ListenerFails, CreateEpoll, EpollFails, AddListener, LoopTest
    <3> QED BY <3>1, <3>2
  <2> QED BY <2>1, <2>2
<1>3. CASE EpollWait \/ Timeout \/ BatchDone \/ Sigint
  BY <1>3 DEF EpollWait, Timeout, BatchDone, Sigint, LoopTest, Ended
<1>4. CASE (\E c \in Conns : Accept(c)) \/ AcceptFails
  BY <1>4 DEF Accept, AcceptFails, Accepting
<1>5. ASSUME NEW c \in Conns, AcceptUnwatched(c) PROVE FaultInv'
  <2>1. Closed.fault = "none" /\ pc' # "killed"
    BY <1>5 DEF AcceptUnwatched, Accepting, Closed, Fresh
  <2> QED BY <1>1, <1>5, <2>1 DEF AcceptUnwatched
<1>6. ASSUME NEW e \in batch, HandleHangUp(e) \/ HandleRead(e) PROVE FaultInv'
  <2>1. pc' # "killed"
    BY <1>6 DEF HandleHangUp, HandleRead
  <2>2. \A c \in Conns : sock'[c].fault = sock[c].fault /\ sock'[c].peer = sock[c].peer
    BY <1>1, <1>6 DEF HandleHangUp, HandleRead, Sockets
  <2> QED BY <2>1, <2>2
<1>7. CASE FeedReturns \/ FeedThrows \/ (\E r \in Requests : BeginAnswer(r)) \/ WriteDone
  BY <1>7 DEF FeedReturns, FeedThrows, BeginAnswer, WriteDone
<1>8. ASSUME NEW n \in 1..AnswerLen, WriteSome(n) PROVE FaultInv'
  <2>1. Cur \in Conns /\ pc' # "killed"
    BY <1>8, Served DEF WriteSome, Writing, Serving
  <2>2. \A c \in Conns \ {Cur} : sock'[c] = sock[c]
    BY <1>1, <1>8 DEF WriteSome
  <2>3. /\ sock'[Cur].fault = (IF sock[Cur].peer = "gone" THEN "pipe" ELSE "none")
        /\ sock'[Cur].peer = sock[Cur].peer
    BY <1>1, <1>8, <2>1 DEF WriteSome, Sockets
  <2> QED BY <2>1, <2>2, <2>3
<1>9. CASE WriteFails
  <2>1. Cur \in Conns /\ pc' # "killed"
    BY <1>9, Served DEF WriteFails, Writing, Serving
  <2>2. \A c \in Conns : sock'[c].peer = sock[c].peer
    BY <1>1, <1>9 DEF WriteFails, Sockets
  <2>3. \A c \in Conns : sock'[c].fault # "none" => sock[c].fault # "none"
    BY <1>1, <1>9, <2>1 DEF WriteFails, Sockets
  <2> QED BY <2>1, <2>2, <2>3
<1>10. CASE WriteKills
  BY <1>10 DEF WriteKills, Cur
<1>11. ASSUME NEW fd \in Fds, clients[fd] # None, Forget(fd) PROVE \A c \in Conns : AwayIfBroken(c)
  <2>1. Closed.peer = "gone"
    BY DEF Closed, Fresh
  <2>2. \A c \in Conns : sock'[c] = sock[c] \/ sock'[c] = Closed
    BY <1>1, <1>11, ForgetFacts
  <2> QED BY <2>1, <2>2
<1>12. CASE DropClient
  BY <1>11, <1>12, Served DEF DropClient, Serving, Cur
<1>13. CASE \E fd \in Fds : ClearClient(fd)
  BY <1>11, <1>13 DEF ClearClient
<1>14. CASE Return
  BY <1>14 DEF Return
<1>15. CASE Peers
  BY <1>15, PeersFacts DEF Ended
<1>16. CASE UNCHANGED vars
  BY <1>16 DEF vars, Cur
<1> QED BY <1>2, <1>3, <1>4, <1>5, <1>6, <1>7, <1>8, <1>9, <1>10, <1>12, <1>13,
           <1>14, <1>15, <1>16 DEF Next, Loop, Gone

\* What has been written of the current answer, over the steps of a write: none
\* to begin with, n more after n, and none of it is left open at the end.
LEMMA WrittenFacts ==
  ASSUME NEW l \in Nat \ {0}
  PROVE  /\ (l - l) % l = 0 /\ (l - 0) % l = 0
         /\ \A r \in 1..l, n \in 1..l :
              n <= r => (((l - r) % l) + n) % l = (l - (r - n)) % l
<1>1. (l - l) % l = 0 /\ (l - 0) % l = 0
  BY ModFacts
<1>2. ASSUME NEW r \in 1..l, NEW n \in 1..l, n <= r
      PROVE  (((l - r) % l) + n) % l = (l - (r - n)) % l
  <2>1. (l - r) % l = l - r
    <3>1. l - r \in 0..(l - 1)
      OBVIOUS
    <3> QED BY <3>1, ModFacts
  <2>2. (l - r) + n = l - (r - n)
    OBVIOUS
  <2> QED BY <2>1, <2>2
<1> QED BY <1>1, <1>2

\* A write leaves nothing unfinished but what it still has to write.
LEMMA AnswerStep ==
  ASSUME ServerInv, [Next]_vars
  PROVE  AnswerInv'
<1> USE ServerAssumption DEF ServerInv, TypeOK, ControlType, AnswerInv, connVars,
                             tableVars, feedVars
<1>1. sock \in [Conns -> Sockets]
  BY DEF SocketType, Sockets
<1>2. Closed.mid = 0
  BY DEF Closed, Fresh
<1>3. ASSUME pc' # "write", pc # "write", sock' = sock PROVE AnswerInv'
  BY <1>3
<1>4. CASE Start
  <2>1. sock' = sock /\ pc # "write"
    BY <1>4 DEF Start, ListenerStep, ListenerFails, CreateEpoll, EpollFails, AddListener, After
  <2>2. pc' # "write"
    <3>1. CASE ListenerStep
      BY <3>1 DEF ListenerStep, After
    <3>2. CASE ~ListenerStep
      BY <1>4, <3>2 DEF Start, ListenerFails, CreateEpoll, EpollFails, AddListener, LoopTest
    <3> QED BY <3>1, <3>2
  <2> QED BY <1>3, <2>1, <2>2
<1>5. CASE EpollWait \/ Timeout \/ BatchDone
  BY <1>3, <1>5 DEF EpollWait, Timeout, BatchDone, LoopTest
<1>6. CASE Sigint
  <2>1. UNCHANGED <<clients, ev, remaining, sock>> /\ (pc' = "write" <=> pc = "write")
    BY <1>6 DEF Sigint
  <2> QED BY <2>1 DEF Cur, Written
<1>7. CASE (\E c \in Conns : Accept(c)) \/ AcceptFails
  BY <1>3, <1>7 DEF Accept, AcceptFails, Accepting
<1>8. ASSUME NEW c \in Conns, AcceptUnwatched(c) PROVE AnswerInv'
  <2>1. pc # "write" /\ pc' # "write" /\ sock' = [sock EXCEPT ![c] = Closed]
    BY <1>8 DEF AcceptUnwatched, Accepting
  <2> QED BY <1>1, <1>2, <2>1
<1>9. ASSUME NEW e \in batch, HandleHangUp(e) \/ HandleRead(e) PROVE AnswerInv'
  <2>1. pc # "write" /\ pc' # "write"
    BY <1>9 DEF HandleHangUp, HandleRead, Pick
  <2>2. \A c \in Conns : sock'[c].fault = sock[c].fault /\ sock'[c].mid = sock[c].mid
    BY <1>1, <1>9 DEF HandleHangUp, HandleRead, Sockets
  <2> QED BY <2>1, <2>2
<1>10. CASE FeedReturns \/ FeedThrows
  BY <1>3, <1>10 DEF FeedReturns, FeedThrows
<1>11. ASSUME NEW r \in Requests, BeginAnswer(r) PROVE AnswerInv'
  <2>1. pc # "write" /\ sock' = sock /\ remaining' = AnswerLen
    BY <1>11 DEF BeginAnswer
  <2>2. Written' = 0
    BY <2>1, WrittenFacts DEF Written
  <2> QED BY <2>1, <2>2
<1>12. ASSUME NEW n \in 1..AnswerLen, WriteSome(n) PROVE AnswerInv'
  <2>1. Cur \in Conns /\ Cur' = Cur /\ pc = "write" /\ pc' = "write"
    BY <1>12, Served DEF WriteSome, Writing, Serving, Cur
  <2>2. \A c \in Conns \ {Cur} : sock'[c] = sock[c]
    BY <1>1, <1>12 DEF WriteSome
  <2>3. sock'[Cur].mid = (sock[Cur].mid + n) % AnswerLen
    BY <1>1, <1>12, <2>1 DEF WriteSome, Sockets
  <2>4. sock[Cur].mid = Written
    BY <1>12, <2>1 DEF WriteSome
  <2>5. remaining \in 1..AnswerLen /\ n <= remaining /\ remaining' = remaining - n
    BY <1>12 DEF WriteSome, Writing, LeftAfter
  <2>6. (Written + n) % AnswerLen = Written'
    BY <2>5, WrittenFacts DEF Written
  <2> QED BY <2>1, <2>2, <2>3, <2>4, <2>6
<1>13. CASE WriteFails
  <2>1. Cur \in Conns /\ Cur' = Cur /\ pc = "write" /\ pc' = "write"
    BY <1>13, Served DEF WriteFails, Writing, Serving, Cur
  <2>2. \A c \in Conns \ {Cur} : sock'[c] = sock[c]
    BY <1>1, <1>13 DEF WriteFails
  <2>3. sock'[Cur].fault # "none"
    BY <1>1, <1>13, <2>1 DEF WriteFails, Sockets
  <2> QED BY <2>1, <2>2, <2>3
<1>14. CASE WriteKills
  <2>1. Cur \in Conns /\ sock[Cur].fault = "pipe" /\ pc' # "write" /\ sock' = sock
    BY <1>14, Served DEF WriteKills, Writing, Serving
  <2> QED BY <2>1
<1>15. CASE WriteDone
  <2>1. pc' # "write" /\ sock' = sock
    BY <1>15 DEF WriteDone
  <2>2. Written = 0
    BY <1>15, WrittenFacts DEF WriteDone, Written
  <2> QED BY <2>1, <2>2
<1>16. ASSUME NEW fd \in Fds, clients[fd] # None, Forget(fd), pc # "write", pc' # "write"
       PROVE  AnswerInv'
  BY <1>1, <1>2, <1>16, ForgetFacts
<1>17. CASE DropClient
  BY <1>16, <1>17, Served DEF DropClient, Serving, Cur
<1>18. CASE \E fd \in Fds : ClearClient(fd)
  BY <1>16, <1>18 DEF ClearClient
<1>19. CASE Return
  BY <1>3, <1>19 DEF Return
<1>20. CASE Peers
  BY <1>20, PeersFacts DEF Cur, Written
<1>21. CASE UNCHANGED vars
  BY <1>21 DEF vars, Cur, Written
<1> QED BY <1>4, <1>5, <1>6, <1>7, <1>8, <1>9, <1>10, <1>11, <1>12, <1>13, <1>14,
           <1>15, <1>17, <1>18, <1>19, <1>20, <1>21 DEF Next, Loop, Gone

------------------------------------------------------------------------------
(* Theorems                                                                *)

\* The server starts in the invariant.
LEMMA InitInv == Init => ServerInv
<1> SUFFICES ASSUME Init PROVE ServerInv
  OBVIOUS
<1> USE ServerAssumption DEF Init
<1>1. ControlType
  <2>1. pc \in StartPCs /\ req \in Requests
    BY DEF StartPCs, Requests
  <2>2. rx \in 0..MaxRequests /\ remaining \in 0..AnswerLen
    OBVIOUS
  <2> QED BY <2>1, <2>2 DEF ControlType
<1>2. TableType /\ EventType
  BY DEF TableType, EventType
<1>3. SocketType
  BY SocketFacts DEF SocketType, Sockets
<1>4. StartInv /\ TableInv /\ SubscribersAreClients
  BY DEF StartInv, StartPCs, TableInv, SubscribersAreClients
<1>5. BatchInv /\ ServedInv
  BY DEF BatchInv, ServedInv, Serving
<1>6. FaultInv /\ AnswerInv
  BY DEF FaultInv, AnswerInv, Fresh
<1> QED BY <1>1, <1>2, <1>3, <1>4, <1>5, <1>6 DEF ServerInv, TypeOK

\* The inductive invariant of the server: what start-up, every event of the
\* loop, every write and every peer preserve.
THEOREM ServerInvariant == Spec => []ServerInv
<1>1. ServerInv /\ [Next]_vars => ServerInv'
  <2> SUFFICES ASSUME ServerInv, [Next]_vars PROVE ServerInv'
    OBVIOUS
  <2>1. TypeOK'
    BY ControlStep, TableTypeStep, EventStep, SocketStep DEF TypeOK
  <2>2. StartInv' /\ TableInv' /\ SubscribersAreClients'
    BY StartStep, TableStep, SubscribersStep
  <2>3. BatchInv' /\ ServedInv'
    BY BatchStep, ServedStep
  <2>4. FaultInv' /\ AnswerInv'
    BY FaultStep, AnswerStep
  <2> QED BY <2>1, <2>2, <2>3, <2>4 DEF ServerInv
<1> QED BY <1>1, InitInv, PTL DEF Spec

\* Every variable of the server loop keeps its type.
THEOREM TypeCorrect == Spec => []TypeOK
<1>1. ServerInv => TypeOK
  BY DEF ServerInv
<1> QED BY <1>1, ServerInvariant, PTL

\* A descriptor accept reuses while events wait never has one of them: drop_client
\* runs in the handling of its own event, of which there is one per descriptor.
THEOREM NoStrayEvent == Spec => []EventsReachTheirClient
<1>1. ServerInv => EventsReachTheirClient
  BY DEF ServerInv, BatchInv, ServedInv, Serving, EventsReachTheirClient
<1> QED BY <1>1, ServerInvariant, PTL

\* The client table owns every descriptor of a connection, on whichever path
\* run() is left.
THEOREM DescriptorsOwned == Spec => []NoDescriptorLeak
<1>1. ServerInv => NoDescriptorLeak
  BY DEF ServerInv, TableInv, StartInv, NoDescriptorLeak
<1> QED BY <1>1, ServerInvariant, PTL

\* on_disconnect comes before the client is erased: no subscription outlives it.
THEOREM NoOrphanSubscriber == Spec => []SubscribersAreClients
<1>1. ServerInv => SubscribersAreClients
  BY DEF ServerInv
<1> QED BY <1>1, ServerInvariant, PTL

\* The loop of TcpConnection::write hands over whole answers, however the kernel
\* cuts them.
THEOREM WholeAnswers == Spec => []AnswersWhole
<1>1. ServerInv => AnswersWhole
  BY DEF ServerInv, AnswerInv, AnswersWhole
<1> QED BY <1>1, ServerInvariant, PTL

\* SIGPIPE needs a peer that was there when epoll reported it and has left since.
THEOREM OnlyRaceKills == Spec => []KilledOnlyByRace
<1>1. ServerInv => KilledOnlyByRace
  <2> SUFFICES ASSUME ServerInv, pc = "killed" PROVE ~ev.hup /\ sock[Cur].peer = "gone"
    BY DEF KilledOnlyByRace
  <2>1. Cur \in Conns
    BY Served
  <2> QED BY <2>1 DEF ServerInv, ServedInv, FaultInv
<1> QED BY <1>1, ServerInvariant, PTL

\* Only a PLAY whose answer is written whole makes a subscriber.
THEOREM PlayIsAnsweredFirst == Spec => PlayAnsweredFirst
<1> DEFINE A == \A c \in subscribers' \ subscribers :
                  /\ pc = "write" /\ Cur = c /\ remaining = 0
                  /\ sock[c].fault = "none" => sock[c].mid = 0
<1>1. ASSUME ServerInv, [Next]_vars PROVE [A]_vars
  <2> USE DEF connVars, tableVars
  <2>1. CASE WriteDone
    <3>1. pc = "write" /\ remaining = 0 /\ subscribers' \subseteq subscribers \union {Cur}
      BY <2>1 DEF WriteDone
    <3>2. Cur \in Conns
      BY <3>1, <1>1, Served DEF Serving
    <3>3. Written = 0
      BY <3>1, WrittenFacts, ServerAssumption DEF Written
    <3>4. sock[Cur].fault = "none" => sock[Cur].mid = 0
      BY <1>1, <3>1, <3>2, <3>3 DEF ServerInv, AnswerInv
    <3> QED BY <3>1, <3>4
  <2>2. CASE Start
    BY <2>2 DEF Start, ListenerStep, ListenerFails, CreateEpoll, EpollFails, AddListener
  <2>3. CASE EpollWait \/ Timeout \/ BatchDone \/ Sigint
    BY <2>3 DEF EpollWait, Timeout, BatchDone, Sigint
  <2>4. CASE (\E c \in Conns : Accept(c) \/ AcceptUnwatched(c)) \/ AcceptFails
    BY <2>4 DEF Accept, AcceptUnwatched, AcceptFails
  <2>5. ASSUME NEW e \in batch, HandleHangUp(e) \/ HandleRead(e) PROVE A
    BY <2>5 DEF HandleHangUp, HandleRead, Pick
  <2>6. CASE FeedReturns \/ FeedThrows \/ \E r \in Requests : BeginAnswer(r)
    BY <2>6 DEF FeedReturns, FeedThrows, BeginAnswer, SubscribersAtAnswer
  <2>7. CASE (\E n \in 1..AnswerLen : WriteSome(n)) \/ WriteFails \/ WriteKills
    BY <2>7 DEF WriteSome, WriteFails, WriteKills
  <2>8. CASE DropClient \/ (\E fd \in Fds : ClearClient(fd)) \/ Return
    BY <2>8 DEF DropClient, ClearClient, Return, Forget, SubscribersAfter
  <2>9. CASE Peers
    BY <2>9 DEF Peers, Connect, PeerSends, PeerReads, PeerShutsDown, PeerCloses,
                PeerResets, Peer
  <2>10. CASE UNCHANGED vars
    BY <2>10
  <2> QED BY <1>1, <2>1, <2>2, <2>3, <2>4, <2>5, <2>6, <2>7, <2>8, <2>9, <2>10
          DEF Next, Loop, Gone
<1>2. ServerInv /\ [Next]_vars => [A]_vars
  BY <1>1
<1> QED BY <1>2, ServerInvariant, PTL DEF Spec, PlayAnsweredFirst
==============================================================================
