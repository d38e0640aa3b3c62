----------------------------- MODULE EpollServer -----------------------------
(***************************************************************************)
(* veda::rtsp::Server::run (src/rtsp/server.cpp) over TcpListener and      *)
(* TcpConnection (src/net/tcp_socket.cpp): start-up, the epoll loop with   *)
(* its batches of events, the client table, descriptors, blocking writes,  *)
(* and the shutdown on SIGINT.                                             *)
(*                                                                         *)
(* A session is what it does to the loop (RtspSession has its inside): a   *)
(* request is answered ("plain"), answered and then subscribed to the hub  *)
(* ("play"), unsubscribed and answered ("pause"), or that and followed by  *)
(* the end of the connection ("teardown").  How many requests the bytes of *)
(* one read make complete, and which of the four each is, comes out when   *)
(* they are handled; the bytes may also be too many, or hold a number that *)
(* is none.  The hub is the set of its subscribers.                        *)
(*                                                                         *)
(* `sock' is the kernel's side of a connection.  An answer is AnswerLen    *)
(* units long and at most SndBuf units wait unread, so that a write may    *)
(* stop half way and wait for the peer.  Peers connect, send, read, shut   *)
(* down, close and reset when they like.                                   *)
(***************************************************************************)
EXTENDS Naturals, FiniteSets

CONSTANTS
  Conns,        \* TCP connections, each made at most once
  Fds,          \* descriptors left for connections
  Backlog,      \* listen()'s second argument
  MaxRequests,  \* most requests one read may complete
  SndBuf,       \* units the kernel takes before the peer reads
  AnswerLen,    \* units of an answer
  None          \* no connection, no event

\* An event of epoll, with the connection it was raised for.
ClientEvents == [fd : Fds, conn : Conns, hup : BOOLEAN]

ASSUME ServerAssumption ==
  /\ Fds \subseteq Nat /\ Backlog \in Nat /\ MaxRequests \in Nat
  /\ SndBuf \in Nat \ {0} /\ AnswerLen \in Nat \ {0}
  /\ None \notin Conns \union Fds \union ClientEvents

VARIABLES
  pc,           \* the statement of run() the thread is at
  g_running,    \* cleared by the SIGINT handler
  listener,     \* the listening descriptor is open
  epoll_fd,     \* the epoll descriptor is open
  backlog,      \* connections waiting for accept
  open,         \* open[fd]: the connection behind descriptor fd
  interest,     \* descriptors registered with epoll
  clients,      \* clients[fd]: the connection the table has under fd
  batch,        \* events of the last epoll_wait not looked at yet
  ev,           \* the event being handled
  rx,           \* complete requests feed() has not handled yet
  req,          \* what the request being handled does
  remaining,    \* units of the current answer not written yet
  subscribers,  \* connections whose streamer is subscribed
  sock          \* sock[c]: the connection as the kernel sees it

setupVars == <<g_running, listener, epoll_fd>>
tableVars == <<open, interest, clients>>
feedVars == <<ev, rx, req, remaining>>
connVars == <<backlog, tableVars, subscribers, sock>>
vars == <<pc, g_running, listener, epoll_fd, backlog, open, interest, clients,
          batch, ev, rx, req, remaining, subscribers, sock>>

Requests == {"plain", "play", "pause", "teardown"}

\* Where the thread may be, and how the process may have ended.
StartPCs == {"socket", "setsockopt", "bind", "listen", "epoll_create", "epoll_ctl"}
Ended == {"failed", "exited", "killed", "crashed"}

\* peer: not connected yet, sending and reading, only reading, or away.
\* inbox: bytes wait to be read; unread: units that wait for the peer.
\* fault: the error the next write meets, ECONNRESET or EPIPE.
\* mid: units of an unfinished answer that have been written.
Fresh == [peer |-> "new", inbox |-> FALSE, unread |-> 0, fault |-> "none", mid |-> 0]
Closed == [Fresh EXCEPT !.peer = "gone"]

ListenerEvent == [fd |-> None, conn |-> None, hup |-> FALSE]

Init ==
  /\ pc = "socket"
  /\ g_running = TRUE
  /\ listener = FALSE
  /\ epoll_fd = FALSE
  /\ backlog = {}
  /\ open = [fd \in Fds |-> None]
  /\ interest = {}
  /\ clients = [fd \in Fds |-> None]
  /\ batch = {}
  /\ ev = None
  /\ rx = 0
  /\ req = "plain"
  /\ remaining = 0
  /\ subscribers = {}
  /\ sock = [c \in Conns |-> Fresh]

------------------------------------------------------------------------------
(* Start-up                                                                *)

After == [socket |-> "setsockopt", setsockopt |-> "bind", bind |-> "listen",
          listen |-> "epoll_create"]

\* One more system call of TcpListener's constructor succeeds ...
ListenerStep ==
  /\ pc \in DOMAIN After
  /\ listener' = TRUE
  /\ pc' = After[pc]
  /\ UNCHANGED <<g_running, epoll_fd, connVars, batch, feedVars>>

\* ... or fails: the descriptor is closed, fd() is -1, run() returns 1.
ListenerFails ==
  /\ pc \in DOMAIN After
  /\ listener' = FALSE
  /\ pc' = "failed"
  /\ UNCHANGED <<g_running, epoll_fd, connVars, batch, feedVars>>

CreateEpoll ==
  /\ pc = "epoll_create"
  /\ epoll_fd' = TRUE
  /\ pc' = "epoll_ctl"
  /\ UNCHANGED <<g_running, listener, connVars, batch, feedVars>>

\* Mutant: the early return forgets the epoll descriptor.
EpollLeft == epoll_fd
EpollAfterFailure == FALSE

\* epoll_create1 or epoll_ctl(listener) fails: close what is open, return 1.
EpollFails ==
  /\ pc \in {"epoll_create", "epoll_ctl"}
  /\ epoll_fd' = EpollAfterFailure
  /\ listener' = FALSE
  /\ pc' = "failed"
  /\ backlog' = {}
  /\ UNCHANGED <<g_running, tableVars, batch, feedVars, subscribers, sock>>

\* while (g_running)
LoopTest == IF g_running THEN "wait" ELSE "clear"

AddListener ==
  /\ pc = "epoll_ctl"
  /\ pc' = LoopTest
  /\ UNCHANGED <<setupVars, connVars, batch, feedVars>>

------------------------------------------------------------------------------
(* The loop                                                                *)

\* What level-triggered epoll reports, once per descriptor: a hang-up as soon
\* as the peer has stopped sending, whether or not bytes are left to read.
Reported(fd) ==
  LET s == sock[open[fd]] IN s.peer # "open" \/ s.inbox
Event(fd) ==
  [fd |-> fd, conn |-> open[fd], hup |-> sock[open[fd]].peer # "open"]
\* Mutant: hang-ups are not watched.
ReadyOnlyInput ==
  {Event(fd) : fd \in {f \in interest : sock[open[f]].inbox}}
    \union (IF backlog # {} THEN {ListenerEvent} ELSE {})
Ready ==
  {Event(fd) : fd \in {f \in interest : Reported(f)}}
    \union (IF backlog # {} THEN {ListenerEvent} ELSE {})

EpollWait ==
  /\ pc = "wait"
  /\ Ready # {}
  /\ batch' = Ready
  /\ pc' = "batch"
  /\ UNCHANGED <<setupVars, connVars, feedVars>>

\* Mutant: the wait is repeated without looking at g_running.
TimeoutWaitsOn == pc = "wait" /\ Ready = {} /\ UNCHANGED vars

\* kEpollTimeoutMs have passed without an event.
Timeout ==
  /\ pc = "wait"
  /\ Ready = {}
  /\ pc' = LoopTest
  /\ UNCHANGED <<setupVars, connVars, batch, feedVars>>

\* SIGINT: it may find the thread inside epoll_wait, which then returns EINTR,
\* or anywhere else, between the test of g_running and epoll_wait included.
Sigint ==
  /\ pc \notin Ended
  /\ g_running
  /\ g_running' = FALSE
  /\ pc' \in {pc} \union (IF pc = "wait" /\ Ready = {} THEN {"clear"} ELSE {})
  /\ UNCHANGED <<listener, epoll_fd, connVars, batch, feedVars>>

BatchDone ==
  /\ pc = "batch"
  /\ batch = {}
  /\ pc' = LoopTest
  /\ UNCHANGED <<setupVars, connVars, batch, feedVars>>

------------------------------------------------------------------------------
(* A connection to accept                                                  *)

FreeFds == {fd \in Fds : open[fd] = None}
\* accept returns the lowest descriptor that is free.
Lowest(fds) == CHOOSE fd \in fds : \A g \in fds : fd <= g

Accepting == pc = "batch" /\ ListenerEvent \in batch

\* unordered_map::emplace leaves an entry that is already there alone.
Emplace(fd, c) == [clients EXCEPT ![fd] = IF @ = None THEN c ELSE @]

Accept(c) ==
  /\ Accepting
  /\ FreeFds # {}
  /\ c \in backlog
  /\ backlog' = backlog \ {c}
  /\ open' = [open EXCEPT ![Lowest(FreeFds)] = c]
  /\ interest' = interest \union {Lowest(FreeFds)}
  /\ clients' = Emplace(Lowest(FreeFds), c)
  /\ batch' = batch \ {ListenerEvent}
  /\ UNCHANGED <<pc, setupVars, feedVars, subscribers, sock>>

\* epoll_ctl(client) fails: the Client is destroyed, which closes it.
AcceptUnwatched(c) ==
  /\ Accepting
  /\ FreeFds # {}
  /\ c \in backlog
  /\ backlog' = backlog \ {c}
  /\ sock' = [sock EXCEPT ![c] = Closed]
  /\ batch' = batch \ {ListenerEvent}
  /\ UNCHANGED <<pc, setupVars, tableVars, feedVars, subscribers>>

\* accept fails, for want of a descriptor (the sockets of streamers and the
\* source count too) or of memory; the connection stays in the backlog.
AcceptFails ==
  /\ Accepting
  /\ batch' = batch \ {ListenerEvent}
  /\ UNCHANGED <<pc, setupVars, connVars, feedVars>>

------------------------------------------------------------------------------
(* An event of a client                                                    *)

\* Mutant: the hang-up flags are not looked at.
HangUpIgnored(e) == FALSE

\* EPOLLHUP, EPOLLERR and EPOLLRDHUP come first: what has arrived is not read.
HangUp(e) == e.hup

\* Take event e out of the batch.
Pick(e) ==
  /\ pc = "batch"
  /\ e \in batch \ {ListenerEvent}
  /\ batch' = batch \ {e}
  /\ ev' = e
  /\ UNCHANGED <<setupVars, backlog, tableVars, req, remaining, subscribers>>

\* The hang-up of a client; a descriptor the table does not have is skipped.
HandleHangUp(e) ==
  /\ Pick(e)
  /\ HangUp(e) \/ clients[e.fd] = None
  /\ pc' = IF clients[e.fd] = None THEN "batch" ELSE "drop"
  /\ UNCHANGED <<rx, sock>>

\* read() returns 0 or an error if nothing is there; feed() is given the rest,
\* and returns false at once if its buffer has become too long.
HandleRead(e) ==
  /\ Pick(e)
  /\ ~HangUp(e)
  /\ clients[e.fd] # None
  /\ LET c == clients[e.fd] IN
       /\ \/ /\ sock[c].inbox
             /\ rx' \in 0..MaxRequests
             /\ pc' = "feed"
          \/ rx' = 0 /\ pc' = "drop"
       /\ sock' = [sock EXCEPT ![c].inbox = FALSE]

\* The client being served.
Cur == clients[ev.fd]

FeedReturns ==
  /\ pc = "feed"
  /\ rx = 0
  /\ pc' = "batch"
  /\ ev' = None
  /\ UNCHANGED <<setupVars, connVars, batch, rx, req, remaining>>

\* The CSeq of the next request is no number: std::stoi throws, nobody catches,
\* the process terminates.
FeedThrows ==
  /\ pc = "feed"
  /\ rx > 0
  /\ pc' = "crashed"
  /\ UNCHANGED <<setupVars, connVars, batch, feedVars>>

\* Mutant: PLAY subscribes before it answers.
SubscribersAtAnswerEager(r) ==
  IF r = "play" THEN subscribers \union {Cur} ELSE subscribers

\* PAUSE and TEARDOWN stop the stream before they answer.
SubscribersAtAnswer(r) ==
  IF r \in {"pause", "teardown"} THEN subscribers \ {Cur} ELSE subscribers

\* A handler has made its answer: conn.write begins.  From here on PAUSE is
\* like any other request.
BeginAnswer(r) ==
  /\ pc = "feed"
  /\ rx > 0
  /\ rx' = rx - 1
  /\ req' = IF r = "pause" THEN "plain" ELSE r
  /\ subscribers' = SubscribersAtAnswer(r)
  /\ remaining' = AnswerLen
  /\ pc' = "write"
  /\ UNCHANGED <<setupVars, backlog, tableVars, batch, ev, sock>>

------------------------------------------------------------------------------
(* TcpConnection::write                                                    *)

Writing == pc = "write" /\ remaining > 0

\* What is left to write after the kernel has taken n units.
\* Mutant: a partial write is taken for a whole one.
LeftAfterOnce(n) == 0
LeftAfter(n) == remaining - n

\* The kernel takes n units.  To a peer that has closed they are answered with
\* a reset, which the next write meets as EPIPE.
WriteSome(n) ==
  LET s == sock[Cur] IN
  /\ Writing
  /\ s.fault = "none"
  /\ n <= remaining
  /\ s.unread + n <= SndBuf
  /\ remaining' = LeftAfter(n)
  /\ sock' = [sock EXCEPT ![Cur] =
       [s EXCEPT !.mid = (s.mid + n) % AnswerLen,
                 !.unread = IF s.peer = "gone" THEN 0 ELSE s.unread + n,
                 !.fault = IF s.peer = "gone" THEN "pipe" ELSE "none"]]
  /\ UNCHANGED <<pc, setupVars, backlog, tableVars, batch, ev, rx, req, subscribers>>

\* Mutant: send's -1 is counted as a length.
LeftAfterErrorCounted == remaining + 1
LeftAfterError == 0

\* ECONNRESET: write returns -1, which nobody looks at.
WriteFails ==
  /\ Writing
  /\ sock[Cur].fault = "reset"
  /\ remaining' = LeftAfterError
  /\ sock' = [sock EXCEPT ![Cur].fault = "pipe"]
  /\ UNCHANGED <<pc, setupVars, backlog, tableVars, batch, ev, rx, req, subscribers>>

\* EPIPE comes with SIGPIPE, which nobody handles: the kernel ends the process
\* and closes everything.
WriteKills ==
  /\ Writing
  /\ sock[Cur].fault = "pipe"
  /\ pc' = "killed"
  /\ UNCHANGED <<setupVars, connVars, batch, feedVars>>

\* The answer is out: PLAY asks the hub, which may refuse; TEARDOWN makes feed
\* return false; otherwise feed goes on with the next request.
WriteDone ==
  /\ pc = "write"
  /\ remaining = 0
  /\ subscribers' \in
       {subscribers} \union (IF req = "play" THEN {subscribers \union {Cur}} ELSE {})
  /\ pc' = IF req = "teardown" THEN "drop" ELSE "feed"
  /\ req' = "plain"
  /\ UNCHANGED <<setupVars, backlog, tableVars, batch, ev, rx, remaining, sock>>

------------------------------------------------------------------------------
(* Removal of a client, and the end                                        *)

\* Mutant: the session is not told.
SubscribersAfterKeeps(c) == subscribers
SubscribersAfter(c) == subscribers \ {c}

\* Mutant: the table entry stays.
TableAfterKeeps(fd) == clients
TableAfter(fd) == [clients EXCEPT ![fd] = None]

\* EPOLL_CTL_DEL, on_disconnect, erase: the Client's descriptor is closed.
Forget(fd) ==
  /\ interest' = interest \ {fd}
  /\ subscribers' = SubscribersAfter(clients[fd])
  /\ clients' = TableAfter(fd)
  /\ open' = [open EXCEPT ![fd] = None]
  /\ sock' = [sock EXCEPT ![clients[fd]] = Closed]

\* drop_client
DropClient ==
  /\ pc = "drop"
  /\ Forget(ev.fd)
  /\ pc' = "batch"
  /\ ev' = None
  /\ rx' = 0
  /\ UNCHANGED <<setupVars, backlog, batch, req, remaining>>

\* clients.clear(), one client after the other; closing removes it from epoll.
ClearClient(fd) ==
  /\ pc = "clear"
  /\ clients[fd] # None
  /\ Forget(fd)
  /\ UNCHANGED <<pc, setupVars, backlog, batch, feedVars>>

\* close(epoll_fd), the hub and the listener are destroyed, run() returns 0.
Return ==
  /\ pc = "clear"
  /\ \A fd \in Fds : clients[fd] = None
  /\ epoll_fd' = FALSE
  /\ listener' = FALSE
  /\ backlog' = {}
  /\ pc' = "exited"
  /\ UNCHANGED <<g_running, tableVars, batch, feedVars, subscribers, sock>>

------------------------------------------------------------------------------
(* The peers                                                               *)

Listening == listener /\ pc \notin (StartPCs \ {"epoll_create", "epoll_ctl"}) \union Ended

Connect(c) ==
  /\ Listening
  /\ sock[c].peer = "new"
  /\ Cardinality(backlog) < Backlog
  /\ backlog' = backlog \union {c}
  /\ sock' = [sock EXCEPT ![c].peer = "open"]
  /\ UNCHANGED <<pc, setupVars, tableVars, batch, feedVars, subscribers>>

\* A change of sock[c] by the peer, while the server is there.
Peer(c, s) ==
  /\ pc \notin Ended
  /\ sock' = [sock EXCEPT ![c] = s]
  /\ UNCHANGED <<pc, setupVars, backlog, tableVars, batch, feedVars, subscribers>>

PeerSends(c) ==
  /\ sock[c].peer = "open"
  /\ Peer(c, [sock[c] EXCEPT !.inbox = TRUE])

PeerReads(c) ==
  /\ sock[c].unread > 0
  /\ Peer(c, [sock[c] EXCEPT !.unread = @ - 1])

\* shutdown(SHUT_WR): it still reads.
PeerShutsDown(c) ==
  /\ sock[c].peer = "open"
  /\ Peer(c, [sock[c] EXCEPT !.peer = "half"])

\* close() with everything read: a FIN, and a reset for whatever comes later.
PeerCloses(c) ==
  /\ sock[c].peer \in {"open", "half"}
  /\ sock[c].unread = 0
  /\ Peer(c, [sock[c] EXCEPT !.peer = "gone"])

\* A reset; the kernel may drop what had arrived.  Behind a FIN it is EPIPE.
PeerResets(c) ==
  /\ sock[c].peer \in {"open", "half"}
  /\ \E left \in {FALSE, sock[c].inbox} :
       Peer(c, [sock[c] EXCEPT !.peer = "gone", !.inbox = left, !.unread = 0,
                  !.fault = IF @ = "none" /\ sock[c].peer = "open"
                              THEN "reset" ELSE "pipe"])

------------------------------------------------------------------------------

\* The process has ended.
Gone == pc \in Ended /\ UNCHANGED vars

Start ==
  \/ ListenerStep \/ ListenerFails \/ CreateEpoll \/ EpollFails \/ AddListener

Loop ==
  \/ EpollWait \/ Timeout \/ BatchDone
  \/ (\E c \in Conns : Accept(c) \/ AcceptUnwatched(c)) \/ AcceptFails
  \/ (\E e \in batch : HandleHangUp(e) \/ HandleRead(e))
  \/ FeedReturns \/ FeedThrows \/ (\E r \in Requests : BeginAnswer(r))
  \/ (\E n \in 1..AnswerLen : WriteSome(n)) \/ WriteFails \/ WriteKills \/ WriteDone
  \/ DropClient \/ (\E fd \in Fds : ClearClient(fd)) \/ Return

Peers ==
  \E c \in Conns :
    \/ Connect(c) \/ PeerSends(c) \/ PeerReads(c)
    \/ PeerShutsDown(c) \/ PeerCloses(c) \/ PeerResets(c)

Next == Start \/ Loop \/ Sigint \/ Peers \/ Gone

Spec == Init /\ [][Next]_vars

\* The thread runs; a write that waits for the peer is the only thing that can
\* hold it up (MediaHub shows that hub calls return).
LoopSpec == Spec /\ WF_vars(Start \/ Loop)

\* Moreover, accept does not fail each time for ever.
AcceptSpec == LoopSpec /\ SF_vars(\E c \in Conns : Accept(c))

\* Peers, besides LoopSpec, read what they are sent, or go away.
FairSpec == LoopSpec /\ WF_vars(\E c \in Conns : PeerReads(c))

------------------------------------------------------------------------------
(* Properties                                                              *)

\* The thread, and what it is working on.
ControlType ==
  /\ pc \in StartPCs \union Ended \union
            {"wait", "batch", "feed", "write", "drop", "clear"}
  /\ g_running \in BOOLEAN /\ listener \in BOOLEAN /\ epoll_fd \in BOOLEAN
  /\ rx \in 0..MaxRequests
  /\ req \in Requests
  /\ remaining \in 0..AnswerLen

TableType ==
  /\ backlog \subseteq Conns
  /\ open \in [Fds -> Conns \union {None}]
  /\ interest \subseteq Fds
  /\ clients \in [Fds -> Conns \union {None}]
  /\ subscribers \subseteq Conns

EventType ==
  /\ batch \subseteq ClientEvents \union {ListenerEvent}
  /\ ev \in ClientEvents \union {None}

SocketType ==
  sock \in [Conns -> [peer : {"new", "open", "half", "gone"}, inbox : BOOLEAN,
                      unread : 0..SndBuf, fault : {"none", "reset", "pipe"},
                      mid : 0..(AnswerLen - 1)]]

\* Every variable has its type.
TypeOK == ControlType /\ TableType /\ EventType /\ SocketType

\* Descriptors are reused within a batch, but an event never reaches another
\* connection than the one it was raised for: until it is handled, the table
\* has that connection under its descriptor.
EventsReachTheirClient ==
  \A e \in (batch \union {ev}) \ {ListenerEvent, None} :
    pc \in {"batch", "feed", "write", "drop"} => clients[e.fd] = e.conn

\* The table has exactly the open descriptors and epoll watches exactly these;
\* when run() has returned, on whichever path, no descriptor is left open.
NoDescriptorLeak ==
  /\ clients = open
  /\ interest = {fd \in Fds : open[fd] # None}
  /\ pc \in {"failed", "exited"} =>
       ~listener /\ ~epoll_fd /\ \A fd \in Fds : open[fd] = None

\* Nobody stays subscribed who is not in the client table: the hub outlives
\* every subscription, and a lost client leaves none behind.
SubscribersAreClients ==
  \A c \in subscribers : \E fd \in Fds : clients[fd] = c

\* Answers reach a peer whole: once write has returned, and unless the
\* connection is broken, the bytes handed over end with an answer.
AnswersWhole ==
  \A c \in Conns :
    (sock[c].fault = "none" /\ sock[c].peer # "gone") =>
      sock[c].mid = 0 \/ (pc = "write" /\ Cur = c)

\* Only a client that leaves after epoll has reported it as alive can end the
\* process by SIGPIPE: nothing is written to one that was seen leaving.
KilledOnlyByRace ==
  pc = "killed" => ~ev.hup /\ sock[Cur].peer = "gone"

\* The client has the answer to PLAY before the hub may send it media.
PlayAnsweredFirst ==
  [][ \A c \in subscribers' \ subscribers :
        /\ pc = "write" /\ Cur = c /\ remaining = 0
        /\ sock[c].fault = "none" => sock[c].mid = 0 ]_vars

\* Nobody is starved by the others, and nobody who has left is kept: a request
\* that has arrived is read, and a client that has closed, half-closed or reset
\* its connection is dropped (hence unsubscribed), unless the process ends.
ClientsAreAttended ==
  \A c \in Conns :
    (\E fd \in Fds : clients[fd] = c /\ Reported(fd)) ~>
      (~(\E fd \in Fds : clients[fd] = c /\ Reported(fd)) \/ pc \in Ended)

\* SIGINT ends the process, at whatever moment it arrives: server.cpp's reason
\* for giving epoll_wait a timeout.
SigintEndsServer == (~g_running) ~> (pc \in Ended)

------------------------------------------------------------------------------
(* What a comment says, and the code does not do                           *)

\* server.hpp: accept and the requests of other clients go on whatever a client
\* does: a connection does not stay in the backlog while a descriptor is free.
AcceptNeverStalls ==
  \A c \in Conns :
    (c \in backlog /\ pc \notin Ended) ~>
      (c \notin backlog \/ FreeFds = {} \/ pc \in Ended)
==============================================================================
