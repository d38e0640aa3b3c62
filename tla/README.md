# A TLA+ verification of VEDA_RTSP

VEDA_RTSP is a small RTSP/RTP video server in C++: one epoll thread speaks RTSP
with every client, one pump thread reads H.264 from a camera process or a file
and sends it as RTP over UDP to every client that plays. This directory models
the server's own logic in TLA+, checks it with TLC on small instances and proves
the central results with TLAPS for every value of the constants.

Paths such as `media/hub.cpp` are relative to the repository's `src/`.

## 1. Inventory

| Component | State | Operations | Talks to |
|---|---|---|---|
| `media::Hub` | `mu_`, `subscribers_`, `source_`, `running_`, `pump_thread_`, SPS/PPS cache | `subscribe`, `unsubscribe`, `sprop_parameter_sets`, `pump`, `on_nal`, constructor (prescan), destructor | called by sessions on the epoll thread; runs the pump thread; reads a `NalSource`; calls every subscribed `Streamer` |
| `rtsp::Session` | `state_`, `session_id_`, client ports, `streamer_`, `rx_buffer_` | `feed`, `handle`, one handler per method, `stop_streaming`, `on_disconnect` | fed by the server loop; sends answers through it; calls the hub |
| `rtsp::Server` | client table, epoll set, batch of events, `g_running` | start-up, accept, read, hang-up, `drop_client`, SIGINT, shutdown | owns the sessions and the hub |
| `net::TcpListener`, `TcpConnection` | descriptor | socket to listen, `accept_one`, `read`, `write` | used by the server loop; `write` blocks it |
| parser, `Response`, SDP, base64 | none | pure functions | used by the session and the hub |
| `rtp::Streamer` + FU-A + packetizer, `net::UdpSocket` | `sequence_`, `timestamp_`, `ssrc_`, socket | `connect`, `send_nal`, `advance_timestamp` | called by the hub with `mu_` held |
| `media::AnnexBReader` | `buffer_` | `read_nal` | used by both sources and the prescan |
| `FileSource`, `camera::Source` | file or pipe, reader, pacing clock | `start`, `read_nal`, `stop` | driven by the hub |

Hard behaviours: the two threads meet at `mu_`, at the atomic `running_` and,
without a lock, at `source_`; the pump may end by itself at any time while the
epoll thread is about to subscribe, unsubscribe or destroy the hub; joins happen
once with the mutex held (`subscribe`) and once without it (`unsubscribe`);
requests arrive fragmented and pipelined; a client may disappear at any moment;
descriptors are reused within a batch of events; answers are written in pieces,
to clients that do not read or have left; SIGINT comes at any moment; a looping
file is read twice in the call that reaches its end; counters wrap; datagrams
are lost; start codes straddle reads. `PROJECT.json`
lists these hazards line by line with the property that watches each one.

What makes each component correct:

- hub: no data race on what `mu_` protects, the source is never replaced under
  the pump, the thread handle is never overwritten, no join deadlocks, a
  released streamer is not touched any more, a hub without viewers is off, and
  every subscriber gets every NAL unit from its subscription on, once;
- session: one answer per request, the documented state table, resources that
  match the state, refusals without effect;
- server: an event reaches the client it was raised for, no descriptor leaks on
  any path, nobody stays subscribed who is gone, answers are whole, everybody is
  attended to, and SIGINT ends the process;
- streamer: a NAL unit can be rebuilt from its packets, and a loss is visible;
- bytes: decoders written after the RFCs get back what was put in, and DESCRIBE
  advertises the first SPS and PPS;
- reader: exactly the NAL units of the stream, however the reads cut it;
- sources: order and completeness across the rewind, no faster than real time,
  and no end while the file loops.

## 2. Modules

| Module | Models | Role |
|---|---|---|
| `Broadcast` | the contract in `media/hub.hpp` | abstract specification: members join and leave, each message goes to all members at once |
| `MediaHub` | `media/hub.cpp` and its callers | two threads, one program counter each |
| `MediaHubProofs` | | TLAPS proofs about `MediaHub` |
| `RtspStateMachine` | the tables in `rtsp/session.hpp` | abstract specification of what a client sees |
| `RtspParser` | `rtsp/parser.cpp` | from what the client wrote to a request, an error or an exception; no state |
| `RtspSession` | `rtsp/session.cpp`, its caller in `rtsp/server.cpp` | all sessions on the single epoll thread; extends `RtspParser`, implements `RtspStateMachine` |
| `RtspSessionProofs` | | TLAPS proofs about `RtspSession` and `RtspParser` |
| `EpollServer` | `rtsp/server.cpp`, `net/tcp_socket.cpp` | the loop, its clients' connections and the kernel's side of them |
| `EpollServerProofs` | | TLAPS proofs about `EpollServer` |
| `RtpStreamer` | `rtp/streamer.cpp`, `rtp/h264_fua.cpp`, the timestamp rule of `on_nal` | one streamer, its network and its receiver |
| `RtpStreamerProofs` | | TLAPS proofs about `RtpStreamer` |
| `AnnexBReader` | `media/annexb_reader.cpp` | the reader over every short stream |
| `AnnexBReaderProofs` | | TLAPS proofs about `AnnexBReader` |
| `NalSource` | `media/file_source.cpp`, `camera/source.cpp` | what the hub's pump reads from, with the clock |
| `NalSourceProofs` | | TLAPS proofs about `NalSource` |
| `WireFormat` | prescan and caches of `media/hub.cpp`, `util/base64.cpp`, `sdp/builder.cpp`, `rtp/packetizer.cpp`, bytes of `rtp/h264_fua.cpp` | what is sent, byte by byte, and decoders to judge it |
| `WireFormatProofs` | | TLAPS proofs about `WireFormat` |
| `MC*` | | instances for TLC |

### MediaHub
`epoll` and `pump` are the program counters. A hub call is split at each access
to state that both threads can see: taking the mutex, reading or writing
`running_`, joining, using `source_`. Statements on data that a held mutex
protects are merged. `subscribers_` is a set because a session passes a streamer
that it has just created. `held` is the set of streamers kept in
`Session::streamer_`. The source is any source that obeys `nal_source.hpp`: it
may fail to start, call back up to `MaxCallbacks` times per `read_nal` (a file
at its end does so twice) and end at any time. `phase` and `last` are history
variables: one bit that flips with each NAL unit, and the bit of the NAL unit
each streamer sent last. One bit is enough, since a streamer that missed a
message or got one twice would be out of step.

### RtspSession
`pc` says where the epoll thread is. A read delivers some complete requests and
some fragments; `feed` answers them one by one, and a handler that calls the hub
(`DESCRIBE`, `PLAY`, `PAUSE`, `TEARDOWN`) has a step before and one after the
call. Messages are what `RtspParser` reads: the shape of the request line, and
header lines with a name, its spelling and a value. Values are reduced to the
cases the code tells apart (a Transport header without a port, not numeric, with
one port, a pair, or a pair whose second half is junk; a CSeq that is a number,
a number with junk behind it, or none). Names compare without regard to case but
key the map by their text, as in the code. `parse_transport` assigns
the ports as it goes, as the code does. `streamer_` is the narrowed port that
the streamer sends to. `negotiated` is a history variable: the port in the
latest `200` to SETUP.

### EpollServer
`pc` is the statement of `run()` the thread is at. Start-up is one step for each
system call, which may fail. `epoll_wait` takes a batch of events: which
connection each was raised for is remembered in the event (`conn`), which the
code does not have and only properties look at. Events of a batch are handled in
any order; `clients`, epoll's `interest` and the kernel's `open` descriptors are
separate, so that they may disagree; accept gives the lowest free descriptor. A
session is its effect on the loop: a read completes any number of requests up to
`MaxRequests`, each of one of four kinds, or overflows the session's buffer, for
which `feed` returns false without an answer; a request whose CSeq is no number
ends the process (`FeedThrows`). Handlers, answers and hub calls
keep the order of the code (PLAY answers first and subscribes then, PAUSE and
TEARDOWN the other way round). `write` loops over system calls that take as
much as fits; with no room the thread waits. `sock` is the peer and the kernel:
a peer may half-close, close and reset, and the first write to a connection that
is gone draws a reset, the second one SIGPIPE. `g_running` is cleared by SIGINT
at any point, between the loop test and `epoll_wait` too.

### NalSource
The content of the file or pipe is a sequence of NAL types (`AnnexBReader` is
what makes one of bytes), one for each start code; one with nothing behind it
begins an empty NAL unit, for which the reader returns without a callback.
`read_nal` is split at each call of the reader and at
the sleep. Time is counted in frame periods: `late` is by how many periods
`next_frame_time_` is past, `slack` is a history variable for periods passed
less slices handed over.

### WireFormat
NAL units are short sequences of real bytes, empty ones excluded, which no
callback is made for. Of the SDP there are the payload type, the clock, the
packetization mode and the parameter sets. The prescan of the constructor and
`on_nal` share the caches as in the code; DESCRIBE may come at any time. `OnNal`
is the whole of it for one subscriber with a socket that works; MediaHub and
RtpStreamer have what this leaves out. The decoders (`ReadPacket`, `Rebuilt`,
`Decoded`) are written from RFC 3550, 6184 and 4648, not from the code.

### RtpStreamer
A payload is the range of NAL bytes that it carries with the FU-A start and end
bits. `got` is the last packet that reached the receiver; between two arrivals
up to `MaxBurst` packets may be lost or refused by the socket. `frame` numbers
the encoder's pictures, which the code cannot see: that is what the timestamp
rules are about. The marker bit is in the packets as `send_nal` sets it, and no
property judges it (section 4).

### AnnexBReader
A byte is 0, 1 or "something else". `buffer_` is a window of the stream. A read
returns any number of bytes up to the chunk size. The reference definition finds
the codes `00 00 01` in the whole stream, without buffers or chunks; the model
must hand over the same ranges. A code takes one zero byte before it along, as
the code does (`00 00 00 01`); further zeros, which Annex B calls
`trailing_zero_8bits`, stay with the NAL unit in both. A read error is treated as the end of the
stream, as in the code, so it is the same as a shorter stream.

## 3. Runs

| Run | Instance | Shows |
|---|---|---|
| `hub` | 3 streamers, 2 callbacks per read, with fairness | all safety invariants of the hub, the refinement of `Broadcast`; every call returns |
| `session` | 1 client, 28 messages, up to 2 per read, overflow at 3, with fairness | answers, state machine, resources; the epoll thread always gets back to `epoll_wait` |
| `server` | 2 connections, 2 descriptors, backlog 2, up to 2 requests per read, answers of 2 units with room for 1, with fairness | events, descriptors, subscriptions, whole answers, attention to everybody, end on SIGINT |
| `streamer` | MTU 4, NAL lengths 1 to 8, sequence modulo 4, timestamp modulo 5, bursts of 3 | fragments, numbering, timestamps under loss |
| `wire` | streams of up to 3 of 7 NAL units, MTU 4, prescan of 2, sequence from 0 and 65534, timestamp from 0 and 2145000000 | bytes of packets, SDP and base64; which parameter sets are advertised |
| `annexb` | streams of up to 9 symbols, chunks of up to 4 | exactly the NAL units, each once, in order |
| `source` | streams of up to 4 NAL units, empty ones among them, a caller up to 2 periods late | order, end and pacing of file and camera |
| `hub_pumped`, `session_port`, `session_broken`, `streamer_slices`, `server_blocked` | | each violates one sentence of a comment or a document; section 4 |

Why the bounds are enough. Three streamers give a fan-out with one served, one
waiting and one leaving or joining; more streamers add nothing, and the proofs
cover any number. Two callbacks per read are the most a source makes
(`NalSource`'s `TypeOK` says so). One session suffices for the properties of a
session since sessions share nothing but the thread; what they do to each other
through it is `EpollServer`'s business. Two requests per read with TEARDOWN
first, and three units of buffer, reach pipelining and overflow. Two
connections on two descriptors have each descriptor closed and taken by the
other connection within one batch; an answer of two units with room for one has
a write that is cut short and one that waits, and a second answer behind it. A
connection is made once: later ones are like the first. With MTU 4, lengths 1 to
8 contain a single packet, exactly the MTU, one more, and four fragments with
full and short last ones. The NAL units of `wire` have every length modulo 3,
which is what base64 distinguishes, and sequence 65534 wraps within a NAL unit;
32-bit values stay below 2^31, TLC's integers, so the wrap of the timestamp is
left to `streamer`. Nine symbols hold two four-byte start codes with a byte on
either side. Four NAL units give a file with a parameter set and three slices,
and `MaxAhead` only caps a counter of the properties.

Fairness. The epoll thread and the pump thread keep running. `read_nal` and
`stop` return: a file has bytes or an end; a camera process writes frames or
closes its pipe, and dies of its closed pipe after `pclose`. A thread that waits
for `mu_` gets it if the mutex is free again and again (strong fairness): the
pump gives it up around each blocking read. Nothing is assumed of clients in
`session`. A camera process that neither writes nor exits is thus outside
`EveryCallReturns`; with it `unsubscribe` would block the epoll thread in
`join`. In `RtspSession` and `EpollServer` hub calls return, which is
`EveryCallReturns` of `MediaHub`. `EpollServer` has three specifications with
fairness: `LoopSpec` assumes only that the server's thread runs; `AcceptSpec`,
besides, that accept does not fail each time (strong fairness: want of a
descriptor or of memory passes), and `AcceptNeverStalls` is violated even so;
`FairSpec` assumes instead that clients go on reading what they are sent, and
the liveness properties of `server` need that, because of the blocking write:
the half second within which `server.cpp:49-51` has SIGINT noticed is a promise
to clients that read only.

## 4. What the code does and the documents do not say

1. When the source ends, the pump leaves and the subscribers stay: sessions are
   PLAYING without a stream (`hub.cpp:125`, `SubscribedMeansPumped`).
2. A SETUP refused with 461 changes the port of a session that is READY
   (`session.cpp:245`, `ReadyPortIsNegotiated`).
3. A client that sends requests and does not read the answers blocks the only
   thread in `write`, and with it accept and every other client, which
   `server.hpp:15-16` rules out (`server.cpp:69`, `AcceptNeverStalls`).
4. A CSeq that is no number ends the process (`parser.cpp:168`,
   `BrokenRequestIs400`).
5. A picture of several slices gets several timestamps (`hub.cpp:155`,
   `SameFrameSameTimestamp`); with one slice per picture timestamps are right
   (`OneTimestampPerFrame`).

More can be read off the models. These have no run of their own; where the code
and a document disagree, no property takes the code's side:

- PAUSE. `session.hpp:43` says that it keeps the streamer for a later PLAY;
  `handle_pause` calls `stop_streaming`, which discards it (`PauseStopped`).
  `StreamerMatchesState` therefore says nothing of READY. That a READY session
  has no streamer is part of the inductive invariant only (`StreamerInv`), as a
  fact about the code.
- MTU. `PROJECT.md:84-86` sets the limit of a single packet at 1400 - 12 = 1388
  bytes; `kDefaultMtu` (`h264_fua.hpp:52`) is 1400 bytes of payload, to which the
  RTP header is added. NAL units of 1389 to 1400 bytes go out whole by the one
  and in fragments by the other. `FragmentsRebuildNal` asks for one packet or at
  least two fragments, whatever the threshold; the upper bounds in it and in
  `WireFormat`'s `TypeOK` are the code's.
- Marker bit. `PROJECT.md:90`, `packetizer.hpp:26` and RFC 6184 reserve it for
  the last packet of a frame; `h264_fua.hpp` wants it on the last packet of every
  NAL unit, and so does `send_nal`, whose comment (`streamer.cpp:69-72`) owns up
  to the difference (`Packet`, `send_nal`). For parameter sets and all slices of
  a picture but the last the two differ. Neither is asserted.
- PLAY without a hub is answered with 200 (`PlayUnavailable`, `HasHub`), where
  `session.hpp:73` says 500. The server always has a hub, and so has the run
  `session`: `ImplementsStateMachine` is not checked without one. The theorem
  `SessionRefinesMachine` covers both, but the abstract machine allows the 200.
- `nal_source.hpp:40` speaks of one callback per call; a looping file makes two
  in the call that reaches its end.
- A looping file with a single NAL unit ends at its first `read_nal`, because
  the reader returns false together with the last NAL unit, and is reported as
  empty or broken (`file_source.cpp:78`; the guard `Len(stream) < 2` of
  `LoopNeverEnds`). One with several start codes and nothing behind any of them
  is rewound for ever without a callback or a pause.
- A file that begins with a slice gains one frame period on the clock with every
  loop (the condition of `NeverFasterThanRealTime`).
- The check for a descriptor already removed in the same batch
  (`server.cpp:179`) never finds one: epoll reports a descriptor once per batch
  and only its own event removes it (`EventsReachTheirClient`).
- SIGPIPE is not ignored: a client that leaves at the wrong moment ends the
  process (`WriteKills`; `KilledOnlyByRace` says which moments these are).

## 5. Proofs

Every safety property that a passing run checks is also a theorem of the
specification, for all values of the constants that the module's assumption
allows: all the invariants, the five action properties (one under a hypothesis of
its own, `OneClockPerPicture`) and the two refinements.
`PROJECT.json` lists the theorems by name. Hardly any of the properties is
inductive by itself; the invariants that are, and what they rest on, are
described here.

`MediaHubProofs` assumes only `HubAssumption` (`None` is no streamer,
`MaxCallbacks` a natural number). None of the safety properties is inductive by
itself. `HubInv` is: the mutex belongs to the thread whose program counter says
so (`LockInv`); a thread exists iff a handle to it does, and `running_` is false
with the pump alive only while its ender waits for it (`ThreadInv`); the source
is open exactly while the pump uses it (`SourceInv`); the sessions hold exactly
the subscribed streamers, save the one that is leaving (`HeldInv`); without
subscribers nothing runs outside a call (`OffInv`); a fan-out leaves nobody
behind (`FanoutInv`). The heart is `ThreadInv`: because `running_` is cleared by
the pump only as its last act, `subscribe` may join with the mutex held. Each
part has a lemma with one step per action; `HubInvariant` combines them, and
`SourceSafety`, `HandleSafety`, `JoinSafety`, `DataRaceFreedom`,
`ReleaseSafety`, `IdleSafety` and `TypeCorrect` follow. `Refinement` proves that
the hub implements `Broadcast`: a NAL unit counts as received by all at the
moment `on_nal` takes the mutex.

`RtpStreamerProofs` assumes `StreamerAssumption` (MTU above 2, the moduli
positive, bursts shorter than the sequence numbers' range). `CutInv` says that
the bytes cut so far end at `offset` and that no fragment is longer than the MTU
allows; with `FragmentsContiguous` it is inductive. `Contiguity` and `Rebuild`
then hold for every MTU and every length. For `GapsAreLosses` the next sequence
number is the last one received, plus one, plus what was left out since, wrapped
at most once (`SequenceInv`). `OneClockPerPicture` has a hypothesis of its own,
`ClockAssumption`: one slice per picture, and no multiple of `TsIncrement` up to
the longest burst is a multiple of `TsMod`. Without the first it is false
(finding 5). The code meets the second: a burst is shorter than 2^16 packets,
and `k * (90000 / fps)` with `k <= 2^16` is a multiple of 2^32 for no frame rate
up to 90000, since `90000 / fps` is never a multiple of 2^16 then.
`PictureInv` says how many pictures and ticks the receiver is behind the sender.

`NalSourceProofs` assumes `SourceAssumption` (the bounds are natural numbers,
two of them positive). The properties look at the state between two calls, while
what makes them true happens inside one, so the invariant `SourceInv` speaks of
the steps of `read_nal`: a second read only after a rewind, and then from the
beginning, with at most one callback before it (`CallInv`); the reader stands
behind the NAL unit handed over last, or has been rewound behind the last one,
with only empty ones in between (`PlaceInv`); the slice that this call has handed over, and has not paced yet,
is what the clock is ahead by at most, and exactly for a file that does not begin
with a slice (`ClockInv`). `LoopSafety`, `PacingSafety` and `OrderSafety` follow
for streams of any length and any delay of the caller.

`EpollServerProofs` assumes `ServerAssumption` (descriptors are natural numbers,
buffers and answers not empty, `None` is none of the others). `ServerInv` is
inductive: before the loop and after it nothing is open that should not be
(`StartInv`); the table, the descriptors and epoll's interest agree
(`TableInv`); the events of a batch are for different descriptors and each for
the connection that the table has there (`BatchInv`), which holds because accept
takes a descriptor that is free and events wait only for ones that are not; the
event being handled is no longer in the batch, and was no hang-up if the client
is being answered (`ServedInv`); a write fails only when the peer has left
(`FaultInv`); only the answer being written is unfinished, by what is still to be
written (`AnswerInv`). `NoStrayEvent`, `DescriptorsOwned`, `NoOrphanSubscriber`,
`WholeAnswers`, `OnlyRaceKills` and the action property `PlayIsAnsweredFirst`
follow, for any number of clients, descriptors and pipelined requests.

`RtspSessionProofs` assumes `SessionAssumption` (messages are request lines and
header lines as the parser tells them apart). The first lemmas are about the
parser: the request it makes, and that its CSeq is one the client wrote, or 0.
`SessionInv` is inductive: the client being served is in the table and between
events nothing is under way (`ThreadInv`); a closed session in the table is on
its way out (`ClosedInv`); inside a hub call the request is the one of that call,
in a state that lets it through, answered already if it is PLAY (`HubInv`);
behind it there is one answer to it (`AnswerInv`); a session has a streamer
exactly while it is PLAYING (`StreamerInv`, of which `StreamerFollowsState` keeps
what the documents agree to); with `SetUpBeforePlay`, which needs it. `SessionRefinesMachine` proves the
refinement: a lemma for each handler shows that its last step is the step of
`RtspStateMachine` for that client, answer and transition together, and that all
other steps change nothing the machine sees.

`AnnexBReaderProofs` assumes `ReaderAssumption` (a bound for the stream, chunks not
empty). `ReaderInv` is inductive: the start code found last is at the front of
the window (`FrontInv`); none is visible between it and the place where the
search goes on, which is why it may go on three bytes before the end of
what has been read (`ScanInv`); what was handed over are the non-empty NAL units
behind the codes that the window has passed, in order (`OutInv`); at the end no
code is ahead (`EndInv`). `NalUnitsExact` follows for streams of any length, cut
by `fread` in any way.

`WireFormatProofs` assumes `WireAssumption`: NAL units are non-empty, and none has
the type 28, which RFC 6184 takes for FU-A; the MTU is above 2; 32-bit values
fit, so the clock does not wrap here (`RtpStreamer`'s does). Its lemmas are about the
algorithms and hold for every input: `Base64RoundTrip` (decoding by RFC 4648
inverts `base64_encode` on every sequence of bytes), `FragmentFacts` (the
fragments of `fragment_nal` rebuild every NAL unit and fit the MTU) and
`PacketFacts` (the twelve header bytes read back as the fields). They concatenate
sequences of sequences, for which the library has no usable theorem:
`FlattenJoins` shows by the least counterexample what a concatenation of equal
blocks is at each place. `WireInv` is inductive: the caches hold the first
parameter sets of what has been seen (`CacheInv`); a prescan that opened the file
ends at its bound or with both sets (`PrescanInv`); the last SDP advertises the
first sets of the whole stream or none (`SdpInv`); the clock is at most one tick
per NAL unit ahead (`ClockInv`); the last datagrams are what `send_nal` makes of
the last NAL unit (`SentInv`). `SpropExact`, `FirstDescribeHasSprop` and
`ReceiverRebuilds` follow.

Only model-checked: liveness under fairness (`EveryCallReturns`, `LoopReturns`,
`ClientsAreAttended`, `SigintEndsServer`), which is out of the prover's reach.
The five violations of section 4 are counterexamples, which TLC finds.

## 6. Not modelled

The text of answers and the constant lines of the SDP; trimming and cutting of
header lines, which is part of what a message is in `RtspParser`; the order in
which an `unordered_map` yields two names that differ in case only; message
bodies, which the server does not support (a body is read as one more message).
`epoll_wait` failing otherwise than by EINTR, which takes a broken program.
`UdpSocket::bind`, which nobody calls. The camera's command line. `main.cpp`,
the simulator and the test scripts.

The server, the sessions and the hub are not composed into one module: each
is specified against what the next one promises (`EveryCallReturns`, subscribe
succeeds or fails, callbacks per read), and the states of all three together are
beyond TLC.

## 7. Plan

What the runs check and the prover can reach is proved. What remains, in the
order of its worth:

1. The promises between the modules as theorems of their own: that a source
   makes at most two callbacks per read (`NalSource`) is the `MaxCallbacks` of
   `MediaHub`, and that a session's effect on the loop is one of the four kinds
   of request of `EpollServer`.
2. Findings 1 and 2 under the condition that excludes them (a source that does
   not end, no second SETUP), as `OneClockPerPicture` does for finding 5.

## 8. Running

    tlc -config MCMediaHub.cfg MCMediaHub
    tlapm MediaHubProofs.tla

and likewise for the other pairs in `PROJECT.json`.
