------------------------------ MODULE MediaHub -------------------------------
(***************************************************************************)
(* veda::media::Hub (src/media/hub.cpp): one source, one pump thread, and  *)
(* the epoll thread that subscribes and unsubscribes RTP streamers.        *)
(*                                                                         *)
(* Two threads interleave.  `epoll' is the program counter of the thread   *)
(* that runs the RTSP sessions: between "idle" and "idle" it executes one  *)
(* call of the hub on behalf of a session, with `arg' the streamer passed. *)
(* `pump' is the program counter of Hub::pump.  A step is one access to    *)
(* state both threads can see; statements that touch only data protected   *)
(* by a lock already held are merged.                                      *)
(*                                                                         *)
(* The NalSource (camera pipe or looping file) is any source that obeys    *)
(* nal_source.hpp: it may fail to start, deliver NAL units and end at any  *)
(* time.  Hub::subscribe's test for a null streamer and on_nal's test for  *)
(* an empty NAL are left out: no caller passes either.                     *)
(***************************************************************************)
EXTENDS Naturals

CONSTANTS
  Streamers,      \* the rtp::Streamer objects sessions may create
  MaxCallbacks,   \* most NAL units one read_nal call hands to its callback
  None            \* no streamer

ASSUME HubAssumption ==
  /\ None \notin Streamers
  /\ MaxCallbacks \in Nat

VARIABLES
  mu_,            \* owner of the mutex: "free", "epoll" or "pump"
  subscribers_,   \* the vector, as a set: a session never adds one twice
  source_,        \* "null", "open" (started) or "closed" (stopped)
  running_,       \* the atomic flag
  joinable,       \* pump_thread_.joinable()
  pump,           \* program counter of the pump thread
  nal,            \* type of the NAL unit on_nal is distributing
  callbacks,      \* callbacks made so far by the current read_nal call
  todo,           \* subscribers the current fan-out has not served yet
  sps_,           \* an SPS is cached
  pps_,           \* a PPS is cached
  epoll,          \* program counter of the epoll thread inside the hub
  arg,            \* the streamer argument of the call in progress
  held,           \* streamers the sessions keep in Session::streamer_
  phase,          \* alternating bit of the latest NAL unit (see Broadcast)
  last            \* last[s]: phase of the NAL unit s sent last

hubVars == <<subscribers_, source_, running_, joinable>>
cacheVars == <<sps_, pps_>>
fanVars == <<nal, callbacks, todo, phase>>
pumpVars == <<pump, fanVars>>
callerVars == <<epoll, arg, held>>
vars == <<mu_, hubVars, pumpVars, cacheVars, callerVars, last>>

NalTypes == {"slice", "idr", "sps", "pps", "other"}

\* States of a pump thread that has started and not yet returned.
PumpAlive == {"loop", "read", "lock", "send", "stop", "clear"}
\* Of these, the ones in which the pump still uses *source_.
PumpUsesSource == PumpAlive \ {"clear"}

SubscribePCs == {"sub_lock", "sub_check", "sub_join", "sub_start", "sub_push"}
UnsubscribePCs == {"unsub_lock", "unsub_off", "unsub_join"}
OtherPCs == {"idle", "sprop_lock", "sprop_read", "dtor_off", "dtor_join", "gone"}

\* The epoll thread holds mu_ between these program counters.
LockedPCs == {"sub_check", "sub_join", "sub_start", "sub_push", "unsub_off",
              "sprop_read"}

\* What prescan_parameter_sets may have cached: nothing for a camera or an
\* unreadable file, otherwise whatever the first 64 NAL units hold.
PrescanResults == [sps : BOOLEAN, pps : BOOLEAN]

Init ==
  /\ mu_ = "free"
  /\ subscribers_ = {}
  /\ source_ = "null"
  /\ running_ = FALSE
  /\ joinable = FALSE
  /\ pump = "none"
  /\ nal = "other"
  /\ callbacks = 0
  /\ todo = {}
  /\ \E r \in PrescanResults : sps_ = r.sps /\ pps_ = r.pps
  /\ epoll = "idle"
  /\ arg = None
  /\ held = {}
  /\ phase = 0
  /\ last \in [Streamers -> {0, 1}]

------------------------------------------------------------------------------
(* The sessions' calls, all made by the epoll thread.                      *)

\* Mutant: the streamer has been moved away before the call.
MovedAway(s) == None
Passed(s) == s

\* handle_play passes a streamer it has just created.
CallSubscribe(s) ==
  /\ epoll = "idle"
  /\ s \notin held
  /\ epoll' = "sub_lock"
  /\ arg' = Passed(s)
  /\ UNCHANGED <<mu_, hubVars, pumpVars, cacheVars, held, last>>

\* stop_streaming passes the streamer the session holds.
CallUnsubscribe(s) ==
  /\ epoll = "idle"
  /\ s \in held
  /\ epoll' = "unsub_lock"
  /\ arg' = s
  /\ UNCHANGED <<mu_, hubVars, pumpVars, cacheVars, held, last>>

CallSprop ==
  /\ epoll = "idle"
  /\ epoll' = "sprop_lock"
  /\ UNCHANGED <<mu_, hubVars, pumpVars, cacheVars, arg, held, last>>

\* run() clears the client table, hence every session, before main's hub dies.
CallDestructor ==
  /\ epoll = "idle"
  /\ held = {}
  /\ epoll' = "dtor_off"
  /\ UNCHANGED <<mu_, hubVars, pumpVars, cacheVars, arg, held, last>>

------------------------------------------------------------------------------
(* Hub::subscribe                                                          *)

\* Mutant: the mutex is taken for free.
MutexIgnored == TRUE
MutexFree == mu_ = "free"

SubscribeLock ==
  /\ epoll = "sub_lock"
  /\ MutexFree
  /\ mu_' = "epoll"
  /\ epoll' = "sub_check"
  /\ UNCHANGED <<hubVars, pumpVars, cacheVars, arg, held, last>>

\* Mutant: the pump that ended by itself is not reaped.
NotReaped == "sub_start"
Reap == "sub_join"

\* if (!running_): the atomic is read once; the pump may clear it later.
SubscribeCheck ==
  /\ epoll = "sub_check"
  /\ epoll' = IF running_ THEN "sub_push" ELSE Reap
  /\ UNCHANGED <<mu_, hubVars, pumpVars, cacheVars, arg, held, last>>

\* Reap a pump thread that ended by itself, with the mutex held.
SubscribeJoin ==
  /\ epoll = "sub_join"
  /\ joinable => pump = "done"
  /\ joinable' = FALSE
  /\ pump' = IF joinable THEN "none" ELSE pump
  /\ epoll' = "sub_start"
  /\ UNCHANGED <<mu_, subscribers_, source_, running_, fanVars, cacheVars,
                 arg, held, last>>

SubscribeStartFails ==
  /\ epoll = "sub_start"
  /\ source_' = "null"
  /\ mu_' = "free"
  /\ epoll' = "idle"
  /\ UNCHANGED <<subscribers_, running_, joinable, pumpVars, cacheVars, arg,
                 held, last>>

SubscribeStarts ==
  /\ epoll = "sub_start"
  /\ source_' = "open"
  /\ running_' = TRUE
  /\ joinable' = TRUE
  /\ pump' = "loop"
  /\ epoll' = "sub_push"
  /\ UNCHANGED <<mu_, subscribers_, fanVars, cacheVars, arg, held, last>>

\* push_back, unlock and return true: the session then stores the streamer.
SubscribePush ==
  /\ epoll = "sub_push"
  /\ subscribers_' = subscribers_ \union {arg}
  /\ last' = [last EXCEPT ![arg] = phase]
  /\ held' = held \union {arg}
  /\ mu_' = "free"
  /\ epoll' = "idle"
  /\ UNCHANGED <<source_, running_, joinable, pumpVars, cacheVars, arg>>

------------------------------------------------------------------------------
(* Hub::unsubscribe                                                        *)

UnsubscribeErase ==
  /\ epoll = "unsub_lock"
  /\ MutexFree
  /\ mu_' = "epoll"
  /\ subscribers_' = subscribers_ \ {arg}
  /\ epoll' = "unsub_off"
  /\ UNCHANGED <<source_, running_, joinable, pumpVars, cacheVars, arg, held,
                 last>>

\* Mutant: the emptiness test counts the subscriber that is leaving.
LastViewerLeftOffByOne == running_ /\ \E s \in Streamers : subscribers_ = {s}

LastViewerLeft == subscribers_ = {} /\ running_

\* Mutant: the pump is joined with the mutex still held.
JoinHolding == "epoll"
JoinWithout == "free"

\* The last viewer has left a running hub: take the thread handle, unlock.
UnsubscribeOff ==
  /\ epoll = "unsub_off"
  /\ LastViewerLeft
  /\ running_' = FALSE
  /\ joinable' = FALSE
  /\ mu_' = JoinWithout
  /\ epoll' = "unsub_join"
  /\ UNCHANGED <<subscribers_, source_, pumpVars, cacheVars, arg, held, last>>

\* Otherwise unlock and return; the session resets its streamer.
UnsubscribeKeep ==
  /\ epoll = "unsub_off"
  /\ ~LastViewerLeft
  /\ mu_' = "free"
  /\ held' = held \ {arg}
  /\ epoll' = "idle"
  /\ UNCHANGED <<hubVars, pumpVars, cacheVars, arg, last>>

\* Mutant: the thread is detached instead of joined.
UnsubscribeJoinDetaches ==
  /\ epoll = "unsub_join"
  /\ held' = held \ {arg}
  /\ epoll' = "idle"
  /\ UNCHANGED <<mu_, hubVars, pumpVars, cacheVars, arg, last>>

\* to_join.join(), outside the lock; then the session resets its streamer.
UnsubscribeJoin ==
  /\ epoll = "unsub_join"
  /\ pump = "done"
  /\ pump' = "none"
  /\ held' = held \ {arg}
  /\ epoll' = "idle"
  /\ UNCHANGED <<mu_, hubVars, fanVars, cacheVars, arg, last>>

------------------------------------------------------------------------------
(* Hub::sprop_parameter_sets and the destructor                            *)

SpropLock ==
  /\ epoll = "sprop_lock"
  /\ MutexFree
  /\ mu_' = "epoll"
  /\ epoll' = "sprop_read"
  /\ UNCHANGED <<hubVars, pumpVars, cacheVars, arg, held, last>>

\* Reads both caches (their contents are the session's business) and unlocks.
SpropRead ==
  /\ epoll = "sprop_read"
  /\ mu_' = "free"
  /\ epoll' = "idle"
  /\ UNCHANGED <<hubVars, pumpVars, cacheVars, arg, held, last>>

DestructorOff ==
  /\ epoll = "dtor_off"
  /\ running_' = FALSE
  /\ epoll' = "dtor_join"
  /\ UNCHANGED <<mu_, subscribers_, source_, joinable, pumpVars, cacheVars,
                 arg, held, last>>

\* Joins if there is a thread; the members, source_ among them, are destroyed.
DestructorJoin ==
  /\ epoll = "dtor_join"
  /\ joinable => pump = "done"
  /\ joinable' = FALSE
  /\ pump' = IF joinable THEN "none" ELSE pump
  /\ source_' = "null"
  /\ epoll' = "gone"
  /\ UNCHANGED <<mu_, subscribers_, running_, fanVars, cacheVars, arg, held,
                 last>>

------------------------------------------------------------------------------
(* Hub::pump and Hub::on_nal                                               *)

\* Mutant: the loop does not look at running_.
LoopForever == "read"
LoopTest == IF running_ THEN "read" ELSE "stop"

PumpLoop ==
  /\ pump = "loop"
  /\ pump' = LoopTest
  /\ UNCHANGED <<mu_, hubVars, fanVars, cacheVars, callerVars, last>>

\* read_nal found a NAL unit and calls on_nal, which waits for the mutex.
ReadDelivers ==
  /\ pump = "read"
  /\ callbacks < MaxCallbacks
  /\ callbacks' = callbacks + 1
  /\ nal' \in NalTypes
  /\ pump' = "lock"
  /\ UNCHANGED <<mu_, hubVars, todo, phase, cacheVars, callerVars, last>>

\* read_nal returns: true leads back to the loop test, false to the end.
ReadReturns ==
  /\ pump = "read"
  /\ pump' \in {"loop", "stop"}
  /\ callbacks' = 0
  /\ UNCHANGED <<mu_, hubVars, nal, todo, phase, cacheVars, callerVars, last>>

\* on_nal takes the mutex, caches a first SPS or PPS, starts the fan-out.
OnNalLock ==
  /\ pump = "lock"
  /\ MutexFree
  /\ mu_' = "pump"
  /\ sps_' = (sps_ \/ nal = "sps")
  /\ pps_' = (pps_ \/ nal = "pps")
  /\ todo' = subscribers_
  /\ phase' = 1 - phase
  /\ pump' = "send"
  /\ UNCHANGED <<hubVars, nal, callbacks, callerVars, last>>

\* Mutant: one failed send_nal abandons the fan-out.
RemainingOrNone(s) == {todo \ {s}, {}}
Remaining(s) == {todo \ {s}}

\* send_nal (and advance_timestamp) on one more subscriber.
OnNalSend(s) ==
  /\ pump = "send"
  /\ s \in todo
  /\ last' = [last EXCEPT ![s] = phase]
  /\ todo' \in Remaining(s)
  /\ UNCHANGED <<mu_, hubVars, pump, nal, callbacks, phase, cacheVars,
                 callerVars>>

\* End of the loop over subscribers_: unlock, back into read_nal.
OnNalUnlock ==
  /\ pump = "send"
  /\ todo = {}
  /\ mu_' = "free"
  /\ pump' = "read"
  /\ UNCHANGED <<hubVars, fanVars, cacheVars, callerVars, last>>

\* What source_ is after stop().
SourceStopped == "closed"

\* source_->stop(): fclose, or pclose, which waits for the camera process.
PumpStop ==
  /\ pump = "stop"
  /\ source_' = SourceStopped
  /\ pump' = "clear"
  /\ UNCHANGED <<mu_, subscribers_, running_, joinable, fanVars, cacheVars,
                 callerVars, last>>

PumpClear ==
  /\ pump = "clear"
  /\ running_' = FALSE
  /\ pump' = "done"
  /\ UNCHANGED <<mu_, subscribers_, source_, joinable, fanVars, cacheVars,
                 callerVars, last>>

------------------------------------------------------------------------------

\* The hub is destroyed and the process exits.
Exited ==
  /\ epoll = "gone"
  /\ UNCHANGED vars

Calls ==
  \/ \E s \in Streamers : CallSubscribe(s) \/ CallUnsubscribe(s)
  \/ CallSprop
  \/ CallDestructor

EpollLock == SubscribeLock \/ UnsubscribeErase \/ SpropLock

EpollStep ==
  \/ EpollLock
  \/ SubscribeCheck \/ SubscribeJoin \/ SubscribeStartFails \/ SubscribeStarts
  \/ SubscribePush
  \/ UnsubscribeOff \/ UnsubscribeKeep \/ UnsubscribeJoin
  \/ SpropRead
  \/ DestructorOff \/ DestructorJoin

PumpStep ==
  \/ PumpLoop
  \/ ReadDelivers \/ ReadReturns
  \/ OnNalLock \/ (\E s \in Streamers : OnNalSend(s)) \/ OnNalUnlock
  \/ PumpStop \/ PumpClear

Next == Calls \/ EpollStep \/ PumpStep \/ Exited

Spec == Init /\ [][Next]_vars

(***************************************************************************)
(* Both threads keep running, read_nal and stop return (a file always has  *)
(* bytes or an end; a camera process writes frames or closes its pipe),    *)
(* and a thread that waits for the mutex gets it if it is free again and   *)
(* again: the pump releases it around every read_nal, which blocks for a   *)
(* frame time.  Sessions are under no obligation to call.                  *)
(***************************************************************************)
Fairness == WF_vars(EpollStep) /\ SF_vars(EpollLock) /\ WF_vars(PumpStep)

FairSpec == Spec /\ Fairness

------------------------------------------------------------------------------
(* Properties                                                              *)

\* Every variable has its type.
TypeOK ==
  /\ mu_ \in {"free", "epoll", "pump"}
  /\ subscribers_ \in SUBSET Streamers
  /\ source_ \in {"null", "open", "closed"}
  /\ running_ \in BOOLEAN
  /\ joinable \in BOOLEAN
  /\ pump \in PumpAlive \union {"none", "done"}
  /\ nal \in NalTypes
  /\ callbacks \in 0..MaxCallbacks
  /\ todo \in SUBSET Streamers
  /\ sps_ \in BOOLEAN
  /\ pps_ \in BOOLEAN
  /\ epoll \in SubscribePCs \union UnsubscribePCs \union OtherPCs
  /\ arg \in Streamers \union {None}
  /\ held \in SUBSET Streamers
  /\ phase \in {0, 1}
  /\ last \in [Streamers -> {0, 1}]

\* hub.hpp: mu_ protects subscribers_, sps_ and pps_.  While on_nal fills the
\* caches and walks the subscriber list, the epoll thread is at no statement
\* that reads the caches or has changed, or is about to change, the list.
NoDataRace ==
  pump = "send" => epoll \notin {"sub_push", "unsub_off", "sprop_read"}

\* source_ is shared without a lock.  While a pump thread still uses it, it is
\* the open source that thread was started with: subscribe reaches make_source
\* (and ~Hub the destruction of source_) only when no pump thread is left.
SourceOwnedByPump ==
  /\ pump \in PumpUsesSource => source_ = "open"
  /\ epoll \in {"sub_start", "gone"} => pump = "none"

\* The thread handle is never overwritten while joinable, nor is the hub
\* destroyed with a joinable handle: either would call std::terminate.
NoStdTerminate ==
  epoll \in {"sub_start", "gone"} => ~joinable

\* Whoever waits for the pump to end waits for a thread that can end: subscribe
\* joins with mu_ held, which is safe only because a pump that it finds with
\* running_ = false is past its last use of mu_; unsubscribe joins without mu_.
JoinNeverBlocksPump ==
  /\ epoll = "sub_join" => pump \in {"none", "done"}
  /\ epoll \in {"unsub_join", "dtor_join"} => mu_ # "epoll"

\* hub.hpp: once unsubscribe has returned (the session has dropped the
\* streamer), the pump does not have that streamer in its current fan-out.
ReleasedStreamerUntouched ==
  todo \subseteq held

\* hub.hpp: with no subscriber and no call in progress the hub is off: running_
\* is clear, no pump thread runs and no camera or file is left open.
IdleHubIsOff ==
  (epoll \in {"idle", "gone"} /\ subscribers_ = {}) =>
    /\ ~running_
    /\ pump \notin PumpAlive
    /\ source_ # "open"

(***************************************************************************)
(* The inductive invariant behind the safety properties, part by part.     *)
(***************************************************************************)

\* The mutex is held by exactly the thread whose program counter says so.
LockInv ==
  /\ (mu_ = "epoll") <=> (epoll \in LockedPCs)
  /\ (mu_ = "pump") <=> (pump = "send")

\* A thread exists iff a handle does: pump_thread_, or unsubscribe's to_join.
\* running_ is false with the pump alive only while its ender waits for it.
ThreadInv ==
  /\ joinable <=> (pump # "none" /\ epoll # "unsub_join")
  /\ epoll = "unsub_join" => pump # "none"
  /\ running_ => pump \in PumpAlive
  /\ (pump \in PumpAlive /\ ~running_) => epoll \in {"unsub_join", "dtor_join"}
  /\ epoll \in {"sub_join", "sub_start", "unsub_join", "dtor_join", "gone"}
       => ~running_
  /\ epoll \in {"sub_start", "gone"} => pump = "none"

\* The source is open exactly while the pump uses it.
SourceInv == (source_ = "open") <=> (pump \in PumpUsesSource)

\* Sessions hold exactly the subscribed streamers, apart from the one whose
\* unsubscribe has erased it and not returned yet.
HeldInv ==
  /\ epoll \in {"unsub_off", "unsub_join"} =>
       arg \in held /\ subscribers_ = held \ {arg}
  /\ epoll \notin {"unsub_off", "unsub_join"} => held = subscribers_
  /\ epoll \in SubscribePCs => arg \in Streamers \ held
  /\ epoll = "unsub_lock" => arg \in held
  /\ epoll = "unsub_join" => subscribers_ = {}
  /\ epoll \in {"dtor_off", "dtor_join", "gone"} => held = {}

\* Without subscribers nothing runs, except while a call is switching it.
OffInv ==
  (running_ /\ subscribers_ = {}) => epoll \in {"sub_push", "unsub_off"}

\* A fan-out serves subscribers only and leaves nobody behind.
FanoutInv ==
  /\ todo \subseteq subscribers_
  /\ pump # "send" => todo = {}
  /\ \A s \in subscribers_ : (last[s] = phase) <=> (s \notin todo)

\* The conjunction, inductive (MediaHubProofs).
HubInv ==
  LockInv /\ ThreadInv /\ SourceInv /\ HeldInv /\ OffInv /\ FanoutInv

\* session.hpp and docs/state-machine.md: a PLAYING session (one whose streamer
\* is subscribed) has RTP streaming, so a pump thread serves the subscribers.
SubscribedMeansPumped ==
  (epoll = "idle" /\ subscribers_ # {}) => pump \in PumpAlive

\* The hub implements the broadcast its callers rely on: a NAL unit counts as
\* received by every subscriber at the moment on_nal takes the mutex, because
\* nothing can join, leave or overtake until the fan-out has served them all.
B == INSTANCE Broadcast WITH
       members <- subscribers_,
       phase <- phase,
       last <- [s \in Streamers |-> IF s \in todo THEN phase ELSE last[s]]
ImplementsBroadcast == B!Spec

\* No call of the hub hangs: each one made by the epoll thread (which serves
\* every client) returns, joins of the pump thread included.
EveryCallReturns ==
  (epoll \notin {"idle", "gone"}) ~> (epoll \in {"idle", "gone"})
==============================================================================
