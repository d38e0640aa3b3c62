--------------------------- MODULE RtspStateMachine --------------------------
(***************************************************************************)
(* The RTSP state machine of each connection as src/rtsp/session.hpp and   *)
(* docs/state-machine.md tabulate it: which answers a method may get in    *)
(* which state, and which answers move the session.  Buffers, headers,     *)
(* ports and the media hub do not appear.                                  *)
(*                                                                         *)
(* `answer[c]' is the exchange just completed, Quiet between requests.     *)
(* PLAY is the one method that moves the session after its answer: the     *)
(* stream starts, if the source can be started, once 200 has been sent.    *)
(***************************************************************************)
CONSTANTS Clients, Quiet

VARIABLES st, answer

vars == <<st, answer>>

Methods == {"OPTIONS", "DESCRIBE", "SETUP", "PLAY", "PAUSE", "TEARDOWN",
            "GET_PARAMETER", "UNKNOWN", "MALFORMED"}

\* "Methods allowed in each state" of session.hpp.
Allowed(state) ==
  CASE state = "INIT" -> {"OPTIONS", "DESCRIBE", "SETUP", "GET_PARAMETER"}
    [] state = "READY" -> {"OPTIONS", "DESCRIBE", "SETUP", "PLAY", "TEARDOWN",
                           "GET_PARAMETER"}
    [] state = "PLAYING" -> {"OPTIONS", "DESCRIBE", "PAUSE", "TEARDOWN",
                             "GET_PARAMETER"}
    [] state = "CLOSED" -> {}

\* The error table of docs/state-machine.md.
Codes(state, m) ==
  CASE m = "MALFORMED" -> {400}
    [] m = "UNKNOWN" -> {501}
    [] m \notin Allowed(state) \union {"MALFORMED", "UNKNOWN"} -> {455}
    [] m = "SETUP" /\ m \in Allowed(state) -> {200, 400, 461}
    [] m = "PLAY" /\ m \in Allowed(state) -> {200, 454, 500}
    [] m \in {"PAUSE", "TEARDOWN"} /\ m \in Allowed(state) -> {200, 454}
    [] OTHER -> {200}

After(state, m, code) ==
  CASE code = 200 /\ m \in {"SETUP", "PAUSE"} -> "READY"
    [] code = 200 /\ m = "TEARDOWN" -> "CLOSED"
    [] OTHER -> state

Init ==
  /\ st = [c \in Clients |-> "CLOSED"]
  /\ answer = [c \in Clients |-> Quiet]

\* A client connects.
Open(c) ==
  /\ st[c] = "CLOSED"
  /\ st' = [st EXCEPT ![c] = "INIT"]
  /\ UNCHANGED answer

Exchange(c, m) ==
  /\ st[c] # "CLOSED"
  /\ \E code \in Codes(st[c], m) :
       /\ answer' = [answer EXCEPT ![c] = [method |-> m, code |-> code]]
       /\ st' = [st EXCEPT ![c] = After(@, m, code)]

StartStreaming(c) ==
  /\ st[c] = "READY"
  /\ answer[c] = [method |-> "PLAY", code |-> 200]
  /\ st' = [st EXCEPT ![c] = "PLAYING"]
  /\ UNCHANGED answer

\* The next request is awaited or being worked on.
Await(c) ==
  /\ answer' = [answer EXCEPT ![c] = Quiet]
  /\ UNCHANGED st

\* The connection ends.
Close(c) ==
  /\ st' = [st EXCEPT ![c] = "CLOSED"]
  /\ answer' = [answer EXCEPT ![c] = Quiet]

Next ==
  \E c \in Clients :
    \/ Open(c)
    \/ \E m \in Methods : Exchange(c, m)
    \/ StartStreaming(c)
    \/ Await(c)
    \/ Close(c)

Spec == Init /\ [][Next]_vars
==============================================================================
