------------------------------ MODULE Broadcast ------------------------------
(***************************************************************************)
(* What veda::media::Hub promises to its callers (hub.hpp), with no        *)
(* thread, lock or source in sight: a NAL unit is handed to every member   *)
(* at once, a streamer that joins receives every NAL unit from then on and *)
(* one that has left receives none.                                        *)
(*                                                                         *)
(* NAL units are told apart by one alternating bit: each distribution      *)
(* flips `phase', and `last[s]' is the phase of the NAL unit s received    *)
(* last.  A member that skips one NAL unit, or gets one twice, ends with   *)
(* last[s] # phase.                                                        *)
(***************************************************************************)
EXTENDS Naturals

CONSTANT Streamers   \* the rtp::Streamer objects

VARIABLES
  members,   \* streamers that receive the stream
  phase,     \* alternating bit of the latest NAL unit
  last       \* last[s]: phase of the NAL unit s received last

vars == <<members, phase, last>>

Init ==
  /\ members = {}
  /\ phase = 0
  /\ last \in [Streamers -> {0, 1}]

Join(s) ==
  /\ s \notin members
  /\ members' = members \union {s}
  /\ last' = [last EXCEPT ![s] = phase]
  /\ UNCHANGED phase

Leave(s) ==
  /\ s \in members
  /\ members' = members \ {s}
  /\ UNCHANGED <<phase, last>>

Distribute ==
  /\ phase' = 1 - phase
  /\ last' = [s \in Streamers |-> IF s \in members THEN 1 - phase ELSE last[s]]
  /\ UNCHANGED members

Next ==
  \/ Distribute
  \/ \E s \in Streamers : Join(s) \/ Leave(s)

Spec == Init /\ [][Next]_vars
==============================================================================
