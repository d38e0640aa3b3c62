----------------------------- MODULE MCNalSource -----------------------------
(* The sources, checked on every stream of up to MaxNals NAL units. *)
EXTENDS NalSource
==============================================================================
