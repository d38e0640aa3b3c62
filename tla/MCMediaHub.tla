----------------------------- MODULE MCMediaHub ------------------------------
(* MediaHub for TLC: a few streamers.                                       *)
EXTENDS MediaHub
==============================================================================
