---------------------------- MODULE MCRtpStreamer ----------------------------
(* RtpStreamer for TLC: an MTU of 4 bytes, NAL units of up to 8, counters   *)
(* that wrap within a few packets.                                          *)
EXTENDS RtpStreamer
==============================================================================
