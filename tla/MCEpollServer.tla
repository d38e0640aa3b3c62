---------------------------- MODULE MCEpollServer ----------------------------
(***************************************************************************)
(* EpollServer for TLC, with as many connections as descriptors or more.   *)
(***************************************************************************)
EXTENDS EpollServer
==============================================================================
