---------------------------- MODULE MCRtspSession ----------------------------
(***************************************************************************)
(* RtspSession for TLC.  The messages below reach every branch of every    *)
(* handler and of parse_request: each kind of Transport header, ports      *)
(* inside and outside the 16-bit range, a missing, a wrong and a decorated *)
(* Session header, CSeq in both spellings, twice, with junk behind it, not *)
(* a number and not there, and lines without a colon.                      *)
(***************************************************************************)
EXTENDS RtspSession

CONSTANTS id1, id2   \* session ids; id2 is never issued to these clients

CSeq(n) == <<<<"CSeq", "exact">>, <<n>>>>
Message(m, fields) == [line |-> "ok", method |-> <<m>>, headers |-> fields]

MCTransports ==
  {[kind |-> "noport"], [kind |-> "nan"],
   [kind |-> "single", rtp |-> 5000], [kind |-> "single", rtp |-> 0],
   [kind |-> "pair", rtp |-> 6000, rtcp |-> 6001],
   [kind |-> "pair", rtp |-> 70000, rtcp |-> -1],
   [kind |-> "half", rtp |-> 7000]}

Setups ==
  {Message("SETUP", <<CSeq(1), <<<<"Transport", "exact">>, t>>>>) : t \in MCTransports}
Controls ==
  {Message(m, <<CSeq(2), <<<<"Session", "exact">>, s>>>>) :
     m \in {"PLAY", "PAUSE", "TEARDOWN"}, s \in {<<id1, "timeout">>, <<id2>>}}

\* What clients write differently.
Variants ==
  {Message("PLAY", <<CSeq(3)>>), Message("SETUP", <<CSeq(3)>>),
   Message("RECORD", <<CSeq(3)>>),
   Message("OPTIONS", <<>>),
   Message("OPTIONS", << <<<<"CSeq", "lower">>, <<4>>>>, <<"no colon">> >>),
   Message("DESCRIBE", <<<<"no colon">>, <<<<"CSeq", "lower">>, <<4, "junk">>>>>>),
   Message("GET_PARAMETER", <<CSeq(5), CSeq(6)>>),
   [line |-> "ok", method |-> <<"PLAY", "lower">>,
    headers |-> <<<<<<"Session", "lower">>, <<id1>>>>, CSeq(7)>>]}

Broken ==
  {[line |-> "broken", method |-> <<"PLAY">>, headers |-> <<CSeq(8)>>],
   Message("OPTIONS", <<<<<<"CSeq", "exact">>, <<>>>>>>)}

MCRequests == Setups \union Controls \union Variants \union Broken

IssuedIds == {id1}
==============================================================================
