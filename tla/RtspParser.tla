----------------------------- MODULE RtspParser ------------------------------
(***************************************************************************)
(* parse_request and header of src/rtsp/parser.cpp.                        *)
(*                                                                         *)
(* A message is what the client wrote up to the blank line: the shape of   *)
(* its request line, and its header lines in order.  A name (of a method   *)
(* or a header) is <<name, spelling>>: the code compares names with        *)
(* iequals, but keys its map by the text.  A value is what the code makes  *)
(* of the text behind the colon: a number is <<n>>, <<n, junk>> if more    *)
(* text follows, <<>> if std::stoi throws.                                 *)
(***************************************************************************)
EXTENDS Integers, Sequences, FiniteSetsExt, Functions

Methods == {"OPTIONS", "DESCRIBE", "SETUP", "PLAY", "PAUSE", "TEARDOWN",
            "GET_PARAMETER", "UNKNOWN"}

\* A request line is broken if it is empty, lacks the first or the second space,
\* or has a version that does not begin with "RTSP/".
RequestLines == {"broken", "ok"}

iequals(a, b) == a[1] = b[1]

string_to_method(name) ==
  IF \E m \in Methods : iequals(name, <<m>>) THEN name[1] ELSE "UNKNOWN"

\* The lines with a colon, keyed by the text of the name; the last one of the
\* same text counts.
headers(message) ==
  LET lines == {i \in DOMAIN message.headers : message.headers[i] # <<"no colon">>}
      Under(key) == {i \in lines : message.headers[i][1] = key}
  IN [key \in {message.headers[i][1] : i \in lines} |->
        message.headers[Max(Under(key))][2]]

\* The value under some spelling of the name, `none' if there is none.  Which
\* spelling is found first depends on the order of the unordered_map; the
\* clients modelled here use one spelling in a request.
header(h, name, none) ==
  LET found == {key \in DOMAIN h : iequals(key, <<name>>)}
  IN IF found = {} THEN none ELSE h[CHOOSE key \in found : TRUE]

\* Mutant: the name is looked up as it is in the map only.
cseq_value_exact(h) ==
  IF <<"CSeq", "exact">> \in DOMAIN h THEN h[<<"CSeq", "exact">>] ELSE <<0>>
\* "CSeq" as it is, else in any spelling, else 0.
cseq_value(h) ==
  IF <<"CSeq", "exact">> \in DOMAIN h THEN h[<<"CSeq", "exact">>]
                                      ELSE header(h, "CSeq", <<0>>)

\* "MALFORMED" is std::nullopt, "BADNUMBER" the exception of std::stoi.
parse_request(message) ==
  LET h == headers(message) IN
  IF message.line # "ok" THEN [method |-> "MALFORMED", cseq |-> 0]
  ELSE IF cseq_value(h) = <<>> THEN [method |-> "BADNUMBER", cseq |-> 0]
  ELSE [method |-> string_to_method(message.method),
        cseq |-> cseq_value(h)[1],
        transport |-> header(h, "Transport", [kind |-> "absent"]),
        session |-> header(h, "Session", <<>>)]

------------------------------------------------------------------------------
\* What the client wrote as CSeq, in whatever spelling: the numbers to which an
\* answer may refer.
WrittenCSeqs(message) ==
  {l[2][1] : l \in {l \in Range(message.headers) :
                      l # <<"no colon">> /\ iequals(l[1], <<"CSeq">>) /\ l[2] # <<>>}}
==============================================================================
