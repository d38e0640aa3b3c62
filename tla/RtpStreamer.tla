----------------------------- MODULE RtpStreamer -----------------------------
(***************************************************************************)
(* One rtp::Streamer: fragment_nal (h264_fua.cpp) cuts a NAL unit into RTP *)
(* payloads, send_nal (streamer.cpp) numbers, stamps and sends them, and   *)
(* the hub advances the timestamp after a slice (hub.cpp, on_nal).         *)
(*                                                                         *)
(* A NAL unit is its type and its length; a payload is the range of NAL    *)
(* bytes it carries with the FU-A start and end bits.  The receiver is     *)
(* seen through the last packet that reached it (`got'), the network may   *)
(* lose a datagram and the socket may refuse one.  `frame' numbers the     *)
(* pictures of the encoder, which the code never sees: a picture is any    *)
(* SPS, PPS or SEI followed by one to MaxSlices slices.                    *)
(***************************************************************************)
EXTENDS Naturals, Sequences

CONSTANTS
  Mtu,           \* kDefaultMtu, 1400: most payload bytes of a packet, and the
                 \* longest NAL unit in one piece (PROJECT.md has 1388)
  MaxNal,        \* longest NAL unit
  MaxSlices,     \* most slices the encoder puts in one picture
  SeqMod,        \* 2^16
  TsMod,         \* 2^32
  TsIncrement,   \* ts_increment_ of the hub
  MaxBurst,      \* most packets in a row that fail or get lost
  None           \* no packet yet

ASSUME StreamerAssumption ==
  /\ Mtu \in Nat /\ Mtu > 2
  /\ MaxNal \in Nat \ {0} /\ MaxSlices \in Nat \ {0}
  /\ SeqMod \in Nat \ {0} /\ TsMod \in Nat \ {0}
  /\ TsIncrement \in 1..(TsMod - 1)
  /\ MaxBurst \in 0..(SeqMod - 1)

VARIABLES
  pc,            \* "idle", "cut" (fragment_nal), "send", "advance"
  nal,           \* the NAL unit being sent: [slice, len]
  offset,        \* payload bytes already cut
  fragments,     \* the payloads cut so far
  i,             \* index of the next payload to send
  sequence_,     \* next RTP sequence number
  timestamp_,    \* RTP timestamp of the current picture
  got,           \* the last packet the receiver got
  burst,         \* packets in a row that have not reached it since then
  frame,         \* the encoder's picture number, modulo TsMod
  slices         \* slices of that picture handed over so far

cutVars == <<nal, offset, fragments>>
wireVars == <<sequence_, got, burst>>
vars == <<pc, nal, offset, fragments, i, sequence_, timestamp_, got, burst,
          frame, slices>>

Nals == [slice : BOOLEAN, len : 1..MaxNal]

Init ==
  /\ pc = "idle"
  /\ nal = [slice |-> FALSE, len |-> 1]
  /\ offset = 0
  /\ fragments = <<>>
  /\ i = 1
  /\ sequence_ \in 0..(SeqMod - 1)
  /\ timestamp_ = 0
  /\ got = None
  /\ burst = 0
  /\ frame = 0
  /\ slices = 0

------------------------------------------------------------------------------
(* fragment_nal                                                            *)

\* A payload: bytes from .. from + len - 1 of the NAL unit.
Single(n) == [fu |-> FALSE, from |-> 0, len |-> n.len, s |-> FALSE, e |-> FALSE]

\* Mutant: the two FU bytes are not counted against the MTU.
MaxPayloadFullMtu == Mtu

max_payload_per_fragment == Mtu - 2

payload_len == nal.len - 1

chunk_size ==
  IF max_payload_per_fragment < payload_len - offset
    THEN max_payload_per_fragment ELSE payload_len - offset

\* Mutant: the end bit is set one fragment late.
NextFragmentLateEnd ==
  [fu |-> TRUE, from |-> 1 + offset, len |-> chunk_size, s |-> fragments = <<>>,
   e |-> offset + chunk_size > payload_len]

\* The NAL header byte is not copied: payload byte 0 is NAL byte 1.
NextFragment ==
  [fu |-> TRUE, from |-> 1 + offset, len |-> chunk_size, s |-> fragments = <<>>,
   e |-> offset + chunk_size >= payload_len]

\* on_nal hands over a NAL unit; it continues the current picture, or is the
\* first after a picture that has at least one slice.
SendNal(n) ==
  /\ pc = "idle"
  /\ nal' = n
  /\ \/ /\ slices = 0 \/ (n.slice /\ slices < MaxSlices)
        /\ slices' = IF n.slice THEN slices + 1 ELSE slices
        /\ UNCHANGED frame
     \/ /\ slices > 0
        /\ slices' = IF n.slice THEN 1 ELSE 0
        /\ frame' = (frame + 1) % TsMod
  /\ offset' = 0
  /\ i' = 1
  /\ IF n.len <= Mtu
       THEN fragments' = <<Single(n)>> /\ pc' = "send"
       ELSE fragments' = <<>> /\ pc' = "cut"
  /\ UNCHANGED <<wireVars, timestamp_>>

\* One turn of the loop of fragment_nal.
Cut ==
  /\ pc = "cut"
  /\ offset < payload_len
  /\ fragments' = Append(fragments, NextFragment)
  /\ offset' = offset + chunk_size
  /\ UNCHANGED <<pc, nal, i, wireVars, timestamp_, frame, slices>>

CutDone ==
  /\ pc = "cut"
  /\ offset >= payload_len
  /\ pc' = "send"
  /\ UNCHANGED <<cutVars, i, wireVars, timestamp_, frame, slices>>

------------------------------------------------------------------------------
(* send_nal: the loop over the payloads                                    *)

\* The marker goes on the last packet of each NAL unit, as h264_fua.hpp asks.
Packet ==
  [sequence |-> sequence_, timestamp |-> timestamp_,
   marker |-> i = Len(fragments), frame |-> frame]

\* Mutant: the counter is wider than 16 bits.
NextSequenceWide == sequence_ + 1
NextSequence == (sequence_ + 1) % SeqMod

\* Mutant: the sequence number is consumed only when the send succeeds.
FailedKeepsNumber == sequence_
FailedSequence == NextSequence

\* The datagram reaches the receiver.
PacketArrives ==
  /\ pc = "send"
  /\ i <= Len(fragments)
  /\ got' = Packet
  /\ burst' = 0
  /\ sequence_' = NextSequence
  /\ i' = i + 1
  /\ UNCHANGED <<pc, cutVars, timestamp_, frame, slices>>

\* The socket takes it and the network loses it.
PacketLost ==
  /\ pc = "send"
  /\ i <= Len(fragments)
  /\ burst < MaxBurst
  /\ burst' = burst + 1
  /\ sequence_' = NextSequence
  /\ i' = i + 1
  /\ UNCHANGED <<pc, cutVars, got, timestamp_, frame, slices>>

\* send() returns -1: the rest of the NAL unit is not sent.
SendFails ==
  /\ pc = "send"
  /\ i <= Len(fragments)
  /\ burst < MaxBurst
  /\ burst' = burst + 1
  /\ sequence_' = FailedSequence
  /\ pc' = "advance"
  /\ UNCHANGED <<cutVars, i, got, timestamp_, frame, slices>>

SendDone ==
  /\ pc = "send"
  /\ i > Len(fragments)
  /\ pc' = "advance"
  /\ UNCHANGED <<cutVars, i, wireVars, timestamp_, frame, slices>>

\* Mutant: parameter sets advance the clock too.
EndsFrameAlways == TRUE
EndsFrame == nal.slice

\* on_nal: advance_timestamp after a slice, whether or not send_nal worked.
Advance ==
  /\ pc = "advance"
  /\ timestamp_' = IF EndsFrame THEN (timestamp_ + TsIncrement) % TsMod
                                ELSE timestamp_
  /\ pc' = "idle"
  /\ UNCHANGED <<cutVars, i, wireVars, frame, slices>>

------------------------------------------------------------------------------

Step ==
  \/ Cut \/ CutDone
  \/ PacketArrives \/ PacketLost \/ SendFails \/ SendDone
  \/ Advance

Next == (\E n \in Nals : SendNal(n)) \/ Step

Spec == Init /\ [][Next]_vars

------------------------------------------------------------------------------
(* Properties                                                              *)

Fragment ==
  [fu : BOOLEAN, from : 0..MaxNal, len : 1..MaxNal, s : BOOLEAN, e : BOOLEAN]

\* Every variable has its type.
TypeOK ==
  /\ pc \in {"idle", "cut", "send", "advance"}
  /\ nal \in Nals
  /\ offset \in 0..MaxNal
  /\ fragments \in Seq(Fragment)
  /\ i \in 1..(Len(fragments) + 1)
  /\ sequence_ \in 0..(SeqMod - 1)
  /\ timestamp_ \in 0..(TsMod - 1)
  /\ got \in {None} \union
       [sequence : 0..(SeqMod - 1), timestamp : 0..(TsMod - 1),
        marker : BOOLEAN, frame : 0..(TsMod - 1)]
  /\ burst \in 0..MaxBurst
  /\ frame \in 0..(TsMod - 1)
  /\ slices \in 0..MaxSlices

\* The payloads cut so far cover a prefix of the NAL unit without gap or
\* overlap, the start bit is on the first and only there, the end bit exactly
\* on the one that reaches the end.
FragmentsContiguous ==
  (pc = "cut" \/ nal.len > Mtu) =>
    \A k \in 1..Len(fragments) :
      LET f == fragments[k] IN
        /\ f.fu
        /\ f.from = IF k = 1 THEN 1 ELSE fragments[k-1].from + fragments[k-1].len
        /\ f.s <=> k = 1
        /\ f.e <=> f.from + f.len = nal.len

\* A receiver can rebuild the NAL unit from what send_nal is about to send: one
\* packet with all its bytes, or at least two FU-A packets that together cover
\* everything behind the NAL header; and no payload exceeds what h264_fua.hpp
\* allows.  It is left open which lengths go out in one packet: PROJECT.md has
\* 1388, fragment_nal 1400.
FragmentsRebuildNal ==
  pc = "send" =>
    /\ \/ fragments = <<Single(nal)>>
       \/ /\ Len(fragments) >= 2
          /\ \A k \in 1..Len(fragments) : fragments[k].fu
          /\ fragments[1].from = 1
          /\ fragments[Len(fragments)].from + fragments[Len(fragments)].len = nal.len
    /\ \A k \in 1..Len(fragments) :
         fragments[k].len + (IF fragments[k].fu THEN 2 ELSE 0) <= Mtu

\* What fragment_nal's loop maintains, the inductive part behind the two
\* properties above: the bytes cut so far end at `offset'.
CutInv ==
  /\ nal.len <= Mtu => (pc # "cut" /\ (pc # "idle" => fragments = <<Single(nal)>>))
  /\ (nal.len > Mtu) =>
       /\ offset <= payload_len
       /\ offset = IF fragments = <<>> THEN 0
                   ELSE fragments[Len(fragments)].from
                          + fragments[Len(fragments)].len - 1
       /\ pc # "cut" => offset = payload_len
       /\ \A k \in 1..Len(fragments) : fragments[k].len <= max_payload_per_fragment

\* Two packets arrive with consecutive sequence numbers exactly if nothing was
\* left out between them: a failed send, which also drops the rest of its NAL
\* unit, and a lost datagram always leave a gap that the receiver can see, also
\* across the wrap of the 16-bit counter.
LossIsVisible ==
  [][ (got # None /\ got' # got) =>
        ((got'.sequence = (got.sequence + 1) % SeqMod) <=> (burst = 0)) ]_vars

\* Packets that follow one another carry the same timestamp exactly if they
\* belong to the same picture, parameter sets included, for an encoder that
\* puts each picture in one slice.
OneTimestampPerFrame ==
  [][ (got # None /\ got' # got) =>
        ((got'.frame = got.frame) <=> (got'.timestamp = got.timestamp)) ]_vars

\* PROJECT.md: the packets of one frame carry the same timestamp.
SameFrameSameTimestamp ==
  [][ (got # None /\ got' # got /\ got'.frame = got.frame) =>
        got'.timestamp = got.timestamp ]_vars
==============================================================================
