----------------------------- MODULE WireFormat ------------------------------
(***************************************************************************)
(* The bytes the server sends.  The hub caches the first SPS and PPS, from *)
(* the prescan of a file or from the NAL units it hands over (hub.cpp);    *)
(* DESCRIBE advertises them in base64 (base64.cpp) in the SDP (builder.cpp)*)
(* and send_nal turns each NAL unit into RTP packets (h264_fua.cpp,        *)
(* packetizer.cpp), here to one subscriber and without a failing socket:   *)
(* the order of the calls and the failures are those of MediaHub,          *)
(* RtspSession and RtpStreamer.                                            *)
(*                                                                         *)
(* A byte is a number, a base64 character its index in the alphabet.  What *)
(* is sent is judged by decoders written after RFC 3550, 4648 and 6184.    *)
(***************************************************************************)
EXTENDS Integers, Sequences, SequencesExt

CONSTANTS
  NalUnits,      \* NAL units, as sequences of bytes
  MaxNals,       \* longest stream
  kMaxNals,      \* most NAL units the prescan reads
  Mtu,           \* kDefaultMtu
  Fps,           \* cfg_.fps, any number
  FirstSequences, \* first values of sequence_, chosen at random by Streamer
  Timestamps,    \* first values of timestamp_ (0, or later ones)
  Ssrcs,         \* values of ssrc_
  None           \* no SDP yet

Byte == 0..255
Uint16 == 0..65535

\* n fits in 32 bits, in words that TLC can count in.
Fits32(n) == n \in Nat /\ n \div 65536 < 65536

\* 90 kHz over the frame rate, or over 30 if that is none.
ts_increment_ == 90000 \div (IF Fps > 0 THEN Fps ELSE 30)

\* RFC 6184 gives its FU-A a NAL type that H.264 does not use, and the clock of
\* this module does not wrap (RtpStreamer's does).
ASSUME WireAssumption ==
  /\ NalUnits \subseteq Seq(Byte) \ {<<>>}
  /\ \A nal \in NalUnits : nal[1] % 32 # 28
  /\ MaxNals \in Nat /\ kMaxNals \in Nat
  /\ Fps \in Int
  /\ Mtu \in Nat /\ Mtu >= 3
  /\ FirstSequences \subseteq Uint16
  /\ \A s \in Ssrcs : Fits32(s)
  /\ \A t \in Timestamps : t \in Nat /\ Fits32(t + MaxNals * ts_increment_)

VARIABLES
  camera,        \* cfg_.source is "camera"
  stream,        \* NAL units of the file or of the camera
  pc,            \* "prescan" (in the constructor) or "serve"
  opened,        \* the prescan could open the file
  scanned,       \* NAL units the prescan has read
  sps_, pps_,    \* the cached parameter sets, <<>> if there is none
  pos,           \* NAL units handed to on_nal
  sequence_, timestamp_, ssrc_,  \* of the streamer
  packets,       \* the datagrams of the last send_nal
  sdp            \* the last answer to DESCRIBE

hubVars == <<camera, stream, ssrc_>>
streamerVars == <<pos, sequence_, timestamp_, packets>>
vars == <<hubVars, pc, opened, scanned, sps_, pps_, streamerVars, sdp>>

Init ==
  /\ camera \in BOOLEAN
  /\ stream \in UNION {[1..n -> NalUnits] : n \in 0..MaxNals}
  /\ pc = IF camera THEN "serve" ELSE "prescan"
  /\ opened = FALSE
  /\ scanned = 0
  /\ sps_ = <<>> /\ pps_ = <<>>
  /\ pos = 0
  /\ sequence_ \in FirstSequences /\ timestamp_ \in Timestamps /\ ssrc_ \in Ssrcs
  /\ packets = <<>>
  /\ sdp = None

nal_type_of(nal) == nal[1] % 32

------------------------------------------------------------------------------
(* The parameter sets                                                      *)

\* Mutant: a later set replaces the first one.
CachedLatest(set, type, nal) == IF nal_type_of(nal) = type THEN nal ELSE set
\* The first set of its type is kept.
Cached(set, type, nal) ==
  IF nal_type_of(nal) = type /\ set = <<>> THEN nal ELSE set

Cache(nal) == sps_' = Cached(sps_, 7, nal) /\ pps_' = Cached(pps_, 8, nal)

Missing == sps_ = <<>> \/ pps_ = <<>>

\* Mutant: the prescan looks for the SPS only.
PrescanWantsSps == scanned < kMaxNals /\ sps_ = <<>>
PrescanWants == scanned < kMaxNals /\ Missing

\* One turn of the loop over a reader of its own.  Behind the last NAL unit
\* the reader returns false and the loop breaks.
PrescanNal ==
  /\ pc = "prescan" /\ PrescanWants /\ scanned < Len(stream)
  /\ opened' = TRUE
  /\ Cache(stream[scanned + 1])
  /\ scanned' = scanned + 1
  /\ UNCHANGED <<hubVars, pc, streamerVars, sdp>>

PrescanEnds ==
  /\ pc = "prescan" /\ ~(PrescanWants /\ scanned < Len(stream))
  /\ opened' = TRUE
  /\ pc' = "serve"
  /\ UNCHANGED <<hubVars, scanned, sps_, pps_, streamerVars, sdp>>

\* fopen fails.
PrescanFails ==
  /\ pc = "prescan" /\ ~opened
  /\ pc' = "serve"
  /\ UNCHANGED <<hubVars, opened, scanned, sps_, pps_, streamerVars, sdp>>

------------------------------------------------------------------------------
(* base64_encode                                                           *)

Pad == 64    \* '='

Sextets(a, b, c) ==
  LET triple == a * 65536 + b * 256 + c
  IN <<triple \div 262144, (triple \div 4096) % 64, (triple \div 64) % 64,
       triple % 64>>

\* Mutant: two bytes at the end get the padding of one.
Base64TailOne(data) ==
  LET n == Len(data) IN
  IF n % 3 = 0 THEN <<>> ELSE SubSeq(Sextets(data[n], 0, 0), 1, 2) \o <<Pad, Pad>>
Base64Tail(data) ==
  LET n == Len(data) IN
  IF n % 3 = 0 THEN <<>>
  ELSE IF n % 3 = 1 THEN SubSeq(Sextets(data[n], 0, 0), 1, 2) \o <<Pad, Pad>>
  ELSE SubSeq(Sextets(data[n - 1], data[n], 0), 1, 3) \o <<Pad>>

base64_encode(data) ==
  FlattenSeq([k \in 1..(Len(data) \div 3) |->
                Sextets(data[3 * k - 2], data[3 * k - 1], data[3 * k])])
    \o Base64Tail(data)

------------------------------------------------------------------------------
(* DESCRIBE                                                                *)

\* Both sets or nothing.
sprop_parameter_sets ==
  IF Missing THEN <<>> ELSE <<base64_encode(sps_), base64_encode(pps_)>>

\* The lines that say something of the stream, in their order; in fmtp the 1 is
\* the packetization mode.
build(payload_type, clock_rate, sprop) ==
  <<[line |-> "control", value |-> "*"],
    [line |-> "m", value |-> payload_type],
    [line |-> "rtpmap", value |-> <<payload_type, clock_rate>>],
    [line |-> "fmtp", value |-> <<payload_type, 1, sprop>>],
    [line |-> "control", value |-> "track0"]>>

Describe ==
  /\ pc = "serve"
  /\ sdp' = build(96, 90000, sprop_parameter_sets)
  /\ UNCHANGED <<hubVars, pc, opened, scanned, sps_, pps_, streamerVars>>

------------------------------------------------------------------------------
(* RTP                                                                     *)

\* Big-endian, without htons and htonl.
Bytes16(n) == <<n \div 256, n % 256>>
Bytes32(n) == Bytes16(n \div 65536) \o Bytes16(n % 65536)

write_header(h) ==
  <<128, (IF h.marker THEN 128 ELSE 0) + (h.payload_type % 128)>>
    \o Bytes16(h.sequence) \o Bytes32(h.timestamp) \o Bytes32(h.ssrc)

build_packet(h, payload) == write_header(h) \o payload

\* Mutant: the importance bits of the NAL header are lost.
FuIndicatorTypeOnly(nal) == 28
\* The F and NRI bits of the NAL header, and type 28.
FuIndicator(nal) == (nal[1] \div 32) * 32 + 28

FuHeader(nal, first, last) ==
  nal_type_of(nal) + (IF first THEN 128 ELSE 0) + (IF last THEN 64 ELSE 0)

\* Mutant: the two FU-A bytes are not counted.
max_payload_mtu == Mtu
max_payload_per_fragment == Mtu - 2

\* A NAL unit of up to Mtu bytes as it is, a longer one in pieces without its
\* header byte, which the two FU-A bytes of each piece stand for.
fragment_nal(nal) ==
  IF Len(nal) <= Mtu THEN <<nal>>
  ELSE LET chunk == max_payload_per_fragment
           count == (Len(nal) - 1 + chunk - 1) \div chunk
       IN [k \in 1..count |->
             <<FuIndicator(nal), FuHeader(nal, k = 1, k = count)>>
               \o SubSeq(nal, 2 + (k - 1) * chunk,
                         IF k = count THEN Len(nal) ELSE 1 + k * chunk)]

\* The marker goes on the last packet of each NAL unit, as h264_fua.hpp asks.
send_nal(nal) ==
  LET fragments == fragment_nal(nal) IN
  [k \in DOMAIN fragments |->
     build_packet([payload_type |-> 96, sequence |-> (sequence_ + k - 1) % 65536,
                   timestamp |-> timestamp_, ssrc |-> ssrc_,
                   marker |-> k = Len(fragments)],
                  fragments[k])]

\* on_nal: cache, send, and advance the clock behind a slice.
OnNal ==
  /\ pc = "serve" /\ pos < Len(stream)
  /\ LET nal == stream[pos + 1] IN
       /\ Cache(nal)
       /\ packets' = send_nal(nal)
       /\ sequence_' = (sequence_ + Len(packets')) % 65536
       /\ timestamp_' =
            IF nal_type_of(nal) \in {1, 5} THEN timestamp_ + ts_increment_ ELSE timestamp_
  /\ pos' = pos + 1
  /\ UNCHANGED <<hubVars, pc, opened, scanned, sdp>>

------------------------------------------------------------------------------

Next == PrescanNal \/ PrescanEnds \/ PrescanFails \/ Describe \/ OnNal

Spec == Init /\ [][Next]_vars

------------------------------------------------------------------------------
(* The decoders of the RFCs                                                *)

Value16(p, k) == 256 * p[k] + p[k + 1]
Value32(p, k) == 65536 * Value16(p, k) + Value16(p, k + 2)

\* RFC 3550, section 5.1.
ReadPacket(p) ==
  [version |-> p[1] \div 64, flags |-> p[1] % 64, marker |-> p[2] >= 128,
   payload_type |-> p[2] % 128, sequence |-> Value16(p, 3),
   timestamp |-> Value32(p, 5), ssrc |-> Value32(p, 9),
   payload |-> SubSeq(p, 13, Len(p))]

\* RFC 6184, section 5.8: one packet that is no FU-A, or FU-A packets with the
\* start bit on the first and the end bit on the last only.
Rebuilt(payloads) ==
  LET n == Len(payloads)
      header(k) == payloads[k][2]
  IN IF n = 1 /\ payloads[1][1] % 32 # 28 THEN payloads[1]
     ELSE IF \A k \in 1..n :
               /\ payloads[k][1] = payloads[1][1] /\ payloads[k][1] % 32 = 28
               /\ header(k) >= 128 <=> k = 1
               /\ (header(k) \div 64) % 2 = 1 <=> k = n
       THEN <<(payloads[1][1] \div 32) * 32 + (header(1) % 32)>>
              \o FlattenSeq([k \in 1..n |-> SubSeq(payloads[k], 3, Len(payloads[k]))])
       ELSE <<>>

\* RFC 4648, section 4: four characters are three bytes, less the padding.
Digit(c) == IF c = Pad THEN 0 ELSE c

Group(g) ==
  LET triple == Digit(g[1]) * 262144 + Digit(g[2]) * 4096 + Digit(g[3]) * 64 + Digit(g[4])
  IN SubSeq(<<triple \div 65536, (triple \div 256) % 256, triple % 256>>,
            1, IF g[3] = Pad THEN 1 ELSE IF g[4] = Pad THEN 2 ELSE 3)

Decoded(chars) ==
  FlattenSeq([k \in 1..(Len(chars) \div 4) |-> Group(SubSeq(chars, 4 * k - 3, 4 * k))])

\* The first NAL unit of a type among the first n of the stream, or <<>>.
FirstOf(type, n) ==
  LET found == SelectInSubSeq(stream, 1, n, LAMBDA nal : nal_type_of(nal) = type)
  IN IF found = 0 THEN <<>> ELSE stream[found]

------------------------------------------------------------------------------
(* Properties                                                              *)

\* What the last answer announced.
PayloadType == sdp[3].value[1]
PacketizationMode == sdp[4].value[2]
Sprop == sdp[4].value[3]

\* Every variable has its type, and what is sent is bytes and characters.
TypeOK ==
  /\ pc \in {"prescan", "serve"}
  /\ scanned \in 0..Len(stream) /\ pos \in 0..Len(stream)
  /\ {sps_, pps_} \subseteq NalUnits \union {<<>>}
  /\ sequence_ \in Uint16
  /\ \A p \in Range(packets) : Len(p) \in 13..(12 + Mtu) /\ Range(p) \subseteq Byte
  /\ sdp # None => \A s \in Range(Sprop) : Len(s) % 4 = 0 /\ Range(s) \subseteq 0..64

\* A receiver that knows RFC 3550 and the packet formats of RFC 6184 gets back
\* the NAL unit the hub handed over, byte for byte, from consecutive packets of
\* the announced payload type and, if they are fragments, an announced mode that
\* has fragments, with one timestamp, also when the 16-bit sequence number wraps
\* in between.  Nothing is said of the marker: send_nal sets it on the last
\* packet of every NAL unit, RFC 6184 and PROJECT.md have it on the last packet
\* of a frame.
ReceiverRebuildsNal ==
  packets # <<>> =>
    LET got == [k \in DOMAIN packets |-> ReadPacket(packets[k])]
        nal == stream[pos]
    IN /\ Rebuilt([k \in DOMAIN got |-> got[k].payload]) = nal
       /\ sdp # None /\ Len(got) > 1 => PacketizationMode = 1
       /\ \A k \in DOMAIN got :
            /\ got[k].version = 2 /\ got[k].flags = 0
            /\ got[k].ssrc = ssrc_
            /\ sdp # None => got[k].payload_type = PayloadType
            /\ got[k].timestamp
                 = timestamp_ - (IF nal_type_of(nal) \in {1, 5} THEN ts_increment_ ELSE 0)
            /\ (got[k].sequence + Len(got) - k + 1) % 65536 = sequence_

\* A DESCRIBE that advertises parameter sets advertises the first SPS and the
\* first PPS of the stream, whichever of prescan and pump came across them, and
\* a client that decodes the base64 gets their bytes.
SpropIsFirstSets ==
  sdp # None /\ Sprop # <<>> =>
    /\ Decoded(Sprop[1]) = FirstOf(7, Len(stream))
    /\ Decoded(Sprop[2]) = FirstOf(8, Len(stream))

\* hub.hpp: a file is scanned beforehand, so that even the first DESCRIBE has
\* parameter sets, if the first kMaxNals NAL units of the file hold both.
SpropFromFirstDescribe ==
  LET n == IF kMaxNals < Len(stream) THEN kMaxNals ELSE Len(stream) IN
  /\ sdp # None /\ ~camera /\ opened
  /\ FirstOf(7, n) # <<>> /\ FirstOf(8, n) # <<>>
  => Sprop # <<>>
==============================================================================
