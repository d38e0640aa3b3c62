------------------------- MODULE AnnexBReaderProofs --------------------------
(***************************************************************************)
(* Proofs about AnnexBReader, for every stream, every chunk size and every *)
(* way the reads cut the stream.                                           *)
(*                                                                         *)
(* Codes, NalBehind and Visible speak of positions in the whole stream,    *)
(* which never changes; the lemmas below take the offsets of the window    *)
(* that the reader works with to them.                                     *)
(***************************************************************************)
EXTENDS AnnexBReader, FunctionTheorems, FiniteSetTheorems, SequenceTheorems,
        WellFoundedInduction, TLAPS

\* A start code begins at stream position P and lies in the first n bytes.
Visible(P, n) ==
  \/ P \in Codes /\ P + 2 <= n
  \/ P \in 1..Len(data) /\ data[P] = 0 /\ P + 1 \in Codes /\ P + 3 <= n

------------------------------------------------------------------------------
(* The inductive invariant                                                 *)

\* The code whose NAL unit is being looked for: 0 0 1 at the front of the
\* window, behind one more zero byte if the start code is the longer one.
Front == base + nal_start - 2

\* While scanning, the start code is at the front of the window and all of it
\* has been read.
FrontInv ==
  pc = "scan" =>
    /\ nal_start \in {3, 4} /\ Front \in Codes
    /\ base + nal_start <= fetched
    /\ nal_start = 4 => data[base + 1] = 0
    /\ scan >= nal_start

\* Nothing was missed: no start code is visible between the one at the front
\* and the place where the search goes on.
ScanInv ==
  pc = "scan" =>
    \A P \in Nat : base + nal_start < P /\ P <= base + scan => ~Visible(P, fetched)

\* The NAL unit behind p is not empty.
Proper(p) == NalBehind(p)[1] <= NalBehind(p)[2]

\* The NAL units handed over are those behind the codes that the window has
\* left behind, and lie in front of the window.
OutInv ==
  /\ \A k \in 1..Len(out) :
       /\ \E p \in Codes : p <= base /\ Proper(p) /\ out[k] = NalBehind(p)
       /\ out[k][1] <= out[k][2] /\ out[k][2] <= base
       /\ \A j \in 1..(k - 1) : out[j][2] < out[k][1]
  /\ \A p \in Codes : p <= base /\ Proper(p) => \E k \in 1..Len(out) : out[k] = NalBehind(p)

\* At the end no code lies ahead.
EndInv == pc = "ended" => \A p \in Codes : p <= base

ReaderInv == TypeOK /\ FrontInv /\ ScanInv /\ OutInv /\ EndInv

------------------------------------------------------------------------------
(* Lemmas about operators                                                  *)

\* A stream is a sequence of bytes, the window a part of it.
LEMMA StreamFacts ==
  ASSUME TypeOK
  PROVE  /\ Len(data) \in Nat /\ Len(data) <= MaxLen
         /\ \A P \in 1..Len(data) : data[P] \in 0..2
         /\ base \in Nat /\ fetched \in Nat /\ base <= fetched /\ fetched <= Len(data)
         /\ Size \in Nat /\ base + Size = fetched
<1>1. PICK n \in 0..MaxLen : data \in [1..n -> 0..2]
  BY DEF TypeOK, Streams
<1>2. n \in Nat /\ data \in Seq(0..2)
  BY <1>1, ReaderAssumption, SeqDef
<1>3. Len(data) \in Nat /\ data \in [1..Len(data) -> 0..2] /\ DOMAIN data = 1..Len(data)
  BY <1>2, LenProperties
<1>4. Len(data) = n
  BY <1>1, <1>2, <1>3
<1>5. fetched \in 0..Len(data) /\ base \in 0..fetched
  BY DEF TypeOK
<1> QED BY <1>1, <1>3, <1>4, <1>5, ReaderAssumption DEF Size

\* First is the least element.
LEMMA FirstFacts ==
  ASSUME NEW codes \in SUBSET Nat, codes # {}
  PROVE  First(codes) \in codes /\ \A j \in codes : First(codes) <= j
<1>1. PICK k \in codes : \A j \in codes : ~(<<j, k>> \in OpToRel(<, Nat))
  BY NatLessThanWellFounded, WFMin
<1>2. ASSUME NEW j \in codes PROVE k <= j
  <2>1. ~(j < k)
    BY <1>1 DEF OpToRel
  <2> QED BY <2>1
<1> QED BY <1>1, <1>2 DEF First

\* Two codes do not overlap.
LEMMA CodeFacts ==
  ASSUME TypeOK, NEW p \in Codes
  PROVE  /\ p \in Nat /\ 1 <= p /\ p + 2 <= Len(data)
         /\ data[p] = 0 /\ data[p+1] = 0 /\ data[p+2] = 1
         /\ p + 1 \notin Codes /\ p + 2 \notin Codes
<1>1. /\ p \in Nat /\ 1 <= p /\ p + 2 <= Len(data)
      /\ data[p] = 0 /\ data[p+1] = 0 /\ data[p+2] = 1
  BY StreamFacts DEF Codes
<1>2. p + 1 \notin Codes
  <2> SUFFICES ASSUME p + 1 \in Codes PROVE FALSE
    OBVIOUS
  <2>1. data[(p + 1) + 1] = 0 /\ (p + 1) + 1 = p + 2
    BY <1>1 DEF Codes
  <2> QED BY <1>1, <2>1
<1>3. p + 2 \notin Codes
  BY <1>1 DEF Codes
<1> QED BY <1>1, <1>2, <1>3

\* What the search of the window sees at offset k.
LEMMA StartCodeFacts ==
  ASSUME TypeOK, NEW k \in Nat
  PROVE  /\ StartCodeAt(k) \in {0, 3, 4}
         /\ StartCodeAt(k) = 3 <=> base + k + 1 \in Codes /\ base + k + 3 <= fetched
         /\ StartCodeAt(k) = 4 => /\ base + k + 1 \in 1..Len(data) /\ data[base + k + 1] = 0
                                  /\ base + k + 2 \in Codes /\ base + k + 4 <= fetched
         /\ StartCodeAt(k) # 0 <=> Visible(base + k + 1, fetched)
<1> DEFINE P == base + k + 1
<1>1. /\ P \in Nat /\ 1 <= P
      /\ Byte(k) = data[P] /\ Byte(k + 1) = data[P + 1] /\ Byte(k + 2) = data[P + 2]
      /\ Byte(k + 3) = data[P + 3]
      /\ k + 2 < Size <=> P + 2 <= fetched
      /\ k + 3 < Size <=> P + 3 <= fetched
  <2>1. /\ base + (k + 1) + 1 = P + 1 /\ base + (k + 2) + 1 = P + 2
        /\ base + (k + 3) + 1 = P + 3
    BY StreamFacts
  <2> QED BY <2>1, StreamFacts, SMTT(20) DEF Byte
<1>2. fetched <= Len(data) /\ Len(data) \in Nat /\ Size \in Nat /\ fetched \in Nat
  BY StreamFacts
<1>3. P + 2 = base + k + 3 /\ P + 3 = base + k + 4 /\ P + 1 = base + k + 2
  BY StreamFacts
<1> HIDE DEF P
<1>4. /\ StartCodeAt(k) \in {0, 3, 4}
      /\ StartCodeAt(k) = 3 <=> /\ P + 2 <= fetched
                                /\ data[P] = 0 /\ data[P + 1] = 0 /\ data[P + 2] = 1
      /\ StartCodeAt(k) = 4 <=> /\ P + 3 <= fetched
                                /\ data[P] = 0 /\ data[P + 1] = 0 /\ data[P + 2] = 0
                                /\ data[P + 3] = 1
  BY <1>1, <1>2 DEF StartCodeAt
<1>5. P + 2 <= fetched =>
        (P \in Codes <=> data[P] = 0 /\ data[P + 1] = 0 /\ data[P + 2] = 1)
  BY <1>1, <1>2 DEF Codes
<1>6. P + 3 <= fetched =>
        (P + 1 \in Codes <=> data[P + 1] = 0 /\ data[P + 2] = 0 /\ data[P + 3] = 1)
  <2>1. (P + 1) + 1 = P + 2 /\ (P + 1) + 2 = P + 3
    BY <1>1
  <2> QED BY <1>1, <1>2, <2>1 DEF Codes
<1>7. P + 3 <= fetched => P \in 1..Len(data)
  BY <1>1, <1>2
<1>8. StartCodeAt(k) = 3 <=> P \in Codes /\ P + 2 <= fetched
  BY <1>4, <1>5
<1>9. StartCodeAt(k) = 4 <=> P \in 1..Len(data) /\ data[P] = 0 /\ P + 1 \in Codes /\ P + 3 <= fetched
  BY <1>4, <1>6, <1>7
<1>10. StartCodeAt(k) # 0 <=> StartCodeAt(k) = 3 \/ StartCodeAt(k) = 4
  BY <1>4
<1>11. StartCodeAt(k) # 0 <=> Visible(P, fetched)
  BY <1>8, <1>9, <1>10 DEF Visible
<1> QED BY <1>4, <1>3, <1>8, <1>9, <1>11 DEF P

\* Where the search stops: at the first start code that is visible behind
\* `offset', and at the first code there is.
LEMMA FoundFacts ==
  ASSUME TypeOK, NEW offset \in Nat, FindStartCode(offset) # {},
         NEW pos, pos = First(FindStartCode(offset))
  PROVE  /\ pos \in Nat /\ offset <= pos
         /\ StartCodeAt(pos) \in {3, 4}
         /\ base + pos + StartCodeAt(pos) <= fetched
         /\ base + pos + StartCodeAt(pos) - 2 \in Codes
         /\ StartCodeAt(pos) = 4 => data[base + pos + 1] = 0
         /\ \A P \in Nat : base + offset < P /\ P <= base + pos => ~Visible(P, fetched)
         /\ \A p \in Codes :
              base + offset < p => base + pos + StartCodeAt(pos) - 2 <= p
<1>1. FindStartCode(offset) \subseteq Nat
  BY StreamFacts DEF FindStartCode
<1>2. /\ pos \in offset..Size /\ StartCodeAt(pos) # 0
      /\ \A j \in offset..Size : StartCodeAt(j) # 0 => pos <= j
  BY <1>1, FirstFacts DEF FindStartCode
<1>3. pos \in Nat /\ offset <= pos /\ pos <= Size
  BY <1>2, StreamFacts
<1>4. /\ StartCodeAt(pos) \in {3, 4}
      /\ StartCodeAt(pos) = 3 => base + pos + 1 \in Codes /\ base + pos + 3 <= fetched
      /\ StartCodeAt(pos) = 4 => /\ data[base + pos + 1] = 0
                                 /\ base + pos + 2 \in Codes /\ base + pos + 4 <= fetched
  BY <1>2, <1>3, StartCodeFacts
<1> DEFINE c == base + pos + StartCodeAt(pos) - 2
<1>5. /\ StartCodeAt(pos) = 3 => c = base + pos + 1
      /\ StartCodeAt(pos) = 4 => c = base + pos + 2
      /\ c \in Codes /\ base + pos + StartCodeAt(pos) <= fetched
  <2>1. CASE StartCodeAt(pos) = 3
    <3>1. c = base + pos + 1
      BY <1>3, <2>1, StreamFacts
    <3> QED BY <1>4, <2>1, <3>1
  <2>2. CASE StartCodeAt(pos) = 4
    <3>1. c = base + pos + 2
      BY <1>3, <2>2, StreamFacts
    <3> QED BY <1>4, <2>2, <3>1
  <2> QED BY <1>4, <2>1, <2>2
<1> HIDE DEF c
<1>6. base + pos + 3 <= fetched
  BY <1>3, <1>4, StreamFacts
<1>7. c = base + pos + 1 \/ c = base + pos + 2
  BY <1>4, <1>5
<1>8. ASSUME NEW P \in Nat, base + offset < P, P <= base + pos
      PROVE  ~Visible(P, fetched)
  <2> DEFINE k == P - base - 1
  <2>1. k \in offset..Size /\ k \in Nat /\ ~(pos <= k) /\ base + k + 1 = P
    BY <1>3, <1>8, StreamFacts
  <2> HIDE DEF k
  <2>2. StartCodeAt(k) = 0
    BY <1>2, <2>1
  <2> QED BY <2>1, <2>2, StartCodeFacts
<1>9. ASSUME NEW p \in Codes, base + offset < p PROVE c <= p
  <2>1. p \in Nat /\ p + 1 \notin Codes
    BY CodeFacts
  <2>2. CASE p <= base + pos
    <3>1. p + 2 <= fetched
      BY <1>3, <1>6, <2>1, <2>2, StreamFacts
    <3>2. Visible(p, fetched)
      BY <3>1 DEF Visible
    <3> QED BY <1>8, <1>9, <2>1, <2>2, <3>2
  <2>3. CASE p > base + pos
    <3>1. p # base + pos + 1 \/ c # base + pos + 2
      <4>1. SUFFICES ASSUME p = base + pos + 1, c = base + pos + 2 PROVE FALSE
        OBVIOUS
      <4>2. c = p + 1
        BY <1>3, <4>1, StreamFacts
      <4> QED BY <1>5, <2>1, <4>2
    <3> QED BY <1>3, <1>7, <2>1, <2>3, <3>1, StreamFacts
  <2> QED BY <1>3, <2>1, <2>2, <2>3, StreamFacts
<1> QED BY <1>3, <1>4, <1>5, <1>8, <1>9 DEF c

\* When the search finds nothing, nothing is visible.
LEMMA NothingFacts ==
  ASSUME TypeOK, NEW offset \in Nat, FindStartCode(offset) = {}
  PROVE  /\ \A P \in Nat : base + offset < P => ~Visible(P, fetched)
         /\ AtEof => \A p \in Codes : p <= base + offset
<1>1. ASSUME NEW P \in Nat, base + offset < P PROVE ~Visible(P, fetched)
  <2> SUFFICES ASSUME Visible(P, fetched) PROVE FALSE
    OBVIOUS
  <2> DEFINE k == P - base - 1
  <2>1. P + 2 <= fetched
    BY <1>1, StreamFacts DEF Visible
  <2>2. k \in offset..Size /\ k \in Nat /\ base + k + 1 = P
    BY <1>1, <2>1, StreamFacts
  <2> HIDE DEF k
  <2>3. StartCodeAt(k) = 0
    BY <2>2 DEF FindStartCode
  <2> QED BY <2>2, <2>3, StartCodeFacts
<1>2. ASSUME AtEof, NEW p \in Codes PROVE p <= base + offset
  <2>1. p \in Nat /\ p + 2 <= fetched
    BY <1>2, CodeFacts DEF AtEof
  <2>2. ~(base + offset < p)
    BY <1>1, <2>1 DEF Visible
  <2> QED BY <2>1, <2>2, StreamFacts
<1> QED BY <1>1, <1>2

\* The codes behind the one at the front begin behind the start code.
LEMMA FrontFacts ==
  ASSUME TypeOK, FrontInv, pc = "scan"
  PROVE  /\ Front \in Codes /\ Front \in Nat /\ base < Front
         /\ nal_start \in Nat /\ scan \in Nat /\ nal_start <= scan
         /\ Front + 3 = base + nal_start + 1 /\ Front + 2 <= fetched
         /\ \A p \in Codes : base < p => p = Front \/ base + nal_start < p
<1>1. /\ nal_start \in {3, 4} /\ Front \in Codes /\ scan \in Nat /\ scan >= nal_start
      /\ base + nal_start <= fetched
  BY DEF FrontInv, TypeOK
<1>2. /\ Front = base + 1 \/ Front = base + 2
      /\ Front + 2 = base + nal_start
  BY <1>1, StreamFacts DEF Front
<1> HIDE DEF Front
<1>3. ASSUME NEW p \in Codes, base < p, p # Front PROVE base + nal_start < p
  <2>1. p \in Nat /\ p + 1 \notin Codes
    BY CodeFacts
  <2>2. Front + 1 \notin Codes /\ Front + 2 \notin Codes
    BY <1>1, CodeFacts
  <2>3. p # Front + 1 /\ p # Front + 2
    BY <2>2
  <2>4. p + 1 # Front
    BY <1>1, <2>1
  <2> QED BY <1>1, <1>2, <1>3, <2>1, <2>3, <2>4, StreamFacts
<1> QED BY <1>1, <1>2, <1>3, StreamFacts

\* The numbers of a search behind the front.
LEMMA FrontNumbers ==
  ASSUME TypeOK, FrontInv, pc = "scan"
  PROVE  /\ base \in Nat /\ fetched \in Nat /\ Len(data) \in Nat /\ fetched <= Len(data)
         /\ nal_start \in Nat /\ scan \in Nat /\ nal_start <= scan
         /\ Front \in Nat /\ base < Front
         /\ Front + 3 = base + nal_start + 1 /\ Front + 2 <= fetched
BY FrontFacts, StreamFacts

\* The last NAL unit of the stream.
LEMMA LastNal ==
  ASSUME TypeOK, FrontInv, ScanInv, pc = "scan", FindStartCode(scan) = {}, AtEof
  PROVE  /\ NalBehind(Front) = <<base + nal_start + 1, fetched>>
         /\ \A p \in Codes : p <= base \/ p = Front
<1>1. ASSUME NEW p \in Codes, base + nal_start < p PROVE FALSE
  <2>1. p \in Nat /\ p + 2 <= fetched
    BY CodeFacts DEF AtEof
  <2>2. p <= base + scan
    BY <2>1, NothingFacts, FrontFacts
  <2>3. ~Visible(p, fetched)
    BY <1>1, <2>1, <2>2 DEF ScanInv
  <2> QED BY <2>1, <2>3 DEF Visible
<1>2. \A p \in Codes : p <= base \/ p = Front
  <2> SUFFICES ASSUME NEW p \in Codes, ~(p <= base) PROVE p = Front
    OBVIOUS
  <2>1. p \in Nat
    BY CodeFacts
  <2>2. base < p
    BY <2>1, FrontNumbers
  <2> QED BY <1>1, <2>2, FrontFacts
<1>3. {q \in Codes : q > Front} = {}
  <2> SUFFICES ASSUME NEW q \in Codes, q > Front PROVE FALSE
    OBVIOUS
  <2>1. q \in Nat
    BY CodeFacts
  <2> QED BY <1>2, <2>1, FrontNumbers
<1>4. NalBehind(Front) = <<Front + 3, Len(data)>>
  BY <1>3 DEF NalBehind
<1> QED BY <1>2, <1>4, FrontFacts DEF AtEof

\* The NAL unit in front of the start code that the search has stopped at.
LEMMA NextNal ==
  ASSUME TypeOK, FrontInv, ScanInv, pc = "scan", FindStartCode(scan) # {},
         NEW pos, pos = First(FindStartCode(scan))
  PROVE  /\ pos \in Nat /\ nal_start <= pos /\ base + pos <= fetched
         /\ NalBehind(Front) = <<base + nal_start + 1, base + pos>>
         /\ Front <= base + pos
         /\ \A p \in Codes : p <= base + pos => p <= base \/ p = Front
<1> DEFINE c == base + pos + StartCodeAt(pos) - 2
<1>1. /\ pos \in Nat /\ scan <= pos
      /\ StartCodeAt(pos) \in {3, 4} /\ c \in Codes
      /\ base + pos + StartCodeAt(pos) <= fetched
      /\ StartCodeAt(pos) = 4 => data[base + pos + 1] = 0
      /\ \A P \in Nat : base + scan < P /\ P <= base + pos => ~Visible(P, fetched)
      /\ \A p \in Codes : base + scan < p => c <= p
  BY FoundFacts, FrontFacts
<1>2. /\ StartCodeAt(pos) = 3 => c = base + pos + 1
      /\ StartCodeAt(pos) = 4 => c = base + pos + 2
      /\ base + pos + 3 <= fetched
  BY <1>1, StreamFacts
<1>3. c \in Nat /\ base + pos < c /\ pos \in Nat /\ scan <= pos /\ base + pos + 3 <= fetched
  BY <1>1, <1>2, StreamFacts, SMTT(20)
<1> HIDE DEF c
<1>4. nal_start <= pos /\ Front + 2 <= base + pos /\ Front < c
  BY <1>1, <1>3, FrontNumbers, SMTT(20)
<1>5. ASSUME NEW P \in Nat, base + nal_start < P, P <= base + pos
      PROVE  ~Visible(P, fetched)
  <2>1. CASE P <= base + scan
    BY <1>5, <2>1 DEF ScanInv
  <2>2. CASE ~(P <= base + scan)
    <3>1. base + scan < P
      BY <2>2, FrontNumbers
    <3> QED BY <1>1, <1>5, <3>1
  <2> QED BY <2>1, <2>2
<1>6. ASSUME NEW p \in Codes, base + nal_start < p PROVE c <= p
  <2>1. p \in Nat
    BY CodeFacts
  <2>2. CASE base + scan < p
    BY <1>1, <2>2
  <2>3. CASE ~(base + scan < p)
    <3>1. p <= base + pos /\ p + 2 <= fetched
      <4>1. base \in Nat /\ fetched \in Nat /\ scan \in Nat
        BY FrontNumbers
      <4> QED BY <1>3, <2>1, <2>3, <4>1
    <3>2. Visible(p, fetched)
      BY <3>1 DEF Visible
    <3> QED BY <1>5, <1>6, <2>1, <3>1, <3>2
  <2> QED BY <2>2, <2>3
<1>7. First({q \in Codes : q > Front}) = c /\ {q \in Codes : q > Front} # {}
  <2> DEFINE later == {q \in Codes : q > Front}
  <2>1. c \in later
    BY <1>1, <1>4, <1>3, FrontFacts
  <2>2. later \subseteq Nat
    BY CodeFacts
  <2>3. First(later) \in later /\ First(later) <= c /\ First(later) \in Nat
    BY <2>1, <2>2, FirstFacts
  <2>4. \A p \in later : c <= p
    <3> SUFFICES ASSUME NEW p \in later PROVE c <= p
      OBVIOUS
    <3>1. p \in Codes /\ p \in Nat /\ p > Front
      BY <2>2
    <3>2. base < p /\ p # Front
      BY <3>1, FrontNumbers
    <3>3. base + nal_start < p
      BY <3>1, <3>2, FrontFacts
    <3> QED BY <1>6, <3>1, <3>3
  <2> QED BY <1>3, <2>1, <2>3, <2>4
<1>8. NalBehind(Front)
        = <<Front + 3, IF c - 1 >= Front + 3 /\ data[c - 1] = 0 THEN c - 2 ELSE c - 1>>
  BY <1>7 DEF NalBehind
<1>9. NalBehind(Front) = <<base + nal_start + 1, base + pos>>
  <2>1. CASE StartCodeAt(pos) = 4
    <3>1. c - 1 = base + pos + 1 /\ c - 2 = base + pos /\ data[c - 1] = 0
      BY <1>1, <1>2, <2>1, StreamFacts, SMTT(20)
    <3>2. c - 1 >= Front + 3
      BY <1>1, <1>4, <3>1, FrontNumbers
    <3> QED BY <1>8, <3>1, <3>2, FrontNumbers
  <2>2. CASE StartCodeAt(pos) = 3
    <3>1. c - 1 = base + pos /\ c = base + pos + 1
      BY <1>1, <1>2, <2>2, StreamFacts
    <3>2. ~(c - 1 >= Front + 3 /\ data[c - 1] = 0)
      <4> SUFFICES ASSUME c - 1 >= Front + 3, data[c - 1] = 0 PROVE FALSE
        OBVIOUS
      <4> DEFINE P == base + pos
      <4>1. /\ P \in Nat /\ base + nal_start < P /\ P <= base + pos /\ data[P] = 0
            /\ P + 1 = c /\ P + 3 <= fetched /\ P \in 1..Len(data)
        <5>1. /\ base \in Nat /\ fetched \in Nat /\ Len(data) \in Nat /\ nal_start \in Nat
              /\ fetched <= Len(data) /\ Front + 3 = base + nal_start + 1 /\ Front \in Nat
          BY FrontNumbers
        <5>2. P \in Nat /\ P <= base + pos /\ P + 1 = c /\ P + 3 <= fetched
          BY <1>3, <3>1, <5>1, SMTT(20)
        <5>3. data[P] = 0
          BY <3>1
        <5>4. base + nal_start < P
          BY <1>3, <3>1, <5>1
        <5>5. P \in 1..Len(data)
          BY <5>1, <5>2, <5>4
        <5> QED BY <5>2, <5>3, <5>4, <5>5
      <4> HIDE DEF P
      <4>2. Visible(P, fetched)
        BY <1>1, <4>1 DEF Visible
      <4> QED BY <1>5, <4>1, <4>2
    <3> QED BY <1>8, <3>1, <3>2, FrontNumbers
  <2> QED BY <1>1, <2>1, <2>2
<1>10. ASSUME NEW p \in Codes, p <= base + pos PROVE p <= base \/ p = Front
  <2>1. p \in Nat /\ ~(c <= p)
    BY <1>3, <1>1, <1>10, CodeFacts, StreamFacts
  <2>2. ~(base + nal_start < p)
    BY <1>6, <2>1
  <2>3. base < p => p = Front
    BY <2>2, FrontFacts
  <2> QED BY <2>1, <2>3, StreamFacts
<1>11. base + pos <= fetched /\ Front <= base + pos
  BY <1>1, <1>2, <1>4, FrontNumbers, SMTT(20)
<1> QED BY <1>1, <1>4, <1>9, <1>10, <1>11

------------------------------------------------------------------------------
(* One step                                                                *)

\* The stream stays as it is, and with it the codes and the NAL units.
LEMMA StreamStays ==
  ASSUME [Next]_vars
  PROVE  /\ data' = data /\ Codes' = Codes
         /\ \A p : NalBehind(p)' = NalBehind(p)
         /\ \A p : Proper(p)' <=> Proper(p)
<1>1. data' = data
  BY DEF Next, vars, AlignFill, AlignEof, Align, ScanFill, ScanEof, Emit, Ended
<1>2. Codes' = Codes
  BY <1>1 DEF Codes
<1>3. \A p : NalBehind(p)' = NalBehind(p)
  BY <1>1, <1>2 DEF NalBehind
<1> QED BY <1>1, <1>2, <1>3 DEF Proper

\* fread appends between one byte and a chunk, and no more than there is.
LEMMA FillFacts ==
  ASSUME TypeOK, Fill
  PROVE  fetched' \in Nat /\ fetched < fetched' /\ fetched' <= Len(data)
BY StreamFacts, ReaderAssumption DEF Fill

\* The NAL unit in front of position e is handed over, unless it is empty.
LEMMA HandedOver ==
  ASSUME TypeOK, FrontInv, OutInv, pc = "scan", [Next]_vars,
         NEW e \in Nat, base <= e, e <= fetched, Front <= e,
         NalBehind(Front) = <<base + nal_start + 1, e>>,
         \A p \in Codes : p <= e => p <= base \/ p = Front,
         base' = e,
         out' = IF e > base + nal_start THEN Append(out, <<base + nal_start + 1, e>>) ELSE out
  PROVE  OutInv' /\ out' \in Seq((1..MaxLen) \X (1..MaxLen))
<1> DEFINE b == base + nal_start + 1
<1>1. /\ b \in Nat /\ base < b /\ 1 <= b /\ Front \in Codes
      /\ b <= e <=> e > base + nal_start
      /\ base \in Nat /\ fetched \in Nat /\ fetched <= MaxLen /\ MaxLen \in Nat
  BY FrontFacts, StreamFacts, ReaderAssumption, SMTT(20)
<1> HIDE DEF b
<1>2. NalBehind(Front) = <<b, e>> /\ (Proper(Front) <=> b <= e)
  BY DEF b, Proper
<1>3. \A p \in Codes : p <= e <=> p <= base \/ p = Front
  <2> SUFFICES ASSUME NEW p \in Codes, p <= base PROVE p <= e
    OBVIOUS
  <2>1. p \in Nat
    BY CodeFacts
  <2> QED BY <1>1, <2>1
<1>4. out' = IF b <= e THEN Append(out, <<b, e>>) ELSE out
  BY <1>1 DEF b
<1>5. out \in Seq((1..MaxLen) \X (1..MaxLen)) /\ Len(out) \in Nat
  BY DEF TypeOK
<1>6. CASE ~(b <= e)
  <2>1. out' = out
    BY <1>4, <1>6
  <2>2. \A p \in Codes : p <= e /\ Proper(p) <=> p <= base /\ Proper(p)
    BY <1>2, <1>3, <1>6
  <2>3. \A k \in 1..Len(out) : out[k][2] <= e
    <3> SUFFICES ASSUME NEW k \in 1..Len(out) PROVE out[k][2] <= e
      OBVIOUS
    <3>1. out[k][2] <= base
      BY DEF OutInv
    <3>2. out[k][2] \in Nat
      BY <1>1, <1>5
    <3> QED BY <1>1, <3>1, <3>2
  <2> QED BY <1>5, <2>1, <2>2, <2>3, StreamStays DEF OutInv
<1>7. CASE b <= e
  <2> DEFINE n == Len(out)
             last == <<b, e>>
  <2>1. last \in (1..MaxLen) \X (1..MaxLen)
    BY <1>1, <1>7
  <2>2. /\ out' = Append(out, last) /\ out' \in Seq((1..MaxLen) \X (1..MaxLen))
        /\ Len(out') = n + 1 /\ out'[n + 1] = last
        /\ \A k \in 1..n : out'[k] = out[k]
    BY <1>4, <1>5, <1>7, <2>1, AppendProperties
  <2> HIDE DEF n
  <2>3. n \in Nat /\ n = Len(out)
    BY <1>5 DEF n
  <2>4. last = NalBehind(Front) /\ last[1] = b /\ last[2] = e
    BY <1>2
  <2> HIDE DEF last
  <2>5. ASSUME NEW k \in 1..Len(out')
        PROVE  /\ \E p \in Codes : p <= e /\ Proper(p) /\ out'[k] = NalBehind(p)
               /\ out'[k][1] <= out'[k][2] /\ out'[k][2] <= e
               /\ \A j \in 1..(k - 1) : out'[j][2] < out'[k][1]
    <3>1. CASE k \in 1..n
      <4>1. out'[k] = out[k] /\ \A j \in 1..(k - 1) : out'[j] = out[j]
        BY <2>2, <2>3, <3>1
      <4>2. /\ \E p \in Codes : p <= base /\ Proper(p) /\ out[k] = NalBehind(p)
            /\ out[k][1] <= out[k][2] /\ out[k][2] <= base
            /\ \A j \in 1..(k - 1) : out[j][2] < out[k][1]
        BY <2>3, <3>1 DEF OutInv
      <4>3. out[k][2] \in Nat
        BY <1>1, <1>5, <2>3, <3>1
      <4> QED BY <1>1, <1>3, <4>1, <4>2, <4>3
    <3>2. CASE k = n + 1
      <4>1. ASSUME NEW j \in 1..(k - 1) PROVE out'[j][2] < last[1]
        <5>1. j \in 1..n
          BY <2>3, <3>2
        <5>2. out'[j] = out[j] /\ out[j][2] <= base /\ out[j][2] \in Nat
          BY <1>1, <1>5, <2>2, <2>3, <5>1 DEF OutInv
        <5> QED BY <1>1, <2>4, <5>2
      <4> QED BY <1>1, <1>2, <1>7, <2>2, <2>4, <3>2, <4>1, SMTT(20)
    <3> QED BY <2>2, <2>3, <3>1, <3>2
  <2>6. ASSUME NEW p \in Codes, p <= e, Proper(p)
        PROVE  \E k \in 1..Len(out') : out'[k] = NalBehind(p)
    <3>1. CASE p = Front
      BY <2>2, <2>3, <2>4, <3>1
    <3>2. CASE p <= base
      <4>1. PICK k \in 1..n : out[k] = NalBehind(p)
        BY <2>3, <2>6, <3>2 DEF OutInv
      <4> QED BY <2>2, <2>3, <4>1
    <3> QED BY <1>3, <2>6, <3>1, <3>2
  <2> QED BY <2>2, <2>5, <2>6, StreamStays DEF OutInv
<1> QED BY <1>6, <1>7

\* Handing over a NAL unit, or the last one.
LEMMA EmitStep ==
  ASSUME ReaderInv, [Next]_vars, Emit \/ ScanEof
  PROVE  /\ OutInv' /\ out' \in Seq((1..MaxLen) \X (1..MaxLen))
         /\ base' \in Nat /\ base' <= fetched
<1> USE DEF ReaderInv
<1>1. CASE Emit
  <2> DEFINE pos == First(FindStartCode(scan))
  <2>1. /\ pc = "scan" /\ FindStartCode(scan) # {} /\ base' = base + pos
        /\ out' = IF pos > nal_start
                    THEN Append(out, <<base + nal_start + 1, base + pos>>) ELSE out
    BY <1>1 DEF Emit
  <2>2. /\ pos \in Nat /\ nal_start <= pos /\ base + pos <= fetched
        /\ NalBehind(Front) = <<base + nal_start + 1, base + pos>>
        /\ Front <= base + pos
        /\ \A p \in Codes : p <= base + pos => p <= base \/ p = Front
    BY <2>1, NextNal
  <2> HIDE DEF pos
  <2>3. base \in Nat /\ nal_start \in Nat
    BY <2>1, FrontNumbers
  <2> DEFINE e == base + pos
  <2>4. e \in Nat /\ base <= e /\ (e > base + nal_start <=> pos > nal_start)
    BY <2>2, <2>3
  <2>5. out' = IF e > base + nal_start THEN Append(out, <<base + nal_start + 1, e>>) ELSE out
    BY <2>1, <2>4
  <2>6. /\ base' = e /\ e <= fetched /\ Front <= e
        /\ NalBehind(Front) = <<base + nal_start + 1, e>>
        /\ \A p \in Codes : p <= e => p <= base \/ p = Front
    BY <2>1, <2>2
  <2> HIDE DEF e
  <2> QED BY <2>1, <2>4, <2>5, <2>6, HandedOver
<1>2. CASE ScanEof
  <2>1. /\ pc = "scan" /\ FindStartCode(scan) = {} /\ AtEof /\ base' = fetched
        /\ out' = IF Size > nal_start
                    THEN Append(out, <<base + nal_start + 1, fetched>>) ELSE out
    BY <1>2 DEF ScanEof
  <2>2. /\ NalBehind(Front) = <<base + nal_start + 1, fetched>>
        /\ \A p \in Codes : p <= base \/ p = Front
    BY <2>1, LastNal
  <2>3. /\ base \in Nat /\ nal_start \in Nat /\ fetched \in Nat /\ base <= fetched
        /\ Front <= fetched /\ Size \in Nat /\ base + Size = fetched
    BY <2>1, FrontNumbers, StreamFacts
  <2>4. fetched > base + nal_start <=> Size > nal_start
    BY <2>3
  <2>5. out' = IF fetched > base + nal_start
                 THEN Append(out, <<base + nal_start + 1, fetched>>) ELSE out
    BY <2>1, <2>4
  <2> QED BY <2>1, <2>2, <2>3, <2>5, HandedOver
<1> QED BY <1>1, <1>2

\* The first start code comes to the front of the window.
LEMMA AlignStep ==
  ASSUME ReaderInv, [Next]_vars, Align
  PROVE  /\ FrontInv' /\ ScanInv' /\ OutInv'
         /\ nal_start' \in {3, 4} /\ scan' = nal_start'
         /\ base' \in Nat /\ base' <= fetched
<1> USE DEF ReaderInv
<1> DEFINE pos == First(FindStartCode(0))
           n == StartCodeAt(pos)
<1>1. /\ FindStartCode(0) # {} /\ base' = base + pos /\ nal_start' = n /\ scan' = n
      /\ fetched' = fetched /\ out' = out
  BY DEF Align
<1>2. /\ pos \in Nat /\ n \in {3, 4} /\ base + pos + n <= fetched
      /\ base + pos + n - 2 \in Codes
      /\ n = 4 => data[base + pos + 1] = 0
      /\ \A p \in Codes : base + 0 < p => base + pos + n - 2 <= p
  BY <1>1, FoundFacts
<1> HIDE DEF pos, n
<1>3. base \in Nat /\ fetched \in Nat
  BY StreamFacts
<1>4. Front' = base + pos + n - 2 /\ base' \in Nat /\ base' <= fetched
  BY <1>1, <1>2, <1>3 DEF Front
<1>5. FrontInv'
  BY <1>1, <1>2, <1>3, <1>4, StreamStays DEF FrontInv
<1>6. ScanInv'
  <2> SUFFICES ASSUME NEW P \in Nat, base' + nal_start' < P, P <= base' + scan' PROVE FALSE
    BY DEF ScanInv
  <2> QED BY <1>1, <1>2, <1>4
<1>7. \A p \in Codes : p <= base' <=> p <= base
  <2> SUFFICES ASSUME NEW p \in Codes PROVE p <= base' <=> p <= base
    OBVIOUS
  <2>1. p \in Nat
    BY CodeFacts
  <2>2. base < p => base + pos + n - 2 <= p
    BY <1>2, <1>3
  <2> QED BY <1>1, <1>2, <1>3, <2>1, <2>2
<1>8. OutInv'
  <2>1. \A k \in 1..Len(out) : out[k][2] <= base'
    <3> SUFFICES ASSUME NEW k \in 1..Len(out) PROVE out[k][2] <= base'
      OBVIOUS
    <3>1. out[k][2] <= base
      BY DEF OutInv
    <3>2. out[k][2] \in Nat
      BY ReaderAssumption DEF TypeOK
    <3> QED BY <1>1, <1>2, <1>3, <3>1, <3>2
  <2> QED BY <1>1, <1>7, <2>1, StreamStays DEF OutInv
<1> QED BY <1>1, <1>2, <1>4, <1>5, <1>6, <1>8

\* Reading on: only start codes that straddle the old end of the buffer become
\* visible, and the search goes back far enough to find them.
LEMMA ScanFillStep ==
  ASSUME ReaderInv, [Next]_vars, ScanFill
  PROVE  FrontInv' /\ ScanInv' /\ scan' \in Nat
<1> USE DEF ReaderInv
<1>1. /\ pc = "scan" /\ pc' = "scan" /\ FindStartCode(scan) = {} /\ Fill /\ scan' = Resume
      /\ base' = base /\ nal_start' = nal_start
  BY DEF ScanFill
<1>2. /\ base \in Nat /\ fetched \in Nat /\ nal_start \in Nat /\ scan \in Nat
      /\ Size \in Nat /\ base + Size = fetched /\ fetched' \in Nat /\ fetched < fetched'
  BY <1>1, FrontNumbers, StreamFacts, FillFacts
<1>3. Resume \in Nat /\ Resume >= nal_start /\ (Resume > nal_start => base + Resume + 3 = fetched)
  BY <1>2 DEF Resume
<1>4. FrontInv'
  <2>1. Front' = Front
    BY <1>1 DEF Front
  <2>2. base + nal_start <= fetched'
    BY <1>1, <1>2 DEF FrontInv
  <2> QED BY <1>1, <1>3, <2>1, <2>2, StreamStays DEF FrontInv
<1>5. ScanInv'
  <2> SUFFICES ASSUME NEW P \in Nat, base' + nal_start' < P, P <= base' + scan'
               PROVE  ~Visible(P, fetched)'
    BY DEF ScanInv
  <2>1. base + nal_start < P /\ P + 3 <= fetched
    BY <1>1, <1>2, <1>3
  <2>2. ~Visible(P, fetched)
    <3>1. CASE P <= base + scan
      BY <1>1, <2>1, <3>1 DEF ScanInv
    <3>2. CASE base + scan < P
      BY <1>1, <1>2, <3>2, NothingFacts
    <3> QED BY <1>2, <3>1, <3>2
  <2>3. P + 2 <= fetched
    BY <1>2, <2>1
  <2> QED BY <2>1, <2>2, <2>3, StreamStays DEF Visible
<1> QED BY <1>1, <1>3, <1>4, <1>5

\* The steps that hand over nothing and do not move the window.
LEMMA QuietStep ==
  ASSUME ReaderInv, [Next]_vars, out' = out, base' = base
  PROVE  OutInv'
BY StreamStays DEF ReaderInv, OutInv

LEMMA TypeStep ==
  ASSUME ReaderInv, [Next]_vars
  PROVE  TypeOK'
<1>1. data' = data /\ data' \in Streams
  BY StreamStays DEF ReaderInv, TypeOK
<1>2. fetched' \in 0..Len(data) /\ fetched <= fetched' /\ fetched \in Nat
  <2>1. fetched \in Nat /\ fetched <= Len(data) /\ Len(data) \in Nat
    BY StreamFacts DEF ReaderInv
  <2>2. Fill \/ fetched' = fetched
    BY DEF Next, vars, AlignFill, AlignEof, Align, ScanFill, ScanEof, Emit, Ended
  <2> QED BY <2>1, <2>2, FillFacts DEF ReaderInv
<1>3. base' \in 0..fetched'
  <2>1. base' \in Nat /\ base' <= fetched
    <3>1. CASE Align
      BY <3>1, AlignStep
    <3>2. CASE Emit \/ ScanEof
      BY <3>2, EmitStep
    <3>3. CASE AlignFill \/ AlignEof \/ ScanFill \/ Ended \/ UNCHANGED vars
      BY <3>3, StreamFacts DEF ReaderInv, vars, AlignFill, AlignEof, ScanFill, Ended
    <3> QED BY <3>1, <3>2, <3>3 DEF Next
  <2> QED BY <1>2, <2>1
<1>4. /\ pc' \in {"align", "scan", "ended"} /\ nal_start' \in {0, 3, 4} /\ scan' \in Nat
      /\ out' \in Seq((1..MaxLen) \X (1..MaxLen))
  <2>1. CASE Align
    BY <2>1, AlignStep DEF Align, ReaderInv, TypeOK
  <2>2. CASE Emit \/ ScanEof
    BY <2>2, EmitStep DEF Emit, ScanEof, ReaderInv, TypeOK
  <2>3. CASE ScanFill
    BY <2>3, ScanFillStep DEF ScanFill, ReaderInv, TypeOK
  <2>4. CASE AlignFill \/ AlignEof \/ Ended \/ UNCHANGED vars
    BY <2>4 DEF ReaderInv, TypeOK, vars, AlignFill, AlignEof, Ended
  <2> QED BY <2>1, <2>2, <2>3, <2>4 DEF Next
<1> QED BY <1>1, <1>2, <1>3, <1>4 DEF TypeOK

LEMMA EndStep ==
  ASSUME ReaderInv, [Next]_vars
  PROVE  EndInv'
<1>1. CASE AlignEof
  <2>1. FindStartCode(0) = {} /\ AtEof /\ base' = base
    BY <1>1 DEF AlignEof
  <2>2. \A p \in Codes : p <= base + 0
    BY <2>1, NothingFacts DEF ReaderInv
  <2>3. base + 0 = base
    BY StreamFacts DEF ReaderInv
  <2> QED BY <2>1, <2>2, <2>3, StreamStays DEF EndInv
<1>2. CASE ScanEof
  <2>1. base' = Len(data)
    BY <1>2 DEF ScanEof, AtEof
  <2>2. \A p \in Codes : p <= Len(data)
    BY StreamFacts DEF ReaderInv, Codes
  <2> QED BY <2>1, <2>2, StreamStays DEF EndInv
<1>3. CASE AlignFill \/ Align \/ ScanFill \/ Emit
  <2>1. pc' # "ended"
    BY <1>3 DEF AlignFill, Align, ScanFill, Emit
  <2> QED BY <2>1 DEF EndInv
<1>4. CASE Ended \/ UNCHANGED vars
  BY <1>4, StreamStays DEF Ended, vars, ReaderInv, EndInv
<1> QED BY <1>1, <1>2, <1>3, <1>4 DEF Next

------------------------------------------------------------------------------
(* Theorems                                                                *)

\* The inductive invariant: the reader knows the start code at the front of
\* its window, has overlooked none, and has handed over what is behind it.
THEOREM ReaderInvariant == Spec => []ReaderInv
<1>1. Init => ReaderInv
  <2> SUFFICES ASSUME Init PROVE ReaderInv
    OBVIOUS
  <2>1. PICK n \in 0..MaxLen : data \in [1..n -> 0..2]
    BY DEF Init, Streams
  <2>2. n \in Nat /\ data \in Seq(0..2)
    BY <2>1, ReaderAssumption, SeqDef
  <2>3. Len(data) \in Nat
    BY <2>2, LenProperties
  <2>4. TypeOK
    BY <2>3 DEF Init, TypeOK
  <2>5. \A p \in Codes : ~(p <= base)
    BY <2>3 DEF Init, Codes
  <2> QED BY <2>4, <2>5 DEF Init, ReaderInv, FrontInv, ScanInv, OutInv, EndInv
<1>2. ReaderInv /\ [Next]_vars => ReaderInv'
  <2> SUFFICES ASSUME ReaderInv, [Next]_vars PROVE ReaderInv'
    OBVIOUS
  <2>1. TypeOK' /\ EndInv'
    BY TypeStep, EndStep
  <2>2. CASE Align
    BY <2>1, <2>2, AlignStep DEF ReaderInv
  <2>3. CASE ScanFill
    <3>1. OutInv'
      BY <2>3, QuietStep DEF ScanFill
    <3> QED BY <2>1, <2>3, <3>1, ScanFillStep DEF ReaderInv
  <2>4. CASE Emit \/ ScanEof
    <3>1. pc' # "scan"
      BY <2>4 DEF Emit, ScanEof
    <3> QED BY <2>1, <2>4, <3>1, EmitStep DEF ReaderInv, FrontInv, ScanInv
  <2>5. CASE AlignFill \/ AlignEof \/ Ended
    <3>1. pc' # "scan" /\ out' = out /\ base' = base
      BY <2>5 DEF AlignFill, AlignEof, Ended, vars
    <3> QED BY <2>1, <3>1, QuietStep DEF ReaderInv, FrontInv, ScanInv
  <2>6. CASE UNCHANGED vars
    <3>1. /\ FrontInv' /\ ScanInv'
      BY <2>6, StreamStays DEF vars, ReaderInv, FrontInv, ScanInv, Front, Visible
    <3>2. OutInv'
      BY <2>6, QuietStep DEF vars
    <3> QED BY <2>1, <3>1, <3>2 DEF ReaderInv
  <2> QED BY <2>2, <2>3, <2>4, <2>5, <2>6 DEF Next
<1> QED BY <1>1, <1>2, PTL DEF Spec

\* The window of the reader lies inside the stream, and so does every range
\* that it hands over.
THEOREM TypeCorrect == Spec => []TypeOK
<1>1. ReaderInv => TypeOK
  BY DEF ReaderInv
<1> QED BY <1>1, ReaderInvariant, PTL

\* However fread cuts the stream, read_nal hands over the NAL units that lie
\* between the start codes of the stream, in order, and all of them by the time
\* it reports the end.
THEOREM NalUnitsExact == Spec => []EveryNalUnit
<1>1. ReaderInv => EveryNalUnit
  <2> SUFFICES ASSUME ReaderInv PROVE EveryNalUnit
    OBVIOUS
  <2>1. out \in Seq((1..MaxLen) \X (1..MaxLen)) /\ Len(out) \in Nat /\ DOMAIN out = 1..Len(out)
    BY DEF ReaderInv, TypeOK
  <2>2. \A r : r \in Reference <=> \E p \in Codes : Proper(p) /\ r = NalBehind(p)
    BY DEF Reference, Proper
  <2>3. \A k \in 1..Len(out) : out[k] \in Reference
    BY <2>2 DEF ReaderInv, OutInv
  <2>4. \A k \in 1..Len(out) : k > 1 => out[k-1][2] < out[k][1]
    <3> SUFFICES ASSUME NEW k \in 1..Len(out), k > 1 PROVE out[k-1][2] < out[k][1]
      OBVIOUS
    <3>1. k - 1 \in 1..(k - 1)
      BY <2>1
    <3> QED BY <3>1 DEF ReaderInv, OutInv
  <2>5. ASSUME NEW j \in 1..Len(out), NEW k \in 1..Len(out), j < k PROVE out[j] # out[k]
    <3>1. j \in 1..(k - 1)
      BY <2>1, <2>5
    <3>2. out[j][2] < out[k][1] /\ out[j][1] <= out[j][2]
      BY <3>1 DEF ReaderInv, OutInv
    <3>3. out[j][1] \in Nat /\ out[j][2] \in Nat /\ out[k][1] \in Nat
      BY <2>1, ReaderAssumption
    <3>4. out[j][1] # out[k][1]
      BY <3>2, <3>3
    <3> QED BY <3>4
  <2>6. pc = "ended" => Cardinality(Reference) = Len(out)
    <3> SUFFICES ASSUME pc = "ended" PROVE Cardinality(Reference) = Len(out)
      OBVIOUS
    <3>1. out \in [1..Len(out) -> Reference]
      BY <2>1, <2>3
    <3>2. \A j, k \in 1..Len(out) : out[j] = out[k] => j = k
      BY <2>1, <2>5
    <3>3. \A r \in Reference : \E k \in 1..Len(out) : out[k] = r
      BY <2>2 DEF ReaderInv, OutInv, EndInv
    <3>4. out \in Bijection(1..Len(out), Reference)
      BY <3>1, <3>2, <3>3, Fun_IsBij
    <3> QED BY <2>1, <3>4, FS_CountingElements DEF ExistsBijection
  <2> QED BY <2>3, <2>4, <2>6 DEF EveryNalUnit
<1> QED BY <1>1, ReaderInvariant, PTL
==============================================================================
