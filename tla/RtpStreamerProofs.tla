-------------------------- MODULE RtpStreamerProofs --------------------------
(***************************************************************************)
(* Proofs about RtpStreamer, for every MTU above 2 bytes, every NAL length *)
(* and every counter width.                                                *)
(***************************************************************************)
EXTENDS RtpStreamer, TLAPS

\* What SMT needs to know about the wrap of an unsigned counter.
LEMMA WrapInRange ==
  ASSUME NEW n \in Nat, NEW m \in Nat \ {0}
  PROVE  n % m \in 0..(m - 1)
OBVIOUS

\* A chunk of the loop is not empty, respects the MTU and stays inside.
LEMMA ChunkBounds ==
  ASSUME TypeOK, nal.len > Mtu, offset < payload_len
  PROVE  /\ chunk_size \in Nat
         /\ chunk_size >= 1
         /\ chunk_size <= max_payload_per_fragment
         /\ offset + chunk_size <= payload_len
BY StreamerAssumption DEF TypeOK, Nals, chunk_size, payload_len, max_payload_per_fragment

\* Each step keeps every variable in its type.
LEMMA TypeStep == TypeOK /\ CutInv /\ [Next]_vars => TypeOK'
<1> SUFFICES ASSUME TypeOK, CutInv, [Next]_vars PROVE TypeOK'
  OBVIOUS
<1> USE StreamerAssumption DEF cutVars, wireVars
<1>1. ASSUME NEW n \in Nals, SendNal(n) PROVE TypeOK'
  <2>1. Single(n) \in Fragment
    BY DEF Single, Fragment, Nals
  <2>2. fragments' \in Seq(Fragment) /\ i' \in 1..(Len(fragments') + 1)
    <3>1. fragments' = <<Single(n)>> \/ fragments' = <<>>
      BY <1>1 DEF SendNal
    <3>2. <<Single(n)>> \in Seq(Fragment) /\ <<>> \in Seq(Fragment)
      BY <2>1
    <3>3. i' = 1
      BY <1>1 DEF SendNal
    <3>4. fragments' \in Seq(Fragment)
      BY <3>1, <3>2
    <3>5. Len(fragments') \in Nat
      BY <3>4
    <3> QED
      BY <3>3, <3>4, <3>5
  <2>3. frame' \in 0..(TsMod - 1)
    <3>1. (frame + 1) % TsMod \in 0..(TsMod - 1)
      BY WrapInRange DEF TypeOK
    <3> QED
      BY <1>1, <3>1 DEF SendNal, TypeOK
  <2>4. slices' \in 0..MaxSlices
    BY <1>1 DEF SendNal, TypeOK, Nals
  <2> QED
    BY <1>1, <2>2, <2>3, <2>4 DEF SendNal, TypeOK
<1>2. CASE Cut
  <2>1. nal.len > Mtu /\ offset < payload_len
    BY <1>2 DEF Cut, CutInv, TypeOK, Nals
  <2>2. /\ chunk_size \in Nat /\ chunk_size >= 1
        /\ offset + chunk_size <= payload_len
    BY <2>1, ChunkBounds
  <2>3. NextFragment \in Fragment
    BY <2>1, <2>2 DEF NextFragment, Fragment, TypeOK, Nals, payload_len
  <2>4. fragments' \in Seq(Fragment) /\ i \in 1..(Len(fragments') + 1)
    BY <1>2, <2>3 DEF Cut, TypeOK
  <2>5. offset' \in 0..MaxNal
    BY <1>2, <2>2 DEF Cut, TypeOK, Nals, payload_len
  <2> QED
    BY <1>2, <2>4, <2>5 DEF Cut, TypeOK
<1>3. CASE CutDone
  BY <1>3 DEF CutDone, TypeOK
<1>4. CASE PacketArrives
  <2>1. sequence_' \in 0..(SeqMod - 1)
    BY <1>4, WrapInRange DEF PacketArrives, NextSequence, TypeOK
  <2>2. i' \in 1..(Len(fragments) + 1)
    BY <1>4 DEF PacketArrives, NextSequence, TypeOK
  <2> QED
    BY <1>4, <2>1, <2>2 DEF PacketArrives, NextSequence, TypeOK, Packet
<1>5. CASE PacketLost \/ SendFails
  <2>1. sequence_' \in 0..(SeqMod - 1)
    <3>1. (sequence_ + 1) % SeqMod \in 0..(SeqMod - 1)
      BY WrapInRange DEF TypeOK
    <3> QED
      BY <1>5, <3>1 DEF PacketLost, NextSequence, SendFails, FailedSequence
  <2>2. i' \in 1..(Len(fragments) + 1)
    BY <1>5 DEF PacketLost, NextSequence, SendFails, FailedSequence, TypeOK
  <2>3. burst' \in 0..MaxBurst
    BY <1>5 DEF PacketLost, NextSequence, SendFails, FailedSequence, TypeOK
  <2>4. CASE PacketLost
    BY <2>1, <2>2, <2>3, <2>4 DEF PacketLost, NextSequence, TypeOK
  <2>5. CASE SendFails
    BY <2>1, <2>2, <2>3, <2>5 DEF SendFails, FailedSequence, NextSequence, TypeOK
  <2> QED
    BY <1>5, <2>4, <2>5
<1>6. CASE SendDone
  BY <1>6 DEF SendDone, TypeOK
<1>7. CASE Advance
  <2>1. timestamp_' \in 0..(TsMod - 1)
    <3>1. (timestamp_ + TsIncrement) % TsMod \in 0..(TsMod - 1)
      BY WrapInRange DEF TypeOK
    <3> QED
      BY <1>7, <3>1 DEF Advance, EndsFrame, TypeOK
  <2> QED
    BY <1>7, <2>1 DEF Advance, EndsFrame, TypeOK
<1>8. CASE UNCHANGED vars
  BY <1>8 DEF vars, TypeOK
<1> QED
  BY <1>1, <1>2, <1>3, <1>4, <1>5, <1>6, <1>7, <1>8 DEF Next, Step

\* A NAL unit that is not cut is sent whole; SendNal starts from nothing.
LEMMA CutStep == TypeOK /\ CutInv /\ [Next]_vars => CutInv'
<1> SUFFICES ASSUME TypeOK, CutInv, [Next]_vars PROVE CutInv'
  OBVIOUS
<1> USE StreamerAssumption DEF cutVars, wireVars, payload_len, max_payload_per_fragment
<1>1. ASSUME NEW n \in Nals, SendNal(n) PROVE CutInv'
  <2>1. CASE n.len <= Mtu
    BY <1>1, <2>1 DEF SendNal, CutInv, Nals
  <2>2. CASE n.len > Mtu
    BY <1>1, <2>2 DEF SendNal, CutInv, Nals
  <2> QED
    BY <2>1, <2>2 DEF Nals
<1>2. CASE Cut
  <2>1. nal.len > Mtu /\ offset < payload_len
    BY <1>2 DEF Cut, CutInv, TypeOK, Nals
  <2>2. /\ chunk_size \in Nat /\ chunk_size >= 1
        /\ chunk_size <= max_payload_per_fragment
        /\ offset + chunk_size <= payload_len
    BY <2>1, ChunkBounds
  <2>3. /\ fragments' = Append(fragments, NextFragment)
        /\ offset' = offset + chunk_size
        /\ nal' = nal /\ pc' = "cut"
    BY <1>2 DEF Cut
  <2>4. /\ Len(fragments') = Len(fragments) + 1
        /\ fragments'[Len(fragments')] = NextFragment
        /\ \A k \in 1..Len(fragments) : fragments'[k] = fragments[k]
    BY <2>3 DEF TypeOK
  <2>5. \A k \in 1..Len(fragments') : fragments'[k].len <= max_payload_per_fragment
    <3>1. NextFragment.len = chunk_size
      BY DEF NextFragment
    <3>2. \A k \in 1..Len(fragments) : fragments[k].len <= max_payload_per_fragment
      BY <2>1 DEF CutInv
    <3>3. \A k \in 1..Len(fragments') : k \in 1..Len(fragments) \/ k = Len(fragments')
      BY <2>4 DEF TypeOK
    <3> QED
      BY <2>2, <2>4, <3>1, <3>2, <3>3
  <2>6. fragments' # <<>>
    BY <2>4 DEF TypeOK
  <2>7. offset' = fragments'[Len(fragments')].from + fragments'[Len(fragments')].len - 1
    BY <2>2, <2>3, <2>4 DEF NextFragment, TypeOK
  <2>8. nal'.len > Mtu /\ ~(nal'.len <= Mtu) /\ offset' <= nal'.len - 1
    BY <2>1, <2>2, <2>3 DEF TypeOK, Nals
  <2> QED
    BY <2>3, <2>5, <2>6, <2>7, <2>8 DEF CutInv
<1>3. CASE CutDone
  BY <1>3, SMTT(20) DEF CutDone, CutInv, TypeOK, Nals
<1>4. CASE PacketArrives \/ PacketLost \/ SendFails \/ SendDone
  BY <1>4 DEF PacketArrives, NextSequence, PacketLost, SendFails, FailedSequence, SendDone, CutInv
<1>5. CASE Advance
  BY <1>5 DEF Advance, EndsFrame, CutInv
<1>6. CASE UNCHANGED vars
  BY <1>6 DEF vars, CutInv
<1> QED
  BY <1>1, <1>2, <1>3, <1>4, <1>5, <1>6 DEF Next, Step

\* The fragments stay contiguous as the loop appends one.
LEMMA ContiguousStep ==
  TypeOK /\ CutInv /\ FragmentsContiguous /\ [Next]_vars => FragmentsContiguous'
<1> SUFFICES ASSUME TypeOK, CutInv, FragmentsContiguous, [Next]_vars
             PROVE  FragmentsContiguous'
  OBVIOUS
<1> USE StreamerAssumption DEF cutVars, wireVars
<1>1. ASSUME NEW n \in Nals, SendNal(n) PROVE FragmentsContiguous'
  <2>1. CASE n.len <= Mtu
    BY <1>1, <2>1 DEF SendNal, FragmentsContiguous, Nals
  <2>2. CASE n.len > Mtu
    BY <1>1, <2>2 DEF SendNal, FragmentsContiguous, Nals
  <2> QED
    BY <2>1, <2>2 DEF Nals
<1>2. CASE Cut
  <2>1. nal.len > Mtu /\ offset < payload_len
    BY <1>2 DEF Cut, CutInv, TypeOK, Nals
  <2>2. chunk_size \in Nat /\ chunk_size >= 1 /\ offset + chunk_size <= payload_len
    BY <2>1, ChunkBounds
  <2>3. fragments' = Append(fragments, NextFragment) /\ nal' = nal
    BY <1>2 DEF Cut
  <2>4. /\ Len(fragments') = Len(fragments) + 1
        /\ fragments'[Len(fragments')] = NextFragment
        /\ \A k \in 1..Len(fragments) : fragments'[k] = fragments[k]
    BY <2>3 DEF TypeOK
  <2>5. \A k \in 1..Len(fragments) :
          LET f == fragments[k] IN
            /\ f.fu
            /\ f.from = IF k = 1 THEN 1 ELSE fragments[k-1].from + fragments[k-1].len
            /\ f.s <=> k = 1
            /\ f.e <=> f.from + f.len = nal.len
    BY <2>1 DEF FragmentsContiguous
  <2>6. LET k == Len(fragments') IN
          /\ NextFragment.fu
          /\ NextFragment.from = IF k = 1 THEN 1 ELSE fragments[k-1].from + fragments[k-1].len
          /\ NextFragment.s <=> k = 1
          /\ NextFragment.e <=> NextFragment.from + NextFragment.len = nal.len
    <3>1. (fragments = <<>>) <=> (Len(fragments) = 0)
      BY DEF TypeOK
    <3>2. offset \in Nat /\ nal.len \in Nat
      BY DEF TypeOK, Nals
    <3>3. NextFragment.from = IF fragments = <<>> THEN 1
            ELSE fragments[Len(fragments)].from + fragments[Len(fragments)].len
      <4>1. CASE fragments = <<>>
        BY <2>1, <4>1 DEF CutInv, NextFragment
      <4>2. CASE fragments # <<>>
        <5>1. Len(fragments) \in 1..Len(fragments)
          BY <3>1, <4>2 DEF TypeOK
        <5>2. fragments[Len(fragments)] \in Fragment
          BY <5>1 DEF TypeOK
        <5> QED
          BY <2>1, <3>2, <4>2, <5>2 DEF CutInv, NextFragment, Fragment
      <4> QED
        BY <4>1, <4>2
    <3>4. NextFragment.e <=> NextFragment.from + NextFragment.len = nal.len
      <4>1. NextFragment.e <=> offset + chunk_size >= payload_len
        BY Zenon DEF NextFragment
      <4>2. NextFragment.from = 1 + offset /\ NextFragment.len = chunk_size
        BY DEF NextFragment
      <4>3. (offset + chunk_size >= payload_len) <=> (1 + offset + chunk_size = nal.len)
        BY <2>2, <3>2 DEF payload_len
      <4> QED
        BY <4>1, <4>2, <4>3
    <3>5. Len(fragments') - 1 = Len(fragments) /\ Len(fragments) \in Nat
      BY <2>4 DEF TypeOK
    <3>6. NextFragment.s <=> Len(fragments') = 1
      <4>1. NextFragment.s <=> fragments = <<>>
        BY Zenon DEF NextFragment
      <4> QED
        BY <3>1, <3>5, <4>1
    <3>7. NextFragment.fu
      BY DEF NextFragment
    <3>8. NextFragment.from = IF Len(fragments') = 1 THEN 1
            ELSE fragments[Len(fragments') - 1].from + fragments[Len(fragments') - 1].len
      <4>1. (fragments = <<>>) <=> (Len(fragments') = 1)
        BY <3>1, <3>5
      <4> QED
        BY Zenon, <3>3, <3>5, <4>1
    <3> QED
      BY Zenon, <3>4, <3>6, <3>7, <3>8
  <2>7. ASSUME NEW k \in 1..Len(fragments')
        PROVE  LET f == fragments'[k] IN
                 /\ f.fu
                 /\ f.from = IF k = 1 THEN 1
                             ELSE fragments'[k-1].from + fragments'[k-1].len
                 /\ f.s <=> k = 1
                 /\ f.e <=> f.from + f.len = nal'.len
    <3>1. CASE k \in 1..Len(fragments)
      <4>1. k = 1 \/ k - 1 \in 1..Len(fragments)
        BY <3>1 DEF TypeOK
      <4> QED
        BY <2>3, <2>4, <2>5, <3>1, <4>1
    <3>2. CASE k = Len(fragments')
      <4>1. k = 1 \/ k - 1 \in 1..Len(fragments)
        BY <2>4, <3>2 DEF TypeOK
      <4> QED
        BY <2>3, <2>4, <2>6, <3>2, <4>1
    <3> QED
      BY <2>4, <3>1, <3>2 DEF TypeOK
  <2> QED
    BY <2>7 DEF FragmentsContiguous
<1>3. CASE CutDone
  BY <1>3 DEF CutDone, FragmentsContiguous, CutInv, TypeOK, Nals
<1>4. CASE PacketArrives \/ PacketLost \/ SendFails \/ SendDone
  BY <1>4 DEF PacketArrives, NextSequence, PacketLost, SendFails, FailedSequence, SendDone, FragmentsContiguous
<1>5. CASE Advance
  BY <1>5 DEF Advance, EndsFrame, FragmentsContiguous
<1>6. CASE UNCHANGED vars
  BY <1>6 DEF vars, FragmentsContiguous
<1> QED
  BY <1>1, <1>2, <1>3, <1>4, <1>5, <1>6 DEF Next, Step

\* The cutting invariant holds in every reachable state.
THEOREM CutInvariant == Spec => [](TypeOK /\ CutInv /\ FragmentsContiguous)
<1>1. Init => TypeOK /\ CutInv /\ FragmentsContiguous
  <2> SUFFICES ASSUME Init PROVE TypeOK /\ CutInv /\ FragmentsContiguous
    OBVIOUS
  <2>1. nal = [slice |-> FALSE, len |-> 1] /\ nal \in Nals /\ nal.len <= Mtu
    BY StreamerAssumption DEF Init, Nals
  <2>2. TypeOK
    BY <2>1, StreamerAssumption DEF Init, TypeOK
  <2>3. CutInv /\ FragmentsContiguous
    BY <2>1, StreamerAssumption DEF Init, CutInv, FragmentsContiguous
  <2> QED
    BY <2>2, <2>3
<1>2. TypeOK /\ CutInv /\ FragmentsContiguous /\ [Next]_vars
        => (TypeOK /\ CutInv /\ FragmentsContiguous)'
  BY TypeStep, CutStep, ContiguousStep
<1> QED
  BY <1>1, <1>2, PTL DEF Spec

\* The streamer's state is well typed: its counters wrap, its fragments lie
\* inside the NAL unit.
THEOREM TypeCorrect == Spec => []TypeOK
BY CutInvariant, PTL

\* fragment_nal covers the NAL unit without gap or overlap, with the start and
\* end bits where they belong.
THEOREM Contiguity == Spec => []FragmentsContiguous
BY CutInvariant, PTL

\* Whatever the MTU and the length, what send_nal sends rebuilds the NAL unit
\* and no packet is too long.
THEOREM Rebuild == Spec => []FragmentsRebuildNal
<1>1. TypeOK /\ CutInv /\ FragmentsContiguous => FragmentsRebuildNal
  <2> SUFFICES ASSUME TypeOK, CutInv, FragmentsContiguous, pc = "send"
               PROVE  FragmentsRebuildNal
    BY DEF FragmentsRebuildNal
  <2> USE StreamerAssumption
  <2>1. CASE nal.len <= Mtu
    <3>1. fragments = <<Single(nal)>>
      BY <2>1 DEF CutInv
    <3>2. Len(fragments) = 1 /\ fragments[1] = Single(nal) /\ fragments # <<>>
      BY <3>1
    <3>3. Single(nal).len = nal.len /\ Single(nal).fu = FALSE
      BY DEF Single
    <3>4. \A k \in 1..Len(fragments) :
            fragments[k].len + (IF fragments[k].fu THEN 2 ELSE 0) <= Mtu
      BY <2>1, <3>2, <3>3 DEF TypeOK, Nals
    <3> QED
      BY <3>1, <3>4 DEF FragmentsRebuildNal
  <2>2. CASE nal.len > Mtu
    <3>1. /\ offset = nal.len - 1
          /\ offset = IF fragments = <<>> THEN 0
                      ELSE fragments[Len(fragments)].from
                             + fragments[Len(fragments)].len - 1
          /\ \A k \in 1..Len(fragments) : fragments[k].len <= Mtu - 2
      BY <2>2 DEF CutInv, payload_len, max_payload_per_fragment
    <3>2. fragments # <<>> /\ Len(fragments) \in Nat \ {0}
      BY <2>2, <3>1 DEF TypeOK, Nals
    <3>3. \A k \in 1..Len(fragments) : fragments[k] \in Fragment
      BY DEF TypeOK
    <3>4. fragments[Len(fragments)].from + fragments[Len(fragments)].len = nal.len
      <4>1. fragments[Len(fragments)] \in Fragment
        BY <3>2, <3>3
      <4>2. nal.len \in Nat
        BY DEF TypeOK, Nals
      <4>3. nal.len - 1 = fragments[Len(fragments)].from
                            + fragments[Len(fragments)].len - 1
        BY <3>1, <3>2
      <4>4. /\ fragments[Len(fragments)].from \in Nat
            /\ fragments[Len(fragments)].len \in Nat
        BY <4>1 DEF Fragment
      <4> QED
        BY <4>2, <4>3, <4>4
    <3>5. fragments[1].from = 1
      BY <2>2, <3>2 DEF FragmentsContiguous
    <3>6. Len(fragments) >= 2
      BY <2>2, <3>1, <3>2, <3>3, <3>4, <3>5 DEF TypeOK, Nals, Fragment
    <3>7. \A k \in 1..Len(fragments) :
            fragments[k].len + (IF fragments[k].fu THEN 2 ELSE 0) <= Mtu
      BY <3>1, <3>3 DEF Fragment
    <3>8. \A k \in 1..Len(fragments) : fragments[k].fu
      BY <2>2 DEF FragmentsContiguous
    <3> QED
      BY <3>4, <3>5, <3>6, <3>7, <3>8 DEF FragmentsRebuildNal
  <2> QED
    BY <2>1, <2>2 DEF TypeOK, Nals
<1> QED
  BY <1>1, CutInvariant, PTL

------------------------------------------------------------------------------
(* Losses                                                                  *)

\* The number after the packet that the receiver got last and those that
\* failed or were lost since.
Ahead == got.sequence + 1 + burst

\* That is the next number, wrapped at most once since a burst is shorter than
\* the number space.
SequenceInv ==
  got # None => sequence_ = IF Ahead < SeqMod THEN Ahead ELSE Ahead - SeqMod

\* The 16-bit counter counts on, or starts again.
LEMMA WrapNext ==
  ASSUME NEW m \in Nat \ {0}, NEW n \in 0..(m - 1)
  PROVE  (n + 1) % m = IF n + 1 < m THEN n + 1 ELSE 0
<1>1. CASE n + 1 < m
  BY <1>1, Z3
<1>2. CASE n + 1 = m
  BY <1>2, Z3
<1> QED BY <1>1, <1>2

\* The ranges of the numbers that the arithmetic below is about.
LEMMA NumberRanges ==
  ASSUME TypeOK, got # None
  PROVE  /\ sequence_ \in 0..(SeqMod - 1) /\ got.sequence \in 0..(SeqMod - 1)
         /\ burst \in 0..(SeqMod - 1) /\ SeqMod \in Nat \ {0}
BY StreamerAssumption DEF TypeOK

LEMMA SequenceStep == TypeOK /\ SequenceInv /\ [Next]_vars => SequenceInv'
<1> SUFFICES ASSUME TypeOK, SequenceInv, [Next]_vars PROVE SequenceInv'
  OBVIOUS
<1>1. CASE PacketArrives
  <2>1. /\ got'.sequence = sequence_ /\ burst' = 0
        /\ sequence_' = (sequence_ + 1) % SeqMod
    BY <1>1 DEF PacketArrives, Packet, NextSequence
  <2>2. sequence_ \in 0..(SeqMod - 1) /\ SeqMod \in Nat \ {0}
    BY StreamerAssumption DEF TypeOK
  <2>3. sequence_' = IF sequence_ + 1 < SeqMod THEN sequence_ + 1 ELSE 0
    BY <2>1, <2>2, WrapNext
  <2> QED BY <2>1, <2>2, <2>3 DEF SequenceInv, Ahead
<1>2. CASE PacketLost \/ SendFails
  <2>1. /\ got' = got /\ burst' = burst + 1 /\ burst < MaxBurst
        /\ sequence_' = (sequence_ + 1) % SeqMod
    BY <1>2 DEF PacketLost, SendFails, NextSequence, FailedSequence
  <2> SUFFICES ASSUME got # None PROVE SequenceInv'
    BY <2>1 DEF SequenceInv, Ahead
  <2>2. sequence_' = IF sequence_ + 1 < SeqMod THEN sequence_ + 1 ELSE 0
    BY <2>1, NumberRanges, WrapNext
  <2>3. burst + 1 < SeqMod
    BY <2>1, NumberRanges, StreamerAssumption
  <2> QED BY <2>1, <2>2, <2>3, NumberRanges DEF SequenceInv, Ahead
<1>3. ASSUME UNCHANGED wireVars PROVE SequenceInv'
  BY <1>3 DEF wireVars, SequenceInv, Ahead
<1>4. CASE (\E n \in Nals : SendNal(n)) \/ Cut \/ CutDone \/ SendDone \/ Advance
           \/ UNCHANGED vars
  BY <1>3, <1>4 DEF SendNal, Cut, CutDone, SendDone, Advance, vars, wireVars
<1> QED BY <1>1, <1>2, <1>4 DEF Next, Step

\* What is lost or refused by the socket leaves a gap in the sequence numbers,
\* and nothing else does, whatever the width of the counter: send_nal numbers a
\* packet before it is known whether it goes out.
THEOREM GapsAreLosses == Spec => LossIsVisible
<1>1. Init => SequenceInv
  BY DEF Init, SequenceInv
<1>2. TypeOK /\ SequenceInv /\ [Next]_vars
        => [(got # None /\ got' # got) =>
              ((got'.sequence = (got.sequence + 1) % SeqMod) <=> (burst = 0))]_vars
  <2> SUFFICES ASSUME TypeOK, SequenceInv, [Next]_vars, got # None, got' # got
               PROVE  (got'.sequence = (got.sequence + 1) % SeqMod) <=> (burst = 0)
    OBVIOUS
  <2>1. PacketArrives
    BY DEF Next, Step, SendNal, Cut, CutDone, PacketLost, SendFails, SendDone, Advance,
           vars, wireVars
  <2>2. got'.sequence = sequence_
    BY <2>1 DEF PacketArrives, Packet
  <2>3. (got.sequence + 1) % SeqMod
          = IF got.sequence + 1 < SeqMod THEN got.sequence + 1 ELSE 0
    BY NumberRanges, WrapNext
  <2>4. sequence_ = IF Ahead < SeqMod THEN Ahead ELSE Ahead - SeqMod
    BY DEF SequenceInv
  <2>5. /\ got.sequence \in 0..(SeqMod - 1) /\ burst \in 0..(SeqMod - 1)
        /\ SeqMod \in Nat \ {0}
    BY NumberRanges
  <2>6. sequence_ = (got.sequence + 1) % SeqMod <=> burst = 0
    BY <2>3, <2>4, <2>5 DEF Ahead
  <2> QED BY <2>2, <2>6
<1> QED BY <1>1, <1>2, SequenceStep, TypeCorrect, PTL DEF Spec, LossIsVisible

------------------------------------------------------------------------------
(* Timestamps                                                              *)

\* Division with remainder.
LEMMA DivMod ==
  ASSUME NEW n \in Nat, NEW m \in Nat \ {0}
  PROVE  n \div m \in Nat /\ n % m \in 0..(m - 1) /\ n = m * (n \div m) + (n % m)
BY Z3

\* A remainder does not depend on the multiples in front of it.
LEMMA ModOfSum ==
  ASSUME NEW m \in Nat \ {0}, NEW q \in Nat, NEW r \in 0..(m - 1)
  PROVE  (m * q + r) % m = r
BY Z3

LEMMA Distributes ==
  ASSUME NEW a \in Nat, NEW b \in Nat, NEW c \in Nat
  PROVE  /\ a * (b + c) = a * b + a * c
         /\ a * b \in Nat
BY Z3

\* Adding to a counter that wraps wraps the sum.
LEMMA AddWraps ==
  ASSUME NEW m \in Nat \ {0}, NEW a \in Nat, NEW b \in Nat
  PROVE  ((a % m) + b) % m = (a + b) % m
<1> DEFINE q == a \div m
           r == a % m
           p == (r + b) \div m
           s == (r + b) % m
<1>1. q \in Nat /\ r \in 0..(m - 1) /\ a = m * q + r
  BY DivMod
<1>2. p \in Nat /\ s \in 0..(m - 1) /\ r + b = m * p + s
  <2>1. r + b \in Nat
    BY <1>1
  <2> HIDE DEF r
  <2> QED BY <2>1, DivMod
<1> HIDE DEF q, r, p, s
<1>3. a + b = m * (q + p) + s
  <2>1. m * (q + p) = m * q + m * p /\ m * q \in Nat /\ m * p \in Nat
    BY <1>1, <1>2, Distributes
  <2> QED BY <1>1, <1>2, <2>1
<1>4. (m * (q + p) + s) % m = s
  <2>1. q + p \in Nat
    BY <1>1, <1>2
  <2> QED BY <1>2, <2>1, ModOfSum
<1> QED BY <1>3, <1>4 DEF r, s

\* A counter that has come back to where it was has gone around.
LEMMA BackAround ==
  ASSUME NEW m \in Nat \ {0}, NEW a \in 0..(m - 1), NEW b \in Nat, (a + b) % m = a
  PROVE  b % m = 0
<1>1. b \div m \in Nat /\ b % m \in 0..(m - 1) /\ b = m * (b \div m) + (b % m)
  BY DivMod
<1> DEFINE q == b \div m
           r == b % m
<1> HIDE DEF q, r
<1>2. q \in Nat /\ r \in 0..(m - 1) /\ b = m * q + r /\ m * q \in Nat
  BY <1>1, Distributes DEF q, r
<1>3. CASE a + r < m
  <2>1. a + b = m * q + (a + r)
    BY <1>2
  <2>2. (a + b) % m = a + r
    BY <1>2, <1>3, <2>1, ModOfSum
  <2> QED BY <1>2, <2>2 DEF r
<1>4. CASE a + r >= m
  <2>1. m * (q + 1) = m * q + m
    BY <1>2, Distributes
  <2>2. a + b = m * (q + 1) + (a + r - m)
    BY <1>2, <2>1
  <2>3. q + 1 \in Nat /\ a + r - m \in 0..(m - 1)
    BY <1>2, <1>4
  <2>4. (m * (q + 1) + (a + r - m)) % m = a + r - m
    BY <2>3, ModOfSum
  <2> QED BY <1>2, <2>2, <2>4
<1> QED BY <1>2, <1>3, <1>4

\* A counter in range is its own remainder.
LEMMA ModOfSmall ==
  ASSUME NEW m \in Nat \ {0}, NEW n \in 0..(m - 1)
  PROVE  n % m = n
BY Z3

\* Multiples of what goes around go around.
LEMMA MultipleGoesAround ==
  ASSUME NEW m \in Nat \ {0}, NEW d \in Nat, NEW k \in Nat, d % m = 0
  PROVE  (d * k) % m = 0
<1>1. d \div m \in Nat /\ d = m * (d \div m) + (d % m)
  BY DivMod
<1> DEFINE q == d \div m
<1> HIDE DEF q
<1>2. q \in Nat /\ d = m * q /\ m * q \in Nat
  BY <1>1, Distributes DEF q
<1>3. d * k = m * (q * k) /\ q * k \in Nat
  BY <1>2, Z3
<1>4. (m * (q * k) + 0) % m = 0
  BY <1>3, ModOfSum
<1> QED BY <1>2, <1>3, <1>4, Distributes

\* The slice of the current picture has gone out and advanced the clock.
Ticked == IF pc = "idle" /\ slices = 1 THEN 1 ELSE 0

\* A packet of the current picture has been sent, lost or refused.
Attempted ==
  \/ pc = "send" /\ i > 1
  \/ pc = "advance"
  \/ pc = "idle" /\ slices = 1

\* The streamer is d pictures behind the packet that the receiver got last:
\* timestamps and pictures count on together, and each picture in between, the
\* current one aside, has cost at least one packet.
Behind(d) ==
  /\ frame = (got.frame + d) % TsMod
  /\ timestamp_ = (got.timestamp + (d + Ticked) * TsIncrement) % TsMod
  /\ d <= burst + (IF Attempted THEN 0 ELSE 1)

PictureInv ==
  /\ pc # "idle" => (nal.slice <=> slices = 1)
  /\ pc = "cut" => i = 1
  /\ got # None => \E d \in Nat : Behind(d)

\* One slice per picture, and the timestamp does not come back to where it was
\* while the receiver hears nothing.  The code's 90000 / fps, 32-bit counter and
\* 16-bit sequence number allow no multiple of 2^32 that early.
ClockAssumption ==
  /\ MaxSlices = 1
  /\ \A k \in 1..(MaxBurst + 1) : (k * TsIncrement) % TsMod # 0

LEMMA ClockRanges ==
  ASSUME TypeOK
  PROVE  /\ TsMod \in Nat \ {0} /\ TsIncrement \in Nat /\ burst \in Nat
         /\ frame \in 0..(TsMod - 1) /\ timestamp_ \in 0..(TsMod - 1)
         /\ got # None => /\ got.frame \in 0..(TsMod - 1)
                          /\ got.timestamp \in 0..(TsMod - 1)
BY StreamerAssumption DEF TypeOK

\* The parts of PictureInv that are about the NAL unit alone.
LEMMA SliceStep ==
  ASSUME ClockAssumption, TypeOK, PictureInv, [Next]_vars
  PROVE  /\ (pc # "idle" => (nal.slice <=> slices = 1))'
         /\ (pc = "cut" => i = 1)'
<1>1. CASE \E n \in Nals : SendNal(n)
  BY <1>1 DEF SendNal, ClockAssumption, TypeOK
<1>2. CASE Step
  BY <1>2 DEF PictureInv, Step, Cut, CutDone, PacketArrives, PacketLost, SendFails, SendDone,
     Advance, cutVars
<1>3. CASE UNCHANGED vars
  BY <1>3 DEF vars, PictureInv
<1> QED BY <1>1, <1>2, <1>3 DEF Next

\* Every step keeps track of how far behind the receiver is.
LEMMA BehindStep ==
  ASSUME ClockAssumption, TypeOK, FragmentsRebuildNal, PictureInv, [Next]_vars, got' # None
  PROVE  \E d \in Nat : Behind(d)'
<1>1. CASE PacketArrives
  <2>1. /\ got'.frame = frame /\ got'.timestamp = timestamp_ /\ frame' = frame
        /\ timestamp_' = timestamp_ /\ burst' = 0 /\ pc' = "send"
    BY <1>1 DEF PacketArrives, Packet
  <2>2. Ticked' = 0 /\ 0 * TsIncrement = 0
    BY <2>1, ClockRanges DEF Ticked
  <2>3. (frame + 0) % TsMod = frame /\ (timestamp_ + 0) % TsMod = timestamp_
    BY ClockRanges, ModOfSmall
  <2>4. Behind(0)'
    BY <2>1, <2>2, <2>3 DEF Behind
  <2> QED BY <2>4
<1>2. CASE ~PacketArrives
  <2>1. got' = got /\ got # None
    BY <1>2 DEF Next, Step, SendNal, Cut, CutDone, PacketLost, SendFails, SendDone, Advance,
       vars, wireVars
  <2>2. PICK d \in Nat : Behind(d)
    BY <2>1 DEF PictureInv
  <2>3. /\ frame = (got.frame + d) % TsMod
        /\ timestamp_ = (got.timestamp + (d + Ticked) * TsIncrement) % TsMod
        /\ d <= burst + (IF Attempted THEN 0 ELSE 1)
    BY <2>2 DEF Behind
  <2>4. ASSUME UNCHANGED <<frame, timestamp_, Ticked>>,
               d <= burst' + (IF Attempted' THEN 0 ELSE 1)
        PROVE  Behind(d)'
    BY <2>1, <2>3, <2>4 DEF Behind
  <2>5. CASE PacketLost \/ SendFails
    <3>1. UNCHANGED <<frame, timestamp_, Ticked>> /\ burst' = burst + 1
      BY <2>5 DEF PacketLost, SendFails, Ticked
    <3>2. d <= burst' + (IF Attempted' THEN 0 ELSE 1)
      BY <2>3, <3>1, ClockRanges
    <3> QED BY <2>4, <3>1, <3>2
  <2>6. CASE Cut \/ CutDone \/ SendDone \/ UNCHANGED vars
    <3>1. UNCHANGED <<frame, timestamp_, Ticked, burst>>
      BY <2>6 DEF Cut, CutDone, SendDone, Ticked, vars, wireVars
    <3>2. Attempted' => Attempted
      <4>1. pc = "send" => Len(fragments) > 0
        <5>1. Len(<<Single(nal)>>) = 1 /\ Len(fragments) \in Nat
          BY DEF TypeOK
        <5> QED BY <5>1 DEF FragmentsRebuildNal
      <4> QED BY <2>6, <4>1 DEF Cut, CutDone, SendDone, Attempted, vars, TypeOK, PictureInv, cutVars
    <3>3. d <= burst' + (IF Attempted' THEN 0 ELSE 1)
      BY <2>3, <3>1, <3>2, ClockRanges
    <3> QED BY <2>4, <3>1, <3>3
  <2>7. CASE Advance
    <3>1. UNCHANGED <<frame, burst>> /\ Attempted /\ Ticked = 0
          /\ Ticked' = IF nal.slice THEN 1 ELSE 0
      BY <2>7 DEF Advance, Attempted, Ticked, PictureInv, wireVars
    <3>2. d <= burst' + (IF Attempted' THEN 0 ELSE 1)
      BY <2>3, <3>1, ClockRanges
    <3>3. CASE nal.slice
      <4>1. timestamp_' = (timestamp_ + TsIncrement) % TsMod
        BY <2>7, <3>3 DEF Advance, EndsFrame
      <4>2. (d + 1) * TsIncrement = d * TsIncrement + TsIncrement /\ d * TsIncrement \in Nat
        BY ClockRanges, Z3
      <4>3. timestamp_ = (got.timestamp + d * TsIncrement) % TsMod
        BY <2>3, <3>1
      <4> DEFINE a == got.timestamp + d * TsIncrement
      <4>4. /\ a \in Nat
            /\ a + TsIncrement = got.timestamp + (d + 1) * TsIncrement
        BY <2>1, <4>2, ClockRanges
      <4> HIDE DEF a
      <4>5. ((a % TsMod) + TsIncrement) % TsMod = (a + TsIncrement) % TsMod
        BY <4>4, ClockRanges, AddWraps
      <4>6. timestamp_' = (got.timestamp + (d + 1) * TsIncrement) % TsMod
        BY <4>1, <4>3, <4>4, <4>5 DEF a
      <4> QED BY <2>1, <2>3, <3>1, <3>2, <3>3, <4>6 DEF Behind
    <3>4. CASE ~nal.slice
      <4>1. UNCHANGED <<timestamp_, Ticked>>
        BY <2>7, <3>1, <3>4 DEF Advance, EndsFrame
      <4> QED BY <2>4, <3>1, <3>2, <4>1
    <3> QED BY <3>3, <3>4
  <2>8. ASSUME NEW n \in Nals, SendNal(n) PROVE \E e \in Nat : Behind(e)'
    <3>1. /\ pc = "idle" /\ pc' \in {"send", "cut"} /\ i' = 1
          /\ UNCHANGED <<timestamp_, burst>>
      BY <2>8 DEF SendNal, wireVars
    <3>2. ~Attempted' /\ Ticked' = 0
      BY <3>1 DEF Attempted, Ticked
    <3>3. CASE slices = 0 /\ UNCHANGED frame
      <4>1. Ticked = 0
        BY <3>3 DEF Ticked
      <4>2. d <= burst' + (IF Attempted' THEN 0 ELSE 1)
        BY <2>3, <3>1, <3>2, ClockRanges
      <4> QED BY <2>4, <3>1, <3>2, <3>3, <4>1, <4>2
    <3>4. CASE slices = 1 /\ frame' = (frame + 1) % TsMod
      <4>1. Ticked = 1 /\ Attempted
        BY <3>1, <3>4 DEF Ticked, Attempted
      <4> DEFINE a == got.frame + d
      <4>2. a \in Nat /\ a + 1 = got.frame + (d + 1)
        BY <2>1, ClockRanges
      <4> HIDE DEF a
      <4>3. ((a % TsMod) + 1) % TsMod = (a + 1) % TsMod
        BY <4>2, ClockRanges, AddWraps
      <4>4. frame' = (got.frame + (d + 1)) % TsMod
        BY <2>3, <3>4, <4>2, <4>3 DEF a
      <4>5. timestamp_' = (got.timestamp + (d + 1) * TsIncrement) % TsMod
        BY <2>3, <3>1, <4>1
      <4>6. d + 1 <= burst' + 1
        BY <2>3, <3>1, <4>1, ClockRanges
      <4>7. Behind(d + 1)'
        BY <2>1, <3>2, <4>4, <4>5, <4>6 DEF Behind
      <4> QED BY <4>7
    <3> QED BY <2>8, <3>3, <3>4 DEF SendNal, ClockAssumption, TypeOK
  <2> QED BY <1>2, <2>4, <2>5, <2>6, <2>7, <2>8 DEF Next, Step
<1> QED BY <1>1, <1>2

\* For an encoder that puts each picture in one slice the receiver can tell
\* pictures apart by their timestamp, and finds the parameter sets with the
\* picture that they belong to, whatever is lost or refused in between.
THEOREM OneClockPerPicture ==
  ASSUME ClockAssumption
  PROVE  Spec => OneTimestampPerFrame
<1>1. Init => PictureInv
  BY DEF Init, PictureInv
<1>2. TypeOK /\ FragmentsRebuildNal /\ PictureInv /\ [Next]_vars => PictureInv'
  BY SliceStep, BehindStep DEF PictureInv
<1>3. TypeOK /\ PictureInv /\ [Next]_vars
        => [(got # None /\ got' # got) =>
              ((got'.frame = got.frame) <=> (got'.timestamp = got.timestamp))]_vars
  <2> SUFFICES ASSUME TypeOK, PictureInv, [Next]_vars, got # None, got' # got
               PROVE  (got'.frame = got.frame) <=> (got'.timestamp = got.timestamp)
    OBVIOUS
  <2>1. PacketArrives
    BY DEF Next, Step, SendNal, Cut, CutDone, PacketLost, SendFails, SendDone, Advance,
           vars, wireVars
  <2>2. got'.frame = frame /\ got'.timestamp = timestamp_ /\ Ticked = 0
    BY <2>1 DEF PacketArrives, Packet, Ticked
  <2>3. PICK d \in Nat : Behind(d)
    BY DEF PictureInv
  <2>4. /\ frame = (got.frame + d) % TsMod
        /\ timestamp_ = (got.timestamp + d * TsIncrement) % TsMod
        /\ d <= burst + 1
    BY <2>2, <2>3, ClockRanges DEF Behind
  <2>5. CASE d = 0
    <3>1. /\ (got.frame + 0) % TsMod = got.frame
          /\ (got.timestamp + 0) % TsMod = got.timestamp /\ 0 * TsIncrement = 0
      <4>1. got.frame \in 0..(TsMod - 1) /\ got.timestamp \in 0..(TsMod - 1)
        BY ClockRanges
      <4>2. got.frame + 0 = got.frame /\ got.timestamp + 0 = got.timestamp
        BY <4>1
      <4>3. 0 * TsIncrement = 0
        BY ClockRanges
      <4>4. got.frame % TsMod = got.frame /\ got.timestamp % TsMod = got.timestamp
        BY <4>1, ModOfSmall, ClockRanges
      <4> QED BY <4>2, <4>3, <4>4
    <3> QED BY <2>2, <2>4, <2>5, <3>1
  <2>6. CASE d # 0
    <3>1. d * TsIncrement \in Nat
      BY ClockRanges, Distributes
    <3>2. d \in 1..(MaxBurst + 1)
      BY <2>4, <2>6, StreamerAssumption DEF TypeOK
    <3>3. (d * TsIncrement) % TsMod # 0
      BY <3>2 DEF ClockAssumption
    <3>4. timestamp_ # got.timestamp
      BY <2>4, <3>1, <3>3, ClockRanges, BackAround
    <3>5. d % TsMod # 0
      BY <3>3, ClockRanges, MultipleGoesAround
    <3>6. frame # got.frame
      BY <2>4, <3>5, ClockRanges, BackAround
    <3> QED BY <2>2, <3>4, <3>6
  <2> QED BY <2>5, <2>6
<1> QED
  BY <1>1, <1>2, <1>3, TypeCorrect, Rebuild, PTL DEF Spec, OneTimestampPerFrame
==============================================================================
