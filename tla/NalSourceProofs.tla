--------------------------- MODULE NalSourceProofs ---------------------------
(***************************************************************************)
(* Proofs about NalSource, for streams of any length, a caller that is any *)
(* number of periods late, and sources started and stopped at will.        *)
(***************************************************************************)
EXTENDS NalSource, SequenceTheorems, TLAPS

InCall == {"first", "again", "pace"}

\* 1 if a slice was handed over in this call and not yet waited for.
Owed == IF pc \in InCall /\ frame_boundary THEN 1 ELSE 0

(***************************************************************************)
(* The inductive invariant.                                                *)
(***************************************************************************)

\* How often read_nal can have called back by now; only a looping file reads
\* a second time, from its beginning, and a looping file ends only there.
CallInv ==
  /\ pc = "first" => callbacks = 0 /\ ~frame_boundary
  /\ pc = "again" => callbacks \in 0..1 /\ pos = 0
  /\ loop_ => kind = "file"
  /\ pc = "pace" => kind = "file"
  /\ LoopNeverEnds

\* Nothing but empty NAL units lies in the range.
Passed(range) == \A k \in range : stream[k] = "empty"

\* The reader is behind the NAL unit handed over last, or rewound behind the
\* last one of the stream; what it has left out since then is empty.
PlaceInv ==
  pc \in InCall \cup {"open"} =>
    \/ latest <= pos /\ Passed((latest + 1)..pos)
    \/ Passed((latest + 1)..Len(stream)) /\ Passed(1..pos)

\* The clock never runs ahead of the slices; for a file that does not begin
\* with a slice, whose calls hand over one slice each, it is exact.
ClockInv ==
  /\ slack + Owed <= late
  /\ pc \in InCall \cup {"open"} /\ kind = "file"
       /\ stream # <<>> /\ stream[1] \notin Vcl
     => slack + Owed = late

SourceInv == TypeOK /\ CallInv /\ PlaceInv /\ ClockInv

------------------------------------------------------------------------------

\* A source starts out closed, with any stream.
LEMMA InitInv == Init => SourceInv
<1> SUFFICES ASSUME Init PROVE SourceInv
  OBVIOUS
<1>1. stream \in Seq(NalTypes)
  <2>1. PICK n \in 0..MaxNals : stream \in [1..n -> NalTypes]
    BY DEF Init
  <2>2. n \in Nat
    BY SourceAssumption
  <2> QED BY <2>1, <2>2, SeqDef
<1>2. TypeOK
  <2>1. ReaderType
    BY <1>1 DEF Init, ReaderType
  <2>2. CallType
    <3>1. frame_boundary \in BOOLEAN
      BY DEF Init
    <3>2. callbacks \in 0..2
      BY DEF Init
    <3> QED BY <3>1, <3>2 DEF CallType
  <2>3. ClockType
    BY SourceAssumption DEF Init, ClockType
  <2> QED BY <2>1, <2>2, <2>3 DEF TypeOK
<1>3. CallInv /\ PlaceInv /\ ClockInv
  BY <1>1 DEF Init, CallInv, LoopNeverEnds, PlaceInv, ClockInv, Owed, InCall
<1> QED BY <1>2, <1>3 DEF SourceInv

\* What one callback does: it is counted, remembered, and its slice taken off.
LEMMA DeliverFacts ==
  ASSUME TypeOK, NEW k \in 1..Len(stream), Deliver(k)
  PROVE  /\ latest' = k
         /\ callbacks' = callbacks + 1
         /\ frame_boundary' \in BOOLEAN
         /\ frame_boundary' <=> (frame_boundary \/ stream[k] \in Vcl)
         /\ slack' \in (-MaxAhead)..MaxLate
         /\ stream[k] \notin Vcl => slack' = slack
         /\ stream[k] \in Vcl =>
              slack' = slack - 1 \/ (slack = -MaxAhead /\ slack' = slack)
<1>1. frame_boundary' \in BOOLEAN
  BY DEF Deliver
<1>2. frame_boundary' <=> (frame_boundary \/ stream[k] \in Vcl)
  BY DEF Deliver, TypeOK, CallType
<1>3. /\ slack' \in (-MaxAhead)..MaxLate
      /\ stream[k] \notin Vcl => slack' = slack
      /\ stream[k] \in Vcl =>
           slack' = slack - 1 \/ (slack = -MaxAhead /\ slack' = slack)
  BY SourceAssumption DEF Deliver, TypeOK, ClockType
<1> QED BY <1>1, <1>2, <1>3 DEF Deliver

\* start, stop and the beginning of a call.
LEMMA ControlStep ==
  ASSUME SourceInv,
         Start \/ Stop \/ \E d \in 0..MaxLate : Call(d)
  PROVE  SourceInv'
<1> USE SourceAssumption DEF SourceInv, TypeOK
<1>1. CASE Start
  <2>1. ReaderType'
    BY <1>1 DEF Start, given, ReaderType
  <2>2. CallType' /\ ClockType'
    BY <1>1 DEF Start, LateAtStart, CallType, ClockType
  <2>3. CallInv' /\ PlaceInv'
    BY <1>1 DEF Start, given, CallInv, LoopNeverEnds, PlaceInv, Passed, InCall
  <2>4. ClockInv'
    BY <1>1 DEF Start, LateAtStart, given, ClockInv, Owed, InCall
  <2> QED BY <2>1, <2>2, <2>3, <2>4
<1>2. CASE Stop
  <2>1. TypeOK'
    <3>1. ReaderType'
      BY <1>2 DEF Stop, given, ReaderType
    <3>2. CallType'
      <4>1. frame_boundary' \in BOOLEAN
        BY <1>2 DEF Stop
      <4>2. callbacks' \in 0..2
        BY <1>2 DEF Stop
      <4> QED BY <4>1, <4>2 DEF CallType
    <3>3. ClockType'
      BY <1>2 DEF Stop, ClockType
    <3> QED BY <3>1, <3>2, <3>3
  <2>2. CallInv' /\ PlaceInv'
    BY <1>2 DEF Stop, given, CallInv, LoopNeverEnds, PlaceInv, InCall
  <2>3. ClockInv'
    BY <1>2 DEF Stop, given, ClockInv, Owed, InCall, CallType, ClockType
  <2> QED BY <2>1, <2>2, <2>3
<1>3. ASSUME NEW d \in 0..MaxLate, Call(d) PROVE SourceInv'
  <2>1. slack <= late /\ late + d <= MaxLate
    BY <1>3 DEF Call, ClockInv, Owed, InCall, CallType, ClockType
  <2>2. TypeOK'
    <3>1. ReaderType'
      BY <1>3 DEF Call, given, ReaderType
    <3>2. CallType'
      <4>1. frame_boundary' \in BOOLEAN
        BY <1>3 DEF Call
      <4>2. callbacks' \in 0..2
        BY <1>3 DEF Call
      <4> QED BY <4>1, <4>2 DEF CallType
    <3>3. ClockType'
      BY <1>3, <2>1 DEF Call, ClockType
    <3> QED BY <3>1, <3>2, <3>3
  <2>3. CallInv' /\ PlaceInv'
    BY <1>3 DEF Call, given, CallInv, LoopNeverEnds, PlaceInv, Passed, InCall
  <2>4. ClockInv'
    BY <1>3 DEF Call, given, ClockInv, Owed, InCall, CallType, ClockType
  <2> QED BY <2>2, <2>3, <2>4
<1> QED BY <1>1, <1>2, <1>3

\* The reader's answer is one callback with the next NAL unit, or none, if that
\* is empty or the stream is at its end.
LEMMA ReadFacts ==
  ASSUME SourceInv, pc \in {"first", "again"}, ReadNext
  PROVE  \/ /\ UNCHANGED <<latest, callbacks, frame_boundary, slack>>
            /\ Passed((pos + 1)..Len(stream)) \/ pos + 1 < Len(stream)
            /\ pos < Len(stream) => stream[pos + 1] = "empty"
         \/ pos + 1 \in 1..Len(stream) /\ stream[pos + 1] # "empty" /\ Deliver(pos + 1)
BY DEF Passed, ReadNext, Exhausted, SourceInv, TypeOK, ReaderType

\* A callback keeps the clock within its bounds: at most one slice is owed, and
\* a file that begins with a parameter set does not owe a second one.
LEMMA DeliverClock ==
  ASSUME SourceInv, pc \in {"first", "again"}, Deliver(pos + 1),
         pos + 1 \in 1..Len(stream)
  PROVE  /\ slack' <= late
         /\ slack' + (IF frame_boundary' THEN 1 ELSE 0) <= late
         /\ kind = "file" /\ stream # <<>> /\ stream[1] \notin Vcl
              => slack' + (IF frame_boundary' THEN 1 ELSE 0) = late
<1> USE SourceAssumption DEF SourceInv, TypeOK
<1>1. late \in Nat /\ slack \in Int /\ slack >= -MaxAhead /\ MaxAhead \in Nat \ {0}
  BY DEF ClockType
<1>2. /\ slack + (IF frame_boundary THEN 1 ELSE 0) <= late
      /\ kind = "file" /\ stream # <<>> /\ stream[1] \notin Vcl
           => slack + (IF frame_boundary THEN 1 ELSE 0) = late
  BY DEF ClockInv, Owed, InCall
<1>3. CASE stream[pos + 1] \notin Vcl
  BY <1>1, <1>2, <1>3, DeliverFacts DEF ClockType, CallType
<1>4. CASE stream[pos + 1] \in Vcl
  <2>1. frame_boundary' /\ (slack' = slack - 1 \/ (slack = -MaxAhead /\ slack' = slack))
    BY <1>4, DeliverFacts
  <2>2. slack' + 1 <= late
    BY <1>1, <1>2, <2>1
  <2>3. ASSUME kind = "file", stream # <<>>, stream[1] \notin Vcl
        PROVE  slack' + 1 = late
    <3>1. pc = "first" /\ ~frame_boundary
      BY <1>4, <2>3 DEF CallInv
    <3> QED BY <1>1, <1>2, <2>1, <2>3, <3>1
  <2> QED BY <1>1, <2>1, <2>2, <2>3
<1> QED BY <1>3, <1>4

\* The reader returns true.
LEMMA ReadsStep == SourceInv /\ Reads => SourceInv'
<1> SUFFICES ASSUME SourceInv, Reads PROVE SourceInv'
  OBVIOUS
<1> USE SourceAssumption DEF SourceInv, TypeOK
<1>1. pc \in {"first", "again"} /\ ReadNext /\ pos + 1 < Len(stream)
  BY DEF Reads, AtEnd, ReaderType
<1>2. /\ callbacks \in 0..1 /\ pos \in 0..Len(stream) /\ Len(stream) \in Nat
      /\ latest \in 0..Len(stream)
      /\ kind' = kind /\ loop_' = loop_ /\ stream' = stream /\ late' = late /\ pos' = pos + 1
      /\ pc' = IF kind = "camera" THEN "open" ELSE "pace"
  BY <1>1 DEF Reads, given, CallInv, ReaderType
<1>3. CallInv'
  BY <1>2 DEF CallInv, LoopNeverEnds, ReaderType
<1>4. CASE /\ UNCHANGED <<latest, callbacks, frame_boundary, slack>>
           /\ stream[pos + 1] = "empty"
  <2>1. ReaderType' /\ CallType' /\ ClockType'
    BY <1>1, <1>2, <1>4 DEF ReaderType, CallType, ClockType
  <2>2. PlaceInv'
    <3>1. CASE latest <= pos /\ Passed((latest + 1)..pos)
      <4>1. \A k \in (latest + 1)..(pos + 1) : stream[k] = "empty"
        BY <1>2, <1>4, <3>1 DEF Passed
      <4> QED BY <1>2, <1>4, <3>1, <4>1 DEF PlaceInv, Passed
    <3>2. CASE Passed((latest + 1)..Len(stream)) /\ Passed(1..pos)
      <4>1. \A k \in 1..(pos + 1) : stream[k] = "empty"
        BY <1>2, <1>4, <3>2 DEF Passed
      <4> QED BY <1>2, <1>4, <3>2, <4>1 DEF PlaceInv, Passed
    <3> QED BY <1>1, <3>1, <3>2 DEF PlaceInv, InCall
  <2>3. ClockInv'
    BY <1>1, <1>2, <1>4 DEF ClockInv, Owed, InCall, CallType, ClockType, ReaderType
  <2> QED BY <1>3, <2>1, <2>2, <2>3
<1>5. CASE pos + 1 \in 1..Len(stream) /\ Deliver(pos + 1)
  <2>1. ReaderType' /\ CallType' /\ ClockType'
    BY <1>1, <1>2, <1>5, DeliverFacts DEF ReaderType, CallType, ClockType
  <2>2. PlaceInv'
    BY <1>2, <1>5, DeliverFacts DEF PlaceInv, Passed
  <2>3. ClockInv'
    <3>1. CASE kind = "camera"
      <4>1. slack' <= late
        BY <1>1, <1>5, DeliverClock
      <4>2. slack' \in Int
        BY <2>1 DEF ClockType
      <4>3. Owed' = 0
        BY <1>2, <3>1 DEF Owed, InCall
      <4> QED BY <1>2, <3>1, <4>1, <4>2, <4>3 DEF ClockInv
    <3>2. CASE kind = "file"
      BY <1>1, <1>2, <1>5, <3>2, DeliverClock DEF ClockInv, Owed, InCall
    <3> QED BY <3>1, <3>2 DEF ReaderType
  <2> QED BY <1>3, <2>1, <2>2, <2>3
<1> QED BY <1>1, <1>2, <1>4, <1>5, ReadFacts

\* The reader returns false and the looping file is rewound.
LEMMA RewindStep == SourceInv /\ ReadsEndOfLoop => SourceInv'
<1> SUFFICES ASSUME SourceInv, ReadsEndOfLoop PROVE SourceInv'
  OBVIOUS
<1> USE SourceAssumption DEF SourceInv, TypeOK
<1>1. /\ pc = "first" /\ loop_ /\ kind = "file" /\ ReadNext /\ callbacks = 0
      /\ pos + 1 >= Len(stream) /\ pos \in 0..Len(stream) /\ Len(stream) \in Nat
      /\ pc' = "again" /\ pos' = 0 /\ kind' = kind /\ loop_' = loop_
      /\ stream' = stream /\ late' = late
  BY DEF ReadsEndOfLoop, AtEnd, MayRewind, Rewound, given, ReaderType, CallInv
<1>2. CASE /\ UNCHANGED <<latest, callbacks, frame_boundary, slack>>
           /\ Passed((pos + 1)..Len(stream))
  <2>1. ReaderType' /\ CallType' /\ ClockType'
    BY <1>1, <1>2 DEF ReaderType, CallType, ClockType
  <2>2. CallInv'
    BY <1>1, <1>2 DEF CallInv, LoopNeverEnds
  <2>3. PlaceInv'
    <3>1. latest \in 0..Len(stream)
      BY DEF ReaderType
    <3>2. \A k \in (latest + 1)..Len(stream) : stream[k] = "empty"
      BY <1>1, <1>2, <3>1 DEF PlaceInv, Passed, InCall
    <3> QED BY <1>1, <1>2, <3>2 DEF PlaceInv, Passed
  <2>4. ClockInv'
    BY <1>1, <1>2 DEF ClockInv, Owed, InCall
  <2> QED BY <2>1, <2>3, <2>4, <2>2
<1>3. CASE pos + 1 \in 1..Len(stream) /\ Deliver(pos + 1)
  <2>1. ReaderType' /\ CallType' /\ ClockType'
    BY <1>1, <1>3, DeliverFacts DEF ReaderType, CallType, ClockType
  <2>2. CallInv'
    BY <1>1, <1>3, DeliverFacts DEF CallInv, LoopNeverEnds
  <2>3. PlaceInv'
    <3>1. latest' = Len(stream)
      BY <1>1, <1>3, DeliverFacts
    <3> QED BY <1>1, <3>1 DEF PlaceInv, Passed
  <2>4. ClockInv'
    BY <1>1, <1>3, DeliverClock DEF ClockInv, Owed, InCall
  <2> QED BY <2>1, <2>3, <2>4, <2>2
<1> QED BY <1>1, <1>2, <1>3, ReadFacts

\* The reader returns false and so does read_nal: of a looping file only behind
\* the rewind, with nothing left after the first NAL unit.
LEMMA EndStep == SourceInv /\ ReadsEnd => SourceInv'
<1> SUFFICES ASSUME SourceInv, ReadsEnd PROVE SourceInv'
  OBVIOUS
<1> USE SourceAssumption DEF SourceInv, TypeOK
<1>1. /\ pc \in {"first", "again"} /\ ReadNext /\ callbacks \in 0..1
      /\ pos + 1 >= Len(stream) /\ pos \in 0..Len(stream) /\ Len(stream) \in Nat
      /\ pc' = "end" /\ pos' = Len(stream) /\ kind' = kind /\ loop_' = loop_
      /\ stream' = stream /\ late' = late
  BY DEF ReadsEnd, AtEnd, given, ReaderType, CallInv
<1>2. loop_ => Len(stream) < 2
  BY <1>1 DEF ReadsEnd, MayRewind, CallInv
<1>3. CallInv' /\ PlaceInv'
  BY <1>1, <1>2 DEF CallInv, LoopNeverEnds, PlaceInv, InCall
<1>4. CASE UNCHANGED <<latest, callbacks, frame_boundary, slack>>
  <2>1. ReaderType' /\ CallType' /\ ClockType'
    BY <1>1, <1>4 DEF ReaderType, CallType, ClockType
  <2>2. ClockInv'
    BY <1>1, <1>4 DEF ClockInv, Owed, InCall, CallType, ClockType
  <2> QED BY <1>3, <2>1, <2>2
<1>5. CASE pos + 1 \in 1..Len(stream) /\ Deliver(pos + 1)
  <2>1. ReaderType' /\ CallType' /\ ClockType'
    BY <1>1, <1>5, DeliverFacts DEF ReaderType, CallType, ClockType
  <2>2. ClockInv'
    <3>1. slack' <= late
      BY <1>1, <1>5, DeliverClock
    <3>2. slack' \in Int
      BY <2>1 DEF ClockType
    <3>3. Owed' = 0
      BY <1>1 DEF Owed, InCall
    <3> QED BY <1>1, <3>1, <3>2, <3>3 DEF ClockInv, InCall
  <2> QED BY <1>3, <2>1, <2>2
<1> QED BY <1>1, <1>4, <1>5, ReadFacts

\* Pacing: a slice that is owed is waited for, or taken off what is late.
LEMMA PaceStep == SourceInv /\ Pace => SourceInv'
<1> SUFFICES ASSUME SourceInv, Pace PROVE SourceInv'
  OBVIOUS
<1> USE SourceAssumption DEF SourceInv, TypeOK
<1> DEFINE slept == IF frame_boundary /\ late = 0 THEN 1 ELSE 0
<1>1. /\ pc = "pace" /\ pc' = "open" /\ UNCHANGED <<given, pos, frame_boundary, callbacks, latest>>
      /\ late' = (IF frame_boundary THEN late + slept - 1 ELSE late)
      /\ slack' = slack + slept
  BY DEF Pace, Paced
<1>2. /\ late \in 0..MaxLate /\ slack \in (-MaxAhead)..MaxLate
      /\ MaxLate \in Nat \ {0} /\ MaxAhead \in Nat \ {0}
  BY DEF ClockType
<1>3. slack + (IF frame_boundary THEN 1 ELSE 0) <= late
  BY <1>1 DEF ClockInv, Owed, InCall
<1>4. late' \in 0..MaxLate /\ slack' \in (-MaxAhead)..MaxLate
  BY <1>1, <1>2, <1>3
<1>5. TypeOK'
  <2>1. ReaderType'
    BY <1>1 DEF ReaderType, given
  <2>2. CallType' /\ ClockType'
    BY <1>1, <1>4 DEF CallType, ClockType
  <2> QED BY <2>1, <2>2
<1>6. CallInv' /\ PlaceInv'
  BY <1>1 DEF CallInv, LoopNeverEnds, PlaceInv, Passed, InCall, given
<1>7. ClockInv'
  <2>1. slack' <= late'
    BY <1>1, <1>2, <1>3
  <2>2. ASSUME kind = "file", stream # <<>>, stream[1] \notin Vcl
        PROVE  slack' = late'
    <3>1. slack + (IF frame_boundary THEN 1 ELSE 0) = late
      BY <1>1, <2>2 DEF ClockInv, Owed, InCall
    <3> QED BY <1>1, <1>2, <3>1
  <2> QED BY <1>1, <1>2, <1>4, <2>1, <2>2 DEF ClockInv, Owed, InCall, given
<1> QED BY <1>5, <1>6, <1>7

------------------------------------------------------------------------------

\* The strengthened invariant of both sources.
THEOREM SourceInvariant == Spec => []SourceInv
<1>1. SourceInv /\ [Next]_vars => SourceInv'
  <2> SUFFICES ASSUME SourceInv, [Next]_vars PROVE SourceInv'
    OBVIOUS
  <2>1. CASE Start \/ Stop \/ \E d \in 0..MaxLate : Call(d)
    BY <2>1, ControlStep
  <2>2. CASE ReadNal
    BY <2>2, ReadsStep, RewindStep, EndStep, PaceStep DEF ReadNal
  <2>3. CASE UNCHANGED vars
    BY <2>3 DEF vars, given, SourceInv, TypeOK, ReaderType, CallType, ClockType, CallInv,
                LoopNeverEnds, PlaceInv,
                ClockInv, Owed, Passed
  <2> QED BY <2>1, <2>2, <2>3 DEF Next, StartFails, Repeated
<1> QED BY InitInv, <1>1, PTL DEF Spec

\* Every variable of the sources has its type; read_nal makes at most two
\* callbacks.
THEOREM TypeCorrect == Spec => []TypeOK
BY SourceInvariant, PTL DEF SourceInv

\* A looping file of at least two start codes never ends the pump.
THEOREM LoopSafety == Spec => []LoopNeverEnds
<1>1. SourceInv => LoopNeverEnds
  BY DEF SourceInv, CallInv
<1> QED BY <1>1, SourceInvariant, PTL

\* FileSource never hands over more slices than frame periods have passed.
THEOREM PacingSafety == Spec => []NeverFasterThanRealTime
<1>1. SourceInv => NeverFasterThanRealTime
  BY DEF SourceInv, ClockInv, TypeOK, ClockType, CallType, Owed, InCall, NeverFasterThanRealTime
<1> QED BY <1>1, SourceInvariant, PTL

\* Each callback has the NAL unit behind the one before, empty ones aside, also
\* where FileSource::read_nal goes round the end of the file.
THEOREM OrderSafety == Spec => NalsInOrder
<1> DEFINE InOrder == callbacks' > callbacks =>
             /\ stream[latest'] # "empty"
             /\ \A k \in Between(latest, latest') : stream[k] = "empty"
<1>1. SourceInv /\ [Next]_vars => [InOrder]_vars
  <2> SUFFICES ASSUME SourceInv, Next, callbacks' > callbacks
               PROVE  /\ stream[latest'] # "empty"
                      /\ \A k \in Between(latest, latest') : stream[k] = "empty"
    OBVIOUS
  <2>1. /\ callbacks \in 0..2 /\ pos \in 0..Len(stream) /\ Len(stream) \in Nat
        /\ latest \in 0..Len(stream)
    BY DEF SourceInv, TypeOK, ReaderType, CallType, ClockType
  <2>2. pc \in {"first", "again"} /\ ReadNext
    BY <2>1 DEF Next, ReadNal, Start, StartFails, Repeated, Stop, Call, Pace, Reads,
                ReadsEndOfLoop, ReadsEnd, vars
  <2>3. pos + 1 \in 1..Len(stream) /\ stream[pos + 1] # "empty" /\ latest' = pos + 1
    BY <2>1, <2>2, ReadFacts DEF Deliver
  <2>4. CASE latest <= pos /\ Passed((latest + 1)..pos)
    BY <2>1, <2>3, <2>4 DEF Between, Passed
  <2>5. CASE Passed((latest + 1)..Len(stream)) /\ Passed(1..pos)
    BY <2>1, <2>3, <2>5 DEF Between, Passed
  <2> QED BY <2>2, <2>4, <2>5 DEF SourceInv, PlaceInv, InCall
<1> QED BY <1>1, SourceInvariant, PTL DEF Spec, NalsInOrder
==============================================================================
