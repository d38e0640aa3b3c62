------------------------------ MODULE NalSource ------------------------------
(***************************************************************************)
(* The two sources behind media::NalSource: media::FileSource, which plays *)
(* an H.264 file in a loop at fps frames a second, and camera::Source, the *)
(* pipe of libcamera-vid.  The caller (Hub::pump) starts the source, calls *)
(* read_nal until it returns false, and stops it.                          *)
(*                                                                         *)
(* The content of the file or pipe is the sequence `stream' of what lies   *)
(* behind each of its start codes, as AnnexBReader cuts it: the type of a  *)
(* NAL unit, or "empty" where the next start code, or the end, follows at  *)
(* once.  read_nal of the reader hands over the next NAL unit and returns  *)
(* true, hands over the last one and returns false, or, with nothing left, *)
(* only returns false; of an empty NAL unit it says nothing.  Time is      *)
(* counted in frame periods; `late' is now minus next_frame_time_.         *)
(***************************************************************************)
EXTENDS Integers, Sequences

CONSTANTS
  MaxNals,      \* longest stream, in start codes
  MaxLate,      \* most periods playback may fall behind
  MaxAhead      \* most slices `slack' counts ahead of the clock

ASSUME SourceAssumption ==
  MaxNals \in Nat /\ MaxLate \in Nat \ {0} /\ MaxAhead \in Nat \ {0}

VARIABLES
  kind,         \* "file" or "camera"
  loop_,        \* the file is played in a loop
  stream,       \* what the start codes begin, of the file, or of the camera
                \* until it ends
  pc,           \* "closed", "open" (between two calls) or inside read_nal:
                \* "first", "again" (after the rewind), "pace", "end" (false)
  pos,          \* start codes the reader has left behind
  frame_boundary, \* this read_nal has handed over a slice
  callbacks,    \* NAL units this read_nal has handed over
  latest,       \* position of the NAL unit handed over last, 0 after start
  late,         \* periods by which now is past next_frame_time_
  slack         \* periods since start, less the slices handed over since

given == <<kind, loop_, stream>>
vars == <<given, pc, pos, frame_boundary, callbacks, latest, late, slack>>

NalTypes == {"slice", "idr", "sps", "empty"}
Vcl == {"slice", "idr"}

Init ==
  /\ kind \in {"file", "camera"}
  /\ loop_ \in {l \in BOOLEAN : l => kind = "file"}
  /\ stream \in UNION {[1..n -> NalTypes] : n \in 0..MaxNals}
  /\ pc = "closed"
  /\ pos = 0
  /\ frame_boundary = FALSE
  /\ callbacks = 0
  /\ latest = 0
  /\ late = 0
  /\ slack = 0

------------------------------------------------------------------------------
(* start and stop                                                          *)

\* Mutant: next_frame_time_ is not set again.
LateAtStartKept == late
LateAtStart == 0

\* fopen or popen: the reader is reset, the clock starts now.
Start ==
  /\ pc = "closed"
  /\ pc' = "open"
  /\ pos' = 0
  /\ latest' = 0
  /\ late' = LateAtStart
  /\ slack' = 0
  /\ UNCHANGED <<given, frame_boundary, callbacks>>

\* The file or the pipe cannot be opened: false.
StartFails == pc = "closed" /\ UNCHANGED vars

\* start while open returns true, stop and read_nal while closed do nothing.
Repeated == pc \in {"closed", "open"} /\ UNCHANGED vars

\* fclose or pclose, which waits for the camera process.
Stop ==
  /\ pc \in {"open", "end"}
  /\ pc' = "closed"
  /\ pos' = 0
  /\ callbacks' = 0
  /\ frame_boundary' = FALSE
  /\ UNCHANGED <<given, latest, late, slack>>

------------------------------------------------------------------------------
(* read_nal                                                                *)

\* The caller comes back after d periods.
Call(d) ==
  /\ pc = "open"
  /\ late + d <= MaxLate
  /\ late' = late + d
  /\ slack' = slack + d
  /\ pc' = "first"
  /\ callbacks' = 0
  /\ frame_boundary' = FALSE
  /\ UNCHANGED <<given, pos, latest>>

\* The wrapped callback for NAL unit k.
Deliver(k) ==
  /\ latest' = k
  /\ callbacks' = callbacks + 1
  /\ frame_boundary' = (frame_boundary \/ stream[k] \in Vcl)
  /\ slack' = IF stream[k] \in Vcl /\ slack > -MaxAhead THEN slack - 1 ELSE slack

\* There is no start code left.
Exhausted == pos = Len(stream)

\* The reader returns false: it finds no start code behind the next NAL unit,
\* or not even one before it.
AtEnd == pos + 1 >= Len(stream)

\* The callback, unless there are no bytes to hand over.
ReadNext ==
  IF Exhausted \/ stream[pos + 1] = "empty"
    THEN UNCHANGED <<latest, callbacks, frame_boundary, slack>>
    ELSE Deliver(pos + 1)

\* reader_.read_nal returns true: camera::Source returns, FileSource paces.
Reads ==
  /\ pc \in {"first", "again"}
  /\ ~AtEnd
  /\ ReadNext
  /\ pos' = pos + 1
  /\ pc' = IF kind = "camera" THEN "open" ELSE "pace"
  /\ UNCHANGED <<given, late>>

\* Mutant: the rewound file is read on by a reader that was not reset and
\* swallows the first NAL unit.
RewoundSkips == IF stream = <<>> THEN 0 ELSE 1
Rewound == 0

\* Mutant: the file is rewound as often as it ends.
MayRewindAlways == loop_
\* Mutant: it is rewound only if the reader had nothing left.
MayRewindEmpty == loop_ /\ pc = "first" /\ Exhausted
\* Only a looping file is rewound, and once in a call.
MayRewind == loop_ /\ pc = "first"

\* reader_.read_nal returns false: the file is rewound, the reader reset and
\* asked once more.
ReadsEndOfLoop ==
  /\ pc \in {"first", "again"}
  /\ AtEnd
  /\ MayRewind
  /\ ReadNext
  /\ pos' = Rewound
  /\ pc' = "again"
  /\ UNCHANGED <<given, late>>

\* No loop, or no second start code behind the rewind: false.
ReadsEnd ==
  /\ pc \in {"first", "again"}
  /\ AtEnd
  /\ ~MayRewind
  /\ ReadNext
  /\ pos' = Len(stream)
  /\ pc' = "end"
  /\ UNCHANGED <<given, late>>

\* Mutant: a call that goes round the end of the file is not paced.
PacedOnce == frame_boundary /\ callbacks = 1
\* A slice was handed over in this call.
Paced == frame_boundary

\* next_frame_time_ moves one period; sleep_until waits if that is later than
\* now, else playback is late and goes on at once.
Pace ==
  /\ pc = "pace"
  /\ pc' = "open"
  /\ LET slept == IF Paced /\ late = 0 THEN 1 ELSE 0
     IN /\ late' = IF Paced THEN late + slept - 1 ELSE late
        /\ slack' = slack + slept
  /\ UNCHANGED <<given, pos, frame_boundary, callbacks, latest>>

------------------------------------------------------------------------------

ReadNal == Reads \/ ReadsEndOfLoop \/ ReadsEnd \/ Pace

Next ==
  \/ Start \/ StartFails \/ Repeated \/ Stop
  \/ (\E d \in 0..MaxLate : Call(d))
  \/ ReadNal

Spec == Init /\ [][Next]_vars

------------------------------------------------------------------------------
(* Properties                                                              *)

\* Where the source is in its stream.
ReaderType ==
  /\ kind \in {"file", "camera"} /\ loop_ \in BOOLEAN
  /\ stream \in Seq(NalTypes)
  /\ pc \in {"closed", "open", "first", "again", "pace", "end"}
  /\ pos \in 0..Len(stream) /\ latest \in 0..Len(stream)

\* What one call has done.
CallType == frame_boundary \in BOOLEAN /\ callbacks \in 0..2

ClockType == late \in 0..MaxLate /\ slack \in (-MaxAhead)..MaxLate

\* Every variable has its type; one read_nal makes at most two callbacks, the
\* last NAL unit of the file and the first one after the rewind.
TypeOK == ReaderType /\ CallType /\ ClockType

\* The positions between a and b, going round the end if b is not behind a.
Between(a, b) ==
  IF a < b THEN (a + 1)..(b - 1) ELSE ((a + 1)..Len(stream)) \union (1..(b - 1))

\* The NAL units come in the order of the stream and none is lost, the end of
\* a looping file included, where FileSource::read_nal reads twice: behind the
\* last NAL unit comes the first, and what is passed over is empty.
NalsInOrder ==
  [][callbacks' > callbacks =>
       /\ stream[latest'] # "empty"
       /\ \A k \in Between(latest, latest') : stream[k] = "empty"]_vars

\* A looping file never makes read_nal return false, which would end Hub::pump
\* and the stream of every client, unless it has fewer than two start codes.
LoopNeverEnds == pc = "end" /\ loop_ => Len(stream) < 2

\* FileSource does not play faster than real time: between two calls it has
\* handed over no more slices since start than frame periods have passed, if
\* the file does not begin with a slice.  (Else the call that goes round the
\* end hands over two slices and waits for one period.)
NeverFasterThanRealTime ==
  /\ pc = "open" /\ kind = "file"
  /\ stream # <<>> /\ stream[1] \notin Vcl
  => slack >= 0
==============================================================================
