---------------------------- MODULE AnnexBReader -----------------------------
(***************************************************************************)
(* media::AnnexBReader (src/media/annexb_reader.cpp): cut an H.264 byte    *)
(* stream into NAL units at its start codes while the bytes arrive in      *)
(* chunks.                                                                 *)
(*                                                                         *)
(* A byte is 0, 1 or 2, where 2 stands for every other value.  buffer_ is  *)
(* a window of the stream: the bytes after the first `base' ones, up to    *)
(* the `fetched'th.  Erasing the front moves base, fill() moves fetched.   *)
(* A NAL unit handed to the callback is recorded as its range of stream    *)
(* positions.                                                              *)
(***************************************************************************)
EXTENDS Naturals, Sequences, FiniteSets

CONSTANTS
  MaxLen,       \* longest stream
  ChunkSize     \* most bytes one fread returns (kReadChunkSize)

ASSUME ReaderAssumption ==
  MaxLen \in Nat /\ ChunkSize \in Nat \ {0}

VARIABLES
  data,         \* the whole stream
  base,         \* bytes erased from the front of buffer_
  fetched,      \* bytes read from the stream
  pc,           \* "align" (step 1 of read_nal), "scan" (step 2) or "ended"
  nal_start,    \* length of the start code at the front of buffer_
  scan,         \* where the search for the next start code goes on
  out           \* ranges <<first, last>> handed to the callback, in order

vars == <<data, base, fetched, pc, nal_start, scan, out>>

Streams == UNION {[1..n -> 0..2] : n \in 0..MaxLen}

Init ==
  /\ data \in Streams
  /\ base = 0
  /\ fetched = 0
  /\ pc = "align"
  /\ nal_start = 0
  /\ scan = 0
  /\ out = <<>>

------------------------------------------------------------------------------
\* buffer_.size() and buffer_[k], with k counted from 0 as in the source.
Size == fetched - base
Byte(k) == data[base + k + 1]

\* Length of the start code at offset k, 0 if there is none.
StartCodeAt(k) ==
  IF k + 2 >= Size \/ Byte(k) # 0 \/ Byte(k + 1) # 0 THEN 0
  ELSE IF Byte(k + 2) = 1 THEN 3
  ELSE IF k + 3 < Size /\ Byte(k + 2) = 0 /\ Byte(k + 3) = 1 THEN 4
  ELSE 0

\* Mutant: only the three-byte code is known.
FindThreeByteOnly(offset) ==
  {k \in offset..Size : StartCodeAt(k) = 3}

\* Offsets at or after `offset' where find_start_code would stop; it returns
\* the first of them.
FindStartCode(offset) == {k \in offset..Size : StartCodeAt(k) # 0}

First(codes) == CHOOSE k \in codes : \A j \in codes : k <= j

\* Mutant: the whole chunk is appended, however few bytes fread returned.
FillWholeChunk ==
  /\ fetched < Len(data)
  /\ fetched' = fetched + ChunkSize

\* fill(): fread appends between 1 and ChunkSize bytes.
Fill ==
  \E n \in 1..ChunkSize :
    /\ fetched + n <= Len(data)
    /\ fetched' = fetched + n

AtEof == fetched = Len(data)

------------------------------------------------------------------------------
(* read_nal, called again and again until it returns false                 *)

AlignFill ==
  /\ pc = "align"
  /\ FindStartCode(0) = {}
  /\ Fill
  /\ UNCHANGED <<data, base, pc, nal_start, scan, out>>

\* The stream ended before any start code: return false.
AlignEof ==
  /\ pc = "align"
  /\ FindStartCode(0) = {}
  /\ AtEof
  /\ pc' = "ended"
  /\ UNCHANGED <<data, base, fetched, nal_start, scan, out>>

\* Drop what precedes the start code.
Align ==
  /\ pc = "align"
  /\ FindStartCode(0) # {}
  /\ LET pos == First(FindStartCode(0)) IN
       /\ base' = base + pos
       /\ nal_start' = StartCodeAt(pos)
       /\ scan' = StartCodeAt(pos)
  /\ pc' = "scan"
  /\ UNCHANGED <<data, fetched, out>>

\* Mutant: the search goes on at the old end of the buffer.
ResumeAtEnd == IF Size < nal_start THEN nal_start ELSE Size

\* A start code may straddle two chunks: step back three bytes, but not into
\* the start code at the front.
Resume == IF Size >= 3 /\ Size - 3 >= nal_start THEN Size - 3 ELSE nal_start

ScanFill ==
  /\ pc = "scan"
  /\ FindStartCode(scan) = {}
  /\ Fill
  /\ scan' = Resume
  /\ UNCHANGED <<data, base, pc, nal_start, out>>

\* The stream ended: the rest of the buffer is the last NAL unit.
ScanEof ==
  /\ pc = "scan"
  /\ FindStartCode(scan) = {}
  /\ AtEof
  /\ out' = IF Size > nal_start
              THEN Append(out, <<base + nal_start + 1, fetched>>) ELSE out
  /\ base' = fetched
  /\ pc' = "ended"
  /\ UNCHANGED <<data, fetched, nal_start, scan>>

\* Hand over the NAL unit, leave the next start code at the front, return true.
Emit ==
  /\ pc = "scan"
  /\ FindStartCode(scan) # {}
  /\ LET next_pos == First(FindStartCode(scan)) IN
       /\ out' = IF next_pos > nal_start
                   THEN Append(out, <<base + nal_start + 1, base + next_pos>>)
                   ELSE out
       /\ base' = base + next_pos
  /\ pc' = "align"
  /\ UNCHANGED <<data, fetched, nal_start, scan>>

\* The source has ended.
Ended == pc = "ended" /\ UNCHANGED vars

Next == AlignFill \/ AlignEof \/ Align \/ ScanFill \/ ScanEof \/ Emit \/ Ended

Spec == Init /\ [][Next]_vars

------------------------------------------------------------------------------
(* Properties                                                              *)

\* Every variable has its type, and the window lies inside the stream.
TypeOK ==
  /\ data \in Streams
  /\ fetched \in 0..Len(data)
  /\ base \in 0..fetched
  /\ pc \in {"align", "scan", "ended"}
  /\ nal_start \in {0, 3, 4}
  /\ scan \in Nat
  /\ out \in Seq((1..MaxLen) \X (1..MaxLen))

\* Positions of 0 0 1 in the whole stream: the start codes, by ITU-T H.264
\* Annex B, with no regard to buffers or chunks.
Codes ==
  {p \in 1..Len(data) : p + 2 <= Len(data) /\ data[p] = 0 /\ data[p+1] = 0
                        /\ data[p+2] = 1}

\* The NAL unit behind the code at p: up to the next code, a zero byte right in
\* front of that code being part of it, or up to the end of the stream.
NalBehind(p) ==
  LET later == {q \in Codes : q > p}
      q == First(later)
  IN <<p + 3, IF later = {} THEN Len(data)
              ELSE IF q - 1 >= p + 3 /\ data[q-1] = 0 THEN q - 2 ELSE q - 1>>

Reference == {r \in {NalBehind(p) : p \in Codes} : r[1] <= r[2]}

\* However the stream is cut into chunks, read_nal hands over only the NAL
\* units of the stream, each once and in order, and when it reports the end, it
\* has handed over every one of them.
EveryNalUnit ==
  /\ \A k \in 1..Len(out) :
       /\ out[k] \in Reference
       /\ k > 1 => out[k-1][2] < out[k][1]
  /\ pc = "ended" => Cardinality(Reference) = Len(out)
==============================================================================
