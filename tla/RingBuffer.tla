----------------------------- MODULE RingBuffer -----------------------------
(***************************************************************************)
(* muxd/ring_buffer.go: the circular buffer that keeps the recent output   *)
(* of a session, in the daemon and again in every server attached to it.   *)
(* Its mutex makes each method one step.                                   *)
(*                                                                         *)
(* A byte is identified by the value Seq() takes once it is written, so    *)
(* the byte at stream position p is the number p; 0 is a cell that was     *)
(* never written.                                                          *)
(***************************************************************************)
EXTENDS Integers, Sequences

CONSTANTS
  RingCap,   \* RingBuffer.capacity (1 MiB in the code)
  MaxSeq,    \* bound: bytes written and resets
  MaxChunk   \* bound: bytes of one Write

ASSUME RingAssumption ==
  RingCap \in Nat \ {0} /\ MaxSeq \in Nat /\ MaxChunk \in Nat \ {0}

VARIABLES
  data,      \* the cells, 0-based as in the code
  writePos,  \* where the next byte goes
  full,      \* the buffer has wrapped since the last Reset
  ringSeq    \* Seq(): the content-identity marker

ringVars == <<data, writePos, full, ringSeq>>

Cells == 0 .. RingCap - 1

RingTypeOK ==
  /\ data \in [Cells -> Nat]
  /\ writePos \in Cells /\ full \in BOOLEAN /\ ringSeq \in 0 .. MaxSeq

RingInit ==
  /\ data = [c \in Cells |-> 0]
  /\ writePos = 0 /\ full = FALSE /\ ringSeq = 0

\* Len: the valid bytes held.
Held == IF full THEN RingCap ELSE writePos

(***************************************************************************)
(* The writers.                                                            *)
(***************************************************************************)

\* Mutant: the second half of a wrapping copy starts at the wrong source byte.
Write_WrapsFromStart(n) ==
  LET remaining == RingCap - writePos
      newPos    == (writePos + n) % RingCap
  IN  /\ ringSeq + n <= MaxSeq
      /\ ringSeq' = ringSeq + n
      /\ data' = [c \in Cells |->
           IF c >= writePos /\ c < writePos + n THEN ringSeq + c - writePos + 1
           ELSE IF n > remaining /\ c < n - remaining THEN ringSeq + c + 1
           ELSE data[c]]
      /\ writePos' = newPos
      /\ full' = (full \/ writePos + n >= RingCap)

\* Mutant: a write that ends exactly at the last cell does not fill the buffer.
Write_ExactFill(n) ==
  /\ ringSeq + n <= MaxSeq
  /\ ringSeq' = ringSeq + n
  /\ data' = [c \in Cells |->
       IF (c - writePos) % RingCap < n
       THEN ringSeq + n - ((writePos + n - 1 - c) % RingCap) ELSE data[c]]
  /\ writePos' = (writePos + n) % RingCap
  /\ full' = (full \/ writePos + n > RingCap)

\* Write(p), n = len(p): the whole of a short write fits or wraps once; of a
\* write no shorter than the buffer only the last Cap bytes are kept.
Write(n) ==
  LET remaining == RingCap - writePos
      newPos    == (writePos + n) % RingCap
  IN  /\ ringSeq + n <= MaxSeq
      /\ ringSeq' = ringSeq + n
      /\ \/ /\ n >= RingCap
            /\ data' = [c \in Cells |-> ringSeq + n - RingCap + c + 1]
            /\ writePos' = 0 /\ full' = TRUE
         \/ /\ n < RingCap
            /\ data' = [c \in Cells |->
                 IF c >= writePos /\ c < writePos + n THEN ringSeq + c - writePos + 1
                 ELSE IF n > remaining /\ c < n - remaining THEN ringSeq + remaining + c + 1
                 ELSE data[c]]
            /\ writePos' = newPos
            /\ full' = (full \/ newPos < writePos \/ (newPos = 0 /\ writePos + n >= RingCap))

\* Reset: empties the buffer, and counts as a change of its contents.
Reset ==
  /\ ringSeq < MaxSeq
  /\ writePos' = 0 /\ full' = FALSE /\ ringSeq' = ringSeq + 1
  /\ UNCHANGED data

(***************************************************************************)
(* The readers.                                                            *)
(***************************************************************************)

\* readRawTailLocked: the last n bytes held, gathered from one or two runs of
\* cells.
RawTail(n) ==
  [i \in 1 .. n |->
     IF ~full \/ writePos >= n THEN data[writePos - n + i - 1]
     ELSE IF i <= n - writePos THEN data[RingCap + writePos - n + i - 1]
     ELSE data[i - 1 - (n - writePos)]]

\* Read: everything held, in chronological order.
ReadAll ==
  IF ~full THEN [i \in 1 .. writePos |-> data[i - 1]]
  ELSE [i \in 1 .. RingCap |->
          IF i <= RingCap - writePos THEN data[writePos + i - 1]
          ELSE data[i - 1 - (RingCap - writePos)]]

\* ReadFrom's answer, ok: position `from` is still held and not in the future.
ReadFromOk(from) == from >= ringSeq - Held /\ from <= ringSeq

\* ReadFrom's bytes, when it is ok.
ReadFrom(from) == RawTail(ringSeq - from)

RingNext ==
  \/ \E n \in 1 .. MaxChunk : Write(n)
  \/ Reset

RingSpec == RingInit /\ [][RingNext]_ringVars

(***************************************************************************)
(* Properties.                                                             *)
(***************************************************************************)

\* The stretch of the stream after position `from`, up to the present.
Stream(from) == [i \in 1 .. ringSeq - from |-> from + i]

\* ReadFrom never answers with a gap, an overlap or a byte of another lap: what
\* it hands back is exactly the stream between the asked position and Seq().
ReadFromExact == \A from \in 0 .. ringSeq : ReadFromOk(from) => ReadFrom(from) = Stream(from)

\* Why both hold: the cells behind the cursor hold the current lap of the
\* stream, and those at and after it the previous lap.
Laps ==
  /\ Held <= ringSeq
  /\ \A c \in 0 .. writePos - 1 : data[c] = ringSeq - writePos + c + 1
  /\ full => \A c \in writePos .. RingCap - 1 : data[c] = ringSeq - writePos - RingCap + c + 1

\* The circular array implements the promise made to its callers: each method
\* is one write of the abstract buffer, and no byte is given up a write early.
Recent == INSTANCE RecentBytes
            WITH Cap <- RingCap, MaxWrite <- MaxChunk, held <- ReadAll, seq <- ringSeq
KeepsRecentBytes == Recent!RecentSpec
=============================================================================
