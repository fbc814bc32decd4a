----------------------------- MODULE ServerProofs ----------------------------
(***************************************************************************)
(* Proofs about the parts of the server that MCServer joins: the ring, the *)
(* session's geometry, the ownership of its viewport, the list of sessions *)
(* and a server's view of it; and that every part of a behaviour of the    *)
(* composition keeps its types.                                            *)
(***************************************************************************)
EXTENDS MCServer, KeyframeProofs, FiniteSetTheorems, WellFoundedInduction

-----------------------------------------------------------------------------
(***************************************************************************)
(* The circular buffer is right for every capacity and every sequence of   *)
(* writes and resets.  The inductive invariant, Laps, says which lap of    *)
(* the stream each cell belongs to.                                        *)
(***************************************************************************)
\* The one use of %: where the cursor lands after a write that fits.
LEMMA CursorWraps ==
  ASSUME NEW c \in Nat \ {0}, NEW w \in 0 .. c - 1, NEW n \in 0 .. c - 1
  PROVE  (w + n) % c = IF w + n < c THEN w + n ELSE w + n - c
<1>1. CASE w + n < c
  BY <1>1, SMT
<1>2. CASE w + n >= c
  BY <1>2, SMT
<1> QED BY <1>1, <1>2

RingInv == RingTypeOK /\ Laps

LEMMA RingStarts == RingInit => RingInv
<1> SUFFICES ASSUME RingInit PROVE RingInv
  OBVIOUS
<1>1. /\ RingCap \in Nat \ {0} /\ MaxSeq \in Nat
      /\ data = [c \in 0 .. RingCap - 1 |-> 0] /\ writePos = 0 /\ full = FALSE /\ ringSeq = 0
  BY RingAssumption DEF RingInit, Cells
<1>2. RingTypeOK
  <2>1. data \in [0 .. RingCap - 1 -> Nat]
    <3>1. [c \in 0 .. RingCap - 1 |-> 0] \in [0 .. RingCap - 1 -> Nat]
      OBVIOUS
    <3> QED BY <1>1, <3>1, Zenon
  <2>2. 0 \in 0 .. RingCap - 1 /\ 0 \in 0 .. MaxSeq
    BY <1>1
  <2>3. writePos \in 0 .. RingCap - 1 /\ full \in BOOLEAN /\ ringSeq \in 0 .. MaxSeq
    BY <1>1, <2>2, Zenon
  <2> QED BY <2>1, <2>3 DEF RingTypeOK, Cells
<1>3. Held <= ringSeq
  BY <1>1 DEF Held
<1>4. \A c \in 0 .. writePos - 1 : data[c] = ringSeq - writePos + c + 1
  BY <1>1
<1> QED BY <1>1, <1>2, <1>3, <1>4 DEF RingInv, Laps

\* Where a write shorter than the buffer leaves the cursor, and when it fills it.
LEMMA ShortWriteCursor ==
  ASSUME RingInv, NEW n \in 1 .. MaxChunk, Write(n), n < RingCap
  PROVE  /\ writePos' = IF writePos + n < RingCap THEN writePos + n ELSE writePos + n - RingCap
         /\ full' = (full \/ writePos + n >= RingCap)
<1>0. /\ RingCap \in Nat \ {0} /\ n \in Nat \ {0} /\ n < RingCap
      /\ writePos \in 0 .. RingCap - 1 /\ full \in BOOLEAN
  BY RingAssumption DEF RingInv, RingTypeOK, Cells
<1>1. (writePos + n) % RingCap = IF writePos + n < RingCap THEN writePos + n ELSE writePos + n - RingCap
  <2>1. n \in 0 .. RingCap - 1
    BY <1>0
  <2> QED BY <1>0, <2>1, CursorWraps
<1>2. /\ writePos' = (writePos + n) % RingCap
      /\ full' = (full \/ (writePos + n) % RingCap < writePos
                       \/ ((writePos + n) % RingCap = 0 /\ writePos + n >= RingCap))
  BY <1>0 DEF Write
<1> DEFINE w == (writePos + n) % RingCap
<1>3. w = IF writePos + n < RingCap THEN writePos + n ELSE writePos + n - RingCap
  BY <1>1
<1>4. writePos' = w /\ full' = (full \/ w < writePos \/ (w = 0 /\ writePos + n >= RingCap))
  BY <1>2
<1> HIDE DEF w
<1> QED BY <1>0, <1>3, <1>4

\* A write shorter than the buffer.
LEMMA ShortWriteKeepsLaps ==
  ASSUME RingInv, NEW n \in 1 .. MaxChunk, Write(n), n < RingCap
  PROVE  RingInv'
<1>1. /\ RingCap \in Nat \ {0} /\ MaxSeq \in Nat /\ n \in Nat \ {0} /\ n < RingCap
      /\ writePos \in 0 .. RingCap - 1 /\ ringSeq \in Nat /\ full \in BOOLEAN
      /\ data \in [0 .. RingCap - 1 -> Nat]
  BY RingAssumption DEF RingInv, RingTypeOK, Cells
<1>2. ringSeq' = ringSeq + n /\ ringSeq' \in 0 .. MaxSeq
  BY <1>1 DEF Write
<1>3. data' = [c \in 0 .. RingCap - 1 |->
           IF c >= writePos /\ c < writePos + n THEN ringSeq + c - writePos + 1
           ELSE IF n > RingCap - writePos /\ c < n - (RingCap - writePos)
                THEN ringSeq + (RingCap - writePos) + c + 1
           ELSE data[c]]
  BY <1>1 DEF Write, Cells
<1>4. /\ writePos' = IF writePos + n < RingCap THEN writePos + n ELSE writePos + n - RingCap
      /\ full' = (full \/ writePos + n >= RingCap)
  BY ShortWriteCursor
<1>5. writePos' \in 0 .. RingCap - 1 /\ full' \in BOOLEAN
  BY <1>1, <1>4
<1>6. data' \in [0 .. RingCap - 1 -> Nat]
  <2>1. ASSUME NEW c \in 0 .. RingCap - 1
        PROVE  (IF c >= writePos /\ c < writePos + n THEN ringSeq + c - writePos + 1
                ELSE IF n > RingCap - writePos /\ c < n - (RingCap - writePos)
                     THEN ringSeq + (RingCap - writePos) + c + 1
                ELSE data[c]) \in Nat
    BY <1>1
  <2> QED BY <1>3, <2>1
<1>7. Held' <= ringSeq'
  BY <1>1, <1>2, <1>4 DEF RingInv, Laps, Held
<1>8. ASSUME NEW c \in 0 .. RingCap - 1, c < writePos'
      PROVE  data'[c] = ringSeq' - writePos' + c + 1
  <2>1. CASE c >= writePos /\ c < writePos + n
    <3>1. data'[c] = ringSeq + c - writePos + 1
      BY <1>3, <2>1
    <3>2. writePos' = writePos + n
      BY <1>1, <1>4, <1>8, <2>1
    <3> QED BY <1>1, <1>2, <3>1, <3>2
  <2>2. CASE c < writePos /\ n > RingCap - writePos /\ c < n - (RingCap - writePos)
    <3>1. data'[c] = ringSeq + (RingCap - writePos) + c + 1
      BY <1>1, <1>3, <2>2
    <3>2. writePos' = writePos + n - RingCap
      BY <1>1, <1>4, <2>2
    <3> QED BY <1>1, <1>2, <3>1, <3>2
  <2>3. CASE c < writePos /\ ~(n > RingCap - writePos /\ c < n - (RingCap - writePos))
    <3>1. data'[c] = data[c]
      BY <1>1, <1>3, <2>3
    <3>2. writePos' = writePos + n
      BY <1>1, <1>4, <1>8, <2>3
    <3>3. data[c] = ringSeq - writePos + c + 1
      BY <1>1, <2>3 DEF RingInv, Laps
    <3> QED BY <1>1, <1>2, <3>1, <3>2, <3>3
  <2>4. c < writePos + n
    BY <1>1, <1>4, <1>8
  <2> QED BY <1>1, <2>1, <2>2, <2>3, <2>4
<1>9. ASSUME full', NEW c \in 0 .. RingCap - 1, c >= writePos'
      PROVE  data'[c] = ringSeq' - writePos' - RingCap + c + 1
  <2>1. CASE writePos + n < RingCap
    <3>1. writePos' = writePos + n /\ full
      BY <1>1, <1>4, <1>9, <2>1
    <3>2. data'[c] = data[c]
      BY <1>1, <1>3, <1>9, <2>1, <3>1
    <3>3. data[c] = ringSeq - writePos - RingCap + c + 1
      BY <1>1, <1>9, <3>1 DEF RingInv, Laps
    <3> QED BY <1>1, <1>2, <3>1, <3>2, <3>3
  <2>2. CASE writePos + n >= RingCap /\ c >= writePos
    <3>1. data'[c] = ringSeq + c - writePos + 1
      BY <1>1, <1>3, <2>2
    <3>2. writePos' = writePos + n - RingCap
      BY <1>1, <1>4, <2>2
    <3> QED BY <1>1, <1>2, <3>1, <3>2
  <2>3. CASE writePos + n >= RingCap /\ c < writePos
    <3>1. writePos' = writePos + n - RingCap
      BY <1>1, <1>4, <2>3
    <3>2. data'[c] = data[c]
      BY <1>1, <1>3, <1>9, <2>3, <3>1
    <3>3. data[c] = ringSeq - writePos + c + 1
      BY <1>1, <2>3 DEF RingInv, Laps
    <3> QED BY <1>1, <1>2, <3>1, <3>2, <3>3
  <2> QED BY <1>1, <2>1, <2>2, <2>3
<1>10. RingTypeOK'
  BY <1>2, <1>5, <1>6 DEF RingTypeOK, Cells
<1>11. ASSUME NEW c \in 0 .. writePos' - 1
       PROVE  data'[c] = ringSeq' - writePos' + c + 1
  <2>1. writePos' \in Int /\ writePos' <= RingCap - 1 /\ RingCap \in Int
    BY <1>1, <1>5
  <2>2. \A w \in Int : \A i \in 0 .. w - 1 : w <= RingCap - 1 => i \in 0 .. RingCap - 1 /\ i < w
    BY <2>1
  <2>3. c \in 0 .. RingCap - 1 /\ c < writePos'
    BY <1>11, <2>1, <2>2, Zenon
  <2> QED BY <1>8, <2>3
<1>12. ASSUME full', NEW c \in writePos' .. RingCap - 1
       PROVE  data'[c] = ringSeq' - writePos' - RingCap + c + 1
  <2>1. c \in 0 .. RingCap - 1 /\ c >= writePos'
    BY <1>1, <1>5
  <2> QED BY <1>9, <1>12, <2>1
<1> QED BY <1>7, <1>10, <1>11, <1>12 DEF RingInv, Laps

LEMMA LongWriteKeepsLaps ==
  ASSUME RingInv, NEW n \in 1 .. MaxChunk, Write(n), n >= RingCap
  PROVE  RingInv'
<1>0. /\ RingCap \in Nat \ {0} /\ MaxSeq \in Nat /\ n \in Nat \ {0} /\ ringSeq \in Nat /\ n >= RingCap
  BY RingAssumption DEF RingInv, RingTypeOK
<1>1. /\ ringSeq' = ringSeq + n /\ ringSeq' <= MaxSeq /\ writePos' = 0 /\ full' = TRUE
      /\ data' = [c \in 0 .. RingCap - 1 |-> ringSeq + n - RingCap + c + 1]
  BY <1>0 DEF Write, Cells
<1>2. RingTypeOK'
  <2>1. \A c \in 0 .. RingCap - 1 : ringSeq + n - RingCap + c + 1 \in Nat
    BY <1>0
  <2>2. data' \in [0 .. RingCap - 1 -> Nat]
    BY <1>1, <2>1
  <2> QED BY <1>0, <1>1, <2>2 DEF RingTypeOK, Cells
<1>3. Held' <= ringSeq'
  BY <1>0, <1>1 DEF Held
<1>4. ASSUME NEW c \in writePos' .. RingCap - 1
      PROVE  data'[c] = ringSeq' - writePos' - RingCap + c + 1
  BY <1>0, <1>1
<1>5. ASSUME NEW c \in 0 .. writePos' - 1
      PROVE  data'[c] = ringSeq' - writePos' + c + 1
  BY <1>1
<1> QED BY <1>2, <1>3, <1>4, <1>5 DEF RingInv, Laps

LEMMA ResetKeepsLaps == RingInv /\ Reset => RingInv'
<1> SUFFICES ASSUME RingInv, Reset PROVE RingInv'
  OBVIOUS
<1>1. /\ RingCap \in Nat \ {0} /\ MaxSeq \in Nat /\ ringSeq \in 0 .. MaxSeq
      /\ data \in [0 .. RingCap - 1 -> Nat]
  BY RingAssumption DEF RingInv, RingTypeOK, Cells
<1>2. writePos' = 0 /\ full' = FALSE /\ ringSeq' = ringSeq + 1 /\ ringSeq < MaxSeq /\ data' = data
  BY DEF Reset
<1>3. RingTypeOK'
  <2>1. 0 \in 0 .. RingCap - 1 /\ ringSeq + 1 \in 0 .. MaxSeq
    BY <1>1, <1>2
  <2> QED BY <1>1, <1>2, <2>1, Zenon DEF RingTypeOK, Cells
<1>4. Held' <= ringSeq'
  BY <1>1, <1>2 DEF Held
<1>5. ASSUME NEW c \in 0 .. writePos' - 1
      PROVE  data'[c] = ringSeq' - writePos' + c + 1
  BY <1>2
<1> QED BY <1>2, <1>3, <1>4, <1>5 DEF RingInv, Laps

LEMMA LapsInductive == RingInv /\ [RingNext]_ringVars => RingInv'
<1> SUFFICES ASSUME RingInv, [RingNext]_ringVars PROVE RingInv'
  OBVIOUS
<1>1. ASSUME NEW n \in 1 .. MaxChunk, Write(n) PROVE RingInv'
  <2>1. n \in Nat /\ RingCap \in Nat
    BY RingAssumption
  <2> QED BY <1>1, <2>1, ShortWriteKeepsLaps, LongWriteKeepsLaps
<1>2. CASE Reset
  BY <1>2, ResetKeepsLaps
<1>3. CASE UNCHANGED ringVars
  BY <1>3 DEF RingInv, RingTypeOK, Laps, Held, ringVars
<1> QED BY <1>1, <1>2, <1>3 DEF RingNext

\* The last n bytes held are the last n of the stream.
LEMMA TailIsStream ==
  ASSUME RingInv, NEW n \in 0 .. Held
  PROVE  RawTail(n) = [i \in 1 .. n |-> ringSeq - n + i]
<1>0. /\ RingCap \in Nat \ {0} /\ writePos \in 0 .. RingCap - 1 /\ ringSeq \in Nat /\ full \in BOOLEAN
      /\ n \in Nat /\ n <= Held
  BY RingAssumption DEF RingInv, RingTypeOK, Cells, Held
<1> SUFFICES ASSUME NEW i \in 1 .. n
             PROVE  (IF ~full \/ writePos >= n THEN data[writePos - n + i - 1]
                     ELSE IF i <= n - writePos THEN data[RingCap + writePos - n + i - 1]
                     ELSE data[i - 1 - (n - writePos)]) = ringSeq - n + i
  BY DEF RawTail
<1>1. i \in Nat /\ i >= 1 /\ i <= n
  BY <1>0
<1>2. CASE ~full \/ writePos >= n
  <2>1. writePos - n + i - 1 \in 0 .. writePos - 1
    BY <1>0, <1>1, <1>2 DEF Held
  <2> QED BY <1>0, <1>1, <1>2, <2>1 DEF RingInv, Laps
<1>3. CASE full /\ writePos < n /\ i <= n - writePos
  <2>1. RingCap + writePos - n + i - 1 \in writePos .. RingCap - 1
    BY <1>0, <1>1, <1>3 DEF Held
  <2> QED BY <1>0, <1>1, <1>3, <2>1 DEF RingInv, Laps
<1>4. CASE full /\ writePos < n /\ i > n - writePos
  <2>1. i - 1 - (n - writePos) \in 0 .. writePos - 1
    BY <1>0, <1>1, <1>4
  <2> QED BY <1>0, <1>1, <1>4, <2>1 DEF RingInv, Laps
<1> QED BY <1>0, <1>1, <1>2, <1>3, <1>4

LEMMA ExactFromLaps == RingInv => ReadFromExact
<1> SUFFICES ASSUME RingInv, NEW seqFrom \in 0 .. ringSeq, ReadFromOk(seqFrom)
             PROVE  ReadFrom(seqFrom) = Stream(seqFrom)
  BY DEF ReadFromExact
<1>1. ringSeq \in Nat /\ seqFrom \in Nat /\ Held \in Nat /\ ringSeq - seqFrom \in 0 .. Held
  BY RingAssumption DEF RingInv, RingTypeOK, Cells, Held, ReadFromOk
<1>2. RawTail(ringSeq - seqFrom) = [i \in 1 .. ringSeq - seqFrom |-> ringSeq - (ringSeq - seqFrom) + i]
  BY <1>1, TailIsStream
<1>3. \A i \in 1 .. ringSeq - seqFrom : ringSeq - (ringSeq - seqFrom) + i = seqFrom + i
  BY <1>1
<1> QED BY <1>2, <1>3 DEF ReadFrom, Stream

\* The cells always hold the laps of the stream they should, and the marker is
\* never behind what is held (ring_buffer.go: Write, Reset).
THEOREM RingTypeCorrect == RingSpec => []RingTypeOK
<1>1. RingInv => RingTypeOK
  BY DEF RingInv
<1> QED BY <1>1, RingStarts, LapsInductive, PTL DEF RingSpec

\* A reader that keeps its own place by Seq() gets everything since, with no gap
\* and no overlap, or is told that it cannot (ring_buffer.go: ReadFrom).
THEOREM ReadFromIsExact == RingSpec => []ReadFromExact
  BY RingStarts, LapsInductive, ExactFromLaps, PTL DEF RingSpec

(***************************************************************************)
(* The refinement.                                                         *)
(***************************************************************************)

\* The k stream positions that end at t, as a sequence.
Run(t, k) == [i \in 1 .. k |-> t - k + i]

LEMMA RunIsSeq ==
  ASSUME NEW t \in Nat, NEW k \in Nat, k <= t
  PROVE  Run(t, k) \in Seq(Nat) /\ Len(Run(t, k)) = k
<1>1. \A i \in 1 .. k : t - k + i \in Nat
  OBVIOUS
<1> QED BY <1>1 DEF Run

LEMMA RunsJoin ==
  ASSUME NEW t \in Nat, NEW k \in Nat, k <= t, NEW n \in Nat
  PROVE  Run(t, k) \o Run(t + n, n) = Run(t + n, k + n)
<1>1. /\ Run(t, k) \in Seq(Nat) /\ Len(Run(t, k)) = k
      /\ Run(t + n, n) \in Seq(Nat) /\ Len(Run(t + n, n)) = n
      /\ Run(t + n, k + n) \in Seq(Nat) /\ Len(Run(t + n, k + n)) = k + n
  BY RunIsSeq
<1>2. ASSUME NEW i \in 1 .. k + n
      PROVE  (Run(t, k) \o Run(t + n, n))[i] = Run(t + n, k + n)[i]
  BY <1>1 DEF Run
<1>3. Run(t, k) \o Run(t + n, n) \in Seq(Nat) /\ Len(Run(t, k) \o Run(t + n, n)) = k + n
  BY <1>1, ConcatProperties
<1> QED BY <1>1, <1>2, <1>3, SeqEqual

LEMMA LastOfRun ==
  ASSUME NEW t \in Nat, NEW k \in Nat, k <= t, NEW c \in Nat, k > c
  PROVE  SubSeq(Run(t, k), k - c + 1, k) = Run(t, c)
<1>1. /\ Run(t, k) \in Seq(Nat) /\ Len(Run(t, k)) = k
      /\ Run(t, c) \in Seq(Nat) /\ Len(Run(t, c)) = c
  BY RunIsSeq
<1>2. /\ SubSeq(Run(t, k), k - c + 1, k) \in Seq(Nat)
      /\ Len(SubSeq(Run(t, k), k - c + 1, k)) = c
  BY <1>1
<1>3. ASSUME NEW i \in 1 .. c
      PROVE  SubSeq(Run(t, k), k - c + 1, k)[i] = Run(t, c)[i]
  BY <1>1 DEF Run
<1> QED BY <1>1, <1>2, <1>3, SeqEqual

\* Read returns the held end of the stream.
LEMMA ReadAllIsRun == RingInv => ReadAll = Run(ringSeq, Held)
<1> SUFFICES ASSUME RingInv PROVE ReadAll = Run(ringSeq, Held)
  OBVIOUS
<1>1. /\ RingCap \in Nat \ {0} /\ writePos \in 0 .. RingCap - 1 /\ ringSeq \in Nat /\ full \in BOOLEAN
  BY RingAssumption DEF RingInv, RingTypeOK, Cells
<1>2. CASE ~full
  <2>1. ASSUME NEW i \in 1 .. writePos PROVE data[i - 1] = ringSeq - writePos + i
    <3>1. i - 1 \in 0 .. writePos - 1 /\ i \in Int
      BY <1>1
    <3> QED BY <1>1, <3>1 DEF RingInv, Laps
  <2> QED BY <1>1, <1>2, <2>1 DEF ReadAll, Run, Held
<1>3. CASE full
  <2>1. ASSUME NEW i \in 1 .. RingCap, i <= RingCap - writePos
        PROVE  data[writePos + i - 1] = ringSeq - RingCap + i
    <3>1. writePos + i - 1 \in writePos .. RingCap - 1 /\ i \in Int
      BY <1>1, <2>1
    <3> QED BY <1>1, <1>3, <3>1 DEF RingInv, Laps
  <2>2. ASSUME NEW i \in 1 .. RingCap, i > RingCap - writePos
        PROVE  data[i - 1 - (RingCap - writePos)] = ringSeq - RingCap + i
    <3>1. i - 1 - (RingCap - writePos) \in 0 .. writePos - 1 /\ i \in Int
      BY <1>1, <2>2
    <3> QED BY <1>1, <3>1 DEF RingInv, Laps
  <2>3. ASSUME NEW i \in 1 .. RingCap
        PROVE  (IF i <= RingCap - writePos THEN data[writePos + i - 1]
                ELSE data[i - 1 - (RingCap - writePos)]) = ringSeq - RingCap + i
    <3>1. i \in Int /\ RingCap - writePos \in Int
      BY <1>1
    <3> QED BY <2>1, <2>2, <3>1
  <2>4. Held = RingCap
    BY <1>3 DEF Held
  <2> QED BY <1>3, <2>3, <2>4 DEF ReadAll, Run
<1> QED BY <1>1, <1>2, <1>3

\* How much a write leaves held.
LEMMA HeldGrows ==
  ASSUME RingInv, NEW n \in 1 .. MaxChunk, Write(n)
  PROVE  Held' = IF Held + n <= RingCap THEN Held + n ELSE RingCap
<1>1. /\ RingCap \in Nat \ {0} /\ n \in Nat \ {0}
      /\ writePos \in 0 .. RingCap - 1 /\ full \in BOOLEAN
  BY RingAssumption DEF RingInv, RingTypeOK, Cells
<1>2. CASE n >= RingCap
  <2>1. full' = TRUE
    BY <1>1, <1>2 DEF Write
  <2> QED BY <1>1, <1>2, <2>1 DEF Held
<1>3. CASE n < RingCap
  <2>1. /\ writePos' = IF writePos + n < RingCap THEN writePos + n ELSE writePos + n - RingCap
        /\ full' = (full \/ writePos + n >= RingCap)
    BY <1>3, ShortWriteCursor
  <2>2. CASE full
    <3>1. full' /\ Held = RingCap
      BY <2>1, <2>2 DEF Held
    <3> QED BY <1>1, <3>1 DEF Held
  <2>3. CASE ~full /\ writePos + n >= RingCap
    <3>1. full' /\ Held = writePos
      BY <2>1, <2>3 DEF Held
    <3> QED BY <1>1, <2>3, <3>1 DEF Held
  <2>4. CASE ~full /\ writePos + n < RingCap
    <3>1. ~full' /\ writePos' = writePos + n /\ Held = writePos
      BY <1>1, <2>1, <2>4 DEF Held
    <3> QED BY <1>1, <2>4, <3>1 DEF Held
  <2> QED BY <1>1, <2>2, <2>3, <2>4
<1> QED BY <1>1, <1>2, <1>3

LEMMA WriteImplements ==
  ASSUME RingInv, RingInv', NEW n \in 1 .. MaxChunk, Write(n)
  PROVE  Recent!WriteBytes(Recent!NextBytes(n))
<1> DEFINE h == Held
<1>1. /\ RingCap \in Nat \ {0} /\ n \in Nat \ {0} /\ ringSeq \in Nat /\ h \in Nat /\ h <= ringSeq
      /\ h <= RingCap
  BY RingAssumption DEF RingInv, RingTypeOK, Laps, Cells, Held
<1>2. ReadAll = Run(ringSeq, h) /\ ReadAll' = Run(ringSeq', Held')
  <2>1. (RingInv => ReadAll = Run(ringSeq, Held))'
    BY ReadAllIsRun, PTL
  <2> QED BY ReadAllIsRun, <2>1 DEF Run
<1>3. ringSeq' = ringSeq + n
  BY <1>1 DEF Write
<1>4. Held' = IF h + n <= RingCap THEN h + n ELSE RingCap
  BY HeldGrows
<1>5. Recent!NextBytes(n) = Run(ringSeq + n, n)
  BY <1>1 DEF Recent!NextBytes, Run
<1> HIDE DEF h
<1>6. Run(ringSeq, h) \o Run(ringSeq + n, n) = Run(ringSeq + n, h + n)
  BY <1>1, RunsJoin
<1>7. Len(Run(ringSeq + n, h + n)) = h + n /\ Len(Run(ringSeq + n, n)) = n
  BY <1>1, RunIsSeq
<1>8. ReadAll' = Recent!LastBytes(Run(ringSeq + n, h + n))
  <2>1. CASE h + n <= RingCap
    BY <1>1, <1>2, <1>3, <1>4, <1>7, <2>1 DEF Recent!LastBytes
  <2>2. CASE h + n > RingCap
    <3>1. SubSeq(Run(ringSeq + n, h + n), h + n - RingCap + 1, h + n) = Run(ringSeq + n, RingCap)
      BY <1>1, <2>2, LastOfRun
    <3>2. Recent!LastBytes(Run(ringSeq + n, h + n))
            = SubSeq(Run(ringSeq + n, h + n), h + n - RingCap + 1, h + n)
      <4>1. ~(h + n <= RingCap)
        BY <1>1, <2>2
      <4> DEFINE R == Run(ringSeq + n, h + n)
      <4>2. Len(R) = h + n
        BY <1>7
      <4> HIDE DEF R
      <4>3. Recent!LastBytes(R) = SubSeq(R, h + n - RingCap + 1, h + n)
        BY <1>1, <4>1, <4>2 DEF Recent!LastBytes
      <4> QED BY <4>3 DEF R
    <3>3. Held' = RingCap
      BY <1>1, <1>4, <2>2
    <3> QED BY <1>2, <1>3, <3>1, <3>2, <3>3
  <2> QED BY <1>1, <2>1, <2>2
<1> QED BY <1>2, <1>3, <1>5, <1>6, <1>7, <1>8 DEF Recent!WriteBytes

\* To its callers the circular array is the plain "last Cap bytes" it promises to
\* be, with a marker that moves on every change (ring_buffer.go).
THEOREM RingKeepsRecentBytes == RingSpec => KeepsRecentBytes
<1>1. RingInit => Recent!RecentInit
  <2> SUFFICES ASSUME RingInit PROVE ReadAll = <<>> /\ ringSeq = 0
    BY DEF Recent!RecentInit
  <2>1. ReadAll = [i \in 1 .. 0 |-> data[i - 1]]
    BY DEF RingInit, ReadAll
  <2> QED BY <2>1 DEF RingInit
<1>2. RingInv /\ RingInv' /\ [RingNext]_ringVars => [Recent!RecentNext]_(Recent!recentVars)
  <2> SUFFICES ASSUME RingInv, RingInv', [RingNext]_ringVars
               PROVE  Recent!RecentNext \/ UNCHANGED Recent!recentVars
    OBVIOUS
  <2>1. ASSUME NEW n \in 1 .. MaxChunk, Write(n) PROVE Recent!RecentNext
    BY <2>1, WriteImplements DEF Recent!RecentNext
  <2>2. CASE Reset
    <3>1. ReadAll' = [i \in 1 .. 0 |-> data'[i - 1]]
      BY <2>2 DEF Reset, ReadAll
    <3> QED BY <2>2, <3>1 DEF Reset, Recent!RecentNext, Recent!ResetBytes
  <2>3. CASE UNCHANGED ringVars
    BY <2>3 DEF ringVars, ReadAll, Recent!recentVars
  <2> QED BY <2>1, <2>2, <2>3 DEF RingNext
<1>3. RingSpec => []RingInv
  BY RingStarts, LapsInductive, PTL DEF RingSpec
<1> QED BY <1>1, <1>2, <1>3, PTL DEF RingSpec, KeepsRecentBytes, Recent!RecentSpec
-----------------------------------------------------------------------------
(***************************************************************************)
(* For any number of clients, any windows and any capacity of their        *)
(* channels: the session's size is the largest grid that fits in all       *)
(* windows, a client whose requests are served ends up on that grid, and   *)
(* those who only look move nothing.                                       *)
(***************************************************************************)
\* A set of numbers has a smallest.
LEMMA MinOfNat ==
  ASSUME NEW T, T \subseteq Nat, T # {}
  PROVE  Min(T) \in T /\ \A y \in T : Min(T) <= y
<1>1. PICK x \in T : \A y \in T : <<y, x>> \notin OpToRel(<, Nat)
  BY NatLessThanWellFounded, WFMin, Zenon
<1>2. \A y \in T : ~(y < x)
  BY <1>1, Zenon DEF OpToRel
<1>3. \A y \in T : x <= y
  BY <1>2
<1> QED  BY <1>3 DEF Min

\* Taking the head leaves the last element last, or was taking it.
LEMMA TailEnds ==
  ASSUME NEW S, NEW q \in Seq(S), q # <<>>
  PROVE  /\ Head(q) \in S /\ Tail(q) \in Seq(S) /\ Len(Tail(q)) = Len(q) - 1
         /\ (Tail(q) # <<>> => Tail(q)[Len(Tail(q))] = q[Len(q)])
         /\ (Tail(q) = <<>> => Head(q) = q[Len(q)])
<1> DEFINE t == Tail(q)
<1>1. /\ Head(q) \in S /\ t \in Seq(S) /\ Len(t) = Len(q) - 1 /\ Len(q) \in Nat /\ Head(q) = q[1]
      /\ \A i \in 1 .. Len(t) : t[i] = q[i + 1]
  BY HeadTailProperties
<1> HIDE DEF t
<1>2. t # <<>> => t[Len(t)] = q[Len(q)]
  <2>1. t # <<>> => Len(t) \in 1 .. Len(t)  BY <1>1
  <2>2. Len(t) + 1 = Len(q)  BY <1>1
  <2> QED  BY <1>1, <2>1, <2>2
<1>3. t = <<>> => Head(q) = q[Len(q)]
  <2>1. t = <<>> => Len(t) = 0  OBVIOUS
  <2>2. Len(t) = 0 => Len(q) = 1  BY <1>1
  <2> QED  BY <1>1, <2>1, <2>2
<1> QED  BY <1>1, <1>2, <1>3 DEF t

-----------------------------------------------------------------------------
(***************************************************************************)
(* Sizes.                                                                  *)
(***************************************************************************)

\* Smallest is the largest grid that fits in all of gs.
LEMMA SmallestFits ==
  ASSUME NEW gs, gs \subseteq Sizes, gs # {}
  PROVE  /\ Smallest(gs) \in Sizes
         /\ \A g \in gs : Smallest(gs).cols <= g.cols /\ Smallest(gs).rows <= g.rows
         /\ \E g \in gs : Smallest(gs).cols = g.cols
         /\ \E g \in gs : Smallest(gs).rows = g.rows
<1> DEFINE C == {g.cols : g \in gs}
           R == {g.rows : g \in gs}
<1>1. C \subseteq Nat \ {0} /\ C # {} /\ R \subseteq Nat \ {0} /\ R # {}  BY DEF Sizes
<1>2. Min(C) \in C /\ \A y \in C : Min(C) <= y  BY <1>1, MinOfNat
<1>3. Min(R) \in R /\ \A y \in R : Min(R) <= y  BY <1>1, MinOfNat
<1>4. Smallest(gs) = [cols |-> Min(C), rows |-> Min(R)]  BY DEF Smallest
<1> HIDE DEF C, R
<1>5. Smallest(gs) \in Sizes
  <2>1. Min(C) \in Nat \ {0} /\ Min(R) \in Nat \ {0}  BY <1>1, <1>2, <1>3, Zenon
  <2>2. \A c, r \in Nat \ {0} : [cols |-> c, rows |-> r] \in Sizes  BY DEF Sizes
  <2> QED  BY <1>4, <2>1, <2>2, Zenon
<1>6. Smallest(gs).cols = Min(C) /\ Smallest(gs).rows = Min(R)  BY <1>4
<1> QED  BY <1>2, <1>3, <1>5, <1>6 DEF C, R

\* A declaration is a real size.
LEMMA DeclaredSizes ==
  ASSUME NEW w, \A c \in DOMAIN w : w[c] \in Grids
  PROVE  Declared(w) \subseteq Sizes
BY GeometryAssumption DEF Declared, Attached, Grids, Sizes

\* The effective size is a size, and settled.
LEMMA EffectiveSettles ==
  ASSUME NEW w, \A c \in DOMAIN w : w[c] \in Grids, NEW m \in Grids, NEW s \in Sizes
  PROVE  /\ Effective(w, m, s) \in Sizes
         /\ Effective(w, m, Effective(w, m, s)) = Effective(w, m, s)
<1>1. CASE Declared(w) # {}
  BY <1>1, DeclaredSizes, SmallestFits DEF Effective
<1>2. CASE Declared(w) = {}
  <2>1. m # NoGrid => m \in Sizes  BY GeometryAssumption DEF Grids, Sizes
  <2> QED  BY <1>2, <2>1 DEF Effective
<1> QED  BY <1>1, <1>2

\* What was pushed last is last, whatever the channel gave up for it.
LEMMA PushTells ==
  ASSUME NEW q \in Seq(Sizes), Len(q) <= NoticeCap, NEW g \in Sizes
  PROVE  /\ Push(q, g) \in Seq(Sizes) /\ Len(Push(q, g)) <= NoticeCap
         /\ Push(q, g) # <<>> /\ Push(q, g)[Len(Push(q, g))] = g
<1>1. NoticeCap \in Nat \ {0}  BY GeometryAssumption
<1>2. CASE Len(q) < NoticeCap
  BY <1>1, <1>2, AppendProperties DEF Push, PushNewestOnFull
<1>3. CASE ~(Len(q) < NoticeCap)
  <2>1. q # <<>>  BY <1>1, <1>3
  <2>2. Tail(q) \in Seq(Sizes) /\ Len(Tail(q)) = Len(q) - 1  BY <2>1, HeadTailProperties
  <2>3. Push(q, g) = Append(Tail(q), g)  BY <1>3 DEF Push, PushNewestOnFull
  <2> QED  BY <1>1, <2>2, <2>3, AppendProperties
<1> QED  BY <1>2, <1>3

\* Notices as the channels may hold them.
Notices == {ns \in [Clients -> Seq(Sizes)] : \A c \in Clients : Len(ns[c]) <= NoticeCap}

LEMMA Emptied ==
  ASSUME NEW ns \in Notices, NEW c \in Clients
  PROVE  [ns EXCEPT ![c] = <<>>] \in Notices
<1>1. <<>> \in Seq(Sizes) /\ Len(<<>>) = 0 /\ NoticeCap \in Nat  BY GeometryAssumption
<1> QED  BY <1>1 DEF Notices

\* ApplySize, its two results as values.
Out(w, m, s, ns) ==
  IF Effective(w, m, s) = s THEN ns ELSE Broadcast(ns, w, Effective(w, m, s))

\* q, read to its end by a client that shows s, leaves it on g.
EndsOn(q, s, g) == (IF q = <<>> THEN s ELSE q[Len(q)]) = g

\* Applying a size settles it, and leaves everyone attached on it who was on
\* the size before.
LEMMA Applied ==
  ASSUME NEW w, DOMAIN w \subseteq Clients, \A c \in DOMAIN w : w[c] \in Grids,
         NEW m \in Grids, NEW s \in Sizes, NEW ns \in Notices
  PROVE  /\ Effective(w, m, s) \in Sizes
         /\ Effective(w, m, Effective(w, m, s)) = Effective(w, m, s)
         /\ Out(w, m, s, ns) \in Notices
         /\ \A c \in DOMAIN w : \A h :
              EndsOn(ns[c], h, s) \/ Effective(w, m, s) # s
                => EndsOn(Out(w, m, s, ns)[c], h, Effective(w, m, s))
<1> DEFINE next == Effective(w, m, s)
<1>1. next \in Sizes /\ Effective(w, m, next) = next  BY EffectiveSettles
<1>2. CASE next = s
  BY <1>1, <1>2 DEF Out
<1>3. CASE next # s
  <2>1. Out(w, m, s, ns) = [c \in Clients |-> IF c \in DOMAIN w THEN Push(ns[c], next) ELSE ns[c]]
    BY <1>3 DEF Out, Broadcast, Attached
  <2>2. \A c \in Clients :
          /\ Push(ns[c], next) \in Seq(Sizes) /\ Len(Push(ns[c], next)) <= NoticeCap
          /\ Push(ns[c], next) # <<>> /\ Push(ns[c], next)[Len(Push(ns[c], next))] = next
    BY <1>1, PushTells DEF Notices
  <2> HIDE DEF next
  <2>3. Out(w, m, s, ns) \in Notices  BY <2>1, <2>2 DEF Notices
  <2>4. \A c \in DOMAIN w : \A h : EndsOn(Out(w, m, s, ns)[c], h, next)
    BY <2>1, <2>2 DEF EndsOn
  <2> QED  BY <1>1, <2>3, <2>4 DEF next
<1> QED  BY <1>2, <1>3

-----------------------------------------------------------------------------
(***************************************************************************)
(* The invariant.                                                          *)
(***************************************************************************)

\* While the shell runs nothing is left to apply.
NoticesEnd ==
  IF alive THEN size = Effective(window, manual, size) ELSE DOMAIN window = {}

\* A client is headed for the session's grid, or has no news and is headed for
\* what it asked last.  KnowsItsGrid alone is not inductive: serving a request
\* that is met sends nothing, and relies on what the client did when it asked.
Headed(c) ==
  \/ EndsOn(notices[c], shown[c], size)
  \/ notices[c] = <<>> /\ asks[c] # <<>> /\ shown[c] = asks[c][Len(asks[c])]

IInv == TypeOK /\ NoticesEnd /\ \A c \in DOMAIN window : Headed(c)

LEMMA InitHolds == Init => IInv
<1> SUFFICES ASSUME Init PROVE IInv  OBVIOUS
<1>1. DOMAIN window = {}  BY DEF Init
<1>2. size \in Sizes  BY GeometryAssumption DEF Init, Sizes
<1>3. TypeOK
  BY <1>1, <1>2, GeometryAssumption DEF Init, TypeOK, Grids
<1>4. Declared(window) = {}  BY <1>1 DEF Declared, Attached
<1>5. NoticesEnd  BY <1>1, <1>4 DEF Init, NoticesEnd, Effective
<1> QED  BY <1>1, <1>3, <1>5 DEF IInv

\* After any action that ends by applying the size: who was headed for the
\* session's grid is headed for its new one.
LEMMA ApplyKeeps ==
  ASSUME TypeOK, NoticesEnd,
         DOMAIN window' \subseteq Clients, \A c \in DOMAIN window' : window'[c] \in Grids,
         manual' \in Grids,
         NEW ns \in Notices, ApplySize(window', manual', ns), alive' = alive, alive,
         asks' \in [Clients -> Seq(Grids)],
         shown' \in [Clients -> Sizes \cup {NoGrid}],
         \A c \in DOMAIN window' : size' = size =>
           \/ EndsOn(ns[c], shown'[c], size)
           \/ ns[c] = <<>> /\ asks'[c] # <<>> /\ shown'[c] = asks'[c][Len(asks'[c])]
  PROVE  IInv'
<1>1. size \in Sizes /\ alive \in BOOLEAN  BY DEF TypeOK
<1>2. size' = Effective(window', manual', size) /\ notices' = Out(window', manual', size, ns)
  BY DEF ApplySize, Out
<1>3. /\ size' \in Sizes /\ Effective(window', manual', size') = size'
      /\ notices' \in Notices
      /\ \A c \in DOMAIN window' : \A h :
           EndsOn(ns[c], h, size) \/ size' # size => EndsOn(notices'[c], h, size')
  BY <1>1, <1>2, Applied
<1>4. TypeOK'  BY <1>1, <1>3 DEF TypeOK, Notices
<1>5. NoticesEnd'  BY <1>3 DEF NoticesEnd
<1>6. size' = size => notices' = ns  BY <1>2 DEF Out
<1>7. ASSUME NEW c \in DOMAIN window' PROVE Headed(c)'
  <2>1. CASE size' # size  BY <1>3, <2>1 DEF Headed
  <2>2. CASE size' = size  BY <1>3, <1>6, <2>2 DEF Headed
  <2> QED  BY <2>1, <2>2
<1> QED  BY <1>4, <1>5, <1>7 DEF IInv

\* Serving a request.
LEMMA SetAttachSizeKeeps ==
  ASSUME IInv, NEW c \in Clients, SetAttachSize(c)
  PROVE  IInv'
<1> DEFINE newGrid == Head(asks[c])
<1>1. TypeOK /\ NoticesEnd /\ \A d \in DOMAIN window : Headed(d)  BY DEF IInv
<1>2. c \in DOMAIN window /\ asks[c] # <<>> /\ asks[c] \in Seq(Grids) /\ alive
  BY <1>1 DEF SetAttachSize, Attached, TypeOK, NoticesEnd
<1>3. newGrid \in Grids /\ Tail(asks[c]) \in Seq(Grids) /\ Len(Tail(asks[c])) = Len(asks[c]) - 1
      /\ (Tail(asks[c]) # <<>> => Tail(asks[c])[Len(Tail(asks[c]))] = asks[c][Len(asks[c])])
      /\ (Tail(asks[c]) = <<>> => newGrid = asks[c][Len(asks[c])])
  BY <1>2, TailEnds
<1>4. /\ asks' = [asks EXCEPT ![c] = Tail(@)] /\ window' = With(window, c, newGrid)
      /\ UNCHANGED <<alive, manual, shown>>
  BY DEF SetAttachSize
<1> HIDE DEF newGrid
<1>5. /\ DOMAIN window' = DOMAIN window /\ \A d \in DOMAIN window' : window'[d] \in Grids
      /\ DOMAIN window \subseteq Clients
  BY <1>1, <1>2, <1>3, <1>4 DEF With, Attached, TypeOK
<1>6. asks' \in [Clients -> Seq(Grids)]  BY <1>1, <1>3, <1>4 DEF TypeOK
<1>7. notices \in Notices /\ size \in Sizes  BY <1>1 DEF TypeOK, Notices
<1>8. CASE Effective(window', manual, size) = size /\ size # newGrid
  <2>1. size' = size /\ notices' = [notices EXCEPT ![c] = Push(@, size)]
    BY <1>4, <1>8 DEF SetAttachSize, newGrid
  <2>2. /\ Push(notices[c], size) \in Seq(Sizes) /\ Len(Push(notices[c], size)) <= NoticeCap
        /\ EndsOn(Push(notices[c], size), shown[c], size)
    BY <1>7, PushTells DEF Notices, EndsOn
  <2>3. TypeOK'  BY <1>1, <1>4, <1>5, <1>6, <2>1, <2>2 DEF TypeOK
  <2>4. NoticesEnd'  BY <1>2, <1>4, <1>8, <2>1 DEF NoticesEnd
  <2>5. ASSUME NEW d \in DOMAIN window' PROVE Headed(d)'
    <3>1. CASE d = c
      BY <1>4, <1>5, <1>7, <2>1, <2>2, <3>1 DEF Headed, Notices
    <3>2. CASE d # c
      <4>1. notices'[d] = notices[d] /\ asks'[d] = asks[d]
        BY <1>4, <1>5, <1>7, <2>1, <3>2, <1>1 DEF Notices, TypeOK
      <4> QED  BY <1>1, <1>4, <1>5, <2>1, <4>1 DEF Headed
    <3> QED  BY <3>1, <3>2
  <2> QED  BY <2>3, <2>4, <2>5 DEF IInv
<1>9. CASE ~(Effective(window', manual, size) = size /\ size # newGrid)
  <2>1. ApplySize(window', manual', notices)
    BY <1>4, <1>9 DEF SetAttachSize, newGrid
  <2>2. ASSUME NEW d \in DOMAIN window', size' = size
        PROVE  \/ EndsOn(notices[d], shown'[d], size)
               \/ notices[d] = <<>> /\ asks'[d] # <<>> /\ shown'[d] = asks'[d][Len(asks'[d])]
    <3>1. Headed(d)  BY <1>1, <1>5
    <3>2. CASE d # c
      <4>1. asks'[d] = asks[d]  BY <1>1, <1>4, <3>2 DEF TypeOK
      <4> QED  BY <1>4, <3>1, <4>1 DEF Headed
    <3>3. CASE d = c
      <4>1. asks'[d] = Tail(asks[c])  BY <1>1, <1>2, <1>4, <1>5, <3>3 DEF TypeOK
      <4>2. size = newGrid  BY <1>4, <1>9, <2>1, <2>2 DEF ApplySize
      <4>3. CASE Tail(asks[c]) = <<>>
        BY <1>3, <1>4, <3>1, <3>3, <4>2, <4>3 DEF Headed, EndsOn
      <4>4. CASE Tail(asks[c]) # <<>>
        BY <1>3, <1>4, <3>1, <3>3, <4>1, <4>4 DEF Headed
      <4> QED  BY <4>3, <4>4
    <3> QED  BY <3>2, <3>3
  <2>3. manual' \in Grids /\ shown' \in [Clients -> Sizes \cup {NoGrid}]
    BY <1>1, <1>4 DEF TypeOK
  <2> QED
    BY <1>1, <1>2, <1>4, <1>5, <1>6, <1>7, <2>1, <2>2, <2>3, ApplyKeeps
<1> QED  BY <1>8, <1>9

\* A client coming, leaving, and the manual size.
LEMMA ClientAttachKeeps ==
  ASSUME IInv, NEW c \in Clients, NEW g \in Grids, Attach(c, g)
  PROVE  IInv'
<1> DEFINE ns == [notices EXCEPT ![c] = <<>>]
<1>1. TypeOK /\ NoticesEnd /\ \A d \in DOMAIN window : Headed(d)  BY DEF IInv
<1>2. /\ alive /\ window' = With(window, c, g) /\ ApplySize(window', manual, ns)
      /\ shown' = [shown EXCEPT ![c] = size'] /\ UNCHANGED <<alive, manual, asks>>
  BY DEF Attach
<1>3. ns \in Notices
  <2>1. notices \in Notices  BY <1>1 DEF TypeOK, Notices
  <2> QED  BY <2>1, Emptied
<1>4. /\ DOMAIN window' \subseteq Clients /\ \A d \in DOMAIN window' : window'[d] \in Grids
      /\ \A d \in DOMAIN window' : d # c => d \in DOMAIN window
  BY <1>1, <1>2 DEF TypeOK, With, Attached
<1>5. size \in Sizes /\ manual \in Grids  BY <1>1 DEF TypeOK
<1>6. size' \in Sizes  BY <1>2, <1>4, <1>5, EffectiveSettles DEF ApplySize
<1>7. shown' \in [Clients -> Sizes \cup {NoGrid}] /\ shown'[c] = size'  BY <1>1, <1>2, <1>6 DEF TypeOK
<1>8. ASSUME NEW d \in DOMAIN window', size' = size
      PROVE  \/ EndsOn(ns[d], shown'[d], size)
             \/ ns[d] = <<>> /\ asks'[d] # <<>> /\ shown'[d] = asks'[d][Len(asks'[d])]
  <2>1. CASE d = c
    <3>1. ns[d] = <<>>  BY <1>1, <2>1 DEF TypeOK
    <3> QED  BY <1>7, <1>8, <2>1, <3>1 DEF EndsOn
  <2>2. CASE d # c
    <3>1. Headed(d)  BY <1>1, <1>4, <2>2
    <3>2. ns[d] = notices[d] /\ shown'[d] = shown[d]  BY <1>1, <1>2, <1>4, <2>2 DEF TypeOK
    <3> QED  BY <1>2, <3>1, <3>2 DEF Headed
  <2> QED  BY <2>1, <2>2
<1> HIDE DEF ns
<1>9. asks' \in [Clients -> Seq(Grids)] /\ manual' \in Grids /\ ApplySize(window', manual', ns)
  BY <1>1, <1>2 DEF TypeOK
<1> QED
  BY <1>1, <1>2, <1>3, <1>4, <1>7, <1>8, <1>9, ApplyKeeps

LEMMA DetachKeeps ==
  ASSUME IInv, NEW c \in Clients, Detach(c)
  PROVE  IInv'
<1> DEFINE ns == [notices EXCEPT ![c] = <<>>]
<1>1. TypeOK /\ NoticesEnd /\ \A d \in DOMAIN window : Headed(d)  BY DEF IInv
<1>2. /\ window' = Without(window, c) /\ ApplySize(window', manual, ns) /\ c \in DOMAIN window
      /\ asks' = [asks EXCEPT ![c] = <<>>] /\ UNCHANGED <<alive, manual, shown>>
  BY DEF Detach, Attached
<1>3. ns \in Notices
  <2>1. notices \in Notices  BY <1>1 DEF TypeOK, Notices
  <2> QED  BY <2>1, Emptied
<1>4. /\ DOMAIN window' \subseteq Clients /\ \A d \in DOMAIN window' : window'[d] \in Grids
      /\ \A d \in DOMAIN window' : d # c /\ d \in DOMAIN window
  BY <1>1, <1>2 DEF TypeOK, Without, Attached
<1>5. alive  BY <1>1, <1>2 DEF NoticesEnd
<1>6. ASSUME NEW d \in DOMAIN window', size' = size
      PROVE  \/ EndsOn(ns[d], shown'[d], size)
             \/ ns[d] = <<>> /\ asks'[d] # <<>> /\ shown'[d] = asks'[d][Len(asks'[d])]
  <2>1. Headed(d)  BY <1>1, <1>4
  <2>2. ns[d] = notices[d] /\ asks'[d] = asks[d]  BY <1>1, <1>2, <1>4 DEF TypeOK
  <2> QED  BY <1>2, <2>1, <2>2 DEF Headed
<1> HIDE DEF ns
<1>7. /\ asks' \in [Clients -> Seq(Grids)] /\ manual' \in Grids /\ ApplySize(window', manual', ns)
      /\ shown' \in [Clients -> Sizes \cup {NoGrid}]
  BY <1>1, <1>2 DEF TypeOK
<1> QED  BY <1>1, <1>2, <1>3, <1>4, <1>5, <1>6, <1>7, ApplyKeeps

LEMMA ResizeKeeps ==
  ASSUME IInv, NEW g \in Windows, Resize(g)
  PROVE  IInv'
<1>1. TypeOK /\ NoticesEnd /\ \A d \in DOMAIN window : Headed(d)  BY DEF IInv
<1>2. alive /\ manual' = g /\ ApplySize(window, g, notices) /\ UNCHANGED <<alive, window, asks, shown>>
  BY DEF Resize
<1>3. notices \in Notices /\ DOMAIN window \subseteq Clients
  BY <1>1 DEF TypeOK, Notices
<1>4. /\ manual' \in Grids /\ ApplySize(window', manual', notices)
      /\ \A d \in DOMAIN window' : window'[d] \in Grids
      /\ asks' \in [Clients -> Seq(Grids)] /\ shown' \in [Clients -> Sizes \cup {NoGrid}]
  BY <1>1, <1>2 DEF TypeOK, Grids
<1>5. \A d \in DOMAIN window' :
        \/ EndsOn(notices[d], shown'[d], size)
        \/ notices[d] = <<>> /\ asks'[d] # <<>> /\ shown'[d] = asks'[d][Len(asks'[d])]
  BY <1>1, <1>2 DEF Headed
<1> QED  BY <1>1, <1>2, <1>3, <1>4, <1>5, ApplyKeeps

\* Steps that leave the sizes alone.
LEMMA OthersKeep ==
  ASSUME IInv,
         \/ \E c \in Clients : AttachToDead(c) \/ Told(c) \/ AskTooLate(c)
         \/ \E c \in Clients, g \in Grids : Ask(c, g)
         \/ Finish
         \/ UNCHANGED vars
  PROVE  IInv'
<1>1. TypeOK /\ NoticesEnd /\ \A d \in DOMAIN window : Headed(d)  BY DEF IInv
<1>2. ASSUME NEW c \in Clients, AttachToDead(c) PROVE IInv'
  <2>1. ~alive /\ shown' = [shown EXCEPT ![c] = size] /\ notices' = [notices EXCEPT ![c] = <<>>]
        /\ UNCHANGED <<alive, size, manual, window, asks>>
    BY <1>2 DEF AttachToDead
  <2>2. notices \in Notices  BY <1>1 DEF TypeOK, Notices
  <2>3. notices' \in Notices  BY <2>1, <2>2, Emptied
  <2>4. TypeOK'  BY <1>1, <2>1, <2>3 DEF TypeOK, Notices
  <2>5. NoticesEnd' /\ DOMAIN window' = {}  BY <1>1, <2>1 DEF NoticesEnd
  <2> QED  BY <2>4, <2>5 DEF IInv
<1>3. ASSUME NEW c \in Clients, Told(c) PROVE IInv'
  <2>1. /\ notices[c] # <<>> /\ notices' = [notices EXCEPT ![c] = Tail(@)]
        /\ shown' = [shown EXCEPT ![c] = Head(notices[c])]
        /\ UNCHANGED <<alive, size, manual, window, asks>>
    BY <1>3 DEF Told
  <2>2. notices[c] \in Seq(Sizes) /\ Len(notices[c]) <= NoticeCap  BY <1>1 DEF TypeOK
  <2>3. /\ Head(notices[c]) \in Sizes /\ Tail(notices[c]) \in Seq(Sizes)
        /\ Len(Tail(notices[c])) = Len(notices[c]) - 1
        /\ (Tail(notices[c]) # <<>>
              => Tail(notices[c])[Len(Tail(notices[c]))] = notices[c][Len(notices[c])])
        /\ (Tail(notices[c]) = <<>> => Head(notices[c]) = notices[c][Len(notices[c])])
    BY <2>1, <2>2, TailEnds
  <2>4. EndsOn(notices[c], shown[c], size) => EndsOn(Tail(notices[c]), Head(notices[c]), size)
    BY <2>1, <2>3 DEF EndsOn
  <2>5. Len(Tail(notices[c])) <= NoticeCap  BY <2>2, <2>3, GeometryAssumption
  <2>6. TypeOK'  BY <1>1, <2>1, <2>3, <2>5 DEF TypeOK
  <2>7. NoticesEnd'  BY <1>1, <2>1 DEF NoticesEnd
  <2>8. ASSUME NEW d \in DOMAIN window' PROVE Headed(d)'
    <3>1. Headed(d) /\ d \in Clients  BY <1>1, <2>1 DEF TypeOK
    <3>2. CASE d = c
      <4>1. EndsOn(notices[c], shown[c], size)  BY <2>1, <3>1, <3>2 DEF Headed
      <4>2. notices'[d] = Tail(notices[c]) /\ shown'[d] = Head(notices[c])
        BY <1>1, <2>1, <3>2 DEF TypeOK
      <4> QED  BY <2>1, <2>4, <4>1, <4>2 DEF Headed
    <3>3. CASE d # c
      <4>1. notices'[d] = notices[d] /\ shown'[d] = shown[d] /\ asks'[d] = asks[d]
        BY <1>1, <2>1, <3>1, <3>3 DEF TypeOK
      <4> QED  BY <2>1, <3>1, <4>1 DEF Headed
    <3> QED  BY <3>2, <3>3
  <2> QED  BY <2>6, <2>7, <2>8 DEF IInv
<1>4. ASSUME NEW c \in Clients, AskTooLate(c) PROVE IInv'
  <2>1. /\ c \notin DOMAIN window /\ asks[c] # <<>> /\ asks' = [asks EXCEPT ![c] = Tail(@)]
        /\ UNCHANGED <<alive, size, manual, window, notices, shown>>
    BY <1>4 DEF AskTooLate, Attached
  <2>2. Tail(asks[c]) \in Seq(Grids)  BY <1>1, <2>1, HeadTailProperties DEF TypeOK
  <2>3. TypeOK' /\ NoticesEnd'  BY <1>1, <2>1, <2>2 DEF TypeOK, NoticesEnd
  <2>4. ASSUME NEW d \in DOMAIN window' PROVE Headed(d)'
    <3>1. Headed(d) /\ d # c  BY <1>1, <2>1
    <3>2. asks'[d] = asks[d]  BY <1>1, <2>1, <3>1 DEF TypeOK
    <3> QED  BY <2>1, <3>1, <3>2 DEF Headed
  <2> QED  BY <2>3, <2>4 DEF IInv
<1>5. ASSUME NEW c \in Clients, NEW g \in Grids, Ask(c, g) PROVE IInv'
  <2>1. /\ asks' = [asks EXCEPT ![c] = Append(@, g)] /\ shown' = [shown EXCEPT ![c] = g]
        /\ UNCHANGED <<alive, size, manual, window, notices>>
    BY <1>5 DEF Ask
  <2>2. /\ Append(asks[c], g) \in Seq(Grids) /\ Append(asks[c], g) # <<>>
        /\ Append(asks[c], g)[Len(Append(asks[c], g))] = g
    BY <1>1, AppendProperties DEF TypeOK
  <2>3. g \in Sizes \cup {NoGrid}  BY GeometryAssumption DEF Grids, Sizes
  <2>4. TypeOK'  BY <1>1, <2>1, <2>2, <2>3 DEF TypeOK
  <2>5. NoticesEnd'  BY <1>1, <2>1 DEF NoticesEnd
  <2>6. ASSUME NEW d \in DOMAIN window' PROVE Headed(d)'
    <3>1. Headed(d) /\ d \in Clients  BY <1>1, <2>1 DEF TypeOK
    <3>2. CASE d = c
      <4>1. asks'[d] = Append(asks[c], g) /\ shown'[d] = g  BY <1>1, <2>1, <3>2 DEF TypeOK
      <4>2. CASE notices[d] = <<>>  BY <2>1, <2>2, <4>1, <4>2 DEF Headed
      <4>3. CASE notices[d] # <<>>  BY <2>1, <3>1, <4>3 DEF Headed, EndsOn
      <4> QED  BY <4>2, <4>3
    <3>3. CASE d # c
      <4>1. asks'[d] = asks[d] /\ shown'[d] = shown[d]  BY <1>1, <2>1, <3>1, <3>3 DEF TypeOK
      <4> QED  BY <2>1, <3>1, <4>1 DEF Headed
    <3> QED  BY <3>2, <3>3
  <2> QED  BY <2>4, <2>5, <2>6 DEF IInv
<1>6. CASE Finish
  <2>1. DOMAIN window' = {} /\ alive' = FALSE /\ UNCHANGED <<size, manual, asks, notices, shown>>
    BY <1>6 DEF Finish
  <2>2. TypeOK' /\ NoticesEnd'  BY <1>1, <2>1 DEF TypeOK, NoticesEnd
  <2> QED  BY <2>1, <2>2 DEF IInv
<1>7. CASE UNCHANGED vars
  BY <1>1, <1>7 DEF vars, IInv, TypeOK, NoticesEnd, Headed
<1> QED  BY <1>2, <1>3, <1>4, <1>5, <1>6, <1>7

LEMMA Inductive == IInv /\ [Next]_vars => IInv'
<1> SUFFICES ASSUME IInv, [Next]_vars PROVE IInv'  OBVIOUS
<1>1. ASSUME NEW c \in Clients, NEW g \in Grids, Attach(c, g) PROVE IInv'  BY <1>1, ClientAttachKeeps
<1>2. ASSUME NEW c \in Clients, NEW g \in Grids, Ask(c, g) PROVE IInv'  BY <1>2, OthersKeep
<1>3. ASSUME NEW c \in Clients, AttachToDead(c) \/ Told(c) \/ AskTooLate(c) PROVE IInv'
  BY <1>3, OthersKeep
<1>4. ASSUME NEW c \in Clients, Detach(c) PROVE IInv'  BY <1>4, DetachKeeps
<1>5. ASSUME NEW c \in Clients, SetAttachSize(c) PROVE IInv'  BY <1>5, SetAttachSizeKeeps
<1>6. ASSUME NEW g \in Windows, Resize(g) PROVE IInv'  BY <1>6, ResizeKeeps
<1>7. CASE Finish \/ UNCHANGED vars  BY <1>7, OthersKeep
<1> QED  BY <1>1, <1>2, <1>3, <1>4, <1>5, <1>6, <1>7 DEF Next

\* Every reachable state satisfies the invariant.
THEOREM Invariance == Spec => []IInv
BY InitHolds, Inductive, PTL DEF Spec

-----------------------------------------------------------------------------
(***************************************************************************)
(* What follows from it.                                                   *)
(***************************************************************************)

\* Sizes, channels and declarations stay what they should be.
THEOREM TypeCorrect == Spec => []TypeOK
<1>1. IInv => TypeOK  BY DEF IInv
<1> QED  BY <1>1, Invariance, PTL

\* A client whose requests are served will paint on the session's grid, for any
\* number of clients and any capacity of the channels.
THEOREM GridIsKnown == Spec => []KnowsItsGrid
<1>1. IInv => KnowsItsGrid
  BY DEF IInv, KnowsItsGrid, Expects, Headed, EndsOn
<1> QED  BY <1>1, Invariance, PTL

\* The session is the largest grid that fits in every window, for any windows.
THEOREM EveryWindowFits == Spec => []FitsEveryWindow
<1>1. IInv => FitsEveryWindow
  <2> SUFFICES ASSUME IInv, Declared(window) # {} PROVE FitsEveryWindow
    BY DEF FitsEveryWindow
  <2>1. TypeOK /\ NoticesEnd  BY DEF IInv
  <2>2. Declared(window) \subseteq Sizes  BY <2>1, DeclaredSizes DEF TypeOK
  <2>3. alive  BY <2>1 DEF NoticesEnd, Declared, Attached
  <2>4. size = Smallest(Declared(window))  BY <2>1, <2>3 DEF NoticesEnd, Effective
  <2> QED  BY <2>2, <2>4, SmallestFits DEF FitsEveryWindow
<1> QED  BY <1>1, Invariance, PTL

\* An observer coming or leaving.
ObserverMoves(c) ==
  \/ c \notin DOMAIN window /\ c \in DOMAIN window' /\ window'[c] = NoGrid
  \/ c \in DOMAIN window /\ c \notin DOMAIN window' /\ window[c] = NoGrid

LEMMA ObserverStep ==
  ASSUME IInv, [Next]_vars, NEW c \in Clients, ObserverMoves(c)
  PROVE  size' = size
<1>1. TypeOK /\ NoticesEnd  BY DEF IInv
<1>2. ASSUME NEW d \in Clients, NEW g \in Grids, Attach(d, g) PROVE size' = size
  <2>1. /\ alive /\ d \notin DOMAIN window /\ window' = With(window, d, g)
        /\ size' = Effective(window', manual, size)
    BY <1>2 DEF Attach, ApplySize, Attached
  <2>2. c = d /\ g = NoGrid  BY <2>1 DEF ObserverMoves, With, Attached
  <2>3. Declared(window') = Declared(window)
    BY <2>1, <2>2 DEF Declared, With, Attached
  <2> QED  BY <1>1, <2>1, <2>3 DEF NoticesEnd, Effective
<1>3. ASSUME NEW d \in Clients, Detach(d) PROVE size' = size
  <2>1. /\ d \in DOMAIN window /\ window' = Without(window, d)
        /\ size' = Effective(window', manual, size)
    BY <1>3 DEF Detach, ApplySize, Attached
  <2>2. c = d /\ window[d] = NoGrid  BY <2>1 DEF ObserverMoves, Without, Attached
  <2>3. Declared(window') = Declared(window)
    BY <2>1, <2>2 DEF Declared, Without, Attached
  <2> QED  BY <1>1, <2>1, <2>3 DEF NoticesEnd, Effective
<1>4. ASSUME NEW d \in Clients, SetAttachSize(d) PROVE FALSE
  <2>1. DOMAIN window' = DOMAIN window  BY <1>4 DEF SetAttachSize, With, Attached
  <2> QED  BY <2>1 DEF ObserverMoves
<1>5. CASE UNCHANGED window  BY <1>5 DEF ObserverMoves
<1>6. CASE Finish  BY <1>6 DEF Finish
<1> QED
  BY <1>2, <1>3, <1>4, <1>5, <1>6
  DEF Next, vars, Ask, AttachToDead, Told, AskTooLate, Resize

\* One who only looks moves nobody's grid, whatever the windows and the manual
\* size: there is never a size left to apply.
THEOREM ObserversOnlyLook == Spec => ObserverMovesNothing
<1>1. IInv /\ [Next]_vars =>
        [\A c \in Clients :
           \/ c \notin DOMAIN window /\ c \in DOMAIN window' /\ window'[c] = NoGrid
           \/ c \in DOMAIN window /\ c \notin DOMAIN window' /\ window[c] = NoGrid
         => size' = size]_vars
  BY ObserverStep DEF ObserverMoves
<1> QED  BY <1>1, Invariance, PTL DEF Spec, ObserverMovesNothing

-----------------------------------------------------------------------------
(***************************************************************************)
(* Proofs about Viewport, for any number of connections, window sizes and  *)
(* lost connections to the daemon.                                         *)
(*                                                                         *)
(* Ownership: whoever owns the grid is live and of the epoch that was the  *)
(* last to be accepted, and every connection that has made its claim is of *)
(* no later epoch.  Declaration: whenever the viewport has changed since   *)
(* it was last read, some goroutine still owes a syncViewport; the one     *)
(* that holds geomMu has read the present viewport unless another owes.    *)
(***************************************************************************)
ConnStages == {"new", "ticket", "preempting", "subscribed", "live", "released",
           "unregistered", "clearing", "gone"}
Claimed == {"live", "released", "unregistered", "clearing", "gone"}

ViewportTyped ==
  /\ epochs \in Nat /\ epoch \in [Conns -> Nat] /\ ownerEpoch \in Nat
  /\ at \in [Conns -> ConnStages]
  /\ owner \in Conns \cup {NoConn}
  /\ viewers \subseteq {c \in Conns : at[c] \in {"subscribed", "live", "released"}}
  /\ winSize \in [Conns -> WindowSizes \cup {0}]
  /\ sync \in [Procs -> {"none", "due", "locked"}] /\ DOMAIN want = Procs

\* The owner is live and of the last accepted epoch; no claim made is of a
\* later one.
ClaimsInOrder ==
  /\ \A c \in Conns : owner = c => at[c] = "live" /\ epoch[c] = ownerEpoch
  /\ \A c \in Conns : at[c] \in Claimed => epoch[c] <= ownerEpoch

\* geomMu has one holder, and there is a stream once the attach has adopted it.
LocksHold ==
  /\ \A p, q \in Procs : sync[p] = "locked" /\ sync[q] = "locked" => p = q
  /\ attaching \in {"read", "request", "adopt", "note", "done"}
  /\ attaching \in {"note", "done"} => stream = "up"

\* What was declared last is what the daemon has.
SentHeld == attaching = "done" /\ ~crossed => ours = declared

NoneDue    == \A p \in Procs : sync[p] # "due"
NoneLocked == \A p \in Procs : sync[p] # "locked"

\* When nobody owes a declaration, the present viewport has been declared or is
\* what the holder of geomMu is about to declare.
NewestOnItsWay ==
  attaching = "done" /\ NoneDue =>
    /\ \A p \in Procs : sync[p] = "locked" => want[p] = TheViewport
    /\ NoneLocked => declared = TheViewport

ViewportInv == ViewportTyped /\ ClaimsInOrder /\ LocksHold /\ SentHeld /\ NewestOnItsWay

-----------------------------------------------------------------------------
(***************************************************************************)
(* Helpers.                                                                *)
(***************************************************************************)
\* The viewport depends on the registry alone.
LEMMA SameViewport ==
  ASSUME UNCHANGED registry
  PROVE  TheViewport' = TheViewport
BY DEF registry, TheViewport

\* A connection that registers as an observer has no say in the viewport.
LEMMA ObserverHasNoSay ==
  ASSUME ViewportTyped, NEW c \in Conns, c \notin viewers, owner # c, owner' = owner,
         viewers' = viewers \cup {c}, winSize' = [winSize EXCEPT ![c] = 0]
  PROVE  TheViewport' = TheViewport
<1>1. \A v \in Conns : winSize'[v] = IF v = c THEN 0 ELSE winSize[v]
  BY DEF ViewportTyped
<1>2. viewers \subseteq Conns
  BY DEF ViewportTyped
<1>3. {winSize'[v] : v \in viewers'} \ {0} = {winSize[v] : v \in viewers} \ {0}
  <2>1. \A v \in viewers : v \in viewers' /\ winSize'[v] = winSize[v]
    BY <1>1, <1>2
  <2>2. \A v \in viewers' : v \in viewers \/ winSize'[v] = 0
    BY <1>1, <1>2
  <2> QED BY <2>1, <2>2, <1>1, <1>2
<1>4. CASE owner # NoConn
  <2>1. owner \in viewers' <=> owner \in viewers
    OBVIOUS
  <2>2. owner \in viewers => winSize'[owner] = winSize[owner]
    BY <1>1, <1>2
  <2> QED BY <1>4, <2>1, <2>2 DEF TheViewport
<1>5. CASE owner = NoConn
  BY <1>5, <1>3 DEF TheViewport
<1> QED BY <1>4, <1>5

\* A goroutine that owes a declaration is one that owes it.
LEMMA OwesIsDue ==
  ASSUME ViewportTyped, NEW p \in Procs, Owes(p)
  PROVE  ~NoneDue'
BY DEF ViewportTyped, Owes, NoneDue

\* A step that leaves the viewport and the declarations alone keeps what is
\* said of them.
LEMMA SyncKept ==
  ASSUME LocksHold, SentHeld, NewestOnItsWay, TheViewport' = TheViewport,
         UNCHANGED <<sync, want, declared, crossed, attachment>>
  PROVE  LocksHold' /\ SentHeld' /\ NewestOnItsWay'
<1>1. LocksHold'
  BY DEF LocksHold, attachment
<1>2. SentHeld'
  BY DEF SentHeld, attachment
<1>3. NewestOnItsWay'
  BY DEF NewestOnItsWay, attachment, NoneDue, NoneLocked
<1> QED BY <1>1, <1>2, <1>3

\* A change of the registry is followed by a declaration of the same goroutine.
LEMMA SyncOwed ==
  ASSUME ViewportTyped, LocksHold, SentHeld, NEW p \in Procs, sync[p] = "none", Owes(p),
         UNCHANGED <<want, declared, crossed, attachment>>
  PROVE  LocksHold' /\ SentHeld' /\ NewestOnItsWay'
<1>1. \A q \in Procs : sync'[q] = IF q = p THEN "due" ELSE sync[q]
  BY DEF Owes, ViewportTyped
<1>2. LocksHold'
  BY <1>1 DEF LocksHold, attachment
<1>3. SentHeld'
  BY DEF SentHeld, attachment
<1>4. NewestOnItsWay'
  BY OwesIsDue DEF NewestOnItsWay
<1> QED BY <1>2, <1>3, <1>4

-----------------------------------------------------------------------------
(***************************************************************************)
(* A connection's own steps.                                               *)
(***************************************************************************)
LEMMA HandlerTyped ==
  ASSUME ViewportInv, NEW c \in Conns,
         \/ TakeEpoch(c) \/ Preempt(c) \/ Subscribe(c) \/ SetViewerOwner(c)
         \/ \E s \in WindowSizes \cup {0} : SetViewerSize(c, s)
         \/ ReleaseViewerOwner(c) \/ Unsubscribe(c) \/ ClearLoad(c) \/ ClearDelete(c)
  PROVE  ViewportTyped'
<1> USE DEF ViewportInv, ViewportTyped, Go, ConnStages
<1>0. c \in Procs /\ 0 \in WindowSizes \cup {0}
  BY DEF Procs
<1>1. CASE TakeEpoch(c)
  <2>1. epochs' = epochs + 1 /\ epoch' = [epoch EXCEPT ![c] = epochs + 1]
        /\ at' = [at EXCEPT ![c] = "ticket"] /\ at[c] = "new"
        /\ UNCHANGED <<registry, sync, want>>
    BY <1>1 DEF TakeEpoch
  <2> QED BY <2>1 DEF registry
<1>2. CASE Preempt(c)
  BY <1>2 DEF Preempt, registry
<1>3. CASE Subscribe(c)
  <2>1. /\ at' = [at EXCEPT ![c] = "subscribed"] /\ viewers' = viewers \cup {c}
        /\ winSize' = [winSize EXCEPT ![c] = 0] /\ UNCHANGED <<preemption, owner, ownerEpoch, sync, want>>
    BY <1>3 DEF Subscribe
  <2>2. viewers' \subseteq {d \in Conns : at'[d] \in {"subscribed", "live", "released"}}
    BY <2>1
  <2>3. winSize' \in [Conns -> WindowSizes \cup {0}] /\ at' \in [Conns -> ConnStages]
    BY <2>1, <1>0
  <2> QED BY <2>1, <2>2, <2>3 DEF preemption
<1>4. CASE SetViewerOwner(c)
  <2>1. /\ at' = [at EXCEPT ![c] = "live"] /\ UNCHANGED <<preemption, viewers, winSize, want>>
        /\ ownerEpoch' \in {ownerEpoch, epoch[c]} /\ owner' \in {owner, c}
        /\ sync' \in {sync, [sync EXCEPT ![c] = "due"]}
    BY <1>4 DEF SetViewerOwner, Owes
  <2>2. viewers' \subseteq {d \in Conns : at'[d] \in {"subscribed", "live", "released"}}
    BY <2>1
  <2>3. sync' \in [Procs -> {"none", "due", "locked"}] /\ at' \in [Conns -> ConnStages]
    BY <2>1, <1>0
  <2> QED BY <2>1, <2>2, <2>3 DEF preemption
<1>5. ASSUME NEW s \in WindowSizes \cup {0}, SetViewerSize(c, s) PROVE ViewportTyped'
  <2>1. UNCHANGED <<preemption, viewers, owner, ownerEpoch, want>> /\ at' = [at EXCEPT ![c] = "live"]
        /\ at[c] = "live" /\ winSize' = [winSize EXCEPT ![c] = s] /\ sync' = [sync EXCEPT ![c] = "due"]
    BY <1>5 DEF SetViewerSize, Owes
  <2>2. at' = at
    BY <2>1
  <2> QED BY <2>1, <2>2, <1>0 DEF preemption
<1>6. CASE ReleaseViewerOwner(c)
  BY <1>6, <1>0 DEF ReleaseViewerOwner, preemption, Owes
<1>7. CASE Unsubscribe(c)
  BY <1>7, <1>0 DEF Unsubscribe, preemption, Owes
<1>8. CASE ClearLoad(c)
  BY <1>8 DEF ClearLoad, preemption, registry
<1>9. CASE ClearDelete(c)
  BY <1>9 DEF ClearDelete, registry
<1> QED BY <1>1, <1>2, <1>3, <1>4, <1>5, <1>6, <1>7, <1>8, <1>9

LEMMA HandlerClaims ==
  ASSUME ViewportInv, NEW c \in Conns,
         \/ TakeEpoch(c) \/ Preempt(c) \/ Subscribe(c) \/ SetViewerOwner(c)
         \/ \E s \in WindowSizes \cup {0} : SetViewerSize(c, s)
         \/ ReleaseViewerOwner(c) \/ Unsubscribe(c) \/ ClearLoad(c) \/ ClearDelete(c)
  PROVE  ClaimsInOrder'
<1>0. /\ at \in [Conns -> ConnStages] /\ epoch \in [Conns -> Nat] /\ ownerEpoch \in Nat /\ epochs \in Nat
      /\ ClaimsInOrder
  BY DEF ViewportInv, ViewportTyped
<1> USE DEF ClaimsInOrder, Go, Claimed
<1>1. CASE TakeEpoch(c)
  <2>1. epoch' = [epoch EXCEPT ![c] = epochs + 1] /\ at[c] = "new"
        /\ at' = [at EXCEPT ![c] = "ticket"] /\ owner' = owner /\ ownerEpoch' = ownerEpoch
    BY <1>1 DEF TakeEpoch, registry
  <2>2. \A d \in Conns : d # c => at'[d] = at[d] /\ epoch'[d] = epoch[d]
    BY <2>1, <1>0
  <2>3. at'[c] = "ticket" /\ owner # c
    BY <2>1, <1>0
  <2> QED BY <1>0, <2>1, <2>2, <2>3
<1>2. CASE Preempt(c) \/ Subscribe(c) \/ Unsubscribe(c) \/ ClearLoad(c) \/ ClearDelete(c)
  <2>1. \E to \in ConnStages :
           /\ at' = [at EXCEPT ![c] = to] /\ to # "live" /\ at[c] # "live"
           /\ to \in Claimed => at[c] \in Claimed
    BY <1>2 DEF Preempt, Subscribe, Unsubscribe, ClearLoad, ClearDelete, ConnStages
  <2>2. epoch' = epoch /\ owner' = owner /\ ownerEpoch' = ownerEpoch
    BY <1>2 DEF Preempt, Subscribe, Unsubscribe, ClearLoad, ClearDelete, registry, preemption
  <2> QED BY <1>0, <2>1, <2>2
<1>3. CASE SetViewerOwner(c)
  <2>1. at' = [at EXCEPT ![c] = "live"] /\ epoch' = epoch /\ at[c] = "subscribed"
    BY <1>3 DEF SetViewerOwner, preemption
  <2>2. CASE epoch[c] < ownerEpoch
    <3>1. owner' = owner /\ ownerEpoch' = ownerEpoch
      BY <1>3, <2>2 DEF SetViewerOwner
    <3>2. epoch[c] <= ownerEpoch
      BY <1>0, <2>2
    <3>3. \A d \in Conns : (d # c => at'[d] = at[d]) /\ at'[c] = "live"
      BY <1>0, <2>1
    <3>4. \A d \in Conns : owner' = d => at'[d] = "live" /\ epoch'[d] = ownerEpoch'
      BY <1>0, <2>1, <3>1, <3>3
    <3>5. \A d \in Conns : at'[d] \in Claimed => epoch'[d] <= ownerEpoch'
      BY <1>0, <2>1, <3>1, <3>2, <3>3
    <3> QED BY <3>4, <3>5
  <2>3. CASE ~(epoch[c] < ownerEpoch)
    <3>1. owner' = c /\ ownerEpoch' = epoch[c]
      BY <1>3, <2>3 DEF SetViewerOwner
    <3>2. \A d \in Conns : epoch[d] \in Nat /\ (d # c => at'[d] = at[d]) /\ at'[c] = "live"
      BY <1>0, <2>1
    <3>3. ownerEpoch <= epoch[c]
      BY <1>0, <2>3
    <3> QED BY <1>0, <2>1, <3>1, <3>2, <3>3
  <2> QED BY <2>2, <2>3
<1>4. ASSUME NEW s \in WindowSizes \cup {0}, SetViewerSize(c, s) PROVE ClaimsInOrder'
  <2>1. at' = at /\ epoch' = epoch /\ owner' = owner /\ ownerEpoch' = ownerEpoch
    BY <1>4, <1>0 DEF SetViewerSize, preemption
  <2> QED BY <1>0, <2>1
<1>5. CASE ReleaseViewerOwner(c)
  <2>1. at' = [at EXCEPT ![c] = "released"] /\ epoch' = epoch /\ at[c] = "live" /\ ownerEpoch' = ownerEpoch
    BY <1>5 DEF ReleaseViewerOwner, preemption
  <2>2. owner' = (IF owner = c THEN NoConn ELSE owner) /\ NoConn \notin Conns
    BY <1>5, ViewportAssumption DEF ReleaseViewerOwner
  <2> QED BY <1>0, <2>1, <2>2
<1> QED BY <1>1, <1>2, <1>3, <1>4, <1>5

LEMMA HandlerSyncs ==
  ASSUME ViewportInv, NEW c \in Conns,
         \/ TakeEpoch(c) \/ Preempt(c) \/ Subscribe(c) \/ SetViewerOwner(c)
         \/ \E s \in WindowSizes \cup {0} : SetViewerSize(c, s)
         \/ ReleaseViewerOwner(c) \/ Unsubscribe(c) \/ ClearLoad(c) \/ ClearDelete(c)
  PROVE  LocksHold' /\ SentHeld' /\ NewestOnItsWay'
<1>0. c \in Procs /\ ViewportTyped /\ LocksHold /\ SentHeld /\ NewestOnItsWay
  BY DEF Procs, ViewportInv
<1>1. CASE TakeEpoch(c) \/ Preempt(c) \/ ClearLoad(c) \/ ClearDelete(c)
  <2>1. UNCHANGED <<sync, want, declared, crossed, attachment>> /\ UNCHANGED registry
    BY <1>1 DEF TakeEpoch, Preempt, ClearLoad, ClearDelete
  <2> QED BY <1>0, <2>1, SameViewport, SyncKept
<1>2. CASE Subscribe(c)
  <2>1. at[c] = "preempting" /\ viewers' = viewers \cup {c} /\ winSize' = [winSize EXCEPT ![c] = 0]
        /\ owner' = owner /\ UNCHANGED <<sync, want, declared, crossed, attachment>>
    BY <1>2 DEF Subscribe, Go
  <2>2. c \notin viewers /\ owner # c
    BY <2>1 DEF ViewportInv, ViewportTyped, ClaimsInOrder
  <2> QED BY <1>0, <2>1, <2>2, ObserverHasNoSay, SyncKept
<1>3. CASE SetViewerOwner(c)
  <2>1. sync[c] = "none" /\ UNCHANGED <<want, declared, crossed, attachment>> /\ UNCHANGED <<viewers, winSize>>
    BY <1>3 DEF SetViewerOwner, Go
  <2>2. CASE epoch[c] < ownerEpoch
    <3>1. UNCHANGED registry /\ UNCHANGED sync
      BY <1>3, <2>1, <2>2 DEF SetViewerOwner, registry
    <3> QED BY <1>0, <2>1, <3>1, SameViewport, SyncKept
  <2>3. CASE ~(epoch[c] < ownerEpoch)
    <3>1. Owes(c)
      BY <1>3, <2>3 DEF SetViewerOwner
    <3> QED BY <1>0, <2>1, <3>1, SyncOwed
  <2> QED BY <2>2, <2>3
<1>4. ASSUME NEW s \in WindowSizes \cup {0}, SetViewerSize(c, s)
      PROVE  LocksHold' /\ SentHeld' /\ NewestOnItsWay'
  <2>1. sync[c] = "none" /\ Owes(c) /\ UNCHANGED <<want, declared, crossed, attachment>>
    BY <1>4 DEF SetViewerSize, Go
  <2> QED BY <1>0, <2>1, SyncOwed
<1>5. CASE ReleaseViewerOwner(c)
  <2>1. sync[c] = "none" /\ UNCHANGED <<want, declared, crossed, attachment>>
        /\ UNCHANGED <<viewers, winSize, ownerEpoch>>
    BY <1>5 DEF ReleaseViewerOwner, Go
  <2>2. CASE owner = c
    <3>1. Owes(c)
      BY <1>5, <2>2 DEF ReleaseViewerOwner
    <3> QED BY <1>0, <2>1, <3>1, SyncOwed
  <2>3. CASE owner # c
    <3>1. UNCHANGED registry /\ UNCHANGED sync
      BY <1>5, <2>1, <2>3 DEF ReleaseViewerOwner, registry
    <3> QED BY <1>0, <2>1, <3>1, SameViewport, SyncKept
  <2> QED BY <2>2, <2>3
<1>6. CASE Unsubscribe(c)
  <2>1. sync[c] = "none" /\ Owes(c) /\ UNCHANGED <<want, declared, crossed, attachment>>
    BY <1>6 DEF Unsubscribe, Go
  <2> QED BY <1>0, <2>1, SyncOwed
<1> QED BY <1>1, <1>2, <1>3, <1>4, <1>5, <1>6

-----------------------------------------------------------------------------
(***************************************************************************)
(* syncViewport and the attach.                                            *)
(***************************************************************************)
LEMMA RegistryKept ==
  ASSUME ViewportTyped, ClaimsInOrder, UNCHANGED <<preemption, registry, handlers>>,
         sync' \in [Procs -> {"none", "due", "locked"}], DOMAIN want' = Procs
  PROVE  ViewportTyped' /\ ClaimsInOrder'
BY DEF ViewportTyped, ClaimsInOrder, preemption, registry, handlers

\* The goroutine that takes geomMu reads the present viewport.
LEMMA SyncReadKeeps ==
  ASSUME ViewportInv, NEW p \in Procs, SyncRead(p)
  PROVE  ViewportInv'
<1>1. /\ sync[p] = "due" /\ (\A q \in Procs : sync[q] # "locked")
      /\ sync' = [sync EXCEPT ![p] = "locked"] /\ want' = [want EXCEPT ![p] = TheViewport]
      /\ UNCHANGED <<preemption, registry, attachment, handlers, declared, crossed>>
  BY DEF SyncRead
<1>2. /\ \A q \in Procs : sync'[q] = IF q = p THEN "locked" ELSE sync[q]
      /\ want'[p] = TheViewport /\ sync' \in [Procs -> {"none", "due", "locked"}] /\ DOMAIN want' = Procs
  BY <1>1 DEF ViewportInv, ViewportTyped
<1>3. ViewportTyped' /\ ClaimsInOrder'
  BY <1>1, <1>2, RegistryKept DEF ViewportInv
<1>4. LocksHold'
  BY <1>1, <1>2 DEF ViewportInv, LocksHold, attachment
<1>5. SentHeld'
  BY <1>1 DEF ViewportInv, SentHeld, attachment
<1>6. NewestOnItsWay'
  <2>1. TheViewport' = TheViewport
    BY <1>1, SameViewport
  <2>2. ~NoneLocked'
    BY <1>2 DEF NoneLocked
  <2>3. \A q \in Procs : sync'[q] = "locked" => want'[q] = TheViewport
    BY <1>1, <1>2
  <2> QED BY <2>1, <2>2, <2>3 DEF NewestOnItsWay
<1> QED BY <1>3, <1>4, <1>5, <1>6 DEF ViewportInv

\* What it sends is the present viewport, unless another goroutine owes one.
LEMMA SyncSendKeeps ==
  ASSUME ViewportInv, NEW p \in Procs, SyncSend(p)
  PROVE  ViewportInv'
<1>1. /\ sync[p] = "locked"
      /\ sync' = [sync EXCEPT ![p] = "none"] /\ want' = [want EXCEPT ![p] = 0]
      /\ UNCHANGED <<preemption, registry, stream, attaching, asked, drops, handlers, crossed>>
  BY DEF SyncSend
<1>2. /\ \A q \in Procs : sync'[q] = IF q = p THEN "none" ELSE sync[q]
      /\ sync' \in [Procs -> {"none", "due", "locked"}] /\ DOMAIN want' = Procs
  BY <1>1 DEF ViewportInv, ViewportTyped
<1>3. ViewportTyped' /\ ClaimsInOrder'
  BY <1>1, <1>2, RegistryKept DEF ViewportInv
<1>4. LocksHold'
  BY <1>1, <1>2 DEF ViewportInv, LocksHold
<1>5. attaching = "done" => declared' = want[p] /\ (~crossed => ours' = declared')
  <2>1. CASE want[p] # declared /\ stream = "up"
    BY <2>1 DEF SyncSend
  <2>2. CASE ~(want[p] # declared /\ stream = "up")
    BY <2>2 DEF SyncSend, ViewportInv, LocksHold, SentHeld
  <2> QED BY <2>1, <2>2
<1>6. SentHeld'
  BY <1>1, <1>5 DEF SentHeld
<1>7. NewestOnItsWay'
  <2>1. TheViewport' = TheViewport
    BY <1>1, SameViewport
  <2>2. NoneDue' => NoneDue
    BY <1>1, <1>2 DEF NoneDue
  <2>3. \A q \in Procs : sync'[q] # "locked"
    BY <1>1, <1>2 DEF ViewportInv, LocksHold
  <2>4. attaching = "done" /\ NoneDue => want[p] = TheViewport
    BY <1>1 DEF ViewportInv, NewestOnItsWay
  <2> QED BY <1>1, <1>5, <2>1, <2>2, <2>3, <2>4 DEF NewestOnItsWay
<1> QED BY <1>3, <1>4, <1>6, <1>7 DEF ViewportInv

\* While it is being attached nothing is promised; the note that ends it owes a
\* declaration and says whether it wrote over one.
LEMMA StreamAttachKeeps ==
  ASSUME ViewportInv, AttachRead \/ AttachRequest \/ AttachAdopt \/ AttachNote \/ Drop
  PROVE  ViewportInv'
<1>0. Attacher \in Procs
  BY DEF Procs
<1>1. CASE AttachRead \/ AttachRequest \/ AttachAdopt \/ Drop
  <2>1. attaching' \in {"read", "request", "adopt", "note"} /\ (attaching' = "note" => stream' = "up")
        /\ UNCHANGED <<preemption, registry, handlers, sync, want>>
    BY <1>1 DEF AttachRead, AttachRequest, AttachAdopt, Drop
  <2>2. ViewportTyped' /\ ClaimsInOrder'
    BY <2>1, RegistryKept DEF ViewportInv, ViewportTyped
  <2>3. LocksHold'
    BY <2>1 DEF ViewportInv, LocksHold
  <2> QED BY <2>1, <2>2, <2>3 DEF ViewportInv, SentHeld, NewestOnItsWay
<1>2. CASE AttachNote
  <2>1. /\ attaching = "note" /\ attaching' = "done" /\ \A q \in Procs : sync[q] # "locked"
        /\ declared' = asked /\ crossed' = (ours # asked) /\ Owes(Attacher)
        /\ UNCHANGED <<preemption, registry, stream, asked, ours, drops, handlers, want>>
    BY <1>2 DEF AttachNote
  <2>2. /\ \A q \in Procs : sync'[q] = IF q = Attacher THEN "due" ELSE sync[q]
        /\ sync' \in [Procs -> {"none", "due", "locked"}]
    BY <1>0, <2>1 DEF Owes, ViewportInv, ViewportTyped
  <2>3. ViewportTyped' /\ ClaimsInOrder'
    BY <2>1, <2>2, RegistryKept DEF ViewportInv, ViewportTyped
  <2>4. LocksHold'
    BY <2>1, <2>2 DEF ViewportInv, LocksHold
  <2>5. SentHeld'
    BY <2>1 DEF SentHeld
  <2>6. NewestOnItsWay'
    BY <1>0, <2>1, OwesIsDue DEF ViewportInv, NewestOnItsWay
  <2> QED BY <2>3, <2>4, <2>5, <2>6 DEF ViewportInv
<1> QED BY <1>1, <1>2

-----------------------------------------------------------------------------
LEMMA ViewportInvInductive == ViewportSpec => []ViewportInv
<1>1. ViewportInit => ViewportInv
  <2> SUFFICES ASSUME ViewportInit PROVE ViewportInv
    OBVIOUS
  <2>1. ViewportTyped
    BY DEF ViewportInit, ViewportTyped, ConnStages
  <2>2. ClaimsInOrder
    BY ViewportAssumption DEF ViewportInit, ClaimsInOrder, Claimed
  <2>3. LocksHold /\ SentHeld /\ NewestOnItsWay
    BY DEF ViewportInit, LocksHold, SentHeld, NewestOnItsWay
  <2> QED BY <2>1, <2>2, <2>3 DEF ViewportInv
<1>2. ViewportInv /\ [ViewportNext]_viewportVars => ViewportInv'
  <2> SUFFICES ASSUME ViewportInv, [ViewportNext]_viewportVars PROVE ViewportInv'
    OBVIOUS
  <2>1. ASSUME NEW c \in Conns,
               \/ TakeEpoch(c) \/ Preempt(c) \/ Subscribe(c) \/ SetViewerOwner(c)
               \/ \E s \in WindowSizes \cup {0} : SetViewerSize(c, s)
               \/ ReleaseViewerOwner(c) \/ Unsubscribe(c) \/ ClearLoad(c) \/ ClearDelete(c)
        PROVE  ViewportInv'
    BY <2>1, HandlerTyped, HandlerClaims, HandlerSyncs DEF ViewportInv
  <2>2. ASSUME NEW p \in Procs, SyncRead(p) \/ SyncSend(p) PROVE ViewportInv'
    BY <2>2, SyncReadKeeps, SyncSendKeeps
  <2>3. CASE AttachRead \/ AttachRequest \/ AttachAdopt \/ AttachNote \/ Drop
    BY <2>3, StreamAttachKeeps
  <2>4. CASE UNCHANGED viewportVars
    <3>1. ViewportTyped' /\ ClaimsInOrder'
      BY <2>4, RegistryKept DEF viewportVars, ViewportInv, ViewportTyped
    <3>2. LocksHold' /\ SentHeld' /\ NewestOnItsWay'
      BY <2>4, SameViewport, SyncKept DEF viewportVars, ViewportInv
    <3> QED BY <3>1, <3>2 DEF ViewportInv
  <2> QED BY <2>1, <2>2, <2>3, <2>4 DEF ViewportNext
<1> QED BY <1>1, <1>2, PTL DEF ViewportSpec

\* A connection that was preempted never takes the grid back once a newer one
\* has claimed it, in whatever order their handlers run; and whenever nothing is
\* under way the daemon has the size of the window being looked at, unless an
\* attach wrote over what was declared on it (SetViewerOwner, syncViewport,
\* noteDeclared).  For any number of connections and of re-attachments.
THEOREM NewestWindowAlwaysRules == ViewportSpec => []NewestWindowRules
<1>1. ViewportInv => NewestWindowRules
  <2> SUFFICES ASSUME ViewportInv PROVE NewestWindowRules
    OBVIOUS
  <2>1. NewestClaimHolds
    <3> SUFFICES ASSUME NEW c \in Conns, NEW d \in Conns, owner = c,
                        at[d] \notin {"new", "ticket", "preempting", "subscribed"}, epoch[c] < epoch[d]
                 PROVE  FALSE
      BY DEF NewestClaimHolds
    <3>1. at[d] \in Claimed
      BY DEF ViewportInv, ViewportTyped, ConnStages, Claimed
    <3>2. epoch[c] \in Nat /\ epoch[d] \in Nat /\ ownerEpoch \in Nat
      BY DEF ViewportInv, ViewportTyped
    <3>3. epoch[c] = ownerEpoch /\ epoch[d] <= ownerEpoch
      BY <3>1 DEF ViewportInv, ClaimsInOrder
    <3> QED BY <3>2, <3>3
  <2>2. DaemonHasViewport
    BY DEF ViewportInv, DaemonHasViewport, Settled, SentHeld, NewestOnItsWay, NoneDue, NoneLocked
  <2> QED BY <2>1, <2>2 DEF NewestWindowRules
<1> QED BY <1>1, ViewportInvInductive, PTL

-----------------------------------------------------------------------------
(***************************************************************************)
(* The types of the viewport: an epoch is given out once for each          *)
(* connection that has begun, and whatever is read, asked for or declared  *)
(* is a window's size or that of an observer.                              *)
(***************************************************************************)
Begun == {c \in Conns : at[c] # "new"}
EpochsGiven ==
  /\ epochs = Cardinality(Begun)
  /\ epoch \in [Conns -> 0 .. epochs] /\ ownerEpoch \in 0 .. epochs
  /\ active \in Conns \cup {NoConn} /\ cancelled \subseteq Conns
SizesTyped ==
  /\ want \in [Procs -> WindowSizes \cup {0}] /\ declared \in WindowSizes \cup {0}
  /\ asked \in WindowSizes \cup {0} /\ ours \in WindowSizes \cup {0}

\* Nobody begins twice.
LEMMA EpochsKeep ==
  ASSUME ViewportInv, EpochsGiven, ViewportNext
  PROVE  EpochsGiven'
<1> USE DEF EpochsGiven
<1>0. /\ IsFiniteSet(Conns) /\ Begun \subseteq Conns /\ at \in [Conns -> ConnStages]
      /\ IsFiniteSet(Begun) /\ epochs \in Nat
  BY ViewportAssumption, FS_Subset, FS_CardinalityType
  DEF Begun, ViewportInv, ViewportTyped
<1>1. ASSUME NEW c \in Conns, TakeEpoch(c) PROVE EpochsGiven'
  <2>1. /\ at[c] = "new" /\ at' = [at EXCEPT ![c] = "ticket"] /\ epochs' = epochs + 1
        /\ epoch' = [epoch EXCEPT ![c] = epochs + 1]
        /\ UNCHANGED <<active, cancelled, ownerEpoch>>
    BY <1>1 DEF TakeEpoch, Go, registry
  <2>2. Begun' = Begun \cup {c} /\ c \notin Begun
    BY <1>0, <2>1 DEF Begun, ConnStages
  <2>3. Cardinality(Begun') = epochs + 1
    BY <1>0, <2>2, FS_AddElement
  <2> QED BY <1>0, <2>1, <2>3
<1>2. ASSUME Begun' = Begun, UNCHANGED <<epochs, epoch>>, ownerEpoch' \in 0 .. epochs,
             active' \in Conns \cup {NoConn}, cancelled' \subseteq Conns
      PROVE  EpochsGiven'
  BY <1>2
<1>3. ASSUME NEW c \in Conns, NEW a, NEW b, at[c] = a, at' = [at EXCEPT ![c] = b],
             a # "new", b # "new"
      PROVE  Begun' = Begun
  BY <1>0, <1>3 DEF Begun
<1>4. ASSUME NEW c \in Conns, Preempt(c) PROVE EpochsGiven'
  <2>1. Begun' = Begun  BY <1>3, <1>4 DEF Preempt, Go
  <2> QED BY <1>2, <1>4, <2>1 DEF Preempt, registry
<1>5. ASSUME NEW c \in Conns, Subscribe(c) PROVE EpochsGiven'
  <2>1. Begun' = Begun  BY <1>3, <1>5 DEF Subscribe, Go
  <2> QED BY <1>2, <1>5, <2>1 DEF Subscribe, preemption
<1>6. ASSUME NEW c \in Conns, SetViewerOwner(c) PROVE EpochsGiven'
  <2>1. Begun' = Begun  BY <1>3, <1>6 DEF SetViewerOwner, Go
  <2> QED BY <1>2, <1>6, <2>1 DEF SetViewerOwner, preemption
<1>7. ASSUME NEW c \in Conns, NEW s \in WindowSizes \cup {0}, SetViewerSize(c, s)
      PROVE  EpochsGiven'
  <2>1. Begun' = Begun  BY <1>3, <1>7 DEF SetViewerSize, Go
  <2> QED BY <1>2, <1>7, <2>1 DEF SetViewerSize, preemption
<1>8. ASSUME NEW c \in Conns, ReleaseViewerOwner(c) PROVE EpochsGiven'
  <2>1. Begun' = Begun  BY <1>3, <1>8 DEF ReleaseViewerOwner, Go
  <2> QED BY <1>2, <1>8, <2>1 DEF ReleaseViewerOwner, preemption
<1>9. ASSUME NEW c \in Conns, Unsubscribe(c) PROVE EpochsGiven'
  <2>1. Begun' = Begun  BY <1>3, <1>9 DEF Unsubscribe, Go
  <2> QED BY <1>2, <1>9, <2>1 DEF Unsubscribe, preemption
<1>10. ASSUME NEW c \in Conns, ClearLoad(c) PROVE EpochsGiven'
  <2>1. Begun' = Begun  BY <1>3, <1>10 DEF ClearLoad, Go
  <2> QED BY <1>2, <1>10, <2>1 DEF ClearLoad, preemption, registry
<1>11. ASSUME NEW c \in Conns, ClearDelete(c) PROVE EpochsGiven'
  <2>1. Begun' = Begun  BY <1>3, <1>11 DEF ClearDelete, Go
  <2> QED BY <1>2, <1>11, <2>1 DEF ClearDelete, registry
<1>12. ASSUME UNCHANGED <<preemption, registry, at>> PROVE EpochsGiven'
  BY <1>12 DEF preemption, registry, Begun
<1>13. ASSUME NEW p \in Procs, SyncRead(p) \/ SyncSend(p) PROVE EpochsGiven'
  BY <1>12, <1>13 DEF SyncRead, SyncSend, handlers
<1>14. CASE AttachRead \/ AttachRequest \/ AttachAdopt \/ AttachNote \/ Drop
  BY <1>12, <1>14 DEF AttachRead, AttachRequest, AttachAdopt, AttachNote, Drop, handlers
<1> QED BY <1>1, <1>4, <1>5, <1>6, <1>7, <1>8, <1>9, <1>10, <1>11, <1>13, <1>14
        DEF ViewportNext

\* The viewport is a window's size, or none.
LEMMA ViewportSized == ViewportInv => TheViewport \in WindowSizes \cup {0}
<1> SUFFICES ASSUME ViewportInv PROVE TheViewport \in WindowSizes \cup {0}
  OBVIOUS
<1> DEFINE theirs == {winSize[v] : v \in viewers} \ {0}
<1>1. winSize \in [Conns -> WindowSizes \cup {0}] /\ viewers \subseteq Conns
  BY DEF ViewportInv, ViewportTyped
<1>2. theirs \subseteq WindowSizes /\ theirs \subseteq Nat
  BY <1>1, ViewportAssumption
<1>3. theirs # {} => Min(theirs) \in theirs
  BY <1>2, MinOfNat
<1> QED BY <1>1, <1>2, <1>3 DEF TheViewport

\* What is declared was read from the viewport.
LEMMA SizesKeep ==
  ASSUME ViewportInv, SizesTyped, ViewportNext
  PROVE  SizesTyped'
<1> USE DEF SizesTyped
<1>1. ASSUME NEW c \in Conns,
               \/ TakeEpoch(c) \/ Preempt(c) \/ Subscribe(c) \/ SetViewerOwner(c)
               \/ \E s \in WindowSizes \cup {0} : SetViewerSize(c, s)
               \/ ReleaseViewerOwner(c) \/ Unsubscribe(c) \/ ClearLoad(c) \/ ClearDelete(c)
      PROVE  SizesTyped'
  <2>1. UNCHANGED <<want, declared, asked, ours>>
    BY <1>1 DEF TakeEpoch, Preempt, Subscribe, SetViewerOwner, SetViewerSize,
       ReleaseViewerOwner, Unsubscribe, ClearLoad, ClearDelete, attachment
  <2> QED BY <2>1
<1>2. ASSUME NEW p \in Procs, SyncRead(p) PROVE SizesTyped'
  BY <1>2, ViewportSized DEF SyncRead, attachment
<1>3. ASSUME NEW p \in Procs, SyncSend(p) PROVE SizesTyped'
  BY <1>3 DEF SyncSend
<1>4. CASE AttachRead \/ AttachRequest \/ AttachAdopt \/ AttachNote \/ Drop
  BY <1>4, ViewportSized DEF AttachRead, AttachRequest, AttachAdopt, AttachNote, Drop
<1> QED BY <1>1, <1>2, <1>3, <1>4 DEF ViewportNext

\* Sizes, epochs and stages keep their types, epochs are no more than the
\* connections, and one goroutine at most is inside geomMu
\* (session_manager.go, session_viewport.go).
THEOREM ViewportTypeCorrect == ViewportSpec => []ViewportTypeOK
<1>1. ViewportInit => EpochsGiven /\ SizesTyped
  BY FS_EmptySet DEF ViewportInit, EpochsGiven, SizesTyped, Begun, Procs
<1>2. ViewportInv /\ EpochsGiven /\ SizesTyped /\ [ViewportNext]_viewportVars
      => EpochsGiven' /\ SizesTyped'
  <2> SUFFICES ASSUME ViewportInv, EpochsGiven, SizesTyped, UNCHANGED viewportVars
               PROVE  EpochsGiven' /\ SizesTyped'
    BY EpochsKeep, SizesKeep
  <2>1. UNCHANGED <<at, epochs, epoch, ownerEpoch, active, cancelled, want, declared, asked, ours>>
    BY DEF viewportVars, preemption, registry, attachment, handlers
  <2> QED BY <2>1 DEF EpochsGiven, SizesTyped, Begun
<1>3. ViewportInv /\ EpochsGiven /\ SizesTyped => ViewportTypeOK
  <2> SUFFICES ASSUME ViewportInv, EpochsGiven, SizesTyped PROVE ViewportTypeOK
    OBVIOUS
  <2>1. epochs \in 0 .. Cardinality(Conns)
    BY ViewportAssumption, FS_Subset, FS_CardinalityType DEF EpochsGiven, Begun
  <2> DEFINE inside == {p \in Procs : sync[p] = "locked"}
  <2>2. Cardinality(inside) <= 1
    <3>1. \A p, q \in inside : p = q
      BY DEF ViewportInv, LocksHold
    <3>2. inside = {} \/ \E p \in inside : inside = {p}
      BY <3>1
    <3> QED BY <3>2, FS_EmptySet, FS_Singleton
  <2>3. /\ viewers \subseteq Conns /\ winSize \in [Conns -> WindowSizes \cup {0}]
        /\ owner \in Conns \cup {NoConn}
    BY DEF ViewportInv, ViewportTyped
  <2> QED BY <2>1, <2>2, <2>3 DEF ViewportTypeOK, EpochsGiven, SizesTyped
<1> QED BY <1>1, <1>2, <1>3, ViewportInvInductive, PTL DEF ViewportSpec

-----------------------------------------------------------------------------
(***************************************************************************)
(* Proofs about Registry, for any set of sessions, any capacity of the     *)
(* event channel and any number of losses and failures.                    *)
(*                                                                         *)
(* Whatever the view lacks, holds too long or shows as running although it *)
(* is over is explained: by a re-read of the list that is still to come, by *)
(* an event that is still under way, by a summary the watcher still has to *)
(* go through, or by a request that will put it right itself.  When all is *)
(* settled none of these is left.                                          *)
(***************************************************************************)
Kinds   == {"created", "exited", "destroyed"}
WatchStages  == {"off", "ack", "list", "adopt", "store", "attach", "loop"}
Objects == [id : Ids, ended : BOOLEAN, pump : BOOLEAN]
InList  == watch \in {"adopt", "store", "attach"}

\* Events were dropped that the watcher has not yet noticed.
Gap == lastSeq < stamp - Len(events)

\* What the watcher will not be told.
Unheard == ~subUp \/ Gap

\* The list will be read again before anything is settled.
Reread == stale \/ Unheard \/ watch \in {"off", "ack", "list"} \/ again

\* The event is still under way.
Coming(kind, id) ==
  \/ Event(kind, id) \in unsent
  \/ \E i \in 1 .. Len(events) : events[i].kind = kind /\ events[i].id = id

-----------------------------------------------------------------------------
(***************************************************************************)
(* The inductive invariant.                                                *)
(***************************************************************************)
SessionsTyped ==
  /\ sessions \in [Ids -> {"none", "alive", "exited", "gone"}]
  /\ unsent \subseteq [kind : Kinds, id : Ids]

\* Events carry consecutive numbers up to the last one given.
ChannelTyped ==
  /\ subUp \in BOOLEAN /\ stamp \in Nat /\ lastSeq \in Nat
  /\ events \in Seq([kind : Kinds, id : Ids, seq : Nat]) /\ Len(events) <= EvCap
  /\ \A i \in 1 .. Len(events) : events[i].seq = stamp - Len(events) + i
  /\ lastSeq <= stamp - Len(events)
  /\ watch # "off" /\ events = <<>> => lastSeq = stamp

WatcherTyped ==
  /\ watch \in WatchStages /\ again \in BOOLEAN /\ stale \in BOOLEAN
  /\ DOMAIN list \subseteq Ids /\ todo \subseteq DOMAIN list
  /\ \A id \in DOMAIN list : list[id] \in BOOLEAN /\ sessions[id] # "none"
  /\ watch = "store" => adoptee.id \in DOMAIN list /\ DOMAIN adoptee = {"id", "obj"}
  /\ watch = "attach" => adoptee.obj \in 1 .. Len(objects)
  /\ watch = "loop" => ~again

ViewTyped ==
  /\ objects \in Seq(Objects) /\ terminalActive \in Int
  /\ view \in [Ids -> 0 .. Len(objects)] /\ IsFiniteSet(Known)
  /\ \A id \in Known : objects[view[id]].id = id /\ sessions[id] # "none"

CallsTyped ==
  /\ creator \in [Ids -> [pc : {"none", "called", "attach", "done"}, obj : Nat]]
  /\ \A id \in Ids :
       /\ creator[id].pc \in {"called", "attach"} => sessions[id] # "none"
       /\ creator[id].pc = "attach" => creator[id].obj \in 1 .. Len(objects)
  /\ destroyer \in [Ids -> [pc : {"none", "called", "absent", "done"}, obj : Nat]]
  /\ \A id \in Ids : destroyer[id].pc \in {"called", "absent"} =>
       destroyer[id].obj \in 1 .. Len(objects) /\ sessions[id] = "gone"

\* A session said to be destroyed is.
NewsTrue == \A id \in Ids : Coming("destroyed", id) => sessions[id] = "gone"

\* What has changed since the list was read is under way.
ListTrue ==
  InList => \A id \in Ids :
    /\ id \in Listed \ DOMAIN list => Unheard \/ Coming("created", id)
    /\ id \in DOMAIN list /\ sessions[id] = "gone" => Unheard \/ Coming("destroyed", id)
    /\ id \in DOMAIN list /\ list[id] /\ sessions[id] = "exited" =>
         Unheard \/ Coming("exited", id)

\* A session that the view lacks will be found,
MissingExplained ==
  \A id \in Listed \ Known :
    \/ Reread \/ Coming("created", id)
    \/ InList /\ (id \in todo \/ (watch = "store" /\ adoptee.id = id))

\* one that is gone will be dropped from it,
GoneExplained ==
  \A id \in Known : sessions[id] = "gone" =>
    \/ Reread \/ Coming("destroyed", id)
    \/ creator[id].pc = "attach" \/ destroyer[id].pc \in {"called", "absent"}
    \/ InList /\ id \notin DOMAIN list

\* and the end of one that has exited will be noticed.
Noticed(k) == objects[k].ended \/ objects[k].pump
ExitExplained ==
  \A id \in Known : sessions[id] = "exited" =>
    \/ Noticed(view[id]) \/ Reread \/ Coming("exited", id)
    \/ creator[id].pc = "attach" /\ creator[id].obj = view[id]
    \/ InList /\ id \in todo /\ ~list[id]

Typed == SessionsTyped /\ ChannelTyped /\ WatcherTyped /\ ViewTyped /\ CallsTyped
Explained == NewsTrue /\ ListTrue /\ MissingExplained /\ GoneExplained /\ ExitExplained
RegistryInv == Typed /\ Explained

-----------------------------------------------------------------------------
(***************************************************************************)
(* The event channel.                                                      *)
(***************************************************************************)
\* How many elements a push drops.
EventsDropped(q, cap) == IF Len(q) < cap THEN 0 ELSE 1

\* A push keeps the elements in their order, the new one last, and drops the
\* first when there is no room.
LEMMA EventPushed ==
  ASSUME NEW S, NEW q \in Seq(S), NEW v \in S, NEW cap \in Nat \ {0}, Len(q) <= cap
  PROVE  /\ PushNewestOnFull(q, cap, v) \in Seq(S) /\ EventsDropped(q, cap) \in {0, 1}
         /\ Len(PushNewestOnFull(q, cap, v)) = Len(q) + 1 - EventsDropped(q, cap)
         /\ Len(q) + 1 - EventsDropped(q, cap) \in 1 .. cap
         /\ PushNewestOnFull(q, cap, v)[Len(q) + 1 - EventsDropped(q, cap)] = v
         /\ \A i \in 1 .. Len(q) - EventsDropped(q, cap) :
              /\ i + EventsDropped(q, cap) \in 1 .. Len(q)
              /\ PushNewestOnFull(q, cap, v)[i] = q[i + EventsDropped(q, cap)]
<1>1. CASE Len(q) < cap
  BY <1>1 DEF PushNewestOnFull, EventsDropped
<1>2. CASE ~(Len(q) < cap)
  <2>1. q # <<>> /\ Tail(q) \in Seq(S) /\ Len(Tail(q)) = Len(q) - 1
    BY <1>2
  <2>2. \A i \in 1 .. Len(q) - 1 : Tail(q)[i] = q[i + 1]
    BY <2>1
  <2>. QED
    BY <1>2, <2>1, <2>2 DEF PushNewestOnFull, EventsDropped
<1>. QED
  BY <1>1, <1>2

\* A broadcast appends the next number, and what it drops leaves a gap.
LEMMA BroadcastKeepsChannel ==
  ASSUME Typed, NEW e \in unsent, BroadcastEvent(e)
  PROVE  /\ ChannelTyped'
         /\ Unheard => Unheard'
         /\ \A kind \in Kinds, id \in Ids :
              /\ Coming(kind, id)' => Coming(kind, id)
              /\ Coming(kind, id) => Coming(kind, id)' \/ Unheard'
<1>. DEFINE Row == [kind : Kinds, id : Ids, seq : Nat]
            v == [kind |-> e.kind, id |-> e.id, seq |-> stamp + 1]
<1>1. /\ stamp \in Nat /\ lastSeq \in Nat /\ events \in Seq(Row) /\ Len(events) \in Nat
      /\ Len(events) <= EvCap /\ EvCap \in Nat \ {0} /\ e \in [kind : Kinds, id : Ids]
      /\ \A i \in 1 .. Len(events) : events[i].seq = stamp - Len(events) + i
      /\ lastSeq <= stamp - Len(events) /\ subUp \in BOOLEAN
      /\ unsent \subseteq [kind : Kinds, id : Ids]
  BY RegistryAssumption DEF Typed, ChannelTyped, SessionsTyped
<1>2. /\ e \in unsent /\ unsent' = unsent \ {e} /\ UNCHANGED <<subUp, watch, lastSeq>>
  BY DEF BroadcastEvent, watcherVars
<1>3. CASE ~subUp
  <2>1. UNCHANGED <<stamp, events>>
    BY <1>3 DEF BroadcastEvent
  <2>2. ChannelTyped'
    BY <1>2, <2>1 DEF Typed, ChannelTyped
  <2>3. \A kind, id : Coming(kind, id)' => Coming(kind, id)
    BY <1>2, <2>1 DEF Coming
  <2>. QED
    BY <1>2, <1>3, <2>1, <2>2, <2>3 DEF Unheard
<1>4. CASE subUp
  <2>1. stamp' = stamp + 1 /\ events' = PushNewestOnFull(events, EvCap, v)
    BY <1>4 DEF BroadcastEvent
  <2>2. v \in Row
    BY <1>1
  <2>. HIDE DEF v, Row
  <2>. DEFINE d == EventsDropped(events, EvCap)
  <2>0. events \in Seq(Row) /\ v \in Row /\ EvCap \in Nat \ {0} /\ Len(events) <= EvCap
    BY <1>1, <2>2
  <2>3. /\ d \in {0, 1} /\ events' \in Seq(Row) /\ Len(events') = Len(events) + 1 - d
        /\ Len(events) + 1 - d \in 1 .. EvCap /\ events'[Len(events')] = v
        /\ \A i \in 1 .. Len(events) - d :
             i + d \in 1 .. Len(events) /\ events'[i] = events[i + d]
    <3>. DEFINE r == PushNewestOnFull(events, EvCap, v)
    <3>1. /\ d \in {0, 1} /\ r \in Seq(Row) /\ Len(r) = Len(events) + 1 - d
          /\ Len(events) + 1 - d \in 1 .. EvCap /\ r[Len(events) + 1 - d] = v
          /\ \A i \in 1 .. Len(events) - d :
               i + d \in 1 .. Len(events) /\ r[i] = events[i + d]
      BY ONLY <2>0, EventPushed
    <3>2. events' = r
      BY <2>1
    <3>. HIDE DEF r, d
    <3>. QED
      BY ONLY <3>1, <3>2
  <2>. HIDE DEF d
  <2>4. Len(events') \in 1 .. EvCap /\ Len(events') \in Nat
    BY <1>1, <2>3
  <2>v. v.kind = e.kind /\ v.id = e.id /\ v.seq = stamp + 1
    BY DEF v
  <2>5. \A i \in 1 .. Len(events') : events'[i].seq = stamp' - Len(events') + i
    <3>. SUFFICES ASSUME NEW i \in 1 .. Len(events')
                  PROVE  events'[i].seq = stamp' - Len(events') + i
      OBVIOUS
    <3>1. CASE i = Len(events')
      BY <1>1, <2>1, <2>3, <2>4, <2>v, <3>1
    <3>2. CASE i # Len(events')
      <4>0. i \in 1 .. Len(events) - d
        BY <1>1, <2>3, <2>4, <3>2
      <4>1. i + d \in 1 .. Len(events) /\ events'[i] = events[i + d]
        BY <2>3, <4>0
      <4>2. events[i + d].seq = stamp - Len(events) + (i + d)
        BY <1>1, <4>1
      <4>. QED
        BY <1>1, <2>1, <2>3, <2>4, <4>1, <4>2
    <3>. QED
      BY <3>1, <3>2
  <2>6. lastSeq' <= stamp' - Len(events') /\ (Gap => Gap') /\ (d = 1 => Gap')
    BY <1>1, <1>2, <2>1, <2>3, <2>4 DEF Gap
  <2>7. ChannelTyped'
    <3>1. events' # <<>>
      BY <2>4
    <3>. QED
      BY <1>1, <1>2, <2>1, <2>3, <2>4, <2>5, <2>6, <3>1 DEF ChannelTyped, Row
  <2>8. ASSUME NEW kind \in Kinds, NEW id \in Ids, Coming(kind, id)'
        PROVE  Coming(kind, id)
    <3>1. CASE Event(kind, id) \in unsent'
      BY <1>2, <3>1 DEF Coming
    <3>2. CASE \E i \in 1 .. Len(events') : events'[i].kind = kind /\ events'[i].id = id
      <4>1. PICK i \in 1 .. Len(events') : events'[i].kind = kind /\ events'[i].id = id
        BY <3>2
      <4>2. CASE i = Len(events')
        <5>1. e.kind = kind /\ e.id = id
          BY <2>3, <2>v, <4>1, <4>2
        <5>2. e = Event(kind, id)
          BY <1>1, <5>1 DEF Event
        <5>. QED
          BY <1>2, <5>2 DEF Coming
      <4>3. CASE i # Len(events')
        <5>1. i \in 1 .. Len(events) - d
          BY <1>1, <2>3, <2>4, <4>1, <4>3
        <5>2. i + d \in 1 .. Len(events) /\ events'[i] = events[i + d]
          BY <2>3, <5>1
        <5>. QED
          BY <4>1, <5>2 DEF Coming
      <4>. QED
        BY <4>2, <4>3
    <3>. QED
      BY <2>8, <3>1, <3>2 DEF Coming
  <2>9. ASSUME NEW kind \in Kinds, NEW id \in Ids, Coming(kind, id)
        PROVE  Coming(kind, id)' \/ Unheard'
    <3>1. CASE Event(kind, id) \in unsent
      <4>1. CASE e = Event(kind, id)
        <5>1. events'[Len(events')].kind = kind /\ events'[Len(events')].id = id
          BY <2>3, <2>v, <4>1 DEF Event
        <5>. QED
          BY <2>4, <5>1 DEF Coming
      <4>2. CASE e # Event(kind, id)
        BY <1>2, <3>1, <4>2 DEF Coming
      <4>. QED
        BY <4>1, <4>2
    <3>2. CASE \E i \in 1 .. Len(events) : events[i].kind = kind /\ events[i].id = id
      <4>1. PICK i \in 1 .. Len(events) : events[i].kind = kind /\ events[i].id = id
        BY <3>2
      <4>2. CASE d = 1
        BY <2>6, <4>2 DEF Unheard
      <4>3. CASE d = 0
        <5>1. i \in 1 .. Len(events) - d
          BY <1>1, <2>3, <4>1, <4>3
        <5>2. events'[i] = events[i + d] /\ i + d = i
          BY <2>3, <4>3, <5>1
        <5>3. i \in 1 .. Len(events')
          BY <1>1, <2>3, <5>1
        <5>. QED
          BY <4>1, <5>2, <5>3 DEF Coming
      <4>. QED
        BY <2>3, <4>2, <4>3
    <3>. QED
      BY <2>9, <3>1, <3>2 DEF Coming
  <2>. QED
    BY <1>2, <2>6, <2>7, <2>8, <2>9 DEF Unheard
<1>. QED
  BY <1>1, <1>3, <1>4

\* Taking an event leaves the others; a number that is not the next one shows
\* a gap, and the watcher has caught up with what was dropped before.
LEMMA TakeEventKeepsChannel ==
  ASSUME Typed, TakeEvent
  PROVE  LET e == Head(events) IN
         /\ ChannelTyped' /\ e \in [kind : Kinds, id : Ids, seq : Nat]
         /\ Missed(lastSeq, e.seq) <=> Gap
         /\ ~Gap'
         /\ Coming(e.kind, e.id)
         /\ \A kind \in Kinds, id \in Ids :
              /\ Coming(kind, id)' => Coming(kind, id)
              /\ Coming(kind, id) => Coming(kind, id)' \/ (kind = e.kind /\ id = e.id)
<1>. DEFINE Row == [kind : Kinds, id : Ids, seq : Nat]
            e == Head(events)
<1>0. e = Head(events)
  OBVIOUS
<1>1. /\ stamp \in Nat /\ lastSeq \in Nat /\ events \in Seq(Row) /\ Len(events) \in Nat
      /\ Len(events) <= EvCap /\ EvCap \in Nat
      /\ \A i \in 1 .. Len(events) : events[i].seq = stamp - Len(events) + i
      /\ lastSeq <= stamp - Len(events) /\ subUp \in BOOLEAN
  BY RegistryAssumption DEF Typed, ChannelTyped
<1>2. /\ events # <<>> /\ events' = Tail(events) /\ lastSeq' = e.seq
      /\ UNCHANGED <<subUp, stamp, unsent>> /\ watch = "loop"
  BY DEF TakeEvent, daemonVars
<1>. HIDE DEF e, Row
<1>3. Len(events) >= 1 /\ e = events[1] /\ e \in Row
  <2>1. Len(events) >= 1
    BY <1>1, <1>2
  <2>2. events[1] \in Row
    BY <1>1, <2>1
  <2>3. e = events[1]
    BY <1>0, <1>1, <1>2
  <2>. QED
    BY <2>1, <2>2, <2>3
<1>4. e.seq = stamp - Len(events) + 1 /\ e.seq \in Nat
  BY <1>1, <1>3 DEF Row
<1>5. /\ events' \in Seq(Row) /\ Len(events') = Len(events) - 1
      /\ \A i \in 1 .. Len(events') : events'[i] = events[i + 1]
  BY <1>1, <1>2, <1>3
<1>6. \A i \in 1 .. Len(events') : events'[i].seq = stamp' - Len(events') + i
  <2>. SUFFICES ASSUME NEW i \in 1 .. Len(events')
                PROVE  events'[i].seq = stamp' - Len(events') + i
    OBVIOUS
  <2>1. i + 1 \in 1 .. Len(events) /\ events'[i] = events[i + 1]
    BY <1>1, <1>5
  <2>2. events[i + 1].seq = stamp - Len(events) + (i + 1)
    BY <1>1, <2>1
  <2>. QED
    BY <1>1, <1>2, <1>5, <2>1, <2>2
<1>7. lastSeq' = stamp' - Len(events')
  BY <1>1, <1>2, <1>4, <1>5
<1>8. Missed(lastSeq, e.seq) <=> Gap
  BY <1>1, <1>4 DEF Missed, Gap
<1>9. ~Gap'
  BY <1>1, <1>2, <1>5, <1>7 DEF Gap
<1>10. ChannelTyped'
  <2>1. events' = <<>> => Len(events') = 0
    OBVIOUS
  <2>2. Len(events') <= EvCap /\ lastSeq' <= stamp' - Len(events') /\ lastSeq' \in Nat
    BY <1>1, <1>2, <1>4, <1>5, <1>7
  <2>3. events' = <<>> => lastSeq' = stamp'
    BY <1>1, <1>2, <1>7, <2>1
  <2>4. subUp' \in BOOLEAN /\ stamp' \in Nat
    BY <1>1, <1>2
  <2>. QED
    BY <1>5, <1>6, <2>2, <2>3, <2>4 DEF ChannelTyped, Row
<1>11. \A kind \in Kinds, id \in Ids : Coming(kind, id)' => Coming(kind, id)
  BY <1>1, <1>2, <1>5 DEF Coming
<1>12. ASSUME NEW kind \in Kinds, NEW id \in Ids, Coming(kind, id)
       PROVE  Coming(kind, id)' \/ (kind = e.kind /\ id = e.id)
  <2>1. CASE Event(kind, id) \in unsent
    BY <1>2, <2>1 DEF Coming
  <2>2. CASE \E i \in 1 .. Len(events) : events[i].kind = kind /\ events[i].id = id
    <3>1. PICK i \in 1 .. Len(events) : events[i].kind = kind /\ events[i].id = id
      BY <2>2
    <3>2. CASE i = 1
      BY <1>3, <3>1, <3>2
    <3>3. CASE i # 1
      <4>1. i - 1 \in 1 .. Len(events') /\ events'[i - 1] = events[i]
        BY <1>1, <1>5, <3>1, <3>3
      <4>. QED
        BY <3>1, <4>1 DEF Coming
    <3>. QED
      BY <3>2, <3>3
  <2>. QED
    BY <1>12, <2>1, <2>2 DEF Coming
<1>13. Coming(e.kind, e.id)
  BY <1>1, <1>3 DEF Coming
<1>. QED
  BY <1>3, <1>8, <1>9, <1>10, <1>11, <1>12, <1>13 DEF e, Row

-----------------------------------------------------------------------------
(***************************************************************************)
(* Types.                                                                  *)
(***************************************************************************)
\* No session goes back.
Onward == \A id \in Ids : /\ sessions[id] # "none" => sessions'[id] # "none"
                          /\ sessions[id] = "gone" => sessions'[id] = "gone"
NoObjectLost == Len(objects) \in Nat /\ Len(objects') \in Nat /\ Len(objects) <= Len(objects')

LEMMA KeepsSessions ==
  ASSUME Typed, UNCHANGED daemonVars
  PROVE  SessionsTyped' /\ Onward
  BY DEF Typed, SessionsTyped, daemonVars, Onward

LEMMA KeepsChannel ==
  ASSUME Typed, UNCHANGED <<channelVars, lastSeq>>, watch' # "off" => watch # "off"
  PROVE  ChannelTyped'
  BY DEF Typed, ChannelTyped, channelVars

LEMMA KeepsWatcher ==
  ASSUME Typed, Onward, NoObjectLost, UNCHANGED <<watcherVars, stale>>
  PROVE  WatcherTyped'
<1>1. \A id \in DOMAIN list : list[id] \in BOOLEAN /\ sessions'[id] # "none"
  BY DEF Typed, WatcherTyped, Onward
<1>2. watch = "attach" => adoptee.obj \in 1 .. Len(objects')
  BY DEF Typed, WatcherTyped, NoObjectLost
<1>. QED
  BY <1>1, <1>2 DEF Typed, WatcherTyped, watcherVars

LEMMA KeepsView ==
  ASSUME Typed, Onward, UNCHANGED serverVars
  PROVE  ViewTyped' /\ NoObjectLost
<1>1. Known' = Known
  BY DEF Known, serverVars
<1>. QED
  BY <1>1 DEF Typed, ViewTyped, Onward, NoObjectLost, serverVars, Known

LEMMA KeepsCalls ==
  ASSUME Typed, Onward, NoObjectLost, UNCHANGED callVars
  PROVE  CallsTyped'
<1>1. \A id \in Ids : creator[id].pc = "attach" => creator[id].obj \in 1 .. Len(objects')
  BY DEF Typed, CallsTyped, NoObjectLost
<1>2. \A id \in Ids : destroyer[id].pc \in {"called", "absent"} =>
        destroyer[id].obj \in 1 .. Len(objects') /\ sessions'[id] = "gone"
  BY DEF Typed, CallsTyped, NoObjectLost, Onward
<1>3. \A id \in Ids : creator[id].pc \in {"called", "attach"} => sessions'[id] # "none"
  BY DEF Typed, CallsTyped, Onward
<1>. QED
  BY <1>1, <1>2, <1>3 DEF Typed, CallsTyped, callVars

\* One entry of the view is set or cleared.
LEMMA KnownStaysFinite ==
  ASSUME Typed, NEW id \in Ids, NEW S \in SUBSET Ids, S \subseteq Known \cup {id}
  PROVE  IsFiniteSet(S)
  BY FS_AddElement, FS_Subset DEF Typed, ViewTyped

LEMMA SpawnKeeps ==
  ASSUME Typed, NEW id \in Ids, Spawn(id)
  PROVE  /\ SessionsTyped' /\ Onward /\ sessions'[id] = "alive"
         /\ \A j \in Ids : j # id => sessions'[j] = sessions[j]
<1>1. Event("created", id) \in [kind : Kinds, id : Ids]
  BY DEF Event, Kinds
<1>2. /\ sessions \in [Ids -> {"none", "alive", "exited", "gone"}] /\ sessions[id] = "none"
      /\ sessions' = [sessions EXCEPT ![id] = "alive"]
  BY DEF Spawn, Typed, SessionsTyped
<1>. QED
  BY <1>1, <1>2 DEF Spawn, Typed, SessionsTyped, Onward

LEMMA RemoveKeeps ==
  ASSUME Typed, NEW id \in Listed, Remove(id)
  PROVE  /\ SessionsTyped' /\ Onward /\ sessions'[id] = "gone" /\ id \in Ids
         /\ \A j \in Ids : j # id => sessions'[j] = sessions[j]
<1>1. \A kind \in Kinds : Event(kind, id) \in [kind : Kinds, id : Ids]
  BY DEF Event, Listed
<1>2. /\ sessions \in [Ids -> {"none", "alive", "exited", "gone"}]
      /\ sessions[id] \in {"alive", "exited"} /\ id \in Ids
      /\ sessions' = [sessions EXCEPT ![id] = "gone"]
  BY DEF Remove, Typed, SessionsTyped, Listed
<1>3. unsent' \subseteq [kind : Kinds, id : Ids]
  BY <1>1 DEF Remove, Typed, SessionsTyped, Kinds
<1>. QED
  BY <1>2, <1>3 DEF SessionsTyped, Onward

LEMMA MakeKeeps ==
  ASSUME Typed, NEW id \in Ids, sessions[id] # "none", NEW ended \in BOOLEAN,
         Make(id, ended), UNCHANGED sessions
  PROVE  /\ ViewTyped' /\ NoObjectLost /\ Len(objects') = Len(objects) + 1
         /\ view' = [view EXCEPT ![id] = Len(objects) + 1]
         /\ objects'[Len(objects) + 1].ended = ended
         /\ objects'[Len(objects) + 1].pump = FALSE
         /\ \A k \in 1 .. Len(objects) : objects'[k] = objects[k]
<1>. DEFINE o == [id |-> id, ended |-> ended, pump |-> FALSE]
<1>1. /\ objects \in Seq(Objects) /\ Len(objects) \in Nat /\ terminalActive \in Int
      /\ view \in [Ids -> 0 .. Len(objects)]
      /\ \A j \in Ids : view[j] # 0 => objects[view[j]].id = j /\ sessions[j] # "none"
  BY DEF Typed, ViewTyped, Known
<1>2. /\ objects' = Append(objects, o) /\ view' = [view EXCEPT ![id] = Len(objects) + 1]
      /\ terminalActive' = terminalActive + 1
  BY DEF Make
<1>3. o \in Objects /\ o.id = id /\ o.ended = ended /\ o.pump = FALSE
  BY DEF Objects
<1>. HIDE DEF o
<1>4. /\ objects' \in Seq(Objects) /\ Len(objects') = Len(objects) + 1
      /\ objects'[Len(objects) + 1] = o
      /\ \A k \in 1 .. Len(objects) : objects'[k] = objects[k]
  BY <1>1, <1>2, <1>3
<1>5. view' \in [Ids -> 0 .. Len(objects')]
  BY <1>1, <1>2, <1>4
<1>6. Known' \subseteq Known \cup {id} /\ Known' \in SUBSET Ids
  BY <1>1, <1>2 DEF Known
<1>7. IsFiniteSet(Known')
  BY <1>6, KnownStaysFinite
<1>8. ASSUME NEW j \in Known'
      PROVE  objects'[view'[j]].id = j /\ sessions'[j] # "none"
  <2>1. CASE j = id
    BY <1>1, <1>2, <1>3, <1>4, <2>1
  <2>2. CASE j # id
    <3>1. j \in Ids /\ view'[j] = view[j] /\ view[j] \in 1 .. Len(objects)
      BY <1>1, <1>2, <2>2 DEF Known
    <3>. QED
      BY <1>1, <1>4, <3>1
  <2>. QED
    BY <2>1, <2>2
<1>9. ViewTyped'
  <2>1. terminalActive' \in Int
    BY <1>1, <1>2
  <2>. QED
    BY <1>4, <1>5, <1>7, <1>8, <2>1 DEF ViewTyped
<1>10. NoObjectLost
  BY <1>1, <1>4 DEF NoObjectLost
<1>11. objects'[Len(objects) + 1].ended = ended /\ objects'[Len(objects) + 1].pump = FALSE
  BY ONLY <1>3, <1>4
<1>. QED
  BY <1>2, <1>4, <1>9, <1>10, <1>11

LEMMA ForgetKeeps ==
  ASSUME Typed, NEW ids \in SUBSET Known, Forget(ids), UNCHANGED sessions
  PROVE  /\ ViewTyped' /\ NoObjectLost /\ Len(objects') = Len(objects)
         /\ Known' = Known \ ids
         /\ \A j \in Ids : view'[j] = IF j \in ids THEN 0 ELSE view[j]
         /\ \A k \in 1 .. Len(objects) : /\ objects'[k].pump = objects[k].pump
                                         /\ objects[k].ended => objects'[k].ended
<1>1. /\ objects \in Seq(Objects) /\ Len(objects) \in Nat /\ terminalActive \in Int
      /\ view \in [Ids -> 0 .. Len(objects)] /\ IsFiniteSet(Known) /\ Known \subseteq Ids
      /\ \A j \in Ids : view[j] # 0 => objects[view[j]].id = j /\ sessions[j] # "none"
  BY DEF Typed, ViewTyped, Known
<1>2. /\ view' = [j \in Ids |-> IF j \in ids THEN 0 ELSE view[j]]
      /\ objects' = [k \in DOMAIN objects |->
                       [objects[k] EXCEPT !.ended = @ \/ \E j \in ids : view[j] = k]]
      /\ terminalActive' = terminalActive - Cardinality(ids)
  BY DEF Forget
<1>3. DOMAIN objects = 1 .. Len(objects) /\ \A k \in 1 .. Len(objects) : objects[k] \in Objects
  BY <1>1
<1>4. \A k \in 1 .. Len(objects) :
        /\ objects'[k] \in Objects /\ objects'[k].id = objects[k].id
        /\ objects'[k].pump = objects[k].pump /\ (objects[k].ended => objects'[k].ended)
  <2>. SUFFICES ASSUME NEW k \in 1 .. Len(objects)
                PROVE  /\ objects'[k] \in Objects /\ objects'[k].id = objects[k].id
                       /\ objects'[k].pump = objects[k].pump
                       /\ (objects[k].ended => objects'[k].ended)
    OBVIOUS
  <2>1. objects'[k] = [objects[k] EXCEPT !.ended = @ \/ \E j \in ids : view[j] = k]
    BY <1>2, <1>3
  <2>2. objects[k] \in Objects
    BY <1>3
  <2>. HIDE <1>1, <1>2
  <2>. QED
    BY <2>1, <2>2 DEF Objects
<1>5. objects' \in Seq(Objects) /\ Len(objects') = Len(objects)
  <2>1. objects' \in [1 .. Len(objects) -> Objects]
    <3>1. DOMAIN objects' = 1 .. Len(objects)
      BY <1>2, <1>3
    <3>2. objects' = [k \in 1 .. Len(objects) |-> objects'[k]]
      BY <1>2, <1>3
    <3>. QED
      BY <1>4, <3>1, <3>2
  <2>. QED
    BY ONLY <1>1, <2>1
<1>6. Cardinality(ids) \in Nat
  BY <1>1, FS_Subset, FS_CardinalityType
<1>7. /\ view' \in [Ids -> 0 .. Len(objects')] /\ Known' = Known \ ids
      /\ \A j \in Ids : view'[j] = IF j \in ids THEN 0 ELSE view[j]
  BY <1>1, <1>2, <1>5 DEF Known
<1>8. IsFiniteSet(Known')
  BY <1>1, <1>7, FS_Subset
<1>9. \A j \in Known' : objects'[view'[j]].id = j /\ sessions'[j] # "none"
  <2>. SUFFICES ASSUME NEW j \in Known'
                PROVE  objects'[view'[j]].id = j /\ sessions'[j] # "none"
    OBVIOUS
  <2>1. j \in Ids /\ view'[j] = view[j] /\ view[j] \in 1 .. Len(objects)
    BY <1>1, <1>7 DEF Known
  <2>. QED
    BY <1>1, <1>4, <2>1
<1>10. ViewTyped'
  <2>1. terminalActive' \in Int
    BY <1>1, <1>2, <1>6
  <2>2. view' \in [Ids -> 0 .. Len(objects')]
    BY <1>7
  <2>. QED
    BY <1>5, <1>8, <1>9, <2>1, <2>2 DEF ViewTyped
<1>11. NoObjectLost
  BY <1>1, <1>5 DEF NoObjectLost
<1>. QED
  BY <1>4, <1>5, <1>7, <1>10, <1>11

\* One object is marked.
LEMMA MarkKeeps ==
  ASSUME Typed, NEW k \in 1 .. Len(objects), NEW e \in BOOLEAN, NEW p \in BOOLEAN,
         objects' = [objects EXCEPT ![k].ended = e, ![k].pump = p], UNCHANGED sessions,
         terminalActive' \in Int, view' \in [Ids -> 0 .. Len(objects)],
         \A j \in Ids : view'[j] \in {0, view[j]}
  PROVE  /\ ViewTyped' /\ NoObjectLost /\ Len(objects') = Len(objects)
         /\ objects'[k].ended = e /\ objects'[k].pump = p
         /\ \A m \in 1 .. Len(objects) : m # k => objects'[m] = objects[m]
<1>1. /\ objects \in Seq(Objects) /\ Len(objects) \in Nat
      /\ view \in [Ids -> 0 .. Len(objects)] /\ IsFiniteSet(Known) /\ Known \subseteq Ids
      /\ \A j \in Ids : view[j] # 0 => objects[view[j]].id = j /\ sessions[j] # "none"
  BY DEF Typed, ViewTyped, Known
<1>2. objects[k] \in Objects /\ DOMAIN objects = 1 .. Len(objects)
  BY <1>1
<1>3. \A m \in 1 .. Len(objects) : m # k => objects'[m] = objects[m]
  BY <1>2
<1>4. /\ objects'[k] \in Objects /\ objects'[k].id = objects[k].id
      /\ objects'[k].ended = e /\ objects'[k].pump = p
  BY <1>2 DEF Objects
<1>5. objects' \in Seq(Objects) /\ Len(objects') = Len(objects)
  <2>1. objects' \in [1 .. Len(objects) -> Objects]
    <3>1. DOMAIN objects' = 1 .. Len(objects)
      BY <1>2
    <3>2. \A m \in 1 .. Len(objects) : objects'[m] \in Objects
      <4>1. \A m \in 1 .. Len(objects) : objects[m] \in Objects
        BY <1>1
      <4>. QED
        BY <1>3, <1>4, <4>1
    <3>3. objects' = [m \in 1 .. Len(objects) |-> objects'[m]]
      BY <1>2
    <3>. QED
      BY <3>1, <3>2, <3>3
  <2>. QED
    BY ONLY <1>1, <2>1
<1>6. Known' \subseteq Known
  BY <1>1 DEF Known
<1>7. IsFiniteSet(Known')
  BY <1>1, <1>6, FS_Subset
<1>8. \A j \in Known' : objects'[view'[j]].id = j /\ sessions'[j] # "none"
  <2>. SUFFICES ASSUME NEW j \in Known'
                PROVE  objects'[view'[j]].id = j /\ sessions'[j] # "none"
    OBVIOUS
  <2>1. j \in Ids /\ view'[j] = view[j] /\ view[j] \in 1 .. Len(objects)
    BY <1>1 DEF Known
  <2>2. objects'[view[j]].id = objects[view[j]].id
    BY <1>3, <1>4, <2>1
  <2>. QED
    BY <1>1, <2>1, <2>2
<1>9. ViewTyped'
  BY <1>5, <1>7, <1>8 DEF ViewTyped
<1>10. NoObjectLost
  BY <1>1, <1>5 DEF NoObjectLost
<1>. QED
  BY <1>3, <1>4, <1>5, <1>9, <1>10

-----------------------------------------------------------------------------
(***************************************************************************)
(* The explanations: what the steps of the daemon, of the requests, and of *)
(* the channel leave of them.                                              *)
(***************************************************************************)
\* Who reads nothing new explains nothing away.
LEMMA SameNews ==
  ASSUME UNCHANGED <<unsent, events>>
  PROVE  \A kind, id : Coming(kind, id)' <=> Coming(kind, id)
  BY DEF Coming

\* A step of the daemon's: session id becomes s, and that is announced.
LEMMA DaemonMoves ==
  ASSUME Typed, Explained, NEW id \in Ids, NEW s,
         sessions' = [sessions EXCEPT ![id] = s], unsent \subseteq unsent',
         \A j \in Ids : Event("destroyed", j) \in unsent' =>
           Event("destroyed", j) \in unsent \/ (j = id /\ s = "gone"),
         sessions[id] # "gone",
         \/ s = "alive" /\ Event("created", id) \in unsent'
         \/ s = "exited" /\ sessions[id] = "alive" /\ Event("exited", id) \in unsent'
         \/ s = "gone" /\ Event("destroyed", id) \in unsent',
         UNCHANGED <<channelVars, watcherVars, stale, objects>>,
         s = "alive" => id \notin DOMAIN list,
         view' \in [Ids -> Nat],
         \A j \in Ids : view'[j] = view[j] \/ (j = id /\ s = "gone" /\ view'[j] = 0),
         \A j \in Known' : creator[j].pc = "attach" => creator'[j] = creator[j],
         \A j \in Ids : destroyer[j].pc \in {"called", "absent"} => destroyer'[j] = destroyer[j]
  PROVE  Explained'
<1>1. \A kind, j : Coming(kind, j) => Coming(kind, j)'
  BY DEF Coming, channelVars
<1>2. /\ (Gap' <=> Gap) /\ (Unheard' <=> Unheard) /\ (Reread' <=> Reread) /\ (InList' <=> InList)
  BY DEF Gap, Unheard, Reread, InList, channelVars, watcherVars
<1>3. /\ sessions \in [Ids -> {"none", "alive", "exited", "gone"}]
      /\ sessions'[id] = s /\ \A j \in Ids : j # id => sessions'[j] = sessions[j]
  BY DEF Typed, SessionsTyped
<1>4. UNCHANGED <<events, list, todo, adoptee, watch, objects>>
  BY DEF channelVars, watcherVars
<1>5. /\ s = "alive" => Coming("created", id)'
      /\ s = "exited" => Coming("exited", id)'
      /\ s = "gone" => Coming("destroyed", id)'
  BY DEF Coming
<1>6. s \in {"alive", "exited", "gone"}
  OBVIOUS
<1>7. NewsTrue'
  <2>. SUFFICES ASSUME NEW j \in Ids, Coming("destroyed", j)'
                PROVE  sessions'[j] = "gone"
    BY DEF NewsTrue
  <2>1. Coming("destroyed", j) \/ (j = id /\ s = "gone")
    BY <1>4 DEF Coming
  <2>2. Coming("destroyed", j) => sessions[j] = "gone"
    BY DEF Explained, NewsTrue
  <2>. QED
    BY <1>3, <2>1, <2>2
<1>8. ListTrue'
  <2>. SUFFICES ASSUME InList', NEW j \in Ids
                PROVE  /\ j \in Listed' \ DOMAIN list' => Unheard' \/ Coming("created", j)'
                       /\ j \in DOMAIN list' /\ sessions'[j] = "gone" =>
                            Unheard' \/ Coming("destroyed", j)'
                       /\ j \in DOMAIN list' /\ list'[j] /\ sessions'[j] = "exited" =>
                            Unheard' \/ Coming("exited", j)'
    BY DEF ListTrue
  <2>1. /\ j \in Listed \ DOMAIN list => Unheard \/ Coming("created", j)
        /\ j \in DOMAIN list /\ sessions[j] = "gone" => Unheard \/ Coming("destroyed", j)
        /\ j \in DOMAIN list /\ list[j] /\ sessions[j] = "exited" =>
             Unheard \/ Coming("exited", j)
    BY <1>2 DEF Explained, ListTrue
  <2>2. CASE j # id
    <3>1. j \in Listed' <=> j \in Listed
      BY <1>3, <2>2 DEF Listed
    <3>. QED
      BY <1>1, <1>2, <1>3, <1>4, <2>1, <2>2, <3>1
  <2>3. CASE j = id
    <3>1. s = "exited" => j \in Listed
      BY <1>3, <2>3 DEF Listed
    <3>2. j \in Listed' => s \in {"alive", "exited"}
      BY <1>3, <2>3 DEF Listed
    <3>. QED
      BY <1>1, <1>2, <1>3, <1>4, <1>5, <2>1, <2>3, <3>1, <3>2
  <2>. QED
    BY <2>2, <2>3
<1>9. MissingExplained'
  <2>. SUFFICES ASSUME NEW j \in Listed' \ Known'
                PROVE  \/ Reread' \/ Coming("created", j)'
                       \/ InList' /\ (j \in todo' \/ (watch' = "store" /\ adoptee'.id = j))
    BY DEF MissingExplained
  <2>1. j \in Ids /\ (s # "gone" \/ j # id)
    <3>1. j \in Ids /\ sessions'[j] \in {"alive", "exited"}
      BY DEF Listed
    <3>2. sessions'[id] = s
      BY <1>3
    <3>. QED
      BY <3>1, <3>2
  <2>2. j \notin Known
    BY <2>1 DEF Known
  <2>3. j \in Listed \/ (j = id /\ s = "alive")
    BY <1>3, <1>6, <2>1 DEF Listed
  <2>4. CASE j \in Listed
    BY <1>1, <1>2, <1>4, <2>2, <2>4 DEF Explained, MissingExplained
  <2>5. CASE j = id /\ s = "alive"
    BY <1>5, <2>5
  <2>. QED
    BY <2>3, <2>4, <2>5
<1>10. GoneExplained'
  <2>. SUFFICES ASSUME NEW j \in Known', sessions'[j] = "gone"
                PROVE  \/ Reread' \/ Coming("destroyed", j)'
                       \/ creator'[j].pc = "attach" \/ destroyer'[j].pc \in {"called", "absent"}
                       \/ InList' /\ j \notin DOMAIN list'
    BY DEF GoneExplained
  <2>1. j \in Ids /\ j \in Known
    BY DEF Known
  <2>2. CASE j = id
    BY <1>3, <1>5, <2>2
  <2>3. CASE j # id
    <3>1. sessions[j] = "gone"
      BY <1>3, <2>1, <2>3
    <3>2. creator[j].pc = "attach" => creator'[j] = creator[j]
      OBVIOUS
    <3>3. destroyer[j].pc \in {"called", "absent"} => destroyer'[j] = destroyer[j]
      BY <2>1
    <3>. QED
      BY <1>1, <1>2, <1>4, <2>1, <3>1, <3>2, <3>3 DEF Explained, GoneExplained
  <2>. QED
    BY <2>2, <2>3
<1>11. ExitExplained'
  <2>. SUFFICES ASSUME NEW j \in Known', sessions'[j] = "exited"
                PROVE  \/ Noticed(view[j])' \/ Reread' \/ Coming("exited", j)'
                       \/ creator'[j].pc = "attach" /\ creator'[j].obj = view'[j]
                       \/ InList' /\ j \in todo' /\ ~list'[j]
    BY DEF ExitExplained
  <2>1. j \in Ids /\ j \in Known /\ view'[j] = view[j]
    BY DEF Known
  <2>2. CASE j = id
    BY <1>3, <1>5, <2>2
  <2>3. CASE j # id
    <3>1. sessions[j] = "exited"
      BY <1>3, <2>1, <2>3
    <3>2. creator[j].pc = "attach" => creator'[j] = creator[j]
      OBVIOUS
    <3>3. Noticed(view[j]) => Noticed(view[j])'
      BY <1>4, <2>1 DEF Noticed
    <3>. QED
      BY <1>1, <1>2, <1>4, <2>1, <3>1, <3>2, <3>3 DEF Explained, ExitExplained
  <2>. QED
    BY <2>2, <2>3
<1>. QED
  BY <1>7, <1>8, <1>9, <1>10, <1>11 DEF Explained

\* A step of a request or a pump, which hears and says nothing.
LEMMA ServerMoves ==
  ASSUME Typed, Explained, UNCHANGED <<daemonVars, channelVars, watcherVars, stale>>,
         view' \in [Ids -> Nat],
         \A j \in Ids :
           \/ view'[j] = view[j]
           \/ view'[j] = 0 /\ j \notin Listed
           \/ view[j] = 0 /\ creator'[j].pc = "attach" /\ creator'[j].obj = view'[j],
         \A k \in 1 .. Len(objects) : Noticed(k) => Noticed(k)',
         \A j \in Known' : creator[j].pc = "attach" =>
           \/ creator'[j] = creator[j]
           \/ sessions[j] # "gone" /\ \A k : k = creator[j].obj => Noticed(k)',
         \A j \in Known' : destroyer[j].pc \in {"called", "absent"} =>
           destroyer'[j] = destroyer[j]
  PROVE  Explained'
<1>1. \A kind, j : Coming(kind, j)' <=> Coming(kind, j)
  BY SameNews DEF daemonVars, channelVars
<1>2. /\ (Gap' <=> Gap) /\ (Unheard' <=> Unheard) /\ (Reread' <=> Reread) /\ (InList' <=> InList)
  BY DEF Gap, Unheard, Reread, InList, channelVars, watcherVars
<1>3. UNCHANGED <<sessions, list, todo, adoptee, watch>> /\ Listed' = Listed
  BY DEF daemonVars, watcherVars, Listed
<1>4. view \in [Ids -> 0 .. Len(objects)] /\ Len(objects) \in Nat
  BY DEF Typed, ViewTyped
<1>5. NewsTrue'
  BY <1>1, <1>3 DEF Explained, NewsTrue
<1>6. ListTrue'
  BY <1>1, <1>2, <1>3 DEF Explained, ListTrue
<1>7. MissingExplained'
  <2>. SUFFICES ASSUME NEW j \in Listed' \ Known'
                PROVE  \/ Reread' \/ Coming("created", j)'
                       \/ InList' /\ (j \in todo' \/ (watch' = "store" /\ adoptee'.id = j))
    BY DEF MissingExplained
  <2>1. j \in Ids /\ j \in Listed /\ view'[j] = 0
    BY <1>3 DEF Listed, Known
  <2>2. j \notin Known
    BY <2>1 DEF Known
  <2>. QED
    BY <1>1, <1>2, <1>3, <2>1, <2>2 DEF Explained, MissingExplained
<1>8. GoneExplained'
  <2>. SUFFICES ASSUME NEW j \in Known', sessions'[j] = "gone"
                PROVE  \/ Reread' \/ Coming("destroyed", j)'
                       \/ creator'[j].pc = "attach" \/ destroyer'[j].pc \in {"called", "absent"}
                       \/ InList' /\ j \notin DOMAIN list'
    BY DEF GoneExplained
  <2>1. j \in Ids /\ view'[j] # 0 /\ sessions[j] = "gone"
    BY <1>3 DEF Known
  <2>2. CASE view[j] = 0
    BY <2>1, <2>2
  <2>3. CASE view[j] # 0
    <3>1. j \in Known
      BY <2>1, <2>3 DEF Known
    <3>2. creator[j].pc = "attach" => creator'[j].pc = "attach"
      BY <2>1
    <3>3. destroyer[j].pc \in {"called", "absent"} => destroyer'[j].pc = destroyer[j].pc
      OBVIOUS
    <3>. QED
      BY <1>1, <1>2, <1>3, <2>1, <3>1, <3>2, <3>3 DEF Explained, GoneExplained
  <2>. QED
    BY <2>2, <2>3
<1>9. ExitExplained'
  <2>. SUFFICES ASSUME NEW j \in Known', sessions'[j] = "exited"
                PROVE  \/ Noticed(view[j])' \/ Reread' \/ Coming("exited", j)'
                       \/ creator'[j].pc = "attach" /\ creator'[j].obj = view'[j]
                       \/ InList' /\ j \in todo' /\ ~list'[j]
    BY DEF ExitExplained
  <2>1. j \in Ids /\ view'[j] # 0 /\ sessions[j] = "exited"
    BY <1>3 DEF Known
  <2>2. CASE view[j] = 0
    BY <2>1, <2>2
  <2>3. CASE view[j] # 0
    <3>1. j \in Known /\ j \in Listed
      BY <2>1, <2>3 DEF Known, Listed
    <3>2. view'[j] = view[j] /\ view[j] \in 1 .. Len(objects)
      BY <1>4, <2>1, <2>3, <3>1
    <3>. DEFINE k == view[j]
    <3>. HIDE DEF k
    <3>3. k \in 1 .. Len(objects) /\ view[j] = k /\ view'[j] = k
      BY <3>2 DEF k
    <3>4. Noticed(view[j]) => Noticed(view[j])'
      BY <3>3 DEF Noticed
    <3>5. creator[j].pc = "attach" /\ creator[j].obj = view[j] =>
            Noticed(view[j])' \/ creator'[j] = creator[j]
      BY <3>3 DEF Noticed
    <3>. QED
      BY <1>1, <1>2, <1>3, <2>1, <3>1, <3>2, <3>4, <3>5 DEF Explained, ExitExplained
  <2>. QED
    BY <2>2, <2>3
<1>. QED
  BY <1>5, <1>6, <1>7, <1>8, <1>9 DEF Explained

\* With a re-read ahead nothing else needs an explanation.
LEMMA RereadAhead ==
  ASSUME Explained, UNCHANGED sessions, Reread', InList' => Unheard',
         \A id \in Ids : Coming("destroyed", id)' => Coming("destroyed", id)
  PROVE  Explained'
<1>1. NewsTrue'
  BY DEF Explained, NewsTrue
<1>2. ListTrue'
  BY DEF ListTrue
<1>3. MissingExplained' /\ GoneExplained' /\ ExitExplained'
  BY DEF MissingExplained, GoneExplained, ExitExplained
<1>. QED
  BY <1>1, <1>2, <1>3 DEF Explained

\* An event is broadcast.
LEMMA BroadcastExplained ==
  ASSUME Typed, Explained, NEW e \in unsent, BroadcastEvent(e)
  PROVE  Explained'
<1>1. /\ Unheard => Unheard'
      /\ \A kind \in Kinds, id \in Ids :
           /\ Coming(kind, id)' => Coming(kind, id)
           /\ Coming(kind, id) => Coming(kind, id)' \/ Unheard'
  BY BroadcastKeepsChannel
<1>2. UNCHANGED <<sessions, list, todo, adoptee, watch, again, stale, view, objects, creator,
                  destroyer>>
  BY DEF BroadcastEvent, watcherVars, serverVars, callVars
<1>3. /\ (Reread => Reread') /\ (Unheard' => Reread') /\ (InList' <=> InList)
      /\ Listed' = Listed /\ Known' = Known
  BY <1>1, <1>2 DEF Reread, InList, Listed, Known
<1>4. NewsTrue'
  BY <1>1, <1>2 DEF Explained, NewsTrue, Kinds
<1>5. \A id \in Ids : /\ Coming("created", id) => Coming("created", id)' \/ Unheard'
                      /\ Coming("exited", id) => Coming("exited", id)' \/ Unheard'
                      /\ Coming("destroyed", id) => Coming("destroyed", id)' \/ Unheard'
  BY <1>1 DEF Kinds
<1>6. Listed \subseteq Ids /\ Known \subseteq Ids
  BY DEF Listed, Known
<1>7. ListTrue'
  BY <1>1, <1>2, <1>3, <1>5 DEF Explained, ListTrue
<1>8. MissingExplained'
  BY <1>2, <1>3, <1>5, <1>6 DEF Explained, MissingExplained
<1>9. GoneExplained'
  BY <1>2, <1>3, <1>5, <1>6 DEF Explained, GoneExplained
<1>10. ExitExplained'
  BY <1>2, <1>3, <1>5, <1>6 DEF Explained, ExitExplained, Noticed
<1>. QED
  BY <1>4, <1>7, <1>8, <1>9, <1>10 DEF Explained

-----------------------------------------------------------------------------
(***************************************************************************)
(* The daemon.                                                             *)
(***************************************************************************)
LEMMA EventsDiffer ==
  \A id, j : /\ Event("created", j) # Event("destroyed", id)
             /\ Event("exited", j) # Event("destroyed", id)
             /\ (Event("destroyed", j) = Event("destroyed", id) => j = id)
<1>. SUFFICES ASSUME NEW id, NEW j
              PROVE  /\ Event("created", j) # Event("destroyed", id)
                     /\ Event("exited", j) # Event("destroyed", id)
                     /\ (Event("destroyed", j) = Event("destroyed", id) => j = id)
  OBVIOUS
<1>1. /\ Event("created", j).kind = "created" /\ Event("exited", j).kind = "exited"
      /\ Event("destroyed", id).kind = "destroyed" /\ Event("destroyed", id).id = id
      /\ Event("destroyed", j).id = j
  BY DEF Event
<1>. QED
  BY <1>1

\* A session that starts is in no list yet.
LEMMA SpawnExplained ==
  ASSUME RegistryInv, NEW id \in Ids, Spawn(id),
         UNCHANGED <<channelVars, watcherVars, stale, objects, view, destroyer>>,
         \A j \in Ids : creator[j].pc = "attach" => creator'[j] = creator[j]
  PROVE  Explained'
<1>1. /\ sessions[id] = "none" /\ sessions' = [sessions EXCEPT ![id] = "alive"]
      /\ unsent' = unsent \cup {Event("created", id)}
  BY DEF Spawn
<1>2. id \notin DOMAIN list
  BY <1>1 DEF RegistryInv, Typed, WatcherTyped
<1>3. view' \in [Ids -> Nat] /\ Known' = Known /\ Known \subseteq Ids
  BY DEF RegistryInv, Typed, ViewTyped, Known
<1>4. Event("created", id) \in unsent' /\ unsent \subseteq unsent'
  BY <1>1
<1>5. \A j \in Ids : Event("destroyed", j) \in unsent' => Event("destroyed", j) \in unsent
  BY <1>1, EventsDiffer
<1>6. Typed /\ Explained
  BY DEF RegistryInv
<1>. QED
  BY ONLY <1>1, <1>2, <1>3, <1>4, <1>5, <1>6, DaemonMoves, id \in Ids,
     UNCHANGED <<channelVars, watcherVars, stale, objects, view, destroyer>>,
     \A j \in Ids : creator[j].pc = "attach" => creator'[j] = creator[j]

LEMMA RemoveExplained ==
  ASSUME RegistryInv, NEW id \in Listed, Remove(id),
         UNCHANGED <<channelVars, watcherVars, stale, objects>>,
         view' = view \/ view' = [view EXCEPT ![id] = 0],
         \A j \in Known' : creator[j].pc = "attach" => creator'[j] = creator[j],
         \A j \in Ids : destroyer[j].pc \in {"called", "absent"} => destroyer'[j] = destroyer[j]
  PROVE  Explained'
<1>1. /\ sessions' = [sessions EXCEPT ![id] = "gone"] /\ id \in Ids
      /\ Event("destroyed", id) \in unsent' /\ unsent \subseteq unsent'
      /\ sessions[id] \in {"alive", "exited"}
  BY DEF Remove, Listed
<1>2. \A j \in Ids : Event("destroyed", j) \in unsent' =>
        Event("destroyed", j) \in unsent \/ j = id
  BY EventsDiffer DEF Remove
<1>3. /\ view' \in [Ids -> Nat]
      /\ \A j \in Ids : view'[j] = view[j] \/ (j = id /\ view'[j] = 0)
  <2>1. view \in [Ids -> Nat]
    BY DEF RegistryInv, Typed, ViewTyped
  <2>. QED
    BY <1>1, <2>1
<1>4. Typed /\ Explained
  BY DEF RegistryInv
<1>. QED
  BY ONLY <1>1, <1>2, <1>3, <1>4, DaemonMoves,
     UNCHANGED <<channelVars, watcherVars, stale, objects>>,
     \A j \in Known' : creator[j].pc = "attach" => creator'[j] = creator[j],
     \A j \in Ids : destroyer[j].pc \in {"called", "absent"} => destroyer'[j] = destroyer[j]

LEMMA TheirCreateKeeps ==
  ASSUME RegistryInv, NEW id \in Ids, TheirCreate(id)
  PROVE  RegistryInv'
<1>1. Spawn(id) /\ UNCHANGED <<channelVars, watcherVars, serverVars, callVars, stale, budget>>
  BY DEF TheirCreate
<1>2. Typed
  BY DEF RegistryInv
<1>3. SessionsTyped' /\ Onward
  BY <1>1, <1>2, SpawnKeeps
<1>4. ViewTyped' /\ NoObjectLost
  BY <1>1, <1>2, <1>3, KeepsView
<1>5. ChannelTyped'
  BY <1>1, <1>2, KeepsChannel DEF watcherVars
<1>6. WatcherTyped' /\ CallsTyped'
  BY <1>1, <1>2, <1>3, <1>4, KeepsWatcher, KeepsCalls
<1>7. Explained'
  BY <1>1, SpawnExplained DEF serverVars, callVars
<1>. QED
  BY <1>3, <1>4, <1>5, <1>6, <1>7 DEF RegistryInv, Typed

LEMMA ExitKeeps ==
  ASSUME RegistryInv, NEW id \in Ids, Exit(id)
  PROVE  RegistryInv'
<1>1. /\ sessions[id] = "alive" /\ sessions' = [sessions EXCEPT ![id] = "exited"]
      /\ unsent' = unsent \cup {Event("exited", id)}
      /\ UNCHANGED <<channelVars, watcherVars, serverVars, callVars, stale, budget>>
  BY DEF Exit
<1>2. Typed /\ Explained /\ sessions \in [Ids -> {"none", "alive", "exited", "gone"}]
      /\ unsent \subseteq [kind : Kinds, id : Ids]
  BY DEF RegistryInv, Typed, SessionsTyped
<1>3. SessionsTyped' /\ Onward
  <2>1. Event("exited", id) \in [kind : Kinds, id : Ids]
    BY DEF Event, Kinds
  <2>. QED
    BY <1>1, <1>2, <2>1 DEF SessionsTyped, Onward
<1>4. ViewTyped' /\ NoObjectLost
  BY <1>1, <1>2, <1>3, KeepsView
<1>5. ChannelTyped'
  BY <1>1, <1>2, KeepsChannel DEF watcherVars
<1>6. WatcherTyped' /\ CallsTyped'
  BY <1>1, <1>2, <1>3, <1>4, KeepsWatcher, KeepsCalls
<1>7. Explained'
  <2>1. Event("exited", id) \in unsent' /\ unsent \subseteq unsent'
    BY <1>1
  <2>2. \A j \in Ids : Event("destroyed", j) \in unsent' => Event("destroyed", j) \in unsent
    BY <1>1, EventsDiffer
  <2>3. view' \in [Ids -> Nat] /\ Known' \subseteq Ids
    BY <1>1 DEF RegistryInv, Typed, ViewTyped, serverVars, Known
  <2>4. UNCHANGED <<channelVars, watcherVars, stale, objects, view, creator, destroyer>>
    BY <1>1 DEF serverVars, callVars
  <2>. QED
    BY ONLY <1>1, <1>2, <2>1, <2>2, <2>3, <2>4, DaemonMoves, id \in Ids
<1>. QED
  BY <1>3, <1>4, <1>5, <1>6, <1>7 DEF RegistryInv, Typed

LEMMA TheirDestroyKeeps ==
  ASSUME RegistryInv, NEW id \in Ids, TheirDestroy(id)
  PROVE  RegistryInv'
<1>1. /\ Remove(id) /\ id \in Listed
      /\ UNCHANGED <<channelVars, watcherVars, serverVars, callVars, stale, budget>>
  BY DEF TheirDestroy
<1>2. Typed
  BY DEF RegistryInv
<1>3. SessionsTyped' /\ Onward
  BY <1>1, <1>2, RemoveKeeps
<1>4. ViewTyped' /\ NoObjectLost
  BY <1>1, <1>2, <1>3, KeepsView
<1>5. ChannelTyped'
  BY <1>1, <1>2, KeepsChannel DEF watcherVars
<1>6. WatcherTyped' /\ CallsTyped'
  BY <1>1, <1>2, <1>3, <1>4, KeepsWatcher, KeepsCalls
<1>7. Explained'
  BY <1>1, RemoveExplained DEF serverVars, callVars
<1>. QED
  BY <1>3, <1>4, <1>5, <1>6, <1>7 DEF RegistryInv, Typed

LEMMA BroadcastKeeps ==
  ASSUME RegistryInv, NEW e \in unsent, BroadcastEvent(e)
  PROVE  RegistryInv'
<1>1. /\ unsent' \subseteq unsent
      /\ UNCHANGED <<sessions, watcherVars, serverVars, callVars, stale>>
  BY DEF BroadcastEvent
<1>2. Typed /\ Explained
  BY DEF RegistryInv
<1>3. SessionsTyped' /\ Onward
  BY <1>1, <1>2 DEF Typed, SessionsTyped, Onward
<1>4. ViewTyped' /\ NoObjectLost
  BY <1>1, <1>2, <1>3, KeepsView
<1>5. ChannelTyped'
  BY <1>2, BroadcastKeepsChannel
<1>6. WatcherTyped' /\ CallsTyped'
  BY <1>1, <1>2, <1>3, <1>4, KeepsWatcher, KeepsCalls
<1>7. Explained'
  BY <1>2, BroadcastExplained
<1>. QED
  BY <1>3, <1>4, <1>5, <1>6, <1>7 DEF RegistryInv, Typed

LEMMA LoseSubscriptionKeeps ==
  ASSUME RegistryInv, LoseSubscription
  PROVE  RegistryInv'
<1>1. /\ subUp' = FALSE
      /\ UNCHANGED <<daemonVars, stamp, events, watcherVars, serverVars, callVars, stale>>
  BY DEF LoseSubscription
<1>2. Typed /\ Explained
  BY DEF RegistryInv
<1>3. SessionsTyped' /\ Onward
  BY <1>1, <1>2, KeepsSessions
<1>4. ViewTyped' /\ NoObjectLost
  BY <1>1, <1>2, <1>3, KeepsView
<1>5. ChannelTyped'
  BY <1>1, <1>2 DEF Typed, ChannelTyped, watcherVars
<1>6. WatcherTyped' /\ CallsTyped'
  BY <1>1, <1>2, <1>3, <1>4, KeepsWatcher, KeepsCalls
<1>7. Explained'
  <2>1. Unheard' /\ Reread'
    BY <1>1 DEF Unheard, Reread
  <2>2. \A id \in Ids : Coming("destroyed", id)' => Coming("destroyed", id)
    BY <1>1, SameNews DEF daemonVars
  <2>. QED
    BY <1>1, <1>2, <2>1, <2>2, RereadAhead DEF daemonVars
<1>. QED
  BY <1>3, <1>4, <1>5, <1>6, <1>7 DEF RegistryInv, Typed

-----------------------------------------------------------------------------
(***************************************************************************)
(* Requests and pumps.                                                     *)
(***************************************************************************)
LEMMA PumpEndsKeeps ==
  ASSUME RegistryInv, NEW k \in DOMAIN objects, PumpEnds(k)
  PROVE  RegistryInv'
<1>1. /\ objects' = [objects EXCEPT ![k].pump = FALSE, ![k].ended = TRUE]
      /\ UNCHANGED <<daemonVars, channelVars, watcherVars, view, terminalActive, callVars, stale>>
  BY DEF PumpEnds
<1>2. /\ Typed /\ Explained /\ objects \in Seq(Objects)
      /\ view \in [Ids -> 0 .. Len(objects)] /\ terminalActive \in Int
  BY DEF RegistryInv, Typed, ViewTyped
<1>3. SessionsTyped' /\ Onward
  BY <1>1, <1>2, KeepsSessions
<1>4. /\ ViewTyped' /\ NoObjectLost /\ Len(objects') = Len(objects)
      /\ objects'[k].ended = TRUE
      /\ \A m \in 1 .. Len(objects) : m # k => objects'[m] = objects[m]
  <2>1. k \in 1 .. Len(objects)
    BY <1>2
  <2>2. objects' = [objects EXCEPT ![k].ended = TRUE, ![k].pump = FALSE]
    <3>1. objects[k] \in Objects /\ DOMAIN objects = 1 .. Len(objects)
      BY <1>2, <2>1
    <3>. QED
      BY <1>1, <2>1, <3>1 DEF Objects
  <2>. QED
    BY <1>1, <1>2, <2>1, <2>2, MarkKeeps DEF daemonVars
<1>5. ChannelTyped'
  BY <1>1, <1>2, KeepsChannel DEF watcherVars
<1>6. WatcherTyped' /\ CallsTyped'
  BY <1>1, <1>2, <1>3, <1>4, KeepsWatcher, KeepsCalls
<1>7. Explained'
  <2>1. \A m \in 1 .. Len(objects) : Noticed(m) => Noticed(m)'
    BY <1>4 DEF Noticed
  <2>2. view' \in [Ids -> Nat] /\ \A j \in Ids : view'[j] = view[j]
    BY <1>1, <1>2
  <2>3. \A j \in Known' : creator'[j] = creator[j] /\ destroyer'[j] = destroyer[j]
    BY <1>1 DEF callVars
  <2>. QED
    BY ONLY <1>1, <1>2, <2>1, <2>2, <2>3, ServerMoves
<1>. QED
  BY <1>3, <1>4, <1>5, <1>6, <1>7 DEF RegistryInv, Typed

LEMMA CreateCallKeeps ==
  ASSUME RegistryInv, NEW id \in Ids, CreateCall(id)
  PROVE  RegistryInv'
<1>1. /\ Spawn(id) /\ creator[id].pc = "none" /\ creator' = [creator EXCEPT ![id] = At("called", 0)]
      /\ UNCHANGED <<channelVars, watcherVars, serverVars, destroyer, stale, budget>>
  BY DEF CreateCall
<1>2. Typed /\ CallsTyped
  BY DEF RegistryInv, Typed
<1>3. SessionsTyped' /\ Onward /\ sessions'[id] = "alive"
  BY <1>1, <1>2, SpawnKeeps
<1>4. ViewTyped' /\ NoObjectLost
  BY <1>1, <1>2, <1>3, KeepsView
<1>5. ChannelTyped'
  BY <1>1, <1>2, KeepsChannel DEF watcherVars
<1>6. WatcherTyped'
  BY <1>1, <1>2, <1>3, <1>4, KeepsWatcher
<1>7. CallsTyped'
  <2>1. UNCHANGED objects
    BY <1>1 DEF serverVars
  <2>2. \A j \in Ids : j # id => creator'[j] = creator[j]
    BY <1>1, <1>2 DEF CallsTyped
  <2>3. creator'[id] = At("called", 0) /\ creator'[id].pc = "called"
    BY <1>1, <1>2 DEF CallsTyped, At
  <2>4. creator' \in [Ids -> [pc : {"none", "called", "attach", "done"}, obj : Nat]]
    BY <1>1, <1>2 DEF CallsTyped, At
  <2>5. ASSUME NEW j \in Ids
        PROVE  /\ creator'[j].pc \in {"called", "attach"} => sessions'[j] # "none"
               /\ creator'[j].pc = "attach" => creator'[j].obj \in 1 .. Len(objects')
               /\ destroyer'[j].pc \in {"called", "absent"} =>
                    destroyer'[j].obj \in 1 .. Len(objects') /\ sessions'[j] = "gone"
    BY <1>1, <1>2, <1>3, <2>1, <2>2, <2>3 DEF CallsTyped, Onward
  <2>. QED
    BY <1>1, <1>2, <2>4, <2>5 DEF CallsTyped
<1>8. Explained'
  <2>1. \A j \in Ids : creator[j].pc = "attach" => creator'[j] = creator[j]
    BY <1>1, <1>2 DEF CallsTyped
  <2>. QED
    BY <1>1, <2>1, SpawnExplained DEF serverVars
<1>. QED
  BY <1>3, <1>4, <1>5, <1>6, <1>7, <1>8 DEF RegistryInv, Typed

LEMMA CreateStoreKeeps ==
  ASSUME RegistryInv, NEW id \in Ids, CreateStore(id)
  PROVE  RegistryInv'
<1>1. /\ creator[id].pc = "called"
      /\ UNCHANGED <<daemonVars, channelVars, watcherVars, destroyer, stale, budget>>
  BY DEF CreateStore
<1>2. /\ Typed /\ CallsTyped /\ Explained /\ sessions[id] # "none"
      /\ view \in [Ids -> 0 .. Len(objects)] /\ Len(objects) \in Nat
  BY <1>1 DEF RegistryInv, Typed, CallsTyped, ViewTyped
<1>3. SessionsTyped' /\ Onward /\ UNCHANGED sessions
  BY <1>1, <1>2, KeepsSessions DEF daemonVars
<1>5. ChannelTyped'
  BY <1>1, <1>2, KeepsChannel DEF watcherVars
<1>6. CASE id \in Known
  <2>1. creator' = [creator EXCEPT ![id] = At("done", 0)] /\ UNCHANGED serverVars
    BY <1>6 DEF CreateStore
  <2>2. ViewTyped' /\ NoObjectLost /\ UNCHANGED <<view, objects>>
    BY <1>2, <1>3, <2>1, KeepsView DEF serverVars
  <2>3. WatcherTyped'
    BY <1>1, <1>2, <1>3, <2>2, KeepsWatcher
  <2>4. creator'[id] = At("done", 0) /\ \A j \in Ids : j # id => creator'[j] = creator[j]
    BY <1>2, <2>1 DEF CallsTyped
  <2>5. CallsTyped'
    BY <1>1, <1>2, <1>3, <2>1, <2>2, <2>4 DEF CallsTyped, At
  <2>6. Explained'
    <3>1. view' \in [Ids -> Nat] /\ \A j \in Ids : view'[j] = view[j]
      BY <1>2, <2>2
    <3>2. \A m \in 1 .. Len(objects) : Noticed(m) => Noticed(m)'
      BY <2>2 DEF Noticed
    <3>3. \A j \in Known' : creator[j].pc = "attach" => creator'[j] = creator[j]
      BY <1>1, <2>4 DEF Known
    <3>4. \A j \in Known' : destroyer'[j] = destroyer[j]
      BY <1>1
    <3>. QED
      BY ONLY <1>1, <1>2, <3>1, <3>2, <3>3, <3>4, ServerMoves
  <2>. QED
    BY <1>3, <1>5, <2>2, <2>3, <2>5, <2>6 DEF RegistryInv, Typed
<1>7. CASE id \notin Known
  <2>1. creator' = [creator EXCEPT ![id] = At("attach", Len(objects) + 1)] /\ Make(id, FALSE)
    BY <1>7 DEF CreateStore
  <2>2. /\ ViewTyped' /\ NoObjectLost /\ Len(objects') = Len(objects) + 1
        /\ view' = [view EXCEPT ![id] = Len(objects) + 1]
        /\ \A k \in 1 .. Len(objects) : objects'[k] = objects[k]
    BY <1>2, <1>3, <2>1, MakeKeeps
  <2>3. WatcherTyped'
    BY <1>1, <1>2, <1>3, <2>2, KeepsWatcher
  <2>4. /\ creator'[id].pc = "attach" /\ creator'[id].obj = Len(objects) + 1
        /\ \A j \in Ids : j # id => creator'[j] = creator[j]
        /\ creator' \in [Ids -> [pc : {"none", "called", "attach", "done"}, obj : Nat]]
    BY <1>2, <2>1 DEF CallsTyped, At
  <2>5. CallsTyped'
    <3>1. ASSUME NEW j \in Ids
          PROVE  /\ creator'[j].pc \in {"called", "attach"} => sessions'[j] # "none"
                 /\ creator'[j].pc = "attach" => creator'[j].obj \in 1 .. Len(objects')
                 /\ destroyer'[j].pc \in {"called", "absent"} =>
                      destroyer'[j].obj \in 1 .. Len(objects') /\ sessions'[j] = "gone"
      <4>1. destroyer'[j].pc \in {"called", "absent"} =>
              destroyer'[j].obj \in 1 .. Len(objects') /\ sessions'[j] = "gone"
        BY <1>1, <1>2, <1>3, <2>2 DEF CallsTyped
      <4>2. CASE j = id
        BY <1>2, <1>3, <2>2, <2>4, <4>1, <4>2
      <4>3. CASE j # id
        BY <1>2, <1>3, <2>2, <2>4, <4>1, <4>3 DEF CallsTyped
      <4>. QED
        BY <4>2, <4>3
    <3>. QED
      BY <1>1, <1>2, <2>4, <3>1 DEF CallsTyped
  <2>6. Explained'
    <3>1. /\ view' \in [Ids -> Nat] /\ view[id] = 0 /\ view'[id] = Len(objects) + 1
          /\ \A j \in Ids : j # id => view'[j] = view[j]
      BY <1>2, <1>7, <2>2 DEF Known
    <3>2. \A m \in 1 .. Len(objects) : Noticed(m) => Noticed(m)'
      BY <2>2 DEF Noticed
    <3>3. \A j \in Known' : creator[j].pc = "attach" => creator'[j] = creator[j]
      BY <1>1, <2>4 DEF Known
    <3>4. \A j \in Known' : destroyer'[j] = destroyer[j]
      BY <1>1
    <3>5. \A j \in Ids :
            \/ view'[j] = view[j]
            \/ view[j] = 0 /\ creator'[j].pc = "attach" /\ creator'[j].obj = view'[j]
      BY <2>4, <3>1
    <3>. QED
      BY ONLY <1>1, <1>2, <3>1, <3>2, <3>3, <3>4, <3>5, ServerMoves
  <2>. QED
    BY <1>3, <1>5, <2>2, <2>3, <2>5, <2>6 DEF RegistryInv, Typed
<1>. QED
  BY <1>6, <1>7

\* The view loses the entry of a session that is not in the daemon's list.
LEMMA CreateAttachKeeps ==
  ASSUME RegistryInv, NEW id \in Ids, CreateAttach(id)
  PROVE  RegistryInv'
<1>1. /\ creator[id].pc = "attach" /\ creator' = [creator EXCEPT ![id] = At("done", 0)]
      /\ UNCHANGED <<channelVars, watcherVars, destroyer, stale>>
  BY DEF CreateAttach
<1>2. /\ Typed /\ CallsTyped /\ Explained
      /\ view \in [Ids -> 0 .. Len(objects)] /\ terminalActive \in Int
      /\ objects \in Seq(Objects) /\ Len(objects) \in Nat
      /\ creator[id].obj \in 1 .. Len(objects)
  BY <1>1 DEF RegistryInv, Typed, ViewTyped, CallsTyped
<1>3. ChannelTyped'
  BY <1>1, <1>2, KeepsChannel DEF watcherVars
<1>4. /\ creator'[id].pc = "done" /\ \A j \in Ids : j # id => creator'[j] = creator[j]
      /\ creator' \in [Ids -> [pc : {"none", "called", "attach", "done"}, obj : Nat]]
  BY <1>1, <1>2 DEF CallsTyped, At
<1>5. ASSUME Onward, Len(objects') = Len(objects)
      PROVE  CallsTyped'
  BY <1>1, <1>2, <1>4, <1>5 DEF CallsTyped, Onward
<1>6. CASE /\ id \in Listed /\ UNCHANGED <<daemonVars, view, terminalActive, budget>>
           /\ objects' = [objects EXCEPT ![creator[id].obj].pump = TRUE]
  <2>. DEFINE k == creator[id].obj
  <2>0. k \in 1 .. Len(objects)
    BY <1>2
  <2>. HIDE DEF k
  <2>1. SessionsTyped' /\ Onward
    BY <1>2, <1>6, KeepsSessions
  <2>2. /\ ViewTyped' /\ NoObjectLost /\ Len(objects') = Len(objects)
        /\ objects'[k].pump = TRUE
        /\ \A m \in 1 .. Len(objects) : m # k => objects'[m] = objects[m]
    <3>1. objects[k] \in Objects /\ DOMAIN objects = 1 .. Len(objects)
      BY <1>2, <2>0
    <3>2. objects' = [objects EXCEPT ![k].ended = objects[k].ended, ![k].pump = TRUE]
      BY <1>6, <2>0, <3>1 DEF Objects, k
    <3>3. objects[k].ended \in BOOLEAN
      BY <3>1 DEF Objects
    <3>. QED
      BY <1>2, <1>6, <2>0, <3>2, <3>3, MarkKeeps DEF daemonVars
  <2>3. WatcherTyped'
    BY <1>1, <1>2, <2>1, <2>2, KeepsWatcher
  <2>4. Explained'
    <3>1. \A m \in 1 .. Len(objects) : Noticed(m) => Noticed(m)'
      BY <2>2 DEF Noticed
    <3>2. view' \in [Ids -> Nat] /\ \A j \in Ids : view'[j] = view[j]
      BY <1>2, <1>6
    <3>3. sessions[id] # "gone" /\ \A m : m = creator[id].obj => Noticed(m)'
      BY <1>6, <2>2 DEF Listed, Noticed, k
    <3>4. \A j \in Known' : creator[j].pc = "attach" =>
            \/ creator'[j] = creator[j]
            \/ sessions[j] # "gone" /\ \A m : m = creator[j].obj => Noticed(m)'
      BY <1>4, <3>3 DEF Known
    <3>5. \A j \in Known' : destroyer'[j] = destroyer[j]
      BY <1>1
    <3>6. UNCHANGED daemonVars
      BY <1>6
    <3>. QED
      BY ONLY <1>1, <1>2, <3>1, <3>2, <3>4, <3>5, <3>6, ServerMoves
  <2>. QED
    BY <1>3, <1>5, <2>1, <2>2, <2>3, <2>4 DEF RegistryInv, Typed
<1>7. ASSUME view' = [view EXCEPT ![id] = 0], terminalActive' = terminalActive - 1,
             UNCHANGED objects, Onward
      PROVE  ViewTyped' /\ NoObjectLost /\ view' \in [Ids -> Nat] /\ id \notin Known'
  <2>1. /\ Known' \subseteq Known /\ Known \subseteq Ids /\ id \notin Known'
        /\ \A j \in Known' : view'[j] = view[j]
    BY <1>2, <1>7 DEF Known
  <2>2. IsFiniteSet(Known')
    BY <1>2, <2>1, FS_Subset DEF Typed, ViewTyped
  <2>3. view' \in [Ids -> 0 .. Len(objects')] /\ terminalActive' \in Int
    BY <1>2, <1>7
  <2>4. \A j \in Known' : objects'[view'[j]].id = j /\ sessions'[j] # "none"
    BY <1>2, <1>7, <2>1 DEF Typed, ViewTyped, Onward
  <2>. QED
    BY <1>2, <1>7, <2>1, <2>2, <2>3, <2>4 DEF ViewTyped, NoObjectLost
<1>8. CASE /\ id \in Listed /\ Remove(id) /\ view' = [view EXCEPT ![id] = 0]
           /\ terminalActive' = terminalActive - 1 /\ UNCHANGED objects
  <2>1. SessionsTyped' /\ Onward
    BY <1>2, <1>8, RemoveKeeps
  <2>2. ViewTyped' /\ NoObjectLost /\ id \notin Known'
    BY <1>7, <1>8, <2>1
  <2>3. WatcherTyped' /\ CallsTyped'
    BY <1>1, <1>2, <1>5, <1>8, <2>1, <2>2, KeepsWatcher
  <2>4. Explained'
    <3>1. \A j \in Known' : creator'[j] = creator[j]
      BY <1>4, <2>2 DEF Known
    <3>2. \A j \in Ids : destroyer'[j] = destroyer[j]
      BY <1>1
    <3>. QED
      BY <1>1, <1>8, <3>1, <3>2, RemoveExplained
  <2>. QED
    BY <1>3, <2>1, <2>2, <2>3, <2>4 DEF RegistryInv, Typed
<1>9. CASE /\ id \notin Listed /\ UNCHANGED <<daemonVars, budget>> /\ view' = [view EXCEPT ![id] = 0]
           /\ terminalActive' = terminalActive - 1 /\ UNCHANGED objects
  <2>1. SessionsTyped' /\ Onward
    BY <1>2, <1>9, KeepsSessions
  <2>2. ViewTyped' /\ NoObjectLost /\ id \notin Known' /\ view' \in [Ids -> Nat]
    BY <1>7, <1>9, <2>1
  <2>3. WatcherTyped' /\ CallsTyped'
    BY <1>1, <1>2, <1>5, <1>9, <2>1, <2>2, KeepsWatcher
  <2>4. Explained'
    <3>1. \A j \in Known' : creator'[j] = creator[j] /\ destroyer'[j] = destroyer[j]
      BY <1>1, <1>4, <2>2 DEF Known
    <3>2. \A j \in Ids : view'[j] = view[j] \/ (view'[j] = 0 /\ j \notin Listed)
      BY <1>2, <1>9
    <3>3. \A m \in 1 .. Len(objects) : Noticed(m) => Noticed(m)'
      BY <1>9 DEF Noticed
    <3>4. UNCHANGED daemonVars
      BY <1>9
    <3>. QED
      BY ONLY <1>1, <1>2, <2>2, <3>1, <3>2, <3>3, <3>4, ServerMoves
  <2>. QED
    BY <1>3, <2>1, <2>2, <2>3, <2>4 DEF RegistryInv, Typed
<1>. QED
  BY <1>6, <1>8, <1>9 DEF CreateAttach

LEMMA DestroyCallKeeps ==
  ASSUME RegistryInv, NEW id \in Ids, DestroyCall(id)
  PROVE  RegistryInv'
<1>1. /\ destroyer[id].pc = "none" /\ id \in Known
      /\ UNCHANGED <<channelVars, watcherVars, serverVars, creator, stale, budget>>
  BY DEF DestroyCall
<1>2. /\ Typed /\ CallsTyped /\ Explained /\ SessionsTyped
      /\ view \in [Ids -> 0 .. Len(objects)] /\ Len(objects) \in Nat
      /\ view[id] \in 1 .. Len(objects) /\ sessions[id] # "none"
  BY <1>1 DEF RegistryInv, Typed, ViewTyped, Known
<1>3. ChannelTyped'
  BY <1>1, <1>2, KeepsChannel DEF watcherVars
<1>4. ASSUME NEW pc \in {"called", "absent"}, Onward, sessions'[id] = "gone",
             destroyer' = [destroyer EXCEPT ![id] = At(pc, view[id])]
      PROVE  /\ CallsTyped'
             /\ \A j \in Ids : destroyer[j].pc \in {"called", "absent"} =>
                  destroyer'[j] = destroyer[j]
  <2>1. /\ destroyer'[id].pc = pc /\ destroyer'[id].obj = view[id]
        /\ \A j \in Ids : j # id => destroyer'[j] = destroyer[j]
        /\ destroyer' \in [Ids -> [pc : {"none", "called", "absent", "done"}, obj : Nat]]
    BY <1>2, <1>4 DEF CallsTyped, At
  <2>2. UNCHANGED <<creator, objects>>
    BY <1>1 DEF serverVars
  <2>3. ASSUME NEW j \in Ids
        PROVE  /\ creator'[j].pc \in {"called", "attach"} => sessions'[j] # "none"
               /\ creator'[j].pc = "attach" => creator'[j].obj \in 1 .. Len(objects')
               /\ destroyer'[j].pc \in {"called", "absent"} =>
                    destroyer'[j].obj \in 1 .. Len(objects') /\ sessions'[j] = "gone"
    <3>1. CASE j = id
      BY <1>2, <1>4, <2>1, <2>2, <3>1 DEF CallsTyped, Onward
    <3>2. CASE j # id
      BY <1>2, <1>4, <2>1, <2>2, <3>2 DEF CallsTyped, Onward
    <3>. QED
      BY <3>1, <3>2
  <2>. QED
    BY <1>1, <1>2, <2>1, <2>2, <2>3 DEF CallsTyped
<1>5. CASE id \in Listed
  <2>1. Remove(id) /\ destroyer' = [destroyer EXCEPT ![id] = At("called", view[id])]
    BY <1>5 DEF DestroyCall
  <2>2. SessionsTyped' /\ Onward /\ sessions'[id] = "gone"
    BY <1>2, <1>5, <2>1, RemoveKeeps
  <2>3. ViewTyped' /\ NoObjectLost
    BY <1>1, <1>2, <2>2, KeepsView
  <2>4. WatcherTyped'
    BY <1>1, <1>2, <2>2, <2>3, KeepsWatcher
  <2>5. /\ CallsTyped'
        /\ \A j \in Ids : destroyer[j].pc \in {"called", "absent"} => destroyer'[j] = destroyer[j]
    BY <1>4, <2>1, <2>2
  <2>6. Explained'
    BY <1>1, <1>5, <2>1, <2>5, RemoveExplained DEF serverVars
  <2>. QED
    BY <1>3, <2>2, <2>3, <2>4, <2>5, <2>6 DEF RegistryInv, Typed
<1>6. CASE id \notin Listed
  <2>1. UNCHANGED daemonVars /\ destroyer' = [destroyer EXCEPT ![id] = At("absent", view[id])]
    BY <1>6 DEF DestroyCall
  <2>2. SessionsTyped' /\ Onward /\ sessions'[id] = "gone"
    <3>1. sessions[id] = "gone"
      BY <1>2, <1>6 DEF SessionsTyped, Listed
    <3>. QED
      BY <1>2, <2>1, <3>1, KeepsSessions DEF daemonVars
  <2>3. ViewTyped' /\ NoObjectLost
    BY <1>1, <1>2, <2>2, KeepsView
  <2>4. WatcherTyped'
    BY <1>1, <1>2, <2>2, <2>3, KeepsWatcher
  <2>5. /\ CallsTyped'
        /\ \A j \in Ids : destroyer[j].pc \in {"called", "absent"} => destroyer'[j] = destroyer[j]
    BY <1>4, <2>1, <2>2
  <2>6. Explained'
    <3>1. view' \in [Ids -> Nat] /\ \A j \in Ids : view'[j] = view[j]
      BY <1>1, <1>2 DEF serverVars
    <3>2. \A m \in 1 .. Len(objects) : Noticed(m) => Noticed(m)'
      BY <1>1 DEF serverVars, Noticed
    <3>3. \A j \in Known' : /\ creator'[j] = creator[j]
                            /\ destroyer[j].pc \in {"called", "absent"} =>
                                 destroyer'[j] = destroyer[j]
      BY <1>1, <2>5 DEF Known
    <3>. QED
      BY ONLY <1>1, <1>2, <2>1, <3>1, <3>2, <3>3, ServerMoves
  <2>. QED
    BY <1>3, <2>2, <2>3, <2>4, <2>5, <2>6 DEF RegistryInv, Typed
<1>. QED
  BY <1>5, <1>6

LEMMA DestroyLocalKeeps ==
  ASSUME RegistryInv, NEW id \in Ids, DestroyLocal(id)
  PROVE  RegistryInv'
<1>. DEFINE k == destroyer[id].obj
<1>1. /\ destroyer[id].pc \in {"called", "absent"}
      /\ destroyer' = [destroyer EXCEPT ![id] = At("done", 0)]
      /\ view' = [view EXCEPT ![id] = 0] /\ terminalActive' = terminalActive - 1
      /\ objects' = [objects EXCEPT ![k].ended = TRUE, ![k].pump = FALSE]
      /\ UNCHANGED <<daemonVars, channelVars, watcherVars, creator, stale, budget>>
  BY DEF DestroyLocal
<1>2. /\ Typed /\ CallsTyped /\ Explained
      /\ view \in [Ids -> 0 .. Len(objects)] /\ terminalActive \in Int
      /\ objects \in Seq(Objects) /\ Len(objects) \in Nat
      /\ k \in 1 .. Len(objects) /\ sessions[id] = "gone"
  BY <1>1 DEF RegistryInv, Typed, ViewTyped, CallsTyped
<1>. HIDE DEF k
<1>3. ChannelTyped'
  BY <1>1, <1>2, KeepsChannel DEF watcherVars
<1>4. SessionsTyped' /\ Onward
  BY <1>1, <1>2, KeepsSessions
<1>5. /\ ViewTyped' /\ NoObjectLost /\ Len(objects') = Len(objects)
      /\ objects'[k].ended = TRUE
      /\ \A m \in 1 .. Len(objects) : m # k => objects'[m] = objects[m]
  <2>1. view' \in [Ids -> 0 .. Len(objects)] /\ \A j \in Ids : view'[j] \in {0, view[j]}
    BY <1>1, <1>2
  <2>2. terminalActive' \in Int
    BY <1>1, <1>2
  <2>. QED
    BY <1>1, <1>2, <2>1, <2>2, MarkKeeps DEF daemonVars
<1>6. WatcherTyped'
  BY <1>1, <1>2, <1>4, <1>5, KeepsWatcher
<1>7. /\ destroyer'[id].pc = "done"
      /\ \A j \in Ids : j # id => destroyer'[j] = destroyer[j]
      /\ destroyer' \in [Ids -> [pc : {"none", "called", "absent", "done"}, obj : Nat]]
  BY <1>1, <1>2 DEF CallsTyped, At
<1>8. CallsTyped'
  BY <1>1, <1>2, <1>4, <1>5, <1>7 DEF CallsTyped, Onward
<1>9. Explained'
  <2>1. view' \in [Ids -> Nat] /\ id \notin Known'
    BY <1>1, <1>2 DEF Known
  <2>2. \A j \in Ids : view'[j] = view[j] \/ (view'[j] = 0 /\ j \notin Listed)
    BY <1>1, <1>2 DEF Listed
  <2>3. \A m \in 1 .. Len(objects) : Noticed(m) => Noticed(m)'
    BY <1>5 DEF Noticed
  <2>4. \A j \in Known' : creator'[j] = creator[j] /\ destroyer'[j] = destroyer[j]
    BY <1>1, <1>7, <2>1 DEF Known
  <2>. QED
    BY ONLY <1>1, <1>2, <2>1, <2>2, <2>3, <2>4, ServerMoves
<1>. QED
  BY <1>3, <1>4, <1>5, <1>6, <1>8, <1>9 DEF RegistryInv, Typed

-----------------------------------------------------------------------------
(***************************************************************************)
(* The watcher.                                                            *)
(***************************************************************************)
\* A step that hears nothing and ends with a re-read ahead.
LEMMA RereadAheadKeeps ==
  ASSUME RegistryInv, UNCHANGED <<daemonVars, serverVars, callVars>>, ChannelTyped', WatcherTyped',
         Reread', ~InList', \A id \in Ids : Coming("destroyed", id)' => Coming("destroyed", id)
  PROVE  RegistryInv'
<1>1. Typed /\ Explained
  BY DEF RegistryInv
<1>2. SessionsTyped' /\ Onward
  BY <1>1, KeepsSessions
<1>3. ViewTyped' /\ NoObjectLost
  BY <1>1, <1>2, KeepsView
<1>4. CallsTyped'
  BY <1>1, <1>2, <1>3, KeepsCalls
<1>5. Explained'
  BY <1>1, RereadAhead DEF daemonVars
<1>. QED
  BY <1>2, <1>3, <1>4, <1>5 DEF RegistryInv, Typed

LEMMA WatchSubscribeKeeps ==
  ASSUME RegistryInv, WatchSubscribe
  PROVE  RegistryInv'
<1>1. /\ watch' = "ack" /\ subUp' = TRUE /\ stamp' = 0 /\ events' = <<>> /\ lastSeq' = 0
      /\ UNCHANGED <<daemonVars, list, todo, again, serverVars, callVars, stale>>
  BY DEF WatchSubscribe
<1>2. Len(events') = 0 /\ EvCap \in Nat
  BY <1>1, RegistryAssumption
<1>3. ChannelTyped'
  BY <1>1, <1>2 DEF ChannelTyped
<1>4. WatcherTyped'
  BY <1>1 DEF RegistryInv, Typed, WatcherTyped, WatchStages, daemonVars
<1>5. Reread' /\ ~InList'
  BY <1>1 DEF Reread, InList
<1>6. \A id \in Ids : Coming("destroyed", id)' => Coming("destroyed", id)
  BY <1>1, <1>2 DEF Coming, daemonVars
<1>. QED
  BY <1>1, <1>3, <1>4, <1>5, <1>6, RereadAheadKeeps

LEMMA SubscribeFailsKeeps ==
  ASSUME RegistryInv, SubscribeFails
  PROVE  RegistryInv'
<1>1. /\ watch' = "off" /\ subUp' = FALSE /\ events' = <<>>
      /\ UNCHANGED <<daemonVars, stamp, lastSeq, list, todo, again, serverVars, callVars, stale>>
  BY DEF SubscribeFails
<1>2. Len(events') = 0 /\ EvCap \in Nat
  BY <1>1, RegistryAssumption
<1>3. ChannelTyped'
  <2>1. stamp \in Nat /\ lastSeq \in Nat /\ lastSeq <= stamp
    BY DEF RegistryInv, Typed, ChannelTyped
  <2>2. lastSeq' <= stamp' - Len(events')
    BY <1>1, <1>2, <2>1
  <2>3. events' \in Seq([kind : Kinds, id : Ids, seq : Nat]) /\ Len(events') <= EvCap
    BY <1>1, <1>2
  <2>4. \A i \in 1 .. Len(events') : events'[i].seq = stamp' - Len(events') + i
    BY <1>2
  <2>. QED
    BY <1>1, <2>1, <2>2, <2>3, <2>4 DEF ChannelTyped
<1>4. WatcherTyped'
  BY <1>1 DEF RegistryInv, Typed, WatcherTyped, WatchStages, daemonVars
<1>5. Reread' /\ ~InList'
  BY <1>1 DEF Reread, InList
<1>6. \A id \in Ids : Coming("destroyed", id)' => Coming("destroyed", id)
  BY <1>1, <1>2 DEF Coming, daemonVars
<1>. QED
  BY <1>1, <1>3, <1>4, <1>5, <1>6, RereadAheadKeeps

LEMMA SubscribedKeeps ==
  ASSUME RegistryInv, Subscribed
  PROVE  RegistryInv'
<1>1. /\ watch = "ack" /\ watch' = "list"
      /\ UNCHANGED <<daemonVars, channelVars, lastSeq, list, todo, again, serverVars, callVars,
                     stale>>
  BY DEF Subscribed
<1>2. ChannelTyped'
  BY <1>1, KeepsChannel DEF RegistryInv
<1>3. WatcherTyped'
  BY <1>1 DEF RegistryInv, Typed, WatcherTyped, WatchStages, daemonVars
<1>4. Reread' /\ ~InList'
  BY <1>1 DEF Reread, InList
<1>5. \A id \in Ids : Coming("destroyed", id)' => Coming("destroyed", id)
  BY <1>1, SameNews DEF daemonVars, channelVars
<1>. QED
  BY <1>1, <1>2, <1>3, <1>4, <1>5, RereadAheadKeeps

LEMMA ListFailsKeeps ==
  ASSUME RegistryInv, ListFails
  PROVE  RegistryInv'
<1>1. /\ watch = "list" /\ watch' \in {"list", "loop"} /\ again' = FALSE /\ stale' = TRUE
      /\ UNCHANGED <<daemonVars, channelVars, lastSeq, list, todo, serverVars, callVars>>
  BY DEF ListFails
<1>2. ChannelTyped'
  BY <1>1, KeepsChannel DEF RegistryInv
<1>3. WatcherTyped'
  BY <1>1 DEF RegistryInv, Typed, WatcherTyped, WatchStages, daemonVars
<1>4. Reread' /\ ~InList'
  BY <1>1 DEF Reread, InList
<1>5. \A id \in Ids : Coming("destroyed", id)' => Coming("destroyed", id)
  BY <1>1, SameNews DEF daemonVars, channelVars
<1>. QED
  BY <1>1, <1>2, <1>3, <1>4, <1>5, RereadAheadKeeps

LEMMA WatchEndsKeeps ==
  ASSUME RegistryInv, WatchEnds
  PROVE  RegistryInv'
<1>1. /\ watch = "loop" /\ watch' = "off"
      /\ UNCHANGED <<daemonVars, channelVars, lastSeq, list, todo, again, serverVars, callVars,
                     stale>>
  BY DEF WatchEnds
<1>2. ChannelTyped'
  BY <1>1, KeepsChannel DEF RegistryInv
<1>3. WatcherTyped'
  BY <1>1 DEF RegistryInv, Typed, WatcherTyped, WatchStages, daemonVars
<1>4. Reread' /\ ~InList'
  BY <1>1 DEF Reread, InList
<1>5. \A id \in Ids : Coming("destroyed", id)' => Coming("destroyed", id)
  BY <1>1, SameNews DEF daemonVars, channelVars
<1>. QED
  BY <1>1, <1>2, <1>3, <1>4, <1>5, RereadAheadKeeps

\* The list as read explains whatever differs from it.
LEMMA ReadListKeeps ==
  ASSUME RegistryInv, ReadList
  PROVE  RegistryInv'
<1>1. /\ watch = "list" /\ watch' = "adopt" /\ todo' = Listed /\ stale' = FALSE
      /\ list' = [id \in Listed |-> sessions[id] = "alive"]
      /\ UNCHANGED <<daemonVars, channelVars, lastSeq, adoptee, again, serverVars, callVars>>
  BY DEF ReadList
<1>2. /\ Typed /\ Explained /\ Listed \subseteq Ids /\ DOMAIN list' = Listed
      /\ \A id \in Listed : list'[id] = (sessions[id] = "alive")
  BY <1>1 DEF RegistryInv, Listed
<1>3. SessionsTyped' /\ Onward /\ UNCHANGED sessions
  BY <1>1, <1>2, KeepsSessions DEF daemonVars
<1>4. ViewTyped' /\ NoObjectLost
  BY <1>1, <1>2, <1>3, KeepsView
<1>5. ChannelTyped' /\ CallsTyped'
  BY <1>1, <1>2, <1>3, <1>4, KeepsChannel, KeepsCalls
<1>6. WatcherTyped'
  <2>1. \A id \in DOMAIN list' : list'[id] \in BOOLEAN /\ sessions'[id] # "none"
    BY <1>2, <1>3 DEF Listed
  <2>. QED
    BY <1>1, <1>2, <2>1 DEF WatcherTyped, WatchStages, Typed
<1>7. InList' /\ Listed' = Listed
  BY <1>1, <1>3 DEF InList, Listed
<1>8. NewsTrue'
  BY <1>1, <1>2, <1>3, SameNews DEF Explained, NewsTrue, daemonVars, channelVars
<1>9. ListTrue'
  BY <1>2, <1>3, <1>7 DEF ListTrue, Listed
<1>10. MissingExplained'
  BY <1>1, <1>7 DEF MissingExplained
<1>11. GoneExplained'
  BY <1>2, <1>3, <1>7 DEF GoneExplained, Listed
<1>12. ExitExplained'
  <2>. SUFFICES ASSUME NEW id \in Known', sessions'[id] = "exited"
                PROVE  InList' /\ id \in todo' /\ ~list'[id]
    BY DEF ExitExplained
  <2>1. id \in Listed
    BY <1>3 DEF Known, Listed
  <2>. QED
    BY <1>1, <1>2, <1>3, <1>7, <2>1
<1>. QED
  BY <1>3, <1>4, <1>5, <1>6, <1>8, <1>9, <1>10, <1>11, <1>12 DEF RegistryInv, Typed, Explained

\* A known session takes its end from the summary.
LEMMA RefreshKeeps ==
  ASSUME RegistryInv, NEW id \in Ids, Refresh(id)
  PROVE  RegistryInv'
<1>1. /\ watch = "adopt" /\ id \in todo /\ id \in Known /\ todo' = todo \ {id}
      /\ objects' = IF list[id] THEN objects ELSE End(objects, view[id])
      /\ UNCHANGED <<daemonVars, channelVars, watch, lastSeq, list, adoptee, again, view,
                     terminalActive, callVars, stale>>
  BY DEF Refresh
<1>2. /\ Typed /\ Explained /\ objects \in Seq(Objects) /\ Len(objects) \in Nat
      /\ view \in [Ids -> 0 .. Len(objects)] /\ terminalActive \in Int
      /\ view[id] \in 1 .. Len(objects)
  BY <1>1 DEF RegistryInv, Typed, ViewTyped, Known
<1>3. SessionsTyped' /\ Onward /\ UNCHANGED sessions
  BY <1>1, <1>2, KeepsSessions DEF daemonVars
<1>4. /\ ViewTyped' /\ NoObjectLost
      /\ ~list[id] => Noticed(view[id])'
      /\ \A m \in 1 .. Len(objects) : Noticed(m) => Noticed(m)'
  <2>1. CASE list[id]
    BY <1>1, <1>2, <1>3, <2>1, KeepsView DEF serverVars, Noticed
  <2>2. CASE ~list[id]
    <3>. DEFINE k == view[id]
    <3>1. objects[k] \in Objects /\ DOMAIN objects = 1 .. Len(objects) /\ k \in 1 .. Len(objects)
      BY <1>2
    <3>2. objects' = [objects EXCEPT ![k].ended = TRUE]
      BY <1>1, <2>2 DEF End
    <3>3. k' = k
      BY <1>1
    <3>. HIDE DEF k
    <3>4. objects' = [objects EXCEPT ![k].ended = TRUE, ![k].pump = objects[k].pump]
      BY <3>1, <3>2 DEF Objects
    <3>5. objects[k].pump \in BOOLEAN
      BY <3>1 DEF Objects
    <3>6. /\ ViewTyped' /\ NoObjectLost /\ objects'[k].ended = TRUE
          /\ \A m \in 1 .. Len(objects) : m # k => objects'[m] = objects[m]
      <4>1. view' \in [Ids -> 0 .. Len(objects)] /\ \A j \in Ids : view'[j] \in {0, view[j]}
        BY <1>1, <1>2
      <4>. QED
        BY <1>1, <1>2, <1>3, <3>1, <3>4, <3>5, <4>1, MarkKeeps
    <3>7. Noticed(k)'
      BY <3>3, <3>6 DEF Noticed
    <3>8. \A m \in 1 .. Len(objects) : Noticed(m) => Noticed(m)'
      BY <3>6 DEF Noticed
    <3>. QED
      BY <3>6, <3>7, <3>8 DEF k
  <2>. QED
    BY <2>1, <2>2
<1>5. ChannelTyped' /\ CallsTyped'
  BY <1>1, <1>2, <1>3, <1>4, KeepsChannel, KeepsCalls
<1>6. WatcherTyped'
  BY <1>1, <1>2, <1>3 DEF WatcherTyped, WatchStages, Typed
<1>7. /\ (Gap' <=> Gap) /\ (Unheard' <=> Unheard) /\ (Reread' <=> Reread) /\ InList' /\ InList
      /\ Listed' = Listed /\ Known' = Known
  BY <1>1, <1>3 DEF Gap, Unheard, Reread, InList, Listed, Known, channelVars
<1>8. \A kind, j : Coming(kind, j)' <=> Coming(kind, j)
  BY <1>1, SameNews DEF daemonVars, channelVars
<1>9. NewsTrue' /\ ListTrue'
  BY <1>1, <1>2, <1>3, <1>7, <1>8 DEF Explained, NewsTrue, ListTrue
<1>10. MissingExplained'
  BY <1>1, <1>2, <1>7, <1>8 DEF Explained, MissingExplained
<1>11. GoneExplained'
  BY <1>1, <1>2, <1>3, <1>7, <1>8 DEF Explained, GoneExplained, callVars
<1>12. ExitExplained'
  <2>. SUFFICES ASSUME NEW j \in Known', sessions'[j] = "exited"
                PROVE  \/ Noticed(view[j])' \/ Reread' \/ Coming("exited", j)'
                       \/ creator'[j].pc = "attach" /\ creator'[j].obj = view'[j]
                       \/ InList' /\ j \in todo' /\ ~list'[j]
    BY DEF ExitExplained
  <2>1. j \in Known /\ view'[j] = view[j] /\ view[j] \in 1 .. Len(objects)
    BY <1>1, <1>2, <1>7 DEF Known
  <2>2. Noticed(view[j]) => Noticed(view[j])'
    <3>. DEFINE k == view[j]
    <3>1. k \in 1 .. Len(objects) /\ k' = k
      BY <2>1
    <3>. HIDE DEF k
    <3>2. Noticed(k) => Noticed(k)'
      BY <1>4, <3>1 DEF Noticed
    <3>. QED
      BY <3>2 DEF k
  <2>3. j = id => list[j] \/ Noticed(view[j])'
    BY <1>4
  <2>. QED
    BY <1>1, <1>2, <1>3, <1>7, <1>8, <2>1, <2>2, <2>3 DEF Explained, ExitExplained, callVars
<1>. QED
  BY <1>3, <1>4, <1>5, <1>6, <1>9, <1>10, <1>11, <1>12 DEF RegistryInv, Typed, Explained

LEMMA AdoptLoadKeeps ==
  ASSUME RegistryInv, NEW id \in Ids, AdoptLoad(id)
  PROVE  RegistryInv'
<1>1. /\ watch = "adopt" /\ id \in todo /\ id \notin Known /\ todo' = todo \ {id}
      /\ watch' = "store" /\ adoptee' = [id |-> id, obj |-> 0]
      /\ UNCHANGED <<daemonVars, channelVars, lastSeq, list, again, serverVars, callVars, stale>>
  BY DEF AdoptLoad
<1>2. Typed /\ Explained
  BY DEF RegistryInv
<1>3. SessionsTyped' /\ Onward /\ UNCHANGED <<sessions, view, objects, creator, destroyer>>
  BY <1>1, <1>2, KeepsSessions DEF daemonVars, serverVars, callVars
<1>4. ViewTyped' /\ NoObjectLost
  BY <1>1, <1>2, <1>3, KeepsView
<1>5. ChannelTyped' /\ CallsTyped'
  BY <1>1, <1>2, <1>3, <1>4, KeepsChannel, KeepsCalls
<1>6. WatcherTyped'
  BY <1>1, <1>2, <1>3 DEF WatcherTyped, WatchStages, Typed
<1>7. /\ (Gap' <=> Gap) /\ (Unheard' <=> Unheard) /\ (Reread' <=> Reread) /\ InList' /\ InList
      /\ Listed' = Listed /\ Known' = Known
  BY <1>1, <1>3 DEF Gap, Unheard, Reread, InList, Listed, Known, channelVars
<1>8. \A kind, j : Coming(kind, j)' <=> Coming(kind, j)
  BY <1>1, SameNews DEF daemonVars, channelVars
<1>9. NewsTrue' /\ ListTrue'
  BY <1>1, <1>2, <1>3, <1>7, <1>8 DEF Explained, NewsTrue, ListTrue
<1>10. MissingExplained'
  BY <1>1, <1>2, <1>7, <1>8 DEF Explained, MissingExplained
<1>11. GoneExplained'
  BY <1>1, <1>2, <1>3, <1>7, <1>8 DEF Explained, GoneExplained
<1>12. ExitExplained'
  BY <1>1, <1>2, <1>3, <1>7, <1>8 DEF Explained, ExitExplained, Noticed
<1>. QED
  BY <1>3, <1>4, <1>5, <1>6, <1>9, <1>10, <1>11, <1>12 DEF RegistryInv, Typed, Explained

\* The object stored is over if the summary says so; what ends since is told.
LEMMA AdoptStoreKeeps ==
  ASSUME RegistryInv, AdoptStore
  PROVE  RegistryInv'
<1>. DEFINE id == adoptee.id
<1>1. /\ watch = "store" /\ Make(id, ~list[id])
      /\ watch' = IF list[id] THEN "attach" ELSE "adopt"
      /\ adoptee' = IF list[id] THEN [adoptee EXCEPT !.obj = Len(objects) + 1] ELSE NoAdoptee
      /\ UNCHANGED <<daemonVars, channelVars, lastSeq, list, todo, again, callVars, stale>>
  BY DEF AdoptStore
<1>2. /\ Typed /\ Explained /\ id \in DOMAIN list /\ id \in Ids /\ list[id] \in BOOLEAN
      /\ sessions[id] # "none" /\ DOMAIN adoptee = {"id", "obj"}
      /\ view \in [Ids -> 0 .. Len(objects)] /\ Len(objects) \in Nat
  BY <1>1 DEF RegistryInv, Typed, WatcherTyped, ViewTyped
<1>3. watch' = "attach" => adoptee'.obj = Len(objects) + 1
  BY <1>1, <1>2
<1>. HIDE DEF id
<1>4. SessionsTyped' /\ Onward /\ UNCHANGED sessions
  BY <1>1, <1>2, KeepsSessions DEF daemonVars
<1>5. /\ ViewTyped' /\ NoObjectLost /\ Len(objects') = Len(objects) + 1
      /\ view' = [view EXCEPT ![id] = Len(objects) + 1]
      /\ objects'[Len(objects) + 1].ended = ~list[id]
      /\ \A k \in 1 .. Len(objects) : objects'[k] = objects[k]
  <2>1. (~list[id]) \in BOOLEAN
    BY <1>2
  <2>. QED
    BY <1>1, <1>2, <1>4, <2>1, MakeKeeps
<1>6. ChannelTyped' /\ CallsTyped'
  BY <1>1, <1>2, <1>4, <1>5, KeepsChannel, KeepsCalls
<1>7. WatcherTyped'
  <2>1. watch' = "attach" => adoptee'.obj \in 1 .. Len(objects')
    BY <1>2, <1>3, <1>5
  <2>2. watch' \in {"attach", "adopt"}
    BY <1>1
  <2>. QED
    BY <1>1, <1>2, <1>4, <2>1, <2>2 DEF WatcherTyped, WatchStages, Typed
<1>8. /\ (Gap' <=> Gap) /\ (Unheard' <=> Unheard) /\ (Reread' <=> Reread) /\ InList' /\ InList
      /\ Listed' = Listed
  BY <1>1, <1>4 DEF Gap, Unheard, Reread, InList, Listed, channelVars
<1>9. \A kind, j : Coming(kind, j)' <=> Coming(kind, j)
  BY <1>1, SameNews DEF daemonVars, channelVars
<1>10. /\ view'[id] = Len(objects) + 1 /\ id \in Known'
       /\ \A j \in Ids : j # id => view'[j] = view[j] /\ (j \in Known' <=> j \in Known)
  BY <1>2, <1>5 DEF Known
<1>11. NewsTrue' /\ ListTrue'
  BY <1>1, <1>2, <1>4, <1>8, <1>9 DEF Explained, NewsTrue, ListTrue
<1>12. MissingExplained'
  <2>. SUFFICES ASSUME NEW j \in Listed' \ Known'
                PROVE  Reread' \/ Coming("created", j)' \/ (InList' /\ j \in todo')
    BY DEF MissingExplained
  <2>1. j \in Listed \ Known /\ j # id
    BY <1>8, <1>10 DEF Listed
  <2>2. adoptee.id # j
    BY <2>1 DEF id
  <2>3. \/ Reread \/ Coming("created", j)
        \/ InList /\ (j \in todo \/ (watch = "store" /\ adoptee.id = j))
    BY <1>2, <2>1 DEF Explained, MissingExplained
  <2>4. todo' = todo /\ (Coming("created", j)' <=> Coming("created", j))
    BY <1>1, <1>9
  <2>. QED
    BY <1>8, <2>2, <2>3, <2>4
<1>13. GoneExplained'
  <2>. SUFFICES ASSUME NEW j \in Known', sessions'[j] = "gone"
                PROVE  \/ Reread' \/ Coming("destroyed", j)'
                       \/ creator'[j].pc = "attach" \/ destroyer'[j].pc \in {"called", "absent"}
                       \/ InList' /\ j \notin DOMAIN list'
    BY DEF GoneExplained
  <2>1. j \in Ids /\ sessions[j] = "gone"
    BY <1>4 DEF Known
  <2>2. CASE j = id
    <3>1. Unheard \/ Coming("destroyed", j)
      BY <1>2, <1>8, <2>1, <2>2 DEF Explained, ListTrue
    <3>. QED
      BY <1>8, <1>9, <3>1 DEF Reread
  <2>3. CASE j # id
    <3>1. j \in Known
      BY <1>10, <2>1, <2>3
    <3>. QED
      BY <1>1, <1>2, <1>8, <1>9, <2>1, <3>1 DEF Explained, GoneExplained, callVars
  <2>. QED
    BY <2>2, <2>3
<1>14. ExitExplained'
  <2>. SUFFICES ASSUME NEW j \in Known', sessions'[j] = "exited"
                PROVE  \/ Noticed(view[j])' \/ Reread' \/ Coming("exited", j)'
                       \/ creator'[j].pc = "attach" /\ creator'[j].obj = view'[j]
                       \/ InList' /\ j \in todo' /\ ~list'[j]
    BY DEF ExitExplained
  <2>1. j \in Ids /\ sessions[j] = "exited"
    BY <1>4 DEF Known
  <2>2. CASE j = id
    <3>1. CASE list[id]
      <4>1. Unheard \/ Coming("exited", j)
        BY <1>2, <1>8, <2>1, <2>2, <3>1 DEF Explained, ListTrue
      <4>. QED
        BY <1>8, <1>9, <4>1 DEF Reread
    <3>2. CASE ~list[id]
      BY <1>5, <1>10, <2>2, <3>2 DEF Noticed
    <3>. QED
      BY <3>1, <3>2
  <2>3. CASE j # id
    <3>1. j \in Known /\ view'[j] = view[j]
      BY <1>10, <2>1, <2>3
    <3>2. view[j] \in 1 .. Len(objects)
      BY <1>2, <2>1, <3>1 DEF Known
    <3>3. Noticed(view[j]) => Noticed(view[j])'
      BY <1>5, <3>1, <3>2 DEF Noticed
    <3>. QED
      BY <1>1, <1>2, <1>8, <1>9, <2>1, <3>1, <3>3 DEF Explained, ExitExplained, callVars
  <2>. QED
    BY <2>2, <2>3
<1>. QED
  BY <1>4, <1>5, <1>6, <1>7, <1>11, <1>12, <1>13, <1>14 DEF RegistryInv, Typed, Explained

\* The stream is attached if the session is still there.
LEMMA AdoptAttachKeeps ==
  ASSUME RegistryInv, AdoptAttach
  PROVE  RegistryInv'
<1>. DEFINE k == adoptee.obj
<1>1. /\ watch = "attach" /\ watch' = "adopt" /\ adoptee' = NoAdoptee
      /\ objects' = objects \/ objects' = [objects EXCEPT ![k].pump = TRUE]
      /\ UNCHANGED <<daemonVars, channelVars, lastSeq, list, todo, again, view, terminalActive,
                     callVars, stale>>
  BY DEF AdoptAttach
<1>2. /\ Typed /\ Explained /\ objects \in Seq(Objects) /\ Len(objects) \in Nat
      /\ view \in [Ids -> 0 .. Len(objects)] /\ terminalActive \in Int
      /\ k \in 1 .. Len(objects)
  BY <1>1 DEF RegistryInv, Typed, ViewTyped, WatcherTyped
<1>. HIDE DEF k
<1>3. SessionsTyped' /\ Onward /\ UNCHANGED sessions
  BY <1>1, <1>2, KeepsSessions DEF daemonVars
<1>4. /\ ViewTyped' /\ NoObjectLost
      /\ \A m \in 1 .. Len(objects) : Noticed(m) => Noticed(m)'
  <2>1. CASE objects' = objects
    BY <1>1, <1>2, <1>3, <2>1, KeepsView DEF serverVars, Noticed
  <2>2. CASE objects' = [objects EXCEPT ![k].pump = TRUE]
    <3>1. objects[k] \in Objects /\ DOMAIN objects = 1 .. Len(objects)
      BY <1>2
    <3>2. objects' = [objects EXCEPT ![k].ended = objects[k].ended, ![k].pump = TRUE]
      BY <1>2, <2>2, <3>1 DEF Objects
    <3>3. objects[k].ended \in BOOLEAN
      BY <3>1 DEF Objects
    <3>4. view' \in [Ids -> 0 .. Len(objects)] /\ \A j \in Ids : view'[j] \in {0, view[j]}
      BY <1>1, <1>2
    <3>5. /\ ViewTyped' /\ NoObjectLost /\ objects'[k].pump = TRUE
          /\ \A m \in 1 .. Len(objects) : m # k => objects'[m] = objects[m]
      BY <1>1, <1>2, <1>3, <3>2, <3>3, <3>4, MarkKeeps
    <3>. QED
      BY <3>5 DEF Noticed
  <2>. QED
    BY <1>1, <2>1, <2>2
<1>5. ChannelTyped' /\ CallsTyped'
  BY <1>1, <1>2, <1>3, <1>4, KeepsChannel, KeepsCalls
<1>6. WatcherTyped'
  BY <1>1, <1>2, <1>3 DEF WatcherTyped, WatchStages, Typed
<1>7. /\ (Gap' <=> Gap) /\ (Unheard' <=> Unheard) /\ (Reread' <=> Reread) /\ InList' /\ InList
      /\ Listed' = Listed /\ Known' = Known
  BY <1>1, <1>3 DEF Gap, Unheard, Reread, InList, Listed, Known, channelVars
<1>8. \A kind, j : Coming(kind, j)' <=> Coming(kind, j)
  BY <1>1, SameNews DEF daemonVars, channelVars
<1>9. NewsTrue' /\ ListTrue'
  BY <1>1, <1>2, <1>3, <1>7, <1>8 DEF Explained, NewsTrue, ListTrue
<1>10. MissingExplained'
  BY <1>1, <1>2, <1>7, <1>8 DEF Explained, MissingExplained
<1>11. GoneExplained'
  BY <1>1, <1>2, <1>3, <1>7, <1>8 DEF Explained, GoneExplained, callVars
<1>12. ExitExplained'
  <2>. SUFFICES ASSUME NEW j \in Known', sessions'[j] = "exited"
                PROVE  \/ Noticed(view[j])' \/ Reread' \/ Coming("exited", j)'
                       \/ creator'[j].pc = "attach" /\ creator'[j].obj = view'[j]
                       \/ InList' /\ j \in todo' /\ ~list'[j]
    BY DEF ExitExplained
  <2>1. j \in Known /\ view'[j] = view[j] /\ view[j] \in 1 .. Len(objects)
    BY <1>1, <1>2, <1>7 DEF Known
  <2>2. Noticed(view[j]) => Noticed(view[j])'
    <3>. DEFINE m == view[j]
    <3>1. m \in 1 .. Len(objects) /\ m' = m
      BY <2>1
    <3>. HIDE DEF m
    <3>2. Noticed(m) => Noticed(m)'
      BY <1>4, <3>1 DEF Noticed
    <3>. QED
      BY <3>2 DEF m
  <2>. QED
    BY <1>1, <1>2, <1>3, <1>7, <1>8, <2>1, <2>2 DEF Explained, ExitExplained, callVars
<1>. QED
  BY <1>3, <1>4, <1>5, <1>6, <1>9, <1>10, <1>11, <1>12 DEF RegistryInv, Typed, Explained

\* What the list did not hold is dropped: had it come since, its creation is
\* under way.
LEMMA ForgetVanishedKeeps ==
  ASSUME RegistryInv, ForgetVanished
  PROVE  RegistryInv'
<1>1. /\ watch = "adopt" /\ todo = {} /\ Forget(Known \ DOMAIN list)
      /\ watch' = IF again THEN "list" ELSE "loop"
      /\ again' = FALSE /\ list' = <<>>
      /\ UNCHANGED <<daemonVars, channelVars, lastSeq, todo, callVars, stale>>
  BY DEF ForgetVanished
<1>2. /\ Typed /\ Explained /\ again \in BOOLEAN
      /\ view \in [Ids -> 0 .. Len(objects)] /\ Len(objects) \in Nat
  BY DEF RegistryInv, Typed, WatcherTyped, ViewTyped
<1>3. SessionsTyped' /\ Onward /\ UNCHANGED sessions /\ Listed' = Listed
  BY <1>1, <1>2, KeepsSessions DEF daemonVars, Listed
<1>4. /\ ViewTyped' /\ NoObjectLost /\ Known' = Known \cap DOMAIN list
      /\ \A j \in Known' : view'[j] = view[j]
      /\ \A k \in 1 .. Len(objects) : /\ objects'[k].pump = objects[k].pump
                                      /\ objects[k].ended => objects'[k].ended
  <2>1. Known \ DOMAIN list \in SUBSET Known
    OBVIOUS
  <2>2. /\ ViewTyped' /\ NoObjectLost /\ Known' = Known \ (Known \ DOMAIN list)
        /\ \A j \in Ids : view'[j] = IF j \in Known \ DOMAIN list THEN 0 ELSE view[j]
        /\ \A k \in 1 .. Len(objects) : /\ objects'[k].pump = objects[k].pump
                                        /\ objects[k].ended => objects'[k].ended
    BY <1>1, <1>2, <1>3, <2>1, ForgetKeeps
  <2>3. Known \subseteq Ids
    BY DEF Known
  <2>. QED
    BY <2>2, <2>3
<1>5. ChannelTyped' /\ CallsTyped'
  <2>1. watch' # "off"
    BY <1>1
  <2>. QED
    BY <1>1, <1>2, <1>3, <1>4, <2>1, KeepsChannel, KeepsCalls
<1>6. WatcherTyped'
  <2>1. DOMAIN list' = {}
    BY <1>1
  <2>2. watch' \in {"list", "loop"}
    BY <1>1
  <2>. QED
    BY <1>1, <1>2, <2>1, <2>2 DEF WatcherTyped, WatchStages, Typed
<1>7. /\ (Gap' <=> Gap) /\ (Unheard' <=> Unheard) /\ ~InList' /\ InList
      /\ Reread => Reread'
  <2>1. watch' \in {"list", "loop"} /\ (again => watch' = "list")
    BY <1>1
  <2>2. (Gap' <=> Gap) /\ (Unheard' <=> Unheard)
    BY <1>1 DEF Gap, Unheard, channelVars
  <2>. QED
    BY <1>1, <2>1, <2>2 DEF Reread, InList
<1>8. \A kind, j : Coming(kind, j)' <=> Coming(kind, j)
  BY <1>1, SameNews DEF daemonVars, channelVars
<1>9. NewsTrue' /\ ListTrue'
  BY <1>2, <1>3, <1>7, <1>8 DEF Explained, NewsTrue, ListTrue
<1>10. MissingExplained'
  <2>. SUFFICES ASSUME NEW j \in Listed' \ Known'
                PROVE  Reread' \/ Coming("created", j)'
    BY DEF MissingExplained
  <2>1. j \in Listed /\ j \in Ids
    BY <1>3 DEF Listed
  <2>2. CASE j \in DOMAIN list
    <3>1. j \notin Known
      BY <1>4, <2>2
    <3>. QED
      BY <1>1, <1>2, <1>7, <1>8, <2>1, <3>1 DEF Explained, MissingExplained
  <2>3. CASE j \notin DOMAIN list
    <3>1. Unheard \/ Coming("created", j)
      BY <1>2, <1>7, <2>1, <2>3 DEF Explained, ListTrue
    <3>. QED
      BY <1>7, <1>8, <3>1 DEF Reread
  <2>. QED
    BY <2>2, <2>3
<1>11. GoneExplained'
  <2>. SUFFICES ASSUME NEW j \in Known', sessions'[j] = "gone"
                PROVE  \/ Reread' \/ Coming("destroyed", j)'
                       \/ creator'[j].pc = "attach" \/ destroyer'[j].pc \in {"called", "absent"}
    BY DEF GoneExplained
  <2>1. j \in Known /\ j \in DOMAIN list /\ sessions[j] = "gone"
    BY <1>3, <1>4
  <2>. QED
    BY <1>1, <1>2, <1>7, <1>8, <2>1 DEF Explained, GoneExplained, callVars
<1>12. ExitExplained'
  <2>. SUFFICES ASSUME NEW j \in Known', sessions'[j] = "exited"
                PROVE  \/ Noticed(view[j])' \/ Reread' \/ Coming("exited", j)'
                       \/ creator'[j].pc = "attach" /\ creator'[j].obj = view'[j]
    BY DEF ExitExplained
  <2>1. j \in Known /\ sessions[j] = "exited" /\ view'[j] = view[j]
    BY <1>3, <1>4
  <2>2. view[j] \in 1 .. Len(objects)
    BY <1>2, <2>1 DEF Known
  <2>3. Noticed(view[j]) => Noticed(view[j])'
    BY <1>4, <2>1, <2>2 DEF Noticed
  <2>. QED
    BY <1>1, <1>2, <1>7, <1>8, <2>1, <2>3 DEF Explained, ExitExplained, callVars
<1>. QED
  BY <1>3, <1>4, <1>5, <1>6, <1>9, <1>10, <1>11, <1>12 DEF RegistryInv, Typed, Explained

\* What an event does to the view.
LEMMA EventApplied ==
  ASSUME RegistryInv, TakeEvent
  PROVE  LET e == Head(events) IN
         /\ ViewTyped' /\ NoObjectLost /\ UNCHANGED sessions /\ Onward /\ SessionsTyped'
         /\ \A j \in Known : j \in Known' \/ (e.kind = "destroyed" /\ e.id = j)
         /\ \A j \in Known' : /\ j \in Known /\ view'[j] = view[j]
                              /\ Noticed(view[j]) => Noticed(view[j])'
                              /\ ~(e.kind = "destroyed" /\ e.id = j)
                              /\ e.kind = "exited" /\ e.id = j => Noticed(view[j])'
<1>. DEFINE e == Head(events)
<1>1. /\ UNCHANGED daemonVars
      /\ CASE e.kind = "exited" /\ e.id \in Known ->
                objects' = End(objects, view[e.id]) /\ UNCHANGED <<view, terminalActive>>
           [] e.kind = "destroyed" /\ e.id \in Known -> Forget({e.id})
           [] OTHER -> UNCHANGED <<view, objects, terminalActive>>
  BY DEF TakeEvent
<1>2. /\ Typed /\ objects \in Seq(Objects) /\ Len(objects) \in Nat
      /\ view \in [Ids -> 0 .. Len(objects)] /\ terminalActive \in Int
  BY DEF RegistryInv, Typed, ViewTyped
<1>3. SessionsTyped' /\ Onward /\ UNCHANGED sessions
  BY <1>1, <1>2, KeepsSessions DEF daemonVars
<1>4. e.kind \in Kinds
  BY <1>2, TakeEventKeepsChannel
<1>. HIDE DEF e
<1>. DEFINE Goal ==
       /\ ViewTyped' /\ NoObjectLost
       /\ \A j \in Known : j \in Known' \/ (e.kind = "destroyed" /\ e.id = j)
       /\ \A j \in Known' : /\ j \in Known /\ view'[j] = view[j]
                            /\ Noticed(view[j]) => Noticed(view[j])'
                            /\ ~(e.kind = "destroyed" /\ e.id = j)
                            /\ e.kind = "exited" /\ e.id = j => Noticed(view[j])'
<1>5. ASSUME e.kind = "exited", e.id \in Known
      PROVE  Goal
  <2>. DEFINE k == view[e.id]
  <2>1. objects' = [objects EXCEPT ![k].ended = TRUE] /\ UNCHANGED <<view, terminalActive>>
    BY <1>1, <1>5 DEF End
  <2>2. /\ k \in 1 .. Len(objects) /\ objects[k] \in Objects
        /\ DOMAIN objects = 1 .. Len(objects)
    BY <1>2, <1>5 DEF Known
  <2>3. Known' = Known
    BY <2>1 DEF Known
  <2>. HIDE DEF k
  <2>4. objects' = [objects EXCEPT ![k].ended = TRUE, ![k].pump = objects[k].pump]
    BY <2>1, <2>2 DEF Objects
  <2>5. objects[k].pump \in BOOLEAN
    BY <2>2 DEF Objects
  <2>6. view' \in [Ids -> 0 .. Len(objects)] /\ \A j \in Ids : view'[j] \in {0, view[j]}
    BY <1>2, <2>1
  <2>7. /\ ViewTyped' /\ NoObjectLost /\ objects'[k].ended = TRUE
        /\ \A m \in 1 .. Len(objects) : m # k => objects'[m] = objects[m]
    BY <1>2, <1>3, <2>1, <2>2, <2>4, <2>5, <2>6, MarkKeeps
  <2>8. \A m \in 1 .. Len(objects) :
          /\ objects[m].ended \/ objects[m].pump => objects'[m].ended \/ objects'[m].pump
          /\ m = k => objects'[m].ended
    BY <2>7
  <2>9. ASSUME NEW j \in Known'
        PROVE  /\ j \in Known /\ view'[j] = view[j]
               /\ Noticed(view[j]) => Noticed(view[j])'
               /\ e.id = j => Noticed(view[j])'
    <3>1. j \in Known /\ view'[j] = view[j] /\ view[j] \in 1 .. Len(objects)
      BY <1>2, <2>1, <2>3 DEF Known
    <3>2. e.id = j => view[j] = k
      BY DEF k
    <3>. QED
      BY <2>8, <3>1, <3>2 DEF Noticed
  <2>. QED
    BY <1>5, <2>3, <2>7, <2>9
<1>6. ASSUME e.kind = "destroyed", e.id \in Known
      PROVE  Goal
  <2>1. Forget({e.id})
    BY <1>1, <1>6
  <2>2. {e.id} \in SUBSET Known
    BY <1>6
  <2>3. /\ ViewTyped' /\ NoObjectLost /\ Known' = Known \ {e.id}
        /\ \A j \in Ids : view'[j] = IF j \in {e.id} THEN 0 ELSE view[j]
        /\ \A k \in 1 .. Len(objects) : /\ objects'[k].pump = objects[k].pump
                                        /\ objects[k].ended => objects'[k].ended
    BY <1>2, <1>3, <2>1, <2>2, ForgetKeeps
  <2>4. ASSUME NEW j \in Known'
        PROVE  /\ j \in Known /\ view'[j] = view[j] /\ j # e.id
               /\ Noticed(view[j]) => Noticed(view[j])'
    <3>1. j \in Known /\ j \in Ids /\ j # e.id
      BY <2>3 DEF Known
    <3>2. view'[j] = view[j] /\ view[j] \in 1 .. Len(objects)
      BY <1>2, <2>3, <3>1 DEF Known
    <3>. QED
      BY <2>3, <3>1, <3>2 DEF Noticed
  <2>. QED
    BY <1>6, <2>3, <2>4
<1>7. ASSUME ~(e.kind = "exited" /\ e.id \in Known),
             ~(e.kind = "destroyed" /\ e.id \in Known)
      PROVE  Goal
  <2>1. UNCHANGED <<view, objects, terminalActive>>
    BY <1>1, <1>7
  <2>2. ViewTyped' /\ NoObjectLost
    BY <1>2, <1>3, <2>1, KeepsView DEF serverVars
  <2>3. Known' = Known
    BY <2>1 DEF Known
  <2>. QED
    <3>1. \A j \in Known : /\ Noticed(view[j]) => Noticed(view[j])'
                           /\ ~(e.kind = "destroyed" /\ e.id = j)
                           /\ ~(e.kind = "exited" /\ e.id = j)
      BY <1>7, <2>1 DEF Noticed
    <3>. QED
      BY <2>1, <2>2, <2>3, <3>1
<1>8. Goal
  <2>. HIDE DEF Goal
  <2>. QED
    BY <1>5, <1>6, <1>7
<1>. QED
  BY <1>3, <1>8 DEF e

LEMMA TakeEventKeeps ==
  ASSUME RegistryInv, TakeEvent
  PROVE  RegistryInv'
<1>. DEFINE e == Head(events)
            adopts == e.kind = "created" /\ e.id \notin Known
            missed == Missed(lastSeq, e.seq)
<1>1. /\ watch = "loop" /\ watch' = IF adopts \/ missed THEN "list" ELSE "loop"
      /\ again' = (adopts /\ missed)
      /\ UNCHANGED <<daemonVars, subUp, stamp, list, todo, adoptee, callVars, stale>>
  BY DEF TakeEvent
<1>2. Typed /\ Explained
  BY DEF RegistryInv
<1>3. /\ ViewTyped' /\ NoObjectLost /\ UNCHANGED sessions /\ Onward /\ SessionsTyped'
      /\ \A j \in Known : j \in Known' \/ (e.kind = "destroyed" /\ e.id = j)
      /\ \A j \in Known' : /\ j \in Known /\ view'[j] = view[j]
                           /\ Noticed(view[j]) => Noticed(view[j])'
                           /\ ~(e.kind = "destroyed" /\ e.id = j)
                           /\ e.kind = "exited" /\ e.id = j => Noticed(view[j])'
  BY EventApplied
<1>4. /\ ChannelTyped' /\ e.kind \in Kinds /\ e.id \in Ids /\ (missed <=> Gap) /\ ~Gap'
      /\ Coming(e.kind, e.id)
      /\ \A kind \in Kinds, id \in Ids :
           /\ Coming(kind, id)' => Coming(kind, id)
           /\ Coming(kind, id) => Coming(kind, id)' \/ (kind = e.kind /\ id = e.id)
  BY <1>2, TakeEventKeepsChannel
<1>. HIDE DEF e, missed
<1>5. CallsTyped'
  BY <1>1, <1>2, <1>3, KeepsCalls
<1>6. WatcherTyped'
  BY <1>1, <1>2, <1>3 DEF WatcherTyped, WatchStages, Typed
<1>7. \A id \in Ids : Coming("destroyed", id)' => Coming("destroyed", id)
  BY <1>4 DEF Kinds
<1>8. CASE watch' = "list"
  <2>1. Reread' /\ ~InList'
    BY <1>8 DEF Reread, InList
  <2>. QED
    BY <1>2, <1>3, <1>4, <1>5, <1>6, <1>7, <2>1, RereadAhead DEF RegistryInv, Typed
<1>9. CASE watch' = "loop"
  <2>1. ~adopts /\ ~Gap /\ again' = FALSE /\ ~again /\ ~InList /\ ~InList'
    BY <1>1, <1>2, <1>4, <1>9 DEF InList, Typed, WatcherTyped
  <2>2. Unheard' <=> Unheard
    BY <1>1, <1>4, <2>1 DEF Unheard
  <2>3. Reread' <=> Reread
    BY <1>1, <1>9, <2>1, <2>2 DEF Reread
  <2>4. \A id \in Ids :
          /\ Coming("created", id) => Coming("created", id)' \/ (e.kind = "created" /\ id = e.id)
          /\ Coming("exited", id) => Coming("exited", id)' \/ (e.kind = "exited" /\ id = e.id)
          /\ Coming("destroyed", id) =>
               Coming("destroyed", id)' \/ (e.kind = "destroyed" /\ id = e.id)
    BY <1>4 DEF Kinds
  <2>5. NewsTrue'
    BY <1>2, <1>3, <1>7 DEF Explained, NewsTrue
  <2>6. ListTrue'
    BY <2>1 DEF ListTrue
  <2>7. MissingExplained'
    <3>. SUFFICES ASSUME NEW j \in Listed' \ Known'
                  PROVE  Reread' \/ Coming("created", j)'
      BY DEF MissingExplained
    <3>1. j \in Listed /\ j \in Ids
      BY <1>3 DEF Listed
    <3>2. j \notin Known
      <4>1. j \in Known => e.kind = "destroyed" /\ e.id = j
        BY <1>3
      <4>2. e.kind = "destroyed" => sessions[e.id] = "gone"
        BY <1>2, <1>4 DEF Explained, NewsTrue
      <4>3. sessions[j] # "gone"
        BY <3>1 DEF Listed
      <4>. QED
        BY <4>1, <4>2, <4>3
    <3>3. Reread \/ Coming("created", j)
      BY <1>2, <2>1, <3>1, <3>2 DEF Explained, MissingExplained
    <3>. QED
      BY <2>1, <2>3, <2>4, <3>1, <3>2, <3>3
  <2>8. GoneExplained'
    <3>. SUFFICES ASSUME NEW j \in Known', sessions'[j] = "gone"
                  PROVE  \/ Reread' \/ Coming("destroyed", j)'
                         \/ creator'[j].pc = "attach"
                         \/ destroyer'[j].pc \in {"called", "absent"}
      BY DEF GoneExplained
    <3>1. /\ j \in Known /\ j \in Ids /\ sessions[j] = "gone"
          /\ ~(e.kind = "destroyed" /\ e.id = j)
      BY <1>3 DEF Known
    <3>2. \/ Reread \/ Coming("destroyed", j)
          \/ creator[j].pc = "attach" \/ destroyer[j].pc \in {"called", "absent"}
      BY <1>2, <2>1, <3>1 DEF Explained, GoneExplained
    <3>. QED
      BY <1>1, <2>3, <2>4, <3>1, <3>2 DEF callVars
  <2>9. ExitExplained'
    <3>. SUFFICES ASSUME NEW j \in Known', sessions'[j] = "exited"
                  PROVE  \/ Noticed(view[j])' \/ Reread' \/ Coming("exited", j)'
                         \/ creator'[j].pc = "attach" /\ creator'[j].obj = view'[j]
      BY DEF ExitExplained
    <3>1. /\ j \in Known /\ j \in Ids /\ sessions[j] = "exited" /\ view'[j] = view[j]
          /\ Noticed(view[j]) => Noticed(view[j])'
          /\ e.kind = "exited" /\ e.id = j => Noticed(view[j])'
      BY <1>3 DEF Known
    <3>2. \/ Noticed(view[j]) \/ Reread \/ Coming("exited", j)
          \/ creator[j].pc = "attach" /\ creator[j].obj = view[j]
      BY <1>2, <2>1, <3>1 DEF Explained, ExitExplained
    <3>. QED
      BY <1>1, <2>3, <2>4, <3>1, <3>2 DEF callVars
  <2>. QED
    BY <1>3, <1>4, <1>5, <1>6, <2>5, <2>6, <2>7, <2>8, <2>9 DEF RegistryInv, Typed, Explained
<1>. QED
  BY <1>1, <1>8, <1>9


-----------------------------------------------------------------------------
(***************************************************************************)
(* Together.                                                               *)
(***************************************************************************)
LEMMA InitInv ==
  RegistryInit => RegistryInv
<1>. SUFFICES ASSUME RegistryInit
              PROVE  RegistryInv
  OBVIOUS
<1>1. Known = {}
  BY DEF RegistryInit, Known
<1>2. Len(events) = 0 /\ Len(objects) = 0 /\ objects \in Seq(Objects)
      /\ events \in Seq([kind : Kinds, id : Ids, seq : Nat]) /\ DOMAIN list = {}
  BY DEF RegistryInit
<1>3. SessionsTyped
  BY DEF RegistryInit, SessionsTyped
<1>4. ChannelTyped
  <2>1. /\ Len(events) <= EvCap /\ \A i \in 1 .. Len(events) : FALSE
    BY <1>2, RegistryAssumption
  <2>2. lastSeq <= stamp - Len(events) /\ lastSeq = stamp /\ stamp \in Nat
    BY <1>2 DEF RegistryInit
  <2>. QED
    BY <1>2, <2>1, <2>2 DEF RegistryInit, ChannelTyped
<1>5. WatcherTyped
  BY <1>2 DEF RegistryInit, WatcherTyped, WatchStages
<1>6. ViewTyped
  BY <1>1, <1>2, FS_EmptySet DEF RegistryInit, ViewTyped
<1>7. CallsTyped
  BY DEF RegistryInit, CallsTyped, At
<1>8. NewsTrue
  BY <1>2 DEF RegistryInit, NewsTrue, Coming
<1>9. ListTrue /\ MissingExplained
  BY DEF RegistryInit, ListTrue, MissingExplained, InList, Reread
<1>10. GoneExplained /\ ExitExplained
  BY <1>1 DEF GoneExplained, ExitExplained
<1>. QED
  BY <1>3, <1>4, <1>5, <1>6, <1>7, <1>8, <1>9, <1>10 DEF RegistryInv, Typed, Explained

LEMMA NextKeepsInv ==
  RegistryInv /\ [RegistryNext]_registryVars => RegistryInv'
<1>. SUFFICES ASSUME RegistryInv, [RegistryNext]_registryVars
              PROVE  RegistryInv'
  OBVIOUS
<1>1. ASSUME NEW id \in Ids, TheirCreate(id) \/ Exit(id) \/ TheirDestroy(id)
      PROVE  RegistryInv'
  BY <1>1, TheirCreateKeeps, ExitKeeps, TheirDestroyKeeps
<1>2. ASSUME NEW e \in unsent, BroadcastEvent(e)
      PROVE  RegistryInv'
  BY <1>2, BroadcastKeeps
<1>3. CASE LoseSubscription
  BY <1>3, LoseSubscriptionKeeps
<1>4. ASSUME NEW k \in DOMAIN objects, PumpEnds(k)
      PROVE  RegistryInv'
  BY <1>4, PumpEndsKeeps
<1>5. CASE WatchSubscribe \/ SubscribeFails \/ Subscribed \/ ReadList \/ ListFails
  BY <1>5, WatchSubscribeKeeps, SubscribeFailsKeeps, SubscribedKeeps, ReadListKeeps,
     ListFailsKeeps
<1>6. ASSUME NEW id \in Ids, Refresh(id) \/ AdoptLoad(id)
      PROVE  RegistryInv'
  BY <1>6, RefreshKeeps, AdoptLoadKeeps
<1>7. CASE AdoptStore \/ AdoptAttach \/ ForgetVanished \/ TakeEvent \/ WatchEnds
  BY <1>7, AdoptStoreKeeps, AdoptAttachKeeps, ForgetVanishedKeeps, TakeEventKeeps,
     WatchEndsKeeps
<1>8. ASSUME NEW id \in Ids, CreateCall(id) \/ CreateStore(id) \/ CreateAttach(id)
      PROVE  RegistryInv'
  BY <1>8, CreateCallKeeps, CreateStoreKeeps, CreateAttachKeeps
<1>9. ASSUME NEW id \in Ids, DestroyCall(id) \/ DestroyLocal(id)
      PROVE  RegistryInv'
  BY <1>9, DestroyCallKeeps, DestroyLocalKeeps
<1>10. CASE UNCHANGED registryVars
  <2>1. /\ UNCHANGED <<daemonVars, channelVars, watcherVars, serverVars, callVars, stale>>
        /\ UNCHANGED <<lastSeq, watch, sessions, view, objects>>
    BY <1>10 DEF registryVars, watcherVars, daemonVars, serverVars
  <2>2. Typed
    BY DEF RegistryInv
  <2>3. SessionsTyped' /\ Onward
    BY <2>1, <2>2, KeepsSessions
  <2>4. ViewTyped' /\ NoObjectLost
    BY <2>1, <2>2, <2>3, KeepsView
  <2>5. ChannelTyped' /\ WatcherTyped' /\ CallsTyped'
    BY <2>1, <2>2, <2>3, <2>4, KeepsChannel, KeepsWatcher, KeepsCalls
  <2>6. Explained'
    BY <2>1 DEF RegistryInv, Explained, NewsTrue, ListTrue, MissingExplained, GoneExplained,
       ExitExplained, Noticed, Coming, Reread, Unheard, Gap, InList, Known, Listed,
       daemonVars, channelVars, watcherVars, serverVars, callVars
  <2>. QED
    BY <2>2, <2>3, <2>4, <2>5, <2>6 DEF RegistryInv, Typed
<1>. QED
  BY <1>1, <1>2, <1>3, <1>4, <1>5, <1>6, <1>7, <1>8, <1>9, <1>10 DEF RegistryNext

LEMMA InvAlways ==
  RegistrySpec => []RegistryInv
  BY InitInv, NextKeepsInv, PTL DEF RegistrySpec

\* When all is settled no explanation is left.
LEMMA SettledSeen ==
  RegistryInv => ServerSeesDaemon
<1>. SUFFICES ASSUME RegistryInv, AllSettled, ~stale
              PROVE  Known = Listed /\ \A id \in Known : sessions[id] = "exited" =>
                       objects[view[id]].ended \/ objects[view[id]].pump
  BY DEF ServerSeesDaemon, ViewMirrorsDaemon, ExitsAreSeen
<1>1. /\ watch = "loop" /\ subUp /\ events = <<>> /\ unsent = {}
      /\ \A id \in Ids : creator[id].pc # "attach" /\ destroyer[id].pc \notin {"called", "absent"}
  BY DEF AllSettled
<1>2. ~InList
  BY <1>1 DEF InList
<1>3. ~Reread
  <2>1. ~again /\ lastSeq = stamp /\ stamp \in Nat
    BY <1>1 DEF RegistryInv, Typed, WatcherTyped, ChannelTyped
  <2>2. ~Unheard
    BY <1>1, <2>1 DEF Unheard, Gap
  <2>. QED
    BY <1>1, <2>1, <2>2 DEF Reread
<1>4. \A kind, id : ~Coming(kind, id)
  BY <1>1 DEF Coming
<1>5. Listed \subseteq Known
  BY <1>2, <1>3, <1>4 DEF RegistryInv, Explained, MissingExplained
<1>6. Known \subseteq Listed
  <2>. SUFFICES ASSUME NEW id \in Known
                PROVE  id \in Listed
    OBVIOUS
  <2>1. id \in Ids /\ sessions[id] \in {"alive", "exited", "gone"}
    BY DEF RegistryInv, Typed, ViewTyped, SessionsTyped, Known
  <2>2. sessions[id] # "gone"
    BY <1>1, <1>2, <1>3, <1>4, <2>1 DEF RegistryInv, Explained, GoneExplained
  <2>. QED
    BY <2>1, <2>2 DEF Listed
<1>7. ASSUME NEW id \in Known, sessions[id] = "exited"
      PROVE  objects[view[id]].ended \/ objects[view[id]].pump
  BY <1>1, <1>2, <1>3, <1>4, <1>7 DEF RegistryInv, Explained, ExitExplained, Noticed, Known
<1>. QED
  BY <1>5, <1>6, <1>7

\* Every part of the registry keeps its type: in particular the event channel
\* never holds more than it has room for, and the object that stands for a
\* session is an object of that session (broadcast, LoadOrStore, reconcile).
THEOREM RegistryTypeCorrect ==
  RegistrySpec => []RegistryTypeOK
<1>1. RegistryInv => RegistryTypeOK
  BY DEF RegistryInv, Typed, SessionsTyped, ChannelTyped, WatcherTyped, ViewTyped, RegistryTypeOK,
     Kinds, WatchStages
<1>. QED
  BY <1>1, InvAlways, PTL

\* Whatever events were dropped, however often the subscription was lost, and
\* however requests of this server and of others raced with the re-reading of
\* the list: once nothing is under way, the server shows exactly the sessions
\* the daemon has, and every exit has been noticed or is still to be read from
\* the stream, unless the last read of the list failed (reconcile,
\* streamDaemon, pumpStream).
THEOREM ServerSeesItsDaemon ==
  RegistrySpec => []ServerSeesDaemon
  BY InvAlways, SettledSeen, PTL

-----------------------------------------------------------------------------
(***************************************************************************)
(* The composition: each part of it behaves as the part alone does.        *)
(***************************************************************************)
LEMMA RingInServer == ServerSpec => RingSpec
<1>1. ServerInit => RingInit
  BY DEF ServerInit
<1>2. [ServerNext]_<<focus, ringVars, vars, keyframeVars, viewportVars, registryVars>>
      => [RingNext]_ringVars
  BY DEF ServerNext
<1> QED BY <1>1, <1>2, PTL DEF ServerSpec, RingSpec

LEMMA GeometryInServer == ServerSpec => Spec
<1>1. ServerInit => Init
  BY DEF ServerInit
<1>2. [ServerNext]_<<focus, ringVars, vars, keyframeVars, viewportVars, registryVars>>
      => [Next]_vars
  BY DEF ServerNext
<1> QED BY <1>1, <1>2, PTL DEF ServerSpec, Spec

LEMMA KeyframeInServer == ServerSpec => KeyframeSpec
<1>1. ServerInit => KeyframeInit
  BY DEF ServerInit
<1>2. [ServerNext]_<<focus, ringVars, vars, keyframeVars, viewportVars, registryVars>>
      => [KeyframeNext]_keyframeVars
  BY DEF ServerNext
<1> QED BY <1>1, <1>2, PTL DEF ServerSpec, KeyframeSpec

LEMMA ViewportInServer == ServerSpec => ViewportSpec
<1>1. ServerInit => ViewportInit
  BY DEF ServerInit
<1>2. [ServerNext]_<<focus, ringVars, vars, keyframeVars, viewportVars, registryVars>>
      => [ViewportNext]_viewportVars
  BY DEF ServerNext
<1> QED BY <1>1, <1>2, PTL DEF ServerSpec, ViewportSpec

LEMMA RegistryInServer == ServerSpec => RegistrySpec
<1>1. ServerInit => RegistryInit
  BY DEF ServerInit
<1>2. [ServerNext]_<<focus, ringVars, vars, keyframeVars, viewportVars, registryVars>>
      => [RegistryNext]_registryVars
  BY DEF ServerNext
<1> QED BY <1>1, <1>2, PTL DEF ServerSpec, RegistrySpec

\* Every part of the server that the composition joins keeps its types and
\* bounds: no ring, window, channel of notices or of events outgrows its
\* capacity (muxd/ring_buffer.go, muxd/session.go, session_screen.go,
\* session_viewport.go, session_mux.go).
THEOREM ServerTypesHold == ServerSpec => []TypesHold
BY RingInServer, RingTypeCorrect, GeometryInServer, TypeCorrect, KeyframeInServer,
   RestorePointTypeCorrect, ViewportInServer, ViewportTypeCorrect, RegistryInServer,
   RegistryTypeCorrect, PTL DEF TypesHold
=============================================================================
