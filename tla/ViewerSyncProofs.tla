-------------------------- MODULE ViewerSyncProofs ---------------------------
(***************************************************************************)
(* One browser's queue, for every capacity, reserve, grid set and bound: a *)
(* browser that displays the session shows one unbroken stretch of output  *)
(* and has the rest queued, a browser that receives nothing more has a     *)
(* Resync coming, and output is executed on the grid it was drawn for.     *)
(***************************************************************************)
EXTENDS ViewerSync, SequenceTheorems, TLAPS

-----------------------------------------------------------------------------
(***************************************************************************)
(* The inductive invariant.                                                *)
(***************************************************************************)

\* Each data frame of c was drawn for the last grid announced before it, from
\* the grid `from` up to the grid `to`.
DrawnFor(c, from, to) ==
  LET D == At(c, "data")
      R == At(c, "resize")
  IN  /\ \A i \in D : (\A j \in R : i < j) => c[i].grid = from
      /\ \A i \in R, j \in D : i < j /\ (\A k \in R : k <= i \/ j <= k) => c[i].grid = c[j].grid
      /\ \A i \in R : (\A j \in R : j <= i) => c[i].grid = to
      /\ R = {} => from = to

\* A browser whose frames all reach its queue: it displays the session or never
\* did, and nothing was dropped.  Wider than Displaying: a browser that is not
\* displayed yet becomes one that is, with what its queue then holds.
Following == conn = "live" /\ ~stale /\ ~unseen /\ (visible \/ ~displayed)

OutputFollows == Following => shown.whole /\ Continues

Undisturbed == used.answers = 0 /\ used.reattaches = 0

GridFollows ==
  Following /\ Undisturbed => shown.framed /\ DrawnFor(Coming, told, pty)

AnswerCounted == reader.pc = "answer" => used.answers > 0

Ind == TypeOK /\ OutputFollows /\ GridFollows /\ AnswerCounted /\ StaleHasResync

-----------------------------------------------------------------------------
(***************************************************************************)
(* Frames and queues.                                                      *)
(***************************************************************************)
LEMMA FrameCases ==
  ASSUME NEW f \in Frames
  PROVE  /\ f.kind \in {"resync", "resize", "data"}
         /\ f.kind = "resize" => f.grid \in Grids
         /\ f.kind = "data" => f.lo \in 0 .. MaxSeq /\ f.hi \in 0 .. MaxSeq /\ f.grid \in Grids
BY DEF Frames, ResyncFrame

LEMMA FrameTypes ==
  /\ ResyncFrame \in Frames /\ ResyncFrame.kind = "resync"
  /\ \A g \in Grids : /\ ResizeFrame(g) \in Frames
                      /\ ResizeFrame(g).kind = "resize" /\ ResizeFrame(g).grid = g
  /\ TypeOK => \A lo, hi \in 0 .. MaxSeq :
       /\ DataFrame(lo, hi) \in Frames /\ DataFrame(lo, hi).kind = "data"
       /\ DataFrame(lo, hi).lo = lo /\ DataFrame(lo, hi).hi = hi /\ DataFrame(lo, hi).grid = pty
BY DEF ResyncFrame, ResizeFrame, DataFrame, Frames, TypeOK

\* A full queue gives up a frame for the new one, and never outgrows itself.
LEMMA PushBounded ==
  ASSUME NEW q \in Seq(Frames), Len(q) <= QCap, NEW f \in Frames
  PROVE  /\ PushNewestOnFull(q, QCap, f) \in Seq(Frames)
         /\ Len(PushNewestOnFull(q, QCap, f)) <= QCap
         /\ Len(PushNewestOnFull(q, QCap, f)) \in Nat \ {0}
         /\ PushNewestOnFull(q, QCap, f)[Len(PushNewestOnFull(q, QCap, f))] = f
<1>1. QCap \in Nat \ {0} /\ Len(q) \in Nat  BY ViewerAssumption, LenProperties
<1>2. CASE Len(q) < QCap
  <2>1. PushNewestOnFull(q, QCap, f) = Append(q, f)  BY <1>2 DEF PushNewestOnFull
  <2> QED  BY <1>1, <1>2, <2>1, AppendProperties
<1>3. CASE ~(Len(q) < QCap)
  <2>1. q # << >> /\ Len(q) = QCap  BY <1>1, <1>3, EmptySeq
  <2>2. Tail(q) \in Seq(Frames) /\ Len(Tail(q)) = QCap - 1  BY <2>1, HeadTailProperties
  <2>3. PushNewestOnFull(q, QCap, f) = Append(Tail(q), f)  BY <1>3 DEF PushNewestOnFull
  <2> QED  BY <1>1, <2>2, <2>3, AppendProperties
<1> QED  BY <1>2, <1>3

\* A frame pushed to the queue is last among what is coming.
LEMMA ComingAppend ==
  ASSUME TypeOK, NEW f \in Frames, hand' = hand, queue' = Append(queue, f)
  PROVE  Coming \in Seq(Frames) /\ Coming' = Append(Coming, f)
<1>1. hand \in Seq(Frames) /\ queue \in Seq(Frames) /\ <<f>> \in Seq(Frames)  BY DEF TypeOK
<1>2. Append(queue, f) = queue \o <<f>>  BY <1>1, AppendIsConcat
<1>3. (hand \o queue) \o <<f>> = hand \o (queue \o <<f>>)  BY <1>1, ConcatAssociative
<1>4. hand \o queue \in Seq(Frames)  BY <1>1, ConcatProperties
<1>5. Append(hand \o queue, f) = (hand \o queue) \o <<f>>  BY <1>4, AppendIsConcat
<1> QED  BY <1>2, <1>3, <1>4, <1>5 DEF Coming

\* Taking a frame leaves what is coming as it was.
LEMMA ComingTake ==
  ASSUME TypeOK, Take
  PROVE  Coming' = Coming
<1>1. queue \in Seq(Frames) /\ queue # << >> /\ hand = << >>  BY DEF TypeOK, Take
<1>2. /\ Head(queue) = queue[1] /\ Head(queue) \in Frames /\ Tail(queue) \in Seq(Frames)
      /\ Len(Tail(queue)) = Len(queue) - 1 /\ Len(queue) \in Nat \ {0}
      /\ \A i \in 1 .. Len(Tail(queue)) : Tail(queue)[i] = queue[i + 1]
  BY <1>1, HeadTailProperties, EmptySeq
<1> DEFINE h == <<Head(queue)>>
           s == h \o Tail(queue)
<1>3. h \in Seq(Frames) /\ Len(h) = 1 /\ h[1] = queue[1]  BY <1>2
<1> HIDE DEF h
<1>4. /\ s \in Seq(Frames) /\ Len(s) = Len(queue)
      /\ \A i \in 1 .. Len(s) : s[i] = IF i <= 1 THEN h[i] ELSE Tail(queue)[i - 1]
  <2>1. s \in Seq(Frames) /\ Len(s) = Len(h) + Len(Tail(queue))  BY <1>2, <1>3, ConcatProperties
  <2> QED  BY <1>2, <1>3, <2>1, ConcatProperties
<1> HIDE DEF s
<1>5. ASSUME NEW i \in 1 .. Len(s)  PROVE s[i] = queue[i]
  <2>1. CASE i = 1  BY <2>1, <1>3, <1>4
  <2>2. CASE i # 1
    <3>1. i - 1 \in 1 .. Len(Tail(queue)) /\ ~(i <= 1)  BY <2>2, <1>2, <1>4, <1>5
    <3>2. s[i] = Tail(queue)[i - 1]  BY <3>1, <1>4
    <3>3. Tail(queue)[i - 1] = queue[(i - 1) + 1] /\ (i - 1) + 1 = i  BY <3>1, <1>2
    <3> QED  BY <3>2, <3>3
  <2> QED  BY <2>1, <2>2
<1>6. s = queue  BY <1>1, <1>4, <1>5, SeqEqual
<1>7. Coming' = s  BY DEF Take, Coming, s, h
<1>8. Coming = queue  BY <1>1, ConcatEmptySeq DEF Coming
<1> QED  BY <1>6, <1>7, <1>8

\* What the writer holds is the first of what is coming.
LEMMA ComingHead ==
  ASSUME TypeOK, hand # << >>
  PROVE  /\ Coming \in Seq(Frames) /\ Len(Coming) = Len(queue) + 1 /\ Len(queue) \in Nat
         /\ Coming[1] = hand[1] /\ hand[1] \in Frames
         /\ \A i \in 1 .. Len(queue) : Coming[i + 1] = queue[i]
<1>1. /\ hand \in Seq(Frames) /\ queue \in Seq(Frames) /\ Len(hand) = 1
      /\ Len(queue) \in Nat /\ hand[1] \in Frames
  <2>1. hand \in Seq(Frames) /\ queue \in Seq(Frames) /\ Len(hand) <= 1  BY DEF TypeOK
  <2>2. Len(hand) \in Nat /\ Len(hand) # 0  BY <2>1, EmptySeq
  <2>3. \A n \in Nat : n # 0 /\ n <= 1 => n = 1  OBVIOUS
  <2>4. Len(hand) = 1  BY <2>1, <2>2, <2>3
  <2> QED  BY <2>1, <2>4, LenProperties, ElementOfSeq
<1>2. /\ Coming \in Seq(Frames) /\ Len(Coming) = 1 + Len(queue)
      /\ \A i \in 1 .. 1 + Len(queue) : Coming[i] = IF i <= 1 THEN hand[i] ELSE queue[i - 1]
  <2>1. /\ hand \o queue \in Seq(Frames) /\ Len(hand \o queue) = Len(hand) + Len(queue)
        /\ \A i \in 1 .. Len(hand) + Len(queue) :
             (hand \o queue)[i] = IF i <= Len(hand) THEN hand[i] ELSE queue[i - Len(hand)]
    BY <1>1, ConcatProperties
  <2> QED  BY <1>1, <2>1 DEF Coming
<1>3. ASSUME NEW i \in 1 .. Len(queue)  PROVE Coming[i + 1] = queue[i]
  <2>1. i + 1 \in 1 .. 1 + Len(queue) /\ ~(i + 1 <= 1) /\ (i + 1) - 1 = i  BY <1>1
  <2> QED  BY <1>2, <2>1
<1> QED  BY <1>1, <1>2, <1>3

\* Once written, nothing is coming but the queue.
LEMMA ComingWritten ==
  ASSUME TypeOK, hand' = << >>, queue' = queue
  PROVE  Coming' = queue
BY ConcatEmptySeq DEF Coming, TypeOK

-----------------------------------------------------------------------------
(***************************************************************************)
(* Stretches of output.                                                    *)
(***************************************************************************)
LEMMA AtAppend ==
  ASSUME NEW c \in Seq(Frames), NEW f \in Frames, NEW kind
  PROVE  /\ f.kind = kind => At(Append(c, f), kind) = At(c, kind) \cup {Len(c) + 1}
         /\ f.kind # kind => At(Append(c, f), kind) = At(c, kind)
         /\ At(c, kind) \subseteq 1 .. Len(c) /\ Len(c) \in Nat
         /\ \A i \in At(c, kind) : Append(c, f)[i] = c[i]
         /\ Append(c, f)[Len(c) + 1] = f
<1> DEFINE d == Append(c, f)
<1>1. /\ Len(d) = Len(c) + 1 /\ d[Len(c) + 1] = f /\ \A i \in 1 .. Len(c) : d[i] = c[i]
      /\ Len(c) \in Nat
  BY AppendProperties, LenProperties
<1> HIDE DEF d
<1>2. At(c, kind) \subseteq 1 .. Len(c)  BY DEF At
<1>3. ASSUME NEW i \in 1 .. Len(d)
      PROVE  i \in At(d, kind) <=> i \in At(c, kind) \/ (i = Len(c) + 1 /\ f.kind = kind)
  <2>1. CASE i = Len(c) + 1  BY <2>1, <1>1 DEF At
  <2>2. CASE i # Len(c) + 1
    <3>1. i \in 1 .. Len(c) /\ d[i] = c[i]  BY <2>2, <1>1
    <3> QED  BY <2>2, <3>1 DEF At
  <2> QED  BY <2>1, <2>2
<1>4. At(d, kind) \subseteq 1 .. Len(d)  BY DEF At
<1>5. At(c, kind) \subseteq 1 .. Len(d) /\ Len(c) + 1 \in 1 .. Len(d)  BY <1>1, <1>2
<1> QED  BY <1>1, <1>2, <1>3, <1>4, <1>5 DEF d

LEMMA AtRest ==
  ASSUME NEW c \in Seq(Frames), NEW q \in Seq(Frames), NEW kind,
         Len(c) = Len(q) + 1, \A i \in 1 .. Len(q) : c[i + 1] = q[i]
  PROVE  /\ At(q, kind) \subseteq 1 .. Len(q) /\ Len(q) \in Nat
         /\ \A i \in At(q, kind) : i + 1 \in At(c, kind) /\ c[i + 1] = q[i]
         /\ \A i \in At(c, kind) : i # 1 => i - 1 \in At(q, kind) /\ c[i] = q[i - 1]
         /\ At(c, kind) \subseteq 1 .. Len(c)
         /\ c[1].kind = kind <=> 1 \in At(c, kind)
<1>1. Len(q) \in Nat /\ At(q, kind) \subseteq 1 .. Len(q) /\ At(c, kind) \subseteq 1 .. Len(c)
  BY LenProperties DEF At
<1>2. ASSUME NEW i \in At(q, kind)  PROVE i + 1 \in At(c, kind) /\ c[i + 1] = q[i]
  <2>1. i \in 1 .. Len(q) /\ i + 1 \in 1 .. Len(c)  BY <1>1
  <2> QED  BY <2>1 DEF At
<1>3. ASSUME NEW i \in At(c, kind), i # 1  PROVE i - 1 \in At(q, kind) /\ c[i] = q[i - 1]
  <2>1. i - 1 \in 1 .. Len(q) /\ (i - 1) + 1 = i  BY <1>1, <1>3
  <2>2. c[i] = q[i - 1]  BY <2>1
  <2> QED  BY <2>1, <2>2 DEF At
<1>4. c[1].kind = kind <=> 1 \in At(c, kind)  BY <1>1 DEF At
<1> QED  BY <1>1, <1>2, <1>3, <1>4

LEMMA UnbrokenAppendData ==
  ASSUME NEW c \in Seq(Frames), NEW f \in Frames, f.kind = "data", NEW a,
         Unbroken(c, a, f.lo)
  PROVE  Unbroken(Append(c, f), a, f.hi)
<1> DEFINE d == Append(c, f)
           D == At(c, "data")
           n == Len(c) + 1
<1>1. /\ At(d, "data") = D \cup {n} /\ D \subseteq 1 .. Len(c) /\ Len(c) \in Nat
      /\ \A i \in D : d[i] = c[i]
      /\ d[n] = f
  BY AtAppend
<1>2. /\ \A i \in D : (\A j \in D : i <= j) => c[i].lo = a
      /\ \A i, j \in D : i < j /\ (\A k \in D : k <= i \/ j <= k) => c[i].hi = c[j].lo
      /\ \A i \in D : (\A j \in D : j <= i) => c[i].hi = f.lo
      /\ D = {} => a = f.lo
  BY DEF Unbroken
<1> HIDE DEF d, D
<1>3. ASSUME NEW i \in D \cup {n}, \A j \in D \cup {n} : i <= j  PROVE d[i].lo = a
  <2>1. CASE i \in D  BY <2>1, <1>1, <1>2, <1>3
  <2>2. CASE i = n
    <3>1. D = {}  BY <2>2, <1>1, <1>3
    <3> QED  BY <3>1, <2>2, <1>1, <1>2
  <2> QED  BY <2>1, <2>2
<1>4. ASSUME NEW i \in D \cup {n}, NEW j \in D \cup {n}, i < j,
             \A k \in D \cup {n} : k <= i \/ j <= k
      PROVE  d[i].hi = d[j].lo
  <2>1. i \in D  BY <1>1, <1>4
  <2>2. CASE j \in D  BY <2>1, <2>2, <1>1, <1>2, <1>4
  <2>3. CASE j = n
    <3>1. \A k \in D : k <= i  BY <2>3, <1>1, <1>4
    <3> QED  BY <3>1, <2>1, <2>3, <1>1, <1>2
  <2> QED  BY <2>2, <2>3
<1>5. ASSUME NEW i \in D \cup {n}, \A j \in D \cup {n} : j <= i  PROVE d[i].hi = f.hi
  BY <1>1, <1>5
<1> QED  BY <1>1, <1>3, <1>4, <1>5 DEF Unbroken, d

LEMMA UnbrokenAppendOther ==
  ASSUME NEW c \in Seq(Frames), NEW f \in Frames, f.kind # "data", NEW a, NEW b,
         Unbroken(c, a, b)
  PROVE  Unbroken(Append(c, f), a, b)
BY AtAppend DEF Unbroken

LEMMA UnbrokenRest ==
  ASSUME NEW c \in Seq(Frames), NEW q \in Seq(Frames), NEW a, NEW b,
         Len(c) = Len(q) + 1, \A i \in 1 .. Len(q) : c[i + 1] = q[i],
         Unbroken(c, a, b)
  PROVE  /\ c[1].kind = "data" => c[1].lo = a /\ Unbroken(q, c[1].hi, b)
         /\ c[1].kind # "data" => Unbroken(q, a, b)
<1> DEFINE C == At(c, "data")
           D == At(q, "data")
<1>1. /\ D \subseteq 1 .. Len(q) /\ Len(q) \in Nat
      /\ \A i \in D : i + 1 \in C /\ c[i + 1] = q[i]
      /\ \A i \in C : i # 1 => i - 1 \in D /\ c[i] = q[i - 1]
      /\ C \subseteq 1 .. Len(c)
      /\ c[1].kind = "data" <=> 1 \in C
  BY AtRest
<1>2. /\ \A i \in C : (\A j \in C : i <= j) => c[i].lo = a
      /\ \A i, j \in C : i < j /\ (\A k \in C : k <= i \/ j <= k) => c[i].hi = c[j].lo
      /\ \A i \in C : (\A j \in C : j <= i) => c[i].hi = b
      /\ C = {} => a = b
  BY DEF Unbroken
<1> HIDE DEF C, D
<1>3. ASSUME NEW i \in D, NEW j \in D, i < j, \A k \in D : k <= i \/ j <= k
      PROVE  q[i].hi = q[j].lo
  <2>1. i + 1 \in C /\ j + 1 \in C /\ i + 1 < j + 1  BY <1>1, <1>3
  <2>2. ASSUME NEW k \in C  PROVE k <= i + 1 \/ j + 1 <= k
    <3>1. CASE k = 1  BY <3>1, <1>1
    <3>2. CASE k # 1
      <4>1. k - 1 \in D  BY <3>2, <1>1
      <4>2. k - 1 <= i \/ j <= k - 1  BY <4>1, <1>3
      <4> QED  BY <4>1, <4>2, <1>1
    <3> QED  BY <3>1, <3>2
  <2> QED  BY <2>1, <2>2, <1>1, <1>2
<1>4. ASSUME NEW i \in D, \A j \in D : j <= i  PROVE q[i].hi = b
  <2>1. i + 1 \in C  BY <1>1
  <2>2. ASSUME NEW k \in C  PROVE k <= i + 1
    <3>1. CASE k = 1  BY <3>1, <1>1
    <3>2. CASE k # 1
      <4>1. k - 1 \in D  BY <3>2, <1>1
      <4> QED  BY <4>1, <1>1, <1>4
    <3> QED  BY <3>1, <3>2
  <2> QED  BY <2>1, <2>2, <1>1, <1>2
<1>5. ASSUME c[1].kind = "data"  PROVE c[1].lo = a /\ Unbroken(q, c[1].hi, b)
  <2>1. 1 \in C /\ \A j \in C : 1 <= j  BY <1>1, <1>5
  <2>2. c[1].lo = a  BY <2>1, <1>2
  <2>3. ASSUME NEW i \in D, \A j \in D : i <= j  PROVE q[i].lo = c[1].hi
    <3>1. i + 1 \in C /\ 1 < i + 1  BY <1>1
    <3>2. ASSUME NEW k \in C  PROVE k <= 1 \/ i + 1 <= k
      <4>1. CASE k # 1
        <5>1. k - 1 \in D  BY <4>1, <1>1
        <5> QED  BY <5>1, <1>1, <2>3
      <4> QED  BY <4>1
    <3>3. c[1].hi = c[i + 1].lo  BY <3>1, <3>2, <2>1, <1>2
    <3> QED  BY <3>3, <1>1
  <2>4. ASSUME D = {}  PROVE c[1].hi = b
    <3>1. \A k \in C : k <= 1  BY <2>4, <1>1
    <3> QED  BY <3>1, <2>1, <1>2
  <2> QED  BY <2>2, <2>3, <2>4, <1>3, <1>4 DEF Unbroken, D
<1>6. ASSUME c[1].kind # "data"  PROVE Unbroken(q, a, b)
  <2>1. \A k \in C : k # 1  BY <1>1, <1>6
  <2>2. ASSUME NEW i \in D, \A j \in D : i <= j  PROVE q[i].lo = a
    <3>1. i + 1 \in C  BY <1>1
    <3>2. ASSUME NEW k \in C  PROVE i + 1 <= k
      <4>1. k - 1 \in D  BY <2>1, <1>1
      <4> QED  BY <4>1, <1>1, <2>2
    <3> QED  BY <3>1, <3>2, <1>1, <1>2
  <2>3. ASSUME D = {}  PROVE a = b
    <3>1. C = {}  BY <2>1, <2>3, <1>1
    <3> QED  BY <3>1, <1>2
  <2> QED  BY <2>2, <2>3, <1>3, <1>4 DEF Unbroken, D
<1> QED  BY <1>5, <1>6

-----------------------------------------------------------------------------
(***************************************************************************)
(* Grids along a stretch.                                                  *)
(***************************************************************************)
LEMMA DrawnAppendData ==
  ASSUME NEW c \in Seq(Frames), NEW f \in Frames, f.kind = "data", NEW a,
         DrawnFor(c, a, f.grid)
  PROVE  DrawnFor(Append(c, f), a, f.grid)
<1> DEFINE d == Append(c, f)
           D == At(c, "data")
           R == At(c, "resize")
           n == Len(c) + 1
<1>1. /\ At(d, "data") = D \cup {n} /\ At(d, "resize") = R
      /\ D \subseteq 1 .. Len(c) /\ R \subseteq 1 .. Len(c) /\ Len(c) \in Nat
      /\ \A i \in D : d[i] = c[i]
      /\ \A i \in R : d[i] = c[i]
      /\ d[n] = f
  <2>1. /\ At(d, "data") = D \cup {n} /\ D \subseteq 1 .. Len(c) /\ Len(c) \in Nat
        /\ (\A i \in D : d[i] = c[i]) /\ d[n] = f
    BY AtAppend
  <2>2. /\ At(d, "resize") = R /\ R \subseteq 1 .. Len(c)
        /\ \A i \in R : d[i] = c[i]
    BY AtAppend
  <2> QED  BY <2>1, <2>2
<1>2. /\ \A i \in D : (\A j \in R : i < j) => c[i].grid = a
      /\ \A i \in R, j \in D : i < j /\ (\A k \in R : k <= i \/ j <= k) => c[i].grid = c[j].grid
      /\ \A i \in R : (\A j \in R : j <= i) => c[i].grid = f.grid
      /\ R = {} => a = f.grid
  BY DEF DrawnFor
<1> HIDE DEF d, D, R
<1>3. ASSUME NEW i \in D \cup {n}, \A j \in R : i < j  PROVE d[i].grid = a
  <2>1. CASE i \in D
    <3>1. c[i].grid = a  BY <2>1, <1>2, <1>3
    <3> QED  BY <2>1, <3>1, <1>1
  <2>2. CASE i = n
    <3>1. R = {}  BY <2>2, <1>1, <1>3
    <3> QED  BY <3>1, <2>2, <1>1, <1>2
  <2> QED  BY <2>1, <2>2
<1>4. ASSUME NEW i \in R, NEW j \in D \cup {n}, i < j, \A k \in R : k <= i \/ j <= k
      PROVE  d[i].grid = d[j].grid
  <2>1. CASE j \in D  BY <2>1, <1>1, <1>2, <1>4
  <2>2. CASE j = n
    <3>1. \A k \in R : k <= i  BY <2>2, <1>1, <1>4
    <3> QED  BY <3>1, <2>2, <1>1, <1>2
  <2> QED  BY <2>1, <2>2
<1> QED  BY <1>1, <1>2, <1>3, <1>4 DEF DrawnFor, d

LEMMA DrawnAppendResize ==
  ASSUME NEW c \in Seq(Frames), NEW f \in Frames, f.kind = "resize", NEW a, NEW b,
         DrawnFor(c, a, b)
  PROVE  DrawnFor(Append(c, f), a, f.grid)
<1> DEFINE d == Append(c, f)
           D == At(c, "data")
           R == At(c, "resize")
           n == Len(c) + 1
<1>1. /\ At(d, "data") = D /\ At(d, "resize") = R \cup {n}
      /\ D \subseteq 1 .. Len(c) /\ R \subseteq 1 .. Len(c) /\ Len(c) \in Nat
      /\ \A i \in D : d[i] = c[i]
      /\ \A i \in R : d[i] = c[i]
      /\ d[n] = f
  BY AtAppend
<1>2. /\ \A i \in D : (\A j \in R : i < j) => c[i].grid = a
      /\ \A i \in R, j \in D : i < j /\ (\A k \in R : k <= i \/ j <= k) => c[i].grid = c[j].grid
  BY DEF DrawnFor
<1> HIDE DEF d, D, R
<1>3. ASSUME NEW i \in D, \A j \in R \cup {n} : i < j  PROVE d[i].grid = a
  BY <1>1, <1>2, <1>3
<1>4. ASSUME NEW i \in R \cup {n}, NEW j \in D, i < j, \A k \in R \cup {n} : k <= i \/ j <= k
      PROVE  d[i].grid = d[j].grid
  <2>1. i \in R  BY <1>1, <1>4
  <2> QED  BY <2>1, <1>1, <1>2, <1>4
<1>5. ASSUME NEW i \in R \cup {n}, \A j \in R \cup {n} : j <= i  PROVE d[i].grid = f.grid
  BY <1>1, <1>5
<1> QED  BY <1>1, <1>3, <1>4, <1>5 DEF DrawnFor, d

LEMMA DrawnRest ==
  ASSUME NEW c \in Seq(Frames), NEW q \in Seq(Frames), NEW a, NEW b,
         Len(c) = Len(q) + 1, \A i \in 1 .. Len(q) : c[i + 1] = q[i],
         DrawnFor(c, a, b)
  PROVE  /\ c[1].kind = "data" => c[1].grid = a /\ DrawnFor(q, a, b)
         /\ c[1].kind = "resize" => DrawnFor(q, c[1].grid, b)
<1> DEFINE C == At(c, "data")
           S == At(c, "resize")
           D == At(q, "data")
           R == At(q, "resize")
<1>1. /\ D \subseteq 1 .. Len(q) /\ Len(q) \in Nat
      /\ \A i \in D : i + 1 \in C /\ c[i + 1] = q[i]
      /\ \A i \in C : i # 1 => i - 1 \in D /\ c[i] = q[i - 1]
      /\ C \subseteq 1 .. Len(c)
      /\ c[1].kind = "data" <=> 1 \in C
  BY AtRest
<1>2. /\ R \subseteq 1 .. Len(q)
      /\ \A i \in R : i + 1 \in S /\ c[i + 1] = q[i]
      /\ \A i \in S : i # 1 => i - 1 \in R /\ c[i] = q[i - 1]
      /\ S \subseteq 1 .. Len(c)
      /\ c[1].kind = "resize" <=> 1 \in S
  BY AtRest
<1>3. /\ \A i \in C : (\A j \in S : i < j) => c[i].grid = a
      /\ \A i \in S, j \in C : i < j /\ (\A k \in S : k <= i \/ j <= k) => c[i].grid = c[j].grid
      /\ \A i \in S : (\A j \in S : j <= i) => c[i].grid = b
      /\ S = {} => a = b
  BY DEF DrawnFor
<1> HIDE DEF C, S, D, R
<1>4. ASSUME NEW i \in R, NEW j \in D, i < j, \A k \in R : k <= i \/ j <= k
      PROVE  q[i].grid = q[j].grid
  <2>1. i + 1 \in S /\ j + 1 \in C /\ i + 1 < j + 1  BY <1>1, <1>2, <1>4
  <2>2. ASSUME NEW k \in S  PROVE k <= i + 1 \/ j + 1 <= k
    <3>1. CASE k = 1  BY <3>1, <1>2
    <3>2. CASE k # 1
      <4>1. k - 1 \in R  BY <3>2, <1>2
      <4>2. k - 1 <= i \/ j <= k - 1  BY <4>1, <1>4
      <4> QED  BY <4>1, <4>2, <1>1, <1>2
    <3> QED  BY <3>1, <3>2
  <2>3. c[i + 1].grid = c[j + 1].grid  BY <2>1, <2>2, <1>3
  <2> QED  BY <2>3, <1>1, <1>2
<1>5. ASSUME NEW i \in R, \A j \in R : j <= i  PROVE q[i].grid = b
  <2>1. i + 1 \in S  BY <1>2
  <2>2. ASSUME NEW k \in S  PROVE k <= i + 1
    <3>1. CASE k = 1  BY <3>1, <1>2
    <3>2. CASE k # 1
      <4>1. k - 1 \in R  BY <3>2, <1>2
      <4> QED  BY <4>1, <1>2, <1>5
    <3> QED  BY <3>1, <3>2
  <2> QED  BY <2>1, <2>2, <1>2, <1>3
<1>6. ASSUME c[1].kind = "data"  PROVE c[1].grid = a /\ DrawnFor(q, a, b)
  <2>1. 1 \in C /\ \A k \in S : k # 1  BY <1>1, <1>2, <1>6
  <2>2. \A k \in S : 1 < k /\ k - 1 \in R  BY <2>1, <1>2
  <2>3. c[1].grid = a  BY <2>1, <2>2, <1>3
  <2>4. ASSUME NEW i \in D, \A j \in R : i < j  PROVE q[i].grid = a
    <3>1. i + 1 \in C  BY <1>1
    <3>2. ASSUME NEW k \in S  PROVE i + 1 < k
      <4>1. k - 1 \in R /\ i < k - 1  BY <2>2, <2>4
      <4> QED  BY <4>1, <1>1, <1>2
    <3> QED  BY <3>1, <3>2, <1>1, <1>3
  <2>5. R = {} => a = b
    <3>1. ASSUME R = {}  PROVE S = {}  BY <3>1, <2>2
    <3> QED  BY <3>1, <1>3
  <2> QED  BY <2>3, <2>4, <2>5, <1>4, <1>5 DEF DrawnFor, D, R
<1>7. ASSUME c[1].kind = "resize"  PROVE DrawnFor(q, c[1].grid, b)
  <2>1. 1 \in S  BY <1>2, <1>7
  <2>2. ASSUME NEW i \in D, \A j \in R : i < j  PROVE q[i].grid = c[1].grid
    <3>1. i + 1 \in C /\ 1 < i + 1  BY <1>1
    <3>2. ASSUME NEW k \in S  PROVE k <= 1 \/ i + 1 <= k
      <4>1. CASE k = 1  BY <4>1
      <4>2. CASE k # 1
        <5>1. k - 1 \in R /\ i < k - 1  BY <4>2, <1>2, <2>2
        <5> QED  BY <5>1, <1>1, <1>2
      <4> QED  BY <4>1, <4>2
    <3> QED  BY <3>1, <3>2, <2>1, <1>1, <1>3
  <2>3. ASSUME R = {}  PROVE c[1].grid = b
    <3>1. \A k \in S : k <= 1  BY <2>3, <1>2
    <3> QED  BY <3>1, <2>1, <1>3
  <2> QED  BY <2>2, <2>3, <1>4, <1>5 DEF DrawnFor, D, R
<1> QED  BY <1>6, <1>7

-----------------------------------------------------------------------------
(***************************************************************************)
(* Types.                                                                  *)
(***************************************************************************)
QueueType == stale \in BOOLEAN /\ queue \in Seq(Frames) /\ Len(queue) <= QCap

LEMMA MarkType == ASSUME TypeOK, MarkStale \/ Keep  PROVE QueueType'
<1>1. ResyncFrame \in Frames  BY FrameTypes
<1>2. queue \in Seq(Frames) /\ Len(queue) <= QCap /\ stale \in BOOLEAN  BY DEF TypeOK
<1>3. PushNewestOnFull(queue, QCap, ResyncFrame) \in Seq(Frames)
      /\ Len(PushNewestOnFull(queue, QCap, ResyncFrame)) <= QCap
  BY <1>1, <1>2, PushBounded
<1> QED  BY <1>2, <1>3 DEF QueueType, MarkStale, Keep

LEMMA RoomType ==
  ASSUME TypeOK, NEW f \in Frames, Len(queue) < QCap, queue' = Append(queue, f), UNCHANGED stale
  PROVE  QueueType'
<1>1. PushNewestOnFull(queue, QCap, f) = Append(queue, f)  BY DEF PushNewestOnFull
<1> QED  BY <1>1, PushBounded DEF TypeOK, QueueType

LEMMA DeliverType == ASSUME TypeOK, NEW f \in Frames, Deliver(f)  PROVE QueueType'
<1>1. CASE MarkStale \/ Keep  BY <1>1, MarkType
<1>2. CASE AdmitExpendable(queue, QCap, Reserve) /\ queue' = Append(queue, f) /\ UNCHANGED stale
  <2>1. QCap \in Nat \ {0} /\ Reserve \in Nat /\ Len(queue) \in Nat
    BY ViewerAssumption, LenProperties DEF TypeOK
  <2>2. Len(queue) < QCap  BY <1>2, <2>1 DEF AdmitExpendable
  <2> QED  BY <1>2, <2>2, RoomType
<1> QED  BY <1>1, <1>2 DEF Deliver

LEMMA PushGridType == ASSUME TypeOK, NEW g \in Grids, PushGrid(g)  PROVE QueueType'
<1>1. CASE MarkStale \/ Keep  BY <1>1, MarkType
<1>2. CASE Len(queue) < QCap /\ queue' = Append(queue, ResizeFrame(g)) /\ UNCHANGED stale
  BY <1>2, RoomType, FrameTypes
<1> QED  BY <1>1, <1>2 DEF PushGrid

LEMMA SyncType ==
  ASSUME TypeOK, Sync
  PROVE  /\ QueueType' /\ unseen' \in BOOLEAN /\ told' = pty
         /\ shown' \in [to : 0 .. MaxSeq, whole : BOOLEAN, framed : BOOLEAN]
<1>1. QCap \in Nat  BY ViewerAssumption
<1>2. << >> \in Seq(Frames) /\ Len(<< >>) <= QCap  BY <1>1
<1>3. shown' \in [to : 0 .. MaxSeq, whole : BOOLEAN, framed : BOOLEAN]  BY DEF TypeOK, Sync
<1> QED  BY <1>2, <1>3 DEF Sync, QueueType

LEMMA InitType == Init => TypeOK
<1> SUFFICES ASSUME Init PROVE TypeOK
  OBVIOUS
<1>1. /\ MaxSeq \in Nat /\ MaxResizes \in Nat /\ MaxSizes \in Nat /\ QCap \in Nat
      /\ MaxAnswers \in Nat /\ MaxReattaches \in Nat /\ MaxResyncs \in Nat
  BY ViewerAssumption
<1>2. used \in [resizes : 0 .. MaxResizes, sizes : 0 .. MaxSizes, answers : 0 .. MaxAnswers,
                 reattaches : 0 .. MaxReattaches, resyncs : 0 .. MaxResyncs]
  BY <1>1 DEF Init
<1>3. shown \in [to : 0 .. MaxSeq, whole : BOOLEAN, framed : BOOLEAN] /\ seq \in 0 .. MaxSeq
  BY <1>1 DEF Init
<1>4. /\ queue \in Seq(Frames) /\ Len(queue) <= QCap
      /\ hand \in Seq(Frames) /\ Len(hand) <= 1
  BY <1>1 DEF Init
<1> QED  BY <1>2, <1>3, <1>4 DEF Init, TypeOK

Counts == [resizes : 0 .. MaxResizes, sizes : 0 .. MaxSizes, answers : 0 .. MaxAnswers,
           reattaches : 0 .. MaxReattaches, resyncs : 0 .. MaxResyncs]

\* A counter moves only below its bound.
LEMMA CountTypes ==
  ASSUME used \in Counts
  PROVE  /\ used.resizes < MaxResizes => [used EXCEPT !.resizes = @ + 1] \in Counts
         /\ used.sizes < MaxSizes => [used EXCEPT !.sizes = @ + 1] \in Counts
         /\ used.answers < MaxAnswers => [used EXCEPT !.answers = @ + 1] \in Counts
         /\ used.reattaches < MaxReattaches => [used EXCEPT !.reattaches = @ + 1] \in Counts
         /\ used.resyncs < MaxResyncs => [used EXCEPT !.resyncs = @ + 1] \in Counts
<1>1. /\ MaxResizes \in Nat /\ MaxSizes \in Nat
      /\ MaxAnswers \in Nat /\ MaxReattaches \in Nat /\ MaxResyncs \in Nat
  BY ViewerAssumption
<1> QED  BY <1>1 DEF Counts

LEMMA NextType == TypeOK /\ [Next]_vars => TypeOK'
<1> SUFFICES ASSUME TypeOK, [Next]_vars PROVE TypeOK'
  OBVIOUS
<1>1. used \in Counts  BY DEF TypeOK, Counts
<1>2. CASE Output
  <2>1. seq' \in 0 .. MaxSeq /\ seq \in 0 .. MaxSeq
    BY <1>2, ViewerAssumption DEF Output, TypeOK
  <2>2. QueueType'
    <3>1. CASE Deliver(DataFrame(seq, seq + 1))
      <4>1. DataFrame(seq, seq + 1) \in Frames  BY <1>2, <2>1, FrameTypes DEF Output
      <4> QED  BY <3>1, <4>1, DeliverType
    <3>2. CASE Keep  BY <3>2, MarkType
    <3> QED  BY <1>2, <3>1, <3>2 DEF Output
  <2> QED  BY <1>2, <2>1, <2>2 DEF Output, TypeOK, QueueType, loops
<1>3. ASSUME NEW g \in Grids, ApplyGrid(g)  PROVE TypeOK'
  <2>1. QueueType'  BY <1>3, PushGridType, MarkType DEF ApplyGrid
  <2>2. used' \in Counts  BY <1>1, <1>3, CountTypes DEF ApplyGrid
  <2> QED  BY <1>3, <2>1, <2>2 DEF ApplyGrid, TypeOK, QueueType, Counts, loops, browser
<1>4. ASSUME NEW g \in Grids, AttachGrid(g)  PROVE TypeOK'
  <2>1. used' \in Counts  BY <1>1, <1>4, CountTypes DEF AttachGrid
  <2> QED  BY <1>4, <2>1 DEF AttachGrid, TypeOK, Counts, viewer, loops, browser
<1>5. CASE ResyncAll
  <2>1. QueueType'  BY <1>5, MarkType DEF ResyncAll
  <2>2. used' \in Counts  BY <1>1, <1>5, CountTypes DEF ResyncAll
  <2> QED  BY <1>5, <2>1, <2>2 DEF ResyncAll, TypeOK, QueueType, Counts, session, loops, browser
<1>6. CASE ConnectRestore
  <2>1. /\ QueueType' /\ unseen' \in BOOLEAN /\ told' = pty
        /\ shown' \in [to : 0 .. MaxSeq, whole : BOOLEAN, framed : BOOLEAN]
    BY <1>6, SyncType DEF ConnectRestore
  <2> QED  BY <1>6, <2>1 DEF ConnectRestore, TypeOK, QueueType, session
<1>7. CASE Take
  <2>1. /\ Head(queue) \in Frames /\ Tail(queue) \in Seq(Frames)
        /\ Len(Tail(queue)) = Len(queue) - 1 /\ Len(queue) \in Nat
    BY <1>7, HeadTailProperties, LenProperties DEF Take, TypeOK
  <2>2. QCap \in Nat  BY ViewerAssumption
  <2>3. Len(Tail(queue)) <= QCap  BY <2>1, <2>2 DEF TypeOK
  <2>4. <<Head(queue)>> \in Seq(Frames) /\ Len(<<Head(queue)>>) = 1  BY <2>1
  <2> QED  BY <1>7, <2>1, <2>3, <2>4 DEF Take, TypeOK, session, browser
<1>8. CASE Write
  <2>1. conn = "live" /\ hand' = << >>  BY <1>8 DEF Write, WriteResync, SkipHidden, WriteData, WriteResize
  <2>2. CASE WriteResync
    <3>1. /\ QueueType' /\ unseen' \in BOOLEAN /\ told' = pty
          /\ shown' \in [to : 0 .. MaxSeq, whole : BOOLEAN, framed : BOOLEAN]
      BY <2>2, SyncType DEF WriteResync
    <3> QED  BY <2>1, <2>2, <3>1 DEF WriteResync, TypeOK, QueueType, session
  <2>3. CASE SkipHidden
    BY <2>1, <2>3 DEF SkipHidden, TypeOK, session, viewer
  <2>4. hand # << >> => hand[1] \in Frames  BY ComingHead
  <2>5. CASE WriteData
    <3>1. hand[1].hi \in 0 .. MaxSeq /\ hand[1].grid \in Grids
      BY <2>4, <2>5, FrameCases DEF WriteData
    <3>2. shown.whole \in BOOLEAN /\ shown.framed \in BOOLEAN  BY DEF TypeOK
    <3>3. shown' \in [to : 0 .. MaxSeq, whole : BOOLEAN, framed : BOOLEAN]
      BY <2>5, <3>1, <3>2 DEF WriteData
    <3> QED  BY <2>1, <2>5, <3>3 DEF WriteData, TypeOK, session, viewer
  <2>6. CASE WriteResize
    <3>1. hand[1].grid \in Grids  BY <2>4, <2>6, FrameCases DEF WriteResize
    <3> QED  BY <2>1, <2>6, <3>1 DEF WriteResize, TypeOK, session, viewer
  <2> QED  BY <1>8, <2>2, <2>3, <2>5, <2>6 DEF Write
<1>9. ASSUME NEW show \in BOOLEAN, Declare(show)  PROVE TypeOK'
  <2>1. QueueType'
    <3>1. CASE Keep  BY <3>1, MarkType
    <3>2. CASE stale' = TRUE /\ queue' = PushNewestOnFull(queue, QCap, ResyncFrame)
      BY <3>2, PushBounded, FrameTypes DEF TypeOK, QueueType
    <3> QED  BY <1>9, <3>1, <3>2 DEF Declare
  <2>2. used' \in Counts  BY <1>1, <1>9, CountTypes DEF Declare
  <2>3. visible' \in BOOLEAN /\ displayed' \in BOOLEAN  BY <1>9 DEF Declare, TypeOK
  <2>4. reader' \in {Idle, Asked}  BY <1>9 DEF Declare
  <2> QED  BY <1>9, <2>1, <2>2, <2>3, <2>4 DEF Declare, TypeOK, QueueType, Counts, session, browser
<1>10. CASE NoAnswer
  BY <1>10 DEF NoAnswer, TypeOK, session, viewer, browser
<1>11. CASE ReadGrid
  <2>1. used' \in Counts  BY <1>1, <1>11, CountTypes DEF ReadGrid
  <2>2. reader' \in [pc : {"answer"}, grid : Grids]  BY <1>11 DEF ReadGrid, TypeOK
  <2> QED  BY <1>11, <2>1, <2>2 DEF ReadGrid, TypeOK, Counts, session, viewer, browser
<1>12. CASE TellViewer
  <2>1. reader.grid \in Grids  BY <1>12 DEF TellViewer, TypeOK, Idle, Asked
  <2>2. QueueType'  BY <1>12, <2>1, PushGridType DEF TellViewer
  <2> QED  BY <1>12, <2>2 DEF TellViewer, TypeOK, QueueType, session, browser
<1>13. CASE SessionExit
  BY <1>13 DEF SessionExit, TypeOK, viewer, loops, browser
<1>14. CASE WriterExit
  BY <1>14 DEF WriterExit, TypeOK, session, viewer, browser
<1>15. CASE Disconnect
  <2>1. QCap \in Nat  BY ViewerAssumption
  <2> QED  BY <1>15, <2>1 DEF Disconnect, TypeOK, session, browser
<1>16. CASE UNCHANGED vars
  BY <1>16 DEF vars, TypeOK, session, viewer, loops, browser
<1> QED
  BY <1>2, <1>3, <1>4, <1>5, <1>6, <1>7, <1>8, <1>9, <1>10, <1>11, <1>12, <1>13, <1>14, <1>15, <1>16
     DEF Next

-----------------------------------------------------------------------------
(***************************************************************************)
(* The invariant is inductive.                                             *)
(***************************************************************************)
Facts == OutputFollows /\ GridFollows /\ AnswerCounted /\ StaleHasResync

\* A Resync pushed to the queue is coming.
LEMMA ResyncPushed ==
  ASSUME TypeOK, hand' = hand, queue' = PushNewestOnFull(queue, QCap, ResyncFrame)
  PROVE  At(Coming', "resync") # {}
<1>1. ResyncFrame \in Frames /\ ResyncFrame.kind = "resync"  BY FrameTypes
<1>2. /\ queue' \in Seq(Frames) /\ Len(queue') \in Nat \ {0}
      /\ queue'[Len(queue')] = ResyncFrame
  BY <1>1, PushBounded DEF TypeOK
<1>3. hand \in Seq(Frames) /\ Len(hand) \in Nat  BY LenProperties DEF TypeOK
<1> DEFINE q == queue'
           n == Len(hand) + Len(q)
<1>4. /\ Len(hand \o q) = n
      /\ (hand \o q)[n] = IF n <= Len(hand) THEN hand[n] ELSE q[n - Len(hand)]
  <2>1. n \in 1 .. n  BY <1>2, <1>3
  <2> QED  BY <1>2, <1>3, <2>1, ConcatProperties
<1>5. (hand \o q)[n] = ResyncFrame /\ n \in 1 .. n  BY <1>2, <1>3, <1>4
<1>6. Coming' = hand \o q  BY DEF Coming
<1> QED  BY <1>1, <1>4, <1>5, <1>6 DEF At

\* A browser marked stale has its Resync coming.
LEMMA MarkFacts ==
  ASSUME Ind, MarkStale, UNCHANGED <<conn, hand, reader>>, used'.answers = used.answers
  PROVE  Facts'
<1>1. stale' = TRUE  BY DEF MarkStale
<1>2. OutputFollows' /\ GridFollows'  BY <1>1 DEF OutputFollows, GridFollows, Following
<1>3. AnswerCounted'  BY DEF Ind, AnswerCounted
<1>4. StaleHasResync'
  <2>1. CASE stale
    <3>1. queue' = queue  BY <2>1 DEF MarkStale
    <3> QED  BY <2>1, <3>1 DEF Ind, StaleHasResync, Coming, At
  <2>2. CASE ~stale
    <3>1. At(Coming', "resync") # {}  BY <2>2, ResyncPushed DEF MarkStale, Ind
    <3> QED  BY <3>1 DEF StaleHasResync, At
  <2> QED  BY <2>1, <2>2
<1> QED  BY <1>2, <1>3, <1>4 DEF Facts

\* A browser that stops following needs no more than its Resync.
LEMMA IdleFacts ==
  ASSUME Ind, ~Following', UNCHANGED <<hand, queue>>, AnswerCounted',
         conn' = "live" /\ stale' => conn = "live" /\ stale
  PROVE  Facts'
BY DEF Ind, Facts, OutputFollows, GridFollows, StaleHasResync, Coming, At

\* Nothing the browser sees, and nothing coming to it, changes.
LEMMA QuietFacts ==
  ASSUME Ind, UNCHANGED <<hand, queue, seq, shown>>, AnswerCounted',
         Following' => Following,
         Following' /\ Undisturbed' => Undisturbed /\ told' = told /\ pty' = pty,
         conn' = "live" /\ stale' => conn = "live" /\ stale
  PROVE  Facts'
<1>1. Coming' = Coming  BY DEF Coming
<1>2. OutputFollows'  BY <1>1 DEF Ind, OutputFollows, Continues, Unbroken, At
<1>3. GridFollows'  BY <1>1 DEF Ind, GridFollows, DrawnFor, At
<1>4. StaleHasResync'  BY <1>1 DEF Ind, StaleHasResync, At
<1> QED  BY <1>2, <1>3, <1>4 DEF Facts

\* A browser that is restored shows the present, and nothing else is coming.
LEMMA SyncFacts ==
  ASSUME Ind, Sync, hand' = << >>, UNCHANGED <<seq, pty, reader, used>>
  PROVE  Facts'
<1>1. Coming' = << >>  BY ConcatEmptySeq DEF Sync, Coming
<1>2. At(Coming', "data") = {} /\ At(Coming', "resize") = {}
  <2>1. Len(<< >>) = 0  BY EmptySeq
  <2>2. 1 .. 0 = {}  OBVIOUS
  <2> QED  BY <1>1, <2>1, <2>2 DEF At
<1>3. stale' = FALSE /\ shown'.to = seq' /\ shown'.whole /\ shown'.framed /\ told' = pty'
  BY DEF Sync
<1>4. Unbroken(Coming', seq', seq')  BY <1>2 DEF Unbroken
<1>5. DrawnFor(Coming', told', pty')  BY <1>2, <1>3 DEF DrawnFor
<1>6. OutputFollows'
  <2>1. Unbroken(Coming', shown'.to, seq')  BY <1>3, <1>4
  <2> QED  BY <1>3, <2>1 DEF OutputFollows, Continues, Unbroken, At
<1>7. GridFollows'  BY <1>3, <1>5 DEF GridFollows, DrawnFor, At
<1>8. StaleHasResync'  BY <1>3 DEF StaleHasResync
<1>9. AnswerCounted'  BY DEF Ind, AnswerCounted
<1> QED  BY <1>6, <1>7, <1>8, <1>9 DEF Facts

LEMMA OutputFacts == ASSUME Ind, Output  PROVE Facts'
<1>1. /\ UNCHANGED <<conn, hand, reader, visible, displayed, told, shown, used, pty>>
      /\ seq' = seq + 1 /\ AnswerCounted'
  BY DEF Output, loops, Ind, AnswerCounted
<1>2. TypeOK /\ seq \in 0 .. MaxSeq /\ seq + 1 \in 0 .. MaxSeq
  BY ViewerAssumption DEF Output, Ind, TypeOK
<1>3. CASE ~(visible /\ Registered)
  <2>1. Keep  BY <1>3 DEF Output
  <2>2. ~Following'
    <3> SUFFICES ASSUME Following' PROVE FALSE
      OBVIOUS
    <3>1. conn = "live" /\ Registered /\ ~visible /\ ~displayed /\ ~unseen'
      BY <1>1, <1>3 DEF Following, Registered
    <3> QED  BY <3>1 DEF Output
  <2> QED  BY <1>1, <2>1, <2>2, IdleFacts DEF Keep
<1>4. CASE visible /\ Registered
  <2> DEFINE f == DataFrame(seq, seq + 1)
  <2>1. /\ f \in Frames /\ f.kind = "data"
        /\ f.lo = seq /\ f.hi = seq + 1 /\ f.grid = pty
    BY <1>2, FrameTypes
  <2>2. Deliver(f)  BY <1>4 DEF Output
  <2> HIDE DEF f
  <2>3. CASE stale
    <3>1. Keep  BY <2>2, <2>3 DEF Deliver
    <3>2. ~Following'  BY <2>3, <3>1 DEF Following, Keep
    <3> QED  BY <1>1, <3>1, <3>2, IdleFacts DEF Keep
  <2>4. CASE ~stale /\ MarkStale
    BY <1>1, <2>4, MarkFacts
  <2>5. CASE queue' = Append(queue, f) /\ UNCHANGED stale /\ ~stale
    <3>1. Coming \in Seq(Frames) /\ Coming' = Append(Coming, f)
      BY <1>1, <1>2, <2>1, <2>5, ComingAppend
    <3>2. Following' => Following  BY <1>1, <1>4, <2>5 DEF Following, Output
    <3>3. OutputFollows'
      <4> SUFFICES ASSUME Following' PROVE shown'.whole /\ Continues'
        BY DEF OutputFollows
      <4>1. shown.whole /\ Unbroken(Coming, shown.to, f.lo)
        BY <2>1, <3>2 DEF Ind, OutputFollows, Continues
      <4>2. Unbroken(Append(Coming, f), shown.to, f.hi)
        BY <2>1, <3>1, <4>1, UnbrokenAppendData
      <4>3. Unbroken(Coming', shown'.to, seq')  BY <1>1, <2>1, <3>1, <4>2
      <4> QED  BY <1>1, <4>1, <4>3 DEF Continues, Unbroken, At
    <3>4. GridFollows'
      <4> SUFFICES ASSUME Following', Undisturbed' PROVE shown'.framed /\ DrawnFor(Coming, told, pty)'
        BY DEF GridFollows
      <4>1. shown.framed /\ DrawnFor(Coming, told, f.grid)
        BY <1>1, <2>1, <3>2 DEF Ind, GridFollows, Undisturbed
      <4>2. DrawnFor(Append(Coming, f), told, f.grid)
        BY <2>1, <3>1, <4>1, DrawnAppendData
      <4>3. DrawnFor(Coming', told', pty')  BY <1>1, <2>1, <3>1, <4>2
      <4> QED  BY <1>1, <4>1, <4>3 DEF DrawnFor, At
    <3>5. StaleHasResync'  BY <2>5 DEF StaleHasResync
    <3> QED  BY <1>1, <3>3, <3>4, <3>5 DEF Facts
  <2> QED  BY <2>2, <2>3, <2>4, <2>5 DEF Deliver
<1> QED  BY <1>3, <1>4

\* An announcement takes its place behind the output queued before it.
LEMMA PushGridFacts ==
  ASSUME Ind, NEW g \in Grids, PushGrid(g),
         UNCHANGED <<conn, hand, visible, displayed, told, shown, unseen, seq>>,
         AnswerCounted',
         Undisturbed' => Undisturbed /\ pty' = g
  PROVE  Facts'
<1>1. CASE stale
  <2>1. Keep  BY <1>1 DEF PushGrid
  <2>2. ~Following'  BY <1>1, <2>1 DEF Following, Keep
  <2> QED  BY <2>1, <2>2, IdleFacts DEF Keep
<1>2. CASE ~stale /\ MarkStale
  <2>1. stale' = TRUE  BY <1>2 DEF MarkStale
  <2>2. OutputFollows' /\ GridFollows'  BY <2>1 DEF OutputFollows, GridFollows, Following
  <2>3. At(Coming', "resync") # {}  BY <1>2, ResyncPushed DEF MarkStale, Ind
  <2> QED  BY <2>2, <2>3 DEF Facts, StaleHasResync, At
<1>3. CASE queue' = Append(queue, ResizeFrame(g)) /\ UNCHANGED stale /\ ~stale
  <2> DEFINE f == ResizeFrame(g)
  <2>1. f \in Frames /\ f.kind = "resize" /\ f.grid = g  BY FrameTypes
  <2> HIDE DEF f
  <2>2. Coming \in Seq(Frames) /\ Coming' = Append(Coming, f)
    BY <1>3, <2>1, ComingAppend DEF f, Ind
  <2>3. Following' => Following  BY <1>3 DEF Following
  <2>4. OutputFollows'
    <3> SUFFICES ASSUME Following' PROVE shown'.whole /\ Continues'
      BY DEF OutputFollows
    <3>1. shown.whole /\ Unbroken(Coming, shown.to, seq)
      BY <2>3 DEF Ind, OutputFollows, Continues
    <3>2. Unbroken(Append(Coming, f), shown.to, seq)
      BY <2>1, <2>2, <3>1, UnbrokenAppendOther
    <3>3. Unbroken(Coming', shown'.to, seq')  BY <2>2, <3>2
    <3> QED  BY <3>1, <3>3 DEF Continues, Unbroken, At
  <2>5. GridFollows'
    <3> SUFFICES ASSUME Following', Undisturbed' PROVE shown'.framed /\ DrawnFor(Coming, told, pty)'
      BY DEF GridFollows
    <3>1. shown.framed /\ DrawnFor(Coming, told, pty)  BY <2>3 DEF Ind, GridFollows
    <3>2. DrawnFor(Append(Coming, f), told, f.grid)
      BY <2>1, <2>2, <3>1, DrawnAppendResize
    <3>3. DrawnFor(Coming', told', pty')  BY <2>1, <2>2, <3>2
    <3> QED  BY <3>1, <3>3 DEF DrawnFor, At
  <2>6. StaleHasResync'  BY <1>3 DEF StaleHasResync
  <2> QED  BY <2>4, <2>5, <2>6 DEF Facts
<1> QED  BY <1>1, <1>2, <1>3 DEF PushGrid

LEMMA WriteFacts == ASSUME Ind, Write  PROVE Facts'
<1>1. TypeOK /\ conn = "live" /\ hand # << >> /\ hand' = << >> /\ UNCHANGED <<session, conn, reader, used>>
  BY DEF Ind, Write, WriteResync, SkipHidden, WriteData, WriteResize
<1>2. AnswerCounted'  BY <1>1 DEF Ind, AnswerCounted
<1>3. CASE WriteResync
  BY <1>1, <1>3, SyncFacts DEF WriteResync, session
<1>4. CASE ~WriteResync
  <2>1. hand[1].kind # "resync" /\ UNCHANGED <<visible, displayed, stale, queue>>
    BY <1>4 DEF Write, SkipHidden, WriteData, WriteResize, viewer
  <2>2. /\ Coming \in Seq(Frames) /\ queue \in Seq(Frames) /\ Coming[1] = hand[1]
        /\ Len(Coming) = Len(queue) + 1
        /\ \A i \in 1 .. Len(queue) : Coming[i + 1] = queue[i]
    BY <1>1, ComingHead DEF TypeOK
  <2>3. Coming' = queue  BY <1>1, <2>1, ComingWritten
  <2>4. StaleHasResync'
    <3> SUFFICES ASSUME conn' = "live", stale' PROVE At(Coming', "resync") # {}
      BY DEF StaleHasResync, At
    <3>1. PICK i \in At(Coming, "resync") : TRUE
      BY <1>1, <2>1 DEF Ind, StaleHasResync
    <3>2. i # 1  BY <2>1, <2>2, <3>1 DEF At
    <3>3. i - 1 \in At(queue, "resync")  BY <2>2, <3>1, <3>2, AtRest
    <3> QED  BY <2>3, <3>3
  <2>5. CASE SkipHidden
    <3>1. ~Following'  BY <2>1, <2>5 DEF SkipHidden, Following
    <3> QED  BY <1>2, <2>4, <3>1 DEF Facts, OutputFollows, GridFollows
  <2>6. CASE WriteData
    <3>2. hand[1].kind = "data" /\ UNCHANGED <<told, unseen>>  BY <2>6 DEF WriteData
    <3>3. Following' => Following  BY <1>1, <2>1, <3>2 DEF Following
    <3>4. OutputFollows'
      <4> SUFFICES ASSUME Following' PROVE shown'.whole /\ Continues'
        BY DEF OutputFollows
      <4>1. shown.whole /\ Unbroken(Coming, shown.to, seq)
        BY <3>3 DEF Ind, OutputFollows, Continues
      <4>2. hand[1].lo = shown.to /\ Unbroken(queue, hand[1].hi, seq)
        BY <2>2, <3>2, <4>1, UnbrokenRest
      <4>3. shown'.whole /\ shown'.to = hand[1].hi /\ seq' = seq
        BY <1>1, <2>6, <4>1, <4>2 DEF WriteData, session
      <4>4. Unbroken(Coming', shown'.to, seq')  BY <2>3, <4>2, <4>3
      <4> QED  BY <4>3, <4>4 DEF Continues, Unbroken, At
    <3>5. GridFollows'
      <4> SUFFICES ASSUME Following', Undisturbed'
                   PROVE shown'.framed /\ DrawnFor(Coming, told, pty)'
        BY DEF GridFollows
      <4>1. shown.framed /\ DrawnFor(Coming, told, pty)
        BY <1>1, <3>3 DEF Ind, GridFollows, Undisturbed
      <4>2. hand[1].grid = told /\ DrawnFor(queue, told, pty)
        BY <2>2, <3>2, <4>1, DrawnRest
      <4>3. shown'.framed /\ told' = told /\ pty' = pty
        BY <1>1, <2>6, <3>2, <4>1, <4>2 DEF WriteData, session
      <4>4. DrawnFor(Coming', told', pty')  BY <2>3, <4>2, <4>3
      <4> QED  BY <4>3, <4>4 DEF DrawnFor, At
    <3> QED  BY <1>2, <2>4, <3>4, <3>5 DEF Facts
  <2>7. CASE WriteResize
    <3>1. hand[1].kind = "resize" /\ UNCHANGED <<shown, unseen>> /\ told' = hand[1].grid
      BY <2>7 DEF WriteResize
    <3>2. Following' => Following  BY <1>1, <2>1, <3>1 DEF Following
    <3>3. OutputFollows'
      <4> SUFFICES ASSUME Following' PROVE shown'.whole /\ Continues'
        BY DEF OutputFollows
      <4>1. shown.whole /\ Unbroken(Coming, shown.to, seq)
        BY <3>2 DEF Ind, OutputFollows, Continues
      <4>2. Unbroken(queue, shown.to, seq)  BY <2>2, <3>1, <4>1, UnbrokenRest
      <4>3. shown' = shown /\ seq' = seq  BY <1>1, <3>1 DEF session
      <4>4. Unbroken(Coming', shown'.to, seq')  BY <2>3, <4>2, <4>3
      <4> QED  BY <4>1, <4>3, <4>4 DEF Continues, Unbroken, At
    <3>4. GridFollows'
      <4> SUFFICES ASSUME Following', Undisturbed'
                   PROVE shown'.framed /\ DrawnFor(Coming, told, pty)'
        BY DEF GridFollows
      <4>1. shown.framed /\ DrawnFor(Coming, told, pty)
        BY <1>1, <3>2 DEF Ind, GridFollows, Undisturbed
      <4>2. DrawnFor(queue, hand[1].grid, pty)  BY <2>2, <3>1, <4>1, DrawnRest
      <4>3. DrawnFor(Coming', told', pty')  BY <1>1, <2>3, <3>1, <4>2 DEF session
      <4> QED  BY <3>1, <4>1, <4>3 DEF DrawnFor, At
    <3> QED  BY <1>2, <2>4, <3>3, <3>4 DEF Facts
  <2> QED  BY <1>4, <2>5, <2>6, <2>7 DEF Write
<1> QED  BY <1>3, <1>4

LEMMA NextFacts == Ind /\ [Next]_vars => Facts'
<1> SUFFICES ASSUME Ind, [Next]_vars PROVE Facts'
  OBVIOUS
<1> USE DEF session, viewer, loops, browser
<1>1. CASE Output  BY <1>1, OutputFacts
<1>2. ASSUME NEW g \in Grids, ApplyGrid(g)  PROVE Facts'
  <2>1. /\ UNCHANGED <<conn, hand, reader, visible, displayed, told, shown, unseen, seq>>
        /\ used'.answers = used.answers /\ used'.reattaches = used.reattaches /\ pty' = g
    BY <1>2 DEF ApplyGrid, Ind, TypeOK
  <2>2. AnswerCounted' /\ (Undisturbed' => Undisturbed)
    BY <2>1 DEF Ind, AnswerCounted, Undisturbed
  <2>3. CASE Registered  BY <1>2, <2>1, <2>2, <2>3, PushGridFacts DEF ApplyGrid
  <2>4. CASE ~Registered
    <3>1. ~Following' /\ conn' # "live"  BY <2>1, <2>4 DEF Following, Registered
    <3> QED  BY <1>2, <2>1, <2>2, <2>4, <3>1, IdleFacts DEF ApplyGrid, Keep
  <2> QED  BY <2>3, <2>4
<1>3. ASSUME NEW g \in Grids, AttachGrid(g)  PROVE Facts'
  <2>1. used'.answers = used.answers /\ used'.reattaches = used.reattaches + 1
        /\ used.reattaches \in Nat
    BY <1>3, ViewerAssumption DEF AttachGrid, Ind, TypeOK
  <2>2. AnswerCounted' /\ ~Undisturbed'
    BY <1>3, <2>1 DEF AttachGrid, Ind, AnswerCounted, Undisturbed
  <2>3. Following' => Following  BY <1>3 DEF AttachGrid, Following
  <2> QED  BY <1>3, <2>2, <2>3, QuietFacts DEF AttachGrid
<1>4. CASE ResyncAll
  <2>1. used'.answers = used.answers  BY <1>4 DEF ResyncAll, Ind, TypeOK
  <2> QED  BY <1>4, <2>1, MarkFacts DEF ResyncAll
<1>5. CASE ConnectRestore
  <2>1. hand' = << >>  BY <1>5 DEF ConnectRestore, Ind, TypeOK
  <2> QED  BY <1>5, <2>1, SyncFacts DEF ConnectRestore
<1>6. CASE Take
  <2>1. Coming' = Coming  BY <1>6, ComingTake DEF Ind
  <2>2. /\ UNCHANGED <<conn, stale, unseen, visible, displayed, reader, used, seq, pty, told, shown>>
    BY <1>6 DEF Take
  <2>3. OutputFollows'
    BY <2>1, <2>2 DEF Ind, OutputFollows, Following, Continues, Unbroken, At
  <2>4. GridFollows'
    BY <2>1, <2>2 DEF Ind, GridFollows, Following, Undisturbed, DrawnFor, At
  <2>5. StaleHasResync'  BY <2>1, <2>2 DEF Ind, StaleHasResync, At
  <2>6. AnswerCounted'  BY <2>2 DEF Ind, AnswerCounted
  <2> QED  BY <2>3, <2>4, <2>5, <2>6 DEF Facts
<1>7. CASE Write  BY <1>7, WriteFacts
<1>8. ASSUME NEW show \in BOOLEAN, Declare(show)  PROVE Facts'
  <2>1. /\ UNCHANGED <<conn, hand, unseen, seq, pty, told, shown>> /\ reader' \in {Idle, Asked}
        /\ used'.answers = used.answers /\ used'.reattaches = used.reattaches
        /\ visible' = show /\ displayed' = (displayed \/ show)
    BY <1>8 DEF Declare, Ind, TypeOK
  <2>2. AnswerCounted'  BY <2>1 DEF AnswerCounted, Idle, Asked
  <2>3. CASE show /\ ~visible /\ displayed
    <3>1. stale' = TRUE /\ queue' = PushNewestOnFull(queue, QCap, ResyncFrame)
      BY <1>8, <2>3 DEF Declare
    <3>2. OutputFollows' /\ GridFollows'  BY <3>1 DEF OutputFollows, GridFollows, Following
    <3>3. At(Coming', "resync") # {}  BY <2>1, <3>1, ResyncPushed DEF Ind
    <3> QED  BY <2>2, <3>2, <3>3 DEF Facts, StaleHasResync, At
  <2>4. CASE ~(show /\ ~visible /\ displayed)
    <3>1. UNCHANGED <<stale, queue>>  BY <1>8, <2>4 DEF Declare, Keep
    <3>2. Following' => Following  BY <2>1, <2>4, <3>1 DEF Following
    <3>3. Undisturbed' => Undisturbed  BY <2>1 DEF Undisturbed
    <3> QED  BY <2>1, <2>2, <3>1, <3>2, <3>3, QuietFacts
  <2> QED  BY <2>3, <2>4
<1>9. CASE NoAnswer
  <2>1. AnswerCounted'  BY <1>9 DEF NoAnswer, AnswerCounted, Idle
  <2>2. (Following' => Following) /\ (Undisturbed' => Undisturbed)
    BY <1>9 DEF NoAnswer, Following, Undisturbed
  <2> QED  BY <1>9, <2>1, <2>2, QuietFacts DEF NoAnswer
<1>10. CASE ReadGrid
  <2>1. used'.answers = used.answers + 1 /\ used.answers \in Nat
    BY <1>10, ViewerAssumption DEF ReadGrid, Ind, TypeOK
  <2>2. AnswerCounted' /\ ~Undisturbed'  BY <2>1 DEF AnswerCounted, Undisturbed
  <2>3. Following' => Following  BY <1>10 DEF ReadGrid, Following
  <2> QED  BY <1>10, <2>2, <2>3, QuietFacts DEF ReadGrid
<1>11. CASE TellViewer
  <2>1. used.answers > 0 /\ used.answers \in Nat /\ reader.grid \in Grids
    BY <1>11, ViewerAssumption DEF TellViewer, Ind, AnswerCounted, TypeOK, Idle, Asked
  <2>2. AnswerCounted' /\ ~Undisturbed'
    BY <1>11, <2>1 DEF TellViewer, AnswerCounted, Undisturbed
  <2> QED  BY <1>11, <2>1, <2>2, PushGridFacts DEF TellViewer
<1>12. CASE SessionExit
  <2>1. AnswerCounted'  BY <1>12 DEF SessionExit, Ind, AnswerCounted
  <2>2. (Following' => Following) /\ (Undisturbed' => Undisturbed)
    BY <1>12 DEF SessionExit, Following, Undisturbed
  <2> QED  BY <1>12, <2>1, <2>2, QuietFacts DEF SessionExit
<1>13. CASE WriterExit
  <2>1. AnswerCounted'  BY <1>13 DEF WriterExit, Ind, AnswerCounted
  <2>2. ~Following' /\ conn' # "live"  BY <1>13 DEF WriterExit, Following
  <2> QED  BY <1>13, <2>1, <2>2, IdleFacts DEF WriterExit
<1>14. CASE Disconnect
  <2>1. AnswerCounted'  BY <1>14 DEF Disconnect, AnswerCounted, Idle
  <2>2. ~Following' /\ conn' # "live"  BY <1>14 DEF Disconnect, Following
  <2> QED  BY <2>1, <2>2 DEF Facts, OutputFollows, GridFollows, StaleHasResync
<1>15. CASE UNCHANGED vars
  <2>1. AnswerCounted'  BY <1>15 DEF vars, Ind, AnswerCounted
  <2>2. (Following' => Following) /\ (Undisturbed' => Undisturbed)
    BY <1>15 DEF vars, Following, Undisturbed
  <2> QED  BY <1>15, <2>1, <2>2, QuietFacts DEF vars
<1> QED
  BY <1>1, <1>2, <1>3, <1>4, <1>5, <1>6, <1>7, <1>8, <1>9, <1>10, <1>11, <1>12, <1>13, <1>14, <1>15
     DEF Next

-----------------------------------------------------------------------------
(***************************************************************************)
(* The theorems.                                                           *)
(***************************************************************************)

LEMMA InitInd == Init => Ind
<1> SUFFICES ASSUME Init PROVE Ind
  OBVIOUS
<1>1. TypeOK  BY InitType
<1>2. ~Following /\ conn = "new" /\ reader = Idle  BY DEF Init, Following
<1> QED  BY <1>1, <1>2 DEF Ind, OutputFollows, GridFollows, AnswerCounted, StaleHasResync, Idle

LEMMA IndInvariant == Spec => []Ind
<1>1. Ind /\ [Next]_vars => Ind'
  BY NextType, NextFacts DEF Ind, Facts
<1> QED  BY InitInd, <1>1, PTL DEF Spec

\* Every reachable state is well typed: no browser's queue outgrows its channel,
\* and the writer holds at most one frame.
THEOREM ViewerTypeCorrect == Spec => []TypeOK
<1>1. Ind => TypeOK  BY DEF Ind
<1> QED  BY IndInvariant, <1>1, PTL

\* A browser misses nothing unawares: what it shows is whole and what is coming
\* continues it, or it is stale and its Resync is coming (fanOutLocked,
\* markStaleLocked, syncViewer).
THEOREM ViewerMissesNothing == Spec => []NothingMissed
<1>1. Ind => NothingMissed
  BY DEF Ind, NothingMissed, VisibleViewerWhole, Displaying, OutputFollows, Following
<1> QED  BY IndInvariant, <1>1, PTL

\* Output is executed on the grid it was drawn for, unless setViewerSize
\* answered by itself or a re-attach found another grid.
THEOREM ViewerGridRight == Spec => []GridAsDrawn
<1>1. Ind => GridAsDrawn
  BY DEF Ind, GridAsDrawn, Displaying, GridFollows, Following, Undisturbed
<1> QED  BY IndInvariant, <1>1, PTL
=============================================================================
