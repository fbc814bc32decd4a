--------------------------- MODULE KeyframeProofs ---------------------------
(***************************************************************************)
(* Proofs about Keyframe: whatever a browser that connects is sent, the    *)
(* screen model and the window after it are one stretch of the program's   *)
(* output on one grid.                                                     *)
(*                                                                         *)
(* Everything is compared with one number, Reached: the daemon offset that the *)
(* server's count of the stream has reached.  A copy without a loss is the *)
(* stretch that ends there; a copy with one holds bytes that are no        *)
(* earlier, which is all that the grids need.  The frames in flight follow *)
(* one another from Reached (or from the start of the replay) to the daemon's  *)
(* last byte.                                                              *)
(***************************************************************************)
EXTENDS Keyframe, SequenceTheorems, TLAPS

Value == 1 .. MaxBytes
Frame == [kind : {"data"}, bytes : Seq(Value)] \cup [kind : {"gap"}]
         \cup [kind : {"resize"}, grid : TermSizes]
Model == [model : Seq(Value) \cup {NoModel}, grid : TermSizes, at : Nat, gen : Nat]
Asking == {"none", "gen", "snap", "install", "done"}
Seeder == [pc : Asking, gen : Nat, offset : 0 .. MaxBytes, tries : Nat]
          \cup [pc : Asking, gen : Nat, offset : 0 .. MaxBytes, tries : Nat, grid : TermSizes]

\* The daemon offset the server's count has reached.
Reached == base.daemon + (seq - base.ring)

\* s is the stretch of output that ends at e; s holds nothing earlier than it.
EndsAt(s, e)    == \A i \in 1 .. Len(s) : s[i] = e - (Len(s) - i)
NoEarlier(s, e) == \A i \in 1 .. Len(s) : s[i] >= e - (Len(s) - i)

-----------------------------------------------------------------------------
(***************************************************************************)
(* The inductive invariant.                                                *)
(***************************************************************************)
KeyframeTyped ==
  /\ held \in Seq(Value) /\ Len(held) <= Cap /\ seq \in Nat
  /\ drawn \in Seq(TermSizes) /\ Dseq <= MaxBytes /\ dgrid \in TermSizes /\ ackGrid \in TermSizes
  /\ inflight \in Seq(Frame) /\ connUp \in BOOLEAN
  /\ attach \in 0 .. MaxAttaches /\ holed \in [Attaches -> BOOLEAN]
  /\ phase \in {"reattach", "attaching", "attached"} /\ since \in Nat \cup {NoOffset}
  /\ from \in 0 .. Dseq /\ fresh \in BOOLEAN /\ replayEnd \in 0 .. Dseq
  /\ base \in [daemon : Nat, ring : Nat] /\ base.ring <= seq
  /\ kf \in Model /\ kf.at <= seq
  /\ seeder \in [Attaches -> Seeder]
  /\ \A k \in Attaches : seeder[k].pc = "install" => seeder[k].grid \in TermSizes

\* What holds between the steps of an attach.
Attaching ==
  /\ phase # "reattach" => attach >= 1
  /\ phase = "reattach" => /\ inflight = << >>
                           /\ since = NoOffset => held = << >>
                           /\ since # NoOffset => since = Reached
  /\ phase = "attaching" /\ fresh => held = << >>
  /\ phase = "attaching" /\ ~fresh => from = Reached
  /\ phase = "attached" => HasModel
  /\ \A k \in Attaches : k > attach => ~holed[k]

\* The daemon has drawn what is held and what is in flight.
Drawn ==
  /\ \A i \in 1 .. Len(held) : held[i] <= Dseq
  /\ \A i \in 1 .. Len(inflight) : inflight[i].kind = "data" =>
       \A b \in 1 .. Len(inflight[i].bytes) : inflight[i].bytes[b] <= Dseq

\* The frames of s lie one after the other from offset a; p[i] is where the i-th
\* one ends.
Length(f) == IF f.kind = "data" THEN Len(f.bytes) ELSE 0
Laid(s, p, a) ==
  /\ p[0] = a
  /\ \A i \in 1 .. Len(s) : p[i] = p[i - 1] + Length(s[i])
  /\ \A i, j \in 0 .. Len(s) : i <= j => p[i] <= p[j]
  /\ \A i \in 1 .. Len(s) : s[i].kind = "data" => NoEarlier(s[i].bytes, p[i])

\* No gap among the first i frames of s.
NoGap(s, i) == \A j \in 1 .. i : s[j].kind # "gap"
Whole(s, p) == \A i \in 1 .. Len(s) : s[i].kind = "data" /\ NoGap(s, i) => EndsAt(s[i].bytes, p[i])
Reaches(s, p, e) == p[Len(s)] <= e
Joins(s, p, e)   == NoGap(s, Len(s)) => p[Len(s)] = e

Front == IF phase = "attached" THEN Reached ELSE from
Tiles ==
  phase # "reattach" =>
    \E p \in [0 .. Len(inflight) -> Int] :
      /\ Laid(inflight, p, Front)
      /\ ~holed[attach] => Whole(inflight, p)
      /\ Streaming => Reaches(inflight, p, Dseq)
      /\ Streaming /\ ~holed[attach] => Joins(inflight, p, Dseq)

Sound == phase = "attached" => ~holed[attach]

CopyFollows  == NoEarlier(held, Reached) /\ (Sound => EndsAt(held, Reached))
ModelFollows == HasModel /\ Sound => EndsAt(kf.model, Reached - (seq - kf.at))

\* d gives the grid each byte was drawn for, and the replay ends at r: v is a
\* byte of the replay, which has no grid, or was drawn for g.
On(d, r, v, g) == v > r => d[v] = g

\* The frames of s before any resize, as far as they are later than m, were
\* drawn for g, and those after a resize for its grid.
NoResize(s, i, j) == \A n \in i .. j : s[n].kind # "resize"
LeadOn(d, r, s, g, m) ==
  \A i \in 1 .. Len(s) : s[i].kind = "data" /\ NoResize(s, 1, i) =>
    \A b \in 1 .. Len(s[i].bytes) : s[i].bytes[b] > m => On(d, r, s[i].bytes[b], g)
RunsOn(d, r, s) ==
  \A i, j \in 1 .. Len(s) :
    i < j /\ s[i].kind = "resize" /\ s[j].kind = "data" /\ NoResize(s, i + 1, j) =>
      \A b \in 1 .. Len(s[j].bytes) : On(d, r, s[j].bytes[b], s[i].grid)

\* The grid at which s ends, if it starts on g, is h; is h after a resize in s.
StartsTo(s, g, h) == NoResize(s, 1, Len(s)) => g = h
RunsTo(s, h) ==
  \A i \in 1 .. Len(s) : s[i].kind = "resize" /\ NoResize(s, i + 1, Len(s)) => s[i].grid = h

Leads(g, m) == /\ LeadOn(drawn, replayEnd, inflight, g, m)
               /\ Streaming => StartsTo(inflight, g, dgrid)

GridsInOrder ==
  /\ phase = "attached" => Leads(kf.grid, 0)
  /\ phase = "attaching" => Leads(ackGrid, 0)
  /\ RunsOn(drawn, replayEnd, inflight) /\ (Streaming => RunsTo(inflight, dgrid))

HeldOn(g, m) == \A i \in 1 .. Len(held) : held[i] > m => On(drawn, replayEnd, held[i], g)
WindowOn ==
  HasModel => \A i \in 1 .. Len(held) :
                i > Len(held) - (seq - kf.at) => On(drawn, replayEnd, held[i], kf.grid)

\* A snapshot whose generation is still the keyframe's may replace it.
SnapshotsFit ==
  \A k \in Attaches :
    /\ seeder[k].pc \in {"snap", "install"} => seeder[k].gen <= kf.gen
    /\ seeder[k].pc = "install" => seeder[k].offset <= Dseq
    /\ seeder[k].pc = "install" /\ seeder[k].gen = kf.gen =>
         /\ HeldOn(seeder[k].grid, seeder[k].offset)
         /\ phase = "attached" => Leads(seeder[k].grid, seeder[k].offset)

KeyframeInv ==
  /\ KeyframeTyped /\ Attaching /\ Drawn /\ Tiles /\ CopyFollows /\ ModelFollows
  /\ WindowHeld /\ GridsInOrder /\ WindowOn /\ SnapshotsFit

-----------------------------------------------------------------------------
(***************************************************************************)
(* Stretches.                                                              *)
(***************************************************************************)
LEMMA Constants ==
  /\ Cap \in Nat /\ KfWindow \in Nat /\ MaxBytes \in Nat /\ MaxAttaches \in Nat
  /\ Value \subseteq Nat /\ Seq(Value) \subseteq Seq(Int) /\ NoModel \notin Seq(Value)
<1>1. Value \subseteq Nat  BY KeyframeAssumption DEF Value
<1>2. ASSUME NEW s \in Seq(Value)  PROVE s \in Seq(Nat) /\ s \in Seq(Int)
  <2>1. Len(s) \in Nat /\ s = [i \in 1 .. Len(s) |-> s[i]] /\ \A i \in 1 .. Len(s) : s[i] \in Value
    OBVIOUS
  <2> QED  BY <1>1, <2>1
<1> QED  BY <1>1, <1>2, KeyframeAssumption

LEMMA ConcatEnds ==
  ASSUME NEW s \in Seq(Int), NEW t \in Seq(Int), NEW e \in Int,
         EndsAt(s, e), EndsAt(t, e + Len(t))
  PROVE  EndsAt(s \o t, e + Len(t))
<1>1. /\ Len(s \o t) = Len(s) + Len(t) /\ Len(s) \in Nat /\ Len(t) \in Nat
      /\ \A i \in 1 .. Len(s) + Len(t) : (s \o t)[i] = IF i <= Len(s) THEN s[i] ELSE t[i - Len(s)]
  BY ConcatProperties
<1>2. ASSUME NEW i \in 1 .. Len(s) + Len(t)
      PROVE  (s \o t)[i] = (e + Len(t)) - (Len(s) + Len(t) - i)
  <2>1. CASE i <= Len(s)  BY <1>1, <2>1 DEF EndsAt
  <2>2. CASE ~(i <= Len(s))
    <3>1. i - Len(s) \in 1 .. Len(t)  BY <1>1, <2>2
    <3>2. t[i - Len(s)] = (e + Len(t)) - (Len(t) - (i - Len(s)))  BY <3>1 DEF EndsAt
    <3> QED  BY <1>1, <2>2, <3>2
  <2> QED  BY <2>1, <2>2
<1> QED  BY <1>1, <1>2 DEF EndsAt

\* A part of a stretch, and where it ends.
LEMMA PartEnds ==
  ASSUME NEW S, NEW s \in Seq(S), NEW e \in Int, NEW m \in Int, NEW n \in Int,
         1 <= m, m <= n + 1, n <= Len(s)
  PROVE  /\ SubSeq(s, m, n) \in Seq(S) /\ Len(SubSeq(s, m, n)) = n - m + 1
         /\ \A i \in 1 .. n - m + 1 : SubSeq(s, m, n)[i] = s[m + i - 1]
         /\ EndsAt(s, e) => EndsAt(SubSeq(s, m, n), e - (Len(s) - n))
<1>1. Len(s) \in Nat  OBVIOUS
<1>2. /\ Len(SubSeq(s, m, n)) = n - m + 1
      /\ \A i \in 1 .. n - m + 1 : SubSeq(s, m, n)[i] = s[m + i - 1]
  BY <1>1
<1>3. SubSeq(s, m, n) \in Seq(S)
  <2>1. \A i \in m .. n : s[i] \in S  BY <1>1, ElementOfSeq
  <2> QED  BY <2>1, SubSeqProperties
<1>4. ASSUME EndsAt(s, e)  PROVE EndsAt(SubSeq(s, m, n), e - (Len(s) - n))
  <2>1. \A i \in 1 .. n - m + 1 : m + i - 1 \in 1 .. Len(s)  BY <1>1
  <2> QED  BY <1>1, <1>2, <1>4, <2>1 DEF EndsAt
<1> QED  BY <1>2, <1>3, <1>4

\* The last bytes of s, as the ring keeps them.
LEMMA LastBytesKept ==
  ASSUME NEW s \in Seq(Value)
  PROVE  LET h == LastBytes(s) IN
         /\ h \in Seq(Value) /\ Len(h) = IF Len(s) <= Cap THEN Len(s) ELSE Cap
         /\ \A i \in 1 .. Len(h) : Len(s) - Len(h) + i \in 1 .. Len(s) /\ h[i] = s[Len(s) - Len(h) + i]
<1>1. Len(s) \in Nat /\ Cap \in Nat  BY Constants
<1>2. CASE Len(s) <= Cap  BY <1>1, <1>2 DEF LastBytes
<1>3. CASE ~(Len(s) <= Cap)
  <2>1. LastBytes(s) = SubSeq(s, Len(s) - Cap + 1, Len(s))  BY <1>3 DEF LastBytes
  <2>2. /\ SubSeq(s, Len(s) - Cap + 1, Len(s)) \in Seq(Value)
        /\ Len(SubSeq(s, Len(s) - Cap + 1, Len(s))) = Cap
        /\ \A i \in 1 .. Cap : SubSeq(s, Len(s) - Cap + 1, Len(s))[i] = s[Len(s) - Cap + 1 + i - 1]
    <3>1. \A e \in Int : e = e  OBVIOUS
    <3>2. 1 <= Len(s) - Cap + 1 /\ Len(s) - Cap + 1 <= Len(s) + 1  BY <1>1, <1>3
    <3> QED  BY <1>1, <3>2, PartEnds, 0 \in Int
  <2> QED  BY <1>1, <1>3, <2>1, <2>2
<1> QED  BY <1>2, <1>3

\* Bytes names a stretch by its ends.
LEMMA BytesEnd ==
  ASSUME NEW lo \in Nat, NEW hi \in Nat, lo <= hi
  PROVE  /\ Len(Bytes(lo, hi)) = hi - lo /\ EndsAt(Bytes(lo, hi), hi)
         /\ \A i \in 1 .. hi - lo : Bytes(lo, hi)[i] = lo + i
         /\ hi <= MaxBytes => Bytes(lo, hi) \in Seq(Value)
<1>1. hi - lo \in Nat  OBVIOUS
<1>2. /\ Len(Bytes(lo, hi)) = hi - lo /\ DOMAIN Bytes(lo, hi) = 1 .. hi - lo
      /\ \A i \in 1 .. hi - lo : Bytes(lo, hi)[i] = lo + i
  BY <1>1 DEF Bytes
<1>3. EndsAt(Bytes(lo, hi), hi)  BY <1>1, <1>2 DEF EndsAt
<1>4. ASSUME hi <= MaxBytes  PROVE Bytes(lo, hi) \in Seq(Value)
  <2>1. \A i \in 1 .. hi - lo : lo + i \in Value  BY <1>1, <1>4, Constants DEF Value
  <2> QED  BY <1>1, <2>1 DEF Bytes
<1> QED  BY <1>2, <1>3, <1>4

LEMMA EndsIsLater ==
  ASSUME NEW s \in Seq(Int), NEW e \in Int, EndsAt(s, e)
  PROVE  NoEarlier(s, e)
BY DEF EndsAt, NoEarlier

LEMMA NothingEnds ==
  /\ Len(<< >>) = 0 /\ << >> \in Seq(Value)
  /\ \A e : EndsAt(<< >>, e) /\ NoEarlier(<< >>, e)
<1>1. Len(<< >>) = 0 /\ 1 .. Len(<< >>) = {} /\ << >> \in Seq(Value)  OBVIOUS
<1> QED  BY <1>1 DEF EndsAt, NoEarlier

-----------------------------------------------------------------------------
(***************************************************************************)
(* Frames in flight.                                                       *)
(***************************************************************************)
LEMMA FrameKinds ==
  ASSUME NEW f \in Frame
  PROVE  /\ f.kind \in {"data", "gap", "resize"} /\ Length(f) \in Nat
         /\ f.kind = "data" => f.bytes \in Seq(Value) /\ Length(f) = Len(f.bytes)
         /\ f.kind = "resize" => f.grid \in TermSizes
<1>1. f.kind = "data" => f.bytes \in Seq(Value)  BY DEF Frame
<1>2. f.kind \in {"data", "gap", "resize"}  BY DEF Frame
<1>3. f.kind = "resize" => f.grid \in TermSizes  BY DEF Frame
<1>4. Length(f) \in Nat  BY <1>1 DEF Length
<1> QED  BY <1>1, <1>2, <1>3, <1>4 DEF Length

LEMMA FramesMade ==
  /\ \A lo, hi \in Nat : lo <= hi /\ hi <= MaxBytes =>
       /\ DataFrame(lo, hi) \in Frame /\ DataFrame(lo, hi).kind = "data"
       /\ DataFrame(lo, hi).bytes = Bytes(lo, hi) /\ Length(DataFrame(lo, hi)) = hi - lo
  /\ GapFrame \in Frame /\ GapFrame.kind = "gap" /\ Length(GapFrame) = 0
  /\ \A g \in TermSizes : /\ ResizeFrame(g) \in Frame /\ ResizeFrame(g).kind = "resize"
                          /\ ResizeFrame(g).grid = g /\ Length(ResizeFrame(g)) = 0
<1>1. ASSUME NEW lo \in Nat, NEW hi \in Nat, lo <= hi, hi <= MaxBytes
      PROVE  /\ DataFrame(lo, hi) \in Frame /\ DataFrame(lo, hi).kind = "data"
             /\ DataFrame(lo, hi).bytes = Bytes(lo, hi) /\ Length(DataFrame(lo, hi)) = hi - lo
  <2>1. Bytes(lo, hi) \in Seq(Value) /\ Len(Bytes(lo, hi)) = hi - lo  BY <1>1, BytesEnd
  <2> QED  BY <2>1 DEF DataFrame, Frame, Length
<1>2. GapFrame \in Frame /\ GapFrame.kind = "gap" /\ Length(GapFrame) = 0
  BY DEF GapFrame, Frame, Length
<1>3. ASSUME NEW g \in TermSizes
      PROVE  /\ ResizeFrame(g) \in Frame /\ ResizeFrame(g).kind = "resize"
             /\ ResizeFrame(g).grid = g /\ Length(ResizeFrame(g)) = 0
  BY DEF ResizeFrame, Frame, Length
<1> QED  BY <1>1, <1>2, <1>3

\* The elements of a queue after a push, after a pop, after a cut.
LEMMA FramePushed ==
  ASSUME NEW s \in Seq(Frame), NEW f \in Frame
  PROVE  /\ Append(s, f) \in Seq(Frame) /\ Len(Append(s, f)) = Len(s) + 1 /\ Len(s) \in Nat
         /\ Append(s, f)[Len(s) + 1] = f
         /\ \A i \in 1 .. Len(s) : Append(s, f)[i] = s[i] /\ s[i] \in Frame
OBVIOUS

LEMMA Popped ==
  ASSUME NEW s \in Seq(Frame), s # << >>
  PROVE  /\ Tail(s) \in Seq(Frame) /\ Len(Tail(s)) = Len(s) - 1 /\ Len(s) \in Nat /\ Len(s) >= 1
         /\ Head(s) = s[1] /\ Head(s) \in Frame
         /\ \A i \in 1 .. Len(s) - 1 : Tail(s)[i] = s[i + 1] /\ i + 1 \in 1 .. Len(s) /\ s[i + 1] \in Frame
OBVIOUS

LEMMA Cut ==
  ASSUME NEW s \in Seq(Frame), NEW k \in 0 .. Len(s)
  PROVE  /\ SubSeq(s, 1, k) \in Seq(Frame) /\ Len(SubSeq(s, 1, k)) = k /\ Len(s) \in Nat
         /\ \A i \in 1 .. k : SubSeq(s, 1, k)[i] = s[i] /\ i \in 1 .. Len(s)
<1>1. Len(s) \in Nat /\ 1 <= k + 1 /\ k <= Len(s) /\ 0 \in Int  OBVIOUS
<1>2. /\ SubSeq(s, 1, k) \in Seq(Frame) /\ Len(SubSeq(s, 1, k)) = k - 1 + 1
      /\ \A i \in 1 .. k - 1 + 1 : SubSeq(s, 1, k)[i] = s[1 + i - 1]
  BY <1>1, PartEnds
<1> QED  BY <1>1, <1>2

LEMMA LaidPush ==
  ASSUME NEW s \in Seq(Frame), NEW f \in Frame, NEW a \in Int,
         NEW p \in [0 .. Len(s) -> Int], Laid(s, p, a),
         f.kind = "data" => NoEarlier(f.bytes, p[Len(s)] + Len(f.bytes))
  PROVE  \E q \in [0 .. Len(Append(s, f)) -> Int] :
           /\ Laid(Append(s, f), q, a)
           /\ q[Len(Append(s, f))] = p[Len(s)] + Length(f)
           /\ Whole(s, p) /\ (f.kind = "data" /\ NoGap(s, Len(s)) =>
                                EndsAt(f.bytes, p[Len(s)] + Len(f.bytes)))
                => Whole(Append(s, f), q)
<1> DEFINE t == Append(s, f)
           n == Len(s)
           q == [i \in 0 .. n + 1 |-> IF i <= n THEN p[i] ELSE p[n] + Length(f)]
<1>1. /\ Len(t) = n + 1 /\ n \in Nat /\ t[n + 1] = f
      /\ \A i \in 1 .. n : t[i] = s[i] /\ s[i] \in Frame
  BY FramePushed
<1>2. /\ Length(f) \in Nat /\ \A i \in 0 .. n : p[i] \in Int
      /\ f.kind = "data" => Length(f) = Len(f.bytes)
  BY FrameKinds
<1>3. q \in [0 .. Len(t) -> Int]  BY <1>1, <1>2
<1>4. (\A i \in 0 .. n : q[i] = p[i]) /\ q[n + 1] = p[n] + Length(f)  BY <1>1
<1> HIDE DEF q
<1>5. q[0] = a  BY <1>1, <1>4 DEF Laid
<1>6. ASSUME NEW i \in 1 .. Len(t)  PROVE q[i] = q[i - 1] + Length(t[i])
  <2>1. CASE i \in 1 .. n
    <3>1. i - 1 \in 0 .. n /\ i \in 0 .. n  BY <1>1, <2>1
    <3>2. p[i] = p[i - 1] + Length(s[i])  BY <2>1 DEF Laid
    <3> QED  BY <1>1, <1>4, <2>1, <3>1, <3>2
  <2>2. CASE i = n + 1  BY <1>1, <1>4, <2>2
  <2> QED  BY <1>1, <2>1, <2>2
<1>7. ASSUME NEW i \in 0 .. Len(t), NEW j \in 0 .. Len(t), i <= j  PROVE q[i] <= q[j]
  <2>1. CASE j \in 0 .. n
    <3>1. i \in 0 .. n  BY <1>1, <1>7, <2>1
    <3>2. p[i] <= p[j]  BY <1>7, <2>1, <3>1 DEF Laid
    <3> QED  BY <1>4, <2>1, <3>1, <3>2
  <2>2. CASE j = n + 1 /\ i \in 0 .. n
    <3>1. p[i] <= p[n]  BY <1>1, <2>2 DEF Laid
    <3>2. p[i] \in Int /\ p[n] \in Int  BY <1>1, <1>2, <2>2
    <3> QED  BY <1>2, <1>4, <2>2, <3>1, <3>2
  <2>3. CASE i = n + 1 /\ j = n + 1
    <3>1. q[n + 1] \in Int  BY <1>1, <1>3
    <3> QED  BY <2>3, <3>1
  <2> QED  BY <1>1, <1>7, <2>1, <2>2, <2>3
<1>8. ASSUME NEW i \in 1 .. Len(t), t[i].kind = "data"  PROVE NoEarlier(t[i].bytes, q[i])
  <2>1. CASE i \in 1 .. n
    <3>1. NoEarlier(s[i].bytes, p[i])  BY <1>1, <1>8, <2>1 DEF Laid
    <3>2. t[i] = s[i] /\ q[i] = p[i]  BY <1>1, <1>4, <2>1
    <3> QED  BY <3>1, <3>2
  <2>2. CASE i = n + 1
    <3>1. t[i] = f /\ q[i] = p[n] + Len(f.bytes)  BY <1>1, <1>2, <1>4, <1>8, <2>2
    <3> QED  BY <1>8, <3>1
  <2> QED  BY <1>1, <2>1, <2>2
<1>9. ASSUME Whole(s, p), f.kind = "data" /\ NoGap(s, n) => EndsAt(f.bytes, p[n] + Len(f.bytes)),
             NEW i \in 1 .. Len(t), t[i].kind = "data", NoGap(t, i)
      PROVE  EndsAt(t[i].bytes, q[i])
  <2>1. CASE i \in 1 .. n
    <3>1. NoGap(s, i)  BY <1>1, <1>9, <2>1 DEF NoGap
    <3>2. t[i] = s[i] /\ q[i] = p[i]  BY <1>1, <1>4, <2>1
    <3>3. EndsAt(s[i].bytes, p[i])  BY <1>9, <2>1, <3>1, <3>2 DEF Whole
    <3> QED  BY <3>2, <3>3
  <2>2. CASE i = n + 1
    <3>1. NoGap(s, n)  BY <1>1, <1>9, <2>2 DEF NoGap
    <3>2. t[i] = f /\ q[i] = p[n] + Len(f.bytes)  BY <1>1, <1>2, <1>4, <1>9, <2>2
    <3> QED  BY <1>9, <3>1, <3>2
  <2> QED  BY <1>1, <2>1, <2>2
<1>10. Laid(t, q, a)  BY <1>5, <1>6, <1>7, <1>8 DEF Laid
<1>11. Whole(s, p) /\ (f.kind = "data" /\ NoGap(s, n) => EndsAt(f.bytes, p[n] + Len(f.bytes)))
         => Whole(t, q)
  BY <1>9 DEF Whole
<1> QED  BY <1>1, <1>3, <1>4, <1>10, <1>11

LEMMA LaidPop ==
  ASSUME NEW s \in Seq(Frame), s # << >>, NEW a \in Int,
         NEW p \in [0 .. Len(s) -> Int], Laid(s, p, a)
  PROVE  /\ p[1] = a + Length(Head(s)) /\ p[1] \in Int
         /\ \E q \in [0 .. Len(Tail(s)) -> Int] :
              /\ Laid(Tail(s), q, a + Length(Head(s)))
              /\ q[Len(Tail(s))] = p[Len(s)]
              /\ Head(s).kind # "gap" /\ Whole(s, p) => Whole(Tail(s), q)
<1> DEFINE t == Tail(s)
           n == Len(s) - 1
           q == [i \in 0 .. n |-> p[i + 1]]
<1>1. /\ Len(t) = n /\ n \in Nat /\ Len(s) = n + 1 /\ Head(s) = s[1] /\ Head(s) \in Frame
      /\ \A i \in 1 .. n : t[i] = s[i + 1] /\ i + 1 \in 1 .. Len(s)
  BY Popped
<1>2. p[1] = a + Length(Head(s)) /\ p[1] \in Int  BY <1>1 DEF Laid
<1>3. q \in [0 .. Len(t) -> Int]  BY <1>1
<1>4. \A i \in 0 .. n : q[i] = p[i + 1] /\ i + 1 \in 1 .. Len(s) /\ i + 1 \in 0 .. Len(s)  BY <1>1
<1> HIDE DEF q
<1>5. q[0] = a + Length(Head(s)) /\ q[n] = p[Len(s)]  BY <1>1, <1>2, <1>4
<1>6. ASSUME NEW i \in 1 .. Len(t)  PROVE q[i] = q[i - 1] + Length(t[i])
  <2>1. q[i] = p[i + 1] /\ q[i - 1] = p[i] /\ i + 1 \in 1 .. Len(s) /\ t[i] = s[i + 1]  BY <1>1, <1>4
  <2>2. p[i + 1] = p[(i + 1) - 1] + Length(s[i + 1])  BY <2>1 DEF Laid
  <2>3. (i + 1) - 1 = i  BY <1>1
  <2> QED  BY <2>1, <2>2, <2>3
<1>7. ASSUME NEW i \in 0 .. Len(t), NEW j \in 0 .. Len(t), i <= j  PROVE q[i] <= q[j]
  <2>1. i + 1 \in 0 .. Len(s) /\ j + 1 \in 0 .. Len(s) /\ i + 1 <= j + 1  BY <1>1, <1>4, <1>7
  <2>2. p[i + 1] <= p[j + 1]  BY <2>1 DEF Laid
  <2> QED  BY <1>1, <1>4, <2>2
<1>8. ASSUME NEW i \in 1 .. Len(t), t[i].kind = "data"  PROVE NoEarlier(t[i].bytes, q[i])
  <2>1. q[i] = p[i + 1] /\ i + 1 \in 1 .. Len(s) /\ t[i] = s[i + 1]  BY <1>1, <1>4
  <2> QED  BY <1>8, <2>1 DEF Laid
<1>9. ASSUME Head(s).kind # "gap", Whole(s, p), NEW i \in 1 .. Len(t), t[i].kind = "data", NoGap(t, i)
      PROVE  EndsAt(t[i].bytes, q[i])
  <2>1. q[i] = p[i + 1] /\ i + 1 \in 1 .. Len(s) /\ t[i] = s[i + 1]  BY <1>1, <1>4
  <2>2. ASSUME NEW j \in 1 .. i + 1  PROVE s[j].kind # "gap"
    <3>1. CASE j = 1  BY <1>1, <1>9, <3>1
    <3>2. CASE j # 1
      <4>1. j - 1 \in 1 .. i /\ j - 1 \in 1 .. n /\ (j - 1) + 1 = j  BY <1>1, <2>2, <3>2
      <4>2. t[j - 1].kind # "gap"  BY <1>9, <4>1 DEF NoGap
      <4>3. t[j - 1] = s[j]  BY <1>1, <4>1
      <4> QED  BY <4>2, <4>3
    <3> QED  BY <3>1, <3>2
  <2>3. NoGap(s, i + 1)  BY <2>2 DEF NoGap
  <2>4. EndsAt(s[i + 1].bytes, p[i + 1])  BY <1>9, <2>1, <2>3 DEF Whole
  <2> QED  BY <2>1, <2>4
<1>10. Laid(t, q, a + Length(Head(s)))  BY <1>5, <1>6, <1>7, <1>8 DEF Laid
<1>11. Head(s).kind # "gap" /\ Whole(s, p) => Whole(t, q)  BY <1>9 DEF Whole
<1> QED  BY <1>1, <1>2, <1>3, <1>5, <1>10, <1>11

\* Popping a frame that is no gap leaves gaps where they were.
LEMMA GapPop ==
  ASSUME NEW s \in Seq(Frame), s # << >>, Head(s).kind # "gap", NoGap(Tail(s), Len(Tail(s)))
  PROVE  NoGap(s, Len(s))
<1>1. /\ Len(Tail(s)) = Len(s) - 1 /\ Len(s) \in Nat /\ Head(s) = s[1]
      /\ \A i \in 1 .. Len(s) - 1 : Tail(s)[i] = s[i + 1]
  BY Popped
<1>2. ASSUME NEW j \in 1 .. Len(s)  PROVE s[j].kind # "gap"
  <2>1. CASE j = 1  BY <1>1, <2>1
  <2>2. CASE j # 1
    <3>1. j - 1 \in 1 .. Len(s) - 1 /\ (j - 1) + 1 = j  BY <1>1, <2>2
    <3>2. Tail(s)[j - 1].kind # "gap"  BY <1>1, <3>1 DEF NoGap
    <3> QED  BY <1>1, <3>1, <3>2
  <2> QED  BY <2>1, <2>2
<1> QED  BY <1>2 DEF NoGap

LEMMA LaidCut ==
  ASSUME NEW s \in Seq(Frame), NEW k \in 0 .. Len(s), NEW a \in Int,
         NEW p \in [0 .. Len(s) -> Int], Laid(s, p, a)
  PROVE  \E q \in [0 .. Len(SubSeq(s, 1, k)) -> Int] :
           /\ Laid(SubSeq(s, 1, k), q, a)
           /\ Whole(s, p) => Whole(SubSeq(s, 1, k), q)
<1> DEFINE t == SubSeq(s, 1, k)
           q == [i \in 0 .. k |-> p[i]]
<1>1. Len(t) = k /\ Len(s) \in Nat /\ \A i \in 1 .. k : t[i] = s[i] /\ i \in 1 .. Len(s)  BY Cut
<1>2. q \in [0 .. Len(t) -> Int] /\ \A i \in 0 .. k : q[i] = p[i] /\ i \in 0 .. Len(s)  BY <1>1
<1> HIDE DEF q, t
<1>3. Laid(t, q, a)
  <2>1. q[0] = a  BY <1>1, <1>2 DEF Laid
  <2>2. ASSUME NEW i \in 1 .. Len(t)  PROVE q[i] = q[i - 1] + Length(t[i])
    <3>1. i \in 0 .. k /\ i - 1 \in 0 .. k /\ i \in 1 .. Len(s) /\ t[i] = s[i]  BY <1>1
    <3> QED  BY <1>2, <3>1 DEF Laid
  <2>3. \A i, j \in 0 .. Len(t) : i <= j => q[i] <= q[j]  BY <1>1, <1>2 DEF Laid
  <2>4. \A i \in 1 .. Len(t) : t[i].kind = "data" => NoEarlier(t[i].bytes, q[i])
    <3>1. \A i \in 1 .. Len(t) : i \in 0 .. k /\ i \in 1 .. Len(s) /\ t[i] = s[i]  BY <1>1
    <3> QED  BY <1>2, <3>1 DEF Laid
  <2> QED  BY <2>1, <2>2, <2>3, <2>4 DEF Laid
<1>4. ASSUME Whole(s, p), NEW i \in 1 .. Len(t), t[i].kind = "data", NoGap(t, i)
      PROVE  EndsAt(t[i].bytes, q[i])
  <2>1. i \in 0 .. k /\ i \in 1 .. Len(s) /\ t[i] = s[i] /\ \A j \in 1 .. i : t[j] = s[j]  BY <1>1
  <2>2. NoGap(s, i)  BY <1>4, <2>1 DEF NoGap
  <2> QED  BY <1>2, <1>4, <2>1, <2>2 DEF Whole
<1> QED  BY <1>2, <1>3, <1>4 DEF Whole, t

\* The grid after f, on grid h before it.
GridAfter(f, h) == IF f.kind = "resize" THEN f.grid ELSE h

\* The same bytes, with the grids they were drawn for.
SameGrids(s, d, e) ==
  \A i \in 1 .. Len(s) : s[i].kind = "data" =>
    \A b \in 1 .. Len(s[i].bytes) : e[s[i].bytes[b]] = d[s[i].bytes[b]]
LEMMA GridsSame ==
  ASSUME NEW s, NEW d, NEW e, NEW r, SameGrids(s, d, e)
  PROVE  /\ \A g, m : LeadOn(d, r, s, g, m) => LeadOn(e, r, s, g, m)
         /\ RunsOn(d, r, s) => RunsOn(e, r, s)
<1>1. ASSUME NEW g, NEW m, LeadOn(d, r, s, g, m)  PROVE LeadOn(e, r, s, g, m)
  <2> SUFFICES ASSUME NEW i \in 1 .. Len(s), s[i].kind = "data", NoResize(s, 1, i),
                      NEW b \in 1 .. Len(s[i].bytes), s[i].bytes[b] > m
               PROVE  On(e, r, s[i].bytes[b], g)
    BY DEF LeadOn
  <2>1. On(d, r, s[i].bytes[b], g)  BY <1>1 DEF LeadOn
  <2> QED  BY <2>1 DEF On, SameGrids
<1>2. ASSUME RunsOn(d, r, s)  PROVE RunsOn(e, r, s)
  <2> SUFFICES ASSUME NEW i \in 1 .. Len(s), NEW j \in 1 .. Len(s), i < j, s[i].kind = "resize",
                      s[j].kind = "data", NoResize(s, i + 1, j), NEW b \in 1 .. Len(s[j].bytes)
               PROVE  On(e, r, s[j].bytes[b], s[i].grid)
    BY DEF RunsOn
  <2>1. On(d, r, s[j].bytes[b], s[i].grid)  BY <1>2 DEF RunsOn
  <2> QED  BY <2>1 DEF On, SameGrids
<1> QED  BY <1>1, <1>2

\* A frame drawn for the grid h at which s ends.
LEMMA GridsPush ==
  ASSUME NEW s \in Seq(Frame), NEW f \in Frame, NEW d, NEW r, NEW h,
         f.kind = "data" => \A b \in 1 .. Len(f.bytes) : On(d, r, f.bytes[b], h)
  PROVE  /\ \A g, m : LeadOn(d, r, s, g, m) /\ StartsTo(s, g, h) =>
              LeadOn(d, r, Append(s, f), g, m) /\ StartsTo(Append(s, f), g, GridAfter(f, h))
         /\ RunsOn(d, r, s) /\ RunsTo(s, h) =>
              RunsOn(d, r, Append(s, f)) /\ RunsTo(Append(s, f), GridAfter(f, h))
<1> DEFINE t == Append(s, f)
           n == Len(s)
<1>1. Len(t) = n + 1 /\ n \in Nat /\ t[n + 1] = f /\ \A i \in 1 .. n : t[i] = s[i]  BY FramePushed
<1> HIDE DEF t
<1>2. \A i \in 1 .. n + 1 : i \in 1 .. n \/ i = n + 1  BY <1>1
<1>3. ASSUME NEW i \in Nat, i >= 1, NEW j \in 0 .. n, NoResize(t, i, j)  PROVE NoResize(s, i, j)
  BY <1>1, <1>3 DEF NoResize
<1>4. ASSUME NEW i \in Nat, 1 <= i, i <= n + 1, NoResize(t, i, n + 1)
      PROVE  NoResize(s, i, n) /\ f.kind # "resize"
  BY <1>1, <1>4 DEF NoResize
<1>5. ASSUME NEW g, NEW m, LeadOn(d, r, s, g, m), StartsTo(s, g, h)
      PROVE  LeadOn(d, r, t, g, m) /\ StartsTo(t, g, GridAfter(f, h))
  <2>1. ASSUME NEW i \in 1 .. Len(t), t[i].kind = "data", NoResize(t, 1, i),
               NEW b \in 1 .. Len(t[i].bytes), t[i].bytes[b] > m
        PROVE  On(d, r, t[i].bytes[b], g)
    <3>1. CASE i \in 1 .. n
      <4>1. NoResize(s, 1, i) /\ t[i] = s[i]  BY <1>1, <1>3, <2>1, <3>1
      <4> QED  BY <1>5, <2>1, <3>1, <4>1 DEF LeadOn
    <3>2. CASE i = n + 1
      <4>1. NoResize(s, 1, n) /\ t[i] = f  BY <1>1, <1>4, <2>1, <3>2
      <4>2. g = h  BY <1>5, <4>1 DEF StartsTo
      <4> QED  BY <2>1, <4>1, <4>2
    <3> QED  BY <1>1, <1>2, <3>1, <3>2
  <2>2. ASSUME NoResize(t, 1, Len(t))  PROVE g = GridAfter(f, h)
    <3>1. NoResize(s, 1, n) /\ f.kind # "resize"  BY <1>1, <1>4, <2>2
    <3> QED  BY <1>5, <3>1 DEF StartsTo, GridAfter
  <2> QED  BY <2>1, <2>2 DEF LeadOn, StartsTo
<1>6. ASSUME RunsOn(d, r, s), RunsTo(s, h)
      PROVE  RunsOn(d, r, t) /\ RunsTo(t, GridAfter(f, h))
  <2>1. ASSUME NEW i \in 1 .. Len(t), NEW j \in 1 .. Len(t), i < j, t[i].kind = "resize",
               t[j].kind = "data", NoResize(t, i + 1, j), NEW b \in 1 .. Len(t[j].bytes)
        PROVE  On(d, r, t[j].bytes[b], t[i].grid)
    <3>1. i \in 1 .. n /\ t[i] = s[i] /\ i + 1 \in Nat /\ i + 1 >= 1 /\ i + 1 <= n + 1  BY <1>1, <2>1
    <3>2. CASE j \in 1 .. n
      <4>1. NoResize(s, i + 1, j) /\ t[j] = s[j]  BY <1>1, <1>3, <2>1, <3>1, <3>2
      <4> QED  BY <1>6, <2>1, <3>1, <3>2, <4>1 DEF RunsOn
    <3>3. CASE j = n + 1
      <4>1. NoResize(s, i + 1, n) /\ t[j] = f  BY <1>1, <1>4, <2>1, <3>1, <3>3
      <4>2. s[i].grid = h  BY <1>6, <2>1, <3>1, <4>1 DEF RunsTo
      <4> QED  BY <2>1, <3>1, <4>1, <4>2
    <3> QED  BY <1>1, <1>2, <3>2, <3>3
  <2>2. ASSUME NEW i \in 1 .. Len(t), t[i].kind = "resize", NoResize(t, i + 1, Len(t))
        PROVE  t[i].grid = GridAfter(f, h)
    <3>1. CASE i \in 1 .. n
      <4>1. i + 1 \in Nat /\ 1 <= i + 1 /\ i + 1 <= n + 1 /\ t[i] = s[i]  BY <1>1, <3>1
      <4>2. NoResize(s, i + 1, n) /\ f.kind # "resize"  BY <1>1, <1>4, <2>2, <4>1
      <4> QED  BY <1>6, <2>2, <3>1, <4>1, <4>2 DEF RunsTo, GridAfter
    <3>2. CASE i = n + 1  BY <1>1, <2>2, <3>2 DEF GridAfter
    <3> QED  BY <1>1, <1>2, <3>1, <3>2
  <2> QED  BY <2>1, <2>2 DEF RunsOn, RunsTo
<1> QED  BY <1>5, <1>6 DEF t

LEMMA GridsPop ==
  ASSUME NEW s \in Seq(Frame), s # << >>, NEW d, NEW r
  PROVE  /\ Head(s).kind # "resize" => \A g, m :
              /\ LeadOn(d, r, s, g, m) => LeadOn(d, r, Tail(s), g, m)
              /\ \A h : StartsTo(s, g, h) => StartsTo(Tail(s), g, h)
         /\ Head(s).kind = "resize" =>
              /\ RunsOn(d, r, s) => \A m : LeadOn(d, r, Tail(s), Head(s).grid, m)
              /\ \A h : RunsTo(s, h) => StartsTo(Tail(s), Head(s).grid, h)
         /\ RunsOn(d, r, s) => RunsOn(d, r, Tail(s))
         /\ \A h : RunsTo(s, h) => RunsTo(Tail(s), h)
<1> DEFINE t == Tail(s)
           n == Len(s) - 1
<1>1. /\ Len(t) = n /\ n \in Nat /\ Len(s) = n + 1 /\ Head(s) = s[1]
      /\ \A i \in 1 .. n : t[i] = s[i + 1] /\ i + 1 \in 1 .. Len(s)
  BY Popped
<1> HIDE DEF t
<1>2. ASSUME NEW i \in Nat, 1 <= i, NEW j \in 0 .. n, NoResize(t, i, j)
      PROVE  NoResize(s, i + 1, j + 1) /\ (i = 1 /\ Head(s).kind # "resize" => NoResize(s, 1, j + 1))
  <2>1. ASSUME NEW k \in i + 1 .. j + 1  PROVE s[k].kind # "resize"
    <3>1. k - 1 \in i .. j /\ k - 1 \in 1 .. n /\ (k - 1) + 1 = k  BY <1>1, <1>2, <2>1
    <3>2. t[k - 1].kind # "resize"  BY <1>2, <3>1 DEF NoResize
    <3> QED  BY <1>1, <3>1, <3>2
  <2>2. ASSUME i = 1, Head(s).kind # "resize", NEW k \in 1 .. j + 1  PROVE s[k].kind # "resize"
    <3>1. CASE k = 1  BY <1>1, <2>2, <3>1
    <3>2. CASE k # 1  BY <2>1, <2>2, <3>2
    <3> QED  BY <3>1, <3>2
  <2> QED  BY <2>1, <2>2 DEF NoResize
<1>3. ASSUME Head(s).kind # "resize", NEW g, NEW m, LeadOn(d, r, s, g, m)
      PROVE  LeadOn(d, r, t, g, m)
  <2> SUFFICES ASSUME NEW i \in 1 .. Len(t), t[i].kind = "data", NoResize(t, 1, i),
                      NEW b \in 1 .. Len(t[i].bytes), t[i].bytes[b] > m
               PROVE  On(d, r, t[i].bytes[b], g)
    BY DEF LeadOn
  <2>1. NoResize(s, 1, i + 1) /\ t[i] = s[i + 1] /\ i + 1 \in 1 .. Len(s)  BY <1>1, <1>2, <1>3
  <2> QED  BY <1>3, <2>1 DEF LeadOn
<1>4. ASSUME Head(s).kind # "resize", NEW g, NEW h, StartsTo(s, g, h)  PROVE StartsTo(t, g, h)
  <2> SUFFICES ASSUME NoResize(t, 1, Len(t))  PROVE g = h
    BY DEF StartsTo
  <2>1. NoResize(s, 1, Len(s))  BY <1>1, <1>2, <1>4
  <2> QED  BY <1>4, <2>1 DEF StartsTo
<1>5. ASSUME Head(s).kind = "resize", RunsOn(d, r, s), NEW m  PROVE LeadOn(d, r, t, Head(s).grid, m)
  <2> SUFFICES ASSUME NEW i \in 1 .. Len(t), t[i].kind = "data", NoResize(t, 1, i),
                      NEW b \in 1 .. Len(t[i].bytes), t[i].bytes[b] > m
               PROVE  On(d, r, t[i].bytes[b], Head(s).grid)
    BY DEF LeadOn
  <2>1. NoResize(s, 1 + 1, i + 1) /\ t[i] = s[i + 1] /\ i + 1 \in 1 .. Len(s) /\ 1 \in 1 .. Len(s) /\ 1 < i + 1
    BY <1>1, <1>2
  <2>2. \A c \in 1 .. Len(s[i + 1].bytes) : On(d, r, s[i + 1].bytes[c], s[1].grid)
    BY <1>1, <1>5, <2>1 DEF RunsOn
  <2> QED  BY <1>1, <2>1, <2>2
<1>6. ASSUME Head(s).kind = "resize", NEW h, RunsTo(s, h)  PROVE StartsTo(t, Head(s).grid, h)
  <2> SUFFICES ASSUME NoResize(t, 1, Len(t))  PROVE Head(s).grid = h
    BY DEF StartsTo
  <2>1. NoResize(s, 1 + 1, Len(s)) /\ 1 \in 1 .. Len(s)  BY <1>1, <1>2
  <2> QED  BY <1>1, <1>6, <2>1 DEF RunsTo
<1>7. ASSUME RunsOn(d, r, s)  PROVE RunsOn(d, r, t)
  <2> SUFFICES ASSUME NEW i \in 1 .. Len(t), NEW j \in 1 .. Len(t), i < j, t[i].kind = "resize",
                      t[j].kind = "data", NoResize(t, i + 1, j), NEW b \in 1 .. Len(t[j].bytes)
               PROVE  On(d, r, t[j].bytes[b], t[i].grid)
    BY DEF RunsOn
  <2>1. /\ NoResize(s, (i + 1) + 1, j + 1) /\ t[i] = s[i + 1] /\ t[j] = s[j + 1] /\ i + 1 < j + 1
        /\ i + 1 \in 1 .. Len(s) /\ j + 1 \in 1 .. Len(s)
    BY <1>1, <1>2
  <2>2. \A c \in 1 .. Len(s[j + 1].bytes) : On(d, r, s[j + 1].bytes[c], s[i + 1].grid)
    BY <1>7, <2>1 DEF RunsOn
  <2> QED  BY <2>1, <2>2
<1>8. ASSUME NEW h, RunsTo(s, h)  PROVE RunsTo(t, h)
  <2> SUFFICES ASSUME NEW i \in 1 .. Len(t), t[i].kind = "resize", NoResize(t, i + 1, Len(t))
               PROVE  t[i].grid = h
    BY DEF RunsTo
  <2>1. NoResize(s, (i + 1) + 1, Len(s)) /\ t[i] = s[i + 1] /\ i + 1 \in 1 .. Len(s)  BY <1>1, <1>2
  <2> QED  BY <1>8, <2>1 DEF RunsTo
<1> QED  BY <1>3, <1>4, <1>5, <1>6, <1>7, <1>8 DEF t

LEMMA GridsCut ==
  ASSUME NEW s \in Seq(Frame), NEW k \in 0 .. Len(s), NEW d, NEW r
  PROVE  /\ \A g, m : LeadOn(d, r, s, g, m) => LeadOn(d, r, SubSeq(s, 1, k), g, m)
         /\ RunsOn(d, r, s) => RunsOn(d, r, SubSeq(s, 1, k))
<1> DEFINE t == SubSeq(s, 1, k)
<1>1. Len(t) = k /\ Len(s) \in Nat /\ \A i \in 1 .. k : t[i] = s[i] /\ i \in 1 .. Len(s)  BY Cut
<1> HIDE DEF t
<1>2. ASSUME NEW i \in Nat, 1 <= i, NEW j \in 0 .. k, NoResize(t, i, j)  PROVE NoResize(s, i, j)
  BY <1>1, <1>2 DEF NoResize
<1>3. ASSUME NEW g, NEW m, LeadOn(d, r, s, g, m)  PROVE LeadOn(d, r, t, g, m)
  <2> SUFFICES ASSUME NEW i \in 1 .. Len(t), t[i].kind = "data", NoResize(t, 1, i),
                      NEW b \in 1 .. Len(t[i].bytes), t[i].bytes[b] > m
               PROVE  On(d, r, t[i].bytes[b], g)
    BY DEF LeadOn
  <2>1. NoResize(s, 1, i) /\ t[i] = s[i] /\ i \in 1 .. Len(s)  BY <1>1, <1>2
  <2> QED  BY <1>3, <2>1 DEF LeadOn
<1>4. ASSUME RunsOn(d, r, s)  PROVE RunsOn(d, r, t)
  <2> SUFFICES ASSUME NEW i \in 1 .. Len(t), NEW j \in 1 .. Len(t), i < j, t[i].kind = "resize",
                      t[j].kind = "data", NoResize(t, i + 1, j), NEW b \in 1 .. Len(t[j].bytes)
               PROVE  On(d, r, t[j].bytes[b], t[i].grid)
    BY DEF RunsOn
  <2>1. i \in 1 .. k /\ j \in 1 .. k /\ i + 1 \in Nat /\ 1 <= i + 1 /\ j \in 0 .. k  BY <1>1
  <2>2. NoResize(s, i + 1, j)  BY <1>2, <2>1
  <2>3. NoResize(s, i + 1, j) /\ t[i] = s[i] /\ t[j] = s[j] /\ i \in 1 .. Len(s) /\ j \in 1 .. Len(s)
    BY <1>1, <2>1, <2>2
  <2> QED  BY <1>4, <2>3 DEF RunsOn
<1> QED  BY <1>3, <1>4 DEF t

-----------------------------------------------------------------------------
(***************************************************************************)
(* The screen model.                                                       *)
(***************************************************************************)
LEMMA ModelTypes ==
  ASSUME NEW k \in Model
  PROVE  /\ k.at \in Nat /\ k.gen \in Nat /\ k.grid \in TermSizes
         /\ k.model # NoModel => k.model \in Seq(Value) /\ k.model \in Seq(Int)
         /\ \A s \in Seq(Value) : s # NoModel
<1>1. k.at \in Nat /\ k.gen \in Nat /\ k.grid \in TermSizes /\ k.model \in Seq(Value) \cup {NoModel}
  BY DEF Model
<1> QED  BY <1>1, Constants

\* The window: what the ring holds after a position.
LEMMA WindowEnds ==
  ASSUME KeyframeTyped, NEW at \in Int, Readable(at)
  PROVE  /\ After(at) \in Seq(Value) /\ Len(After(at)) = seq - at /\ seq - at \in Nat
         /\ \A i \in 1 .. seq - at : After(at)[i] = held[Len(held) - (seq - at) + i]
         /\ \A e \in Int : EndsAt(held, e) => EndsAt(After(at), e)
<1>1. held \in Seq(Value) /\ seq \in Nat /\ Len(held) \in Nat  BY DEF KeyframeTyped
<1>2. seq - at \in Nat /\ seq - at <= Len(held)  BY <1>1 DEF Readable
<1> DEFINE m == Len(held) - (seq - at) + 1
           n == Len(held)
<1>3. m \in Int /\ n \in Int /\ 1 <= m /\ m <= n + 1 /\ n <= Len(held) /\ 0 \in Int  BY <1>1, <1>2
<1>4. /\ SubSeq(held, m, n) \in Seq(Value) /\ Len(SubSeq(held, m, n)) = n - m + 1
      /\ \A i \in 1 .. n - m + 1 : SubSeq(held, m, n)[i] = held[m + i - 1]
      /\ \A e \in Int : EndsAt(held, e) => EndsAt(SubSeq(held, m, n), e - (Len(held) - n))
  BY <1>1, <1>3, PartEnds
<1>5. After(at) = SubSeq(held, m, n)  BY DEF After
<1>6. n - m + 1 = seq - at /\ (\A i \in Int : m + i - 1 = n - (seq - at) + i)
      /\ \A e \in Int : e - (Len(held) - n) = e
  BY <1>1, <1>2
<1> HIDE DEF m, n
<1>7. ASSUME NEW i \in 1 .. seq - at  PROVE After(at)[i] = held[Len(held) - (seq - at) + i]
  <2>1. i \in 1 .. n - m + 1 /\ m + i - 1 = n - (seq - at) + i  BY <1>6, <1>7
  <2>2. SubSeq(held, m, n)[i] = held[m + i - 1]  BY <1>4, <2>1
  <2> QED  BY <1>5, <2>1, <2>2 DEF n
<1> QED  BY <1>2, <1>4, <1>5, <1>6, <1>7

\* Advance takes the model to the target and no further, by bytes that follow it.
LEMMA AdvanceFollows ==
  ASSUME KeyframeTyped, NEW k \in Model, NEW incoming \in Seq(Value), NEW target \in Int,
         k.model # NoModel, k.at <= seq + Len(incoming), target <= seq + Len(incoming),
         k.at < seq => Readable(k.at)
  PROVE  LET a == Advance(k, target, incoming) IN
         /\ a \in Model /\ a.model # NoModel /\ a.grid = k.grid /\ a.gen = k.gen
         /\ a.at = IF target <= k.at THEN k.at ELSE target
         /\ \A e \in Int :
              EndsAt(held, e) /\ EndsAt(incoming, e + Len(incoming)) /\ EndsAt(k.model, e - (seq - k.at))
                => EndsAt(a.model, e - (seq - a.at))
<1> DEFINE a == Advance(k, target, incoming)
<1>1. /\ seq \in Nat /\ held \in Seq(Value) /\ k.at \in Nat /\ k.model \in Seq(Value)
      /\ Len(incoming) \in Nat /\ k.model \in Seq(Int) /\ Len(k.model) \in Nat
      /\ \A s \in Seq(Value) : s \in Seq(Int) /\ s # NoModel
  <2>1. seq \in Nat /\ held \in Seq(Value)  BY DEF KeyframeTyped
  <2>2. k.at \in Nat /\ k.model \in Seq(Value) /\ k.model \in Seq(Int)  BY ModelTypes
  <2>3. Len(incoming) \in Nat /\ Len(k.model) \in Nat  BY <2>2
  <2>4. \A s \in Seq(Value) : s \in Seq(Int) /\ s # NoModel  BY Constants
  <2> QED  BY <2>1, <2>2, <2>3, <2>4
<1>2. CASE target <= k.at
  BY <1>1, <1>2, ModelTypes DEF Advance
<1>3. CASE ~(target <= k.at) /\ k.at < seq /\ target <= seq
  <2> DEFINE n == target - k.at
             w == SubSeq(After(k.at), 1, n)
  <2>1. /\ After(k.at) \in Seq(Value) /\ Len(After(k.at)) = seq - k.at
        /\ \A e \in Int : EndsAt(held, e) => EndsAt(After(k.at), e)
    <3>1. k.at \in Int /\ Readable(k.at)  BY <1>1, <1>3
    <3> QED  BY <3>1, WindowEnds
  <2>2. 1 <= n + 1 /\ n <= Len(After(k.at)) /\ n \in Int /\ 1 \in Int /\ 1 <= 1 /\ n - 1 + 1 = n
    <3>1. /\ k.at \in Int /\ seq \in Int /\ ~(target <= k.at) /\ target <= seq
          /\ Len(After(k.at)) = seq - k.at
      BY <1>1, <1>3, <2>1
    <3> QED  BY <3>1
  <2> HIDE DEF n
  <2>3. /\ w \in Seq(Value) /\ Len(w) = n
        /\ \A e \in Int : EndsAt(After(k.at), e) => EndsAt(w, e - (Len(After(k.at)) - n))
    BY <2>1, <2>2, PartEnds
  <2>4. Len(w) = target - k.at /\ n = target - k.at  BY <2>3 DEF n
  <2>5. a = [k EXCEPT !.model = k.model \o w, !.at = target]
    <3>1. SmallerOf(target, seq) = target  BY <1>3 DEF SmallerOf
    <3>2. k.at < seq /\ Readable(k.at)  BY <1>3
    <3> QED  BY <1>3, <2>4, <3>1, <3>2 DEF Advance
  <2>6. k.model \o w \in Seq(Value) /\ k.model \o w # NoModel  BY <1>1, <2>3, ConcatProperties
  <2>7. /\ a \in Model /\ a.model = k.model \o w /\ a.at = target /\ a.grid = k.grid /\ a.gen = k.gen
    <3>1. target \in Nat  BY <1>1, <1>3
    <3> QED  BY <2>5, <2>6, <3>1 DEF Model
  <2> HIDE DEF w, a
  <2>8. ASSUME NEW e \in Int, EndsAt(held, e), EndsAt(k.model, e - (seq - k.at))
        PROVE  EndsAt(k.model \o w, e - (seq - target))
    <3> DEFINE c == e - (seq - k.at)
    <3>1. c \in Int /\ c + Len(w) = e - (seq - target)  BY <1>1, <2>4
    <3>2. e - (Len(After(k.at)) - n) = c + Len(w)  BY <1>1, <2>1, <2>4
    <3>3. EndsAt(w, c + Len(w))  BY <2>1, <2>3, <2>8, <3>2
    <3>4. EndsAt(k.model, c) /\ w \in Seq(Int)  BY <1>1, <2>3, <2>8
    <3> HIDE DEF c
    <3>5. EndsAt(k.model \o w, c + Len(w))  BY <1>1, <3>1, <3>3, <3>4, ConcatEnds
    <3> QED  BY <3>1, <3>5
  <2> QED  BY <1>3, <2>6, <2>7, <2>8 DEF a
<1>4. CASE ~(target <= k.at) /\ k.at < seq /\ ~(target <= seq)
  <2> DEFINE w == SubSeq(After(k.at), 1, seq - k.at)
             fed == k.model \o w
             n == target - seq
             u == SubSeq(incoming, 1, n)
  <2>1. /\ After(k.at) \in Seq(Value) /\ Len(After(k.at)) = seq - k.at
        /\ \A e \in Int : EndsAt(held, e) => EndsAt(After(k.at), e)
    <3>1. k.at \in Int /\ Readable(k.at)  BY <1>1, <1>4
    <3> QED  BY <3>1, WindowEnds
  <2>2. 1 <= 1 /\ 1 <= seq - k.at + 1 /\ seq - k.at <= seq - k.at /\ seq - k.at \in Int
    BY <1>1, <1>4
  <2>3. /\ w \in Seq(Value) /\ Len(w) = seq - k.at - 1 + 1
        /\ \A e \in Int : EndsAt(After(k.at), e) => EndsAt(w, e - (Len(After(k.at)) - (seq - k.at)))
    BY <2>1, <2>2, PartEnds
  <2>4. Len(w) = seq - k.at  BY <1>1, <2>3
  <2>5. n \in Nat /\ n \in Int /\ 1 <= 1 /\ 1 <= n + 1 /\ n <= Len(incoming) /\ n - 1 + 1 = n  BY <1>1, <1>4
  <2>6. /\ u \in Seq(Value) /\ Len(u) = n - 1 + 1
        /\ \A e \in Int : EndsAt(incoming, e) => EndsAt(u, e - (Len(incoming) - n))
    BY <2>5, PartEnds
  <2>7. fed \in Seq(Value) /\ fed \o u \in Seq(Value) /\ fed \o u # NoModel
    BY <1>1, <2>3, <2>6, ConcatProperties
  <2> HIDE DEF n, w
  <2>8. a = [k EXCEPT !.model = fed \o u, !.at = target]
    <3>1. SmallerOf(target, seq) = seq  BY <1>4 DEF SmallerOf
    <3>2. seq - seq = 0 /\ 0 + 1 = 1 /\ Len(incoming) - 0 = Len(incoming) /\ 0 + n = n /\ seq + n = target
      BY <1>1, <1>4 DEF n
    <3>3. SmallerOf(n, Len(incoming)) = n  BY <2>5 DEF SmallerOf
    <3>4. ~(0 >= Len(incoming)) /\ ~(seq < seq) /\ ~(target <= seq)  BY <1>1, <1>4
    <3>5. target - seq = n  BY DEF n
    <3> QED  BY <1>4, <3>1, <3>2, <3>3, <3>4, <3>5 DEF Advance, w
  <2>9. /\ a \in Model /\ a.model = fed \o u /\ a.at = target /\ a.grid = k.grid /\ a.gen = k.gen
    <3>1. target \in Nat  BY <1>1, <1>4
    <3> HIDE DEF fed, u, a
    <3> QED  BY <2>7, <2>8, <3>1 DEF Model
  <2> HIDE DEF u, fed, a
  <2>10. ASSUME NEW e \in Int, EndsAt(held, e), EndsAt(incoming, e + Len(incoming)),
                EndsAt(k.model, e - (seq - k.at))
         PROVE  EndsAt(fed \o u, e - (seq - target))
    <3>1. EndsAt(fed, e)
      <4> DEFINE c == e - (seq - k.at)
      <4>1. c \in Int /\ c + Len(w) = e /\ e - (Len(After(k.at)) - (seq - k.at)) = e
        <5>1. seq - k.at \in Int /\ Len(w) = seq - k.at /\ Len(After(k.at)) = seq - k.at  BY <1>1, <2>1, <2>4
        <5>2. \A x \in Int : e - x \in Int /\ (e - x) + x = e /\ e - (x - x) = e  OBVIOUS
        <5> QED  BY <5>1, <5>2
      <4>2. EndsAt(w, c + Len(w)) /\ EndsAt(k.model, c) /\ w \in Seq(Int)
        BY <1>1, <2>1, <2>3, <2>10, <4>1
      <4> HIDE DEF c
      <4>3. EndsAt(k.model \o w, c + Len(w))  BY <1>1, <4>1, <4>2, ConcatEnds
      <4> QED  BY <4>1, <4>3 DEF fed
    <3>2. e + Len(incoming) - (Len(incoming) - n) = e + n /\ Len(u) = n  BY <1>1, <2>5, <2>6
    <3>3. EndsAt(u, e + Len(u)) /\ u \in Seq(Int) /\ fed \in Seq(Int)
      <4>1. e + Len(incoming) \in Int  BY <1>1
      <4> QED  BY <1>1, <2>6, <2>7, <2>10, <3>2, <4>1
    <3>4. EndsAt(fed \o u, e + Len(u))  BY <3>1, <3>3, ConcatEnds
    <3>5. e + Len(u) = e - (seq - target)  BY <1>1, <3>2 DEF n
    <3> QED  BY <3>4, <3>5
  <2> QED  BY <1>4, <2>7, <2>9, <2>10 DEF a
<1>5. CASE ~(target <= k.at) /\ ~(k.at < seq)
  <2> DEFINE off == k.at - seq
             n == target - k.at
             u == SubSeq(incoming, off + 1, off + n)
  <2>1. off \in Nat /\ n \in Nat /\ off + n <= Len(incoming)
    <3>1. /\ k.at >= seq /\ target > k.at /\ k.at \in Int /\ seq \in Int /\ Len(incoming) \in Int
          /\ target <= seq + Len(incoming)
      BY <1>1, <1>5
    <3> QED  BY <3>1
  <2>a. k.at + n = target /\ off = k.at - seq /\ n = target - k.at  BY <1>1
  <2> HIDE DEF off, n
  <2>b. /\ off + 1 \in Int /\ off + n \in Int /\ 1 <= off + 1 /\ off + 1 <= off + n + 1
        /\ (off + n) - (off + 1) + 1 = n
    BY <2>1
  <2>2. /\ u \in Seq(Value) /\ Len(u) = n
        /\ \A e \in Int : EndsAt(incoming, e) => EndsAt(u, e - (Len(incoming) - (off + n)))
    BY <2>1, <2>b, PartEnds
  <2>3. k.model \o u \in Seq(Value) /\ k.model \o u # NoModel  BY <1>1, <2>2, ConcatProperties
  <2>4. a = [k EXCEPT !.model = k.model \o u, !.at = target]
    <3>1. n <= Len(incoming) - off /\ n > 0 /\ ~(off >= Len(incoming)) /\ ~(k.at < seq)
      <4>1. /\ k.at \in Int /\ Len(incoming) \in Int /\ ~(target <= k.at) /\ ~(k.at < seq)
            /\ off \in Int /\ n \in Int /\ off + n <= Len(incoming) /\ k.at + n = target
        BY <1>1, <1>5, <2>1, <2>a
      <4> QED  BY <4>1
    <3>2. SmallerOf(n, Len(incoming) - off) = n  BY <3>1 DEF SmallerOf
    <3> QED  BY <1>5, <2>a, <3>1, <3>2 DEF Advance
  <2>5. /\ a \in Model /\ a.model = k.model \o u /\ a.at = target /\ a.grid = k.grid /\ a.gen = k.gen
    <3>1. target \in Nat  BY <1>1, <1>5
    <3> HIDE DEF u, a
    <3> QED  BY <2>3, <2>4, <3>1 DEF Model
  <2> HIDE DEF u, a
  <2>6. ASSUME NEW e \in Int, EndsAt(incoming, e + Len(incoming)), EndsAt(k.model, e - (seq - k.at))
        PROVE  EndsAt(k.model \o u, e - (seq - target))
    <3> DEFINE c == e - (seq - k.at)
    <3>0. /\ k.at \in Int /\ seq \in Int /\ Len(incoming) \in Int /\ off \in Int /\ n \in Int
          /\ Len(u) = n /\ off = k.at - seq /\ n = target - k.at
      BY <1>1, <2>1, <2>2, <2>a
    <3>1. /\ c \in Int /\ e + Len(incoming) \in Int
          /\ (e + Len(incoming)) - (Len(incoming) - (off + n)) = c + Len(u)
      <4>1. \A x, y, l, m, o \in Int : o = x - y =>
              /\ e - (y - x) \in Int /\ e + l \in Int
              /\ (e + l) - (l - (o + m)) = e - (y - x) + m
        OBVIOUS
      <4>2. \A x, y, l, m, o \in Int : o = x - y => (e + l) - (l - (o + m)) = e - (y - x) + m
        BY <4>1
      <4>3. (e + Len(incoming)) - (Len(incoming) - (off + n)) = e - (seq - k.at) + n
        <5>1. /\ k.at \in Int /\ seq \in Int /\ Len(incoming) \in Int /\ off \in Int /\ n \in Int
              /\ off = k.at - seq
          BY <3>0
        <5> DEFINE x == k.at
                   y == seq
                   l == Len(incoming)
        <5>2. x \in Int /\ y \in Int /\ l \in Int /\ off \in Int /\ n \in Int /\ off = x - y  BY <5>1
        <5> HIDE DEF x, y, l
        <5>3. (e + l) - (l - (off + n)) = e - (y - x) + n  BY <5>2
        <5> QED  BY <5>3 DEF x, y, l
      <4>4. e - (seq - k.at) \in Int /\ e + Len(incoming) \in Int  BY <3>0
      <4> QED  BY <3>0, <4>3, <4>4
    <3>2. EndsAt(u, c + Len(u)) /\ EndsAt(k.model, c) /\ u \in Seq(Int)
      <4>1. EndsAt(u, (e + Len(incoming)) - (Len(incoming) - (off + n)))  BY <2>2, <2>6, <3>1
      <4>2. EndsAt(u, c + Len(u))  BY <3>1, <4>1
      <4>3. EndsAt(k.model, c)  BY <2>6
      <4> QED  BY <1>1, <2>2, <4>2, <4>3
    <3>3. c + Len(u) = e - (seq - target)  BY <3>0
    <3> HIDE DEF c
    <3>4. EndsAt(k.model \o u, c + Len(u))  BY <1>1, <3>1, <3>2, ConcatEnds
    <3> QED  BY <3>3, <3>4
  <2> QED  BY <1>5, <2>3, <2>5, <2>6 DEF a
<1> QED  BY <1>2, <1>3, <1>4, <1>5 DEF a

\* What the model and the ring become when a chunk arrives.
LEMMA WindowBound == Window \in Nat /\ Window <= Cap /\ Window \div 2 \in Nat /\ Window \div 2 <= Window
<1>1. Cap \in Nat /\ KfWindow \in Nat  BY Constants
<1>2. \A n \in Nat : n \div 2 \in Nat /\ n \div 2 <= n  OBVIOUS
<1>3. Cap \div 2 \in Nat /\ Cap \div 2 <= Cap  BY <1>1, <1>2
<1>4. Window \in Nat /\ Window <= Cap \div 2  BY <1>1, <1>3 DEF Window, SmallerOf
<1>5. Window <= Cap  BY <1>1, <1>3, <1>4
<1>6. Window \div 2 \in Nat /\ Window \div 2 <= Window  BY <1>2, <1>4
<1> QED  BY <1>4, <1>5, <1>6

\* The ring after a chunk: which bytes it holds and where they came from.
Place(h, d, w, i) == Len(h) + Len(d) - Len(w) + i
LEMMA Written ==
  ASSUME NEW h \in Seq(Value), Len(h) <= Cap, NEW d \in Seq(Value), NEW w, w = LastBytes(h \o d)
  PROVE  /\ w \in Seq(Value) /\ Len(w) <= Cap /\ Len(w) <= Len(h) + Len(d)
         /\ Len(w) = Len(h) + Len(d) \/ Len(w) = Cap
         /\ \A i \in 1 .. Len(w) :
              /\ Place(h, d, w, i) \in 1 .. Len(h) + Len(d)
              /\ Place(h, d, w, i) <= Len(h) =>
                   Place(h, d, w, i) \in 1 .. Len(h) /\ w[i] = h[Place(h, d, w, i)]
              /\ Place(h, d, w, i) > Len(h) =>
                   /\ Place(h, d, w, i) - Len(h) \in 1 .. Len(d)
                   /\ w[i] = d[Place(h, d, w, i) - Len(h)]
<1> DEFINE s == h \o d
<1>1. /\ s \in Seq(Value) /\ Len(s) = Len(h) + Len(d) /\ Len(h) \in Nat /\ Len(d) \in Nat
      /\ \A i \in 1 .. Len(h) + Len(d) : s[i] = IF i <= Len(h) THEN h[i] ELSE d[i - Len(h)]
  BY ConcatProperties
<1>2. w = LastBytes(s)  OBVIOUS
<1> HIDE DEF s
<1>3. /\ w \in Seq(Value) /\ Len(w) = IF Len(s) <= Cap THEN Len(s) ELSE Cap
      /\ \A i \in 1 .. Len(w) : Len(s) - Len(w) + i \in 1 .. Len(s) /\ w[i] = s[Len(s) - Len(w) + i]
  <2>1. s \in Seq(Value)  BY <1>1
  <2>2. /\ LastBytes(s) \in Seq(Value)
        /\ Len(LastBytes(s)) = IF Len(s) <= Cap THEN Len(s) ELSE Cap
        /\ \A i \in 1 .. Len(LastBytes(s)) : /\ Len(s) - Len(LastBytes(s)) + i \in 1 .. Len(s)
                                             /\ LastBytes(s)[i] = s[Len(s) - Len(LastBytes(s)) + i]
    BY <2>1, LastBytesKept
  <2> QED  BY <1>2, <2>2
<1>4. Cap \in Nat /\ Len(w) \in Nat  BY <1>3, Constants
<1>5. Len(w) <= Cap /\ Len(w) <= Len(h) + Len(d) /\ (Len(w) = Len(h) + Len(d) \/ Len(w) = Cap)
  BY <1>1, <1>3, <1>4
<1>6. ASSUME NEW i \in 1 .. Len(w)
      PROVE  /\ Place(h, d, w, i) \in 1 .. Len(h) + Len(d)
             /\ Place(h, d, w, i) <= Len(h) =>
                  Place(h, d, w, i) \in 1 .. Len(h) /\ w[i] = h[Place(h, d, w, i)]
             /\ Place(h, d, w, i) > Len(h) =>
                  /\ Place(h, d, w, i) - Len(h) \in 1 .. Len(d)
                  /\ w[i] = d[Place(h, d, w, i) - Len(h)]
  <2> DEFINE j == Place(h, d, w, i)
  <2>1. Len(s) - Len(w) + i = j  BY <1>1 DEF Place
  <2> HIDE DEF j
  <2>2. j \in 1 .. Len(h) + Len(d) /\ w[i] = s[j]  BY <1>1, <1>3, <2>1
  <2>3. /\ j <= Len(h) => j \in 1 .. Len(h) /\ w[i] = h[j]
        /\ j > Len(h) => j - Len(h) \in 1 .. Len(d) /\ w[i] = d[j - Len(h)]
    BY <1>1, <2>2
  <2> QED  BY <2>2, <2>3 DEF j
<1> QED  BY <1>3, <1>5, <1>6

LEMMA WrittenEnds ==
  ASSUME NEW h \in Seq(Value), Len(h) <= Cap, NEW d \in Seq(Value), NEW w, w = LastBytes(h \o d),
         NEW e \in Int, NEW e2 \in Int, e2 = e + Len(d)
  PROVE  /\ EndsAt(h, e) /\ EndsAt(d, e2) => EndsAt(w, e2)
         /\ NoEarlier(h, e) /\ NoEarlier(d, e2) => NoEarlier(w, e2)
<1>1. /\ w \in Seq(Value) /\ Len(w) \in Nat /\ Len(h) \in Nat /\ Len(d) \in Nat
      /\ \A i \in 1 .. Len(w) :
           /\ Place(h, d, w, i) \in 1 .. Len(h) + Len(d)
           /\ Place(h, d, w, i) <= Len(h) =>
                Place(h, d, w, i) \in 1 .. Len(h) /\ w[i] = h[Place(h, d, w, i)]
           /\ Place(h, d, w, i) > Len(h) =>
                /\ Place(h, d, w, i) - Len(h) \in 1 .. Len(d)
                /\ w[i] = d[Place(h, d, w, i) - Len(h)]
  <2>1. w \in Seq(Value)  BY Written
  <2> QED  BY <2>1, Written
<1>3. ASSUME NEW i \in 1 .. Len(w)
      PROVE  /\ EndsAt(h, e) /\ EndsAt(d, e2) => w[i] = e2 - (Len(w) - i)
             /\ NoEarlier(h, e) /\ NoEarlier(d, e2) => w[i] >= e2 - (Len(w) - i)
  <2> DEFINE j == Place(h, d, w, i)
  <2>1. /\ j \in 1 .. Len(h) + Len(d)
        /\ j <= Len(h) => j \in 1 .. Len(h) /\ w[i] = h[j]
        /\ j > Len(h) => j - Len(h) \in 1 .. Len(d) /\ w[i] = d[j - Len(h)]
    BY <1>1
  <2>2. j = Len(h) + Len(d) - Len(w) + i  BY DEF Place
  <2> HIDE DEF j
  <2>3. j \in Int /\ e - (Len(h) - j) = e2 - (Len(w) - i) /\ e2 - (Len(d) - (j - Len(h))) = e2 - (Len(w) - i)
    BY <1>1, <2>1, <2>2
  <2>4. CASE j <= Len(h)
    <3>1. EndsAt(h, e) => h[j] = e - (Len(h) - j)  BY <2>1, <2>4 DEF EndsAt
    <3>2. NoEarlier(h, e) => h[j] >= e - (Len(h) - j)  BY <2>1, <2>4 DEF NoEarlier
    <3> QED  BY <2>1, <2>3, <2>4, <3>1, <3>2
  <2>5. CASE j > Len(h)
    <3>1. EndsAt(d, e2) => d[j - Len(h)] = e2 - (Len(d) - (j - Len(h)))  BY <2>1, <2>5 DEF EndsAt
    <3>2. NoEarlier(d, e2) => d[j - Len(h)] >= e2 - (Len(d) - (j - Len(h)))  BY <2>1, <2>5 DEF NoEarlier
    <3> QED  BY <2>1, <2>3, <2>5, <3>1, <3>2
  <2> QED  BY <1>1, <2>3, <2>4, <2>5
<1> QED  BY <1>3 DEF EndsAt, NoEarlier

\* Admitting a chunk leaves the model behind it by no more than the window.
LEMMA AdmitFollows ==
  ASSUME KeyframeTyped, WindowHeld, NEW incoming \in Seq(Value), NEW a \in Admit(kf, incoming)
  PROVE  /\ a \in Model /\ (a.model = NoModel <=> kf.model = NoModel)
         /\ a.grid = kf.grid /\ a.gen = kf.gen
         /\ a.at >= kf.at /\ a.at <= seq + Len(incoming)
         /\ a.model # NoModel => seq + Len(incoming) - a.at <= Window
         /\ a.model # NoModel => \A e \in Int :
              EndsAt(held, e) /\ EndsAt(incoming, e + Len(incoming)) /\ EndsAt(kf.model, e - (seq - kf.at))
                => EndsAt(a.model, e - (seq - a.at))
<1> DEFINE end == seq + Len(incoming)
           half == Advance(kf, end - Window \div 2, incoming)
<1>1. /\ seq \in Nat /\ kf \in Model /\ kf.at \in Nat /\ kf.at <= seq /\ Len(incoming) \in Nat
      /\ Window \in Nat /\ Window \div 2 \in Nat /\ Window \div 2 <= Window /\ Len(held) \in Nat
  BY ModelTypes, WindowBound DEF KeyframeTyped
<1>2. a \in IF kf.model = NoModel \/ end - kf.at <= Window THEN {kf}
            ELSE {half} \cup {Advance(half, end, incoming)}
  BY DEF Admit
<1>3. CASE kf.model = NoModel \/ end - kf.at <= Window
  <2>1. a = kf  BY <1>2, <1>3
  <2>2. kf.at <= end /\ kf.at >= kf.at  BY <1>1
  <2> QED  BY <1>1, <1>3, <2>1, <2>2
<1>4. CASE ~(kf.model = NoModel \/ end - kf.at <= Window)
  <2> DEFINE t == end - Window \div 2
  <2>1. /\ t \in Int /\ t > kf.at /\ t <= end /\ end \in Int /\ end >= kf.at /\ end - t <= Window
        /\ end - end <= Window
    <3> DEFINE x == kf.at
               h == Window \div 2
    <3>1. x \in Nat /\ h \in Nat /\ h <= Window /\ end - x > Window /\ x <= seq  BY <1>1, <1>4
    <3> HIDE DEF x, h
    <3>2. /\ end - h \in Int /\ end - h > x /\ end - h <= end /\ end \in Int /\ end >= x
          /\ end - (end - h) <= Window /\ end - end <= Window
      BY <1>1, <3>1
    <3> QED  BY <3>2 DEF x, h
  <2>2. kf.model # NoModel /\ (kf.at < seq => Readable(kf.at))
    BY <1>4 DEF WindowHeld, HasModel
  <2> HIDE DEF t
  <2>3. /\ half \in Model /\ half.model # NoModel /\ half.grid = kf.grid /\ half.gen = kf.gen
        /\ half.at = IF t <= kf.at THEN kf.at ELSE t
        /\ \A e \in Int :
             EndsAt(held, e) /\ EndsAt(incoming, e + Len(incoming)) /\ EndsAt(kf.model, e - (seq - kf.at))
               => EndsAt(half.model, e - (seq - half.at))
    <3>1. half = Advance(kf, t, incoming)  BY DEF t
    <3>2. kf.at <= end /\ t <= end  BY <1>1, <2>1
    <3> HIDE DEF half
    <3> QED  BY <1>1, <2>1, <2>2, <3>1, <3>2, AdvanceFollows
  <2>4. half.at = t /\ half.at \in Nat
    <3>1. half.at \in Nat  BY <2>3, ModelTypes
    <3>2. ~(t <= kf.at)  BY <1>1, <2>1
    <3> QED  BY <2>3, <3>1, <3>2
  <2>5. CASE a = half
    <3>1. half.at >= kf.at /\ half.at <= end /\ end - half.at <= Window  BY <1>1, <2>1, <2>4
    <3>0. end = seq + Len(incoming)  OBVIOUS
    <3> HIDE DEF half, end
    <3>2. /\ a \in Model /\ a.model # NoModel /\ a.grid = kf.grid /\ a.gen = kf.gen
          /\ a.at >= kf.at /\ a.at <= end /\ end - a.at <= Window
      BY <2>3, <2>5, <3>1
    <3>3. \A e \in Int :
            EndsAt(held, e) /\ EndsAt(incoming, e + Len(incoming)) /\ EndsAt(kf.model, e - (seq - kf.at))
              => EndsAt(a.model, e - (seq - a.at))
      BY <2>3, <2>5
    <3>4. a.at <= seq + Len(incoming) /\ seq + Len(incoming) - a.at <= Window
      BY <1>1, <2>1, <2>4, <2>5, <3>0, <3>2
    <3>5. a.model = NoModel <=> kf.model = NoModel  BY <2>2, <3>2
    <3> QED  BY <3>2, <3>3, <3>4, <3>5
  <2>6. CASE a = Advance(half, end, incoming)
    <3>1. half.at < seq => Readable(half.at)
      <4>1. seq - Len(held) <= kf.at  BY <1>1, <2>2, <1>4 DEF WindowHeld, HasModel, Readable
      <4>2. kf.at < t  BY <2>1
      <4> HIDE DEF half
      <4> QED  BY <1>1, <2>1, <2>4, <4>1, <4>2 DEF Readable
    <3>2. half.at <= end /\ end <= end  BY <2>1, <2>4
    <3> HIDE DEF half
    <3>3. /\ a \in Model /\ a.model # NoModel /\ a.grid = half.grid /\ a.gen = half.gen
          /\ a.at = IF end <= half.at THEN half.at ELSE end
          /\ \A e \in Int :
               EndsAt(held, e) /\ EndsAt(incoming, e + Len(incoming)) /\ EndsAt(half.model, e - (seq - half.at))
                 => EndsAt(a.model, e - (seq - a.at))
      <4>1. seq + Len(incoming) = end /\ half \in Model /\ half.model # NoModel /\ end \in Int
        BY <2>1, <2>3
      <4> HIDE DEF end
      <4> QED  BY <2>6, <3>1, <3>2, <4>1, AdvanceFollows
    <3>4. a.at = end  BY <2>1, <2>4, <3>2, <3>3
    <3> QED  BY <1>1, <2>1, <2>2, <2>3, <3>3, <3>4
  <2> QED  BY <1>2, <1>4, <2>5, <2>6
<1> QED  BY <1>3, <1>4

\* Moving the model to another grid brings it to the ring's present first.
LEMMA ResizeFollows ==
  ASSUME KeyframeTyped, WindowHeld, HasModel, NEW g \in TermSizes, NEW a, a = ResizeKf(kf, g)
  PROVE  /\ a \in Model /\ a.model # NoModel /\ a.grid = g /\ a.gen = kf.gen + 1 /\ a.at = seq
         /\ \A e \in Int : EndsAt(held, e) /\ EndsAt(kf.model, e - (seq - kf.at)) => EndsAt(a.model, e)
<1> DEFINE b == Advance(kf, seq, << >>)
<1>1. /\ seq \in Nat /\ kf \in Model /\ kf.at \in Nat /\ kf.at <= seq /\ kf.model # NoModel
      /\ << >> \in Seq(Value) /\ Len(<< >>) = 0 /\ seq + 0 = seq /\ seq \in Int
  BY ModelTypes DEF KeyframeTyped, HasModel
<1>2. Readable(kf.at)  BY DEF WindowHeld
<1>3. kf.at <= seq + Len(<< >>) /\ seq <= seq + Len(<< >>)  BY <1>1
<1> HIDE DEF b
<1>4. /\ b \in Model /\ b.model # NoModel /\ b.grid = kf.grid /\ b.gen = kf.gen
      /\ b.at = IF seq <= kf.at THEN kf.at ELSE seq
      /\ \A e \in Int :
           EndsAt(held, e) /\ EndsAt(<< >>, e + Len(<< >>)) /\ EndsAt(kf.model, e - (seq - kf.at))
             => EndsAt(b.model, e - (seq - b.at))
  BY <1>1, <1>2, <1>3, AdvanceFollows DEF b
<1>5. b.at = seq  BY <1>1, <1>4
<1>6. a = [b EXCEPT !.grid = g, !.gen = @ + 1]  BY <1>1 DEF ResizeKf, b
<1>7. a \in Model /\ a.model = b.model /\ a.grid = g /\ a.gen = b.gen + 1 /\ a.at = b.at
  <2>1. b.gen + 1 \in Nat  BY <1>4, ModelTypes
  <2> QED  BY <1>4, <1>6, <2>1 DEF Model
<1>8. \A e \in Int : EndsAt(held, e) /\ EndsAt(kf.model, e - (seq - kf.at)) => EndsAt(a.model, e)
  <2>1. \A e \in Int : e - (seq - seq) = e  BY <1>1
  <2> QED  BY <1>4, <1>5, <1>7, <2>1, NothingEnds
<1> QED  BY <1>4, <1>5, <1>7, <1>8

-----------------------------------------------------------------------------
(***************************************************************************)
(* Each step keeps the invariant: first what the seeders do.               *)
(***************************************************************************)
LEMMA Counts ==
  ASSUME KeyframeTyped
  PROVE  /\ seq \in Nat /\ base.daemon \in Nat /\ base.ring \in Nat /\ base.ring <= seq
         /\ Reached \in Nat /\ Len(held) \in Nat /\ held \in Seq(Value) /\ held \in Seq(Int)
         /\ Dseq \in Nat /\ Len(drawn) \in Nat /\ kf.at \in Nat /\ kf.at <= seq /\ Front \in Nat
<1>1. /\ seq \in Nat /\ base.daemon \in Nat /\ base.ring \in Nat /\ base.ring <= seq
      /\ Len(held) \in Nat /\ held \in Seq(Value) /\ Dseq \in Nat /\ Len(drawn) \in Nat
  BY DEF KeyframeTyped, Dseq
<1>2. Reached \in Nat  BY <1>1 DEF Reached
<1>3. kf.at \in Nat /\ kf.at <= seq  BY ModelTypes DEF KeyframeTyped
<1>4. Front \in Nat  BY <1>1, <1>2 DEF Front, KeyframeTyped
<1> QED  BY <1>1, <1>2, <1>3, <1>4, Constants

LEMMA OnlySeeders ==
  ASSUME KeyframeInv, UNCHANGED <<held, seq, daemon, link, server, kf>>,
         seeder' \in [Attaches -> Seeder],
         \A k \in Attaches : seeder'[k].pc = "install" => seeder'[k].grid \in TermSizes,
         SnapshotsFit'
  PROVE  KeyframeInv'
<1>1. /\ held' = held /\ seq' = seq /\ drawn' = drawn /\ dgrid' = dgrid /\ resizes' = resizes
      /\ inflight' = inflight /\ connUp' = connUp /\ attach' = attach /\ holed' = holed
      /\ phase' = phase /\ since' = since /\ from' = from /\ fresh' = fresh
      /\ replayEnd' = replayEnd /\ ackGrid' = ackGrid /\ base' = base /\ kf' = kf
  BY DEF daemon, link, server
<1>2. KeyframeTyped'  BY <1>1 DEF KeyframeInv, KeyframeTyped, Dseq
<1>3. Attaching'  BY <1>1 DEF KeyframeInv, Attaching, Reached, HasModel
<1>4. Drawn'  BY <1>1 DEF KeyframeInv, Drawn, Dseq
<1>5. Tiles'  BY <1>1 DEF KeyframeInv, Tiles, Front, Reached, Streaming, Dseq
<1>6. CopyFollows' /\ ModelFollows'  BY <1>1 DEF KeyframeInv, CopyFollows, ModelFollows, Sound, Reached, HasModel
<1>7. WindowHeld'  BY <1>1 DEF KeyframeInv, WindowHeld, HasModel, Readable
<1>8. GridsInOrder'  BY <1>1 DEF KeyframeInv, GridsInOrder, Leads, Streaming
<1>9. WindowOn'  BY <1>1 DEF KeyframeInv, WindowOn, HasModel
<1> QED  BY <1>2, <1>3, <1>4, <1>5, <1>6, <1>7, <1>8, <1>9 DEF KeyframeInv

\* What a snapshot that may be installed needs, and that it stays so while only
\* seeders step.
Fits(s) == /\ s.pc \in {"snap", "install"} => s.gen <= kf.gen
           /\ s.pc = "install" => s.offset <= Dseq
           /\ s.pc = "install" /\ s.gen = kf.gen =>
                /\ HeldOn(s.grid, s.offset)
                /\ phase = "attached" => Leads(s.grid, s.offset)

LEMMA SeedersFit ==
  ASSUME UNCHANGED <<held, seq, daemon, link, server, kf>>,
         \A k \in Attaches : Fits(seeder'[k])
  PROVE  SnapshotsFit'
<1>1. /\ held' = held /\ drawn' = drawn /\ dgrid' = dgrid /\ inflight' = inflight /\ connUp' = connUp
      /\ phase' = phase /\ replayEnd' = replayEnd /\ kf' = kf
  BY DEF daemon, link, server
<1> QED  BY <1>1 DEF SnapshotsFit, Fits, HeldOn, Leads, Streaming, Dseq

LEMMA SeederParts ==
  ASSUME NEW s \in Seeder
  PROVE  s.pc \in Asking /\ s.gen \in Nat /\ s.offset \in 0 .. MaxBytes /\ s.tries \in Nat
BY DEF Seeder

LEMMA OneSeeder ==
  ASSUME KeyframeInv, UNCHANGED <<held, seq, daemon, link, server, kf>>, NEW k \in Attaches,
         NEW s \in Seeder, s.pc = "install" => s.grid \in TermSizes, Fits(s),
         seeder' = [seeder EXCEPT ![k] = s]
  PROVE  KeyframeInv'
<1>1. seeder \in [Attaches -> Seeder]  BY DEF KeyframeInv, KeyframeTyped
<1>2. \A j \in Attaches : seeder'[j] = IF j = k THEN s ELSE seeder[j]  BY <1>1
<1>3. seeder' \in [Attaches -> Seeder]  BY <1>1
<1>4. \A j \in Attaches : Fits(seeder[j])  BY DEF KeyframeInv, SnapshotsFit, Fits
<1>5. \A j \in Attaches : Fits(seeder'[j])  BY <1>2, <1>4
<1>6. \A j \in Attaches : seeder'[j].pc = "install" => seeder'[j].grid \in TermSizes
  BY <1>2 DEF KeyframeInv, KeyframeTyped
<1>7. SnapshotsFit'  BY <1>5, SeedersFit
<1> QED  BY <1>3, <1>6, <1>7, OnlySeeders

LEMMA IdleFits ==
  ASSUME NEW pc \in {"gen", "done"}, NEW tries \in Nat
  PROVE  Idle(pc, tries) \in Seeder /\ Idle(pc, tries).pc = pc /\ Fits(Idle(pc, tries))
<1>1. 0 \in 0 .. MaxBytes  BY Constants
<1>2. Idle(pc, tries) \in Seeder /\ Idle(pc, tries).pc = pc  BY <1>1 DEF Idle, Seeder, Asking
<1> QED  BY <1>2 DEF Fits

LEMMA SeedGenKeeps == ASSUME KeyframeInv, NEW k \in Attaches, SeedGen(k)  PROVE KeyframeInv'
<1> DEFINE s == [seeder[k] EXCEPT !.pc = "snap", !.gen = kf.gen, !.tries = @ + 1]
<1>1. seeder \in [Attaches -> Seeder] /\ seeder[k] \in Seeder /\ kf.gen \in Nat
  BY ModelTypes DEF KeyframeInv, KeyframeTyped
<1>2. s \in Seeder /\ s.pc = "snap" /\ s.gen = kf.gen
  <2>1. seeder[k].tries + 1 \in Nat  BY <1>1, SeederParts
  <2> QED  BY <1>1, <2>1 DEF Seeder, Asking
<1>3. seeder' = [seeder EXCEPT ![k] = s]  BY <1>1 DEF SeedGen
<1> HIDE DEF s
<1>4. Fits(s) /\ (s.pc = "install" => s.grid \in TermSizes)  BY <1>1, <1>2 DEF Fits
<1>5. UNCHANGED <<held, seq, daemon, link, server, kf>>  BY DEF SeedGen
<1> QED  BY <1>2, <1>3, <1>4, <1>5, OneSeeder

LEMMA SeedSnapKeeps == ASSUME KeyframeInv, NEW k \in Attaches, SeedSnap(k)  PROVE KeyframeInv'
<1> DEFINE s == [pc |-> "install", gen |-> seeder[k].gen, offset |-> Dseq,
                 tries |-> seeder[k].tries, grid |-> dgrid]
<1>1. /\ seeder \in [Attaches -> Seeder] /\ seeder[k] \in Seeder /\ seeder[k].gen <= kf.gen
      /\ Dseq \in 0 .. MaxBytes /\ dgrid \in TermSizes /\ seeder[k].pc = "snap"
  <2>1. Dseq \in Nat /\ Dseq <= MaxBytes /\ MaxBytes \in Nat  BY Counts, Constants DEF KeyframeInv, KeyframeTyped
  <2>2. seeder[k].pc = "snap" /\ seeder[k].gen <= kf.gen  BY DEF KeyframeInv, SnapshotsFit, SeedSnap
  <2> QED  BY <2>1, <2>2 DEF KeyframeInv, KeyframeTyped
<1>2. /\ s \in Seeder /\ s.pc = "install" /\ s.gen = seeder[k].gen /\ s.offset = Dseq /\ s.grid = dgrid
  BY <1>1, SeederParts DEF Seeder, Asking
<1>3. seeder' = [seeder EXCEPT ![k] = s]  BY <1>1 DEF SeedSnap
<1>4. UNCHANGED <<held, seq, daemon, link, server, kf>>  BY DEF SeedSnap
<1> HIDE DEF s
<1>5. HeldOn(dgrid, Dseq)
  <2>1. \A i \in 1 .. Len(held) : held[i] \in Int /\ held[i] <= Dseq
    BY Counts, ElementOfSeq DEF KeyframeInv, Drawn
  <2> QED  BY <2>1, Counts DEF HeldOn, KeyframeInv
<1>6. Leads(dgrid, Dseq)
  <2>1. ASSUME NEW i \in 1 .. Len(inflight), inflight[i].kind = "data", NEW b \in 1 .. Len(inflight[i].bytes)
        PROVE  ~(inflight[i].bytes[b] > Dseq)
    <3>1. inflight[i].bytes[b] <= Dseq  BY <2>1 DEF KeyframeInv, Drawn
    <3>2. inflight[i].bytes \in Seq(Value)
      <4>1. inflight[i] \in Frame  BY ElementOfSeq DEF KeyframeInv, KeyframeTyped
      <4> QED  BY <2>1, <4>1, FrameKinds
    <3>3. inflight[i].bytes[b] \in Int
      <4>1. Value \subseteq Int  BY Constants
      <4> QED  BY <2>1, <3>2, <4>1, ElementOfSeq
    <3>4. Dseq \in Int  BY Counts DEF KeyframeInv
    <3> QED  BY <3>1, <3>3, <3>4
  <2> QED  BY <2>1 DEF Leads, LeadOn, StartsTo
<1>7. Fits(s) /\ (s.pc = "install" => s.grid \in TermSizes)
  <2>1. Dseq <= Dseq  BY <1>1
  <2> QED  BY <1>1, <1>2, <1>5, <1>6, <2>1 DEF Fits
<1> QED  BY <1>2, <1>3, <1>4, <1>7, OneSeeder

LEMMA SeedFailsKeeps == ASSUME KeyframeInv, NEW k \in Attaches, SeedFails(k)  PROVE KeyframeInv'
<1>1. seeder[k].tries \in Nat /\ 0 \in Nat  BY SeederParts DEF KeyframeInv, KeyframeTyped
<1>2. PICK pc \in {"gen", "done"} : seeder' = [seeder EXCEPT ![k] = Idle(pc, IF pc = "done" THEN 0 ELSE seeder[k].tries)]
  BY DEF SeedFails, Become
<1> DEFINE s == Idle(pc, IF pc = "done" THEN 0 ELSE seeder[k].tries)
<1>3. s \in Seeder /\ s.pc # "install" /\ Fits(s)
  <2>1. (IF pc = "done" THEN 0 ELSE seeder[k].tries) \in Nat  BY <1>1
  <2>2. s \in Seeder /\ s.pc = pc /\ Fits(s)  BY <1>2, <2>1, IdleFits
  <2> HIDE DEF s
  <2> QED  BY <1>2, <2>2
<1>4. UNCHANGED <<held, seq, daemon, link, server, kf>>  BY DEF SeedFails
<1> HIDE DEF s
<1>5. seeder' = [seeder EXCEPT ![k] = s]  BY <1>2 DEF s
<1> QED  BY <1>3, <1>4, <1>5, OneSeeder

\* Bytes in flight before the first resize are later than the server's count.
LEMMA InFlightLater ==
  ASSUME KeyframeInv, phase = "attached", NEW i \in 1 .. Len(inflight), inflight[i].kind = "data",
         NEW b \in 1 .. Len(inflight[i].bytes)
  PROVE  inflight[i].bytes[b] \in Int /\ inflight[i].bytes[b] > Reached
<1>1. inflight[i] \in Frame  BY ElementOfSeq DEF KeyframeInv, KeyframeTyped
<1>2. /\ inflight[i].bytes \in Seq(Value) /\ Length(inflight[i]) = Len(inflight[i].bytes)
      /\ Len(inflight[i].bytes) \in Nat
  BY <1>1, FrameKinds
<1>3. inflight[i].bytes[b] \in Int
  <2>1. Value \subseteq Int  BY Constants
  <2> QED  BY <1>2, <2>1, ElementOfSeq
<1>4. PICK p \in [0 .. Len(inflight) -> Int] : Laid(inflight, p, Reached)
  BY DEF KeyframeInv, Tiles, Front
<1>5. Len(inflight) \in Nat  BY DEF KeyframeInv, KeyframeTyped
<1>6. /\ p[i] \in Int /\ p[i - 1] \in Int /\ p[0] = Reached
      /\ p[i] = p[i - 1] + Length(inflight[i])
      /\ p[0] <= p[i - 1] /\ inflight[i].bytes[b] >= p[i] - (Len(inflight[i].bytes) - b)
  <2>1. i - 1 \in 0 .. Len(inflight) /\ i \in 0 .. Len(inflight) /\ 0 \in 0 .. Len(inflight) /\ 0 <= i - 1
    BY <1>5
  <2>2. p[0] = Reached /\ p[i] = p[i - 1] + Length(inflight[i]) /\ p[0] <= p[i - 1]  BY <1>4, <2>1 DEF Laid
  <2>3. NoEarlier(inflight[i].bytes, p[i])  BY <1>4, <2>1 DEF Laid
  <2>4. inflight[i].bytes[b] >= p[i] - (Len(inflight[i].bytes) - b)  BY <2>3 DEF NoEarlier
  <2> QED  BY <2>1, <2>2, <2>4
<1> DEFINE v == inflight[i].bytes[b]
           l == Len(inflight[i].bytes)
<1>7. v \in Int /\ l \in Nat /\ b \in 1 .. l /\ p[i] = p[i - 1] + l /\ v >= p[i] - (l - b) /\ p[i - 1] >= Reached
  BY <1>2, <1>3, <1>6
<1>8. Reached \in Int  BY Counts DEF KeyframeInv
<1> HIDE DEF v, l
<1>9. v > Reached  BY <1>6, <1>7, <1>8
<1> QED  BY <1>3, <1>9 DEF v

\* The bytes held after a position are later than the daemon offset it stands for.
LEMMA WindowLater ==
  ASSUME KeyframeInv, NEW i \in 1 .. Len(held), NEW x \in Int, i > Len(held) - x
  PROVE  held[i] \in Int /\ held[i] > Reached - x
<1>1. Len(held) \in Nat /\ held \in Seq(Int) /\ Reached \in Nat  BY Counts DEF KeyframeInv
<1>2. held[i] \in Int  BY <1>1, ElementOfSeq
<1>3. held[i] >= Reached - (Len(held) - i)  BY DEF KeyframeInv, CopyFollows, NoEarlier
<1> QED  BY <1>1, <1>2, <1>3

\* A snapshot taken at offset and installed at pos replaces the model.
LEMMA InstallFits ==
  ASSUME KeyframeInv, NEW k \in Attaches, seeder[k].pc = "install", seeder[k].gen = kf.gen,
         NEW pos, pos = base.ring + (seeder[k].offset - base.daemon),
         seeder[k].offset >= base.daemon, pos <= seq, Readable(pos),
         UNCHANGED <<held, seq, daemon, link, server>>,
         kf' = [kf EXCEPT !.model = Bytes(0, seeder[k].offset), !.grid = seeder[k].grid, !.at = pos],
         seeder' = [seeder EXCEPT ![k] = Idle("done", 0)]
  PROVE  KeyframeInv'
<1> DEFINE o == seeder[k].offset
           g == seeder[k].grid
<1>1. /\ held' = held /\ seq' = seq /\ drawn' = drawn /\ dgrid' = dgrid /\ resizes' = resizes
      /\ inflight' = inflight /\ connUp' = connUp /\ attach' = attach /\ holed' = holed
      /\ phase' = phase /\ since' = since /\ from' = from /\ fresh' = fresh
      /\ replayEnd' = replayEnd /\ ackGrid' = ackGrid /\ base' = base
  BY DEF daemon, link, server
<1>2. /\ o \in Nat /\ o <= MaxBytes /\ o <= Dseq /\ g \in TermSizes
      /\ HeldOn(g, o) /\ (phase = "attached" => Leads(g, o))
  <2>1. seeder[k] \in Seeder /\ MaxBytes \in Nat  BY Constants DEF KeyframeInv, KeyframeTyped
  <2>2. o \in Nat /\ o <= MaxBytes  BY <2>1, SeederParts
  <2> QED  BY <2>2 DEF KeyframeInv, KeyframeTyped, SnapshotsFit
<1>3. pos \in Nat /\ Reached - (seq - pos) = o /\ o <= Reached
  <2>1. /\ seq \in Nat /\ base.daemon \in Nat /\ base.ring \in Nat /\ base.ring <= seq
        /\ o >= base.daemon /\ pos = base.ring + (o - base.daemon)
    BY Counts DEF KeyframeInv
  <2> DEFINE x == base.daemon
             y == base.ring
  <2>2. x \in Nat /\ y \in Nat /\ o >= x /\ pos = y + (o - x) /\ Reached = x + (seq - y)
    BY <2>1 DEF Reached
  <2> HIDE DEF x, y, o
  <2> QED  BY <1>2, <2>1, <2>2
<1>4. Bytes(0, o) \in Seq(Value) /\ EndsAt(Bytes(0, o), o) /\ Bytes(0, o) # NoModel
  <2>1. 0 \in Nat /\ 0 <= o  BY <1>2
  <2>2. Bytes(0, o) \in Seq(Value) /\ EndsAt(Bytes(0, o), o)  BY <1>2, <2>1, BytesEnd
  <2> QED  BY <2>2, Constants
<1>5. /\ kf' \in Model /\ kf'.model = Bytes(0, o) /\ kf'.grid = g /\ kf'.at = pos /\ kf'.gen = kf.gen
  <2>1. kf \in Model  BY DEF KeyframeInv, KeyframeTyped
  <2> QED  BY <1>2, <1>3, <1>4, <2>1 DEF Model
<1>6. HasModel'  BY <1>4, <1>5 DEF HasModel
<1>7. /\ \A j \in Attaches : seeder'[j] = IF j = k THEN Idle("done", 0) ELSE seeder[j]
      /\ Idle("done", 0) \in Seeder /\ Idle("done", 0).pc = "done"
      /\ seeder' \in [Attaches -> Seeder]
  <2>1. Idle("done", 0) \in Seeder /\ Idle("done", 0).pc = "done"  BY IdleFits
  <2> QED  BY <2>1 DEF KeyframeInv, KeyframeTyped
<1> HIDE DEF o, g
<1>8. KeyframeTyped'
  <2>1. \A j \in Attaches : seeder'[j].pc = "install" => seeder'[j].grid \in TermSizes
    BY <1>7 DEF KeyframeInv, KeyframeTyped
  <2>2. kf'.at <= seq'  BY <1>1, <1>5
  <2> QED  BY <1>1, <1>5, <1>7, <2>1, <2>2 DEF KeyframeInv, KeyframeTyped, Dseq
<1>9. Attaching'  BY <1>1, <1>6 DEF KeyframeInv, Attaching, Reached
<1>10. Drawn'  BY <1>1 DEF KeyframeInv, Drawn, Dseq
<1>11. Tiles'  BY <1>1 DEF KeyframeInv, Tiles, Front, Reached, Streaming, Dseq
<1>12. CopyFollows'  BY <1>1 DEF KeyframeInv, CopyFollows, Sound, Reached
<1>13. ModelFollows'
  <2>1. (Reached - (seq - kf.at))' = o  BY <1>1, <1>3, <1>5 DEF Reached
  <2> QED  BY <1>4, <1>5, <2>1 DEF ModelFollows
<1>14. WindowHeld'  BY <1>1, <1>5 DEF WindowHeld, Readable
<1>15. GridsInOrder'
  <2>1. phase = "attached" => Leads(g, 0)
    <3> SUFFICES ASSUME phase = "attached"  PROVE Leads(g, 0)  OBVIOUS
    <3>1. ASSUME NEW i \in 1 .. Len(inflight), inflight[i].kind = "data", NEW b \in 1 .. Len(inflight[i].bytes)
          PROVE  inflight[i].bytes[b] > o
      <4>1. inflight[i].bytes[b] \in Int /\ inflight[i].bytes[b] > Reached  BY <3>1, InFlightLater
      <4>2. Reached \in Nat  BY Counts DEF KeyframeInv
      <4> QED  BY <1>2, <1>3, <4>1, <4>2
    <3>2. LeadOn(drawn, replayEnd, inflight, g, o) /\ (Streaming => StartsTo(inflight, g, dgrid))
      BY <1>2 DEF Leads
    <3>3. LeadOn(drawn, replayEnd, inflight, g, 0)  BY <3>1, <3>2 DEF LeadOn
    <3> QED  BY <3>2, <3>3 DEF Leads
  <2>2. phase = "attached" => LeadOn(drawn, replayEnd, inflight, kf'.grid, 0)
                              /\ (Streaming => StartsTo(inflight, kf'.grid, dgrid))
    BY <1>5, <2>1 DEF Leads
  <2> QED  BY <1>1, <2>2 DEF KeyframeInv, GridsInOrder, Leads, Streaming
<1>16. WindowOn'
  <2>1. ASSUME NEW i \in 1 .. Len(held), i > Len(held) - (seq - pos)
        PROVE  On(drawn, replayEnd, held[i], g)
    <3>1. seq - pos \in Int  BY <1>3, Counts DEF KeyframeInv
    <3>2. held[i] > o  BY <1>3, <2>1, <3>1, WindowLater
    <3> QED  BY <1>2, <3>2 DEF HeldOn
  <2> QED  BY <1>1, <1>5, <2>1 DEF WindowOn
<1>17. SnapshotsFit'
  <2>1. ASSUME NEW j \in Attaches, seeder'[j].pc \in {"snap", "install"}
        PROVE  seeder'[j] = seeder[j]
    BY <1>7, <2>1
  <2>2. \A h, m : HeldOn(h, m)' <=> HeldOn(h, m)  BY <1>1 DEF HeldOn
  <2>3. \A h, m : Leads(h, m)' <=> Leads(h, m)  BY <1>1 DEF Leads, Streaming
  <2>4. Dseq' = Dseq  BY <1>1 DEF Dseq
  <2> QED  BY <1>1, <1>5, <2>1, <2>2, <2>3, <2>4 DEF KeyframeInv, SnapshotsFit, HeldOn, Leads, Streaming
<1> QED  BY <1>8, <1>9, <1>10, <1>11, <1>12, <1>13, <1>14, <1>15, <1>16, <1>17 DEF KeyframeInv

LEMMA InstallKeeps == ASSUME KeyframeInv, NEW k \in Attaches, Install(k)  PROVE KeyframeInv'
<1> DEFINE s   == seeder[k]
           pos == base.ring + (s.offset - base.daemon)
<1>1. UNCHANGED <<held, seq, daemon, link, server>> /\ s.pc = "install"  BY DEF Install
<1>2. s \in Seeder /\ s.tries \in Nat /\ s.offset \in Nat /\ base.daemon \in Nat
  <2>1. s \in Seeder /\ MaxBytes \in Nat  BY Constants DEF KeyframeInv, KeyframeTyped
  <2> QED  BY <2>1, SeederParts, Counts DEF KeyframeInv
<1>3. ASSUME UNCHANGED kf, NEW pc \in {"gen", "done"}, Become(k, pc)  PROVE KeyframeInv'
  <2> DEFINE t == IF pc = "done" THEN 0 ELSE seeder[k].tries
  <2>1. t \in Nat  BY <1>2
  <2> HIDE DEF t
  <2>2. Idle(pc, t) \in Seeder /\ Idle(pc, t).pc = pc /\ Fits(Idle(pc, t))  BY <1>3, <2>1, IdleFits
  <2>3. seeder' = [seeder EXCEPT ![k] = Idle(pc, t)]  BY <1>3 DEF Become, t
  <2>4. pc # "install"  BY <1>3
  <2> QED  BY <1>1, <1>3, <2>2, <2>3, <2>4, OneSeeder
<1>4. \/ UNCHANGED kf /\ (Become(k, "done") \/ Become(k, "gen"))
      \/ /\ s.gen = kf.gen /\ ~(s.offset < base.daemon) /\ pos <= seq /\ Readable(pos)
         /\ kf' = [kf EXCEPT !.model = Bytes(0, s.offset), !.grid = s.grid, !.at = pos]
         /\ Become(k, "done")
  BY DEF Install
<1>5. CASE UNCHANGED kf /\ (Become(k, "done") \/ Become(k, "gen"))  BY <1>3, <1>5
<1>6. CASE /\ s.gen = kf.gen /\ ~(s.offset < base.daemon) /\ pos <= seq /\ Readable(pos)
           /\ kf' = [kf EXCEPT !.model = Bytes(0, s.offset), !.grid = s.grid, !.at = pos]
           /\ Become(k, "done")
  <2>1. s.offset >= base.daemon  BY <1>2, <1>6
  <2>2. seeder' = [seeder EXCEPT ![k] = Idle("done", 0)]  BY <1>6 DEF Become
  <2> QED  BY <1>1, <1>6, <2>1, <2>2, InstallFits
<1> QED  BY <1>4, <1>5, <1>6

-----------------------------------------------------------------------------
(***************************************************************************)
(* The daemon and the link.                                                *)
(***************************************************************************)
LEMMA NoticeGapKeeps == ASSUME KeyframeInv, attach > 0, NoticeGap  PROVE KeyframeInv'
<1>1. /\ held' = held /\ seq' = seq /\ drawn' = drawn /\ dgrid' = dgrid /\ resizes' = resizes
      /\ inflight' = inflight /\ connUp' = connUp /\ attach' = attach
      /\ phase' = phase /\ since' = since /\ from' = from /\ fresh' = fresh
      /\ replayEnd' = replayEnd /\ ackGrid' = ackGrid /\ base' = base /\ kf' = kf /\ seeder' = seeder
      /\ holed' = [holed EXCEPT ![attach] = TRUE]
  BY DEF NoticeGap, daemon, server
<1>2. attach \in Attaches /\ holed \in [Attaches -> BOOLEAN]
  BY Constants DEF KeyframeInv, KeyframeTyped, Attaches
<1>3. holed' \in [Attaches -> BOOLEAN] /\ holed'[attach] /\ \A k \in Attaches : k # attach => holed'[k] = holed[k]
  BY <1>1, <1>2
<1>4. KeyframeTyped'  BY <1>1, <1>3 DEF KeyframeInv, KeyframeTyped, Dseq
<1>5. Attaching'
  <2>1. \A k \in Attaches : k > attach => ~holed'[k]
    <3>1. \A k \in Attaches : k > attach => k # attach  BY <1>2 DEF Attaches
    <3> QED  BY <1>3, <3>1 DEF KeyframeInv, Attaching
  <2> QED  BY <1>1, <2>1 DEF KeyframeInv, Attaching, Reached, HasModel
<1>6. Drawn'  BY <1>1 DEF KeyframeInv, Drawn, Dseq
<1>7. Tiles'  BY <1>1, <1>3 DEF KeyframeInv, Tiles, Front, Reached, Streaming, Dseq
<1>8. CopyFollows' /\ ModelFollows'
  BY <1>1, <1>3 DEF KeyframeInv, CopyFollows, ModelFollows, Sound, Reached, HasModel
<1>9. WindowHeld'  BY <1>1 DEF KeyframeInv, WindowHeld, HasModel, Readable
<1>10. GridsInOrder'  BY <1>1 DEF KeyframeInv, GridsInOrder, Leads, Streaming
<1>11. WindowOn'  BY <1>1 DEF KeyframeInv, WindowOn, HasModel
<1>12. SnapshotsFit'  BY <1>1 DEF KeyframeInv, SnapshotsFit, HeldOn, Leads, Streaming, Dseq
<1> QED  BY <1>4, <1>5, <1>6, <1>7, <1>8, <1>9, <1>10, <1>11, <1>12 DEF KeyframeInv

\* What the link does to the frames, when nothing but the link changes.
LEMMA OnlyLink ==
  ASSUME KeyframeInv, UNCHANGED <<held, seq, daemon, attach, holed, server, kf, seeder>>, phase = "attached",
         inflight' \in Seq(Frame), connUp' \in BOOLEAN, Drawn', Tiles',
         RunsOn(drawn, replayEnd, inflight'), Streaming' => RunsTo(inflight', dgrid),
         \A g, m : Leads(g, m) => /\ LeadOn(drawn, replayEnd, inflight', g, m)
                                  /\ Streaming' => StartsTo(inflight', g, dgrid)
  PROVE  KeyframeInv'
<1>1. /\ held' = held /\ seq' = seq /\ drawn' = drawn /\ dgrid' = dgrid /\ resizes' = resizes
      /\ attach' = attach /\ holed' = holed
      /\ phase' = phase /\ since' = since /\ from' = from /\ fresh' = fresh
      /\ replayEnd' = replayEnd /\ ackGrid' = ackGrid /\ base' = base /\ kf' = kf /\ seeder' = seeder
  BY DEF daemon, server
<1>2. KeyframeTyped'  BY <1>1 DEF KeyframeInv, KeyframeTyped, Dseq
<1>3. Attaching'  BY <1>1 DEF KeyframeInv, Attaching, HasModel
<1>4. CopyFollows' /\ ModelFollows'  BY <1>1 DEF KeyframeInv, CopyFollows, ModelFollows, Sound, Reached, HasModel
<1>5. WindowHeld'  BY <1>1 DEF KeyframeInv, WindowHeld, HasModel, Readable
<1>6. \A g, m : Leads(g, m) => Leads(g, m)'  BY <1>1 DEF Leads
<1>7. GridsInOrder'  BY <1>1, <1>6 DEF KeyframeInv, GridsInOrder, Leads
<1>8. WindowOn'  BY <1>1 DEF KeyframeInv, WindowOn, HasModel
<1>9. SnapshotsFit'
  <2>1. \A g, m : HeldOn(g, m) => HeldOn(g, m)'  BY <1>1 DEF HeldOn
  <2>2. Dseq' = Dseq  BY <1>1 DEF Dseq
  <2> QED  BY <1>1, <1>6, <2>1, <2>2 DEF KeyframeInv, SnapshotsFit, HeldOn, Leads
<1> QED  BY <1>2, <1>3, <1>4, <1>5, <1>7, <1>8, <1>9 DEF KeyframeInv

LEMMA ConnectionDropsKeeps == ASSUME KeyframeInv, NEW k \in 0 .. Len(inflight), ConnectionDrops(k)  PROVE KeyframeInv'
<1> DEFINE s == SubSeq(inflight, 1, k)
<1>1. /\ UNCHANGED <<held, seq, daemon, attach, holed, server, kf, seeder>> /\ phase = "attached"
      /\ inflight' = s /\ connUp' = FALSE /\ connUp' \in BOOLEAN
  BY DEF ConnectionDrops
<1>2. inflight \in Seq(Frame)  BY DEF KeyframeInv, KeyframeTyped
<1>3. s \in Seq(Frame) /\ Len(s) = k /\ \A i \in 1 .. k : s[i] = inflight[i] /\ i \in 1 .. Len(inflight)
  BY <1>2, Cut
<1>4. ~Streaming'  BY <1>1 DEF Streaming
<1>5. /\ \A g, m : LeadOn(drawn, replayEnd, inflight, g, m) => LeadOn(drawn, replayEnd, s, g, m)
      /\ RunsOn(drawn, replayEnd, inflight) => RunsOn(drawn, replayEnd, s)
  BY <1>2, GridsCut
<1>6. PICK p \in [0 .. Len(inflight) -> Int] : Laid(inflight, p, Reached) /\ (~holed[attach] => Whole(inflight, p))
  BY <1>1 DEF KeyframeInv, Tiles, Front
<1>7. \E q \in [0 .. Len(s) -> Int] : Laid(s, q, Reached) /\ (Whole(inflight, p) => Whole(s, q))
  <2>1. Reached \in Int  BY Counts DEF KeyframeInv
  <2> QED  BY <1>2, <1>6, <2>1, LaidCut
<1> HIDE DEF s
<1>8. Drawn'
  <2>1. held' = held /\ drawn' = drawn  BY <1>1 DEF daemon
  <2> QED  BY <1>1, <1>3, <2>1 DEF KeyframeInv, Drawn, Dseq
<1>9. Tiles'
  <2>1. /\ phase' = "attached" /\ Front' = Reached /\ holed' = holed /\ attach' = attach
    BY <1>1 DEF Front, Reached, server
  <2> QED  BY <1>1, <1>4, <1>6, <1>7, <2>1 DEF Tiles
<1>10. RunsOn(drawn, replayEnd, s)  BY <1>5 DEF KeyframeInv, GridsInOrder
<1>11. \A g, m : Leads(g, m) => LeadOn(drawn, replayEnd, s, g, m)  BY <1>5 DEF Leads
<1> QED  BY <1>1, <1>3, <1>4, <1>8, <1>9, <1>10, <1>11, OnlyLink

LEMMA PumpGapKeeps == ASSUME KeyframeInv, PumpGap  PROVE KeyframeInv'
<1> DEFINE s == Tail(inflight)
<1>1. /\ UNCHANGED <<held, seq, daemon, attach, holed, server, kf, seeder>> /\ phase = "attached"
      /\ inflight' = s /\ connUp' = connUp /\ inflight # << >> /\ Head(inflight).kind = "gap" /\ holed[attach]
  BY DEF PumpGap
<1>2. inflight \in Seq(Frame) /\ connUp \in BOOLEAN  BY DEF KeyframeInv, KeyframeTyped
<1>3. /\ s \in Seq(Frame) /\ Len(s) = Len(inflight) - 1
      /\ \A i \in 1 .. Len(inflight) - 1 : s[i] = inflight[i + 1] /\ i + 1 \in 1 .. Len(inflight)
  BY <1>1, <1>2, Popped
<1>4. Streaming' <=> Streaming  BY <1>1 DEF Streaming, server
<1>5. /\ \A g, m : LeadOn(drawn, replayEnd, inflight, g, m) => LeadOn(drawn, replayEnd, s, g, m)
      /\ \A g, h : StartsTo(inflight, g, h) => StartsTo(s, g, h)
      /\ RunsOn(drawn, replayEnd, inflight) => RunsOn(drawn, replayEnd, s)
      /\ \A h : RunsTo(inflight, h) => RunsTo(s, h)
  <2>1. Head(inflight).kind # "resize"  BY <1>1
  <2> QED  BY <1>1, <1>2, <2>1, GridsPop
<1>6. PICK p \in [0 .. Len(inflight) -> Int] :
        Laid(inflight, p, Reached) /\ (Streaming => Reaches(inflight, p, Dseq))
  BY <1>1 DEF KeyframeInv, Tiles, Front
<1>7. Reached \in Int /\ Length(Head(inflight)) = 0 /\ Reached + 0 = Reached
  <2>1. Reached \in Int  BY Counts DEF KeyframeInv
  <2> QED  BY <1>1, <2>1 DEF Length
<1>8. \E q \in [0 .. Len(s) -> Int] : Laid(s, q, Reached) /\ q[Len(s)] = p[Len(inflight)]
  <2>1. \E q \in [0 .. Len(s) -> Int] :
          Laid(s, q, Reached + Length(Head(inflight))) /\ q[Len(s)] = p[Len(inflight)]
    BY <1>1, <1>2, <1>6, <1>7, LaidPop
  <2> QED  BY <1>7, <2>1
<1> HIDE DEF s
<1>9. Drawn'
  <2>1. held' = held /\ drawn' = drawn  BY <1>1 DEF daemon
  <2>2. \A i \in 1 .. Len(s) : s[i] = inflight[i + 1] /\ i + 1 \in 1 .. Len(inflight)  BY <1>3
  <2> QED  BY <1>1, <2>1, <2>2 DEF KeyframeInv, Drawn, Dseq
<1>10. Tiles'
  <2>1. /\ phase' = "attached" /\ Front' = Reached /\ holed'[attach'] /\ Dseq' = Dseq
    BY <1>1 DEF Front, Reached, server, daemon, Dseq
  <2> QED  BY <1>1, <1>4, <1>6, <1>8, <2>1 DEF Tiles, Reaches
<1>11. RunsOn(drawn, replayEnd, s) /\ (Streaming => RunsTo(s, dgrid))  BY <1>5 DEF KeyframeInv, GridsInOrder
<1>12. \A g, m : Leads(g, m) => /\ LeadOn(drawn, replayEnd, s, g, m)
                                /\ Streaming => StartsTo(s, g, dgrid)
  BY <1>5 DEF Leads
<1> QED  BY <1>1, <1>2, <1>3, <1>4, <1>9, <1>10, <1>11, <1>12, OnlyLink

\* What the daemon draws: a frame joins the others, if anyone streams.
LEMMA DaemonSends ==
  ASSUME KeyframeInv, UNCHANGED <<held, seq, connUp, attach, holed, server, kf, seeder>>,
         NEW f \in Frame, Send(f), NEW n \in Nat,
         drawn' = drawn \o [i \in 1 .. n |-> dgrid], Dseq + n <= MaxBytes,
         dgrid' \in TermSizes, dgrid' = GridAfter(f, dgrid),
         f.kind = "data" => f.bytes = Bytes(Dseq, Dseq + n),
         f.kind = "resize" => n = 0
  PROVE  KeyframeInv'
<1>1. /\ held' = held /\ seq' = seq /\ connUp' = connUp /\ attach' = attach /\ holed' = holed
      /\ phase' = phase /\ since' = since /\ from' = from /\ fresh' = fresh
      /\ replayEnd' = replayEnd /\ ackGrid' = ackGrid /\ base' = base /\ kf' = kf /\ seeder' = seeder
  BY DEF server
<1>2. /\ inflight \in Seq(Frame) /\ drawn \in Seq(TermSizes) /\ dgrid \in TermSizes /\ Dseq \in Nat
      /\ Len(inflight) \in Nat /\ MaxBytes \in Nat
  BY Constants DEF KeyframeInv, KeyframeTyped, Dseq
<1> DEFINE more == [i \in 1 .. n |-> dgrid]
<1>3. /\ drawn' \in Seq(TermSizes) /\ Dseq' = Dseq + n
      /\ \A v \in 1 .. Dseq : drawn'[v] = drawn[v]
      /\ \A v \in Dseq + 1 .. Dseq + n : drawn'[v] = dgrid
  <2>1. more \in Seq(TermSizes) /\ Len(more) = n /\ \A i \in 1 .. n : more[i] = dgrid  BY <1>2
  <2> HIDE DEF more
  <2>2. drawn' = drawn \o more  BY DEF more
  <2>3. /\ drawn \o more \in Seq(TermSizes) /\ Len(drawn \o more) = Len(drawn) + n
        /\ \A i \in 1 .. Len(drawn) + n : (drawn \o more)[i] = IF i <= Len(drawn) THEN drawn[i] ELSE more[i - Len(drawn)]
    BY <1>2, <2>1, ConcatProperties
  <2>4. Len(drawn) = Dseq /\ Dseq' = Len(drawn')  BY DEF Dseq
  <2>5. \A v \in 1 .. Dseq : drawn'[v] = drawn[v]  BY <1>2, <2>2, <2>3, <2>4
  <2>6. ASSUME NEW v \in Dseq + 1 .. Dseq + n  PROVE drawn'[v] = dgrid
    <3>1. v \in 1 .. Dseq + n /\ ~(v <= Dseq) /\ v - Dseq \in 1 .. n  BY <1>2
    <3> QED  BY <2>1, <2>2, <2>3, <2>4, <3>1
  <2> QED  BY <2>2, <2>3, <2>4, <2>5, <2>6
<1>4. f.kind = "data" => /\ f.bytes \in Seq(Value) /\ Len(f.bytes) = n /\ EndsAt(f.bytes, Dseq + n)
                         /\ \A b \in 1 .. n : f.bytes[b] = Dseq + b /\ Dseq + b \in Dseq + 1 .. Dseq + n
  <2> SUFFICES ASSUME f.kind = "data"
               PROVE  /\ f.bytes \in Seq(Value) /\ Len(f.bytes) = n /\ EndsAt(f.bytes, Dseq + n)
                      /\ \A b \in 1 .. n : f.bytes[b] = Dseq + b /\ Dseq + b \in Dseq + 1 .. Dseq + n
    OBVIOUS
  <2> DEFINE h == Dseq + n
  <2>1. h \in Nat /\ Dseq <= h /\ h - Dseq = n /\ h <= MaxBytes  BY <1>2
  <2>2. f.bytes = Bytes(Dseq, h)  OBVIOUS
  <2> HIDE DEF h
  <2>3. /\ Len(Bytes(Dseq, h)) = h - Dseq /\ EndsAt(Bytes(Dseq, h), h) /\ Bytes(Dseq, h) \in Seq(Value)
        /\ \A i \in 1 .. h - Dseq : Bytes(Dseq, h)[i] = Dseq + i
    BY <1>2, <2>1, BytesEnd
  <2>4. /\ Len(f.bytes) = n /\ EndsAt(f.bytes, h) /\ f.bytes \in Seq(Value)
        /\ \A i \in 1 .. n : f.bytes[i] = Dseq + i
    BY <2>1, <2>2, <2>3
  <2>5. \A i \in 1 .. n : Dseq + i \in Dseq + 1 .. Dseq + n  BY <1>2
  <2> QED  BY <2>4, <2>5 DEF h
<1>5. inflight' = IF Streaming THEN Append(inflight, f) ELSE inflight  BY DEF Send
<1>6. Streaming' <=> Streaming  BY <1>1 DEF Streaming
<1>7. /\ Append(inflight, f) \in Seq(Frame) /\ Len(Append(inflight, f)) = Len(inflight) + 1
      /\ Append(inflight, f)[Len(inflight) + 1] = f
      /\ \A i \in 1 .. Len(inflight) : Append(inflight, f)[i] = inflight[i] /\ inflight[i] \in Frame
  BY <1>2, FramePushed
<1>8. ASSUME NEW i \in 1 .. Len(inflight), inflight[i].kind = "data", NEW b \in 1 .. Len(inflight[i].bytes)
      PROVE  inflight[i].bytes[b] \in 1 .. Dseq
  <2>1. inflight[i].bytes \in Seq(Value)  BY <1>7, <1>8, FrameKinds
  <2>2. inflight[i].bytes[b] \in Value  BY <2>1, ElementOfSeq
  <2>3. inflight[i].bytes[b] <= Dseq  BY <1>8 DEF KeyframeInv, Drawn
  <2> QED  BY <1>2, <2>2, <2>3 DEF Value
<1>9. ASSUME NEW i \in 1 .. Len(held)  PROVE held[i] \in 1 .. Dseq
  <2>1. held[i] \in Value  BY ElementOfSeq DEF KeyframeInv, KeyframeTyped
  <2>2. held[i] <= Dseq  BY DEF KeyframeInv, Drawn
  <2> QED  BY <1>2, <2>1, <2>2 DEF Value
<1>10. \A i \in 1 .. Len(held) : drawn'[held[i]] = drawn[held[i]]  BY <1>3, <1>9
<1>11. KeyframeTyped'
  <2>1. inflight' \in Seq(Frame)  BY <1>2, <1>5, <1>7
  <2>2. from' \in 0 .. Dseq' /\ replayEnd' \in 0 .. Dseq'
    <3>1. from \in 0 .. Dseq /\ replayEnd \in 0 .. Dseq  BY DEF KeyframeInv, KeyframeTyped
    <3>2. \A v \in 0 .. Dseq : v \in 0 .. Dseq + n  BY <1>2
    <3> QED  BY <1>1, <1>3, <3>1, <3>2
  <2> QED  BY <1>1, <1>3, <2>1, <2>2 DEF KeyframeInv, KeyframeTyped
<1>12. Attaching'
  <2>1. phase = "reattach" => inflight' = inflight  BY <1>5 DEF Streaming
  <2> QED  BY <1>1, <2>1 DEF KeyframeInv, Attaching, Reached, HasModel
<1>13. Drawn'
  <2>1. \A i \in 1 .. Len(held) : held[i] <= Dseq + n  BY <1>2, <1>9
  <2>2. \A i \in 1 .. Len(inflight) : inflight[i].kind = "data" =>
          \A b \in 1 .. Len(inflight[i].bytes) : inflight[i].bytes[b] <= Dseq + n
    BY <1>2, <1>8
  <2>3. f.kind = "data" => \A b \in 1 .. Len(f.bytes) : f.bytes[b] <= Dseq + n
    <3>1. \A b \in 1 .. n : Dseq + b <= Dseq + n  BY <1>2
    <3> QED  BY <1>4, <3>1
  <2>4. ASSUME NEW i \in 1 .. Len(inflight'), inflight'[i].kind = "data"
        PROVE  \A b \in 1 .. Len(inflight'[i].bytes) : inflight'[i].bytes[b] <= Dseq + n
    <3>1. \/ i \in 1 .. Len(inflight) /\ inflight'[i] = inflight[i]
          \/ inflight'[i] = f
      <4>1. CASE Streaming
        <5>1. i \in 1 .. Len(inflight) \/ i = Len(inflight) + 1  BY <1>2, <1>5, <1>7, <4>1
        <5> QED  BY <1>5, <1>7, <4>1, <5>1
      <4>2. CASE ~Streaming  BY <1>5, <4>2
      <4> QED  BY <4>1, <4>2
    <3> QED  BY <2>2, <2>3, <2>4, <3>1
  <2> QED  BY <1>1, <1>3, <2>1, <2>4 DEF Drawn
<1>14. Tiles'
  <2> SUFFICES ASSUME phase # "reattach"
               PROVE  \E p \in [0 .. Len(inflight') -> Int] :
                        /\ Laid(inflight', p, Front)
                        /\ ~holed[attach] => Whole(inflight', p)
                        /\ Streaming => Reaches(inflight', p, Dseq + n)
                        /\ Streaming /\ ~holed[attach] => Joins(inflight', p, Dseq + n)
    BY <1>1, <1>3, <1>6 DEF Tiles, Front, Reached
  <2>1. PICK p \in [0 .. Len(inflight) -> Int] :
          /\ Laid(inflight, p, Front)
          /\ ~holed[attach] => Whole(inflight, p)
          /\ Streaming => Reaches(inflight, p, Dseq)
          /\ Streaming /\ ~holed[attach] => Joins(inflight, p, Dseq)
    BY DEF KeyframeInv, Tiles
  <2>2. CASE ~Streaming  BY <1>5, <2>1, <2>2
  <2>3. CASE Streaming
    <3> DEFINE l == Len(inflight)
               t == Append(inflight, f)
    <3>1. p[l] \in Int /\ p[l] <= Dseq /\ Front \in Int /\ l \in Nat
      <4>1. l \in 0 .. l  BY <1>2
      <4>2. p[l] \in Int  BY <2>1, <4>1
      <4>3. p[l] <= Dseq  BY <2>1, <2>3 DEF Reaches
      <4>4. Front \in Int  BY Counts DEF KeyframeInv
      <4> QED  BY <1>2, <4>2, <4>3, <4>4
    <3>2. f.kind = "data" => NoEarlier(f.bytes, p[l] + Len(f.bytes))
      <4> SUFFICES ASSUME f.kind = "data"  PROVE NoEarlier(f.bytes, p[l] + Len(f.bytes))  OBVIOUS
      <4> DEFINE x == p[l]
      <4>1. x \in Int /\ x <= Dseq  BY <3>1
      <4> HIDE DEF x
      <4>2. \A b \in 1 .. n : Dseq + b >= (x + n) - (n - b)  BY <1>2, <4>1
      <4>3. Len(f.bytes) = n /\ \A b \in 1 .. n : f.bytes[b] >= (x + n) - (n - b)  BY <1>4, <4>2
      <4>4. NoEarlier(f.bytes, x + Len(f.bytes))  BY <4>3 DEF NoEarlier
      <4> QED  BY <4>4 DEF x
    <3>3. PICK q \in [0 .. Len(t) -> Int] :
            /\ Laid(t, q, Front)
            /\ q[Len(t)] = p[l] + Length(f)
            /\ Whole(inflight, p) /\ (f.kind = "data" /\ NoGap(inflight, l) =>
                                        EndsAt(f.bytes, p[l] + Len(f.bytes)))
                 => Whole(t, q)
      BY <1>2, <2>1, <3>1, <3>2, LaidPush
    <3>4. Length(f) \in Nat /\ Length(f) <= n /\ (f.kind # "gap" => Length(f) = n)
      BY <1>4, FrameKinds DEF Length
    <3>5. Reaches(t, q, Dseq + n)
      <4>1. p[l] + Length(f) <= Dseq + n  BY <1>2, <3>1, <3>4
      <4> QED  BY <3>3, <4>1 DEF Reaches
    <3>6. ASSUME ~holed[attach]  PROVE Whole(t, q) /\ Joins(t, q, Dseq + n)
      <4>1. Whole(inflight, p) /\ (NoGap(inflight, l) => p[l] = Dseq)  BY <2>1, <2>3, <3>6 DEF Joins
      <4>2. Whole(t, q)  BY <1>4, <3>3, <4>1
      <4>3. ASSUME NoGap(t, Len(t))  PROVE q[Len(t)] = Dseq + n
        <5>1. f.kind # "gap"
          <6>1. l + 1 \in 1 .. Len(t) /\ t[l + 1] = f  BY <1>7, <3>1
          <6> QED  BY <4>3, <6>1 DEF NoGap
        <5>2. NoGap(inflight, l)
          <6>1. \A i \in 1 .. l : i \in 1 .. Len(t) /\ t[i] = inflight[i]  BY <1>7, <3>1
          <6> QED  BY <4>3, <6>1 DEF NoGap
        <5> QED  BY <3>3, <3>4, <4>1, <5>1, <5>2
      <4> QED  BY <4>2, <4>3 DEF Joins
    <3>7. inflight' = t  BY <1>5, <2>3
    <3> HIDE DEF t, l
    <3> QED  BY <2>3, <3>3, <3>5, <3>6, <3>7
  <2> QED  BY <2>2, <2>3
<1>15. CopyFollows' /\ ModelFollows'  BY <1>1 DEF KeyframeInv, CopyFollows, ModelFollows, Sound, Reached, HasModel
<1>16. WindowHeld'  BY <1>1 DEF KeyframeInv, WindowHeld, HasModel, Readable
<1>17. /\ \A g, m : LeadOn(drawn, replayEnd, inflight, g, m) => LeadOn(drawn', replayEnd, inflight, g, m)
       /\ RunsOn(drawn, replayEnd, inflight) => RunsOn(drawn', replayEnd, inflight)
  <2>1. SameGrids(inflight, drawn, drawn')  BY <1>3, <1>8 DEF SameGrids
  <2> QED  BY <2>1, GridsSame
<1>18. /\ \A g, m : LeadOn(drawn', replayEnd, inflight, g, m) /\ StartsTo(inflight, g, dgrid) =>
            /\ LeadOn(drawn', replayEnd, Append(inflight, f), g, m)
            /\ StartsTo(Append(inflight, f), g, dgrid')
       /\ RunsOn(drawn', replayEnd, inflight) /\ RunsTo(inflight, dgrid) =>
            /\ RunsOn(drawn', replayEnd, Append(inflight, f))
            /\ RunsTo(Append(inflight, f), dgrid')
  <2>1. f.kind = "data" => \A b \in 1 .. Len(f.bytes) : On(drawn', replayEnd, f.bytes[b], dgrid)
    BY <1>3, <1>4 DEF On
  <2> QED  BY <1>2, <2>1, GridsPush
<1>19. \A g, m : Leads(g, m) => Leads(g, m)'
  BY <1>1, <1>5, <1>6, <1>17, <1>18 DEF Leads
<1>20. GridsInOrder'
  <2>1. RunsOn(drawn', replayEnd, inflight') /\ (Streaming => RunsTo(inflight', dgrid'))
    BY <1>5, <1>17, <1>18 DEF KeyframeInv, GridsInOrder
  <2>2. \A g : Leads(g, 0) => /\ LeadOn(drawn', replayEnd', inflight', g, 0)
                              /\ Streaming' => StartsTo(inflight', g, dgrid')
    BY <1>19 DEF Leads
  <2>3. /\ phase = "attached" => Leads(kf.grid, 0)
        /\ phase = "attaching" => Leads(ackGrid, 0)
    BY DEF KeyframeInv, GridsInOrder
  <2>4. phase' = "attached" => Leads(kf.grid, 0)'  BY <1>1, <2>2, <2>3 DEF Leads
  <2>5. phase' = "attaching" => Leads(ackGrid, 0)'  BY <1>1, <2>2, <2>3 DEF Leads
  <2> QED  BY <1>1, <1>6, <2>1, <2>4, <2>5 DEF GridsInOrder
<1>21. WindowOn'  BY <1>1, <1>10 DEF KeyframeInv, WindowOn, HasModel, On
<1>22. SnapshotsFit'
  <2>1. \A g, m : HeldOn(g, m) => HeldOn(g, m)'  BY <1>1, <1>10 DEF HeldOn, On
  <2>2. ASSUME NEW k \in Attaches, seeder[k].pc = "install"  PROVE seeder[k].offset <= Dseq + n
    <3>1. seeder[k] \in Seeder  BY DEF KeyframeInv, KeyframeTyped
    <3>2. seeder[k].offset \in Nat /\ seeder[k].offset <= Dseq
      BY <1>2, <2>2, <3>1, SeederParts DEF KeyframeInv, SnapshotsFit
    <3> QED  BY <1>2, <3>2
  <2> QED  BY <1>1, <1>3, <1>19, <2>1, <2>2 DEF KeyframeInv, SnapshotsFit, HeldOn, Leads
<1> QED  BY <1>11, <1>12, <1>13, <1>14, <1>15, <1>16, <1>20, <1>21, <1>22 DEF KeyframeInv

LEMMA OutputKeeps ==
  ASSUME KeyframeInv, NEW n \in 1 .. MaxWrite, NEW dropped \in BOOLEAN, Output(n, dropped)  PROVE KeyframeInv'
<1> DEFINE f == IF dropped THEN GapFrame ELSE DataFrame(Dseq, Dseq + n)
<1>1. /\ UNCHANGED <<held, seq, connUp, attach, holed, server, kf, seeder>> /\ Send(f)
      /\ drawn' = drawn \o [i \in 1 .. n |-> dgrid] /\ Dseq + n <= MaxBytes
      /\ dgrid' = dgrid /\ dgrid' \in TermSizes
  BY DEF Output, KeyframeInv, KeyframeTyped
<1>2. n \in Nat /\ Dseq \in Nat /\ Dseq + n \in Nat /\ Dseq <= Dseq + n
  <2>1. n \in Nat  BY KeyframeAssumption
  <2>2. Dseq \in Nat  BY Counts DEF KeyframeInv
  <2> QED  BY <2>1, <2>2
<1>3. f \in Frame /\ f.kind # "resize" /\ (f.kind = "data" => f.bytes = Bytes(Dseq, Dseq + n))
  <2>1. GapFrame \in Frame /\ GapFrame.kind = "gap"  BY FramesMade
  <2>2. /\ DataFrame(Dseq, Dseq + n) \in Frame /\ DataFrame(Dseq, Dseq + n).kind = "data"
        /\ DataFrame(Dseq, Dseq + n).bytes = Bytes(Dseq, Dseq + n)
    BY <1>1, <1>2, FramesMade
  <2> QED  BY <2>1, <2>2
<1>4. dgrid' = GridAfter(f, dgrid)  BY <1>1, <1>3 DEF GridAfter
<1> HIDE DEF f
<1> QED  BY <1>1, <1>2, <1>3, <1>4, DaemonSends

LEMMA DaemonResizeKeeps == ASSUME KeyframeInv, NEW g \in TermSizes, DaemonResize(g)  PROVE KeyframeInv'
<1> DEFINE f == ResizeFrame(g)
<1>1. /\ UNCHANGED <<held, seq, connUp, attach, holed, server, kf, seeder>> /\ Send(f)
      /\ drawn' = drawn /\ dgrid' = g
  BY DEF DaemonResize
<1>2. /\ drawn \in Seq(TermSizes) /\ Dseq \in Nat /\ Dseq <= MaxBytes /\ 0 \in Nat
  BY Counts DEF KeyframeInv, KeyframeTyped
<1>3. drawn' = drawn \o [i \in 1 .. 0 |-> dgrid] /\ Dseq + 0 <= MaxBytes
  <2>1. [i \in 1 .. 0 |-> dgrid] = << >>  OBVIOUS
  <2>2. drawn \o << >> = drawn  BY <1>2, ConcatEmptySeq
  <2> QED  BY <1>1, <1>2, <2>1, <2>2
<1>4. f \in Frame /\ f.kind = "resize" /\ f.grid = g  BY FramesMade
<1>5. dgrid' = GridAfter(f, dgrid) /\ dgrid' \in TermSizes  BY <1>1, <1>4 DEF GridAfter
<1>6. (f.kind = "data" => f.bytes = Bytes(Dseq, Dseq + 0)) /\ (f.kind = "resize" => 0 = 0)  BY <1>4
<1> HIDE DEF f
<1> QED  BY <1>1, <1>2, <1>3, <1>4, <1>5, <1>6, DaemonSends

-----------------------------------------------------------------------------
(***************************************************************************)
(* The pump.                                                               *)
(***************************************************************************)
\* The first frame leaves the rest in order.
LEMMA PumpsInOrder ==
  ASSUME KeyframeInv, phase = "attached", inflight # << >>, Head(inflight).kind # "gap",
         UNCHANGED <<daemon, connUp, attach, holed, server>>, inflight' = Tail(inflight),
         seq' = seq + Length(Head(inflight)),
         \A i \in 1 .. Len(held') : held'[i] <= Dseq
  PROVE  Tiles' /\ Drawn' /\ inflight' \in Seq(Frame) /\ (Streaming' <=> Streaming) /\ Reached' = Reached + Length(Head(inflight))
<1> DEFINE s == Tail(inflight)
           h == Head(inflight)
<1>1. /\ drawn' = drawn /\ connUp' = connUp /\ attach' = attach /\ holed' = holed
      /\ phase' = "attached" /\ from' = from /\ base' = base /\ inflight' = s
  BY DEF daemon, server
<1>2. inflight \in Seq(Frame)  BY DEF KeyframeInv, KeyframeTyped
<1>3. /\ s \in Seq(Frame) /\ Len(s) = Len(inflight) - 1 /\ h \in Frame
      /\ \A i \in 1 .. Len(inflight) - 1 : s[i] = inflight[i + 1] /\ i + 1 \in 1 .. Len(inflight)
  BY <1>2, Popped
<1>4. Length(h) \in Nat /\ Reached \in Int  BY <1>3, FrameKinds, Counts DEF KeyframeInv
<1>5. Reached' = Reached + Length(h)
  <2>1. /\ seq \in Int /\ base.daemon \in Int /\ base.ring \in Int  BY Counts DEF KeyframeInv
  <2> DEFINE x == base.daemon
             y == base.ring
             l == Length(h)
  <2>2. x \in Int /\ y \in Int /\ l \in Int /\ seq' = seq + l /\ Reached = x + (seq - y) /\ Reached' = x + (seq' - y)
    BY <1>1, <1>4, <2>1 DEF Reached
  <2> HIDE DEF x, y, l
  <2>3. Reached' = Reached + l  BY <2>1, <2>2
  <2> QED  BY <2>3 DEF l
<1>6. Streaming' <=> Streaming  BY <1>1 DEF Streaming
<1>7. PICK p \in [0 .. Len(inflight) -> Int] :
        /\ Laid(inflight, p, Reached)
        /\ ~holed[attach] => Whole(inflight, p)
        /\ Streaming => Reaches(inflight, p, Dseq)
        /\ Streaming /\ ~holed[attach] => Joins(inflight, p, Dseq)
  BY DEF KeyframeInv, Tiles, Front
<1>8. PICK q \in [0 .. Len(s) -> Int] :
        /\ Laid(s, q, Reached + Length(h))
        /\ q[Len(s)] = p[Len(inflight)]
        /\ Head(inflight).kind # "gap" /\ Whole(inflight, p) => Whole(s, q)
  BY <1>2, <1>4, <1>7, LaidPop
<1>9. NoGap(s, Len(s)) => NoGap(inflight, Len(inflight))  BY <1>2, GapPop
<1>10. Front' = Reached + Length(h)  BY <1>1, <1>5 DEF Front
<1>11. Dseq' = Dseq  BY <1>1 DEF Dseq
<1> HIDE DEF s, h
<1>12. Tiles'
  <2>1. Streaming => Reaches(s, q, Dseq)  BY <1>7, <1>8 DEF Reaches
  <2>2. Streaming /\ ~holed[attach] => Joins(s, q, Dseq)  BY <1>7, <1>8, <1>9 DEF Joins
  <2> QED  BY <1>1, <1>6, <1>7, <1>8, <1>10, <1>11, <2>1, <2>2 DEF Tiles
<1>13. Drawn'
  <2>1. \A i \in 1 .. Len(s) : s[i] = inflight[i + 1] /\ i + 1 \in 1 .. Len(inflight)  BY <1>3
  <2> QED  BY <1>1, <1>11, <2>1 DEF KeyframeInv, Drawn
<1> QED  BY <1>1, <1>3, <1>5, <1>6, <1>12, <1>13 DEF h

LEMMA PumpResizeKeeps == ASSUME KeyframeInv, PumpResize  PROVE KeyframeInv'
<1> DEFINE h == Head(inflight)
           s == Tail(inflight)
<1>1. /\ phase = "attached" /\ inflight # << >> /\ h.kind = "resize" /\ kf' = ResizeKf(kf, h.grid)
      /\ inflight' = s /\ UNCHANGED <<daemon, connUp, attach, holed, server>>
      /\ held' = held /\ seq' = seq /\ drawn' = drawn /\ dgrid' = dgrid /\ resizes' = resizes
      /\ connUp' = connUp /\ attach' = attach /\ holed' = holed
      /\ phase' = phase /\ since' = since /\ from' = from /\ fresh' = fresh
      /\ replayEnd' = replayEnd /\ ackGrid' = ackGrid /\ base' = base /\ seeder' = seeder
  BY DEF PumpResize, daemon, server
<1>2. inflight \in Seq(Frame) /\ h \in Frame /\ h.grid \in TermSizes /\ Length(h) = 0
  <2>1. inflight \in Seq(Frame)  BY DEF KeyframeInv, KeyframeTyped
  <2>2. h \in Frame  BY <1>1, <2>1, Popped
  <2> QED  BY <1>1, <2>1, <2>2, FrameKinds DEF Length
<1>3. HasModel /\ KeyframeTyped /\ WindowHeld /\ seq \in Nat /\ Reached \in Int
  BY <1>1, Counts DEF KeyframeInv, Attaching
<1>4. /\ kf' \in Model /\ kf'.model # NoModel /\ kf'.grid = h.grid /\ kf'.gen = kf.gen + 1 /\ kf'.at = seq
      /\ \A e \in Int : EndsAt(held, e) /\ EndsAt(kf.model, e - (seq - kf.at)) => EndsAt(kf'.model, e)
  BY <1>1, <1>2, <1>3, ResizeFollows
<1>5. Tiles' /\ Drawn' /\ inflight' \in Seq(Frame) /\ (Streaming' <=> Streaming) /\ Reached' = Reached
  <2>1. seq' = seq + Length(h) /\ h.kind # "gap"  BY <1>1, <1>2, <1>3
  <2>2. \A i \in 1 .. Len(held') : held'[i] <= Dseq  BY <1>1 DEF KeyframeInv, Drawn
  <2>3. Tiles' /\ Drawn' /\ inflight' \in Seq(Frame) /\ (Streaming' <=> Streaming) /\ Reached' = Reached + Length(h)
    BY <1>1, <2>1, <2>2, PumpsInOrder
  <2> QED  BY <1>2, <1>3, <2>3
<1>6. HasModel'  BY <1>4 DEF HasModel
<1>7. KeyframeTyped'
  <2>1. kf'.at <= seq'  BY <1>1, <1>3, <1>4
  <2> QED  BY <1>1, <1>4, <1>5, <2>1 DEF KeyframeInv, KeyframeTyped, Dseq
<1>8. Attaching'  BY <1>1, <1>6 DEF KeyframeInv, Attaching
<1>9. CopyFollows'  BY <1>1, <1>5 DEF KeyframeInv, CopyFollows, Sound
<1>10. ModelFollows'
  <2>1. Sound' => EndsAt(held, Reached) /\ EndsAt(kf.model, Reached - (seq - kf.at))
    BY <1>1, <1>3 DEF KeyframeInv, CopyFollows, ModelFollows, Sound
  <2>2. Sound' => EndsAt(kf'.model, Reached)  BY <1>3, <1>4, <2>1
  <2>3. (Reached - (seq - kf.at))' = Reached  BY <1>1, <1>3, <1>4, <1>5
  <2> QED  BY <2>2, <2>3 DEF ModelFollows
<1>11. WindowHeld'
  <2>1. seq >= seq - Len(held) /\ seq <= seq  BY Counts DEF KeyframeInv
  <2> QED  BY <1>1, <1>4, <2>1 DEF WindowHeld, Readable
<1>12. /\ \A m : LeadOn(drawn, replayEnd, s, h.grid, m)
       /\ Streaming => StartsTo(s, h.grid, dgrid) /\ RunsTo(s, dgrid)
       /\ RunsOn(drawn, replayEnd, s)
  <2>1. RunsOn(drawn, replayEnd, inflight) /\ (Streaming => RunsTo(inflight, dgrid))
    BY DEF KeyframeInv, GridsInOrder
  <2> QED  BY <1>1, <1>2, <2>1, GridsPop
<1>13. GridsInOrder'  BY <1>1, <1>4, <1>5, <1>12 DEF GridsInOrder, Leads
<1>14. WindowOn'
  <2>1. \A i \in 1 .. Len(held) : ~(i > Len(held) - (seq - seq))  BY Counts DEF KeyframeInv
  <2> QED  BY <1>1, <1>4, <2>1 DEF WindowOn
<1>15. SnapshotsFit'
  <2>1. ASSUME NEW k \in Attaches, seeder[k].pc \in {"snap", "install"}
        PROVE  seeder[k].gen <= kf.gen + 1 /\ seeder[k].gen # kf.gen + 1
    <3>1. seeder[k].gen \in Nat /\ kf.gen \in Nat  BY SeederParts, ModelTypes DEF KeyframeInv, KeyframeTyped
    <3>2. seeder[k].gen <= kf.gen  BY <2>1 DEF KeyframeInv, SnapshotsFit
    <3> QED  BY <3>1, <3>2
  <2>2. Dseq' = Dseq  BY <1>1 DEF Dseq
  <2> QED  BY <1>1, <1>4, <2>1, <2>2 DEF KeyframeInv, SnapshotsFit
<1> QED  BY <1>5, <1>7, <1>8, <1>9, <1>10, <1>11, <1>13, <1>14, <1>15 DEF KeyframeInv

LEMMA SeederStarts ==
  ASSUME KeyframeInv, phase # "reattach",
         UNCHANGED seeder \/ seeder' = [seeder EXCEPT ![attach].pc = "gen"]
  PROVE  /\ seeder' \in [Attaches -> Seeder]
         /\ \A k \in Attaches : seeder'[k].pc \in {"snap", "install"} => seeder'[k] = seeder[k]
<1>1. seeder \in [Attaches -> Seeder]  BY DEF KeyframeInv, KeyframeTyped
<1>2. attach \in Attaches  BY Constants DEF KeyframeInv, KeyframeTyped, Attaching, Attaches
<1>3. CASE UNCHANGED seeder  BY <1>1, <1>3
<1>4. CASE seeder' = [seeder EXCEPT ![attach].pc = "gen"]
  <2> DEFINE s == [seeder[attach] EXCEPT !.pc = "gen"]
  <2>1. seeder[attach] \in Seeder  BY <1>1, <1>2
  <2>2. s \in Seeder /\ s.pc = "gen"  BY <2>1 DEF Seeder, Asking
  <2>3. seeder' = [seeder EXCEPT ![attach] = s]  BY <1>4
  <2> HIDE DEF s
  <2>4. \A k \in Attaches : seeder'[k] = IF k = attach THEN s ELSE seeder[k]  BY <1>1, <2>3
  <2>5. seeder' \in [Attaches -> Seeder]  BY <1>1, <2>2, <2>3
  <2> QED  BY <2>2, <2>4, <2>5
<1> QED  BY <1>3, <1>4

LEMMA PumpDataKeeps == ASSUME KeyframeInv, PumpData  PROVE KeyframeInv'
<1> DEFINE h == Head(inflight)
           s == Tail(inflight)
           data == h.bytes
<1>1. /\ phase = "attached" /\ inflight # << >> /\ h.kind = "data" /\ kf' \in Admit(kf, data)
      /\ held' = LastBytes(held \o data) /\ seq' = seq + Len(data)
      /\ inflight' = s /\ UNCHANGED <<daemon, connUp, attach, holed, server>> /\ SpawnSeeder
      /\ drawn' = drawn /\ dgrid' = dgrid /\ resizes' = resizes
      /\ connUp' = connUp /\ attach' = attach /\ holed' = holed
      /\ phase' = phase /\ since' = since /\ from' = from /\ fresh' = fresh
      /\ replayEnd' = replayEnd /\ ackGrid' = ackGrid /\ base' = base
  BY DEF PumpData, WriteBytes, daemon, server
<1>2. inflight \in Seq(Frame) /\ h \in Frame /\ h = inflight[1] /\ Len(inflight) \in Nat /\ Len(inflight) >= 1
  <2>1. inflight \in Seq(Frame)  BY DEF KeyframeInv, KeyframeTyped
  <2> QED  BY <1>1, <2>1, Popped
<1>3. data \in Seq(Value) /\ Length(h) = Len(data) /\ Len(data) \in Nat
  BY <1>1, <1>2, FrameKinds
<1>4. /\ HasModel /\ KeyframeTyped /\ WindowHeld /\ seq \in Nat /\ Reached \in Nat /\ held \in Seq(Value)
      /\ Len(held) <= Cap /\ Len(held) \in Nat /\ kf.at \in Nat /\ kf.at <= seq
  BY <1>1, Counts DEF KeyframeInv, Attaching, KeyframeTyped
<1>5. /\ kf' \in Model /\ kf'.model # NoModel /\ kf'.grid = kf.grid /\ kf'.gen = kf.gen
      /\ kf'.at >= kf.at /\ kf'.at <= seq + Len(data) /\ seq + Len(data) - kf'.at <= Window
      /\ \A e \in Int :
           EndsAt(held, e) /\ EndsAt(data, e + Len(data)) /\ EndsAt(kf.model, e - (seq - kf.at))
             => EndsAt(kf'.model, e - (seq - kf'.at))
  BY <1>1, <1>3, <1>4, AdmitFollows DEF HasModel
<1>6. /\ held' \in Seq(Value) /\ Len(held') <= Cap /\ Len(held') <= Len(held) + Len(data)
      /\ Len(held') = Len(held) + Len(data) \/ Len(held') = Cap
      /\ \A i \in 1 .. Len(held') :
           /\ Place(held, data, held', i) \in 1 .. Len(held) + Len(data)
           /\ Place(held, data, held', i) <= Len(held) =>
                /\ Place(held, data, held', i) \in 1 .. Len(held)
                /\ held'[i] = held[Place(held, data, held', i)]
           /\ Place(held, data, held', i) > Len(held) =>
                /\ Place(held, data, held', i) - Len(held) \in 1 .. Len(data)
                /\ held'[i] = data[Place(held, data, held', i) - Len(held)]
  <2>1. held' = LastBytes(held \o data)  BY <1>1
  <2> HIDE DEF data
  <2> QED  BY <1>3, <1>4, <2>1, Written
<1>7. /\ \A b \in 1 .. Len(data) : data[b] <= Dseq /\ data[b] \in Value
      /\ 1 \in 1 .. Len(inflight) /\ inflight[1].kind = "data" /\ inflight[1].bytes = data
      /\ NoResize(inflight, 1, 1)
  <2>1. 1 \in 1 .. Len(inflight) /\ inflight[1].kind = "data" /\ inflight[1].bytes = data  BY <1>1, <1>2
  <2>2. \A n \in 1 .. 1 : n = 1  OBVIOUS
  <2>3. NoResize(inflight, 1, 1)  BY <2>1, <2>2 DEF NoResize
  <2>4. \A b \in 1 .. Len(data) : data[b] <= Dseq  BY <2>1 DEF KeyframeInv, Drawn
  <2> QED  BY <1>3, <2>1, <2>3, <2>4, ElementOfSeq
\* Each byte then held was held, or arrives.
<1>8. ASSUME NEW i \in 1 .. Len(held')
      PROVE  \/ \E j \in 1 .. Len(held) : /\ j = Len(held) + Len(data) - Len(held') + i
                                          /\ held'[i] = held[j]
             \/ \E b \in 1 .. Len(data) : held'[i] = data[b]
  <2> DEFINE j == Place(held, data, held', i)
  <2>1. /\ j \in 1 .. Len(held) + Len(data)
        /\ j <= Len(held) => j \in 1 .. Len(held) /\ held'[i] = held[j]
        /\ j > Len(held) => j - Len(held) \in 1 .. Len(data) /\ held'[i] = data[j - Len(held)]
    BY <1>6
  <2>2. j = Len(held) + Len(data) - Len(held') + i  BY DEF Place
  <2> HIDE DEF j
  <2>3. j <= Len(held) \/ j > Len(held)  BY <1>3, <1>4, <2>1
  <2> QED  BY <2>1, <2>2, <2>3
<1>9. Tiles' /\ Drawn' /\ inflight' \in Seq(Frame) /\ (Streaming' <=> Streaming) /\ Reached' = Reached + Len(data)
  <2>1. \A i \in 1 .. Len(held') : held'[i] <= Dseq  BY <1>7, <1>8 DEF KeyframeInv, Drawn
  <2>2. seq' = seq + Length(h) /\ h.kind # "gap"  BY <1>1, <1>3
  <2> HIDE DEF data
  <2>3. Tiles' /\ Drawn' /\ inflight' \in Seq(Frame) /\ (Streaming' <=> Streaming) /\ Reached' = Reached + Length(h)
    BY <1>1, <2>1, <2>2, PumpsInOrder
  <2> QED  BY <1>3, <2>3
<1>10. NoEarlier(data, Reached + Len(data)) /\ (~holed[attach] => EndsAt(data, Reached + Len(data)))
  <2>1. PICK p \in [0 .. Len(inflight) -> Int] :
          Laid(inflight, p, Reached) /\ (~holed[attach] => Whole(inflight, p))
    BY <1>1 DEF KeyframeInv, Tiles, Front
  <2>2. p[1] = Reached + Length(h)
    <3>1. Reached \in Int  BY <1>4
    <3> QED  BY <1>1, <1>2, <2>1, <3>1, LaidPop
  <2>3. NoEarlier(data, p[1])  BY <1>7, <2>1 DEF Laid
  <2>4. NoGap(inflight, 1)
    <3>1. \A n \in 1 .. 1 : n = 1  OBVIOUS
    <3> QED  BY <1>7, <3>1 DEF NoGap
  <2>5. ~holed[attach] => EndsAt(data, p[1])  BY <1>7, <2>1, <2>4 DEF Whole
  <2> QED  BY <1>3, <2>2, <2>3, <2>5
<1>11. seeder' \in [Attaches -> Seeder]
       /\ \A k \in Attaches : seeder'[k].pc \in {"snap", "install"} => seeder'[k] = seeder[k]
  BY <1>1, SeederStarts DEF SpawnSeeder
<1>12. HasModel'  BY <1>5 DEF HasModel
<1> HIDE DEF data, h, s
<1>13. KeyframeTyped'
  <2>1. seq' \in Nat /\ base'.ring <= seq'
    <3>1. base.ring \in Nat /\ base.ring <= seq  BY Counts DEF KeyframeInv
    <3> QED  BY <1>1, <1>3, <1>4, <3>1
  <2>2. kf'.at <= seq'  BY <1>1, <1>5
  <2>3. \A k \in Attaches : seeder'[k].pc = "install" => seeder'[k].grid \in TermSizes
    BY <1>11 DEF KeyframeInv, KeyframeTyped
  <2> QED  BY <1>1, <1>5, <1>6, <1>9, <1>11, <2>1, <2>2, <2>3 DEF KeyframeInv, KeyframeTyped, Dseq
<1>14. Attaching'  BY <1>1, <1>12 DEF KeyframeInv, Attaching
<1>15. CopyFollows'
  <2> DEFINE e2 == Reached + Len(data)
  <2>1. Reached \in Int /\ e2 \in Int /\ e2 = Reached + Len(data)  BY <1>3, <1>4
  <2>2. NoEarlier(data, e2) /\ (~holed[attach] => EndsAt(data, e2))  BY <1>10
  <2> HIDE DEF e2
  <2>3. /\ EndsAt(held, Reached) /\ EndsAt(data, e2) => EndsAt(held', e2)
        /\ NoEarlier(held, Reached) /\ NoEarlier(data, e2) => NoEarlier(held', e2)
    BY <1>1, <1>3, <1>4, <2>1, WrittenEnds
  <2>4. NoEarlier(held, Reached) /\ (~holed[attach] => EndsAt(held, Reached))
    BY DEF KeyframeInv, CopyFollows, Sound
  <2>5. Reached' = e2  BY <1>9, <2>1
  <2> QED  BY <1>1, <2>2, <2>3, <2>4, <2>5 DEF CopyFollows, Sound
<1>16. ModelFollows'
  <2>1. Sound' => /\ EndsAt(held, Reached) /\ EndsAt(data, Reached + Len(data))
                  /\ EndsAt(kf.model, Reached - (seq - kf.at))
    BY <1>1, <1>4, <1>10 DEF KeyframeInv, CopyFollows, ModelFollows, Sound
  <2>2. Sound' => EndsAt(kf'.model, Reached - (seq - kf'.at))  BY <1>4, <1>5, <2>1
  <2>3. Reached' - (seq' - kf'.at) = Reached - (seq - kf'.at)
    <3> DEFINE x == kf'.at
    <3>1. x \in Nat /\ Reached' = Reached + Len(data) /\ seq' = seq + Len(data)  BY <1>1, <1>5, <1>9, ModelTypes
    <3> HIDE DEF x
    <3>2. Reached' - (seq' - x) = Reached - (seq - x)  BY <1>3, <1>4, <3>1
    <3> QED  BY <3>2 DEF x
  <2> QED  BY <2>2, <2>3 DEF ModelFollows
<1>17. WindowHeld'
  <2> DEFINE x == kf'.at
  <2>1. /\ x \in Nat /\ x >= kf.at /\ x <= seq + Len(data) /\ seq + Len(data) - x <= Window
        /\ Window \in Nat /\ Window <= Cap /\ Cap \in Nat /\ kf.at >= seq - Len(held)
    BY <1>4, <1>5, ModelTypes, WindowBound, Constants DEF WindowHeld, Readable
  <2> HIDE DEF x
  <2>2. x >= seq' - Len(held') /\ x <= seq'  BY <1>1, <1>3, <1>4, <1>6, <2>1
  <2> QED  BY <2>2 DEF WindowHeld, Readable, x
<1>18. /\ \A g, m : LeadOn(drawn, replayEnd, inflight, g, m) => LeadOn(drawn, replayEnd, s, g, m)
       /\ \A g : StartsTo(inflight, g, dgrid) => StartsTo(s, g, dgrid)
       /\ RunsOn(drawn, replayEnd, inflight) => RunsOn(drawn, replayEnd, s)
       /\ RunsTo(inflight, dgrid) => RunsTo(s, dgrid)
  <2>1. Head(inflight).kind # "resize" /\ s = Tail(inflight)  BY <1>1 DEF h, s
  <2> QED  BY <1>1, <1>2, <2>1, GridsPop
<1>19. \A g, m : Leads(g, m) => /\ LeadOn(drawn, replayEnd, s, g, m)
                                /\ Streaming => StartsTo(s, g, dgrid)
  BY <1>18 DEF Leads
<1>20. GridsInOrder'
  <2>1. Leads(kf.grid, 0)  BY <1>1 DEF KeyframeInv, GridsInOrder
  <2>2. RunsOn(drawn, replayEnd, s) /\ (Streaming => RunsTo(s, dgrid))  BY <1>18 DEF KeyframeInv, GridsInOrder
  <2> QED  BY <1>1, <1>5, <1>9, <1>19, <2>1, <2>2 DEF GridsInOrder, Leads
\* The chunk itself lies on the grid that the frames in flight start on.
<1>21. ASSUME NEW g, NEW m, Leads(g, m), NEW b \in 1 .. Len(data), data[b] > m
       PROVE  On(drawn, replayEnd, data[b], g)
  <2>1. LeadOn(drawn, replayEnd, inflight, g, m)  BY <1>21 DEF Leads
  <2> QED  BY <1>7, <1>21, <2>1 DEF LeadOn
<1>22. WindowOn'
  <2> DEFINE x == kf'.at
             y == kf.at
  <2>1. /\ x \in Nat /\ y \in Nat /\ x >= y /\ Len(held') \in Nat
    BY <1>4, <1>5, <1>6, ModelTypes
  <2>2. Leads(kf.grid, 0)  BY <1>1 DEF KeyframeInv, GridsInOrder
  <2>3. ASSUME NEW i \in 1 .. Len(held'), i > Len(held') - (seq' - x)
        PROVE  On(drawn, replayEnd, held'[i], kf.grid)
    <3>1. CASE \E b \in 1 .. Len(data) : held'[i] = data[b]
      <4>1. PICK b \in 1 .. Len(data) : held'[i] = data[b]  BY <3>1
      <4>2. data[b] > 0  BY <1>7 DEF Value
      <4> QED  BY <1>21, <2>2, <4>1, <4>2
    <3>2. CASE \E j \in 1 .. Len(held) : /\ j = Len(held) + Len(data) - Len(held') + i
                                          /\ held'[i] = held[j]
      <4>1. PICK j \in 1 .. Len(held) : /\ j = Len(held) + Len(data) - Len(held') + i
                                        /\ held'[i] = held[j]
        BY <3>2
      <4> HIDE DEF x, y
      <4> DEFINE a == Len(held)
                 b == Len(held')
                 l == Len(data)
      <4>3. /\ a \in Nat /\ b \in Nat /\ l \in Nat /\ j \in Int /\ i \in Int /\ x >= y
            /\ j = a + l - b + i /\ i > b - (seq' - x) /\ seq' = seq + l
        BY <1>1, <1>3, <1>4, <2>1, <2>3, <4>1
      <4> HIDE DEF a, b, l
      <4>4. j > a - (seq - y)  BY <1>4, <2>1, <4>3
      <4>2. j > Len(held) - (seq - y)  BY <4>4 DEF a
      <4> QED  BY <1>4, <4>1, <4>2 DEF KeyframeInv, WindowOn, y
    <3> QED  BY <1>8, <3>1, <3>2
  <2> QED  BY <1>1, <1>5, <2>3 DEF WindowOn
<1>23. SnapshotsFit'
  <2>1. ASSUME NEW g, NEW m, HeldOn(g, m), Leads(g, m)
        PROVE  /\ \A i \in 1 .. Len(held') : held'[i] > m => On(drawn, replayEnd, held'[i], g)
               /\ LeadOn(drawn, replayEnd, s, g, m) /\ (Streaming => StartsTo(s, g, dgrid))
    BY <1>8, <1>19, <1>21, <2>1 DEF HeldOn
  <2>2. Dseq' = Dseq  BY <1>1 DEF Dseq
  <2>3. ASSUME NEW k \in Attaches, seeder'[k].pc \in {"snap", "install"}
        PROVE  /\ seeder'[k].gen <= kf'.gen
               /\ seeder'[k].pc = "install" => seeder'[k].offset <= Dseq'
               /\ seeder'[k].pc = "install" /\ seeder'[k].gen = kf'.gen =>
                    HeldOn(seeder[k].grid, seeder[k].offset) /\ Leads(seeder[k].grid, seeder[k].offset)
    <3>1. seeder'[k] = seeder[k]  BY <1>11, <2>3
    <3> QED  BY <1>1, <1>5, <2>2, <2>3, <3>1 DEF KeyframeInv, SnapshotsFit
  <2>4. ASSUME NEW k \in Attaches, seeder'[k].pc = "install", seeder'[k].gen = kf'.gen
        PROVE  /\ HeldOn(seeder[k].grid, seeder[k].offset)'
               /\ Leads(seeder[k].grid, seeder[k].offset)'
    <3>1. seeder'[k] = seeder[k]  BY <1>11, <2>4
    <3>2. HeldOn(seeder[k].grid, seeder[k].offset) /\ Leads(seeder[k].grid, seeder[k].offset)
      BY <2>3, <2>4
    <3> QED  BY <1>1, <1>9, <2>1, <3>1, <3>2 DEF HeldOn, Leads
  <2> QED  BY <2>3, <2>4 DEF SnapshotsFit
<1> QED  BY <1>9, <1>13, <1>14, <1>15, <1>16, <1>17, <1>20, <1>22, <1>23 DEF KeyframeInv

-----------------------------------------------------------------------------
(***************************************************************************)
(* Attaching again.                                                        *)
(***************************************************************************)
\* Once the generation has moved, no snapshot under way can be installed.
LEMMA SnapshotsExpire ==
  ASSUME KeyframeInv, UNCHANGED drawn, kf'.gen = kf.gen + 1,
         \A k \in Attaches : seeder'[k].pc \in {"snap", "install"} => seeder'[k] = seeder[k]
  PROVE  SnapshotsFit'
<1>1. ASSUME NEW k \in Attaches, seeder[k].pc \in {"snap", "install"}
      PROVE  seeder[k].gen <= kf.gen + 1 /\ seeder[k].gen # kf.gen + 1
  <2>1. seeder[k].gen \in Nat /\ kf.gen \in Nat  BY SeederParts, ModelTypes DEF KeyframeInv, KeyframeTyped
  <2>2. seeder[k].gen <= kf.gen  BY <1>1 DEF KeyframeInv, SnapshotsFit
  <2> QED  BY <2>1, <2>2
<1>2. Dseq' = Dseq  BY DEF Dseq
<1> QED  BY <1>1, <1>2 DEF KeyframeInv, SnapshotsFit

LEMMA RestartEmpties ==
  ASSUME KeyframeInv, RestartLocalCopy, UNCHANGED base
  PROVE  /\ held' = << >> /\ seq' = seq + 1 /\ kf' \in Model /\ ~HasModel' /\ kf'.gen = kf.gen + 1
         /\ kf'.at = 0 /\ held' \in Seq(Value) /\ Len(held') = 0 /\ Len(held') <= Cap
         /\ seq' \in Nat /\ base'.ring <= seq'
         /\ \A e : EndsAt(held', e) /\ NoEarlier(held', e)
<1>1. kf \in Model /\ kf.gen \in Nat /\ kf.grid \in TermSizes  BY ModelTypes DEF KeyframeInv, KeyframeTyped
<1>2. /\ held' = << >> /\ seq' = seq + 1
      /\ kf' = [model |-> NoModel, grid |-> kf.grid, at |-> 0, gen |-> kf.gen + 1]
  BY DEF RestartLocalCopy, ResetBytes
<1>3. kf' \in Model /\ kf'.model = NoModel /\ kf'.gen = kf.gen + 1 /\ kf'.at = 0
  BY <1>1, <1>2 DEF Model
<1>4. seq' \in Nat /\ base'.ring <= seq' /\ 0 <= Cap
  <2>1. seq \in Nat /\ base.ring \in Nat /\ base.ring <= seq /\ Cap \in Nat  BY Counts, Constants DEF KeyframeInv
  <2> QED  BY <1>2, <2>1
<1>5. /\ held' \in Seq(Value) /\ Len(held') = 0
      /\ \A e : EndsAt(held', e) /\ NoEarlier(held', e)
  BY <1>2, NothingEnds
<1> QED  BY <1>2, <1>3, <1>4, <1>5 DEF HasModel

LEMMA DroppedKeeps == ASSUME KeyframeInv, Dropped  PROVE KeyframeInv'
<1>1. /\ phase = "attached" /\ ~connUp /\ inflight = << >> /\ phase' = "reattach"
      /\ drawn' = drawn /\ dgrid' = dgrid /\ resizes' = resizes
      /\ inflight' = inflight /\ connUp' = connUp /\ attach' = attach /\ holed' = holed
      /\ from' = from /\ fresh' = fresh
      /\ replayEnd' = replayEnd /\ ackGrid' = ackGrid /\ base' = base /\ seeder' = seeder
  BY DEF Dropped, daemon, link
<1>2. Reached \in Nat /\ Reached # NoOffset
  <2>1. Reached \in Nat  BY Counts DEF KeyframeInv
  <2> QED  BY <2>1 DEF NoOffset
<1>3. \/ holed[attach] /\ RestartLocalCopy /\ since' = NoOffset
      \/ ~holed[attach] /\ since' = Reached /\ held' = held /\ seq' = seq /\ kf' = kf
  BY DEF Dropped, Reached
<1>4. ~Streaming' /\ RunsOn(drawn, replayEnd, inflight)  BY <1>1 DEF Streaming, KeyframeInv, GridsInOrder
<1>5. Tiles' /\ GridsInOrder'  BY <1>1, <1>4 DEF Tiles, GridsInOrder
<1>6. CASE holed[attach] /\ RestartLocalCopy /\ since' = NoOffset
  <2>1. /\ held' = << >> /\ seq' = seq + 1 /\ kf' \in Model /\ ~HasModel' /\ kf'.gen = kf.gen + 1
        /\ kf'.at = 0 /\ held' \in Seq(Value) /\ Len(held') = 0 /\ Len(held') <= Cap
        /\ seq' \in Nat /\ base'.ring <= seq'
        /\ \A e : EndsAt(held', e) /\ NoEarlier(held', e)
    BY <1>1, <1>6, RestartEmpties
  <2>2. KeyframeTyped'
    <3>1. kf'.at <= seq'  BY <2>1
    <3> QED  BY <1>1, <1>6, <2>1, <3>1 DEF KeyframeInv, KeyframeTyped, Dseq
  <2>3. Attaching'  BY <1>1, <1>6, <2>1 DEF KeyframeInv, Attaching
  <2>4. Drawn'
    <3>1. 1 .. Len(held') = {}  BY <2>1
    <3> QED  BY <1>1, <3>1 DEF KeyframeInv, Drawn, Dseq
  <2>5. CopyFollows'  BY <2>1 DEF CopyFollows
  <2>6. ModelFollows' /\ WindowHeld' /\ WindowOn'  BY <2>1 DEF ModelFollows, WindowHeld, WindowOn
  <2>7. SnapshotsFit'  BY <1>1, <2>1, SnapshotsExpire
  <2> QED  BY <1>5, <2>2, <2>3, <2>4, <2>5, <2>6, <2>7 DEF KeyframeInv
<1>7. CASE ~holed[attach] /\ since' = Reached /\ held' = held /\ seq' = seq /\ kf' = kf
  <2>1. Reached' = Reached  BY <1>1, <1>7 DEF Reached
  <2>2. KeyframeTyped'  BY <1>1, <1>2, <1>7 DEF KeyframeInv, KeyframeTyped, Dseq
  <2>3. Attaching'  BY <1>1, <1>2, <1>7, <2>1 DEF KeyframeInv, Attaching
  <2>4. Drawn'  BY <1>1, <1>7 DEF KeyframeInv, Drawn, Dseq
  <2>5. CopyFollows'  BY <1>1, <1>7, <2>1 DEF KeyframeInv, CopyFollows, Sound
  <2>6. ModelFollows'  BY <1>1, <1>7, <2>1 DEF KeyframeInv, ModelFollows, Sound, HasModel
  <2>7. WindowHeld' /\ WindowOn'  BY <1>1, <1>7 DEF KeyframeInv, WindowHeld, WindowOn, HasModel, Readable
  <2>8. SnapshotsFit'  BY <1>1, <1>7 DEF KeyframeInv, SnapshotsFit, HeldOn, Dseq
  <2> QED  BY <1>5, <2>2, <2>3, <2>4, <2>5, <2>6, <2>7, <2>8 DEF KeyframeInv
<1> QED  BY <1>3, <1>6, <1>7

\* The replay, and the resize after it, begin where they are said to.
Resent(f, g) == Replay(f) \o (IF g # dgrid THEN << ResizeFrame(g) >> ELSE << >>)
LEMMA ReplayTiles ==
  ASSUME KeyframeTyped, NEW f \in 0 .. Dseq, NEW g \in TermSizes
  PROVE  /\ Resent(f, g) \in Seq(Frame)
         /\ \A i \in 1 .. Len(Resent(f, g)) :
              /\ Resent(f, g)[i].kind = "data" =>
                   \A b \in 1 .. Len(Resent(f, g)[i].bytes) : Resent(f, g)[i].bytes[b] <= Dseq
              /\ Resent(f, g)[i].kind = "resize" => Resent(f, g)[i].grid = g
         /\ \E p \in [0 .. Len(Resent(f, g)) -> Int] :
              Laid(Resent(f, g), p, f) /\ Whole(Resent(f, g), p) /\ p[Len(Resent(f, g))] = Dseq
<1> DEFINE s == Resent(f, g)
<1>0. s = Replay(f) \o (IF g # dgrid THEN << ResizeFrame(g) >> ELSE << >>)  BY DEF Resent
<1> SUFFICES
      /\ s \in Seq(Frame)
      /\ \A i \in 1 .. Len(s) : /\ s[i].kind = "data" =>
                                     \A b \in 1 .. Len(s[i].bytes) : s[i].bytes[b] <= Dseq
                                /\ s[i].kind = "resize" => s[i].grid = g
      /\ \E p \in [0 .. Len(s) -> Int] : Laid(s, p, f) /\ Whole(s, p) /\ p[Len(s)] = Dseq
  OBVIOUS
<1> HIDE DEF s
<1>1. Dseq \in Nat /\ f \in Nat /\ f <= Dseq /\ Dseq <= MaxBytes /\ f \in Int  BY Counts DEF KeyframeTyped
<1> DEFINE d == DataFrame(f, Dseq)
           r == ResizeFrame(g)
           p0 == [i \in 0 .. 0 |-> f]
<1>2. /\ d \in Frame /\ d.kind = "data" /\ d.bytes = Bytes(f, Dseq) /\ Length(d) = Dseq - f
      /\ r \in Frame /\ r.kind = "resize" /\ r.grid = g /\ Length(r) = 0
  BY <1>1, FramesMade
<1>3. /\ Len(d.bytes) = Dseq - f /\ EndsAt(d.bytes, Dseq) /\ NoEarlier(d.bytes, Dseq)
      /\ \A b \in 1 .. Len(d.bytes) : d.bytes[b] <= Dseq
  <2>1. /\ Len(Bytes(f, Dseq)) = Dseq - f /\ EndsAt(Bytes(f, Dseq), Dseq) /\ Bytes(f, Dseq) \in Seq(Value)
        /\ \A i \in 1 .. Dseq - f : Bytes(f, Dseq)[i] = f + i
    BY <1>1, BytesEnd
  <2>2. NoEarlier(Bytes(f, Dseq), Dseq)  BY <1>1, <2>1, EndsIsLater, Constants
  <2>3. \A i \in 1 .. Dseq - f : f + i <= Dseq  BY <1>1
  <2> QED  BY <1>2, <2>1, <2>2, <2>3
<1>4. /\ << >> \in Seq(Frame) /\ Len(<< >>) = 0 /\ 1 .. Len(<< >>) = {}
      /\ p0 \in [0 .. Len(<< >>) -> Int] /\ p0[0] = f /\ Laid(<< >>, p0, f) /\ Whole(<< >>, p0)
  <2>1. << >> \in Seq(Frame) /\ Len(<< >>) = 0 /\ 1 .. Len(<< >>) = {}  OBVIOUS
  <2>2. p0 \in [0 .. 0 -> Int] /\ p0[0] = f  BY <1>1
  <2>3. \A i, j \in 0 .. 0 : p0[i] <= p0[j]  BY <1>1
  <2> QED  BY <1>1, <2>1, <2>2, <2>3 DEF Laid, Whole
<1> HIDE DEF d, r, p0
\* The replay alone.
<1> DEFINE t == Replay(f)
<1>5. /\ t \in Seq(Frame)
      /\ \A i \in 1 .. Len(t) : t[i] = d
      /\ \E p \in [0 .. Len(t) -> Int] : Laid(t, p, f) /\ Whole(t, p) /\ p[Len(t)] = Dseq
  <2>1. CASE f < Dseq
    <3>1. t = Append(<< >>, d)  BY <2>1 DEF Replay, d
    <3>2. /\ t \in Seq(Frame) /\ Len(t) = Len(<< >>) + 1 /\ t[Len(<< >>) + 1] = d
      BY <1>2, <1>4, <3>1, FramePushed
    <3>3. Len(t) = 1 /\ t[1] = d  BY <1>4, <3>2
    <3>4. \A i \in 1 .. Len(t) : t[i] = d
      <4>1. \A i \in 1 .. 1 : i = 1  OBVIOUS
      <4> QED  BY <3>3, <4>1
    <3>5. p0[Len(<< >>)] + Len(d.bytes) = Dseq /\ p0[Len(<< >>)] + Length(d) = Dseq  BY <1>1, <1>2, <1>3, <1>4
    <3>6. \E q \in [0 .. Len(Append(<< >>, d)) -> Int] :
            /\ Laid(Append(<< >>, d), q, f)
            /\ q[Len(Append(<< >>, d))] = p0[Len(<< >>)] + Length(d)
            /\ Whole(<< >>, p0) /\ (d.kind = "data" /\ NoGap(<< >>, Len(<< >>)) =>
                                      EndsAt(d.bytes, p0[Len(<< >>)] + Len(d.bytes)))
                 => Whole(Append(<< >>, d), q)
      <4>1. d.kind = "data" => NoEarlier(d.bytes, p0[Len(<< >>)] + Len(d.bytes))  BY <1>3, <3>5
      <4> QED  BY <1>1, <1>2, <1>4, <4>1, LaidPush
    <3> HIDE DEF t
    <3> QED  BY <1>3, <1>4, <3>1, <3>2, <3>4, <3>5, <3>6
  <2>2. CASE ~(f < Dseq)
    <3>1. t = << >> /\ f = Dseq  BY <1>1, <2>2 DEF Replay
    <3> HIDE DEF t
    <3> QED  BY <1>4, <3>1
  <2> QED  BY <2>1, <2>2
<1> HIDE DEF t
<1>6. CASE g # dgrid
  <2>1. s = Append(t, r)
    <3>1. s = t \o << r >>  BY <1>0, <1>6 DEF t, r
    <3> QED  BY <1>2, <1>5, <3>1
  <2>2. /\ s \in Seq(Frame) /\ Len(s) = Len(t) + 1 /\ Len(t) \in Nat /\ s[Len(t) + 1] = r
        /\ \A i \in 1 .. Len(t) : s[i] = t[i]
    <3>1. /\ Append(t, r) \in Seq(Frame) /\ Len(Append(t, r)) = Len(t) + 1 /\ Len(t) \in Nat
          /\ Append(t, r)[Len(t) + 1] = r
          /\ \A i \in 1 .. Len(t) : Append(t, r)[i] = t[i]
      BY <1>2, <1>5, FramePushed
    <3> QED  BY <2>1, <3>1
  <2>3. \A i \in 1 .. Len(s) : s[i] = d \/ s[i] = r
    <3>1. \A i \in 1 .. Len(s) : i \in 1 .. Len(t) \/ i = Len(t) + 1  BY <2>2
    <3> QED  BY <1>5, <2>2, <3>1
  <2>4. PICK p \in [0 .. Len(t) -> Int] : Laid(t, p, f) /\ Whole(t, p) /\ p[Len(t)] = Dseq  BY <1>5
  <2>5. \E q \in [0 .. Len(Append(t, r)) -> Int] :
          /\ Laid(Append(t, r), q, f)
          /\ q[Len(Append(t, r))] = p[Len(t)] + Length(r)
          /\ Whole(t, p) /\ (r.kind = "data" /\ NoGap(t, Len(t)) =>
                               EndsAt(r.bytes, p[Len(t)] + Len(r.bytes)))
               => Whole(Append(t, r), q)
    <3>1. ~(r.kind = "data")  BY <1>2
    <3> QED  BY <1>1, <1>2, <1>5, <2>4, <3>1, LaidPush
  <2>6. Dseq + Length(r) = Dseq /\ ~(r.kind = "data") /\ ~(d.kind = "resize")  BY <1>1, <1>2
  <2>7. \E q \in [0 .. Len(s) -> Int] : Laid(s, q, f) /\ Whole(s, q) /\ q[Len(s)] = Dseq
    BY <2>1, <2>4, <2>5, <2>6
  <2> QED  BY <1>2, <1>3, <2>2, <2>3, <2>6, <2>7
<1>7. CASE ~(g # dgrid)
  <2>1. s = t
    <3>1. s = t \o << >>  BY <1>0, <1>7 DEF t
    <3> QED  BY <1>5, <3>1, ConcatEmptySeq
  <2> QED  BY <1>2, <1>3, <1>5, <2>1
<1> QED  BY <1>6, <1>7

LEMMA SubscribeKeeps == ASSUME KeyframeInv, NEW f \in 0 .. Dseq, NEW g \in TermSizes, SubscribeStream(f, g)  PROVE KeyframeInv'
<1>1. /\ phase = "reattach" /\ attach < MaxAttaches /\ (since # NoOffset => f >= since)
      /\ attach' = attach + 1 /\ connUp' = TRUE /\ dgrid' = g
      /\ from' = f /\ replayEnd' = Dseq /\ ackGrid' = g
      /\ inflight' = Replay(f) \o (IF g # dgrid THEN << ResizeFrame(g) >> ELSE << >>)
      /\ fresh' = (f # since) /\ phase' = "attaching"
      /\ drawn' = drawn /\ holed' = holed /\ since' = since /\ base' = base /\ seeder' = seeder
  BY DEF SubscribeStream, SizedTo
<1>2. \/ since # NoOffset /\ f # since /\ RestartLocalCopy
      \/ ~(since # NoOffset /\ f # since) /\ held' = held /\ seq' = seq /\ kf' = kf
  BY DEF SubscribeStream
<1>3. /\ inflight' \in Seq(Frame)
      /\ \A i \in 1 .. Len(inflight') :
           /\ inflight'[i].kind = "data" =>
                \A b \in 1 .. Len(inflight'[i].bytes) : inflight'[i].bytes[b] <= Dseq
           /\ inflight'[i].kind = "resize" => inflight'[i].grid = g
      /\ \E p \in [0 .. Len(inflight') -> Int] : Laid(inflight', p, f) /\ Whole(inflight', p)
                                                 /\ p[Len(inflight')] = Dseq
  <2>1. KeyframeTyped /\ inflight' = Resent(f, g)  BY <1>1 DEF KeyframeInv, Resent
  <2> QED  BY <2>1, ReplayTiles
<1>4. /\ f \in Nat /\ Dseq \in Nat /\ f # NoOffset /\ Dseq' = Dseq /\ Dseq <= Dseq
      /\ attach' \in 0 .. MaxAttaches /\ attach' >= 1 /\ attach \in Int
  <2>1. Dseq \in Nat /\ attach \in 0 .. MaxAttaches /\ MaxAttaches \in Nat
    BY Counts, Constants DEF KeyframeInv, KeyframeTyped
  <2> QED  BY <1>1, <2>1 DEF NoOffset, Dseq
\* What the replay does not hold is all that has a grid to keep.
<1>5. \A v \in Int : v <= Dseq => \A h : On(drawn, Dseq, v, h)
  BY <1>4 DEF On
<1>6. ASSUME NEW i \in 1 .. Len(inflight'), inflight'[i].kind = "data",
             NEW b \in 1 .. Len(inflight'[i].bytes), NEW h
      PROVE  On(drawn, Dseq, inflight'[i].bytes[b], h)
  <2>1. inflight'[i] \in Frame  BY <1>3, ElementOfSeq
  <2>2. inflight'[i].bytes \in Seq(Value)  BY <1>6, <2>1, FrameKinds
  <2>3. inflight'[i].bytes[b] \in Int
    <3>1. Value \subseteq Int  BY Constants
    <3> QED  BY <2>2, <3>1, ElementOfSeq
  <2>4. inflight'[i].bytes[b] <= Dseq  BY <1>3, <1>6
  <2> QED  BY <1>5, <2>3, <2>4
<1>7. GridsInOrder'
  <2>1. LeadOn(drawn, Dseq, inflight', g, 0)  BY <1>6 DEF LeadOn
  <2>2. StartsTo(inflight', g, g)  BY DEF StartsTo
  <2>3. RunsOn(drawn, Dseq, inflight')  BY <1>6 DEF RunsOn
  <2>4. RunsTo(inflight', g)  BY <1>3 DEF RunsTo
  <2> QED  BY <1>1, <2>1, <2>2, <2>3, <2>4 DEF GridsInOrder, Leads
<1>8. Tiles'
  <2>1. Front' = f  BY <1>1 DEF Front
  <2> QED  BY <1>1, <1>3, <1>4, <2>1 DEF Tiles, Reaches, Joins
<1>9. \A k \in Attaches : k > attach' => ~holed'[k]
  <2>1. \A k \in Attaches : k > attach' => k > attach  BY <1>1, <1>4 DEF Attaches
  <2> QED  BY <1>1, <2>1 DEF KeyframeInv, Attaching
<1>10. CASE since # NoOffset /\ f # since /\ RestartLocalCopy
  <2>1. /\ held' = << >> /\ seq' = seq + 1 /\ kf' \in Model /\ ~HasModel' /\ kf'.gen = kf.gen + 1
        /\ kf'.at = 0 /\ held' \in Seq(Value) /\ Len(held') = 0 /\ Len(held') <= Cap
        /\ seq' \in Nat /\ base'.ring <= seq'
        /\ \A e : EndsAt(held', e) /\ NoEarlier(held', e)
    BY <1>1, <1>10, RestartEmpties
  <2>2. KeyframeTyped'
    <3>1. kf'.at <= seq'  BY <2>1
    <3> QED  BY <1>1, <1>3, <1>4, <2>1, <3>1 DEF KeyframeInv, KeyframeTyped
  <2>3. Attaching'  BY <1>1, <1>4, <1>9, <1>10, <2>1 DEF Attaching
  <2>4. Drawn'
    <3>1. 1 .. Len(held') = {}  BY <2>1
    <3> QED  BY <1>3, <1>4, <3>1 DEF Drawn
  <2>5. CopyFollows'  BY <2>1 DEF CopyFollows
  <2>6. ModelFollows' /\ WindowHeld' /\ WindowOn'  BY <2>1 DEF ModelFollows, WindowHeld, WindowOn
  <2>7. SnapshotsFit'  BY <1>1, <2>1, SnapshotsExpire
  <2> QED  BY <1>7, <1>8, <2>2, <2>3, <2>4, <2>5, <2>6, <2>7 DEF KeyframeInv
<1>11. CASE ~(since # NoOffset /\ f # since) /\ held' = held /\ seq' = seq /\ kf' = kf
  <2>1. Reached' = Reached  BY <1>1, <1>11 DEF Reached
  <2>2. KeyframeTyped'  BY <1>1, <1>3, <1>4, <1>11 DEF KeyframeInv, KeyframeTyped
  <2>3. Attaching'
    <3>1. fresh' => held' = << >>  BY <1>1, <1>11 DEF KeyframeInv, Attaching
    <3>2. ~fresh' => from' = Reached'  BY <1>1, <1>4, <2>1 DEF KeyframeInv, Attaching
    <3> QED  BY <1>1, <1>4, <1>9, <3>1, <3>2 DEF Attaching
  <2>4. Drawn'  BY <1>3, <1>4, <1>11 DEF KeyframeInv, Drawn
  <2>5. CopyFollows'  BY <1>1, <1>11, <2>1 DEF KeyframeInv, CopyFollows, Sound
  <2>6. ModelFollows'  BY <1>1, <1>11, <2>1 DEF KeyframeInv, ModelFollows, Sound, HasModel
  <2>7. WindowHeld'  BY <1>11 DEF KeyframeInv, WindowHeld, HasModel, Readable
  <2>8. \A i \in 1 .. Len(held) : \A h : On(drawn, Dseq, held[i], h)
    <3>1. \A i \in 1 .. Len(held) : held[i] \in Int /\ held[i] <= Dseq
      BY Counts, ElementOfSeq DEF KeyframeInv, Drawn
    <3> QED  BY <1>5, <3>1
  <2>9. WindowOn'  BY <1>1, <1>11, <2>8 DEF WindowOn
  <2>10. SnapshotsFit'  BY <1>1, <1>4, <1>11, <2>8 DEF KeyframeInv, SnapshotsFit, HeldOn
  <2> QED  BY <1>7, <1>8, <2>2, <2>3, <2>4, <2>5, <2>6, <2>7, <2>9, <2>10 DEF KeyframeInv
<1> QED  BY <1>2, <1>10, <1>11

LEMMA AttachKeyframeKeeps == ASSUME KeyframeInv, AttachKeyframe  PROVE KeyframeInv'
<1>1. /\ phase = "attaching" /\ phase' = "attached" /\ since' = NoOffset
      /\ kf' = (IF fresh \/ kf.model = NoModel THEN Blank(kf, ackGrid, seq) ELSE ResizeKf(kf, ackGrid))
      /\ base' = [daemon |-> from, ring |-> seq]
      /\ held' = held /\ seq' = seq /\ drawn' = drawn /\ dgrid' = dgrid /\ resizes' = resizes
      /\ inflight' = inflight /\ connUp' = connUp /\ attach' = attach /\ holed' = holed
      /\ from' = from /\ fresh' = fresh
      /\ replayEnd' = replayEnd /\ ackGrid' = ackGrid
  BY DEF AttachKeyframe, daemon, link
<1>2. /\ KeyframeTyped /\ WindowHeld /\ seq \in Nat /\ ackGrid \in TermSizes /\ from \in Nat /\ Reached \in Nat
      /\ kf.gen \in Nat /\ Len(held) \in Nat
  <2>1. from \in Nat
    <3>1. Dseq \in Nat  BY Counts DEF KeyframeInv
    <3> QED  BY <3>1 DEF KeyframeInv, KeyframeTyped
  <2> QED  BY <2>1, Counts, ModelTypes DEF KeyframeInv, KeyframeTyped
<1>3. base' \in [daemon : Nat, ring : Nat] /\ base'.ring = seq /\ Reached' = from
  <2>1. base' \in [daemon : Nat, ring : Nat] /\ base'.ring = seq /\ base'.daemon = from  BY <1>1, <1>2
  <2>2. from + (seq - seq) = from  BY <1>2
  <2> QED  BY <1>1, <2>1, <2>2 DEF Reached
<1>4. fresh => held = << >>  BY <1>1 DEF KeyframeInv, Attaching
<1>5. ~fresh => Reached' = Reached  BY <1>1, <1>3 DEF KeyframeInv, Attaching
<1>6. Sound  BY <1>1 DEF Sound
<1>7. /\ kf' \in Model /\ kf'.model # NoModel /\ kf'.grid = ackGrid /\ kf'.gen = kf.gen + 1 /\ kf'.at = seq
      /\ EndsAt(kf'.model, Reached')
  <2>1. CASE fresh \/ kf.model = NoModel
    <3>1. kf' = [model |-> << >>, grid |-> ackGrid, at |-> seq, gen |-> kf.gen + 1]
      BY <1>1, <2>1 DEF Blank
    <3>2. << >> \in Seq(Value) /\ << >> # NoModel /\ EndsAt(<< >>, Reached')  BY NothingEnds, Constants
    <3>3. kf.gen + 1 \in Nat  BY <1>2
    <3> QED  BY <1>2, <3>1, <3>2, <3>3 DEF Model
  <2>2. CASE ~(fresh \/ kf.model = NoModel)
    <3>1. kf' = ResizeKf(kf, ackGrid) /\ HasModel  BY <1>1, <2>2 DEF HasModel
    <3>2. /\ kf' \in Model /\ kf'.model # NoModel /\ kf'.grid = ackGrid /\ kf'.gen = kf.gen + 1 /\ kf'.at = seq
          /\ \A e \in Int : EndsAt(held, e) /\ EndsAt(kf.model, e - (seq - kf.at)) => EndsAt(kf'.model, e)
      BY <1>2, <3>1, ResizeFollows
    <3>3. EndsAt(held, Reached) /\ EndsAt(kf.model, Reached - (seq - kf.at))
      BY <1>6, <3>1 DEF KeyframeInv, CopyFollows, ModelFollows
    <3>4. EndsAt(kf'.model, Reached)  BY <1>2, <3>2, <3>3
    <3> QED  BY <1>5, <2>2, <3>2, <3>4
  <2> QED  BY <2>1, <2>2
<1>8. HasModel'  BY <1>7 DEF HasModel
<1>s. /\ seeder' \in [Attaches -> Seeder]
      /\ \A k \in Attaches : seeder'[k].pc \in {"snap", "install"} => seeder'[k] = seeder[k]
  BY <1>1, SeederStarts DEF AttachKeyframe
<1>9. KeyframeTyped'
  <2>1. kf'.at <= seq' /\ base'.ring <= seq'  BY <1>1, <1>2, <1>3, <1>7
  <2>2. \A k \in Attaches : seeder'[k].pc = "install" => seeder'[k].grid \in TermSizes
    BY <1>s DEF KeyframeInv, KeyframeTyped
  <2> QED  BY <1>1, <1>3, <1>7, <1>s, <2>1, <2>2 DEF KeyframeInv, KeyframeTyped, Dseq
<1>10. Attaching'  BY <1>1, <1>8 DEF KeyframeInv, Attaching
<1>11. Drawn'  BY <1>1 DEF KeyframeInv, Drawn, Dseq
<1>12. Tiles'
  <2>1. Front = from /\ Front' = from  BY <1>1, <1>3 DEF Front
  <2>2. Streaming' <=> Streaming  BY <1>1 DEF Streaming
  <2>3. Dseq' = Dseq  BY <1>1 DEF Dseq
  <2> QED  BY <1>1, <2>1, <2>2, <2>3 DEF KeyframeInv, Tiles
<1>13. CopyFollows'
  <2>1. CASE fresh
    <3>1. held' = << >>  BY <1>1, <1>4, <2>1
    <3> QED  BY <3>1, NothingEnds DEF CopyFollows
  <2>2. CASE ~fresh  BY <1>1, <1>5, <1>6, <2>2 DEF KeyframeInv, CopyFollows
  <2> QED  BY <2>1, <2>2
<1>14. ModelFollows'
  <2>1. Reached' - (seq' - kf'.at) = Reached'  BY <1>1, <1>2, <1>3, <1>7
  <2> QED  BY <1>7, <2>1 DEF ModelFollows
<1>15. WindowHeld'
  <2>1. seq >= seq - Len(held) /\ seq <= seq  BY <1>2
  <2> QED  BY <1>1, <1>7, <2>1 DEF WindowHeld, Readable
<1>16. GridsInOrder'
  <2>1. Leads(ackGrid, 0) /\ RunsOn(drawn, replayEnd, inflight) /\ (Streaming => RunsTo(inflight, dgrid))
    BY <1>1 DEF KeyframeInv, GridsInOrder
  <2>2. Streaming' <=> Streaming  BY <1>1 DEF Streaming
  <2> QED  BY <1>1, <1>7, <2>1, <2>2 DEF GridsInOrder, Leads
<1>17. WindowOn'
  <2>1. \A i \in 1 .. Len(held) : ~(i > Len(held) - (seq - seq))  BY <1>2
  <2> QED  BY <1>1, <1>7, <2>1 DEF WindowOn
<1>18. SnapshotsFit'  BY <1>1, <1>7, <1>s, SnapshotsExpire
<1> QED  BY <1>9, <1>10, <1>11, <1>12, <1>13, <1>14, <1>15, <1>16, <1>17, <1>18 DEF KeyframeInv

-----------------------------------------------------------------------------
(***************************************************************************)
(* The theorems.                                                           *)
(***************************************************************************)
LEMMA InvInit == KeyframeInit => KeyframeInv
<1> SUFFICES ASSUME KeyframeInit  PROVE KeyframeInv  OBVIOUS
<1>1. /\ held = << >> /\ seq = 0 /\ drawn = << >> /\ dgrid \in TermSizes /\ inflight = << >>
      /\ connUp = FALSE /\ attach = 0 /\ holed = [k \in Attaches |-> FALSE]
      /\ phase = "reattach" /\ since = NoOffset /\ from = 0 /\ fresh = TRUE
      /\ replayEnd = 0 /\ ackGrid = dgrid /\ base = [daemon |-> 0, ring |-> 0]
      /\ kf = [model |-> NoModel, grid |-> dgrid, at |-> 0, gen |-> 0]
      /\ seeder = [k \in Attaches |-> Idle("none", 0)]
  BY DEF KeyframeInit
<1>2. Dseq = 0 /\ Len(held) = 0 /\ Len(inflight) = 0 /\ 1 .. 0 = {}
  BY <1>1 DEF Dseq
<1>3. 0 \in Nat /\ 0 <= Cap /\ 0 <= MaxBytes /\ 0 \in 0 .. MaxAttaches /\ 0 \in 0 .. MaxBytes /\ 0 \in 0 .. 0 /\ 0 <= 0
  BY Constants
<1>4. ~HasModel /\ ~Streaming  BY <1>1 DEF HasModel, Streaming
<1>5. \A k \in Attaches : seeder[k] \in Seeder /\ seeder[k].pc = "none" /\ ~holed[k]
  BY <1>1, <1>3 DEF Idle, Seeder, Asking
<1>6. seeder \in [Attaches -> Seeder]  BY <1>1, <1>5
<1>7. KeyframeTyped
  <2>1. held \in Seq(Value) /\ drawn \in Seq(TermSizes) /\ inflight \in Seq(Frame)  BY <1>1
  <2>2. /\ base \in [daemon : Nat, ring : Nat] /\ base.ring <= seq /\ kf \in Model /\ kf.at <= seq
        /\ holed \in [Attaches -> BOOLEAN]
    BY <1>1, <1>3 DEF Model
  <2> QED  BY <1>1, <1>2, <1>3, <1>5, <1>6, <2>1, <2>2 DEF KeyframeTyped, NoOffset
<1>8. Attaching  BY <1>1, <1>5 DEF Attaching
<1>9. Drawn  BY <1>2 DEF Drawn
<1>10. Tiles /\ ModelFollows /\ WindowHeld /\ WindowOn
  BY <1>1, <1>4 DEF Tiles, ModelFollows, WindowHeld, WindowOn
<1>11. CopyFollows  BY <1>1, NothingEnds DEF CopyFollows
<1>12. GridsInOrder  BY <1>1, <1>2, <1>4 DEF GridsInOrder, RunsOn
<1>13. SnapshotsFit  BY <1>5 DEF SnapshotsFit
<1> QED  BY <1>7, <1>8, <1>9, <1>10, <1>11, <1>12, <1>13 DEF KeyframeInv

LEMMA InvStays == KeyframeInv /\ UNCHANGED keyframeVars => KeyframeInv'
<1> SUFFICES ASSUME KeyframeInv, UNCHANGED keyframeVars  PROVE KeyframeInv'  OBVIOUS
<1>1. UNCHANGED <<held, seq, daemon, link, server, kf>> /\ seeder' = seeder
  BY DEF keyframeVars
<1>2. \A k \in Attaches : Fits(seeder'[k])  BY <1>1 DEF KeyframeInv, SnapshotsFit, Fits
<1>3. SnapshotsFit'  BY <1>1, <1>2, SeedersFit
<1>4. /\ seeder' \in [Attaches -> Seeder]
      /\ \A k \in Attaches : seeder'[k].pc = "install" => seeder'[k].grid \in TermSizes
  BY <1>1 DEF KeyframeInv, KeyframeTyped
<1> QED  BY <1>1, <1>3, <1>4, OnlySeeders

LEMMA KeyframeInvInductive == KeyframeInv /\ [KeyframeNext]_keyframeVars => KeyframeInv'
<1> SUFFICES ASSUME KeyframeInv, [KeyframeNext]_keyframeVars  PROVE KeyframeInv'  OBVIOUS
<1>1. CASE \E n \in 1 .. MaxWrite, dropped \in BOOLEAN : Output(n, dropped)  BY <1>1, OutputKeeps
<1>2. CASE \E g \in TermSizes : DaemonResize(g)  BY <1>2, DaemonResizeKeeps
<1>3. CASE attach > 0 /\ NoticeGap  BY <1>3, NoticeGapKeeps
<1>4. CASE \E k \in 0 .. Len(inflight) : ConnectionDrops(k)  BY <1>4, ConnectionDropsKeeps
<1>5. CASE PumpData  BY <1>5, PumpDataKeeps
<1>6. CASE PumpResize  BY <1>6, PumpResizeKeeps
<1>7. CASE PumpGap  BY <1>7, PumpGapKeeps
<1>8. CASE Dropped  BY <1>8, DroppedKeeps
<1>9. CASE \E f \in 0 .. Dseq, g \in TermSizes : SubscribeStream(f, g)  BY <1>9, SubscribeKeeps
<1>10. CASE AttachKeyframe  BY <1>10, AttachKeyframeKeeps
<1>11. CASE \E k \in Attaches : SeedGen(k) \/ SeedSnap(k) \/ SeedFails(k) \/ Install(k)
  BY <1>11, SeedGenKeeps, SeedSnapKeeps, SeedFailsKeeps, InstallKeeps
<1>12. CASE UNCHANGED keyframeVars  BY <1>12, InvStays
<1> QED
  BY <1>1, <1>2, <1>3, <1>4, <1>5, <1>6, <1>7, <1>8, <1>9, <1>10, <1>11, <1>12 DEF KeyframeNext

LEMMA InvWhole == KeyframeInv => RestoreIsWhole
<1> SUFFICES ASSUME KeyframeInv  PROVE RestoreIsWhole  OBVIOUS
<1>1. /\ seq \in Int /\ kf.at \in Int /\ Reached \in Int /\ kf \in Model /\ KeyframeTyped
  BY Counts DEF KeyframeInv, KeyframeTyped
<1>2. ASSUME HasModel, WindowHeld
      PROVE  /\ kf.model \in Seq(Int) /\ After(kf.at) \in Seq(Value) /\ After(kf.at) \in Seq(Int)
             /\ Len(After(kf.at)) = seq - kf.at
             /\ \A i \in 1 .. seq - kf.at : After(kf.at)[i] = held[Len(held) - (seq - kf.at) + i]
             /\ EndsAt(held, Reached) => EndsAt(After(kf.at), Reached)
             /\ seq - kf.at <= Len(held) /\ seq - kf.at \in Nat
  <2>1. Readable(kf.at) /\ kf.model # NoModel  BY <1>2 DEF WindowHeld, HasModel
  <2>2. seq - kf.at <= Len(held)  BY <1>1, <2>1, Counts DEF Readable
  <2> QED  BY <1>1, <2>1, <2>2, WindowEnds, ModelTypes, Constants
<1>3. RestoreContinuous
  <2> SUFFICES ASSUME HasModel, WindowHeld, ~holed[attach]
               PROVE  LET r == RestorePoint
                      IN  /\ \A i \in 1 .. Len(r) - 1 : r[i + 1] = r[i] + 1
                          /\ phase = "attached" /\ r # << >> => r[Len(r)] = base.daemon + (seq - base.ring)
    BY DEF RestoreContinuous
  <2> DEFINE r == RestorePoint
             w == After(kf.at)
             c == Reached - (seq - kf.at)
  <2>1. EndsAt(held, Reached) /\ EndsAt(kf.model, c)  BY DEF KeyframeInv, CopyFollows, ModelFollows, Sound
  <2>2. /\ c \in Int /\ c + Len(w) = Reached /\ w \in Seq(Int) /\ kf.model \in Seq(Int) /\ EndsAt(w, Reached)
    <3>1. Len(w) = seq - kf.at  BY <1>2
    <3>2. c \in Int /\ c + (seq - kf.at) = Reached
      <4> DEFINE x == kf.at
      <4>1. x \in Int  BY <1>1
      <4> HIDE DEF x
      <4>2. Reached - (seq - x) \in Int /\ (Reached - (seq - x)) + (seq - x) = Reached  BY <1>1, <4>1
      <4> QED  BY <4>2 DEF x
    <3> QED  BY <1>2, <2>1, <3>1, <3>2
  <2> HIDE DEF c, w
  <2>3. r \in Seq(Int) /\ EndsAt(r, Reached)
    <3>1. r = kf.model \o w  BY DEF RestorePoint, w
    <3>2. EndsAt(kf.model \o w, c + Len(w))  BY <2>1, <2>2, ConcatEnds
    <3>3. kf.model \o w \in Seq(Int)  BY <2>2, ConcatProperties
    <3> QED  BY <2>2, <3>1, <3>2, <3>3
  <2> HIDE DEF r
  <2>4. Len(r) \in Nat /\ \A i \in 1 .. Len(r) : r[i] = Reached - (Len(r) - i)  BY <2>3 DEF EndsAt
  <2>5. ASSUME NEW i \in 1 .. Len(r) - 1  PROVE r[i + 1] = r[i] + 1
    <3>1. i \in 1 .. Len(r) /\ i + 1 \in 1 .. Len(r)  BY <2>4
    <3>2. r[i] = Reached - (Len(r) - i) /\ r[i + 1] = Reached - (Len(r) - (i + 1))  BY <2>4, <3>1
    <3> QED  BY <1>1, <2>4, <3>2
  <2>6. ASSUME r # << >>  PROVE r[Len(r)] = base.daemon + (seq - base.ring)
    <3>1. Len(r) \in 1 .. Len(r)  BY <2>3, <2>4, <2>6, EmptySeq
    <3>2. r[Len(r)] = Reached  BY <1>1, <2>4, <3>1
    <3> QED  BY <3>2 DEF Reached
  <2> QED  BY <2>5, <2>6 DEF r
<1>4. WindowOnModelGrid
  <2> SUFFICES ASSUME HasModel, WindowHeld, NEW i \in 1 .. Len(After(kf.at)), After(kf.at)[i] > replayEnd
               PROVE  drawn[After(kf.at)[i]] = kf.grid
    BY DEF WindowOnModelGrid
  <2> DEFINE j == Len(held) - (seq - kf.at) + i
             x == seq - kf.at
  <2>1. After(kf.at)[i] = held[j] /\ x \in Nat /\ x <= Len(held) /\ i \in 1 .. x /\ j = Len(held) - x + i
    BY <1>2
  <2>2. Len(held) \in Nat  BY Counts DEF KeyframeInv
  <2> HIDE DEF j, x
  <2>3. j \in 1 .. Len(held) /\ j > Len(held) - x  BY <2>1, <2>2
  <2>4. On(drawn, replayEnd, held[j], kf.grid)  BY <2>3 DEF KeyframeInv, WindowOn, x
  <2> QED  BY <2>1, <2>4 DEF On
<1> QED  BY <1>3, <1>4 DEF RestoreIsWhole, KeyframeInv

\* A server's restore point is of its type throughout: model, window, marks and
\* the seeders' progress (session_screen.go, session_seed.go).
THEOREM RestorePointTypeCorrect == KeyframeSpec => []KeyframeTypeOK
<1>1. KeyframeInv => KeyframeTypeOK
  <2> SUFFICES ASSUME KeyframeInv  PROVE KeyframeTypeOK  OBVIOUS
  <2>1. kf.at \in 0 .. seq  BY Counts DEF KeyframeInv
  <2>2. \A k \in Attaches : seeder[k].pc \in Asking  BY SeederParts DEF KeyframeInv, KeyframeTyped
  <2>3. kf.model = NoModel \/ kf.model \in Seq(Value)  BY ModelTypes DEF KeyframeInv, KeyframeTyped
  <2>4. kf.grid \in TermSizes /\ kf.gen \in Nat  BY ModelTypes DEF KeyframeInv, KeyframeTyped
  <2> QED  BY <2>1, <2>2, <2>3, <2>4 DEF KeyframeInv, KeyframeTyped, KeyframeTypeOK, Value, Asking
<1> QED  BY <1>1, InvInit, KeyframeInvInductive, PTL DEF KeyframeSpec

\* Whatever drops, re-attachments, resizes, gaps and snapshots came before, a
\* browser that connects is sent a model and a window that join without a byte
\* missing or twice, end at the last byte taken in, and were drawn for the
\* model's grid (KeyframeSnapshot, installAt, session_mux.go).
THEOREM RestoreAlwaysWhole == KeyframeSpec => []RestoreIsWhole
<1> QED  BY InvInit, KeyframeInvInductive, InvWhole, PTL DEF KeyframeSpec
=============================================================================
