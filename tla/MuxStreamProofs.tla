--------------------------- MODULE MuxStreamProofs ---------------------------
(***************************************************************************)
(* Theorems about MuxStream, for every capacity, grid set and bound.       *)
(*                                                                         *)
(* First the types: no queue outgrows its capacity.  Then the server's     *)
(* copy of a session: it never joins bytes that were not adjacent without  *)
(* the stream knowing, the resume point of a stream that flagged nothing   *)
(* is exact, the exit comes after the last byte, and live bytes land on    *)
(* the grid they were drawn for.  The argument is CopyInv: as long as      *)
(* nothing was flagged, the events, then the wire, then the daemon's queue *)
(* continue the copy up to the session's last byte; GridsInOrder says the  *)
(* same of grids.                                                          *)
(***************************************************************************)
EXTENDS MuxStream, SequenceTheorems, TLAPS

-----------------------------------------------------------------------------
(***************************************************************************)
(* Queues.                                                                 *)
(***************************************************************************)
\* PushNewestOnFull neither blocks nor outgrows the queue: a queue within its
\* capacity stays within it.
LEMMA PushBounded ==
  ASSUME NEW S, NEW q \in Seq(S), NEW v \in S, NEW cap \in Nat \ {0}, Len(q) <= cap
  PROVE  /\ PushNewestOnFull(q, cap, v) \in Seq(S)
         /\ Len(PushNewestOnFull(q, cap, v)) <= cap
<1>1. CASE Len(q) < cap
  BY <1>1, AppendProperties DEF PushNewestOnFull
<1>2. CASE ~(Len(q) < cap)
  <2>1. q # << >>  BY <1>2
  <2>2. Tail(q) \in Seq(S) /\ Len(Tail(q)) = Len(q) - 1  BY <2>1, HeadTailProperties
  <2>3. Append(Tail(q), v) \in Seq(S) /\ Len(Append(Tail(q), v)) = Len(q)
    BY <2>2, AppendProperties
  <2> QED  BY <1>2, <2>3 DEF PushNewestOnFull
<1> QED  BY <1>1, <1>2

\* Taking the head of a queue leaves a shorter queue of frames.
LEMMA TakeHead ==
  ASSUME NEW q \in Seq(Frame), q # << >>
  PROVE  /\ Head(q) \in Frame /\ Tail(q) \in Seq(Frame)
         /\ Len(Tail(q)) = Len(q) - 1 /\ Len(q) > 0
BY HeadTailProperties

\* What PushNewestOnFull throws away is the kind of one frame of the queue.
LEMMA EvictedKinds ==
  ASSUME NEW q \in Seq(Frame), NEW cap \in Nat \ {0}
  PROVE  Evicted(q, cap) \subseteq Kinds
<1>1. CASE Evicts(q, cap)
  <2>1. q # << >>  BY <1>1 DEF Evicts
  <2>2. Head(q) \in Frame  BY <2>1, TakeHead
  <2> QED  BY <1>1, <2>2 DEF Evicted, Frame
<1> QED  BY <1>1 DEF Evicted

\* The first k frames of what is on the wire.
LEMMA Prefix ==
  ASSUME NEW q \in Seq(Frame), NEW k \in 0 .. Len(q)
  PROVE  /\ SubSeq(q, 1, k) \in Seq(Frame) /\ Len(SubSeq(q, 1, k)) = k
         /\ \A i \in 1 .. k : SubSeq(q, 1, k)[i] = q[i]
BY SubSeqProperties

\* A frame the daemon or the client makes up is a frame.
LEMMA FrameTypes ==
  ASSUME NEW lo \in Nat, NEW hi \in Nat, lo <= hi, NEW g \in Grids
  PROVE  /\ DataFrame(lo, hi, g) \in Frame /\ DataFrame(lo, hi, NoGrid) \in Frame
         /\ GapFrame(lo, hi, g) \in Frame /\ GapFrame(lo, hi, NoGrid) \in Frame
         /\ ResizeFrame(lo, g) \in Frame /\ ExitFrame(lo, g) \in Frame
BY DEF DataFrame, GapFrame, ResizeFrame, ExitFrame, Frame, Kinds

-----------------------------------------------------------------------------
(***************************************************************************)
(* Type correctness: TypeOK is inductive.                                  *)
(***************************************************************************)
\* A group of variables a step leaves alone keeps its types.
LEMMA Kept ==
  ASSUME TypeOK
  PROVE  /\ UNCHANGED session => SessionType'
         /\ UNCHANGED link    => LinkType'
         /\ UNCHANGED stream  => StreamType'
         /\ UNCHANGED server  => ServerType'
         /\ UNCHANGED history => HistoryType'
         /\ UNCHANGED budget  => BudgetType'
<1>1. UNCHANGED session => SessionType'  BY DEF TypeOK, session, SessionType
<1>2. UNCHANGED link => LinkType'        BY DEF TypeOK, link, LinkType
<1>3. UNCHANGED stream => StreamType'    BY DEF TypeOK, stream, StreamType
<1>4. UNCHANGED server => ServerType'    BY DEF TypeOK, server, ServerType
<1>5. UNCHANGED history => HistoryType'  BY DEF TypeOK, history, HistoryType
<1>6. UNCHANGED budget => BudgetType'    BY DEF TypeOK, budget, BudgetType
<1> QED  BY <1>1, <1>2, <1>3, <1>4, <1>5, <1>6

LEMMA ControlPushed ==
  ASSUME TypeOK, NEW f \in Frame, PushControl(f)
  PROVE  queue' \in Seq(Frame) /\ Len(queue') <= SubCap /\ lost' \in SUBSET Kinds
<1>1. SubCap \in Nat \ {0}  BY StreamAssumption
<1>2. queue \in Seq(Frame) /\ Len(queue) <= SubCap /\ lost \in SUBSET Kinds
  BY DEF TypeOK, LinkType, HistoryType
<1> QED  BY <1>1, <1>2, PushBounded, EvictedKinds DEF PushControl

LEMMA EventPushed ==
  ASSUME TypeOK, NEW f \in Frame, PushEvent(f)
  PROVE  events' \in Seq(Frame) /\ Len(events') <= EvCap /\ lost' \in SUBSET Kinds
<1>1. EvCap \in Nat \ {0}  BY StreamAssumption
<1>2. events \in Seq(Frame) /\ Len(events) <= EvCap /\ lost \in SUBSET Kinds
  BY DEF TypeOK, StreamType, HistoryType
<1> QED  BY <1>1, <1>2, PushBounded, EvictedKinds DEF PushEvent

LEMMA OutputType == ASSUME TypeOK, NEW n \in 1 .. MaxChunk, Output(n)  PROVE TypeOK'
<1>1. n \in Nat /\ SubCap \in Nat \ {0} /\ Reserve \in Nat  BY StreamAssumption
<1>2. seq \in Nat /\ seq + n \in Nat /\ seq <= seq + n /\ grid \in Grids
  BY <1>1 DEF TypeOK, SessionType
<1>3. DataFrame(seq, seq + n, grid) \in Frame /\ GapFrame(seq, seq + n, grid) \in Frame
  BY <1>2, FrameTypes
<1>4. queue' \in Seq(Frame) /\ Len(queue') <= SubCap /\ lost' \in SUBSET Kinds
  <2>1. CASE sub = "open" /\ AdmitExpendable(queue, SubCap, Reserve)
    <3>1. queue \in Seq(Frame) /\ lost \in SUBSET Kinds /\ Len(queue) < SubCap
      BY <2>1, <1>1 DEF TypeOK, LinkType, HistoryType, AdmitExpendable
    <3>2. queue' = Append(queue, DataFrame(seq, seq + n, grid)) /\ lost' = lost
      BY <2>1 DEF Output
    <3> QED  BY <3>1, <3>2, <1>1, <1>3, AppendProperties
  <2>2. CASE sub = "open" /\ ~AdmitExpendable(queue, SubCap, Reserve)
    <3>1. PushControl(GapFrame(seq, seq + n, grid))  BY <2>2 DEF Output
    <3> QED  BY <3>1, <1>3, ControlPushed
  <2>3. CASE sub # "open"  BY <2>3 DEF Output, TypeOK, LinkType, HistoryType
  <2> QED  BY <2>1, <2>2, <2>3
<1>5. SessionType'  BY <1>2 DEF Output, TypeOK, SessionType
<1>6. LinkType' /\ HistoryType'  BY <1>4 DEF Output, TypeOK, LinkType, HistoryType
<1> QED  BY <1>5, <1>6, Kept DEF Output, TypeOK

LEMMA ResizeType == ASSUME TypeOK, NEW g \in Grids, Resize(g)  PROVE TypeOK'
<1>1. ResizeFrame(seq, g) \in Frame  BY FrameTypes DEF TypeOK, SessionType
<1>2. queue' \in Seq(Frame) /\ Len(queue') <= SubCap /\ lost' \in SUBSET Kinds
  <2>1. CASE sub = "open"  BY <2>1, <1>1, ControlPushed DEF Resize
  <2>2. CASE sub # "open"  BY <2>2 DEF Resize, TypeOK, LinkType, HistoryType
  <2> QED  BY <2>1, <2>2
<1>3. SessionType' /\ BudgetType'  BY DEF Resize, TypeOK, SessionType, BudgetType
<1>4. LinkType' /\ HistoryType'  BY <1>2 DEF Resize, TypeOK, LinkType, HistoryType
<1> QED  BY <1>3, <1>4, Kept DEF Resize, TypeOK

LEMMA FinishType == ASSUME TypeOK, ProcessExit \/ Destroy  PROVE TypeOK'
<1>1. SessionType' /\ LinkType'
  BY DEF ProcessExit, Destroy, Finish, TypeOK, SessionType, LinkType
<1> QED  BY <1>1, Kept DEF ProcessExit, Destroy, TypeOK

LEMMA ForwardType == ASSUME TypeOK, Forward \/ ForwardExit  PROVE TypeOK'
<1>1. WireCap \in Nat /\ wire \in Seq(Frame)  BY StreamAssumption DEF TypeOK, LinkType
<1>2. LinkType'
  <2>1. CASE Forward
    <3>1. queue \in Seq(Frame) /\ queue # << >> /\ Len(queue) <= SubCap
      BY <2>1 DEF Forward, TypeOK, LinkType
    <3>2. Head(queue) \in Frame /\ queue' \in Seq(Frame) /\ Len(queue') <= SubCap
      BY <3>1, <2>1, TakeHead, StreamAssumption DEF Forward
    <3>3. wire' \in Seq(Frame) /\ Len(wire') <= WireCap
      BY <3>2, <1>1, <2>1, AppendProperties DEF Forward
    <3> QED  BY <2>1, <3>2, <3>3 DEF Forward, TypeOK, LinkType
  <2>2. CASE ForwardExit
    <3>1. ExitFrame(seq, grid) \in Frame  BY FrameTypes DEF TypeOK, SessionType
    <3>2. wire' \in Seq(Frame) /\ Len(wire') <= WireCap
      BY <3>1, <1>1, <2>2, AppendProperties DEF ForwardExit
    <3> QED  BY <2>2, <3>2 DEF ForwardExit, TypeOK, LinkType
  <2> QED  BY <2>1, <2>2
<1> QED  BY <1>2, Kept DEF Forward, ForwardExit, TypeOK

LEMMA ConnectionLostType ==
  ASSUME TypeOK, NEW k \in 0 .. Len(wire), LoseConnection(k)
  PROVE  LinkType'
<1>1. wire \in Seq(Frame) /\ Len(wire) <= WireCap /\ WireCap \in Nat /\ SubCap \in Nat
  BY StreamAssumption DEF TypeOK, LinkType
<1>2. wire' \in Seq(Frame) /\ Len(wire') = k  BY <1>1, Prefix DEF LoseConnection
<1>3. queue' = << >> /\ sub' = "none" /\ connUp' = FALSE  BY DEF LoseConnection
<1>4. queue' \in Seq(Frame) /\ Len(queue') <= SubCap
  <2>1. << >> \in Seq(Frame) /\ Len(<< >>) = 0  OBVIOUS
  <2> QED  BY <2>1, <1>1, <1>3
<1>5. Len(wire') <= WireCap  BY <1>1, <1>2
<1> QED  BY <1>2, <1>3, <1>4, <1>5 DEF LinkType

LEMMA DropType ==
  ASSUME TypeOK, NEW k \in 0 .. Len(wire), Drop(k) \/ DaemonCrash(k)
  PROVE  TypeOK'
<1>1. LinkType'  BY ConnectionLostType, Kept DEF Drop, DaemonCrash
<1>2. SessionType'
  <2>1. CASE Drop(k)  BY <2>1, Kept DEF Drop
  <2>2. CASE DaemonCrash(k)  BY <2>2 DEF DaemonCrash, TypeOK, SessionType
  <2> QED  BY <2>1, <2>2
<1>3. BudgetType'  BY DEF Drop, DaemonCrash, TypeOK, BudgetType
<1> QED  BY <1>1, <1>2, <1>3, Kept DEF Drop, DaemonCrash, TypeOK

LEMMA ServerRestartType == ASSUME TypeOK, ServerRestart  PROVE TypeOK'
<1>1. LinkType'
  <2>1. 0 \in 0 .. Len(wire)  BY LenProperties DEF TypeOK, LinkType
  <2> QED  BY <2>1, ConnectionLostType DEF ServerRestart
<1>2. StreamType'
  <2>1. EvCap \in Nat  BY StreamAssumption
  <2>2. << >> \in Seq(Frame) /\ Len(<< >>) = 0  OBVIOUS
  <2>3. events' = << >> /\ evOpen' = FALSE /\ consumed' = 0 /\ holed' = FALSE
    BY DEF ServerRestart
  <2>4. events' \in Seq(Frame) /\ Len(events') <= EvCap  BY <2>1, <2>2, <2>3
  <2> QED  BY <2>3, <2>4 DEF StreamType
<1>3. ServerType'
  <2>1. MaxAttempts \in Nat /\ grid \in Grids
    BY StreamAssumption DEF TypeOK, SessionType
  <2>2. copy' = [lo |-> 0, hi |-> 0]  BY DEF ServerRestart, RestartLocalCopy
  <2>3. copy' \in [lo : Nat, hi : Nat]  BY <2>2
  <2>4. /\ phase' \in {"adopting", "exited"} /\ since' = NoOffset /\ tries' = 0
        /\ sawExit' = FALSE /\ kfGrid' = grid
    BY DEF ServerRestart
  <2>5. tries' \in 0 .. MaxAttempts /\ phase' # "reattach"  BY <2>1, <2>4
  <2>6. since' \in Nat \cup {NoOffset} /\ sawExit' \in BOOLEAN  BY <2>4
  <2> QED  BY <2>1, <2>3, <2>4, <2>5, <2>6 DEF ServerType
<1>4. HistoryType' /\ BudgetType'
  <2>1. seam' = FALSE /\ lost' = {}  BY DEF ServerRestart, RestartLocalCopy
  <2>2. BudgetType'  BY DEF ServerRestart, TypeOK, BudgetType
  <2> QED  BY <2>1, <2>2 DEF HistoryType
<1> QED  BY <1>1, <1>2, <1>3, <1>4, Kept DEF ServerRestart, TypeOK

LEMMA ReadType == ASSUME TypeOK, Read  PROVE TypeOK'
<1> DEFINE f == Head(wire)
<1>1. wire \in Seq(Frame) /\ wire # << >> /\ Len(wire) <= WireCap /\ WireCap \in Nat
  BY StreamAssumption DEF Read, TypeOK, LinkType
<1>2. f \in Frame /\ f.lo <= f.hi /\ f.lo \in Nat /\ f.hi \in Nat
  BY <1>1, TakeHead DEF Frame
<1>3. wire' \in Seq(Frame) /\ Len(wire') <= WireCap  BY <1>1, TakeHead DEF Read
<1>4. StreamType' /\ lost' \in SUBSET Kinds
  <2>1. CASE ReadData(f) /\ Len(events) < EvCap
    <3>1. events \in Seq(Frame) /\ consumed \in Nat /\ EvCap \in Nat
      BY StreamAssumption DEF TypeOK, StreamType
    <3>2. events' \in Seq(Frame) /\ Len(events') <= EvCap
      BY <2>1, <3>1, <1>2, AppendProperties DEF ReadData
    <3>3. consumed' \in Nat  BY <2>1, <3>1, <1>2 DEF ReadData
    <3> QED  BY <2>1, <3>2, <3>3 DEF ReadData, TypeOK, StreamType, HistoryType
  <2>2. CASE ReadData(f) /\ ~(Len(events) < EvCap)
    <3>1. GapFrame(f.lo, f.hi, f.grid) \in Frame
      BY <1>2 DEF Frame, GapFrame, Kinds
    <3>2. PushEvent(GapFrame(f.lo, f.hi, f.grid))  BY <2>2 DEF ReadData
    <3> QED  BY <2>2, <3>1, <3>2, EventPushed DEF ReadData, MarkHoled, TypeOK, StreamType
  <2>3. CASE ReadGap(f) \/ ReadResize(f) \/ ReadExit(f)
    <3>1. PushEvent(f)  BY <2>3 DEF ReadGap, ReadResize, ReadExit
    <3> QED
      BY <2>3, <1>2, <3>1, EventPushed
         DEF ReadGap, ReadResize, ReadExit, MarkHoled, TypeOK, StreamType
  <2> QED  BY <2>1, <2>2, <2>3 DEF Read
<1>5. LinkType' /\ HistoryType'  BY <1>3, <1>4 DEF Read, TypeOK, LinkType, HistoryType
<1> QED  BY <1>4, <1>5, Kept DEF Read, TypeOK

LEMMA PumpType == ASSUME TypeOK, Pump  PROVE TypeOK'
<1> DEFINE f == Head(events)
<1>1. events \in Seq(Frame) /\ events # << >> /\ Len(events) <= EvCap /\ EvCap \in Nat
  BY StreamAssumption DEF Pump, TypeOK, StreamType
<1>2. f \in Frame /\ events' \in Seq(Frame) /\ Len(events') <= EvCap
  BY <1>1, TakeHead DEF Pump
<1>3. copy' \in [lo : Nat, hi : Nat] /\ seam' \in BOOLEAN
  <2>1. copy \in [lo : Nat, hi : Nat] /\ seam \in BOOLEAN /\ f.hi \in Nat
    BY <1>2 DEF TypeOK, ServerType, HistoryType, Frame
  <2>2. \/ copy' = [copy EXCEPT !.hi = f.hi] /\ seam' \in BOOLEAN
        \/ copy' = copy /\ seam' = seam
    BY <2>1 DEF Pump, Ingest
  <2> QED  BY <2>1, <2>2
<1>4. sawExit' \in BOOLEAN /\ kfGrid' \in Grids
  BY <1>2 DEF Pump, TypeOK, ServerType, Frame
<1>5. StreamType' /\ ServerType' /\ HistoryType'
  BY <1>2, <1>3, <1>4 DEF Pump, TypeOK, StreamType, ServerType, HistoryType
<1> QED  BY <1>5, Kept DEF Pump, TypeOK

LEMMA PumpDroppedType == ASSUME TypeOK, PumpDropped  PROVE TypeOK'
<1>1. since' \in Nat \cup {NoOffset} /\ seam' \in BOOLEAN /\ copy' \in [lo : Nat, hi : Nat]
  <2>1. CASE holed
    <3>1. since' = NoOffset /\ seam' = FALSE  BY <2>1 DEF PumpDropped, RestartLocalCopy
    <3>2. copy' = [lo |-> 0, hi |-> 0]  BY <2>1 DEF PumpDropped, RestartLocalCopy
    <3> QED  BY <3>1, <3>2
  <2>2. CASE ~holed
    BY <2>2 DEF PumpDropped, TypeOK, StreamType, ServerType, HistoryType
  <2> QED  BY <2>1, <2>2
<1>2. tries' < MaxAttempts /\ tries' \in 0 .. MaxAttempts
  BY StreamAssumption DEF PumpDropped
<1>3. ServerType'  BY <1>1, <1>2 DEF PumpDropped, TypeOK, ServerType
<1>4. HistoryType'  BY <1>1 DEF PumpDropped, TypeOK, HistoryType
<1> QED  BY <1>3, <1>4, Kept DEF PumpDropped, TypeOK

LEMMA AttachType ==
  ASSUME TypeOK, NEW from \in 0 .. seq, NEW g \in Grids, Attach(from, g)
  PROVE  TypeOK'
<1>1. SubCap \in Nat \ {0} /\ WireCap \in Nat \ {0, 1} /\ EvCap \in Nat
  BY StreamAssumption
<1>2. from \in Nat /\ seq \in Nat /\ from <= seq /\ grid \in Grids
  BY DEF TypeOK, SessionType
<1>3. /\ DataFrame(from, seq, NoGrid) \in Frame
      /\ ResizeFrame(seq, g) \in Frame /\ ExitFrame(seq, g) \in Frame
  BY <1>2, FrameTypes
<1>4. queue' \in Seq(Frame) /\ Len(queue') <= SubCap  BY <1>1, <1>3 DEF Attach
<1>5. wire' \in Seq(Frame) /\ Len(wire') <= WireCap
  <2> DEFINE replay == IF from < seq THEN << DataFrame(from, seq, NoGrid) >> ELSE << >>
             end    == IF alive THEN << >> ELSE << ExitFrame(seq, g) >>
  <2>1. replay \in Seq(Frame) /\ Len(replay) <= 1  BY <1>3
  <2>2. end \in Seq(Frame) /\ Len(end) <= 1  BY <1>3
  <2>3. wire' = replay \o end  BY DEF Attach
  <2> HIDE DEF replay, end
  <2> QED  BY <2>1, <2>2, <2>3, <1>1, ConcatProperties
<1>6. copy' \in [lo : Nat, hi : Nat] /\ HistoryType'
  <2>1. CASE from = since
    BY <2>1 DEF Attach, TypeOK, ServerType, HistoryType
  <2>2. CASE from # since
    <3>1. copy' = [lo |-> from, hi |-> from]  BY <2>2 DEF Attach, RestartLocalCopy
    <3>2. seam' = FALSE /\ lost' = {}  BY <2>2 DEF Attach, RestartLocalCopy
    <3> QED  BY <3>1, <3>2, <1>2 DEF HistoryType
  <2> QED  BY <2>1, <2>2
<1>7. SessionType' /\ LinkType'
  BY <1>4, <1>5 DEF Attach, TypeOK, SessionType, LinkType
<1>8. StreamType'
  <2>1. << >> \in Seq(Frame) /\ Len(<< >>) = 0  OBVIOUS
  <2>2. events' = << >> /\ evOpen' = TRUE /\ consumed' = from /\ holed' = FALSE
    BY DEF Attach
  <2>3. events' \in Seq(Frame) /\ Len(events') <= EvCap  BY <2>1, <2>2, <1>1
  <2> QED  BY <2>2, <2>3, <1>2 DEF StreamType
<1>9. ServerType'  BY <1>6 DEF Attach, TypeOK, ServerType
<1> QED  BY <1>6, <1>7, <1>8, <1>9, Kept DEF Attach, TypeOK

LEMMA AttachFailsType == ASSUME TypeOK, AttachFails  PROVE TypeOK'
<1>1. /\ tries' \in 0 .. MaxAttempts
      /\ phase' = "reattach" => tries' < MaxAttempts
      /\ phase' \in {"adopting", "attached", "reattach", "exited", "gaveup"}
  BY StreamAssumption DEF AttachFails, TypeOK, ServerType
<1>2. ServerType'  BY <1>1 DEF AttachFails, TypeOK, ServerType
<1> QED  BY <1>2, Kept DEF AttachFails, TypeOK

LEMMA InitType == Init => TypeOK
<1> SUFFICES ASSUME Init  PROVE TypeOK
  OBVIOUS
<1>1. << >> \in Seq(Frame) /\ Len(<< >>) = 0  OBVIOUS
<1>2. SubCap \in Nat /\ WireCap \in Nat /\ EvCap \in Nat /\ MaxAttempts \in Nat /\ MaxSeq \in Nat
  BY StreamAssumption
<1>3. SessionType /\ BudgetType  BY <1>2 DEF Init, SessionType, BudgetType
<1>4. LinkType /\ StreamType
  <2>1. queue = << >> /\ wire = << >> /\ events = << >>  BY DEF Init
  <2>2. /\ queue \in Seq(Frame) /\ Len(queue) <= SubCap
        /\ wire \in Seq(Frame) /\ Len(wire) <= WireCap
        /\ events \in Seq(Frame) /\ Len(events) <= EvCap
    BY <2>1, <1>1, <1>2
  <2> QED  BY <2>2 DEF Init, LinkType, StreamType
<1>5. ServerType /\ HistoryType
  <2>1. copy = [lo |-> 0, hi |-> 0] /\ lost = {}  BY DEF Init
  <2>2. copy \in [lo : Nat, hi : Nat] /\ lost \in SUBSET Kinds  BY <2>1
  <2>3. tries = 0 /\ phase = "adopting" /\ since = NoOffset /\ kfGrid \in Grids
        /\ sawExit = FALSE /\ seam = FALSE
    BY DEF Init
  <2>4. tries \in 0 .. MaxAttempts /\ (phase = "reattach" => tries < MaxAttempts)  BY <1>2, <2>3
  <2>5. since \in Nat \cup {NoOffset}  BY <2>3
  <2>6. seam \in BOOLEAN /\ sawExit \in BOOLEAN  BY <2>3
  <2> QED  BY <2>2, <2>3, <2>4, <2>5, <2>6 DEF ServerType, HistoryType
<1> QED  BY <1>3, <1>4, <1>5 DEF TypeOK

LEMMA NextType == TypeOK /\ [Next]_vars => TypeOK'
<1> SUFFICES ASSUME TypeOK, [Next]_vars  PROVE TypeOK'
  OBVIOUS
<1>1. CASE \E n \in 1 .. MaxChunk : Output(n)  BY <1>1, OutputType
<1>2. CASE \E g \in Grids : Resize(g)  BY <1>2, ResizeType
<1>3. CASE ProcessExit \/ Destroy  BY <1>3, FinishType
<1>4. CASE Forward \/ ForwardExit  BY <1>4, ForwardType
<1>5. CASE \E k \in 0 .. Len(wire) : Drop(k) \/ DaemonCrash(k)  BY <1>5, DropType
<1>6. CASE Read  BY <1>6, ReadType
<1>7. CASE ReadError
  <2>1. StreamType'  BY <1>7 DEF ReadError, TypeOK, StreamType
  <2> QED  BY <1>7, <2>1, Kept DEF ReadError, TypeOK
<1>8. CASE Pump  BY <1>8, PumpType
<1>9. CASE PumpExited
  <2>1. LinkType' /\ ServerType'  BY <1>9 DEF PumpExited, TypeOK, LinkType, ServerType
  <2> QED  BY <1>9, <2>1, Kept DEF PumpExited, TypeOK
<1>10. CASE PumpDropped  BY <1>10, PumpDroppedType
<1>11. CASE \E from \in 0 .. seq, g \in Grids : Attach(from, g)  BY <1>11, AttachType
<1>12. CASE AttachGone
  <2>1. ServerType'  BY <1>12 DEF AttachGone, TypeOK, ServerType
  <2> QED  BY <1>12, <2>1, Kept DEF AttachGone, TypeOK
<1>13. CASE AttachFails  BY <1>13, AttachFailsType
<1>14. CASE ServerRestart  BY <1>14, ServerRestartType
<1>15. CASE UNCHANGED vars  BY <1>15, Kept DEF vars, TypeOK
<1> QED
  BY <1>1, <1>2, <1>3, <1>4, <1>5, <1>6, <1>7, <1>8, <1>9, <1>10, <1>11, <1>12, <1>13,
     <1>14, <1>15 DEF Next

\* Every state of the model has the types TypeOK gives: among them, no queue
\* ever exceeds its capacity and no run of attempts exceeds the schedule.
THEOREM TypeCorrect == Spec => []TypeOK
BY InitType, NextType, PTL DEF Spec

-----------------------------------------------------------------------------
(***************************************************************************)
(* Sequences of frames that tile an interval.                              *)
(***************************************************************************)
LEMMA FrameFields ==
  ASSUME NEW f \in Frame
  PROVE  /\ f.lo \in Nat /\ f.hi \in Nat /\ f.lo <= f.hi /\ f.kind \in Kinds
         /\ f.kind \in {"resize", "exit"} => f.lo = f.hi
BY DEF Frame

LEMMA TilesNil == \A a : Tiles(<< >>, a, a)
BY DEF Tiles

LEMMA TilesEnd ==
  ASSUME NEW s \in Seq(Frame), NEW a, NEW b, Tiles(s, a, b)
  PROVE  EndOf(s, a) = b
BY DEF Tiles, EndOf

\* A frame that starts where the others end extends the tiling.
LEMMA TilesAppend ==
  ASSUME NEW s \in Seq(Frame), NEW a, NEW f \in Frame, Tiles(s, a, f.lo)
  PROVE  Tiles(Append(s, f), a, f.hi) /\ EndOf(Append(s, f), a) = f.hi
<1> DEFINE t == Append(s, f)
<1>1. /\ t \in Seq(Frame) /\ Len(t) = Len(s) + 1 /\ t[Len(s) + 1] = f
      /\ \A i \in 1 .. Len(s) : t[i] = s[i]
      /\ Len(s) \in Nat /\ t # << >>
  BY AppendProperties
<1> HIDE DEF t
<1>2. CASE s = << >>
  BY <1>1, <1>2 DEF Tiles, EndOf
<1>3. CASE s # << >>
  <2>1. Len(s) > 0  BY <1>3, <1>1
  <2>2. t[1] = s[1] /\ s[1].lo = a /\ s[Len(s)].hi = f.lo  BY <1>1, <1>3, <2>1 DEF Tiles
  <2>3. ASSUME NEW i \in 1 .. Len(t) - 1  PROVE t[i].hi = t[i + 1].lo
    <3>1. CASE i = Len(s)  BY <3>1, <1>1, <2>1, <2>2
    <3>2. CASE i # Len(s)
      <4>1. i \in 1 .. Len(s) - 1 /\ i + 1 \in 1 .. Len(s)  BY <3>2, <1>1, <2>3
      <4>2. t[i] = s[i] /\ t[i + 1] = s[i + 1]  BY <4>1, <1>1
      <4> QED  BY <4>1, <4>2, <1>3 DEF Tiles
    <3> QED  BY <3>1, <3>2
  <2> QED  BY <1>1, <2>1, <2>2, <2>3 DEF Tiles, EndOf
<1> QED  BY <1>2, <1>3 DEF t

\* Without its first frame, the tiling starts where that frame ended.
LEMMA TilesTail ==
  ASSUME NEW s \in Seq(Frame), s # << >>, NEW a, NEW b, Tiles(s, a, b)
  PROVE  /\ Head(s).lo = a
         /\ Tiles(Tail(s), Head(s).hi, b)
         /\ EndOf(Tail(s), Head(s).hi) = b
<1> DEFINE t == Tail(s)
<1>1. /\ t \in Seq(Frame) /\ Len(t) = Len(s) - 1 /\ Head(s) = s[1] /\ Len(s) \in Nat
      /\ Len(s) > 0 /\ \A i \in 1 .. Len(t) : t[i] = s[i + 1]
  BY HeadTailProperties
<1> HIDE DEF t
<1>2. Head(s).lo = a  BY <1>1 DEF Tiles
<1>3. CASE Len(s) = 1
  <2>1. t = << >>  BY <1>1, <1>3
  <2> QED  BY <1>1, <1>2, <1>3, <2>1 DEF Tiles, EndOf, t
<1>4. CASE Len(s) # 1
  <2>1. Len(t) > 0 /\ t # << >>  BY <1>1, <1>4
  <2>2. t[1].lo = s[1].hi  BY <1>1, <1>4 DEF Tiles
  <2>3. t[Len(t)].hi = b  BY <1>1, <2>1 DEF Tiles
  <2>4. ASSUME NEW i \in 1 .. Len(t) - 1  PROVE t[i].hi = t[i + 1].lo
    <3>1. t[i] = s[i + 1] /\ t[i + 1] = s[i + 2] /\ i + 1 \in 1 .. Len(s) - 1
      BY <1>1, <2>1, <2>4
    <3>2. s[i + 1].hi = s[(i + 1) + 1].lo  BY <3>1, <1>1 DEF Tiles
    <3>3. (i + 1) + 1 = i + 2  OBVIOUS
    <3> QED  BY <3>1, <3>2, <3>3
  <2> QED  BY <1>1, <1>2, <2>1, <2>2, <2>3, <2>4 DEF Tiles, EndOf, t
<1> QED  BY <1>3, <1>4

\* A prefix of a tiling is a tiling.
LEMMA TilesPrefix ==
  ASSUME NEW s \in Seq(Frame), NEW a, NEW b, Tiles(s, a, b), NEW k \in 0 .. Len(s)
  PROVE  Tiles(SubSeq(s, 1, k), a, EndOf(SubSeq(s, 1, k), a))
<1> DEFINE t == SubSeq(s, 1, k)
<1>1. t \in Seq(Frame) /\ Len(t) = k /\ \A i \in 1 .. k : t[i] = s[i]  BY Prefix
<1> HIDE DEF t
<1> SUFFICES Tiles(t, a, EndOf(t, a))
  BY DEF t
<1>2. CASE k = 0
  BY <1>1, <1>2 DEF Tiles, EndOf
<1>3. CASE k # 0
  <2>1. k > 0 /\ s # << >> /\ t # << >> /\ Len(s) \in Nat  BY <1>1, <1>3
  <2>2. t[1].lo = a  BY <1>1, <2>1 DEF Tiles
  <2>3. ASSUME NEW i \in 1 .. Len(t) - 1  PROVE t[i].hi = t[i + 1].lo
    <3>1. t[i] = s[i] /\ t[i + 1] = s[i + 1] /\ i \in 1 .. Len(s) - 1
      BY <1>1, <2>1, <2>3
    <3> QED  BY <3>1, <2>1 DEF Tiles
  <2>4. EndOf(t, a) = t[Len(t)].hi  BY <2>1 DEF EndOf
  <2> QED  BY <2>1, <2>2, <2>3, <2>4 DEF Tiles
<1> QED  BY <1>2, <1>3

\* A frame that stands for no bytes can be pushed onto a tiling; if that evicts
\* a frame, either it stood for no bytes too or it is recorded as lost.
LEMMA TilesPush ==
  ASSUME NEW s \in Seq(Frame), NEW a, NEW b, Tiles(s, a, b),
         NEW f \in Frame, f.lo = b, NEW cap \in Nat \ {0}, Len(s) <= cap,
         Evicted(s, cap) \cap {"data", "gap"} = {}
  PROVE  Tiles(PushNewestOnFull(s, cap, f), a, f.hi)
<1>1. CASE Len(s) < cap
  BY <1>1, TilesAppend DEF PushNewestOnFull
<1>2. CASE ~(Len(s) < cap)
  <2>1. s # << >> /\ Evicts(s, cap)  BY <1>2 DEF Evicts
  <2>2. Head(s) \in Frame /\ Tail(s) \in Seq(Frame)  BY <2>1, TakeHead
  <2>3. Head(s).kind \in {"resize", "exit"}
    BY <2>1, <2>2, FrameFields DEF Evicted, Kinds
  <2>4. Head(s).lo = Head(s).hi  BY <2>2, <2>3, FrameFields
  <2>5. Tiles(Tail(s), a, b)  BY <2>1, <2>4, TilesTail
  <2> QED  BY <1>2, <2>2, <2>5, TilesAppend DEF PushNewestOnFull
<1> QED  BY <1>1, <1>2

-----------------------------------------------------------------------------
(***************************************************************************)
(* CopyInv is inductive.                                                   *)
(***************************************************************************)
Ind == TypeOK /\ CopyInv /\ ClosedWhenDead

\* What Ind says of a stream that flagged nothing.
LEMMA UnflaggedFacts ==
  ASSUME Ind, Unflagged
  PROVE  /\ events \in Seq(Frame) /\ wire \in Seq(Frame) /\ queue \in Seq(Frame)
         /\ Tiles(events, copy.hi, consumed)
         /\ \A i \in 1 .. Len(events) : events[i].kind # "gap"
         /\ evOpen => Tiles(wire, consumed, EndOf(wire, consumed))
         /\ evOpen /\ sub # "none" => Tiles(queue, EndOf(wire, consumed), seq)
BY DEF Ind, CopyInv, EventsTile, WireTiles, TypeOK, LinkType, StreamType

\* Nothing here un-flags a stream that stays attached.
LEMMA FlagsStay ==
  ASSUME UNCHANGED phase, lost \subseteq lost', holed => holed'
  PROVE  /\ Missing => Missing'
         /\ Unflagged' => Unflagged
BY DEF Missing, Unflagged

\* Steps of the daemon that only touch its queue and sub leave the server's side
\* of the invariant alone.
LEMMA QueueStep ==
  ASSUME Ind, UNCHANGED <<wire, stream, server, seam>>, lost \subseteq lost',
         Unflagged' /\ evOpen /\ sub' # "none" =>
           Tiles(queue', EndOf(wire, consumed), seq')
  PROVE  CopyInv'
<1>1. /\ Missing => Missing'
      /\ Unflagged' => Unflagged
      /\ phase' = phase /\ holed' = holed /\ events' = events /\ consumed' = consumed
      /\ wire' = wire /\ evOpen' = evOpen /\ copy' = copy /\ since' = since /\ seam' = seam
  BY FlagsStay DEF stream, server
<1>2. SeamFlagged'  BY <1>1 DEF Ind, CopyInv, SeamFlagged
<1>3. EventsTile'
  <2> SUFFICES ASSUME Unflagged'
               PROVE /\ Tiles(events', copy'.hi, consumed')
                     /\ \A i \in 1 .. Len(events') : events'[i].kind # "gap"
    BY DEF EventsTile
  <2> QED  BY <1>1, UnflaggedFacts
<1>4. WireTiles'
  <2> SUFFICES ASSUME Unflagged', evOpen'
               PROVE /\ Tiles(wire', consumed', EndOf(wire', consumed'))
                     /\ sub' # "none" => Tiles(queue', EndOf(wire', consumed'), seq')
    BY DEF WireTiles
  <2> QED  BY <1>1, UnflaggedFacts
<1>5. ResumeKnown'  BY <1>1 DEF Ind, CopyInv, ResumeKnown
<1> QED  BY <1>2, <1>3, <1>4, <1>5 DEF CopyInv

LEMMA OutputCopy == ASSUME Ind, NEW n \in 1 .. MaxChunk, Output(n)  PROVE CopyInv'
<1>1. n \in Nat /\ SubCap \in Nat \ {0} /\ Reserve \in Nat  BY StreamAssumption
<1>2. seq \in Nat /\ seq <= seq + n /\ seq + n \in Nat /\ grid \in Grids
  BY <1>1 DEF Ind, TypeOK, SessionType
<1>3. UNCHANGED <<wire, stream, server, seam, sub>> /\ seq' = seq + n  BY DEF Output
<1>4. lost \subseteq lost'  BY DEF Output, PushControl
<1>5. ASSUME Unflagged', evOpen, sub' # "none"
      PROVE Tiles(queue', EndOf(wire, consumed), seq')
  <2>1. Unflagged  BY <1>3, <1>4, <1>5, FlagsStay DEF server, stream
  <2>2. queue \in Seq(Frame) /\ Tiles(queue, EndOf(wire, consumed), seq) /\ Len(queue) <= SubCap
    BY <2>1, <1>3, <1>5, UnflaggedFacts DEF Ind, TypeOK, LinkType
  <2>3. CASE queue' = Append(queue, DataFrame(seq, seq + n, grid))
    <3>1. DataFrame(seq, seq + n, grid) \in Frame  BY <1>2, FrameTypes
    <3>2. DataFrame(seq, seq + n, grid).lo = seq /\ DataFrame(seq, seq + n, grid).hi = seq + n
      BY DEF DataFrame
    <3> QED  BY <1>3, <2>2, <2>3, <3>1, <3>2, TilesAppend
  <2>4. CASE PushControl(GapFrame(seq, seq + n, grid))
    <3>1. GapFrame(seq, seq + n, grid) \in Frame  BY <1>2, FrameTypes
    <3>2. GapFrame(seq, seq + n, grid).lo = seq /\ GapFrame(seq, seq + n, grid).hi = seq + n
      BY DEF GapFrame
    <3>3. Evicted(queue, SubCap) \cap {"data", "gap"} = {}
      BY <1>5, <2>4 DEF PushControl, Unflagged, Missing
    <3>4. queue' = PushNewestOnFull(queue, SubCap, GapFrame(seq, seq + n, grid))
      BY <2>4 DEF PushControl
    <3> QED  BY <1>1, <1>3, <2>2, <3>1, <3>2, <3>3, <3>4, TilesPush
  <2>5. CASE sub # "open" /\ queue' = queue
    <3>1. sub = "closed" /\ alive  BY <2>5, <1>3, <1>5 DEF Output, Ind, TypeOK, LinkType
    <3> QED  BY <3>1 DEF Ind, ClosedWhenDead
  <2> QED  BY <2>3, <2>4, <2>5 DEF Output
<1> QED  BY <1>3, <1>4, <1>5, QueueStep

LEMMA ResizeCopy == ASSUME Ind, NEW g \in Grids, Resize(g)  PROVE CopyInv'
<1>1. SubCap \in Nat \ {0}  BY StreamAssumption
<1>2. UNCHANGED <<wire, stream, server, seam, sub>> /\ seq' = seq  BY DEF Resize
<1>3. lost \subseteq lost'  BY DEF Resize, PushControl
<1>4. ASSUME Unflagged', evOpen, sub' # "none"
      PROVE Tiles(queue', EndOf(wire, consumed), seq')
  <2>1. Unflagged  BY <1>2, <1>3, <1>4, FlagsStay DEF server, stream
  <2>2. queue \in Seq(Frame) /\ Tiles(queue, EndOf(wire, consumed), seq) /\ Len(queue) <= SubCap
    BY <2>1, <1>2, <1>4, UnflaggedFacts DEF Ind, TypeOK, LinkType
  <2>3. CASE sub = "open"
    <3>1. ResizeFrame(seq, g) \in Frame  BY FrameTypes DEF Ind, TypeOK, SessionType
    <3>2. ResizeFrame(seq, g).lo = seq /\ ResizeFrame(seq, g).hi = seq  BY DEF ResizeFrame
    <3>3. PushControl(ResizeFrame(seq, g))  BY <2>3 DEF Resize
    <3>4. Evicted(queue, SubCap) \cap {"data", "gap"} = {}
      BY <1>4, <3>3 DEF PushControl, Unflagged, Missing
    <3>5. queue' = PushNewestOnFull(queue, SubCap, ResizeFrame(seq, g))
      BY <3>3 DEF PushControl
    <3> QED  BY <1>1, <1>2, <2>2, <3>1, <3>2, <3>4, <3>5, TilesPush
  <2>4. CASE sub # "open"
    <3>1. sub = "closed" /\ alive  BY <2>4, <1>2, <1>4 DEF Resize, Ind, TypeOK, LinkType
    <3> QED  BY <3>1 DEF Ind, ClosedWhenDead
  <2> QED  BY <2>3, <2>4
<1> QED  BY <1>2, <1>3, <1>4, QueueStep

LEMMA FinishCopy == ASSUME Ind, ProcessExit \/ Destroy  PROVE CopyInv'
<1>1. /\ UNCHANGED <<wire, stream, server, seam, queue>> /\ seq' = seq /\ lost' = lost
      /\ sub' # "none" => sub # "none"
  BY DEF ProcessExit, Destroy, Finish, history, session
<1>2. Unflagged' => Unflagged  BY <1>1, FlagsStay DEF server, stream
<1> QED  BY <1>1, <1>2, UnflaggedFacts, QueueStep

\* A step of the daemon's forwarder or of the connection: the wire changes, and
\* what is on it still continues consumed.
LEMMA WireStep ==
  ASSUME Ind, UNCHANGED <<stream, server, seam, lost>>,
         Unflagged /\ evOpen =>
           /\ Tiles(wire', consumed, EndOf(wire', consumed))
           /\ sub' # "none" => Tiles(queue', EndOf(wire', consumed), seq')
  PROVE  CopyInv'
<1>1. /\ Missing' <=> Missing
      /\ Unflagged' <=> Unflagged
      /\ phase' = phase /\ holed' = holed /\ events' = events /\ consumed' = consumed
      /\ evOpen' = evOpen /\ copy' = copy /\ since' = since /\ seam' = seam
  BY DEF stream, server, Missing, Unflagged
<1>2. SeamFlagged'  BY <1>1 DEF Ind, CopyInv, SeamFlagged
<1>3. EventsTile'
  <2> SUFFICES ASSUME Unflagged'
               PROVE /\ Tiles(events', copy'.hi, consumed')
                     /\ \A i \in 1 .. Len(events') : events'[i].kind # "gap"
    BY DEF EventsTile
  <2> QED  BY <1>1, UnflaggedFacts
<1>4. WireTiles'
  <2> SUFFICES ASSUME Unflagged', evOpen'
               PROVE /\ Tiles(wire', consumed', EndOf(wire', consumed'))
                     /\ sub' # "none" => Tiles(queue', EndOf(wire', consumed'), seq')
    BY DEF WireTiles
  <2> QED  BY <1>1
<1>5. ResumeKnown'  BY <1>1 DEF Ind, CopyInv, ResumeKnown
<1> QED  BY <1>2, <1>3, <1>4, <1>5 DEF CopyInv

LEMMA ForwardCopy == ASSUME Ind, Forward  PROVE CopyInv'
<1>1. UNCHANGED <<stream, server, seam, lost, sub>> /\ seq' = seq /\ sub # "none"
  BY DEF Forward, history, session
<1>2. /\ wire \in Seq(Frame) /\ queue \in Seq(Frame) /\ queue # << >>
      /\ wire' = Append(wire, Head(queue)) /\ queue' = Tail(queue)
  BY DEF Forward, Ind, TypeOK, LinkType
<1>3. ASSUME Unflagged, evOpen
      PROVE /\ Tiles(wire', consumed, EndOf(wire', consumed))
            /\ Tiles(queue', EndOf(wire', consumed), seq')
  <2>1. /\ Tiles(wire, consumed, EndOf(wire, consumed))
        /\ Tiles(queue, EndOf(wire, consumed), seq)
    BY <1>1, <1>3, UnflaggedFacts
  <2>2. Head(queue) \in Frame  BY <1>2, TakeHead
  <2>3. Head(queue).lo = EndOf(wire, consumed) /\ Tiles(Tail(queue), Head(queue).hi, seq)
    BY <1>2, <2>1, TilesTail
  <2>4. Tiles(wire', consumed, Head(queue).hi) /\ EndOf(wire', consumed) = Head(queue).hi
    BY <1>2, <2>1, <2>2, <2>3, TilesAppend
  <2> QED  BY <1>1, <1>2, <2>3, <2>4
<1> QED  BY <1>1, <1>3, WireStep

LEMMA ForwardExitCopy == ASSUME Ind, ForwardExit  PROVE CopyInv'
<1>1. /\ UNCHANGED <<stream, server, seam, lost>> /\ sub # "none" /\ sub' = "none"
      /\ queue = << >> /\ wire' = Append(wire, ExitFrame(seq, grid))
  BY DEF ForwardExit, history
<1>2. /\ wire \in Seq(Frame) /\ ExitFrame(seq, grid) \in Frame
      /\ ExitFrame(seq, grid).lo = seq
  BY FrameTypes DEF Ind, TypeOK, LinkType, SessionType, ExitFrame
<1>3. ASSUME Unflagged, evOpen
      PROVE Tiles(wire', consumed, EndOf(wire', consumed))
  <2>1. /\ Tiles(wire, consumed, EndOf(wire, consumed))
        /\ Tiles(queue, EndOf(wire, consumed), seq)
    BY <1>1, <1>3, UnflaggedFacts
  <2>2. EndOf(wire, consumed) = seq  BY <1>1, <2>1 DEF Tiles
  <2> QED  BY <1>1, <1>2, <2>1, <2>2, TilesAppend
<1> QED  BY <1>1, <1>3, WireStep

LEMMA DropCopy ==
  ASSUME Ind, NEW k \in 0 .. Len(wire), Drop(k) \/ DaemonCrash(k)
  PROVE  CopyInv'
<1>1. UNCHANGED <<stream, server, seam, lost>>  BY DEF Drop, DaemonCrash, history
<1>2. CASE LoseConnection(k)
  <2>1. wire' = SubSeq(wire, 1, k) /\ sub' = "none"  BY <1>2 DEF LoseConnection
  <2>2. wire \in Seq(Frame)  BY DEF Ind, TypeOK, LinkType
  <2>3. Unflagged /\ evOpen => Tiles(wire', consumed, EndOf(wire', consumed))
    BY <2>1, <2>2, UnflaggedFacts, TilesPrefix
  <2> QED  BY <1>1, <2>1, <2>3, WireStep
<1>3. CASE DaemonCrash(k) /\ UNCHANGED link
  <2>1. UNCHANGED <<wire, queue, sub, seq>>  BY <1>3 DEF DaemonCrash, link
  <2>2. Unflagged /\ evOpen =>
          /\ Tiles(wire', consumed, EndOf(wire', consumed))
          /\ sub' # "none" => Tiles(queue', EndOf(wire', consumed), seq')
    BY <2>1, UnflaggedFacts
  <2> QED  BY <1>1, <2>2, WireStep
<1> QED  BY <1>2, <1>3 DEF Drop, DaemonCrash

LEMMA ReadCopy == ASSUME Ind, Read  PROVE CopyInv'
<1> DEFINE f == Head(wire)
<1>1. UNCHANGED <<server, seam, queue, sub, seq>> /\ evOpen /\ wire' = Tail(wire)
  BY DEF Read, session
<1>2. /\ wire \in Seq(Frame) /\ wire # << >> /\ events \in Seq(Frame)
      /\ Len(events) <= EvCap /\ EvCap \in Nat \ {0} /\ consumed \in Nat
  BY StreamAssumption DEF Read, Ind, TypeOK, LinkType, StreamType
<1>3. f \in Frame /\ f.lo \in Nat /\ f.hi \in Nat /\ f.lo <= f.hi
  BY <1>2, TakeHead, FrameFields
<1>4. lost \subseteq lost' /\ (holed => holed')
  <2>1. ReadData(f) => lost \subseteq lost' /\ (holed => holed')
    BY DEF ReadData, PushEvent, MarkHoled
  <2>2. ReadGap(f) => lost \subseteq lost' /\ (holed => holed')
    BY DEF ReadGap, PushEvent, MarkHoled
  <2>3. ReadResize(f) \/ ReadExit(f) => lost \subseteq lost' /\ (holed => holed')
    BY DEF ReadResize, ReadExit, PushEvent
  <2> QED  BY <2>1, <2>2, <2>3 DEF Read
<1>5. phase' = phase /\ copy' = copy /\ since' = since  BY <1>1 DEF server
<1>6. (Missing => Missing') /\ (Unflagged' => Unflagged)  BY <1>4, <1>5, FlagsStay
<1>7. SeamFlagged'  BY <1>1, <1>4, <1>6 DEF Ind, CopyInv, SeamFlagged
<1>8. ResumeKnown'  BY <1>1, <1>5, <1>6 DEF Ind, CopyInv, ResumeKnown
<1>9. ASSUME Unflagged'
      PROVE /\ consumed' = f.hi /\ Tiles(events', copy.hi, f.hi)
            /\ \A i \in 1 .. Len(events') : events'[i].kind # "gap"
            /\ Tiles(wire', f.hi, EndOf(wire', f.hi))
            /\ sub # "none" => Tiles(queue, EndOf(wire', f.hi), seq)
  <2>1. /\ Tiles(events, copy.hi, consumed)
        /\ \A i \in 1 .. Len(events) : events[i].kind # "gap"
        /\ Tiles(wire, consumed, EndOf(wire, consumed))
        /\ sub # "none" => Tiles(queue, EndOf(wire, consumed), seq)
    BY <1>1, <1>6, <1>9, UnflaggedFacts
  <2>2. /\ f.lo = consumed /\ Tiles(wire', f.hi, EndOf(wire, consumed))
        /\ EndOf(wire', f.hi) = EndOf(wire, consumed)
    BY <1>1, <1>2, <2>1, TilesTail
  <2>3. ~holed' /\ lost' \cap {"data", "gap"} = {}  BY <1>9 DEF Unflagged, Missing
  <2>4. CASE ReadData(f)
    <3>1. Len(events) < EvCap /\ events' = Append(events, f) /\ consumed' = consumed + (f.hi - f.lo)
      BY <2>3, <2>4 DEF ReadData, MarkHoled
    <3>2. consumed' = f.hi  BY <1>2, <1>3, <2>2, <3>1
    <3>3. Tiles(events', copy.hi, f.hi)  BY <1>2, <1>3, <2>1, <2>2, <3>1, TilesAppend
    <3>4. \A i \in 1 .. Len(events') : events'[i].kind # "gap"
      BY <1>2, <1>3, <2>1, <2>4, <3>1, AppendProperties DEF ReadData
    <3> QED  BY <2>1, <2>2, <3>2, <3>3, <3>4
  <2>5. CASE ReadGap(f)
    BY <2>3, <2>5 DEF ReadGap, MarkHoled
  <2>6. CASE ReadResize(f) \/ ReadExit(f)
    <3>1. /\ f.kind \in {"resize", "exit"} /\ consumed' = consumed
          /\ events' = PushNewestOnFull(events, EvCap, f)
          /\ lost' = lost \cup Evicted(events, EvCap)
      BY <2>6 DEF ReadResize, ReadExit, PushEvent
    <3>2. f.hi = consumed  BY <1>3, <2>2, <3>1, FrameFields
    <3>3. Tiles(events', copy.hi, f.hi)
      BY <1>2, <1>3, <2>1, <2>2, <2>3, <3>1, TilesPush
    <3>4. \A i \in 1 .. Len(events') : events'[i].kind # "gap"
      <4>1. CASE Len(events) < EvCap
        BY <4>1, <1>2, <1>3, <2>1, <3>1, AppendProperties DEF PushNewestOnFull
      <4>2. CASE ~(Len(events) < EvCap)
        <5>1. events # << >>  BY <1>2, <4>2
        <5>2. /\ Tail(events) \in Seq(Frame) /\ Len(Tail(events)) = Len(events) - 1
              /\ \A i \in 1 .. Len(Tail(events)) : Tail(events)[i] = events[i + 1]
          BY <1>2, <5>1, HeadTailProperties
        <5>3. \A i \in 1 .. Len(Tail(events)) : Tail(events)[i].kind # "gap"
          BY <1>2, <2>1, <5>2
        <5>4. events' = Append(Tail(events), f)  BY <3>1, <4>2 DEF PushNewestOnFull
        <5> QED  BY <1>3, <3>1, <5>2, <5>3, <5>4, AppendProperties
      <4> QED  BY <4>1, <4>2
    <3> QED  BY <2>1, <2>2, <3>1, <3>2, <3>3, <3>4
  <2> QED  BY <2>4, <2>5, <2>6 DEF Read
<1>10. EventsTile'  BY <1>5, <1>9 DEF EventsTile
<1>11. WireTiles'
  <2> SUFFICES ASSUME Unflagged'
               PROVE /\ Tiles(wire', consumed', EndOf(wire', consumed'))
                     /\ sub' # "none" => Tiles(queue', EndOf(wire', consumed'), seq')
    BY DEF WireTiles
  <2> QED  BY <1>1, <1>9
<1> QED  BY <1>7, <1>8, <1>10, <1>11 DEF CopyInv

LEMMA ReadErrorCopy == ASSUME Ind, ReadError  PROVE CopyInv'
<1>1. /\ UNCHANGED <<link, events, consumed, holed, server, seam, lost>> /\ evOpen' = FALSE
  BY DEF ReadError, history
<1>2. /\ Missing' <=> Missing
      /\ Unflagged' <=> Unflagged
      /\ phase' = phase /\ holed' = holed /\ events' = events /\ consumed' = consumed
      /\ copy' = copy /\ since' = since /\ seam' = seam
  BY <1>1 DEF server, Missing, Unflagged
<1>3. SeamFlagged'  BY <1>2 DEF Ind, CopyInv, SeamFlagged
<1>4. EventsTile'
  <2> SUFFICES ASSUME Unflagged'
               PROVE /\ Tiles(events', copy'.hi, consumed')
                     /\ \A i \in 1 .. Len(events') : events'[i].kind # "gap"
    BY DEF EventsTile
  <2> QED  BY <1>2, UnflaggedFacts
<1>5. WireTiles'  BY <1>1 DEF WireTiles
<1>6. ResumeKnown'  BY <1>2 DEF Ind, CopyInv, ResumeKnown
<1> QED  BY <1>3, <1>4, <1>5, <1>6 DEF CopyInv

LEMMA PumpCopy == ASSUME Ind, Pump  PROVE CopyInv'
<1> DEFINE f == Head(events)
<1>1. /\ UNCHANGED <<link, evOpen, consumed, holed, phase, since, lost, seq>>
      /\ phase = "attached" /\ events' = Tail(events)
  BY DEF Pump, session
<1>2. events \in Seq(Frame) /\ events # << >> /\ copy \in [lo : Nat, hi : Nat]
  BY DEF Pump, Ind, TypeOK, StreamType, ServerType
<1>3. f \in Frame  BY <1>2, TakeHead
<1>4. (Missing' <=> Missing) /\ (Unflagged' <=> Unflagged)
  BY <1>1 DEF Missing, Unflagged
<1>5. ASSUME Unflagged
      PROVE /\ f.kind # "gap" /\ f.lo = copy.hi
            /\ Tiles(events', f.hi, consumed)
            /\ \A i \in 1 .. Len(events') : events'[i].kind # "gap"
            /\ copy'.hi = f.hi /\ seam' = seam
  <2>1. /\ Tiles(events, copy.hi, consumed)
        /\ \A i \in 1 .. Len(events) : events[i].kind # "gap"
    BY <1>5, UnflaggedFacts
  <2>2. f.lo = copy.hi /\ Tiles(events', f.hi, consumed)
    BY <1>1, <1>2, <2>1, TilesTail
  <2>3. /\ Len(events) \in Nat /\ Len(events) > 0 /\ f = events[1]
        /\ Len(events') = Len(events) - 1
        /\ \A i \in 1 .. Len(events') : events'[i] = events[i + 1]
    BY <1>1, <1>2, HeadTailProperties
  <2>4. f.kind # "gap"  BY <2>1, <2>3
  <2>5. \A i \in 1 .. Len(events') : events'[i].kind # "gap"  BY <2>1, <2>3
  <2>6. CASE f.kind = "data"
    <3>1. copy' = [copy EXCEPT !.hi = f.hi] /\ seam' = (seam \/ f.lo # copy.hi)
      BY <2>6 DEF Pump, Ingest
    <3>2. copy'.hi = f.hi  BY <1>2, <3>1
    <3>3. seam \in BOOLEAN  BY DEF Ind, TypeOK, HistoryType
    <3>4. seam' = seam  BY <2>2, <3>1, <3>3
    <3> QED  BY <2>2, <2>4, <2>5, <3>2, <3>4
  <2>7. CASE f.kind \in {"resize", "exit"}
    <3>1. copy' = copy /\ seam' = seam  BY <2>7 DEF Pump
    <3>2. f.lo = f.hi  BY <1>3, <2>7, FrameFields
    <3> QED  BY <2>2, <2>4, <2>5, <3>1, <3>2
  <2>8. f.kind \in {"data", "resize", "exit"}  BY <1>3, <2>4, FrameFields DEF Kinds
  <2> QED  BY <2>6, <2>7, <2>8
<1>6. SeamFlagged'
  <2>1. CASE Unflagged  BY <2>1, <1>1, <1>4, <1>5 DEF Ind, CopyInv, SeamFlagged
  <2>2. CASE ~Unflagged  BY <2>2, <1>1, <1>4 DEF Unflagged, SeamFlagged
  <2> QED  BY <2>1, <2>2
<1>7. EventsTile'  BY <1>1, <1>4, <1>5 DEF EventsTile
<1>8. WireTiles'
  <2> SUFFICES ASSUME Unflagged', evOpen'
               PROVE /\ Tiles(wire', consumed', EndOf(wire', consumed'))
                     /\ sub' # "none" => Tiles(queue', EndOf(wire', consumed'), seq')
    BY DEF WireTiles
  <2> QED  BY <1>1, <1>4, UnflaggedFacts DEF link
<1>9. ResumeKnown'  BY <1>1 DEF ResumeKnown
<1> QED  BY <1>6, <1>7, <1>8, <1>9 DEF CopyInv

\* A step that ends an attachment, or happens between two: nothing is claimed
\* of the stream, only of the resume point.
LEMMA DetachedStep ==
  ASSUME Ind, phase' # "attached", SeamFlagged', ResumeKnown'
  PROVE  CopyInv'
BY DEF CopyInv, EventsTile, WireTiles, Unflagged

LEMMA PumpDroppedCopy == ASSUME Ind, PumpDropped  PROVE CopyInv'
<1>1. UNCHANGED <<holed, lost>> /\ phase = "attached" /\ phase' = "reattach" /\ events = << >>
  BY DEF PumpDropped, stream
<1>2. CASE holed
  <2>1. since' = NoOffset /\ seam' = FALSE  BY <1>2 DEF PumpDropped, RestartLocalCopy
  <2> QED  BY <1>1, <2>1, DetachedStep DEF SeamFlagged, ResumeKnown
<1>3. CASE ~holed
  <2>1. since' = consumed /\ copy' = copy /\ seam' = seam  BY <1>3 DEF PumpDropped
  <2>2. (Missing' <=> Missing) /\ SeamFlagged  BY <1>1 DEF Missing, Ind, CopyInv
  <2>3. ~Missing => consumed = copy.hi /\ ~seam
    <3> SUFFICES ASSUME ~Missing PROVE consumed = copy.hi /\ ~seam
      OBVIOUS
    <3>1. Tiles(events, copy.hi, consumed)  BY <1>1, <1>3, UnflaggedFacts DEF Unflagged
    <3> QED  BY <1>1, <1>3, <2>2, <3>1 DEF Tiles, SeamFlagged
  <2>4. SeamFlagged'  BY <1>1, <2>1, <2>2 DEF SeamFlagged
  <2>5. ResumeKnown'  BY <1>1, <2>1, <2>2, <2>3 DEF ResumeKnown
  <2> QED  BY <1>1, <2>4, <2>5, DetachedStep
<1> QED  BY <1>2, <1>3

LEMMA EndedCopy == ASSUME Ind, PumpExited \/ AttachGone \/ AttachFails  PROVE CopyInv'
<1>1. UNCHANGED <<holed, lost, seam, since, copy>>
  BY DEF PumpExited, AttachGone, AttachFails, stream, history
<1>2. /\ phase' # "attached" /\ phase' # "adopting"
      /\ phase' = "reattach" => phase = "reattach"
  BY DEF PumpExited, AttachGone, AttachFails
<1>3. Missing' <=> Missing  BY <1>1 DEF Missing
<1>4. SeamFlagged'  BY <1>1, <1>3 DEF Ind, CopyInv, SeamFlagged
<1>5. ResumeKnown'  BY <1>1, <1>2, <1>3 DEF Ind, CopyInv, ResumeKnown
<1> QED  BY <1>2, <1>4, <1>5, DetachedStep

LEMMA ServerRestartCopy == ASSUME Ind, ServerRestart  PROVE CopyInv'
<1>1. phase' \in {"adopting", "exited"} /\ since' = NoOffset /\ seam' = FALSE
  BY DEF ServerRestart, RestartLocalCopy
<1> QED  BY <1>1, DetachedStep DEF SeamFlagged, ResumeKnown

LEMMA TilesOne ==
  ASSUME NEW f \in Frame, NEW a
  PROVE  Tiles(<<f>>, f.lo, f.hi) /\ EndOf(<<f>>, a) = f.hi
BY DEF Tiles, EndOf

\* What is on the wire after an attach: the replay, then the exit of a session
\* that is already dead.
LEMMA ReplayTiles ==
  ASSUME Ind, NEW from \in 0 .. seq, NEW g \in Grids, Attach(from, g)
  PROVE  Tiles(wire', from, seq) /\ EndOf(wire', from) = seq
<1> DEFINE d == DataFrame(from, seq, NoGrid)
           e == ExitFrame(seq, g)
<1>1. seq \in Nat /\ from \in Nat /\ from <= seq  BY DEF Ind, TypeOK, SessionType
<1>2. d \in Frame /\ e \in Frame  BY <1>1, FrameTypes
<1>3. d.lo = from /\ d.hi = seq /\ e.lo = seq /\ e.hi = seq  BY DEF DataFrame, ExitFrame
<1>4. wire' = (IF from < seq THEN <<d>> ELSE << >>) \o (IF alive THEN << >> ELSE <<e>>)
  BY DEF Attach
<1> HIDE DEF d, e
<1>5. CASE from < seq /\ alive
  <2>1. wire' = <<d>>  BY <1>4, <1>5
  <2> QED  BY <1>2, <1>3, <2>1, TilesOne
<1>6. CASE from < seq /\ ~alive
  <2>1. wire' = Append(<<d>>, e)  BY <1>4, <1>6
  <2>2. <<d>> \in Seq(Frame) /\ Tiles(<<d>>, from, e.lo)  BY <1>2, <1>3, TilesOne
  <2> QED  BY <1>2, <1>3, <2>1, <2>2, TilesAppend
<1>7. CASE ~(from < seq) /\ alive
  <2>1. wire' = << >> /\ from = seq  BY <1>1, <1>4, <1>7
  <2> QED  BY <2>1 DEF Tiles, EndOf
<1>8. CASE ~(from < seq) /\ ~alive
  <2>1. wire' = <<e>> /\ from = seq  BY <1>1, <1>4, <1>8
  <2> QED  BY <1>2, <1>3, <2>1, TilesOne
<1> QED  BY <1>5, <1>6, <1>7, <1>8

LEMMA AttachCopy ==
  ASSUME Ind, NEW from \in 0 .. seq, NEW g \in Grids, Attach(from, g)
  PROVE  CopyInv'
<1>1. /\ phase' = "attached" /\ holed' = FALSE /\ events' = << >> /\ consumed' = from
      /\ seq' = seq /\ phase \in {"adopting", "reattach"}
      /\ from # NoOffset
  BY DEF Attach, NoOffset, Ind, TypeOK, SessionType
<1>2. (copy'.hi = from /\ seam' = FALSE) \/ Missing'
  <2>1. CASE from = since
    <3>1. copy' = copy /\ seam' = seam /\ lost' = lost \ {"resize"}  BY <2>1 DEF Attach
    <3>2. Missing' <=> Missing  BY <3>1 DEF Missing
    <3>3. phase = "reattach"  BY <1>1, <2>1 DEF Ind, CopyInv, ResumeKnown
    <3>4. ~Missing => since = copy.hi /\ ~seam
      BY <1>1, <2>1, <3>3 DEF Ind, CopyInv, ResumeKnown
    <3>5. seam \in BOOLEAN  BY DEF Ind, TypeOK, HistoryType
    <3> QED  BY <2>1, <3>1, <3>2, <3>4, <3>5
  <2>2. CASE from # since
    BY <2>2 DEF Attach, RestartLocalCopy
  <2> QED  BY <2>1, <2>2
<1>3. Tiles(wire', from, seq) /\ EndOf(wire', from) = seq  BY ReplayTiles
<1>4. sub' # "none" => Tiles(queue', seq, seq)
  <2>1. CASE g # grid
    <3>1. queue' = <<ResizeFrame(seq, g)>>  BY <2>1 DEF Attach
    <3>2. ResizeFrame(seq, g) \in Frame  BY FrameTypes DEF Ind, TypeOK, SessionType
    <3>3. ResizeFrame(seq, g).lo = seq /\ ResizeFrame(seq, g).hi = seq  BY DEF ResizeFrame
    <3> QED  BY <3>1, <3>2, <3>3, TilesOne
  <2>2. CASE g = grid
    <3>1. queue' = << >>  BY <2>2 DEF Attach
    <3> QED  BY <3>1 DEF Tiles
  <2> QED  BY <2>1, <2>2
<1>5. SeamFlagged'  BY <1>2 DEF SeamFlagged
<1>6. EventsTile'
  <2> SUFFICES ASSUME ~Missing'
               PROVE /\ Tiles(events', copy'.hi, consumed')
                     /\ \A i \in 1 .. Len(events') : events'[i].kind # "gap"
    BY DEF EventsTile, Unflagged
  <2>1. Len(events') = 0  BY <1>1
  <2> QED  BY <1>1, <1>2, <2>1 DEF Tiles
<1>7. WireTiles'  BY <1>1, <1>3, <1>4 DEF WireTiles
<1>8. ResumeKnown'  BY <1>1 DEF ResumeKnown
<1> QED  BY <1>5, <1>6, <1>7, <1>8 DEF CopyInv

\* Only finish closes a subscription's channel, and no session comes back.
LEMMA ClosedStays == ASSUME Ind, Next  PROVE ClosedWhenDead'
BY DEF Ind, ClosedWhenDead, Next, Output, Resize, ProcessExit, Destroy, Finish, Forward,
       ForwardExit, Drop, DaemonCrash, LoseConnection, Read, ReadError, Pump, PumpExited,
       PumpDropped, Attach, AttachGone, AttachFails, ServerRestart, session, link

LEMMA NextCopy == ASSUME Ind, [Next]_vars  PROVE CopyInv'
<1>1. CASE \E n \in 1 .. MaxChunk : Output(n)  BY <1>1, OutputCopy
<1>2. CASE \E g \in Grids : Resize(g)  BY <1>2, ResizeCopy
<1>3. CASE ProcessExit \/ Destroy  BY <1>3, FinishCopy
<1>4. CASE Forward  BY <1>4, ForwardCopy
<1>5. CASE ForwardExit  BY <1>5, ForwardExitCopy
<1>6. CASE \E k \in 0 .. Len(wire) : Drop(k) \/ DaemonCrash(k)  BY <1>6, DropCopy
<1>7. CASE Read  BY <1>7, ReadCopy
<1>8. CASE ReadError  BY <1>8, ReadErrorCopy
<1>9. CASE Pump  BY <1>9, PumpCopy
<1>10. CASE PumpExited \/ AttachGone \/ AttachFails  BY <1>10, EndedCopy
<1>11. CASE PumpDropped  BY <1>11, PumpDroppedCopy
<1>12. CASE \E from \in 0 .. seq, g \in Grids : Attach(from, g)  BY <1>12, AttachCopy
<1>13. CASE ServerRestart  BY <1>13, ServerRestartCopy
<1>14. CASE UNCHANGED vars
  <2>1. UNCHANGED <<stream, server, seam, lost, wire, queue, sub, seq>>
    BY <1>14 DEF vars, link, history, session
  <2>2. Unflagged /\ evOpen =>
          /\ Tiles(wire', consumed, EndOf(wire', consumed))
          /\ sub' # "none" => Tiles(queue', EndOf(wire', consumed), seq')
    BY <2>1, UnflaggedFacts
  <2> QED  BY <2>1, <2>2, WireStep
<1> QED
  BY <1>1, <1>2, <1>3, <1>4, <1>5, <1>6, <1>7, <1>8, <1>9, <1>10, <1>11, <1>12, <1>13,
     <1>14 DEF Next

LEMMA InitCopy == Init => CopyInv /\ ExitIsLast /\ ExitAfterLastByte
<1> SUFFICES ASSUME Init  PROVE CopyInv /\ ExitIsLast /\ ExitAfterLastByte
  OBVIOUS
<1>1. phase = "adopting" /\ seam = FALSE /\ since = NoOffset /\ sawExit = FALSE
      /\ sub = "none"
  BY DEF Init
<1>2. Len(queue) = 0 /\ Len(wire) = 0 /\ Len(events) = 0  BY DEF Init
<1>3. CopyInv
  BY <1>1 DEF CopyInv, SeamFlagged, EventsTile, WireTiles, ResumeKnown, Unflagged
<1>4. ExitIsLast /\ ExitAfterLastByte
  BY <1>1, <1>2 DEF ExitIsLast, ClosedWhenDead, QueueQuiet, WireExit, EventsExit, SeenExit,
                    ExitAfterLastByte
<1> QED  BY <1>3, <1>4

-----------------------------------------------------------------------------
(***************************************************************************)
(* The exit.                                                               *)
(***************************************************************************)
\* What holds of every frame of a sequence holds of every frame left of it, and
\* of the frames of a longer one whose new frame has it too.
LEMMA EachFrame ==
  ASSUME NEW S, NEW s \in Seq(Frame), \A i \in 1 .. Len(s) : s[i] \in S
  PROVE  /\ \A f \in Frame \cap S : \A i \in 1 .. Len(Append(s, f)) : Append(s, f)[i] \in S
         /\ s # << >> => /\ Head(s) \in S
                        /\ \A i \in 1 .. Len(Tail(s)) : Tail(s)[i] \in S
         /\ \A k \in 0 .. Len(s) : \A i \in 1 .. k : SubSeq(s, 1, k)[i] \in S
<1>1. ASSUME NEW f \in Frame \cap S, NEW i \in 1 .. Len(Append(s, f))
      PROVE Append(s, f)[i] \in S
  BY AppendProperties
<1>2. ASSUME s # << >>
      PROVE Head(s) \in S /\ \A i \in 1 .. Len(Tail(s)) : Tail(s)[i] \in S
  <2>1. /\ Len(s) \in Nat /\ Len(s) > 0 /\ Head(s) = s[1] /\ Len(Tail(s)) = Len(s) - 1
        /\ \A i \in 1 .. Len(Tail(s)) : Tail(s)[i] = s[i + 1]
    BY <1>2, HeadTailProperties
  <2> QED  BY <2>1
<1>3. ASSUME NEW k \in 0 .. Len(s), NEW i \in 1 .. k  PROVE SubSeq(s, 1, k)[i] \in S
  BY Prefix
<1> QED  BY <1>1, <1>2, <1>3

\* The same for a push that evicts the oldest frame of a full queue.
LEMMA EachPushed ==
  ASSUME NEW S, NEW s \in Seq(Frame), \A i \in 1 .. Len(s) : s[i] \in S,
         NEW f \in Frame \cap S, NEW cap \in Nat \ {0}
  PROVE  \A i \in 1 .. Len(PushNewestOnFull(s, cap, f)) : PushNewestOnFull(s, cap, f)[i] \in S
<1>1. CASE Len(s) < cap  BY <1>1, EachFrame DEF PushNewestOnFull
<1>2. CASE ~(Len(s) < cap)
  <2>1. s # << >>  BY <1>2
  <2>2. Tail(s) \in Seq(Frame) /\ \A i \in 1 .. Len(Tail(s)) : Tail(s)[i] \in S
    BY <2>1, TakeHead, EachFrame
  <2> QED  BY <1>2, <2>2, EachFrame DEF PushNewestOnFull
<1> QED  BY <1>1, <1>2

Quiet == {f \in Frame : f.kind # "exit"}

LEMMA QuietQueue ==
  ASSUME TypeOK
  PROVE  /\ queue \in Seq(Frame)
         /\ QueueQuiet <=> \A i \in 1 .. Len(queue) : queue[i] \in Quiet
         /\ \A n \in 1 .. MaxChunk : /\ DataFrame(seq, seq + n, grid) \in Quiet
                                    /\ GapFrame(seq, seq + n, grid) \in Quiet
         /\ \A g \in Grids : ResizeFrame(seq, g) \in Quiet
<1>1. queue \in Seq(Frame)  BY DEF TypeOK, LinkType
<1>2. \A i \in 1 .. Len(queue) : queue[i] \in Frame  BY <1>1, ElementOfSeq
<1>3. seq \in Nat /\ grid \in Grids /\ \A n \in 1 .. MaxChunk : seq + n \in Nat /\ seq <= seq + n
  BY StreamAssumption DEF TypeOK, SessionType
<1>4. \A n \in 1 .. MaxChunk : /\ DataFrame(seq, seq + n, grid) \in Quiet
                             /\ GapFrame(seq, seq + n, grid) \in Quiet
  BY <1>3, FrameTypes DEF Quiet, DataFrame, GapFrame
<1>5. \A g \in Grids : ResizeFrame(seq, g) \in Quiet
  BY <1>3, FrameTypes DEF Quiet, ResizeFrame
<1> QED  BY <1>1, <1>2, <1>4, <1>5 DEF QueueQuiet, Quiet

\* The daemon's queue never holds an exit: the forwarder makes it up.
LEMMA QueueStaysQuiet ==
  ASSUME TypeOK, QueueQuiet, Next
  PROVE  \A i \in 1 .. Len(queue') : queue'[i].kind # "exit"
<1>1. /\ queue \in Seq(Frame) /\ Quiet \subseteq Frame /\ SubCap \in Nat \ {0}
      /\ \A i \in 1 .. Len(queue) : queue[i] \in Quiet
  BY QuietQueue, StreamAssumption DEF Quiet
<1>2. \A f \in Quiet : PushControl(f) => \A i \in 1 .. Len(queue') : queue'[i] \in Quiet
  BY <1>1, EachPushed DEF PushControl
<1>3. CASE UNCHANGED queue  BY <1>3 DEF QueueQuiet
<1>4. CASE queue' = << >>
  <2>1. Len(queue') = 0  BY <1>4
  <2> QED  BY <2>1
<1>5. CASE \E n \in 1 .. MaxChunk : Output(n)
  <2>1. PICK n \in 1 .. MaxChunk : Output(n)  BY <1>5
  <2>2. DataFrame(seq, seq + n, grid) \in Quiet /\ GapFrame(seq, seq + n, grid) \in Quiet
    BY QuietQueue
  <2>3. CASE queue' = Append(queue, DataFrame(seq, seq + n, grid))
    <3>1. \A i \in 1 .. Len(queue') : queue'[i] \in Quiet  BY <1>1, <2>2, <2>3, EachFrame
    <3> QED  BY <3>1 DEF Quiet
  <2>4. CASE PushControl(GapFrame(seq, seq + n, grid))  BY <1>2, <2>2, <2>4 DEF Quiet
  <2> QED  BY <1>3, <2>1, <2>3, <2>4 DEF Output
<1>6. CASE \E g \in Grids : Resize(g)
  <2>1. PICK g \in Grids : Resize(g)  BY <1>6
  <2>2. ResizeFrame(seq, g) \in Quiet  BY QuietQueue
  <2>3. CASE sub = "open"  BY <1>2, <2>1, <2>2, <2>3 DEF Resize, Quiet
  <2>4. CASE sub # "open"  BY <1>3, <2>1, <2>4 DEF Resize
  <2> QED  BY <2>3, <2>4
<1>7. CASE Forward
  <2>1. \A i \in 1 .. Len(queue') : queue'[i] \in Quiet  BY <1>1, <1>7, EachFrame DEF Forward
  <2> QED  BY <2>1 DEF Quiet
<1>8. CASE \E from \in 0 .. seq, g \in Grids : Attach(from, g)
  <2>1. PICK from \in 0 .. seq, g \in Grids : Attach(from, g)  BY <1>8
  <2>2. ResizeFrame(seq, g).kind = "resize"  BY DEF ResizeFrame
  <2>3. queue' = <<ResizeFrame(seq, g)>> \/ queue' = << >>  BY <2>1 DEF Attach
  <2> QED  BY <1>4, <2>2, <2>3
<1>9. CASE ProcessExit \/ Destroy \/ ForwardExit \/ Read \/ ReadError \/ Pump \/ PumpExited
             \/ PumpDropped \/ AttachGone \/ AttachFails
  BY <1>3, <1>9 DEF ProcessExit, Destroy, ForwardExit, Read, ReadError, Pump, PumpExited,
                    PumpDropped, AttachGone, AttachFails, link
<1>10. CASE \E k \in 0 .. Len(wire) : Drop(k) \/ DaemonCrash(k)
  BY <1>3, <1>4, <1>10 DEF Drop, DaemonCrash, LoseConnection, link
<1>11. CASE ServerRestart  BY <1>4, <1>11 DEF ServerRestart, LoseConnection
<1> QED  BY <1>5, <1>6, <1>7, <1>8, <1>9, <1>10, <1>11 DEF Next

\* No step produces output, or brings a session back, after its end.
LEMMA DeadStays ==
  ASSUME Next, ~alive
  PROVE  ~alive' /\ seq' = seq
<1>1. CASE UNCHANGED session  BY <1>1 DEF session
<1>2. CASE \E n \in 1 .. MaxChunk : Output(n)  BY <1>2 DEF Output
<1>3. CASE \E g \in Grids : Resize(g)  BY <1>3 DEF Resize
<1>4. CASE ProcessExit \/ Destroy  BY <1>4 DEF ProcessExit, Destroy, Finish
<1>5. CASE \E k \in 0 .. Len(wire) : DaemonCrash(k)  BY <1>5 DEF DaemonCrash
<1>6. CASE \E from \in 0 .. seq, g \in Grids : Attach(from, g)  BY <1>6 DEF Attach
<1> QED
  BY <1>1, <1>2, <1>3, <1>4, <1>5, <1>6 DEF Next, Forward, ForwardExit, Drop, Read, ReadError,
     Pump, PumpExited, PumpDropped, AttachGone, AttachFails, ServerRestart

\* An exit is put on the wire by a dead session, after its last byte.
LEMMA WireStaysLast ==
  ASSUME TypeOK, ExitIsLast, Next
  PROVE  WireExit'
<1> DEFINE Last == {f \in Frame : f.kind = "exit" => ~alive /\ f.hi = seq}
<1>1. wire \in Seq(Frame) /\ queue \in Seq(Frame) /\ Last \subseteq Frame /\ seq \in Nat
  BY DEF TypeOK, LinkType, SessionType
<1>2. \A i \in 1 .. Len(wire) : wire[i] \in Last
  <2>1. \A i \in 1 .. Len(wire) : wire[i] \in Frame  BY <1>1, ElementOfSeq
  <2> QED  BY <2>1 DEF ExitIsLast, WireExit
<1>3. \A f \in Last : f.kind = "exit" => ~alive' /\ f.hi = seq'  BY DeadStays
<1> HIDE DEF Last
<1>4. ASSUME \A i \in 1 .. Len(wire') : wire'[i] \in Last  PROVE WireExit'
  BY <1>3, <1>4 DEF WireExit
<1>5. CASE UNCHANGED wire  BY <1>2, <1>4, <1>5
<1>6. CASE Forward
  <2>1. queue # << >> /\ wire' = Append(wire, Head(queue)) /\ QueueQuiet
    BY <1>6 DEF Forward, ExitIsLast
  <2>2. Head(queue) \in Quiet  BY <1>1, <2>1, QuietQueue, EachFrame
  <2>3. Head(queue) \in Last  BY <2>2 DEF Quiet, Last
  <2> QED  BY <1>1, <1>2, <1>4, <2>1, <2>3, EachFrame
<1>7. CASE ForwardExit
  <2>1. wire' = Append(wire, ExitFrame(seq, grid)) /\ ~alive
    BY <1>7 DEF ForwardExit, ExitIsLast, ClosedWhenDead
  <2>2. ExitFrame(seq, grid) \in Frame /\ ExitFrame(seq, grid).hi = seq
    BY <1>1, FrameTypes DEF TypeOK, SessionType, ExitFrame
  <2>3. ExitFrame(seq, grid) \in Last  BY <2>1, <2>2 DEF Last
  <2> QED  BY <1>1, <1>2, <1>4, <2>1, <2>3, EachFrame
<1>8. CASE \E k \in 0 .. Len(wire) : LoseConnection(k)
  <2>1. PICK k \in 0 .. Len(wire) : wire' = SubSeq(wire, 1, k)  BY <1>8 DEF LoseConnection
  <2>2. Len(wire') = k  BY <1>1, <2>1, Prefix
  <2> QED  BY <1>1, <1>2, <1>4, <2>1, <2>2, EachFrame
<1>9. CASE Read
  <2>1. wire # << >> /\ wire' = Tail(wire)  BY <1>9 DEF Read
  <2> QED  BY <1>1, <1>2, <1>4, <2>1, EachFrame
<1>10. CASE \E from \in 0 .. seq, g \in Grids : Attach(from, g)
  <2>1. PICK from \in 0 .. seq, g \in Grids : Attach(from, g)  BY <1>10
  <2> DEFINE d == DataFrame(from, seq, NoGrid)
             e == ExitFrame(seq, g)
  <2>2. d \in Last
    <3>1. from \in Nat /\ from <= seq /\ d.kind = "data"  BY <1>1 DEF DataFrame
    <3>2. d \in Frame  BY <1>1, <2>1, <3>1, FrameTypes
    <3> QED  BY <3>1, <3>2 DEF Last
  <2>3. ~alive => e \in Last  BY <1>1, FrameTypes DEF ExitFrame, Last
  <2>4. wire' = (IF from < seq THEN <<d>> ELSE << >>) \o (IF alive THEN << >> ELSE <<e>>)
    BY <2>1 DEF Attach
  <2> HIDE DEF d, e
  <2>5. \/ wire' = << >>
        \/ wire' = <<d>>
        \/ ~alive /\ wire' = <<e>>
        \/ ~alive /\ wire' = <<d>> \o <<e>>
    <3>1. CASE alive
      <4>1. wire' = IF from < seq THEN <<d>> ELSE << >>  BY <2>4, <3>1
      <4> QED  BY <4>1
    <3>2. CASE ~alive
      <4>1. wire' = (IF from < seq THEN <<d>> ELSE << >>) \o <<e>>  BY <2>4, <3>2
      <4>2. CASE from < seq
        <5>1. wire' = <<d>> \o <<e>>  BY <4>1, <4>2
        <5> QED  BY <3>2, <5>1
      <4>3. CASE ~(from < seq)
        <5>1. wire' = << >> \o <<e>>  BY <4>1, <4>3
        <5> QED  BY <3>2, <5>1
      <4> QED  BY <4>2, <4>3
    <3> QED  BY <3>1, <3>2
  <2>6. \A i \in 1 .. Len(wire') : wire'[i] \in Last
    <3>1. CASE ~alive /\ wire' = <<d>> \o <<e>>
      <4>1. wire' = Append(<<d>>, e) /\ <<d>> \in Seq(Frame) /\ d \in Last /\ e \in Last \cap Frame
        BY <1>1, <2>2, <2>3, <3>1
      <4>2. \A i \in 1 .. Len(<<d>>) : <<d>>[i] \in Last  BY <2>2
      <4> QED  BY <4>1, <4>2, EachFrame
    <3> QED  BY <2>2, <2>3, <2>5, <3>1
  <2> QED  BY <1>4, <2>6
<1>11. CASE \E n \in 1 .. MaxChunk : Output(n)  BY <1>5, <1>11 DEF Output
<1>12. CASE \E g \in Grids : Resize(g)  BY <1>5, <1>12 DEF Resize
<1>13. CASE ProcessExit \/ Destroy \/ ReadError \/ Pump \/ PumpExited \/ PumpDropped
             \/ AttachGone \/ AttachFails
  BY <1>5, <1>13 DEF ProcessExit, Destroy, ReadError, Pump, PumpExited,
                     PumpDropped, AttachGone, AttachFails, link
<1>14. CASE \E k \in 0 .. Len(wire) : Drop(k) \/ DaemonCrash(k)
  BY <1>5, <1>8, <1>14 DEF Drop, DaemonCrash, link
<1>15. CASE ServerRestart
  <2>1. 0 \in 0 .. Len(wire)  BY <1>1, LenProperties
  <2> QED  BY <1>8, <1>15, <2>1 DEF ServerRestart
<1> QED  BY <1>6, <1>7, <1>9, <1>10, <1>11, <1>12, <1>13, <1>14, <1>15 DEF Next

\* The exit is the last event of the stream, and the pump sees it last.
LEMMA EventsStayLast ==
  ASSUME TypeOK, ExitIsLast, Next
  PROVE  EventsExit' /\ SeenExit'
<1>1. /\ events \in Seq(Frame) /\ wire \in Seq(Frame) /\ EvCap \in Nat \ {0}
      /\ Len(events) \in Nat /\ sawExit \in BOOLEAN
  BY StreamAssumption, LenProperties DEF TypeOK, StreamType, LinkType, ServerType
<1>2. CASE UNCHANGED <<events, sawExit>> /\ (evOpen' => evOpen) /\ (phase' # "reattach" \/ ~sawExit)
  BY <1>2, DeadStays DEF ExitIsLast, EventsExit, SeenExit
<1>3. CASE events' = << >> /\ sawExit' = FALSE
  <2>1. Len(events') = 0  BY <1>3
  <2> QED  BY <1>3, <2>1 DEF EventsExit, SeenExit
<1>4. CASE Read
  <2> DEFINE f == Head(wire)
  <2>1. f \in Frame /\ evOpen /\ UNCHANGED <<sawExit, phase, alive, seq>>
        /\ (f.kind = "exit" => ~alive /\ f.hi = seq)
    <3>1. /\ Len(wire) > 0 /\ Head(wire) = wire[1] /\ wire[1] \in Frame
      BY <1>1, <1>4, HeadTailProperties, ElementOfSeq DEF Read
    <3> QED  BY <1>1, <1>4, <3>1 DEF Read, server, session, ExitIsLast, WireExit
  <2>2. \A i \in 1 .. Len(events) : events[i] \in Quiet
    <3>1. \A i \in 1 .. Len(events) : events[i] \in Frame  BY <1>1, ElementOfSeq
    <3> QED  BY <2>1, <3>1 DEF ExitIsLast, EventsExit, Quiet
  <2>3. Quiet \subseteq Frame  BY DEF Quiet
  <2>4. ~sawExit  BY <2>1 DEF ExitIsLast, SeenExit
  <2>5. CASE ReadExit(f)
    <3>1. events' = PushNewestOnFull(events, EvCap, f) /\ evOpen' = FALSE /\ f.kind = "exit"
      BY <2>5 DEF ReadExit, PushEvent
    <3>2. PICK s \in Seq(Frame) :
             events' = Append(s, f) /\ \A i \in 1 .. Len(s) : s[i] \in Quiet
      <4>1. CASE Len(events) < EvCap  BY <4>1, <1>1, <2>2, <3>1 DEF PushNewestOnFull
      <4>2. CASE ~(Len(events) < EvCap)
        <5>1. events # << >>  BY <1>1, <4>2
        <5>2. Tail(events) \in Seq(Frame) /\ \A i \in 1 .. Len(Tail(events)) : Tail(events)[i] \in Quiet
          BY <1>1, <2>2, <5>1, TakeHead, EachFrame
        <5> QED  BY <3>1, <4>2, <5>2 DEF PushNewestOnFull
      <4> QED  BY <4>1, <4>2
    <3>3. Len(events') = Len(s) + 1 /\ \A i \in 1 .. Len(s) : events'[i] = s[i]
          /\ events'[Len(s) + 1] = f /\ Len(s) \in Nat
      BY <2>1, <3>2, AppendProperties, LenProperties
    <3>4. ASSUME NEW i \in 1 .. Len(events'), events'[i].kind = "exit"
          PROVE i = Len(events') /\ events'[i] = f
      BY <3>2, <3>3, <3>4 DEF Quiet
    <3> QED  BY <2>1, <2>4, <3>1, <3>4 DEF EventsExit, SeenExit
  <2>6. CASE ReadData(f) \/ ReadGap(f) \/ ReadResize(f)
    <3>1. f.lo \in Nat /\ f.hi \in Nat /\ f.lo <= f.hi /\ f.kind # "exit"
      BY <2>1, <2>6, FrameFields DEF ReadData, ReadGap, ReadResize
    <3>2. f \in Quiet  BY <2>1, <3>1 DEF Quiet
    <3>3. GapFrame(f.lo, f.hi, f.grid) \in Quiet
      BY <2>1, <3>1 DEF GapFrame, Quiet, Frame, Kinds
    <3>4. \/ events' = Append(events, f)
          \/ \E e \in Quiet : events' = PushNewestOnFull(events, EvCap, e)
      BY <2>6, <3>2, <3>3 DEF ReadData, ReadGap, ReadResize, PushEvent
    <3>5. \A i \in 1 .. Len(events') : events'[i] \in Quiet
      BY <1>1, <2>1, <2>2, <2>3, <3>2, <3>4, EachFrame, EachPushed
    <3> QED  BY <2>1, <2>4, <3>5 DEF EventsExit, SeenExit, Quiet
  <2> QED  BY <1>4, <2>5, <2>6 DEF Read
<1>5. CASE Pump
  <2> DEFINE f == Head(events)
  <2>1. /\ events # << >> /\ events' = Tail(events) /\ phase' = "attached"
        /\ UNCHANGED <<alive, seq, evOpen>>
    BY <1>5 DEF Pump, session
  <2>2. /\ Len(events) > 0 /\ f = events[1] /\ Len(events') = Len(events) - 1
        /\ \A i \in 1 .. Len(events') : events'[i] = events[i + 1]
    BY <1>1, <2>1, HeadTailProperties
  <2>3. EventsExit'
    <3> SUFFICES ASSUME NEW i \in 1 .. Len(events'), events'[i].kind = "exit"
                 PROVE  ~alive' /\ events'[i].hi = seq' /\ i = Len(events') /\ ~evOpen'
      BY DEF EventsExit
    <3>1. i + 1 \in 1 .. Len(events) /\ events[i + 1].kind = "exit"  BY <1>1, <2>2
    <3>2. ~alive /\ events[i + 1].hi = seq /\ i + 1 = Len(events) /\ ~evOpen
      BY <3>1 DEF ExitIsLast, EventsExit
    <3>3. events'[i] = events[i + 1]  BY <2>2
    <3>4. i = Len(events')  BY <1>1, <2>2, <3>2
    <3> QED  BY <2>1, <3>2, <3>3, <3>4
  <2>4. ~sawExit  BY <2>1 DEF ExitIsLast, SeenExit
  <2>5. SeenExit'
    <3>1. CASE f.kind = "exit"
      <4>1. ~alive /\ ~evOpen /\ 1 = Len(events)
        BY <1>1, <2>2, <3>1 DEF ExitIsLast, EventsExit
      <4>2. events' = << >>  BY <1>1, <2>1, <4>1
      <4> QED  BY <2>1, <4>1, <4>2 DEF SeenExit
    <3>2. CASE f.kind # "exit"
      <4>1. sawExit' = sawExit  BY <1>5, <3>2 DEF Pump
      <4> QED  BY <2>4, <4>1 DEF SeenExit
    <3> QED  BY <3>1, <3>2
  <2> QED  BY <2>3, <2>5
<1>6. CASE UNCHANGED <<events, sawExit, phase>> /\ (evOpen' => evOpen)
  BY <1>2, <1>6 DEF ExitIsLast, SeenExit
<1>7. CASE \E n \in 1 .. MaxChunk : Output(n)
  BY <1>6, <1>7 DEF Output, stream, server
<1>8. CASE \E g \in Grids : Resize(g)
  BY <1>6, <1>8 DEF Resize, stream, server
<1>9. CASE \E k \in 0 .. Len(wire) : Drop(k) \/ DaemonCrash(k)
  BY <1>6, <1>9 DEF Drop, DaemonCrash, stream, server
<1>10. CASE ProcessExit \/ Destroy \/ Forward \/ ForwardExit \/ ReadError
  BY <1>10, <1>6 DEF ProcessExit, Destroy, Forward, ForwardExit, ReadError, stream, server
<1>11. CASE PumpExited \/ PumpDropped \/ AttachGone \/ AttachFails
  <2>1. /\ UNCHANGED <<events, sawExit, evOpen>>
        /\ phase' = "reattach" => ~sawExit
    BY <1>11 DEF PumpExited, PumpDropped, AttachGone, AttachFails, stream, ExitIsLast, SeenExit
  <2> QED  BY <1>2, <2>1
<1>12. CASE \E from \in 0 .. seq, g \in Grids : Attach(from, g)  BY <1>3, <1>12 DEF Attach
<1>13. CASE ServerRestart  BY <1>3, <1>13 DEF ServerRestart
<1> QED  BY <1>4, <1>5, <1>7, <1>8, <1>9, <1>10, <1>11, <1>12, <1>13 DEF Next

\* Once the pump has seen the exit nothing moves, and what it saw before ended
\* with the session's last byte.
LEMMA ExitStaysComplete ==
  ASSUME Ind, ExitIsLast, ExitAfterLastByte, Next
  PROVE  ExitAfterLastByte'
<1>1. /\ events \in Seq(Frame) /\ Len(events) \in Nat /\ sawExit \in BOOLEAN
      /\ copy \in [lo : Nat, hi : Nat]
  BY LenProperties DEF Ind, TypeOK, StreamType, ServerType
<1>2. CASE ~sawExit'  BY <1>2 DEF ExitAfterLastByte
<1>3. CASE sawExit' /\ ~sawExit
  <2> DEFINE f == Head(events)
  <2>1. Pump /\ f.kind = "exit"
    BY <1>3 DEF Next, Output, Resize, ProcessExit, Destroy, Forward, ForwardExit, Drop,
       DaemonCrash, Read, ReadError, Pump, PumpExited, PumpDropped, Attach, AttachGone,
       AttachFails, ServerRestart, server
  <2>2. UNCHANGED <<seq, holed, lost, copy>> /\ events # << >> /\ phase = "attached"
    BY <2>1 DEF Pump, session
  <2>3. /\ Len(events) > 0 /\ f = events[1] /\ f \in Frame
    BY <1>1, <2>2, HeadTailProperties, ElementOfSeq
  <2>4. f.hi = seq /\ f.lo = f.hi
    BY <1>1, <2>1, <2>3, FrameFields DEF ExitIsLast, EventsExit
  <2>5. ~holed /\ ~Missing => f.lo = copy.hi
    BY <1>1, <2>2, UnflaggedFacts, TilesTail DEF Unflagged
  <2> QED  BY <2>2, <2>4, <2>5 DEF ExitAfterLastByte, Missing
<1>4. CASE sawExit' /\ sawExit
  <2>1. ~alive /\ events = << >> /\ ~evOpen /\ phase # "reattach"
    BY <1>4 DEF ExitIsLast, SeenExit
  <2>2. /\ UNCHANGED <<seq, copy, holed>> /\ lost \subseteq lost'
    BY <1>4, <2>1 DEF Next, Output, Resize, ProcessExit, Destroy, Forward, ForwardExit, Drop,
       DaemonCrash, Read, ReadError, Pump, PumpExited, PumpDropped, Attach, AttachGone,
       AttachFails, ServerRestart, session, server, stream, history
  <2> QED  BY <1>4, <2>2 DEF ExitAfterLastByte, Missing
<1> QED  BY <1>2, <1>3, <1>4

-----------------------------------------------------------------------------
(***************************************************************************)
(* Live bytes and the grid they were drawn for.  As long as no resize was  *)
(* pushed out, the events continue the screen model's grid, the wire the   *)
(* events' and the daemon's queue the wire's, up to the session's own.     *)
(***************************************************************************)

\* The bytes of s that name their grid (a replay names none), its resizes.
LiveData(s) == {i \in 1 .. Len(s) : s[i].kind = "data" /\ s[i].grid # NoGrid}
Changes(s)  == {i \in 1 .. Len(s) : s[i].kind = "resize"}

\* From grid a on, each of s's live bytes is for the last grid announced.
Drawn(s, a) ==
  /\ \A i \in LiveData(s) : (\A j \in Changes(s) : i < j) => s[i].grid = a
  /\ \A i \in Changes(s), j \in LiveData(s) :
       i < j /\ (\A k \in Changes(s) : k <= i \/ j <= k) => s[i].grid = s[j].grid

\* From grid a, s leaves grid b.
Ends(s, a, b) ==
  /\ \A i \in Changes(s) : (\A j \in Changes(s) : j <= i) => s[i].grid = b
  /\ Changes(s) = {} => a = b

\* What the reader goroutine has yet to see, after grid g.
Announced(g) ==
  evOpen => /\ Drawn(wire, g)
            /\ sub # "none" => \E h \in Grids : /\ Ends(wire, g, h) /\ Drawn(queue, h)
                                                /\ sub = "open" => Ends(queue, h, grid)

GridsInOrder ==
  phase = "attached" /\ "resize" \notin lost =>
    /\ Drawn(events, kfGrid)
    /\ \E g \in Grids : Ends(events, kfGrid, g) /\ Announced(g)

\* Where a frame leaves a grid.
After(f, a) == IF f.kind = "resize" THEN f.grid ELSE a

\* f's bytes, if it carries live bytes, are for grid a.
Fits(f, a) == f.kind = "data" /\ f.grid # NoGrid => f.grid = a

LEMMA DrawnNil == \A a : Drawn(<< >>, a) /\ Ends(<< >>, a, a)
<1>1. 1 .. Len(<< >>) = {}  OBVIOUS
<1> QED  BY <1>1 DEF Drawn, Ends, LiveData, Changes

LEMMA DrawnAppend ==
  ASSUME NEW s \in Seq(Frame), NEW f \in Frame, NEW a, NEW b,
         Drawn(s, a), Ends(s, a, b), Fits(f, b)
  PROVE  Drawn(Append(s, f), a) /\ Ends(Append(s, f), a, After(f, b))
<1> DEFINE t == Append(s, f)
           n == Len(s) + 1
           D == LiveData(s)
           R == Changes(s)
           E == LiveData(t)
           T == Changes(t)
<1>1. /\ Len(t) = n /\ t[n] = f /\ \A i \in 1 .. Len(s) : t[i] = s[i]
      /\ Len(s) \in Nat
  BY AppendProperties, LenProperties
<1> HIDE DEF t
<1>2. /\ D \subseteq 1 .. Len(s) /\ R \subseteq 1 .. Len(s)
      /\ \A i \in 1 .. n : i # n => i \in 1 .. Len(s)
  BY <1>1 DEF LiveData, Changes
<1>3. /\ \A i \in E : i # n => i \in D
      /\ \A i \in T : i # n => i \in R
      /\ \A i \in D : i \in E /\ t[i] = s[i] /\ i < n
      /\ \A i \in R : i \in T /\ t[i] = s[i] /\ i < n
      /\ E \subseteq 1 .. n /\ T \subseteq 1 .. n
      /\ n \in E <=> f.kind = "data" /\ f.grid # NoGrid
      /\ n \in T <=> f.kind = "resize"
  BY <1>1, <1>2 DEF LiveData, Changes
<1>4. /\ \A i \in D : (\A j \in R : i < j) => s[i].grid = a
      /\ \A i \in R, j \in D :
           i < j /\ (\A k \in R : k <= i \/ j <= k) => s[i].grid = s[j].grid
      /\ \A i \in R : (\A j \in R : j <= i) => s[i].grid = b
      /\ R = {} => a = b
  BY DEF Drawn, Ends
<1> HIDE DEF D, R, E, T
<1>5. ASSUME NEW i \in E, \A j \in T : i < j  PROVE t[i].grid = a
  <2>1. CASE i # n
    BY <2>1, <1>3, <1>4, <1>5
  <2>2. CASE i = n
    <3>1. R = {}  BY <2>2, <1>1, <1>2, <1>3, <1>5
    <3>2. t[i] = f /\ f.grid = b  BY <2>2, <1>1, <1>3 DEF Fits
    <3> QED  BY <3>1, <3>2, <1>4
  <2> QED  BY <2>1, <2>2
<1>6. ASSUME NEW i \in T, NEW j \in E, i < j, \A k \in T : k <= i \/ j <= k
      PROVE  t[i].grid = t[j].grid
  <2>1. i # n /\ i \in R  BY <1>1, <1>3, <1>6
  <2>2. CASE j # n  BY <2>1, <2>2, <1>3, <1>4, <1>6
  <2>3. CASE j = n
    <3>1. \A k \in R : k <= i  BY <2>3, <1>1, <1>2, <1>3, <1>6
    <3>2. s[i].grid = b /\ t[i] = s[i]  BY <2>1, <3>1, <1>3, <1>4
    <3>3. t[j] = f /\ f.grid = b  BY <2>3, <1>1, <1>3 DEF Fits
    <3> QED  BY <3>2, <3>3
  <2> QED  BY <2>2, <2>3
<1>7. ASSUME NEW i \in T, \A j \in T : j <= i  PROVE t[i].grid = After(f, b)
  <2>1. CASE f.kind = "resize"
    <3>1. i = n  BY <2>1, <1>1, <1>3, <1>7
    <3> QED  BY <3>1, <2>1, <1>1 DEF After
  <2>2. CASE f.kind # "resize"
    <3>1. i \in R /\ \A j \in R : j <= i  BY <2>2, <1>3, <1>7
    <3> QED  BY <3>1, <2>2, <1>3, <1>4 DEF After
  <2> QED  BY <2>1, <2>2
<1>8. T = {} => a = After(f, b)
  BY <1>3, <1>4 DEF After
<1>9. Drawn(t, a)  BY <1>5, <1>6 DEF Drawn, E, T
<1>10. Ends(t, a, After(f, b))  BY <1>7, <1>8 DEF Ends, T
<1> QED  BY <1>9, <1>10 DEF t

LEMMA DrawnTail ==
  ASSUME NEW s \in Seq(Frame), s # << >>, NEW a, Drawn(s, a)
  PROVE  /\ Fits(Head(s), a)
         /\ Drawn(Tail(s), After(Head(s), a))
         /\ \A b : Ends(s, a, b) => Ends(Tail(s), After(Head(s), a), b)
<1> DEFINE t == Tail(s)
           f == Head(s)
           D == LiveData(s)
           R == Changes(s)
           E == LiveData(t)
           T == Changes(t)
<1>1. /\ f = s[1] /\ Len(t) = Len(s) - 1 /\ Len(s) \in Nat /\ Len(s) > 0
      /\ \A i \in 1 .. Len(t) : t[i] = s[i + 1]
  BY HeadTailProperties, EmptySeq
<1> HIDE DEF t, f
<1>2. \A i \in 1 .. Len(t) : i + 1 \in 1 .. Len(s)  BY <1>1
<1>3. \A i \in 1 .. Len(s) : i # 1 => i - 1 \in 1 .. Len(t) /\ (i - 1) + 1 = i  BY <1>1
<1>4. /\ E \subseteq 1 .. Len(t) /\ T \subseteq 1 .. Len(t)
      /\ D \subseteq 1 .. Len(s) /\ R \subseteq 1 .. Len(s)
      /\ \A i \in E : i + 1 \in D /\ s[i + 1] = t[i]
      /\ \A i \in T : i + 1 \in R /\ s[i + 1] = t[i]
  BY <1>1, <1>2 DEF LiveData, Changes
<1>5. /\ \A i \in D : i # 1 => i - 1 \in E
      /\ \A i \in R : i # 1 => i - 1 \in T
  <2>1. \A i \in 1 .. Len(s) : i # 1 => t[i - 1] = s[i]  BY <1>1, <1>3
  <2> QED  BY <2>1, <1>3 DEF LiveData, Changes
<1>6. /\ 1 \in D <=> f.kind = "data" /\ f.grid # NoGrid
      /\ 1 \in R <=> f.kind = "resize"
  BY <1>1 DEF LiveData, Changes
<1>7. /\ \A i \in D : (\A j \in R : i < j) => s[i].grid = a
      /\ \A i \in R, j \in D :
           i < j /\ (\A k \in R : k <= i \/ j <= k) => s[i].grid = s[j].grid
  BY DEF Drawn
<1> HIDE DEF D, R, E, T
<1>8. Fits(f, a)
  <2> SUFFICES ASSUME f.kind = "data", f.grid # NoGrid  PROVE f.grid = a
    BY DEF Fits
  <2>1. 1 \in D /\ 1 \notin R  BY <1>6
  <2>2. \A j \in R : 1 < j  BY <2>1, <1>1, <1>4
  <2> QED  BY <2>1, <2>2, <1>1, <1>7
<1>9. ASSUME NEW i \in E, \A j \in T : i < j  PROVE t[i].grid = After(f, a)
  <2>1. i + 1 \in D /\ s[i + 1] = t[i] /\ 1 < i + 1  BY <1>1, <1>4
  <2>2. \A k \in R : k = 1 \/ i + 1 < k
    <3> SUFFICES ASSUME NEW k \in R, k # 1  PROVE i + 1 < k
      OBVIOUS
    <3>1. k - 1 \in T /\ i < k - 1  BY <1>5, <1>9
    <3> QED  BY <3>1, <1>1, <1>4
  <2>3. CASE f.kind = "resize"
    <3>1. 1 \in R /\ \A k \in R : k <= 1 \/ i + 1 <= k  BY <2>2, <2>3, <1>1, <1>4, <1>6
    <3> QED  BY <3>1, <2>1, <2>3, <1>1, <1>7 DEF After
  <2>4. CASE f.kind # "resize"
    <3>1. \A k \in R : i + 1 < k  BY <2>2, <2>4, <1>6
    <3> QED  BY <3>1, <2>1, <2>4, <1>7 DEF After
  <2> QED  BY <2>3, <2>4
<1>10. ASSUME NEW i \in T, NEW j \in E, i < j, \A k \in T : k <= i \/ j <= k
       PROVE  t[i].grid = t[j].grid
  <2>1. i + 1 \in R /\ j + 1 \in D /\ i + 1 < j + 1 /\ s[i + 1] = t[i] /\ s[j + 1] = t[j]
    BY <1>1, <1>4, <1>10
  <2>2. ASSUME NEW k \in R  PROVE k <= i + 1 \/ j + 1 <= k
    <3>1. CASE k = 1  BY <3>1, <1>1, <1>4
    <3>2. CASE k # 1
      <4>1. k - 1 \in T  BY <3>2, <1>5
      <4>2. k - 1 <= i \/ j <= k - 1  BY <4>1, <1>10
      <4> QED  BY <4>2, <1>1, <1>4
    <3> QED  BY <3>1, <3>2
  <2> QED  BY <2>1, <2>2, <1>7
<1>11. ASSUME NEW b, Ends(s, a, b)  PROVE Ends(t, After(f, a), b)
  <2>1. /\ \A i \in R : (\A j \in R : j <= i) => s[i].grid = b
        /\ R = {} => a = b
    BY <1>11 DEF Ends, R
  <2>2. ASSUME NEW i \in T, \A j \in T : j <= i  PROVE t[i].grid = b
    <3>1. i + 1 \in R /\ s[i + 1] = t[i]  BY <1>4
    <3>2. ASSUME NEW k \in R  PROVE k <= i + 1
      <4>1. CASE k = 1  BY <4>1, <1>1, <1>4
      <4>2. CASE k # 1
        <5>1. k - 1 \in T /\ k - 1 <= i  BY <4>2, <1>5, <2>2
        <5> QED  BY <5>1, <1>1, <1>4
      <4> QED  BY <4>1, <4>2
    <3> QED  BY <3>1, <3>2, <2>1
  <2>3. ASSUME T = {}  PROVE After(f, a) = b
    <3>1. \A k \in R : k = 1  BY <2>3, <1>5
    <3>2. CASE f.kind = "resize"
      <4>1. 1 \in R /\ \A k \in R : k <= 1  BY <3>1, <3>2, <1>6
      <4> QED  BY <4>1, <3>2, <2>1, <1>1 DEF After
    <3>3. CASE f.kind # "resize"
      <4>1. R = {}  BY <3>1, <3>3, <1>6
      <4> QED  BY <4>1, <3>3, <2>1 DEF After
    <3> QED  BY <3>2, <3>3
  <2> QED  BY <2>2, <2>3 DEF Ends, T
<1> QED  BY <1>8, <1>9, <1>10, <1>11 DEF Drawn, E, T, t, f

LEMMA DrawnPrefix ==
  ASSUME NEW s \in Seq(Frame), NEW a, Drawn(s, a), NEW k \in 0 .. Len(s)
  PROVE  Drawn(SubSeq(s, 1, k), a)
<1> DEFINE t == SubSeq(s, 1, k)
           D == LiveData(s)
           R == Changes(s)
           E == LiveData(t)
           T == Changes(t)
<1>1. Len(t) = k /\ (\A i \in 1 .. k : t[i] = s[i]) /\ Len(s) \in Nat /\ k \in Nat /\ k <= Len(s)
  BY Prefix, LenProperties
<1> HIDE DEF t
<1>2. /\ \A i \in E : i \in D /\ t[i] = s[i] /\ i <= k
      /\ \A i \in T : i \in R /\ t[i] = s[i] /\ i <= k
      /\ \A i \in R : i <= k => i \in T
      /\ (\A i \in D : i \in Int) /\ (\A i \in R : i \in Int)
  BY <1>1 DEF LiveData, Changes
<1>3. /\ \A i \in D : (\A j \in R : i < j) => s[i].grid = a
      /\ \A i \in R, j \in D :
           i < j /\ (\A m \in R : m <= i \/ j <= m) => s[i].grid = s[j].grid
  BY DEF Drawn
<1> HIDE DEF D, R, E, T
<1>4. ASSUME NEW i \in E, \A j \in T : i < j  PROVE t[i].grid = a
  <2>1. \A j \in R : i < j
    <3> SUFFICES ASSUME NEW j \in R  PROVE i < j
      OBVIOUS
    <3>1. CASE j <= k  BY <3>1, <1>2, <1>4
    <3>2. CASE ~(j <= k)
      <4>1. i \in Int /\ i <= k /\ j \in Int /\ k \in Int  BY <1>1, <1>2
      <4> QED  BY <4>1, <3>2
    <3> QED  BY <3>1, <3>2
  <2> QED  BY <2>1, <1>2, <1>3
<1>5. ASSUME NEW i \in T, NEW j \in E, i < j, \A m \in T : m <= i \/ j <= m
      PROVE  t[i].grid = t[j].grid
  <2>1. \A m \in R : m <= i \/ j <= m
    <3> SUFFICES ASSUME NEW m \in R  PROVE m <= i \/ j <= m
      OBVIOUS
    <3>1. CASE m <= k  BY <3>1, <1>2, <1>5
    <3>2. CASE ~(m <= k)
      <4>1. j \in Int /\ j <= k /\ m \in Int /\ k \in Int  BY <1>1, <1>2
      <4> QED  BY <4>1, <3>2
    <3> QED  BY <3>1, <3>2
  <2> QED  BY <2>1, <1>2, <1>3, <1>5
<1> QED  BY <1>4, <1>5 DEF Drawn, E, T, t

\* A frame pushed onto a full queue pushes out no resize unless that is recorded.
LEMMA DrawnPush ==
  ASSUME NEW s \in Seq(Frame), NEW a, NEW b, Drawn(s, a), Ends(s, a, b),
         NEW f \in Frame, Fits(f, b), NEW cap \in Nat \ {0},
         "resize" \notin Evicted(s, cap)
  PROVE  /\ Drawn(PushNewestOnFull(s, cap, f), a)
         /\ Ends(PushNewestOnFull(s, cap, f), a, After(f, b))
<1>1. CASE Len(s) < cap
  BY <1>1, DrawnAppend DEF PushNewestOnFull
<1>2. CASE ~(Len(s) < cap)
  <2>1. s # << >> /\ Evicts(s, cap)  BY <1>2, LenProperties, EmptySeq DEF Evicts
  <2>2. Head(s).kind # "resize"  BY <2>1 DEF Evicted
  <2>3. Drawn(Tail(s), a) /\ Ends(Tail(s), a, b)  BY <2>1, <2>2, DrawnTail DEF After
  <2>4. Tail(s) \in Seq(Frame)  BY <2>1, TakeHead
  <2> QED  BY <1>2, <2>3, <2>4, DrawnAppend DEF PushNewestOnFull
<1> QED  BY <1>1, <1>2

\* What GridsInOrder says of a session the server is attached to.
LEMMA GridFacts ==
  ASSUME TypeOK
  PROVE  /\ queue \in Seq(Frame) /\ wire \in Seq(Frame) /\ events \in Seq(Frame)
         /\ Len(wire) \in Nat /\ grid \in Grids /\ kfGrid \in Grids /\ NoGrid \notin Grids
         /\ SubCap \in Nat \ {0} /\ EvCap \in Nat \ {0} /\ seq \in Nat
BY StreamAssumption, LenProperties DEF TypeOK, SessionType, LinkType, StreamType, ServerType

LEMMA DrawnFrames ==
  ASSUME NEW f \in Frame, NEW a \in Grids
  PROVE  After(f, a) \in Grids
BY DEF Frame, After

LEMMA AnnouncedNext ==
  ASSUME NEW c,
         evOpen' => /\ Drawn(wire', c)
                    /\ sub' # "none" =>
                         \E h \in Grids : /\ Ends(wire', c, h) /\ Drawn(queue', h)
                                          /\ sub' = "open" => Ends(queue', h, grid')
  PROVE  Announced(c)'
BY DEF Announced, Drawn, Ends, LiveData, Changes

\* The daemon's queue, or what is left of the wire, changes: the events do not.
LEMMA AnnouncedStep ==
  ASSUME GridsInOrder, UNCHANGED <<phase, events, kfGrid>>, lost \subseteq lost',
         \A g \in Grids : "resize" \notin lost' /\ Announced(g) => Announced(g)'
  PROVE  GridsInOrder'
<1> SUFFICES ASSUME phase = "attached", "resize" \notin lost'
             PROVE  /\ Drawn(events, kfGrid)
                    /\ \E g \in Grids : Ends(events, kfGrid, g) /\ Announced(g)'
  BY DEF GridsInOrder, Drawn, Ends, LiveData, Changes
<1>1. "resize" \notin lost  OBVIOUS
<1> QED  BY <1>1 DEF GridsInOrder

LEMMA OutputGrids == ASSUME TypeOK, GridsInOrder, NEW n \in 1 .. MaxChunk, Output(n)
                     PROVE GridsInOrder'
<1>1. /\ UNCHANGED <<grid, sub, wire, evOpen, phase, events, kfGrid>>
      /\ lost \subseteq lost' /\ n \in Nat
  BY StreamAssumption DEF Output, stream, server, PushControl
<1>2. seq <= seq + n /\ seq + n \in Nat  BY <1>1, GridFacts
<1>3. ASSUME NEW g \in Grids, "resize" \notin lost', Announced(g)  PROVE Announced(g)'
  <2> SUFFICES ASSUME evOpen, sub # "none", NEW h \in Grids, Ends(wire, g, h), Drawn(queue, h),
                      sub = "open" => Ends(queue, h, grid)
               PROVE  Drawn(queue', h) /\ (sub = "open" => Ends(queue', h, grid))
    BY <1>1, <1>3 DEF Announced, Drawn, Ends, LiveData, Changes
  <2>1. CASE queue' = queue  BY <2>1
  <2>2. CASE sub = "open" /\ queue' = Append(queue, DataFrame(seq, seq + n, grid))
    <3> DEFINE f == DataFrame(seq, seq + n, grid)
    <3>1. f \in Frame  BY <1>2, FrameTypes, GridFacts
    <3>2. Fits(f, grid) /\ After(f, grid) = grid  BY DEF DataFrame, Fits, After
    <3> QED  BY <2>2, <3>1, <3>2, DrawnAppend, GridFacts
  <2>3. CASE sub = "open" /\ PushControl(GapFrame(seq, seq + n, grid))
    <3> DEFINE f == GapFrame(seq, seq + n, grid)
    <3>1. f \in Frame  BY <1>2, FrameTypes, GridFacts
    <3>2. Fits(f, grid) /\ After(f, grid) = grid  BY DEF GapFrame, Fits, After
    <3>3. queue' = PushNewestOnFull(queue, SubCap, f) /\ "resize" \notin Evicted(queue, SubCap)
      BY <1>3, <2>3 DEF PushControl
    <3> QED  BY <2>3, <3>1, <3>2, <3>3, DrawnPush, GridFacts
  <2> QED  BY <2>1, <2>2, <2>3 DEF Output
<1> QED  BY <1>1, <1>3, AnnouncedStep

LEMMA ResizeGrids == ASSUME TypeOK, GridsInOrder, ClosedWhenDead, NEW g \in Grids, Resize(g)
                     PROVE GridsInOrder'
<1>1. /\ UNCHANGED <<sub, wire, evOpen, phase, events, kfGrid>> /\ alive
      /\ lost \subseteq lost' /\ grid' = g
  BY DEF Resize, stream, server, PushControl
<1>2. ASSUME NEW e \in Grids, "resize" \notin lost', Announced(e)  PROVE Announced(e)'
  <2> SUFFICES ASSUME evOpen, sub # "none", NEW h \in Grids, Ends(wire, e, h), Drawn(queue, h),
                      sub = "open" => Ends(queue, h, grid)
               PROVE  Drawn(queue', h) /\ (sub = "open" => Ends(queue', h, g))
    BY <1>1, <1>2 DEF Announced, Drawn, Ends, LiveData, Changes
  <2>1. sub = "open"  BY <1>1 DEF ClosedWhenDead, TypeOK, LinkType
  <2> DEFINE f == ResizeFrame(seq, g)
  <2>2. f \in Frame  BY FrameTypes, GridFacts
  <2>3. Fits(f, grid) /\ After(f, grid) = g  BY DEF ResizeFrame, Fits, After
  <2>4. queue' = PushNewestOnFull(queue, SubCap, f) /\ "resize" \notin Evicted(queue, SubCap)
    BY <1>2, <2>1 DEF Resize, PushControl
  <2> QED  BY <2>1, <2>2, <2>3, <2>4, DrawnPush, GridFacts
<1> QED  BY <1>1, <1>2, AnnouncedStep

LEMMA FinishGrids == ASSUME GridsInOrder, ProcessExit \/ Destroy  PROVE GridsInOrder'
<1>1. /\ UNCHANGED <<grid, queue, wire, evOpen, phase, events, kfGrid, lost>>
      /\ sub' # "none" => sub # "none" /\ sub' # "open"
  BY DEF ProcessExit, Destroy, Finish, stream, server, history
<1>2. ASSUME NEW g \in Grids, Announced(g)  PROVE Announced(g)'
  BY <1>1, <1>2 DEF Announced, Drawn, Ends, LiveData, Changes
<1> QED  BY <1>1, <1>2, AnnouncedStep

LEMMA ForwardGrids == ASSUME TypeOK, GridsInOrder, Forward  PROVE GridsInOrder'
<1>1. /\ UNCHANGED <<grid, sub, evOpen, phase, events, kfGrid, lost>> /\ queue # << >>
      /\ wire' = Append(wire, Head(queue)) /\ queue' = Tail(queue)
  BY DEF Forward, session, stream, server, history
<1>2. ASSUME NEW g \in Grids, Announced(g)  PROVE Announced(g)'
  <2> DEFINE f == Head(queue)
  <2> SUFFICES ASSUME evOpen
               PROVE  /\ Drawn(wire', g)
                      /\ \E h \in Grids : /\ Ends(wire', g, h) /\ Drawn(queue', h)
                                          /\ sub = "open" => Ends(queue', h, grid)
    BY <1>1 DEF Announced, Drawn, Ends, LiveData, Changes
  <2>1. sub # "none"  BY DEF Forward
  <2>2. PICK h \in Grids : /\ Ends(wire, g, h) /\ Drawn(queue, h)
                           /\ sub = "open" => Ends(queue, h, grid)
    BY <1>2, <2>1 DEF Announced
  <2>3. f \in Frame /\ Drawn(wire, g)  BY <1>1, <1>2, TakeHead, GridFacts DEF Announced
  <2>4. /\ Fits(f, h) /\ Drawn(Tail(queue), After(f, h))
        /\ \A b : Ends(queue, h, b) => Ends(Tail(queue), After(f, h), b)
    BY <1>1, <2>2, DrawnTail, GridFacts
  <2>5. Drawn(Append(wire, f), g) /\ Ends(Append(wire, f), g, After(f, h))
    BY <2>2, <2>3, <2>4, DrawnAppend, GridFacts
  <2>6. After(f, h) \in Grids  BY <2>3, DrawnFrames
  <2> QED  BY <1>1, <2>2, <2>4, <2>5, <2>6
<1> QED  BY <1>1, <1>2, AnnouncedStep

LEMMA ForwardExitGrids == ASSUME TypeOK, GridsInOrder, ForwardExit  PROVE GridsInOrder'
<1>1. /\ UNCHANGED <<grid, evOpen, phase, events, kfGrid, lost>> /\ sub # "none" /\ sub' = "none"
      /\ wire' = Append(wire, ExitFrame(seq, grid))
  BY DEF ForwardExit, session, stream, server, history
<1>2. ASSUME NEW g \in Grids, Announced(g)  PROVE Announced(g)'
  <2> DEFINE f == ExitFrame(seq, grid)
  <2> SUFFICES ASSUME evOpen PROVE Drawn(wire', g)
    BY <1>1 DEF Announced, Drawn, LiveData, Changes
  <2>1. PICK h \in Grids : Ends(wire, g, h)  BY <1>1, <1>2 DEF Announced
  <2>2. f \in Frame /\ Drawn(wire, g)  BY <1>2, FrameTypes, GridFacts DEF Announced
  <2>3. Fits(f, h)  BY DEF Fits, ExitFrame
  <2> QED  BY <1>1, <2>1, <2>2, <2>3, DrawnAppend, GridFacts
<1> QED  BY <1>1, <1>2, AnnouncedStep

LEMMA DropGrids ==
  ASSUME TypeOK, GridsInOrder, NEW k \in 0 .. Len(wire), Drop(k) \/ DaemonCrash(k)
  PROVE  GridsInOrder'
<1>1. UNCHANGED <<grid, evOpen, phase, events, kfGrid, lost>>
  BY DEF Drop, DaemonCrash, session, stream, server, history
<1>2. ASSUME NEW g \in Grids, Announced(g)  PROVE Announced(g)'
  <2>1. CASE LoseConnection(k)
    <3>1. wire' = SubSeq(wire, 1, k) /\ sub' = "none"  BY <2>1 DEF LoseConnection
    <3>2. ASSUME evOpen  PROVE Drawn(wire', g)
      <4>1. Drawn(wire, g) /\ wire \in Seq(Frame)  BY <1>2, <3>2, GridFacts DEF Announced
      <4> QED  BY <3>1, <4>1, DrawnPrefix
    <3> QED  BY <1>1, <3>1, <3>2, AnnouncedNext
  <2>2. CASE UNCHANGED link
    <3>1. UNCHANGED <<wire, sub, queue>>  BY <2>2 DEF link
    <3>2. evOpen' => /\ Drawn(wire', g)
                     /\ sub' # "none" =>
                          \E h \in Grids : /\ Ends(wire', g, h) /\ Drawn(queue', h)
                                           /\ sub' = "open" => Ends(queue', h, grid')
      BY <1>1, <1>2, <3>1 DEF Announced
    <3> QED  BY <3>2, AnnouncedNext
  <2> QED  BY <2>1, <2>2 DEF Drop, DaemonCrash
<1> QED  BY <1>1, <1>2, AnnouncedStep

LEMMA ReadGrids == ASSUME TypeOK, GridsInOrder, Read  PROVE GridsInOrder'
<1> DEFINE f == Head(wire)
<1>1. /\ wire # << >> /\ evOpen /\ wire' = Tail(wire) /\ f \in Frame
      /\ UNCHANGED <<sub, queue, phase, kfGrid, grid>> /\ lost \subseteq lost'
  BY TakeHead, GridFacts DEF Read, ReadData, ReadGap, ReadResize, ReadExit, PushEvent, session, server
<1> SUFFICES ASSUME phase = "attached", "resize" \notin lost'
             PROVE  /\ Drawn(events', kfGrid)
                    /\ \E g \in Grids : Ends(events', kfGrid, g) /\ Announced(g)'
  BY <1>1 DEF GridsInOrder, Drawn, Ends, LiveData, Changes
<1>2. Drawn(events, kfGrid) /\ \E g \in Grids : Ends(events, kfGrid, g) /\ Announced(g)
  BY <1>1 DEF GridsInOrder
<1>3. PICK g \in Grids : Ends(events, kfGrid, g) /\ Announced(g)  BY <1>2
<1>4. /\ Fits(f, g) /\ Drawn(wire', After(f, g))
      /\ \A b : Ends(wire, g, b) => Ends(wire', After(f, g), b)
  BY <1>1, <1>3, DrawnTail, GridFacts DEF Announced
<1>5. After(f, g) \in Grids  BY <1>1, DrawnFrames
<1> DEFINE a == After(f, g)
<1>6. ASSUME NEW c, c = a  PROVE Announced(c)'
  <2> HIDE DEF a
  <2>1. Drawn(wire', c)  BY <1>4, <1>6 DEF a
  <2>2. ASSUME sub' # "none"
        PROVE  \E h \in Grids : /\ Ends(wire', c, h) /\ Drawn(queue', h)
                                /\ sub' = "open" => Ends(queue', h, grid')
    <3>1. PICK h \in Grids : /\ Ends(wire, g, h) /\ Drawn(queue, h)
                             /\ sub = "open" => Ends(queue, h, grid)
      BY <1>1, <1>3, <2>2 DEF Announced
    <3>2. Ends(wire', c, h)  BY <1>4, <1>6, <3>1 DEF a
    <3> QED  BY <1>1, <3>1, <3>2
  <2> QED  BY <2>1, <2>2, AnnouncedNext
<1>7. Drawn(events', kfGrid) /\ Ends(events', kfGrid, After(f, g))
  <2>1. CASE f.kind = "data" /\ events' = Append(events, f)
    BY <1>1, <1>2, <1>3, <1>4, <2>1, DrawnAppend, GridFacts
  <2>2. CASE PushEvent(f)
    <3>1. events' = PushNewestOnFull(events, EvCap, f) /\ "resize" \notin Evicted(events, EvCap)
      BY <2>2 DEF PushEvent
    <3> QED  BY <1>1, <1>2, <1>3, <1>4, <3>1, DrawnPush, GridFacts
  <2>3. CASE f.kind = "data" /\ PushEvent(GapFrame(f.lo, f.hi, f.grid))
    <3> DEFINE e == GapFrame(f.lo, f.hi, f.grid)
    <3>1. e \in Frame  BY <1>1 DEF Frame, GapFrame, Kinds
    <3>2. Fits(e, g) /\ After(e, g) = g /\ After(f, g) = g  BY <2>3 DEF Fits, After, GapFrame
    <3>3. events' = PushNewestOnFull(events, EvCap, e) /\ "resize" \notin Evicted(events, EvCap)
      BY <2>3 DEF PushEvent
    <3> QED  BY <1>2, <1>3, <3>1, <3>2, <3>3, DrawnPush, GridFacts
  <2>4. \/ PushEvent(f)
        \/ f.kind = "data" /\ (events' = Append(events, f) \/ PushEvent(GapFrame(f.lo, f.hi, f.grid)))
    BY DEF Read, ReadData, ReadGap, ReadResize, ReadExit
  <2> QED  BY <2>1, <2>2, <2>3, <2>4
<1>8. PICK c \in Grids : c = After(f, g)  BY <1>5
<1>9. Announced(c)' /\ Ends(events', kfGrid, c)  BY <1>6, <1>7, <1>8
<1> QED  BY <1>7, <1>9

\* The pump paints live bytes onto the grid they were drawn for.
LEMMA PumpGrids ==
  ASSUME TypeOK, GridsInOrder, Pump
  PROVE  /\ GridsInOrder'
         /\ "resize" \notin lost => Fits(Head(events), kfGrid)
<1> DEFINE f == Head(events)
<1>1. /\ phase = "attached" /\ events # << >> /\ events' = Tail(events) /\ f \in Frame
      /\ UNCHANGED <<phase, lost, evOpen, wire, sub, queue, grid>>
  BY TakeHead, GridFacts DEF Pump, session, link
<1>2. kfGrid' = After(f, kfGrid)  BY <1>1 DEF Pump, After
<1> SUFFICES ASSUME "resize" \notin lost
             PROVE  /\ Fits(f, kfGrid) /\ Drawn(events', kfGrid')
                    /\ \E g \in Grids : Ends(events', kfGrid', g) /\ Announced(g)'
  BY <1>1 DEF GridsInOrder, Drawn, Ends, LiveData, Changes
<1>3. PICK g \in Grids : Drawn(events, kfGrid) /\ Ends(events, kfGrid, g) /\ Announced(g)
  BY <1>1 DEF GridsInOrder
<1>4. /\ Fits(f, kfGrid) /\ Drawn(Tail(events), After(f, kfGrid))
      /\ Ends(Tail(events), After(f, kfGrid), g)
  BY <1>1, <1>3, DrawnTail, GridFacts
<1>5. Announced(g)'
  BY <1>1, <1>3 DEF Announced, Drawn, Ends, LiveData, Changes
<1> QED  BY <1>1, <1>2, <1>4, <1>5

\* A one-frame sequence.
LEMMA DrawnOne ==
  ASSUME NEW f \in Frame, NEW a, Fits(f, a)
  PROVE  Drawn(<<f>>, a) /\ Ends(<<f>>, a, After(f, a))
<1>1. << >> \in Seq(Frame) /\ Append(<< >>, f) = <<f>>  BY EmptySeq, AppendIsConcat
<1> QED  BY <1>1, DrawnNil, DrawnAppend

\* A replay names no grid: an attached server starts on the grid it attached with.
LEMMA AttachGrids ==
  ASSUME TypeOK, NEW from \in 0 .. seq, NEW g \in Grids, Attach(from, g)
  PROVE  GridsInOrder'
<1>1. /\ events' = << >> /\ kfGrid' = g /\ grid' = g
      /\ queue' = IF g # grid THEN <<ResizeFrame(seq, g)>> ELSE << >>
      /\ wire' = (IF from < seq THEN <<DataFrame(from, seq, NoGrid)>> ELSE << >>)
                   \o (IF alive THEN << >> ELSE <<ExitFrame(seq, g)>>)
  BY DEF Attach
<1>2. from \in Nat /\ from <= seq /\ seq \in Nat  BY GridFacts
<1>3. Drawn(wire', g) /\ Ends(wire', g, g)
  <2> DEFINE d == DataFrame(from, seq, NoGrid)
             e == ExitFrame(seq, g)
             r == IF from < seq THEN <<d>> ELSE << >>
  <2>1. d \in Frame /\ e \in Frame  BY <1>2, FrameTypes
  <2>2. Fits(d, g) /\ After(d, g) = g /\ Fits(e, g) /\ After(e, g) = g
    BY DEF DataFrame, ExitFrame, Fits, After
  <2> HIDE DEF d, e
  <2>3. r \in Seq(Frame) /\ Drawn(r, g) /\ Ends(r, g, g)
    BY <2>1, <2>2, DrawnNil, DrawnOne
  <2> HIDE DEF r
  <2>4. CASE alive
    <3>1. wire' = r  BY <1>1, <2>3, <2>4, ConcatEmptySeq DEF r, d
    <3> QED  BY <2>3, <3>1
  <2>5. CASE ~alive
    <3>1. wire' = Append(r, e)  BY <1>1, <2>1, <2>3, <2>5, AppendIsConcat DEF r, d, e
    <3> QED  BY <2>1, <2>2, <2>3, <3>1, DrawnAppend
  <2> QED  BY <2>4, <2>5
<1>4. \E h \in Grids : Ends(wire', g, h) /\ Drawn(queue', h) /\ Ends(queue', h, grid')
  <2>1. CASE g = grid
    BY <1>1, <1>3, <2>1, DrawnNil
  <2>2. CASE g # grid
    <3>1. ResizeFrame(seq, g) \in Frame  BY FrameTypes, GridFacts
    <3>2. Fits(ResizeFrame(seq, g), g) /\ After(ResizeFrame(seq, g), g) = g
      BY DEF ResizeFrame, Fits, After
    <3> QED  BY <1>1, <1>3, <2>2, <3>1, <3>2, DrawnOne
  <2> QED  BY <2>1, <2>2
<1>5. Drawn(events', kfGrid') /\ Ends(events', kfGrid', g)  BY <1>1, DrawnNil
<1>6. Announced(g)'
  BY <1>3, <1>4 DEF Announced, Drawn, Ends, LiveData, Changes
<1> QED  BY <1>5, <1>6 DEF GridsInOrder, Drawn, Ends, LiveData, Changes

LEMMA NextGrids ==
  ASSUME TypeOK, GridsInOrder, ClosedWhenDead, [Next]_vars
  PROVE  GridsInOrder'
<1>1. CASE \E n \in 1 .. MaxChunk : Output(n)  BY <1>1, OutputGrids
<1>2. CASE \E g \in Grids : Resize(g)  BY <1>2, ResizeGrids
<1>3. CASE ProcessExit \/ Destroy  BY <1>3, FinishGrids
<1>4. CASE Forward  BY <1>4, ForwardGrids
<1>5. CASE ForwardExit  BY <1>5, ForwardExitGrids
<1>6. CASE \E k \in 0 .. Len(wire) : Drop(k) \/ DaemonCrash(k)  BY <1>6, DropGrids
<1>7. CASE Read  BY <1>7, ReadGrids
<1>8. CASE ReadError
  <2>1. ~evOpen' /\ UNCHANGED <<phase, events, kfGrid, lost>>
    BY <1>8 DEF ReadError, server, history
  <2> QED  BY <2>1, AnnouncedStep DEF Announced
<1>9. CASE Pump  BY <1>9, PumpGrids
<1>10. CASE PumpExited \/ PumpDropped \/ AttachGone \/ AttachFails \/ ServerRestart
  <2>1. phase' # "attached"
    BY <1>10 DEF PumpExited, PumpDropped, AttachGone, AttachFails, ServerRestart
  <2> QED  BY <2>1 DEF GridsInOrder
<1>11. CASE \E from \in 0 .. seq, g \in Grids : Attach(from, g)  BY <1>11, AttachGrids
<1>12. CASE UNCHANGED vars
  BY <1>12 DEF vars, session, link, stream, server, history, GridsInOrder, Announced, Drawn,
     Ends, LiveData, Changes
<1> QED
  BY <1>1, <1>2, <1>3, <1>4, <1>5, <1>6, <1>7, <1>8, <1>9, <1>10, <1>11, <1>12 DEF Next

\* No step but the pump's moves the copy of an attached server.
LEMMA GridStep ==
  ASSUME TypeOK, GridsInOrder, Next, phase = "attached", phase' = "attached",
         copy'.hi # copy.hi, "resize" \notin lost, Head(events).grid # NoGrid
  PROVE  Head(events).grid = kfGrid
<1>1. Pump /\ Head(events).kind = "data"
  BY DEF Next, Output, Resize, ProcessExit, Destroy, Forward, ForwardExit, Drop, DaemonCrash, Read,
     ReadError, Pump, PumpExited, PumpDropped, Attach, AttachGone, AttachFails, ServerRestart,
     session, server
<1>2. Fits(Head(events), kfGrid)  BY <1>1, PumpGrids
<1> QED  BY <1>1, <1>2 DEF Fits

-----------------------------------------------------------------------------
\* Everything above, together, is preserved by every step.
IInv == Ind /\ ExitIsLast /\ ExitAfterLastByte /\ GridsInOrder

LEMMA InitInv == Init => IInv
<1> SUFFICES ASSUME Init  PROVE IInv
  OBVIOUS
<1>1. TypeOK /\ CopyInv /\ ExitIsLast /\ ExitAfterLastByte  BY InitType, InitCopy
<1>2. GridsInOrder  BY DEF Init, GridsInOrder
<1> QED  BY <1>1, <1>2 DEF IInv, Ind, ExitIsLast

LEMMA NextInv == IInv /\ [Next]_vars => IInv'
<1> SUFFICES ASSUME IInv, [Next]_vars  PROVE IInv'
  OBVIOUS
<1>1. Ind /\ TypeOK /\ ExitIsLast /\ ExitAfterLastByte /\ QueueQuiet  BY DEF IInv, Ind, ExitIsLast
<1>2. TypeOK' /\ CopyInv' /\ GridsInOrder'
  BY <1>1, NextType, NextCopy, NextGrids DEF IInv, ExitIsLast
<1>3. CASE Next
  <2>1. ClosedWhenDead'  BY <1>1, <1>3, ClosedStays
  <2>2. QueueQuiet'  BY <1>1, <1>3, QueueStaysQuiet DEF QueueQuiet
  <2>3. WireExit' /\ EventsExit' /\ SeenExit'  BY <1>1, <1>3, WireStaysLast, EventsStayLast
  <2>4. ExitAfterLastByte'  BY <1>1, <1>3, ExitStaysComplete
  <2> QED  BY <1>2, <2>1, <2>2, <2>3, <2>4 DEF IInv, Ind, ExitIsLast
<1>4. CASE UNCHANGED vars
  <2>1. ExitIsLast' /\ ExitAfterLastByte'
    BY <1>1, <1>4 DEF vars, session, link, stream, server, history, ExitIsLast, ClosedWhenDead,
       QueueQuiet, WireExit, EventsExit, SeenExit, ExitAfterLastByte, Missing
  <2> QED  BY <1>2, <2>1 DEF IInv, Ind, ExitIsLast
<1> QED  BY <1>3, <1>4

\* The server's copy joins bytes that were not adjacent only in a stream that
\* recorded a loss or lost a queued frame: a copy kept across a re-attach, which
\* needs neither to have happened, is the session's own output.
THEOREM CopyIntact == Spec => []SeamFlagged
<1>1. IInv => SeamFlagged  BY DEF IInv, Ind, CopyInv
<1> QED  BY <1>1, InitInv, NextInv, PTL DEF Spec

\* Stream.consumed, the point the next attach resumes from, is the end of the
\* bytes the server holds or has waiting.
THEOREM ResumePointExact == Spec => []ResumePointTruthful
<1>1. IInv => ResumePointTruthful
  <2> SUFFICES ASSUME IInv, Unflagged  PROVE consumed = EndOf(events, copy.hi)
    BY DEF ResumePointTruthful, Unflagged
  <2> QED  BY UnflaggedFacts, TilesEnd DEF IInv
<1> QED  BY <1>1, InitInv, NextInv, PTL DEF Spec

\* When the pump has seen the exit of a stream that flagged no loss, the copy
\* ends with the last byte the process wrote.
THEOREM ExitIsComplete == Spec => []ExitAfterLastByte
<1>1. IInv => ExitAfterLastByte  BY DEF IInv
<1> QED  BY <1>1, InitInv, NextInv, PTL DEF Spec

\* Live bytes are painted onto the grid they were drawn for, whatever the stream
\* dropped, unless a resize itself was pushed out (subFrame, StreamEvent).
THEOREM OutputPaintedRight == Spec => OutputOnItsGrid
<1>1. IInv /\ [Next]_vars =>
        [phase = "attached" /\ phase' = "attached" /\ copy'.hi # copy.hi
           /\ "resize" \notin lost /\ Head(events).grid # NoGrid
         => Head(events).grid = kfGrid]_vars
  BY GridStep DEF IInv, Ind
<1> QED  BY <1>1, InitInv, NextInv, PTL DEF Spec, OutputOnItsGrid
=============================================================================
