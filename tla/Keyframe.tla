------------------------------ MODULE Keyframe ------------------------------
(***************************************************************************)
(* A server's restore point for one session: the screen model that has     *)
(* consumed the output up to ring position `at`, and the ring after it     *)
(* (session_screen.go), seeded from the daemon's own model once a fresh    *)
(* replay has been taken in (session_seed.go).                             *)
(*                                                                         *)
(* Bytes are named by their daemon offsets, 1, 2, ...; the server's ring   *)
(* counts positions of its own.  A screen model is the sequence of bytes   *)
(* it has executed, with the grid it is on.                                *)
(***************************************************************************)
EXTENDS RecentBytes, FiniteSets

CONSTANTS
  KfWindow,     \* keyframeWindowBytes
  TermSizes,        \* terminal sizes
  NoModel,      \* keyframe.model = nil
  MaxBytes,     \* bound: bytes the session produces
  MaxResizes,   \* bound: grid changes
  MaxAttaches,  \* bound: attachments of this server
  MaxSnaps      \* bound: snapshots one seeder asks for (seedAttempts, 40)

VARIABLES
  drawn,     \* the daemon's output: the grid each byte was drawn for
  dgrid,     \* the daemon's grid
  resizes,   \* grid changes so far
  inflight,  \* frames on their way to the pump, in order
  connUp,    \* the attachment is connected
  attach,    \* number of the current attachment; its stream is the attach-th
  holed,     \* holed[k]: the k-th stream recorded a loss
  phase,     \* "reattach", "attaching" (subscribed, keyframe not carried over), "attached"
  since,     \* resume point of the next attach, NoOffset for a full replay
  from,      \* ReplayFrom of the current attachment
  fresh,     \* its replay starts the copy over
  replayEnd, \* the daemon offset its replay ends at
  ackGrid,   \* the grid its AttachAck reported
  base,      \* sess.streamBase
  kf,        \* sess.kf: model, grid, at, gen
  seeder     \* seeder[k]: the seedKeyframe goroutine of the k-th stream

\* What the code's constants are; a nil model is no screen.
ASSUME KeyframeAssumption ==
  /\ Cap \in Nat /\ KfWindow \in Nat /\ NoModel \notin Seq(Nat)
  /\ {MaxWrite, MaxBytes, MaxResizes, MaxAttaches, MaxSnaps} \subseteq Nat

daemon == <<drawn, dgrid, resizes>>
link   == <<inflight, connUp, attach, holed>>
server == <<phase, since, from, fresh, replayEnd, ackGrid, base>>
keyframeVars   == <<held, seq, daemon, link, server, kf, seeder>>

NoOffset == -1
Attaches == 1 .. MaxAttaches
Dseq     == Len(drawn)

Bytes(lo, hi) == [i \in 1 .. hi - lo |-> lo + i]
DataFrame(lo, hi)   == [kind |-> "data", bytes |-> Bytes(lo, hi)]
GapFrame            == [kind |-> "gap"]
ResizeFrame(g)      == [kind |-> "resize", grid |-> g]

Streaming == connUp /\ phase \in {"attaching", "attached"}
Send(f)   == inflight' = IF Streaming THEN Append(inflight, f) ELSE inflight

(***************************************************************************)
(* The daemon and the link (MuxStream has their detail).                   *)
(***************************************************************************)

\* The program draws n bytes for the current grid; a queue without room for
\* them announces a gap instead.
Output(n, dropped) ==
  /\ Dseq + n <= MaxBytes
  /\ drawn' = drawn \o [i \in 1 .. n |-> dgrid]
  /\ Send(IF dropped THEN GapFrame ELSE DataFrame(Dseq, Dseq + n))
  /\ UNCHANGED <<held, seq, dgrid, resizes, connUp, attach, holed, server, kf, seeder>>

DaemonResize(g) ==
  /\ resizes < MaxResizes /\ g # dgrid
  /\ dgrid' = g /\ resizes' = resizes + 1
  /\ Send(ResizeFrame(g))
  /\ UNCHANGED <<held, seq, drawn, connUp, attach, holed, server, kf, seeder>>

\* The stream reader meets the gap notice, some time before the pump does.
NoticeGap ==
  /\ ~holed[attach] /\ \E i \in 1 .. Len(inflight) : inflight[i].kind = "gap"
  /\ holed' = [holed EXCEPT ![attach] = TRUE]
  /\ UNCHANGED <<held, seq, daemon, inflight, connUp, attach, server, kf, seeder>>

\* The connection drops; the k frames already read still reach the pump.
ConnectionDrops(k) ==
  /\ phase = "attached" /\ connUp /\ connUp' = FALSE
  /\ inflight' = SubSeq(inflight, 1, k)
  /\ UNCHANGED <<held, seq, daemon, attach, holed, server, kf, seeder>>

(***************************************************************************)
(* The keyframe: session_screen.go.                                        *)
(***************************************************************************)

\* kfResetLocked: a blank model at the ring's present.
Blank(k, g, s) == [model |-> <<>>, grid |-> g, at |-> s, gen |-> k.gen + 1]

SmallerOf(a, b) == IF a <= b THEN a ELSE b

\* kfAdvanceLocked: the model consumes the stream up to `target`, from the ring
\* and then from the chunk about to be written.  A position the ring no longer
\* holds restarts it.
Advance(k, target, incoming) ==
  LET upTo  == SmallerOf(target, seq)
      fed   == IF k.at < seq THEN k.model \o SubSeq(After(k.at), 1, upTo - k.at) ELSE k.model
      at    == IF k.at < seq THEN upTo ELSE k.at
      off   == at - seq
      n     == SmallerOf(target - at, Len(incoming) - off)
  IN  IF k.model = NoModel \/ target <= k.at THEN k
      ELSE IF ~Readable(k.at) /\ k.at < seq THEN Blank(k, k.grid, seq)
      ELSE IF target <= at \/ at < seq \/ off >= Len(incoming)
           THEN [k EXCEPT !.model = fed, !.at = at]
      ELSE [k EXCEPT !.model = fed \o SubSeq(incoming, off + 1, off + n), !.at = at + n]

\* kfWindowLimit: the window must still be in the ring when the model takes it.
Window == SmallerOf(KfWindow, Cap \div 2)

\* kfAdmitLocked: before `incoming` is written, the model takes the older half
\* of a window about to outgrow its bound; if it had to give up on an unfinished
\* sequence on the way, it takes the chunk whole.
Admit(k, incoming) ==
  LET end  == seq + Len(incoming)
      half == Advance(k, end - Window \div 2, incoming)
  IN  IF k.model = NoModel \/ end - k.at <= Window THEN {k}
      ELSE {half} \cup {Advance(half, end, incoming)}

\* kfResizeLocked: the model takes what was drawn for the old grid, then moves.
ResizeKf(k, g) ==
  IF k.model = NoModel THEN k ELSE [Advance(k, seq, <<>>) EXCEPT !.grid = g, !.gen = @ + 1]

\* restartLocalCopy: ring and keyframe go together.
RestartLocalCopy ==
  /\ ResetBytes
  /\ kf' = [model |-> NoModel, grid |-> kf.grid, at |-> 0, gen |-> kf.gen + 1]

(***************************************************************************)
(* The server's pump and attach: session_mux.go.                           *)
(***************************************************************************)

\* A fresh replay that does not reach back to the first byte starts a seeder: once
\* the pump has counted its bytes, or at once when there are none.
Seeds == fresh /\ from > 0
ReplayDone == base.daemon + (seq' - base.ring) >= replayEnd
SpawnSeeder ==
  IF Seeds /\ replayEnd > from /\ seeder[attach].pc = "none" /\ ReplayDone
  THEN seeder' = [seeder EXCEPT ![attach].pc = "gen"]
  ELSE UNCHANGED seeder

\* pumpStream, output: keyframe, ring (and fan-out) in one critical section.
PumpData ==
  /\ phase = "attached" /\ inflight # <<>> /\ Head(inflight).kind = "data"
  /\ LET data == Head(inflight).bytes
     IN  kf' \in Admit(kf, data) /\ WriteBytes(data)
  /\ inflight' = Tail(inflight)
  /\ SpawnSeeder
  /\ UNCHANGED <<daemon, connUp, attach, holed, server>>

\* pumpStream, resize: applyGrid.
PumpResize ==
  /\ phase = "attached" /\ inflight # <<>> /\ Head(inflight).kind = "resize"
  /\ kf' = ResizeKf(kf, Head(inflight).grid)
  /\ inflight' = Tail(inflight)
  /\ UNCHANGED <<held, seq, daemon, connUp, attach, holed, server, seeder>>

PumpGap ==
  /\ phase = "attached" /\ inflight # <<>> /\ Head(inflight).kind = "gap"
  /\ holed[attach]
  /\ inflight' = Tail(inflight)
  /\ UNCHANGED <<held, seq, daemon, connUp, attach, holed, server, kf, seeder>>

\* pumpStream ends without an exit: reattach resumes after what it delivered,
\* or starts the copy over if that count cannot be trusted.
Dropped ==
  /\ phase = "attached" /\ ~connUp /\ inflight = <<>> /\ attach < MaxAttaches
  /\ phase' = "reattach"
  /\ IF holed[attach]
     THEN RestartLocalCopy /\ since' = NoOffset
     ELSE since' = base.daemon + (seq - base.ring) /\ UNCHANGED <<held, seq, kf>>
  /\ UNCHANGED <<daemon, link, from, fresh, replayEnd, ackGrid, base, seeder>>

Replay(f) == IF f < Dseq THEN <<DataFrame(f, Dseq)>> ELSE <<>>

\* The size this server declares may move the session's.
SizedTo(g) ==
  /\ g = dgrid \/ resizes < MaxResizes
  /\ dgrid' = g /\ resizes' = IF g = dgrid THEN resizes ELSE resizes + 1

\* Mutant: whatever the daemon replays is appended to what is there.
SubscribeStream_TrustsCopy(f, g) ==
  /\ phase = "reattach" /\ attach < MaxAttaches
  /\ since # NoOffset => f >= since
  /\ attach' = attach + 1 /\ connUp' = TRUE
  /\ SizedTo(g)
  /\ from' = f /\ replayEnd' = Dseq /\ ackGrid' = g
  /\ inflight' = Replay(f) \o (IF g # dgrid THEN <<ResizeFrame(g)>> ELSE <<>>)
  /\ fresh' = (since = NoOffset)
  /\ phase' = "attaching"
  /\ UNCHANGED <<held, seq, kf, drawn, holed, since, base, seeder>>

\* attach, up to its keyframe section: the daemon replays from f, then announces
\* the grid if attaching moved it, and a replay that does not begin where the copy
\* ends throws the copy away.
SubscribeStream(f, g) ==
  /\ phase = "reattach" /\ attach < MaxAttaches
  /\ since # NoOffset => f >= since
  /\ attach' = attach + 1 /\ connUp' = TRUE
  /\ SizedTo(g)
  /\ from' = f /\ replayEnd' = Dseq /\ ackGrid' = g
  /\ inflight' = Replay(f) \o (IF g # dgrid THEN <<ResizeFrame(g)>> ELSE <<>>)
  /\ fresh' = (f # since)
  /\ IF since # NoOffset /\ f # since
     THEN RestartLocalCopy
     ELSE UNCHANGED <<held, seq, kf>>
  /\ phase' = "attaching"
  /\ UNCHANGED <<drawn, holed, since, base, seeder>>

\* attach, the keyframe section: on the grid of the AttachAck, whose later
\* changes are still in flight; then the pump starts.
AttachKeyframe ==
  /\ phase = "attaching"
  /\ kf' = IF fresh \/ kf.model = NoModel THEN Blank(kf, ackGrid, seq) ELSE ResizeKf(kf, ackGrid)
  /\ base' = [daemon |-> from, ring |-> seq]
  /\ phase' = "attached" /\ since' = NoOffset
  /\ seeder' = IF Seeds /\ replayEnd = from THEN [seeder EXCEPT ![attach].pc = "gen"] ELSE seeder
  /\ UNCHANGED <<held, seq, daemon, link, from, fresh, replayEnd, ackGrid>>

(***************************************************************************)
(* The seeder: session_seed.go.                                            *)
(***************************************************************************)
\* Back to asking again, or returned: the attempt's locals are gone.
Idle(pc, tries) == [pc |-> pc, gen |-> 0, offset |-> 0, tries |-> tries]
Become(k, pc) ==
  seeder' = [seeder EXCEPT ![k] = Idle(pc, IF pc = "done" THEN 0 ELSE seeder[k].tries)]

\* seedFromSnapshot: remember the keyframe's generation...
SeedGen(k) ==
  /\ seeder[k].pc = "gen" /\ seeder[k].tries < MaxSnaps
  /\ seeder' = [seeder EXCEPT ![k].pc = "snap", ![k].gen = kf.gen, ![k].tries = @ + 1]
  /\ UNCHANGED <<held, seq, daemon, link, server, kf>>

\* ...ask the daemon for its screen and the offset it is true at...
SeedSnap(k) ==
  /\ seeder[k].pc = "snap"
  /\ seeder' = [seeder EXCEPT ![k] = [pc |-> "install", gen |-> @.gen, offset |-> Dseq, tries |-> @.tries, grid |-> dgrid]]
  /\ UNCHANGED <<held, seq, daemon, link, server, kf>>

\* ...which fails, or pages of scrollback that do not join up.
SeedFails(k) ==
  /\ seeder[k].pc \in {"snap", "install"}
  /\ Become(k, "done") \/ Become(k, "gen")
  /\ UNCHANGED <<held, seq, daemon, link, server, kf>>

\* installAt, once this server's ring has reached the snapshot's offset.
Install(k) ==
  LET s   == seeder[k]
      pos == base.ring + (s.offset - base.daemon)
  IN  /\ s.pc = "install"
      /\ IF holed[k] \/ (s.gen = kf.gen /\ s.offset < base.daemon)
         THEN Become(k, "done") /\ UNCHANGED kf
         ELSE IF s.gen # kf.gen THEN Become(k, "gen") /\ UNCHANGED kf
         ELSE /\ pos <= seq
              /\ IF ~Readable(pos) THEN Become(k, "gen") /\ UNCHANGED kf
                 ELSE /\ kf' = [kf EXCEPT !.model = Bytes(0, s.offset), !.grid = s.grid, !.at = pos]
                      /\ Become(k, "done")
      /\ UNCHANGED <<held, seq, daemon, link, server>>

-----------------------------------------------------------------------------
KeyframeInit ==
  /\ held = <<>> /\ seq = 0
  /\ drawn = <<>> /\ dgrid \in TermSizes /\ resizes = 0
  /\ inflight = <<>> /\ connUp = FALSE /\ attach = 0
  /\ holed = [k \in Attaches |-> FALSE]
  /\ phase = "reattach" /\ since = NoOffset /\ from = 0 /\ fresh = TRUE
  /\ replayEnd = 0 /\ ackGrid = dgrid /\ base = [daemon |-> 0, ring |-> 0]
  /\ kf = [model |-> NoModel, grid |-> dgrid, at |-> 0, gen |-> 0]
  /\ seeder = [k \in Attaches |-> Idle("none", 0)]

KeyframeNext ==
  \/ \E n \in 1 .. MaxWrite, dropped \in BOOLEAN : Output(n, dropped)
  \/ \E g \in TermSizes : DaemonResize(g)
  \/ attach > 0 /\ NoticeGap
  \/ \E k \in 0 .. Len(inflight) : ConnectionDrops(k)
  \/ PumpData \/ PumpResize \/ PumpGap
  \/ Dropped
  \/ \E f \in 0 .. Dseq, g \in TermSizes : SubscribeStream(f, g)
  \/ AttachKeyframe
  \/ \E k \in Attaches : SeedGen(k) \/ SeedSnap(k) \/ SeedFails(k) \/ Install(k)

KeyframeSpec == KeyframeInit /\ [][KeyframeNext]_keyframeVars
-----------------------------------------------------------------------------
(***************************************************************************)
(* Properties.                                                             *)
(***************************************************************************)
KeyframeTypeOK ==
  /\ held \in Seq(1 .. MaxBytes) /\ Len(held) <= Cap /\ seq \in Nat
  /\ drawn \in Seq(TermSizes) /\ dgrid \in TermSizes /\ ackGrid \in TermSizes
  /\ connUp \in BOOLEAN /\ attach \in 0 .. MaxAttaches /\ holed \in [Attaches -> BOOLEAN]
  /\ phase \in {"reattach", "attaching", "attached"} /\ since \in Nat \cup {NoOffset}
  /\ kf.model = NoModel \/ kf.model \in Seq(1 .. MaxBytes)
  /\ kf.grid \in TermSizes /\ kf.at \in 0 .. seq /\ kf.gen \in Nat
  /\ \A k \in Attaches : seeder[k].pc \in {"none", "gen", "snap", "install", "done"}

\* What a browser gets: the model's screen, then the ring after it.
HasModel == kf.model # NoModel
RestorePoint == kf.model \o After(kf.at)

\* The ring still holds the window: a browser is never sent back to a bare
\* replay because the model fell too far behind (kfWindowLimit).
WindowHeld == HasModel => Readable(kf.at)

\* Model and window are one stretch of the program's output, ending at the last
\* byte the server took in, whatever resizes, seeds, drops and re-attachments
\* went before; unless this attachment's stream recorded a loss.
RestoreContinuous ==
  HasModel /\ WindowHeld /\ ~holed[attach] =>
    LET r == RestorePoint
    IN  /\ \A i \in 1 .. Len(r) - 1 : r[i + 1] = r[i] + 1
        /\ phase = "attached" /\ r # <<>> => r[Len(r)] = base.daemon + (seq - base.ring)

\* The browser executes the window on the grid the model is on: live output in
\* it was drawn for that grid (kfResizeLocked, keyframe.gen).
WindowOnModelGrid ==
  HasModel /\ WindowHeld =>
    LET w == After(kf.at)
    IN  \A i \in 1 .. Len(w) : w[i] > replayEnd => drawn[w[i]] = kf.grid

\* A restore is whole: there is a window to send, it continues the model up to
\* the last byte with none missing or twice, and it was drawn for the model's
\* grid (KeyframeSnapshot, kfAdvanceLocked, kfResizeLocked).
RestoreIsWhole == RestoreContinuous /\ WindowHeld /\ WindowOnModelGrid
=============================================================================
