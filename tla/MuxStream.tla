------------------------------ MODULE MuxStream ------------------------------
(***************************************************************************)
(* One session's output, from the daemon's ring to the server's copy of    *)
(* it:                                                                     *)
(*                                                                         *)
(*   PTY -> ring + queue -> wire -> events -> the server's copy            *)
(*          session.go      conn    client.go   session_mux.go             *)
(*                                                                         *)
(* Bytes are identified by their position in the session's output, so a    *)
(* frame is the interval [lo, hi) of positions it stands for.  A control   *)
(* frame stands for no bytes (lo = hi, the position it was produced at),   *)
(* except a gap notice, which stands for the bytes it announces as lost.   *)
(* Every frame remembers the grid it was drawn for; a replay, whose bytes  *)
(* the ring keeps without their grids, has NoGrid.                         *)
(***************************************************************************)
EXTENDS Integers, Sequences, FiniteSets, BoundedQueue

CONSTANTS
  RingCap,     \* capacity of the daemon's ring, in bytes
  SubCap,      \* capacity of a subscription's queue (256 in the code)
  Reserve,     \* its slots kept for control frames (8 in the code)
  WireCap,     \* frames the socket holds before a write blocks
  EvCap,       \* capacity of the client's event channel (256 in the code)
  Grids,       \* terminal sizes
  NoGrid,      \* "drawn on grids nobody recorded"
  MaxAttempts, \* length of reattachBackoff (6 in the code)
  MaxSeq,      \* bound: bytes the session produces
  MaxChunk,    \* bound: bytes one PTY read returns
  MaxResizes,  \* bound: resizes announced
  MaxDrops     \* bound: connections lost

ASSUME StreamAssumption ==
  /\ RingCap \in Nat \ {0} /\ SubCap \in Nat \ {0} /\ Reserve \in Nat
  /\ WireCap \in Nat \ {0, 1} /\ EvCap \in Nat \ {0}
  /\ Grids # {} /\ NoGrid \notin Grids
  /\ MaxAttempts \in Nat \ {0}
  /\ MaxSeq \in Nat /\ MaxChunk \in Nat \ {0} /\ MaxResizes \in Nat /\ MaxDrops \in Nat

VARIABLES
  seq,        \* ring.Seq(): bytes the session has produced
  grid,       \* Session.size
  alive,      \* Session.alive
  registered, \* the daemon is up and d.sessions holds the session
  sub,        \* this server's subscription: "open", "closed" (draining), "none"
  queue,      \* subscription.ch
  wire,       \* frames written to the connection and not yet read
  connUp,     \* the connection is up
  events,     \* Stream.Events
  evOpen,     \* Stream.Events is not closed
  consumed,   \* Stream.consumed
  holed,      \* Stream.holed
  phase,      \* "adopting", "attached", "reattach", "exited" or "gaveup"
  since,      \* the resume point of the next attach, NoOffset for none
  tries,      \* failed attempts of the current reattach
  sawExit,    \* pumpStream's local `exited`
  kfGrid,     \* the grid of the server's screen model, kf.model
  copy,       \* the interval of output the server's own ring stands for
  seam,       \* history: copy joins two bytes that were not adjacent
  lost,       \* history: kinds of queued frames pushed out by a newer one
  resizes,    \* resizes announced so far
  drops       \* connections lost so far

session == <<seq, grid, alive, registered>>
link    == <<sub, queue, wire, connUp>>
stream  == <<events, evOpen, consumed, holed>>
server  == <<phase, since, tries, sawExit, kfGrid, copy>>
history == <<seam, lost>>
budget  == <<resizes, drops>>
vars    == <<session, link, stream, server, history, budget>>

NoOffset == -1
Kinds    == {"data", "gap", "resize", "exit"}

\* No frame ends before it begins, resizes and exits stand for no bytes, and a
\* resize names a grid.
Frame ==
  {f \in [kind : Kinds, lo : Nat, hi : Nat, grid : Grids \cup {NoGrid}] :
     /\ f.lo <= f.hi
     /\ f.kind \in {"resize", "exit"} => f.lo = f.hi
     /\ f.kind = "resize" => f.grid \in Grids}

DataFrame(lo, hi, g) == [kind |-> "data",   lo |-> lo, hi |-> hi, grid |-> g]
GapFrame(lo, hi, g)  == [kind |-> "gap",    lo |-> lo, hi |-> hi, grid |-> g]
ResizeFrame(at, g)   == [kind |-> "resize", lo |-> at, hi |-> at, grid |-> g]
ExitFrame(at, g)     == [kind |-> "exit",   lo |-> at, hi |-> at, grid |-> g]

\* ring.Len(): the daemon's ring is never reset.
Held == IF seq < RingCap THEN seq ELSE RingCap

(***************************************************************************)
(* The daemon: muxd/session.go.                                            *)
(***************************************************************************)

\* The kind of the queued frame a push onto a full queue throws away.
Evicted(q, cap) == IF Evicts(q, cap) THEN {Head(q).kind} ELSE {}

\* pushControl: readLoop and applySizeLocked hand this subscription a frame that
\* must not be lost.
PushControl(f) ==
  /\ queue'   = PushNewestOnFull(queue, SubCap, f)
  /\ lost' = lost \cup Evicted(queue, SubCap)

\* readLoop: one PTY read of n bytes goes into the ring and to the queue; a
\* chunk the queue cannot hold is dropped and the drop announced.
Output(n) ==
  /\ alive /\ seq + n <= MaxSeq
  /\ seq' = seq + n
  /\ \/ /\ sub = "open" /\ AdmitExpendable(queue, SubCap, Reserve)
        /\ queue' = Append(queue, DataFrame(seq, seq + n, grid))
        /\ UNCHANGED lost
     \/ /\ sub = "open" /\ ~AdmitExpendable(queue, SubCap, Reserve)
        /\ PushControl(GapFrame(seq, seq + n, grid))
     \/ sub # "open" /\ UNCHANGED <<queue, lost>>
  /\ UNCHANGED <<grid, alive, registered, sub, wire, connUp, stream, server, seam, budget>>

\* Mutant: the resize overtakes the output queued before it.
Resize_OutOfBand(g) ==
  /\ alive /\ resizes < MaxResizes
  /\ grid' = g /\ resizes' = resizes + 1 /\ UNCHANGED lost
  /\ queue' = IF sub = "open" THEN <<ResizeFrame(seq, g)>> \o queue ELSE queue
  /\ UNCHANGED <<seq, alive, registered, sub, wire, connUp, stream, server, seam, drops>>

\* applySizeLocked: a client attached, left or resized its window and the
\* session moved to grid g; or SetAttachSize answers this server, whose own
\* resize did not move the session (g is then the grid the session has).
Resize(g) ==
  /\ alive /\ resizes < MaxResizes
  /\ grid' = g /\ resizes' = resizes + 1
  /\ IF sub = "open" THEN PushControl(ResizeFrame(seq, g)) ELSE UNCHANGED <<queue, lost>>
  /\ UNCHANGED <<seq, alive, registered, sub, wire, connUp, stream, server, seam, drops>>

\* finish: the process is gone; every subscription's channel is closed.
Finish ==
  /\ alive' = FALSE
  /\ sub' = IF sub = "open" THEN "closed" ELSE sub

ProcessExit ==
  /\ alive /\ Finish
  /\ UNCHANGED <<seq, grid, registered, queue, wire, connUp, stream, server, history, budget>>

\* MsgDestroy from any client: the session leaves d.sessions, then finish.  (A
\* chunk the read loop still holds reaches a ring nobody can attach to.)
Destroy ==
  /\ registered
  /\ registered' = FALSE /\ Finish
  /\ UNCHANGED <<seq, grid, queue, wire, connUp, stream, server, history, budget>>

\* Mutant: the forwarder stops at the close instead of draining the channel.
Forward_StopsAtClose ==
  /\ sub = "open" /\ connUp
  /\ queue # <<>> /\ Len(wire) < WireCap
  /\ wire' = Append(wire, Head(queue)) /\ queue' = Tail(queue)
  /\ UNCHANGED <<session, sub, connUp, stream, server, history, budget>>

\* handleConn's forwarder: frames go onto the wire in queue order.
Forward ==
  /\ sub \in {"open", "closed"} /\ connUp
  /\ queue # <<>> /\ Len(wire) < WireCap
  /\ wire' = Append(wire, Head(queue)) /\ queue' = Tail(queue)
  /\ UNCHANGED <<session, sub, connUp, stream, server, history, budget>>

\* Mutant: the exit is announced before the queue is drained.
ForwardExit_BeforeDrain ==
  /\ sub = "closed" /\ connUp
  /\ Len(wire) < WireCap
  /\ wire' = Append(wire, ExitFrame(seq, grid)) /\ sub' = "none"
  /\ UNCHANGED <<session, queue, connUp, stream, server, history, budget>>

\* ... and MsgExited only once the closed channel is drained.
ForwardExit ==
  /\ sub = "closed" /\ connUp
  /\ queue = <<>> /\ Len(wire) < WireCap
  /\ wire' = Append(wire, ExitFrame(seq, grid)) /\ sub' = "none"
  /\ UNCHANGED <<session, queue, connUp, stream, server, history, budget>>

(***************************************************************************)
(* The connection: it can break at any time, and what was already written  *)
(* may still be read, up to some point.                                    *)
(***************************************************************************)
LoseConnection(k) ==
  /\ wire' = SubSeq(wire, 1, k)
  /\ connUp' = FALSE
  /\ sub' = "none" /\ queue' = <<>>

Drop(k) ==
  /\ connUp /\ drops < MaxDrops
  /\ LoseConnection(k)
  /\ drops' = drops + 1
  /\ UNCHANGED <<session, stream, server, history, resizes>>

\* The daemon dies and every session with it.
DaemonCrash(k) ==
  /\ registered /\ drops < MaxDrops
  /\ registered' = FALSE /\ alive' = FALSE
  /\ IF connUp THEN LoseConnection(k) ELSE UNCHANGED link
  /\ drops' = drops + 1
  /\ UNCHANGED <<seq, grid, stream, server, history, resizes>>

(***************************************************************************)
(* The client's reader goroutine: muxd/client.go, Attach.                  *)
(***************************************************************************)
PushEvent(f) ==
  /\ events' = PushNewestOnFull(events, EvCap, f)
  /\ lost'   = lost \cup Evicted(events, EvCap)

\* A loss the stream knows of: its resume point is no longer trusted.
MarkHoled == holed' = TRUE

\* Mutant: a byte dropped here is counted as delivered.
ReadData_CountsDropped(f) ==
  /\ f.kind = "data"
  /\ consumed' = consumed + (f.hi - f.lo)
  /\ events' = IF Len(events) < EvCap THEN Append(events, f) ELSE events
  /\ UNCHANGED <<evOpen, holed, lost>>

ReadData(f) ==
  /\ f.kind = "data"
  /\ IF Len(events) < EvCap
     THEN /\ events' = Append(events, f)
          /\ consumed' = consumed + (f.hi - f.lo)
          /\ UNCHANGED <<holed, lost>>
     ELSE /\ MarkHoled
          /\ PushEvent(GapFrame(f.lo, f.hi, f.grid))
          /\ UNCHANGED consumed
  /\ UNCHANGED evOpen

ReadGap(f) ==
  /\ f.kind = "gap"
  /\ MarkHoled
  /\ PushEvent(f)
  /\ UNCHANGED <<evOpen, consumed>>

ReadResize(f) ==
  /\ f.kind = "resize"
  /\ PushEvent(f)
  /\ UNCHANGED <<evOpen, consumed, holed>>

\* Mutant: the reader waits for more after the exit.
ReadExit_StreamStaysOpen(f) ==
  /\ f.kind = "exit"
  /\ PushEvent(f)
  /\ UNCHANGED <<evOpen, consumed, holed>>

\* MsgExited is the last event of the stream: the reader returns.
ReadExit(f) ==
  /\ f.kind = "exit"
  /\ PushEvent(f)
  /\ evOpen' = FALSE
  /\ UNCHANGED <<consumed, holed>>

Read ==
  /\ evOpen /\ wire # <<>>
  /\ LET f == Head(wire)
     IN  ReadData(f) \/ ReadGap(f) \/ ReadResize(f) \/ ReadExit(f)
  /\ wire' = Tail(wire)
  /\ UNCHANGED <<session, sub, queue, connUp, server, seam, budget>>

ReadError ==
  /\ evOpen /\ wire = <<>> /\ ~connUp
  /\ evOpen' = FALSE
  /\ UNCHANGED <<session, link, events, consumed, holed, server, history, budget>>

(***************************************************************************)
(* The server: session_mux.go.                                             *)
(***************************************************************************)
\* ingestLocked: the bytes are appended to the ring and to the screen model.
Ingest(f) ==
  /\ copy' = [copy EXCEPT !.hi = f.hi]
  /\ seam' = (seam \/ f.lo # copy.hi)

\* pumpStream's loop body, one event.
Pump ==
  /\ phase = "attached" /\ events # <<>>
  /\ LET f == Head(events)
     IN  \/ f.kind = "data"   /\ Ingest(f) /\ UNCHANGED <<sawExit, kfGrid>>
         \/ f.kind = "gap"    /\ UNCHANGED <<copy, seam, sawExit, kfGrid>>
         \/ f.kind = "resize" /\ kfGrid' = f.grid /\ UNCHANGED <<copy, seam, sawExit>>
         \/ f.kind = "exit"   /\ sawExit' = TRUE /\ UNCHANGED <<copy, seam, kfGrid>>
  /\ events' = Tail(events)
  /\ UNCHANGED <<session, link, evOpen, consumed, holed, phase, since, tries, lost, budget>>

\* restartLocalCopy: the copy starts over, with the byte at position `at`.
RestartLocalCopy(at) == copy' = [lo |-> at, hi |-> at] /\ seam' = FALSE

\* The event channel is closed and drained: the session exited ...
PumpExited ==
  /\ phase = "attached" /\ events = <<>> /\ ~evOpen /\ sawExit
  /\ phase' = "exited" /\ connUp' = FALSE
  /\ UNCHANGED <<session, sub, queue, wire, stream, since, tries, sawExit, kfGrid, copy, history, budget>>

\* Mutant: resumes from the byte count of a stream that lost bytes.
PumpDropped_TrustsCount ==
  /\ phase = "attached" /\ events = <<>> /\ ~evOpen /\ ~sawExit
  /\ phase' = "reattach" /\ tries' = 0
  /\ since' = consumed
  /\ UNCHANGED <<session, link, stream, sawExit, kfGrid, copy, history, budget>>

\* ... or the connection dropped: reattach, from the start if bytes were lost.
PumpDropped ==
  /\ phase = "attached" /\ events = <<>> /\ ~evOpen /\ ~sawExit
  /\ phase' = "reattach" /\ tries' = 0
  /\ IF holed
     THEN since' = NoOffset /\ RestartLocalCopy(0)
     ELSE since' = consumed /\ UNCHANGED <<copy, seam>>
  /\ UNCHANGED <<session, link, stream, sawExit, kfGrid, lost, budget>>

\* Session.Subscribe: where the replay starts.  A tail that begins inside an
\* escape sequence is cut forward, by up to all of it.
ReplayStarts ==
  IF since = NoOffset \/ since > seq \/ seq - since > Held
  THEN {seq - Held}
  ELSE IF seq - since \in 1 .. Held - 1 THEN since .. seq ELSE {since}

\* SessionManager.attach: subscribe, then keep the copy only if the replay
\* begins exactly where it ends.
Attach(from, g) ==
  /\ phase \in {"adopting", "reattach"} /\ registered
  /\ from \in ReplayStarts
  /\ alive \/ g = grid
  /\ grid' = g
  /\ sub' = IF alive THEN "open" ELSE "none"
  /\ queue' = IF g # grid THEN <<ResizeFrame(seq, g)>> ELSE <<>>
  /\ wire' = (IF from < seq THEN <<DataFrame(from, seq, NoGrid)>> ELSE <<>>)
               \o (IF alive THEN <<>> ELSE <<ExitFrame(seq, g)>>)
  /\ connUp' = TRUE
  /\ events' = <<>> /\ evOpen' = TRUE /\ consumed' = from /\ holed' = FALSE
  /\ phase' = "attached" /\ kfGrid' = g /\ sawExit' = FALSE
  /\ IF from = since
     THEN UNCHANGED <<copy, seam>> /\ lost' = lost \ {"resize"}
     ELSE RestartLocalCopy(from) /\ lost' = {}
  /\ UNCHANGED <<seq, alive, registered, since, tries, budget>>

\* "No such session" and "no daemon" are definitive: markEnded.
AttachGone ==
  /\ phase = "reattach" /\ ~registered
  /\ phase' = "exited"
  /\ UNCHANGED <<session, link, stream, since, tries, sawExit, kfGrid, copy, history, budget>>

\* Any other error is retried while the backoff schedule lasts.  The attach
\* of an adopted session is tried once.
AttachFails ==
  /\ \/ phase = "adopting" /\ phase' = "gaveup" /\ UNCHANGED tries
     \/ /\ phase = "reattach"
        /\ tries' = tries + 1
        /\ phase' = IF tries + 1 = MaxAttempts THEN "gaveup" ELSE "reattach"
  /\ UNCHANGED <<session, link, stream, since, sawExit, kfGrid, copy, history, budget>>

\* The server process stops (detachMux, or a crash) and a new one restores its
\* view from the daemon: no scrollback of its own, and no attach to a session
\* listed as dead.
ServerRestart ==
  /\ drops < MaxDrops
  /\ LoseConnection(0)
  /\ events' = <<>> /\ evOpen' = FALSE /\ consumed' = 0 /\ holed' = FALSE
  /\ phase' = IF registered /\ alive THEN "adopting" ELSE "exited"
  /\ since' = NoOffset /\ tries' = 0 /\ sawExit' = FALSE
  /\ kfGrid' = grid /\ RestartLocalCopy(0) /\ lost' = {}
  /\ drops' = drops + 1
  /\ UNCHANGED <<session, resizes>>

-----------------------------------------------------------------------------
\* The server meets a session that may already have produced output.
Init ==
  /\ seq \in 0 .. MaxSeq /\ grid \in Grids /\ alive = TRUE /\ registered = TRUE
  /\ sub = "none" /\ queue = <<>> /\ wire = <<>> /\ connUp = FALSE
  /\ events = <<>> /\ evOpen = FALSE /\ consumed = 0 /\ holed = FALSE
  /\ phase = "adopting" /\ since = NoOffset /\ tries = 0 /\ sawExit = FALSE
  /\ kfGrid = grid /\ copy = [lo |-> 0, hi |-> 0]
  /\ seam = FALSE /\ lost = {}
  /\ resizes = 0 /\ drops = 0

Next ==
  \/ \E n \in 1 .. MaxChunk : Output(n)
  \/ \E g \in Grids : Resize(g)
  \/ ProcessExit
  \/ Destroy
  \/ Forward
  \/ ForwardExit
  \/ \E k \in 0 .. Len(wire) : Drop(k)
  \/ \E k \in 0 .. Len(wire) : DaemonCrash(k)
  \/ Read
  \/ ReadError
  \/ Pump
  \/ PumpExited
  \/ PumpDropped
  \/ \E from \in 0 .. seq, g \in Grids : Attach(from, g)
  \/ AttachGone
  \/ AttachFails
  \/ ServerRestart

Spec == Init /\ [][Next]_vars

\* The goroutines of the code keep running; the process, the network and the
\* other clients owe nothing.
AttachStep == \E from \in 0 .. seq, g \in Grids : Attach(from, g)
Fairness ==
  /\ WF_vars(Forward) /\ WF_vars(ForwardExit)
  /\ WF_vars(Read) /\ WF_vars(ReadError)
  /\ WF_vars(Pump) /\ WF_vars(PumpExited) /\ WF_vars(PumpDropped)
  /\ WF_vars(AttachStep \/ AttachFails \/ AttachGone)

FairSpec == Spec /\ Fairness
-----------------------------------------------------------------------------
(***************************************************************************)
(* Properties.                                                             *)
(***************************************************************************)
SessionType ==
  seq \in Nat /\ grid \in Grids /\ alive \in BOOLEAN /\ registered \in BOOLEAN
LinkType ==
  /\ sub \in {"open", "closed", "none"} /\ connUp \in BOOLEAN
  /\ queue \in Seq(Frame) /\ Len(queue) <= SubCap
  /\ wire \in Seq(Frame)  /\ Len(wire)  <= WireCap
StreamType ==
  /\ events \in Seq(Frame) /\ Len(events) <= EvCap
  /\ evOpen \in BOOLEAN /\ consumed \in Nat /\ holed \in BOOLEAN
ServerType ==
  /\ phase \in {"adopting", "attached", "reattach", "exited", "gaveup"}
  /\ tries \in 0 .. MaxAttempts /\ (phase = "reattach" => tries < MaxAttempts)
  /\ since \in Nat \cup {NoOffset} /\ sawExit \in BOOLEAN
  /\ kfGrid \in Grids /\ copy \in [lo : Nat, hi : Nat]
HistoryType ==
  seam \in BOOLEAN /\ lost \in SUBSET Kinds
BudgetType ==
  resizes \in Nat /\ drops \in Nat

\* The types; no queue outgrows its capacity, no run of attempts the schedule.
TypeOK ==
  SessionType /\ LinkType /\ StreamType /\ ServerType /\ HistoryType /\ BudgetType

\* A queue overflowed so far that frames already queued were pushed out, and
\* with them bytes, or the notice that bytes were dropped.
Missing == lost \cap {"data", "gap"} # {}

\* The server's copy never joins two stretches of output that were not adjacent
\* in the session while the stream still claims to have lost nothing: such a
\* copy would survive the next re-attach (Stream.holed, restartLocalCopy).
SeamFlagged == seam => holed \/ Missing

\* What the doc comment of Stream.holed says: it records that bytes were lost
\* "somewhere in this stream", with no exception for an overflowing queue.
LossAnnounced == seam => holed

\* Where the stream's contents end: after the last frame taken out or waiting.
EndOf(s, a) == IF s = <<>> THEN a ELSE s[Len(s)].hi

\* Stream.consumed is the position up to which the server holds, or is about to
\* take in, every byte: resuming there neither repeats a byte nor skips one.
ResumePointTruthful ==
  phase = "attached" /\ ~holed /\ ~Missing => consumed = EndOf(events, copy.hi)

\* The exit is the last thing on the stream: when the pump has seen it, the
\* program's last byte is in the server's copy, unless a loss was recorded.
ExitAfterLastByte == sawExit /\ ~holed /\ ~Missing => copy.hi = seq

\* Why the three hold: the frames of s stand, in order and without a hole, for
\* the bytes from a up to b.
Tiles(s, a, b) ==
  IF s = <<>> THEN a = b
  ELSE /\ s[1].lo = a /\ s[Len(s)].hi = b
       /\ \A i \in 1 .. Len(s) - 1 : s[i].hi = s[i + 1].lo

\* A stream that flagged nothing: the events it holds continue the copy up to
\* consumed, and the wire and then the queue continue them up to seq.
Unflagged == phase = "attached" /\ ~holed /\ ~Missing
EventsTile ==
  Unflagged => /\ Tiles(events, copy.hi, consumed)
               /\ \A i \in 1 .. Len(events) : events[i].kind # "gap"
WireTiles ==
  Unflagged /\ evOpen =>
    /\ Tiles(wire, consumed, EndOf(wire, consumed))
    /\ sub # "none" => Tiles(queue, EndOf(wire, consumed), seq)
\* Between attachments, an unflagged copy is intact and ends at the resume point.
ResumeKnown ==
  /\ phase = "adopting" => since = NoOffset
  /\ phase = "reattach" /\ since # NoOffset /\ ~Missing => since = copy.hi /\ ~seam
CopyInv == SeamFlagged /\ EventsTile /\ WireTiles /\ ResumeKnown

\* A subscription's channel is closed by finish alone.
ClosedWhenDead == sub = "closed" => ~alive

\* The exit comes once, after the last byte, when the session is dead.
QueueQuiet == \A i \in 1 .. Len(queue) : queue[i].kind # "exit"
WireExit ==
  \A i \in 1 .. Len(wire) : wire[i].kind = "exit" => ~alive /\ wire[i].hi = seq
EventsExit ==
  \A i \in 1 .. Len(events) : events[i].kind = "exit" =>
    ~alive /\ events[i].hi = seq /\ i = Len(events) /\ ~evOpen
SeenExit == sawExit => ~alive /\ events = <<>> /\ ~evOpen /\ phase # "reattach"
ExitIsLast == ClosedWhenDead /\ QueueQuiet /\ WireExit /\ EventsExit /\ SeenExit

\* Live output is painted onto the grid it was drawn for, even across dropped
\* output: resizes travel in order with the bytes (subFrame, StreamEvent).
OutputOnItsGrid ==
  [][phase = "attached" /\ phase' = "attached" /\ copy'.hi # copy.hi
       /\ "resize" \notin lost /\ Head(events).grid # NoGrid
     => Head(events).grid = kfGrid]_vars

\* Every byte the session produces reaches the server's copy, unless the stream
\* recorded a loss or the server stopped following the session.
EveryByteArrives ==
  \A n \in 1 .. MaxSeq :
    seq >= n ~> copy.hi >= n \/ holed \/ Missing \/ phase \in {"exited", "gaveup"}

\* When the process is gone, however it went, the server stops showing the
\* session as running, unless its attempts to re-attach ran out.
ExitReported == ~alive ~> phase \in {"exited", "gaveup"}
=============================================================================
