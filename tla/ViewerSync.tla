----------------------------- MODULE ViewerSync -----------------------------
(***************************************************************************)
(* The last hop: one browser's queue between the pump, which must never    *)
(* block on it, and the connection's writer, which may stall.              *)
(*                                                                         *)
(* What a browser shows is a restore point followed by the frames written  *)
(* since.  A browser that loses a frame is marked stale, receives nothing  *)
(* more, and is brought to the present in one piece by its Resync frame    *)
(* (session_screen.go, session_viewport.go; writer and reader loops in     *)
(* handlers.go).  A hidden tab is an observer: its output is dropped.      *)
(*                                                                         *)
(* A data frame is the interval (lo, hi] of ring positions it carries and  *)
(* the grid its bytes were drawn for.                                      *)
(***************************************************************************)
EXTENDS Integers, Sequences, BoundedQueue

CONSTANTS
  QCap,       \* capacity of viewer.ch (256 in the code)
  Reserve,    \* viewerControlReserve (8 in the code)
  Grids,      \* terminal sizes
  MaxSeq,     \* bound: bytes produced
  MaxResizes, \* bound: grid changes
  MaxSizes,   \* bound: sizes the browser declares
  MaxAnswers, \* bound: declarations answered without asking the daemon
  MaxReattaches, \* bound: re-attachments that find another grid
  MaxResyncs  \* bound: seeds and restarts that change every restore point

ASSUME ViewerAssumption ==
  /\ QCap \in Nat \ {0} /\ Reserve \in Nat /\ Grids # {}
  /\ MaxSeq \in Nat /\ MaxResizes \in Nat /\ MaxSizes \in Nat
  /\ MaxAnswers \in Nat /\ MaxReattaches \in Nat /\ MaxResyncs \in Nat

VARIABLES
  seq,       \* Buffer.Seq(): output ingested by the pump
  pty,       \* Session.pty
  done,      \* Session.done is closed
  conn,      \* "new" (subscribed), "live" (restored, loops running), "exited" (shell_exit sent), "closed"
  visible,   \* viewer.size is not zero
  displayed, \* viewer.visibleOnce
  stale,     \* viewer.stale
  queue,     \* viewer.ch
  hand,      \* what the writer has dequeued and not yet written, at most one frame
  reader,    \* setViewerSize past its lock: "idle", "asked", "answer" with the grid it read
  told,      \* the last grid announced to the browser
  shown,     \* what the browser shows: up to `to`, `whole` and `framed` since its last restore
  unseen,    \* history: something was dropped for a browser that was never displayed
  used       \* resizes, declarations, answers, re-attachments and resyncs so far

session == <<seq, pty, done>>
viewer  == <<visible, displayed, stale, queue>>
loops   == <<conn, hand, reader>>
browser == <<told, shown, unseen>>
vars    == <<session, viewer, loops, browser, used>>

ResyncFrame       == [kind |-> "resync"]
ResizeFrame(g)    == [kind |-> "resize", grid |-> g]
DataFrame(lo, hi) == [kind |-> "data", lo |-> lo, hi |-> hi, grid |-> pty]

Registered == conn \in {"new", "live"}
Idle       == [pc |-> "idle"]
Asked      == [pc |-> "asked"]

(***************************************************************************)
(* The pump and the queue.                                                 *)
(***************************************************************************)

\* Mutant: the Resync is a frame that may find no room.
MarkStale_IfRoom ==
  /\ stale' = TRUE
  /\ queue' = IF stale \/ Len(queue) = QCap THEN queue ELSE Append(queue, ResyncFrame)

\* Mutant: the writer is not told.
MarkStale_NoWake == stale' = TRUE /\ UNCHANGED queue

\* markStaleLocked: only the first mark pushes a Resync.
MarkStale ==
  /\ stale' = TRUE
  /\ queue' = IF stale THEN queue ELSE PushNewestOnFull(queue, QCap, ResyncFrame)

Keep == UNCHANGED <<stale, queue>>

\* fanOutLocked, for a browser that is displaying the session.
Deliver(f) ==
  IF stale THEN Keep
  ELSE IF AdmitExpendable(queue, QCap, Reserve)
  THEN queue' = Append(queue, f) /\ UNCHANGED stale
  ELSE MarkStale

\* pumpStream: ring, keyframe and fan-out in one critical section.
Output ==
  /\ ~done /\ seq < MaxSeq /\ seq' = seq + 1
  /\ IF visible /\ Registered THEN Deliver(DataFrame(seq, seq + 1)) ELSE Keep
  /\ unseen' = (unseen \/ (Registered /\ ~visible /\ ~displayed))
  /\ UNCHANGED <<pty, done, visible, displayed, loops, told, shown, used>>

\* Mutant: the announcement does not wait its turn behind the output.
PushGrid_Overtakes(g) ==
  IF stale THEN Keep ELSE queue' = <<ResizeFrame(g)>> \o queue /\ UNCHANGED stale

\* pushViewerResizeLocked and the stale check of both its callers.
PushGrid(g) ==
  IF stale THEN Keep
  ELSE IF Len(queue) < QCap THEN queue' = Append(queue, ResizeFrame(g)) /\ UNCHANGED stale
  ELSE MarkStale

\* applyGrid: the session's grid changes at this point of its stream.
ApplyGrid(g) ==
  /\ ~done /\ used.resizes < MaxResizes /\ g # pty
  /\ pty' = g
  /\ IF Registered THEN PushGrid(g) ELSE Keep
  /\ used' = [used EXCEPT !.resizes = @ + 1]
  /\ UNCHANGED <<seq, done, visible, displayed, loops, browser>>

\* attach: the connection to the daemon came back, its stream continues this
\* server's copy, and the session's grid changed meanwhile.
AttachGrid(g) ==
  /\ ~done /\ used.reattaches < MaxReattaches /\ g # pty
  /\ pty' = g
  /\ used' = [used EXCEPT !.reattaches = @ + 1]
  /\ UNCHANGED <<seq, done, viewer, loops, browser>>

\* resyncAllViewersLocked: a seed was installed or the copy started over.
ResyncAll ==
  /\ used.resyncs < MaxResyncs /\ Registered
  /\ MarkStale
  /\ used' = [used EXCEPT !.resyncs = @ + 1]
  /\ UNCHANGED <<session, visible, displayed, loops, browser>>

(***************************************************************************)
(* The connection.                                                         *)
(***************************************************************************)

\* syncViewer and the writes of restoreViewer: the queue is drained, the stale
\* mark cleared and the restore point read in one critical section.
Sync ==
  /\ queue' = <<>> /\ stale' = FALSE /\ unseen' = FALSE
  /\ told' = pty /\ shown' = [to |-> seq, whole |-> TRUE, framed |-> TRUE]

\* handleWebSocket, before its loops start.
ConnectRestore ==
  /\ conn = "new" /\ conn' = "live"
  /\ Sync
  /\ UNCHANGED <<session, visible, displayed, hand, reader, used>>

\* The writer takes a frame...
Take ==
  /\ conn = "live" /\ hand = <<>> /\ queue # <<>>
  /\ hand' = <<Head(queue)>> /\ queue' = Tail(queue)
  /\ UNCHANGED <<session, visible, displayed, stale, conn, reader, browser, used>>

\* ...and restores the browser, drops what an observer would not see, or writes.
WriteResync ==
  /\ hand # <<>> /\ hand[1].kind = "resync"
  /\ hand' = <<>> /\ Sync
  /\ UNCHANGED <<session, visible, displayed, conn, reader, used>>

SkipHidden ==
  /\ hand # <<>> /\ hand[1].kind # "resync" /\ ~visible
  /\ hand' = <<>> /\ unseen' = (unseen \/ ~displayed)
  /\ UNCHANGED <<session, viewer, conn, reader, told, shown, used>>

WriteData ==
  /\ hand # <<>> /\ hand[1].kind = "data" /\ visible
  /\ shown' = [to     |-> hand[1].hi,
               whole  |-> shown.whole /\ shown.to = hand[1].lo,
               framed |-> shown.framed /\ told = hand[1].grid]
  /\ hand' = <<>>
  /\ UNCHANGED <<session, viewer, conn, reader, told, unseen, used>>

WriteResize ==
  /\ hand # <<>> /\ hand[1].kind = "resize" /\ visible
  /\ told' = hand[1].grid /\ hand' = <<>>
  /\ UNCHANGED <<session, viewer, conn, reader, shown, unseen, used>>

Write == conn = "live" /\ (WriteResync \/ SkipHidden \/ WriteData \/ WriteResize)

\* setViewerSize, its locked section: an observer that was displayed before
\* comes back stale.
Declare(show) ==
  /\ conn = "live" /\ reader = Idle /\ used.sizes < MaxSizes
  /\ visible' = show /\ displayed' = (displayed \/ show)
  /\ IF show /\ ~visible /\ displayed
     THEN stale' = TRUE /\ queue' = PushNewestOnFull(queue, QCap, ResyncFrame)
     ELSE Keep
  /\ reader' = IF show THEN Asked ELSE Idle
  /\ used' = [used EXCEPT !.sizes = @ + 1]
  /\ UNCHANGED <<session, conn, hand, browser>>

\* setViewerSize after syncViewport: the daemon will answer, or the session has
\* the size asked for...
NoAnswer ==
  /\ reader.pc = "asked" /\ reader' = Idle
  /\ UNCHANGED <<session, viewer, conn, hand, browser, used>>

\* ...or this server answers: it reads the grid...
ReadGrid ==
  /\ reader.pc = "asked" /\ used.answers < MaxAnswers
  /\ reader' = [pc |-> "answer", grid |-> pty]
  /\ used' = [used EXCEPT !.answers = @ + 1]
  /\ UNCHANGED <<session, viewer, conn, hand, browser>>

\* ...and hands it to the browser.
TellViewer ==
  /\ reader.pc = "answer" /\ Registered
  /\ PushGrid(reader.grid) /\ reader' = Idle
  /\ UNCHANGED <<session, visible, displayed, conn, hand, browser, used>>

\* pumpStream closes done once the last output has been fanned out.
SessionExit ==
  /\ ~done /\ done' = TRUE
  /\ UNCHANGED <<seq, pty, viewer, loops, browser, used>>

\* The writer's select takes the exit: it may, as soon as done is closed.
WriterExit ==
  /\ conn = "live" /\ done /\ hand = <<>> /\ conn' = "exited"
  /\ UNCHANGED <<session, viewer, hand, reader, browser, used>>

\* The socket closes, or the connection is preempted.
Disconnect ==
  /\ Registered /\ conn' = "closed" /\ hand' = <<>> /\ reader' = Idle
  /\ queue' = <<>>
  /\ UNCHANGED <<session, visible, displayed, stale, browser, used>>

-----------------------------------------------------------------------------
Init ==
  /\ seq = 0 /\ pty \in Grids /\ done = FALSE
  /\ conn = "new" /\ visible = FALSE /\ displayed = FALSE /\ stale = FALSE
  /\ queue = <<>> /\ hand = <<>> /\ reader = Idle
  /\ told = pty /\ shown = [to |-> 0, whole |-> TRUE, framed |-> TRUE] /\ unseen = FALSE
  /\ used = [resizes |-> 0, sizes |-> 0, answers |-> 0, reattaches |-> 0, resyncs |-> 0]

Next ==
  \/ Output
  \/ \E g \in Grids : ApplyGrid(g) \/ AttachGrid(g)
  \/ ResyncAll
  \/ ConnectRestore \/ Take \/ Write
  \/ \E show \in BOOLEAN : Declare(show)
  \/ NoAnswer \/ ReadGrid \/ TellViewer
  \/ SessionExit \/ WriterExit \/ Disconnect

\* The writer is a loop over a socket with a write deadline: it keeps taking
\* frames or the connection closes.
Fairness == WF_vars(ConnectRestore) /\ WF_vars(Take) /\ WF_vars(Write)

Spec     == Init /\ [][Next]_vars
FairSpec == Spec /\ Fairness
-----------------------------------------------------------------------------
(***************************************************************************)
(* Properties.                                                             *)
(***************************************************************************)
Frames == {ResyncFrame} \cup [kind : {"resize"}, grid : Grids]
            \cup [kind : {"data"}, lo : 0 .. MaxSeq, hi : 0 .. MaxSeq, grid : Grids]

TypeOK ==
  /\ seq \in 0 .. MaxSeq /\ pty \in Grids /\ told \in Grids /\ done \in BOOLEAN
  /\ conn \in {"new", "live", "exited", "closed"}
  /\ visible \in BOOLEAN /\ displayed \in BOOLEAN /\ stale \in BOOLEAN /\ unseen \in BOOLEAN
  /\ queue \in Seq(Frames) /\ Len(queue) <= QCap
  /\ hand \in Seq(Frames) /\ Len(hand) <= 1 /\ (conn = "new" => hand = <<>>)
  /\ reader \in {Idle, Asked} \cup [pc : {"answer"}, grid : Grids]
  /\ shown \in [to : 0 .. MaxSeq, whole : BOOLEAN, framed : BOOLEAN]
  /\ used \in [resizes : 0 .. MaxResizes, sizes : 0 .. MaxSizes, answers : 0 .. MaxAnswers,
               reattaches : 0 .. MaxReattaches, resyncs : 0 .. MaxResyncs]

Displaying == conn = "live" /\ visible /\ ~stale
Coming     == hand \o queue

\* The frames of c of a kind.
At(c, kind) == {i \in 1 .. Len(c) : c[i].kind = kind}

\* The data frames of c carry one stretch of output, from `from` up to `to`.
Unbroken(c, from, to) ==
  LET D == At(c, "data")
  IN  /\ \A i \in D : (\A j \in D : i <= j) => c[i].lo = from
      /\ \A i, j \in D : i < j /\ (\A k \in D : k <= i \/ j <= k) => c[i].hi = c[j].lo
      /\ \A i \in D : (\A j \in D : j <= i) => c[i].hi = to
      /\ D = {} => from = to

\* What is on its way continues what is shown, up to the present.
Continues == Unbroken(Coming, shown.to, seq)

\* A browser displaying the session shows one unbroken stretch of output and
\* has the rest of it queued: it was stopped at the first frame it lost, and
\* restored before anything followed (fanOutLocked, syncViewer).
VisibleViewerWhole == Displaying /\ ~unseen => shown.whole /\ Continues

\* Output is executed on the grid it was drawn for: announcements keep their
\* place among the output, in the queue or in the restore (viewerFrame), unless
\* setViewerSize answered by itself or a re-attach found another grid.
GridAsDrawn ==
  Displaying /\ ~unseen /\ used.answers = 0 /\ used.reattaches = 0 => shown.framed

\* A browser that receives nothing more has a Resync coming: nothing pushed
\* after it can evict it (markStaleLocked, tellViewer).
StaleHasResync == conn = "live" /\ stale => At(Coming, "resync") # {}

\* A browser misses nothing unawares: what it shows is whole, or it is told to
\* ask again (syncViewer, markStaleLocked): the two together.
NothingMissed == VisibleViewerWhole /\ StaleHasResync

\* Whatever the queue overflowed or a seed replaced, a displayed browser gets to
\* the present (the writer loop of handleWebSocket).
OutputReachesViewer ==
  \A n \in 1 .. MaxSeq :
    (conn = "live" /\ visible /\ seq >= n)
      ~> (conn # "live" \/ ~visible \/ unseen \/ shown.to >= n)
=============================================================================
