--------------------------- MODULE TerminalSurface ---------------------------
(***************************************************************************)
(* One terminal tab of the browser: CliTerminalSurface.vue, which joins    *)
(* the socket (BrowserSocket), the restore overlay (RestoreGate) and what  *)
(* this page tells the server about its size (viewportDeclaration.ts).     *)
(*                                                                         *)
(* The surface asks for a connection when its tab is first shown, but      *)
(* xterm is built later; the connection gate holds the request until the   *)
(* output has a receiver.  A page speaks for a size only while someone     *)
(* looks at it, and takes it back when they stop.                          *)
(*                                                                         *)
(* Watches of Vue run before the next event, so the watch on the socket's  *)
(* status belongs to the step that changed it.                             *)
(***************************************************************************)
EXTENDS BrowserSocket, RestoreGate

CONSTANT Sizes   \* grids a container can measure or the server give

VARIABLES
  requested, ready, disposed,   \* createTerminalConnectionGate
  active, pageVisible,          \* the tab is selected, the page is shown
  wasViewer, lastDeclared,      \* what declareViewport remembers
  ladder,                       \* fits still to come after a connection
  size,                         \* the grid the container would measure
  resizing,                     \* a change of size not reported yet
  vote                          \* the server's record of this connection

tabVars == <<active, pageVisible, disposed>>
connectVars == <<requested, ready>>
voteVars == <<wasViewer, lastDeclared, vote>>
sizeVars == <<ladder, size, resizing>>
surfaceVars == <<socketVars, restoreVars, tabVars, connectVars, voteVars, sizeVars>>

Observer == 0    \* 0x0: wants the output, has no say in the size
NoVote == -1     \* nothing declared on this connection
XtermGrid == -2  \* xterm's own grid, which the server gave it, sent back

ASSUME SurfaceAssumption == Sizes \subseteq Nat \ {0}

(* A tab is mounted shown or hidden; a hidden one builds no xterm.         *)
SurfaceInit ==
  /\ SocketInit /\ RestoreInit
  /\ ready = FALSE /\ disposed = FALSE
  /\ active \in BOOLEAN /\ pageVisible = TRUE /\ requested = active
  /\ wasViewer = FALSE /\ lastDeclared = NoVote /\ ladder = 0
  /\ size \in Sizes /\ resizing = FALSE
  /\ vote = NoVote

Viewer(a, v) == a /\ v

(* viewportIntent                                                          *)
Intent(was, now, changed) ==
  CASE now /\ (~was \/ changed) -> "declare"
    [] ~now /\ was -> "withdraw"
    [] OTHER -> "silent"

(* declareViewport, with the tab and page as they are after the step.      *)
(* measured: the grid the container measures now.                          *)
DeclareViewport(a, v, geometryChanged, measured) ==
  LET now == Viewer(a, v)
      changed == geometryChanged /\ lastDeclared # measured
  IN CASE ~ready -> UNCHANGED voteVars
       [] ready /\ Intent(wasViewer, now, changed) = "silent" ->
            wasViewer' = now /\ UNCHANGED <<lastDeclared, vote>>
       [] ready /\ Intent(wasViewer, now, changed) = "withdraw" ->
            /\ wasViewer' = FALSE /\ UNCHANGED lastDeclared
            /\ vote' = IF CanSend THEN Observer ELSE vote
       [] ready /\ Intent(wasViewer, now, changed) = "declare" ->
            IF CanSend
            THEN wasViewer' = TRUE /\ lastDeclared' = measured /\ vote' = measured
            ELSE wasViewer' = FALSE /\ UNCHANGED <<lastDeclared, vote>>

(* Mutant of StatusWatch: a new connection keeps the old declaration.      *)
StatusWatchKeeps ==
  /\ IF status' # status /\ status' \in {"connecting", "reconnecting"}
     THEN GateConnecting ELSE UNCHANGED restoreVars
  /\ IF status' # status /\ status' = "connected"
     THEN ladder' = 1 ELSE UNCHANGED ladder
  /\ vote' = IF ws' = "open" THEN vote ELSE NoVote
  /\ UNCHANGED <<wasViewer, lastDeclared>>

(* The watch on wsStatus: a new attempt voids the restore, an established  *)
(* connection owes the declaration again and gets its fits.  The server    *)
(* forgets a connection's vote with the connection.                        *)
StatusWatch ==
  /\ IF status' # status /\ status' \in {"connecting", "reconnecting"}
     THEN GateConnecting ELSE UNCHANGED restoreVars
  /\ IF status' # status /\ status' = "connected"
     THEN wasViewer' = FALSE /\ lastDeclared' = NoVote /\ ladder' = 1
     ELSE UNCHANGED <<wasViewer, lastDeclared, ladder>>
  /\ vote' = IF ws' = "open" THEN vote ELSE NoVote

Settled == UNCHANGED <<tabVars, connectVars, size, resizing>>

(* terminalConnection.request / receiverAttached: connect() once both.     *)
FlushGate(req, rdy) ==
  IF req /\ rdy /\ ~disposed
  THEN requested' = FALSE /\ ready' = rdy /\ Connect
  ELSE requested' = req /\ ready' = rdy /\ UNCHANGED socketVars

(* onTerminalReady: the frame handlers are in place, then the gate opens.  *)
ReceiverAttached ==
  /\ ~ready /\ ~disposed /\ active
  /\ FlushGate(requested, TRUE) /\ StatusWatch
  /\ UNCHANGED <<tabVars, size, resizing>>

(* The watch on props.active, shown: connect if there is no socket, then   *)
(* fit and declare on the next tick, in which nothing else happens.        *)
Activate ==
  /\ ~active /\ ~disposed
  /\ active' = TRUE /\ UNCHANGED <<pageVisible, disposed>>
  /\ FlushGate(TRUE, ready)
  /\ IF socketVars' = socketVars
     THEN /\ DeclareViewport(TRUE, pageVisible, TRUE, size)
          /\ UNCHANGED <<restoreVars, ladder>>
     ELSE StatusWatch
  /\ UNCHANGED <<size, resizing>>

Deactivate ==
  /\ active /\ ~disposed
  /\ active' = FALSE /\ UNCHANGED <<pageVisible, disposed>>
  /\ DeclareViewport(FALSE, pageVisible, FALSE, size)
  /\ UNCHANGED <<socketVars, restoreVars, connectVars, sizeVars>>

PageHides ==
  /\ pageVisible /\ ~disposed
  /\ pageVisible' = FALSE /\ UNCHANGED <<active, disposed>>
  /\ DeclareViewport(active, FALSE, FALSE, size)
  /\ UNCHANGED <<socketVars, restoreVars, connectVars, sizeVars>>

(* Both listeners of visibilitychange: the socket's first.                 *)
PageShows ==
  /\ ~pageVisible /\ ~disposed
  /\ pageVisible' = TRUE /\ UNCHANGED <<active, disposed>>
  /\ PageBack
  /\ IF socketVars' = socketVars
     THEN /\ DeclareViewport(active, TRUE, FALSE, size)
          /\ UNCHANGED <<restoreVars, ladder>>
     ELSE StatusWatch
  /\ UNCHANGED <<connectVars, size, resizing>>

(* The window loses and regains focus without being covered.               *)
WindowBlur ==
  /\ wasViewer /\ ~disposed
  /\ wasViewer' = FALSE
  /\ UNCHANGED <<socketVars, restoreVars, tabVars, connectVars, sizeVars,
               lastDeclared, vote>>

WindowFocus ==
  /\ ~disposed
  /\ DeclareViewport(active, pageVisible, FALSE, size)
  /\ UNCHANGED <<socketVars, restoreVars, tabVars, connectVars, sizeVars>>

(* The container changes size; a hidden one cannot be measured.            *)
ContainerResizes ==
  /\ active /\ ~disposed
  /\ size' \in Sizes \ {size} /\ resizing' = TRUE
  /\ UNCHANGED <<socketVars, restoreVars, tabVars, connectVars, voteVars, ladder>>

(* The ResizeObserver's debounce ends: the measured grid is declared.      *)
ReportResize ==
  /\ resizing /\ ~disposed /\ resizing' = FALSE
  /\ IF active THEN DeclareViewport(active, pageVisible, TRUE, size)
     ELSE UNCHANGED voteVars
  /\ UNCHANGED <<socketVars, restoreVars, tabVars, connectVars, ladder, size>>

(* One of the fits after a connection (robustFitAndResize).                *)
LadderFit ==
  /\ ladder > 0 /\ ~disposed /\ ladder' = 0
  /\ DeclareViewport(active, pageVisible, TRUE, size)
  /\ UNCHANGED <<socketVars, restoreVars, tabVars, connectVars, size, resizing>>

(* The watch on activeMode, on the next tick: a panel or the soft keyboard  *)
(* came or went, in a tab shown or hidden.  xterm's grid (the server's      *)
(* last: fit leaves a server-sized terminal alone) is sent past             *)
(* declareViewport, which remembers nothing of it.                          *)
PanelChanges ==
  /\ ready /\ ~disposed /\ CanSend
  /\ vote' = XtermGrid
  /\ UNCHANGED <<socketVars, restoreVars, tabVars, connectVars, sizeVars,
                 wasViewer, lastDeclared>>

-----------------------------------------------------------------------------
(* Frames of the server on the current socket.                             *)
Frame ==
  /\ \/ SocketMessage(FALSE) /\ (OutputFrame \/ ControlFrame)
     \/ SocketMessage(TRUE) /\ TerminalFrame
  /\ UNCHANGED <<tabVars, connectVars, voteVars, sizeVars>>

SocketEvent ==
  /\ \/ SocketOpens \/ TenSeconds \/ SocketDrops \/ RetryTimer \/ RetryThrows
     \/ \E reason \in BOOLEAN : SocketClosed(reason)
  /\ StatusWatch /\ Settled

(* The reconnect button and the status chip; both are drawn with xterm.    *)
UserReconnects ==
  /\ ready /\ ~disposed /\ active
  /\ Reconnect /\ StatusWatch /\ Settled

Typing ==
  /\ ready /\ active /\ ~disposed /\ ws = "connecting" /\ SendBinary
  /\ UNCHANGED <<restoreVars, tabVars, connectVars, voteVars, sizeVars>>

ScreenParses ==
  Parse /\ UNCHANGED <<socketVars, tabVars, connectVars, voteVars, sizeVars>>

ScreenPaints(e) ==
  Painted(e) /\ UNCHANGED <<socketVars, tabVars, connectVars, voteVars, sizeVars>>

(* onUnmounted, and the scope's own disconnect.                            *)
Unmount ==
  /\ ~disposed /\ disposed' = TRUE
  /\ Disconnect
  /\ requested' = FALSE /\ vote' = NoVote /\ ladder' = 0 /\ resizing' = FALSE
  /\ UNCHANGED <<ready, active, pageVisible, wasViewer, lastDeclared, restoreVars, size>>

SurfaceNext ==
  \/ ReceiverAttached \/ Activate \/ Deactivate \/ PageHides \/ PageShows
  \/ WindowBlur \/ WindowFocus \/ ContainerResizes \/ ReportResize \/ LadderFit
  \/ PanelChanges \/ Frame \/ SocketEvent
  \/ UserReconnects \/ Typing \/ ScreenParses
  \/ (\E e \in 0..MaxEpoch : ScreenPaints(e)) \/ Unmount

(* The parser and the frame callbacks (with their fallback timer) always   *)
(* get their turn.                                                         *)
SurfaceSpec == /\ SurfaceInit /\ [][SurfaceNext]_surfaceVars
               /\ WF_surfaceVars(ScreenParses)
               /\ \A e \in 0..MaxEpoch : WF_surfaceVars(ScreenPaints(e))

-----------------------------------------------------------------------------
(* No socket before its receiver: the initial replay of a terminal that    *)
(* became active before xterm was built is never lost                      *)
(* (terminalConnectionGate.ts, and the paths around it: retry timer, page  *)
(* coming back, reconnect button).                                         *)
ReceiverFirst == ws # "none" => ready

(* A terminal is never left without a socket and without anyone to open    *)
(* one, except when it was closed, taken over, or has used up its budget   *)
(* (scheduleReconnect and every way round it).                             *)
RetriesOrGivesUp ==
  (conn > 0 /\ ~stopped /\ ws = "none") =>
    timer \/ status = "preempted" \/ attempts = MaxAttempts

(* A terminal's socket is opened only to a receiver, and one is always to  *)
(* come or given up on: the two together.                                  *)
SocketIsKept == ReceiverFirst /\ RetriesOrGivesUp

(* A page that takes itself for a viewer has a size at the server, and it  *)
(* is the one it remembers having declared, unless a panel has spoken      *)
(* since: a declaration that did not go out is never remembered as made    *)
(* (declareViewport, sendResize's result; the socket may have died, been   *)
(* replaced, or lost its record with the connection).                      *)
BelievedVoteHeld ==
  wasViewer /\ ws = "open" => vote = XtermGrid \/ (vote = lastDeclared /\ vote \in Sizes)

(* A restore handed to the terminal is settled, or made void.              *)
RestoreSettles == restoreInFlight ~> ~restoreInFlight
=============================================================================
