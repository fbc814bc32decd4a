---------------------------- MODULE XtermScreen ----------------------------
(***************************************************************************)
(* A terminal's screen while its tab is shown and hidden (XtermTerminal.vue*)
(* with terminalRenderer.ts): which renderer it takes and why, the GPU     *)
(* context that it gives back when it is hidden and takes again when it is *)
(* shown, the repaint that waits for all that was written before, and the  *)
(* redraw asked of tmux, owed until a viewer is there (CliTerminalSurface).*)
(*                                                                         *)
(* xterm parses what is written in order and calls back; while the screen  *)
(* has no layout what it parses is not painted.  A timer of a revision     *)
(* that is over is "old".                                                  *)
(***************************************************************************)
EXTENDS Naturals, Sequences

CONSTANTS MaxQueue   \* bound: writes not parsed yet

VARIABLES
  stored,    \* the page's ?renderer, the tab's pin, the browser's preference
  wish,      \* what was asked for last, by a link or by the switch
  active, pageVisible, laidOut,
  term,      \* "none", "made", "gone"
  rendererInUse, gpu,       \* gpu: webglAddon is there
  denied,    \* the last context was refused or lost
  release,   \* hiddenWebglReleaseTimer
  tick,      \* the watcher's nextTick
  reveal,    \* revealTimer
  queue,     \* writes; a repaint carries whether its revision still holds
  stale,     \* parsed and not painted
  attached,  \* to tmux, over a connection
  ghost      \* ghostRefreshOwed, Timer, InFlight

screenVars == <<stored, wish, active, pageVisible, laidOut, term, rendererInUse, gpu, denied, release,
                tick, reveal, queue, stale, attached, ghost>>

Kinds == {"webgl", "dom"}
Default == "webgl"
Quiet == [owed |-> FALSE, timer |-> FALSE, flying |-> FALSE]

ScreenInit ==
  /\ stored = [query |-> "none", pin |-> "none", pref |-> "none"] /\ wish = "none"
  /\ active \in BOOLEAN /\ pageVisible = TRUE /\ laidOut = active
  /\ term = "none" /\ rendererInUse = "dom" /\ gpu = FALSE /\ denied = FALSE /\ release = FALSE
  /\ tick = IF active THEN "mount" ELSE "none"
  /\ reveal = "none" /\ queue = <<>> /\ stale = FALSE
  /\ attached = FALSE /\ ghost = Quiet

-----------------------------------------------------------------------------
(* rendererPin: a link's wish is remembered in the tab when it is read     *)
PinRead == IF stored.query # "none" THEN [stored EXCEPT !.pin = stored.query] ELSE stored
(* resolveRenderer                                                         *)
Resolved(st) == IF st.pin # "none" THEN st.pin ELSE IF st.pref # "none" THEN st.pref ELSE Default

(* mutant: the link stays in the address                                   *)
ForgetLinkKeeps(st) == st
ForgetLink(st) == [st EXCEPT !.query = "none"]
(* setRendererPreference                                                   *)
Choose(k) ==
  /\ stored' = ForgetLink([stored EXCEPT !.pref = k, !.pin = "none"]) /\ wish' = k
  /\ UNCHANGED <<active, pageVisible, laidOut, term, rendererInUse, gpu, denied, release, tick, reveal,
                 queue, stale, attached, ghost>>

(* attachWebglAddon, or the error of a machine that has none               *)
Attach(ok) == gpu' = ok /\ denied' = ~ok
(* chooseRenderer, at the end of which the terminal is there               *)
Make ==
  /\ term' = "made" /\ stored' = PinRead
  /\ IF Resolved(PinRead) = "dom"
     THEN rendererInUse' = "dom" /\ gpu' = FALSE /\ UNCHANGED denied
     ELSE \E ok \in BOOLEAN : Attach(ok) /\ rendererInUse' = IF ok THEN "webgl" ELSE "dom"
(* reacquireWebglRenderer                                                  *)
Reacquire ==
  IF rendererInUse = "webgl" /\ ~gpu THEN \E ok \in BOOLEAN : Attach(ok) ELSE UNCHANGED <<gpu, denied>>

(* The page is loaded again, with a link's wish or none.                   *)
LoadPage(q) ==
  /\ stored' = [stored EXCEPT !.query = IF q = "none" THEN @ ELSE q]
  /\ wish' = IF q = "none" THEN wish ELSE q
  /\ term' = "none" /\ rendererInUse' = "dom" /\ gpu' = FALSE /\ denied' = FALSE /\ release' = FALSE
  /\ tick' = IF active THEN "mount" ELSE "none"
  /\ reveal' = "none" /\ queue' = <<>> /\ stale' = FALSE /\ attached' = FALSE /\ ghost' = Quiet
  /\ UNCHANGED <<active, pageVisible, laidOut>>
(* The router goes on to a path without the query.                         *)
Navigate ==
  /\ stored.query # "none" /\ term = "made" /\ stored' = [stored EXCEPT !.query = "none"]
  /\ UNCHANGED <<wish, active, pageVisible, laidOut, term, rendererInUse, gpu, denied, release, tick,
                 reveal, queue, stale, attached, ghost>>

-----------------------------------------------------------------------------
Viewer == active /\ pageVisible
(* scheduleGhostRefresh                                                    *)
Owing == [ghost EXCEPT !.owed = TRUE, !.timer = TRUE]
IfOwed == IF ghost.owed THEN Owing ELSE ghost

(* watch(active): what an older revision has under way is old              *)
Aged(q) == [i \in DOMAIN q |-> IF q[i] = "repaint" THEN "late repaint" ELSE q[i]]
Shown ==
  /\ term # "gone" /\ ~active /\ tick = "none" /\ active' = TRUE
  /\ reveal' = "none" /\ release' = FALSE /\ tick' = "own" /\ queue' = Aged(queue)
  /\ UNCHANGED <<stored, wish, pageVisible, laidOut, term, rendererInUse, gpu, denied, stale, attached, ghost>>
Hidden ==
  /\ term # "gone" /\ active /\ tick = "none" /\ active' = FALSE /\ laidOut' = FALSE
  /\ reveal' = "none" /\ release' = TRUE /\ queue' = Aged(queue)
  /\ UNCHANGED <<stored, wish, pageVisible, term, rendererInUse, gpu, denied, tick, stale, attached, ghost>>
(* nextTick, of the mount, and of the watchers: v-show has given the       *)
(* container its size by then                                              *)
NextTick ==
  /\ tick # "none" /\ tick' = "none" /\ laidOut' = active
  /\ IF tick = "mount" THEN Make /\ UNCHANGED reveal
     ELSE reveal' = tick /\ UNCHANGED <<term, stored, rendererInUse, gpu, denied>>
  /\ ghost' = IfOwed
  /\ UNCHANGED <<wish, active, pageVisible, release, queue, stale, attached>>

(* the reveal timer: fit, the renderer, then a repaint behind the writes   *)
RevealTimer ==
  /\ reveal # "none" /\ reveal' = "none" /\ Len(queue) <= MaxQueue
  /\ IF reveal = "old" \/ ~active THEN UNCHANGED <<term, stored, rendererInUse, gpu, denied, queue>>
     ELSE /\ IF term = "none" THEN Make ELSE Reacquire /\ UNCHANGED <<term, stored, rendererInUse>>
          /\ queue' = IF laidOut THEN Append(queue, "repaint") ELSE queue
  /\ UNCHANGED <<wish, active, pageVisible, laidOut, release, tick, stale, attached, ghost>>
ReleaseTimer ==
  /\ release /\ release' = FALSE /\ gpu' = (gpu /\ active)
  /\ UNCHANGED <<stored, wish, active, pageVisible, laidOut, term, rendererInUse, denied, tick, reveal,
                 queue, stale, attached, ghost>>
(* onContextLoss                                                           *)
ContextLost ==
  /\ gpu /\ gpu' = FALSE /\ denied' = TRUE
  /\ UNCHANGED <<stored, wish, active, pageVisible, laidOut, term, rendererInUse, release, tick, reveal,
                 queue, stale, attached, ghost>>

Write ==
  /\ term = "made" /\ Len(queue) < MaxQueue /\ queue' = Append(queue, "data")
  /\ UNCHANGED <<stored, wish, active, pageVisible, laidOut, term, rendererInUse, gpu, denied, release,
                 tick, reveal, stale, attached, ghost>>
(* xterm parses: data is painted where there is a screen, the callback of  *)
(* the reveal paints all                                                   *)
Parse ==
  /\ term = "made" /\ queue # <<>> /\ queue' = Tail(queue)
  /\ stale' = CASE Head(queue) = "data" -> stale \/ ~laidOut
                [] Head(queue) = "repaint" /\ active -> FALSE
                [] OTHER -> stale
  /\ UNCHANGED <<stored, wish, active, pageVisible, laidOut, term, rendererInUse, gpu, denied, release,
                 tick, reveal, attached, ghost>>
Unmount ==
  /\ term # "gone" /\ term' = "gone" /\ gpu' = FALSE /\ release' = FALSE /\ reveal' = "none"
  /\ tick' = IF tick = "none" THEN "none" ELSE "old"
  /\ queue' = <<>> /\ ghost' = [ghost EXCEPT !.timer = FALSE] /\ attached' = FALSE
  /\ UNCHANGED <<stored, wish, active, pageVisible, laidOut, rendererInUse, denied, stale>>

-----------------------------------------------------------------------------
(* onVisibilityChange                                                      *)
PageVisibility ==
  /\ term # "gone" /\ pageVisible' = ~pageVisible
  /\ ghost' = IF pageVisible THEN ghost ELSE IfOwed
  /\ stale' = (stale /\ ~(~pageVisible /\ term = "made" /\ laidOut))
  /\ UNCHANGED <<stored, wish, active, laidOut, term, rendererInUse, gpu, denied, release, tick, reveal,
                 queue, attached>>
(* the watcher of the connection and of tmux; a drawer that settles        *)
AttachTmux ==
  /\ term = "made" /\ attached' = ~attached /\ ghost' = IF attached THEN ghost ELSE Owing
  /\ UNCHANGED <<stored, wish, active, pageVisible, laidOut, term, rendererInUse, gpu, denied, release,
                 tick, reveal, queue, stale>>
DrawerSettles ==
  /\ term = "made" /\ ghost' = Owing
  /\ UNCHANGED <<stored, wish, active, pageVisible, laidOut, term, rendererInUse, gpu, denied, release,
                 tick, reveal, queue, stale, attached>>
GhostTimer ==
  /\ ghost.timer
  /\ ghost' = IF term = "gone" \/ ~Viewer \/ ~attached \/ ghost.flying THEN [ghost EXCEPT !.timer = FALSE]
              ELSE [owed |-> FALSE, timer |-> FALSE, flying |-> TRUE]
  /\ UNCHANGED <<stored, wish, active, pageVisible, laidOut, term, rendererInUse, gpu, denied, release,
                 tick, reveal, queue, stale, attached>>
GhostDone ==
  /\ ghost.flying
  /\ ghost' = [ghost EXCEPT !.flying = FALSE, !.timer = @ \/ (ghost.owed /\ Viewer /\ term # "gone")]
  /\ UNCHANGED <<stored, wish, active, pageVisible, laidOut, term, rendererInUse, gpu, denied, release,
                 tick, reveal, queue, stale, attached>>

ScreenNext ==
  \/ Shown \/ Hidden \/ NextTick \/ RevealTimer \/ ReleaseTimer \/ ContextLost \/ Write \/ Parse
  \/ Unmount \/ PageVisibility \/ AttachTmux \/ DrawerSettles \/ GhostTimer \/ GhostDone \/ Navigate
  \/ LoadPage("none") \/ \E k \in Kinds : Choose(k) \/ LoadPage(k)

-----------------------------------------------------------------------------
(* However a tab is shown, hidden, closed and shown again while timers run *)
(* and output is parsed: once it is hidden and nothing is under way it     *)
(* holds no GPU context, once it is shown it has one where it may and shows*)
(* all that was parsed; a terminal made now takes the renderer asked for   *)
(* last, by a link or by the switch; a redraw owed by tmux is on its way   *)
(* while somebody looks; and a terminal that is gone leaves no timer that  *)
(* acts.                                                                   *)
ScreenIsCurrent ==
  /\ ~active /\ ~release => ~gpu
  /\ term = "made" /\ active /\ laidOut /\ tick = "none" /\ reveal = "none"
       => (rendererInUse = "webgl" => gpu \/ denied) /\ (queue = <<>> => ~stale)
  /\ wish # "none" => Resolved(PinRead) = wish
  /\ ghost.owed /\ Viewer /\ attached => ghost.timer \/ ghost.flying \/ tick # "none"
  /\ term = "gone" => ~gpu /\ ~release /\ reveal # "own"
=============================================================================
