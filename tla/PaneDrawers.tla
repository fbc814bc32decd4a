---------------------------- MODULE PaneDrawers ----------------------------
(***************************************************************************)
(* The drawers beside a terminal (CliTerminalSurface.vue): one for every   *)
(* tmux pane that has been the current one, or one for a session outside   *)
(* tmux, mounted as long as its pane is listed (useTmuxState.ts).  The     *)
(* drawer of the current pane may squeeze the terminal, which is fitted    *)
(* 180 ms later, and its width is published for the page in one CSS        *)
(* variable that all surfaces share.                                       *)
(*                                                                         *)
(* What tmux reports comes from the server as it likes.  Widths are one    *)
(* per surface; working directories, saved text selections, the floating   *)
(* layout (to the width it is the overlay) and phones are left out.        *)
(***************************************************************************)
EXTENDS Naturals, FiniteSets, SequencesExt

CONSTANTS
  Surfaces,
  InTmux,        \* the surface whose session may be in tmux
  Panes,         \* the panes it may report
  Together       \* two surfaces may be shown at once: the halves of a split

VARIABLES
  tmux,          \* useTmuxState by surface: attached, panes listed, the active one
  known,         \* paneKnown: the drawers mounted
  open,          \* paneOpenMap: those open
  mode,          \* drawerLayoutMode
  wide,          \* the window has room for a split
  active,        \* the surfaces shown
  mounted,
  reflow,        \* drawerReflowTimer
  fitted,        \* the squeeze the terminal was last fitted to
  cssWidth,      \* --dw-drawer-width
  owner          \* drawerWidthCssVarOwner

drawerVars == <<tmux, known, open, mode, wide, active, mounted, reflow, fitted, cssWidth, owner>>

NoTmux == "session"
Nobody == "nobody"
PanesOf(s) == IF s = InTmux THEN Panes ELSE {}
Width(s) == IF s = InTmux THEN 1 ELSE 2
Detached == [attached |-> FALSE, panes |-> {}, current |-> NoTmux]
(* windows, currentPaneKey: the active pane, or the first, or none         *)
TmuxStates(s) ==
  {Detached, [Detached EXCEPT !.attached = TRUE]}
    \cup UNION {{[attached |-> TRUE, panes |-> P, current |-> p] : p \in P} : P \in SUBSET PanesOf(s)}

DrawersInit ==
  /\ tmux = [s \in Surfaces |-> Detached]
  /\ known = [s \in Surfaces |-> {NoTmux}] /\ open = [s \in Surfaces |-> {}]
  /\ mode = [s \in Surfaces |-> "overlay"] /\ wide = TRUE
  /\ active = {} /\ mounted = Surfaces
  /\ reflow = [s \in Surfaces |-> FALSE] /\ fitted = [s \in Surfaces |-> 0]
  /\ cssWidth = 0 /\ owner = Nobody

----------------------------------------------------------------------------
(* drawerLayout, drawerSqueezePx, myDrawerWidthPx, of given drawers        *)

Shows(s, t, o) == t[s].current \in o[s]
Squeeze(s, t, o, m, w) == IF Shows(s, t, o) /\ m[s] = "split" /\ w THEN Width(s) ELSE 0
Docked(s, t, o, a) == IF s \in a /\ Shows(s, t, o) THEN Width(s) ELSE 0

Valid(t, o) ==
  t.panes \cup (IF t.attached THEN {} ELSE {NoTmux}) \cup {t.current} \cup ({NoTmux} \cap o)

(* The watches of currentPaneKey and validPaneKeys: the current pane has a *)
(* drawer, those whose pane went lose theirs.                              *)
Prune(s) ==
  LET valid == Valid(tmux'[s], open[s])
  IN /\ known' = [known EXCEPT ![s] = (@ \cup {tmux'[s].current}) \cap valid]
     /\ open' = [open EXCEPT ![s] = @ \cap valid]

(* The watch of drawerSqueezePx                                            *)
Reflow ==
  reflow' = [s \in Surfaces |-> s \in mounted' /\
               (reflow[s] \/ Squeeze(s, tmux', open', mode', wide') # Squeeze(s, tmux, open, mode, wide))]

(* The watch of myDrawerWidthPx, by one surface                            *)
(* mutant: whoever closes clears the width                                 *)
PublishedAny(css, s, px) ==
  IF px > 0 THEN [width |-> px, owner |-> s] ELSE [width |-> 0, owner |-> Nobody]
Published(css, s, px) ==
  IF px > 0 THEN [width |-> px, owner |-> s]
  ELSE IF css.owner = s THEN [width |-> 0, owner |-> Nobody] ELSE css
(* The surfaces whose width changed publish it, in the order of the page.  *)
Publish ==
  LET px(s) == Docked(s, tmux', open', active')
      changed == {s \in mounted : px(s) # Docked(s, tmux, open, active)}
  IN \E order \in SetToSeqs(changed) :
       LET css[n \in 0 .. Len(order)] ==
             IF n = 0 THEN [width |-> cssWidth, owner |-> owner]
             ELSE Published(css[n - 1], order[n], px(order[n]))
       IN cssWidth' = css[Len(order)].width /\ owner' = css[Len(order)].owner

Watches == Reflow /\ Publish

----------------------------------------------------------------------------
(* handleWSMessage, fetchSnapshot: the topology is replaced                *)
TmuxReported(s) ==
  /\ s \in mounted
  /\ \E t \in TmuxStates(s) : t # tmux[s] /\ tmux' = [tmux EXCEPT ![s] = t]
  /\ Prune(s) /\ UNCHANGED <<mode, wide, active, mounted, fitted>> /\ Watches
(* The handle, the drawer's own button, or the shortcut                    *)
Toggle(s) ==
  /\ s \in active
  /\ LET k == tmux[s].current
         o == IF k \in open[s] THEN open[s] \ {k} ELSE open[s] \cup {k}
         valid == Valid(tmux[s], o)
     IN open' = [open EXCEPT ![s] = o \cap valid] /\ known' = [known EXCEPT ![s] = @ \cap valid]
  /\ UNCHANGED <<tmux, mode, wide, active, mounted, fitted>> /\ Watches
SetMode(s) ==
  /\ s \in active /\ tmux[s].current \in open[s]
  /\ mode' = [mode EXCEPT ![s] = IF @ = "split" THEN "overlay" ELSE "split"]
  /\ UNCHANGED <<tmux, known, open, wide, active, mounted, fitted>> /\ Watches
WindowResized ==
  /\ wide' = ~wide
  /\ UNCHANGED <<tmux, known, open, mode, active, mounted, fitted>> /\ Watches
(* Another tab is chosen, or a half of a split hidden.  What becomes shown *)
(* is fitted (declareViewport).                                            *)
Activate(a) ==
  /\ a \subseteq mounted /\ a # active /\ (Together \/ Cardinality(a) <= 1)
  /\ active' = a
  /\ fitted' = [s \in Surfaces |-> IF s \in a \ active THEN Squeeze(s, tmux, open, mode, wide) ELSE fitted[s]]
  /\ UNCHANGED <<tmux, known, open, mode, wide, mounted>> /\ Watches
(* drawerReflowTimer: a surface that is hidden cannot be measured.         *)
ReflowTimer(s) ==
  /\ reflow[s] /\ reflow' = [reflow EXCEPT ![s] = FALSE]
  /\ fitted' = IF s \in active THEN [fitted EXCEPT ![s] = Squeeze(s, tmux, open, mode, wide)] ELSE fitted
  /\ UNCHANGED <<tmux, known, open, mode, wide, active, mounted, cssWidth, owner>>
Released(s) ==
  IF owner = s THEN cssWidth' = 0 /\ owner' = Nobody ELSE UNCHANGED <<cssWidth, owner>>
Closes(s) ==
  /\ s \in mounted /\ mounted' = mounted \ {s} /\ active' = active \ {s}
  /\ reflow' = [reflow EXCEPT ![s] = FALSE] /\ Released(s)
  /\ UNCHANGED <<tmux, known, open, mode, wide, fitted>>

DrawersNext ==
  \/ \E s \in Surfaces : TmuxReported(s) \/ Toggle(s) \/ SetMode(s) \/ ReflowTimer(s) \/ Closes(s)
  \/ WindowResized \/ \E a \in SUBSET Surfaces : Activate(a)
DrawersSpec == DrawersInit /\ [][DrawersNext]_drawerVars

----------------------------------------------------------------------------
(* The page is told the width of the drawer that is docked on show, and 0  *)
(* without one, in whatever order the surfaces' watches ran                *)
(* (CliTerminalSurface.vue, "correct regardless of which surface's watcher *)
(* fires first").                                                          *)
WidthIsTheActives ==
  cssWidth = (IF \E s \in active : Docked(s, tmux, open, active) > 0
              THEN Width(CHOOSE s \in active : Docked(s, tmux, open, active) > 0) ELSE 0)

(* A terminal on show is fitted to what its drawer leaves it, or about to  *)
(* be (drawerReflowTimer).                                                 *)
FittedBesideDrawer ==
  \A s \in active : ~reflow[s] => fitted[s] = Squeeze(s, tmux, open, mode, wide)

(* The current pane has its drawer mounted, and nothing open is unmounted  *)
(* (paneKnown, paneOpenMap).                                               *)
CurrentHasItsDrawer ==
  \A s \in mounted : tmux[s].current \in known[s] /\ open[s] \subseteq known[s]

DrawersRight == WidthIsTheActives /\ FittedBesideDrawer /\ CurrentHasItsDrawer
=============================================================================
