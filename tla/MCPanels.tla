------------------------------ MODULE MCPanels ------------------------------
(***************************************************************************)
(* One run over the parts of a terminal tab's panels that share no state:  *)
(* a behaviour is one of the part that `focus` names, the others stay as   *)
(* they began.                                                             *)
(***************************************************************************)
EXTENDS TLC, Integers, Sequences, FiniteSets

CONSTANTS
  Rows, Cols, MaxLines, MaxTrimmed, NoAnchor, Surfaces, InTmux, Panes,
  Together, Lists, Units, MaxTurns, Sessions, Places, NoData, MaxAsks,
  MaxMoves, Boxes, Entries, Peers, Registered, Texts, Empty, Absent, MaxArrays,
  MaxSaves, MaxFailures, Lines, Diagrams, Pages, MaxReads, MaxThemes

ASSUME PanelsAssumption ==
  /\ Lines \in Nat /\ Diagrams \in Nat /\ Pages \in Nat
  /\ Rows \in Nat /\ Cols \in Nat /\ NoAnchor \notin [row : Int, col : Int]
  /\ IsFiniteSet(Surfaces) /\ "nobody" \notin Surfaces
  /\ IsFiniteSet(Boxes) /\ Registered \subseteq Peers
  /\ \A s \in SUBSET Peers : s # Absent

VARIABLES
  focus,
  buffer, believedY, state, anchors, lastPlaced, placed, selected, gesture,
  overlayMounted, copying, tmux, known, drawersOpen, drawerMode, wide,
  surfacesShown, surfacesMounted, reflow, fitted, cssWidth, owner, cards,
  turn, seen, undatedSeen, received, storedSeen, acked, tab, accounts, here,
  shown, loaded, quota, asks, asksLeft, movesLeft, report, coming, segment,
  server, data, arrays, hydrated, loading, saveTimer, saves, box, peers,
  peersRead, deleted, trouble, draft, reader, find, frame, drawn, passes,
  theme, themes, pdf, slots, loads, renders

tsVars == <<buffer, believedY, state, anchors, lastPlaced, placed, selected,
             gesture, overlayMounted, copying>>
pdVars == <<tmux, known, drawersOpen, drawerMode, wide, surfacesShown,
             surfacesMounted, reflow, fitted, cssWidth, owner>>
ovVars == <<cards, turn, seen, undatedSeen, received, storedSeen, acked, tab>>
ubVars == <<accounts, here, shown, loaded, quota, asks, asksLeft, movesLeft,
             report, coming, segment>>
stVars == <<server, data, arrays, hydrated, loading, saveTimer, saves, box,
             peers, peersRead, deleted, trouble, draft>>
rdVars == <<reader, find, frame, drawn, passes, theme, themes, pdf, slots,
             loads, renders>>

TS == INSTANCE TouchSelection WITH mounted <- overlayMounted
PD == INSTANCE PaneDrawers WITH open <- drawersOpen, mode <- drawerMode,
       active <- surfacesShown, mounted <- surfacesMounted
OV == INSTANCE Overview WITH stored <- storedSeen
UB == INSTANCE UsageBill
ST == INSTANCE ServerStore
RD == INSTANCE Reader

\* What a part out of focus begins with says nothing.
PanelsInit ==
  /\ focus \in {
       "touch", "drawers", "cards", "figures", "bill", "store",
       "machines", "draft", "place", "diagrams", "pdf"}
  /\ TS!TouchInit /\ PD!DrawersInit /\ OV!OverviewInit /\ UB!BillInit /\ ST!StoreInit
  /\ RD!ReaderInit
  /\ focus # "bill" => movesLeft # 0 /\ coming = {}
  /\ focus # "store" => server.list = {}
  /\ focus # "place" => reader.line = 0 /\ reader.stored = RD!Nowhere

PanelsNext ==
  /\ UNCHANGED focus
  /\ \/ /\ focus = "touch" /\ TS!TouchNext
        /\ UNCHANGED <<pdVars, ovVars, ubVars, stVars, rdVars>>
     \/ /\ focus = "drawers" /\ PD!DrawersNext
        /\ UNCHANGED <<tsVars, ovVars, ubVars, stVars, rdVars>>
     \/ /\ focus = "cards" /\ OV!SeenNext
        /\ UNCHANGED <<tsVars, pdVars, ubVars, stVars, rdVars>>
     \/ /\ focus = "figures" /\ OV!FiguresNext
        /\ UNCHANGED <<tsVars, pdVars, ubVars, stVars, rdVars>>
     \/ /\ focus = "bill" /\ UB!BillNext
        /\ UNCHANGED <<tsVars, pdVars, ovVars, stVars, rdVars>>
     \/ /\ focus = "store" /\ ST!ListsNext
        /\ UNCHANGED <<tsVars, pdVars, ovVars, ubVars, rdVars>>
     \/ /\ focus = "machines" /\ ST!MachinesNext
        /\ UNCHANGED <<tsVars, pdVars, ovVars, ubVars, rdVars>>
     \/ /\ focus = "draft" /\ ST!DraftNext
        /\ UNCHANGED <<tsVars, pdVars, ovVars, ubVars, rdVars>>
     \/ /\ focus = "place" /\ RD!PlaceNext
        /\ UNCHANGED <<tsVars, pdVars, ovVars, ubVars, stVars>>
     \/ /\ focus = "diagrams" /\ RD!DrawNext
        /\ UNCHANGED <<tsVars, pdVars, ovVars, ubVars, stVars>>
     \/ /\ focus = "pdf" /\ RD!PdfNext
        /\ UNCHANGED <<tsVars, pdVars, ovVars, ubVars, stVars>>

PanelsSpec == PanelsInit /\ [][PanelsNext]_<<
  focus, tsVars, pdVars, ovVars, ubVars, stVars, rdVars>>
-----------------------------------------------------------------------------

\* A copy takes what the fingers marked, and no gesture outlives the overlay
\* it began on (useAnchorStateMachine.ts, VirtualTouchball.vue).
TouchesHold == TS!CopyTakesWhatWasPlaced /\ TS!GesturesEndWithOverlay

\* The page knows the width of the drawer on show, and the terminal is fitted
\* beside it (CliTerminalSurface.vue).
DrawersRight == PD!DrawersRight

\* An acknowledged turn asks no more, a new one does, figures are of the
\* session on show, and those of money are accounted for and said of whom
\* they are (useAgentOverview.ts, SessionOverviewTab.vue, UsageChip.vue).
OverviewHolds == OV!OverviewHolds /\ (focus = "bill" => UB!BillIsHonest)

\* What the page keeps for the server is stored in the end, and what was
\* deleted stays so (useServerStore.ts, useComposeBox.ts, useRemotePeers.ts).
StoreHolds == ST!StoreHolds

\* A reader keeps its place, its marks, its diagrams and its pages those of
\* the document on show (FilePreview.vue, markdownEnhance.ts,
\* PdfPreview.vue).
ReaderHolds == RD!ReaderHolds
=============================================================================
