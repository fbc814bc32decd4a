------------------------------ MODULE TabStrip ------------------------------
(***************************************************************************)
(* The strip of tabs, in two parts that share no state.                    *)
(*                                                                         *)
(* Putting the tabs of one group in order (useTabReorder.ts): by dragging  *)
(* one with the mouse at any time, or in a sorting mode in which drags and *)
(* arrow keys collect moves over a preview until they are finished or      *)
(* cancelled.  Another browser, a shell that exits or the user may change  *)
(* the list at any moment.  Where a pointer is over the strip is any place *)
(* between two tabs, or none; scrolling and the times in which a click is  *)
(* swallowed are left out.                                                 *)
(*                                                                         *)
(* Going to another tab by keys (useTabShortcuts.ts, useTabQuickSwitch.ts, *)
(* TabQuickSwitcher.vue): a leader key and the key after it, the switcher  *)
(* with its search and filter, whose keys act when they are released, and  *)
(* the visits it remembers, which count once a tab has been read for two   *)
(* seconds.  In which order tabs are ranked is left out, and which of them *)
(* a query matches and a filter lets through: the results are any of the   *)
(* tabs, the first of them, or the next, is any of them.                   *)
(***************************************************************************)
EXTENDS Naturals, Sequences, FiniteSets, SequencesExt

CONSTANTS
  Strip,     \* tabs of the group that is put in order
  Tabs,      \* tabs that keys go to
  NoTab,
  MaxTurns   \* bound: moves made, and changes of the list by others

VARIABLES
  list,      \* the tabs as they are (options.groups)
  sorting, preview, moves,
  press,     \* the tab pressed, whether by touch, whether it is dragged
  drop,      \* where the dragged tab would go
  menuTimer, \* longPressTimer
  heard,     \* listeners of the window and the document
  renaming,  \* renamingTabId
  turns

VARIABLES
  live, loaded,     \* the tabs, once the list is there
  active,
  page,             \* the document is visible and has the focus
  reading,          \* the active tab's terminal is on show and connected
  switcher,         \* open, results, selected
  finishing,        \* the key held in the switcher, and what it will do
  typing,           \* an input method composes; a view is to be gone to after it
  visits,           \* history: the tabs entered
  pending, dwell,   \* pendingVisit, dwellTimer
  leader            \* pending (useTabShortcuts.ts): the tab it was pressed in

reorderVars == <<list, sorting, preview, moves, press, drop, menuTimer, heard, renaming, turns>>
switchVars  == <<live, loaded, active, page, reading, switcher, finishing,
                 typing, visits, pending, dwell, leader>>

-----------------------------------------------------------------------------
(***************************************************************************)
(* Putting tabs in order.                                                  *)
(***************************************************************************)
NoPress == [tab |-> NoTab, touch |-> FALSE, started |-> FALSE]
NoDrop  == [tab |-> NoTab, before |-> NoTab]
Lists   == UNION {{s \in [1..n -> Strip] : IsInjective(s)} : n \in 1..Cardinality(Strip)}

(* moveTabBefore: an anchor or a tab that is not there cancels the move    *)
MoveTabBefore(tabs, m) ==
  IF m.tab \notin ToSet(tabs) \/ m.before = m.tab \/ m.before \notin ToSet(tabs) \union {NoTab} THEN tabs
  ELSE LET rest == SelectSeq(tabs, LAMBDA t : t # m.tab)
           at == IF m.before = NoTab THEN Len(rest) + 1 ELSE CHOOSE i \in 1..Len(rest) : rest[i] = m.before
       IN InsertAt(rest, at, m.tab)
Replay(tabs, ms) == FoldLeft(MoveTabBefore, tabs, ms)

ReorderInit ==
  /\ list = SetToSeq(Strip) /\ sorting = FALSE /\ preview = <<>> /\ moves = <<>>
  /\ press = NoPress /\ drop = NoDrop /\ menuTimer = FALSE /\ heard = {} /\ renaming = FALSE /\ turns = 0

-----------------------------------------------------------------------------
(* stopDrag                                                                *)
StopDrag(sorts) ==
  /\ press' = NoPress /\ drop' = NoDrop /\ menuTimer' = FALSE
  /\ heard' = IF sorts THEN heard \ {"pointer"} ELSE {}
CancelledMoves == <<>>
(* cancelSorting                                                           *)
CancelSorting ==
  /\ sorting' = FALSE /\ preview' = <<>> /\ moves' = CancelledMoves
  /\ StopDrag(FALSE)

(* The menu asks for sorting; a name that is being edited forbids it.      *)
StartSorting ==
  IF renaming THEN CancelSorting /\ UNCHANGED <<list, renaming, turns>>
  ELSE /\ sorting' = TRUE /\ preview' = list /\ moves' = CancelledMoves
       /\ press' = NoPress /\ drop' = NoDrop /\ menuTimer' = FALSE /\ heard' = {"key"}
       /\ UNCHANGED <<list, renaming, turns>>
Commit(ms) == list' = Replay(list, ms)
FinishSorting ==
  /\ sorting /\ Commit(moves) /\ CancelSorting /\ UNCHANGED <<renaming, turns>>
CancelButton ==
  /\ sorting /\ CancelSorting /\ UNCHANGED <<list, renaming, turns>>

(* The list changes: whatever was under way is called off (watch, sync).   *)
ListChanges ==
  /\ turns < MaxTurns /\ turns' = turns + 1
  /\ list' \in Lists \ {list}
  /\ IF sorting \/ press # NoPress THEN CancelSorting
     ELSE UNCHANGED <<sorting, preview, moves, press, drop, menuTimer, heard>>
  /\ UNCHANGED renaming

-----------------------------------------------------------------------------
Shown == IF sorting THEN preview ELSE list
PointerDown(t, touch) ==
  /\ ~renaming /\ t \in ToSet(Shown)
  /\ press' = [tab |-> t, touch |-> touch, started |-> FALSE] /\ drop' = NoDrop
  /\ heard' = {"pointer", "key"} /\ menuTimer' = (touch /\ ~sorting)
  /\ UNCHANGED <<list, sorting, preview, moves, renaming, turns>>

(* updateDrop: anywhere between two of the others, or nowhere              *)
Drops(tab) ==
  {NoDrop} \union {[tab |-> tab, before |-> b] : b \in (ToSet(Shown) \ {tab}) \union {NoTab}}
Pressed == press # NoPress
PointerMoves ==
  /\ Pressed
  /\ IF press.touch /\ ~sorting /\ ~press.started
     THEN StopDrag(sorting)               \* a swipe scrolls the strip
     ELSE /\ press' = [press EXCEPT !.started = TRUE] /\ menuTimer' = FALSE
          /\ drop' \in Drops(press.tab) /\ UNCHANGED heard
  /\ UNCHANGED <<list, sorting, preview, moves, renaming, turns>>

(* applyPreview                                                            *)
ApplyPreview(m) ==
  LET next == MoveTabBefore(preview, m)
  IN IF next = preview THEN UNCHANGED <<preview, moves, turns>>
     ELSE /\ turns < MaxTurns /\ turns' = turns + 1
          /\ preview' = next /\ moves' = Append(moves, m)
PointerUp ==
  /\ Pressed
  /\ \E d \in (IF press.started THEN Drops(press.tab) ELSE {NoDrop}) :
       IF d = NoDrop THEN UNCHANGED <<list, preview, moves, turns>>
       ELSE IF sorting THEN ApplyPreview(d) /\ UNCHANGED list
       ELSE Commit(<<d>>) /\ UNCHANGED <<preview, moves, turns>>
  /\ StopDrag(sorting) /\ UNCHANGED <<sorting, renaming>>

(* pointercancel, blur of the window                                       *)
CancelDrag ==
  /\ Pressed /\ StopDrag(sorting) /\ UNCHANGED <<list, sorting, preview, moves, renaming, turns>>
(* Held for half a second, or the right button: the menu.                  *)
LongPress == menuTimer /\ CancelDrag
ContextMenu ==
  /\ IF sorting \/ press.started
     THEN menuTimer' = FALSE /\ UNCHANGED <<press, drop, heard>>
     ELSE StopDrag(sorting)
  /\ UNCHANGED <<list, sorting, preview, moves, renaming, turns>>

Escape ==
  /\ "key" \in heard
  /\ IF sorting THEN CancelSorting ELSE StopDrag(FALSE) /\ UNCHANGED <<sorting, preview, moves>>
  /\ UNCHANGED <<list, renaming, turns>>

ArrowKey(t, right) ==
  /\ sorting /\ t \in ToSet(preview)
  /\ LET i == CHOOSE k \in 1..Len(preview) : preview[k] = t
     IN \/ /\ ~right /\ i > 1 /\ ApplyPreview([tab |-> t, before |-> preview[i - 1]])
        \/ /\ right /\ i < Len(preview)
           /\ ApplyPreview([tab |-> t, before |-> IF i + 2 <= Len(preview) THEN preview[i + 2] ELSE NoTab])
  /\ UNCHANGED <<list, sorting, press, drop, menuTimer, heard, renaming>>

(* A double click edits a name, unless tabs are being moved.               *)
Rename ==
  /\ renaming' = ~renaming /\ (renaming \/ (~sorting /\ ~press.started))
  /\ UNCHANGED <<list, sorting, preview, moves, press, drop, menuTimer, heard, turns>>

ReorderNext ==
  \/ StartSorting \/ FinishSorting \/ CancelButton \/ ListChanges \/ PointerMoves \/ PointerUp
  \/ CancelDrag \/ LongPress \/ ContextMenu \/ Escape \/ Rename
  \/ \E t \in Strip, b \in BOOLEAN : PointerDown(t, b) \/ ArrowKey(t, b)

-----------------------------------------------------------------------------
(* What finishing would make of the tabs is what the preview shows: the    *)
(* moves collected, played over the list as it is now, give the preview,   *)
(* though others change the list and drags, keys and cancellations come in *)
(* any order; a drag would drop a tab that is there; and whoever listens   *)
(* to the pointer or to Escape does so as long as there is something to    *)
(* drag or to sort.                                                        *)
PreviewIsKept ==
  /\ IF sorting THEN preview = Replay(list, moves) ELSE moves = <<>>
  /\ drop # NoDrop => press.started /\ drop.tab = press.tab /\ {drop.tab, drop.before} \subseteq ToSet(list) \union {NoTab}
  /\ heard = (IF Pressed THEN {"pointer"} ELSE {}) \union (IF Pressed \/ sorting THEN {"key"} ELSE {})
  /\ menuTimer => press.touch /\ ~press.started

-----------------------------------------------------------------------------
(***************************************************************************)
(* Going to a tab.                                                         *)
(***************************************************************************)
Off == [on |-> FALSE, tab |-> NoTab]
Unpressed == [kind |-> "none", id |-> NoTab]
Still == [composing |-> FALSE, next |-> FALSE, timer |-> FALSE]
Shut == [open |-> FALSE, results |-> {}, selected |-> NoTab]

AnyOf(S) == IF S = {} THEN {NoTab} ELSE S

SwitchInit ==
  /\ live = {} /\ loaded = FALSE /\ active = NoTab
  /\ page = TRUE /\ reading = FALSE
  /\ switcher = Shut /\ finishing = Unpressed /\ typing = Still
  /\ visits \in SUBSET Tabs /\ pending = NoTab /\ dwell = NoTab
  /\ leader = Off

-----------------------------------------------------------------------------
Attended == reading /\ page
CanRead == ~switcher.open /\ Attended
(* scheduleDwell, after the watcher of activeId, open and isReading: the   *)
(* visit p is forgotten when a is active instead                           *)
Scheduled(p, a, reads) ==
  /\ pending' = IF p # a THEN NoTab ELSE p
  /\ dwell' = IF reads THEN pending' ELSE NoTab

(* switchTab and noteVisit                                                 *)
SwitchTab(t, reads) ==
  LET notes == t # active /\ page
  IN /\ active' = t
     /\ visits' = IF notes THEN visits \union {t} ELSE visits
     /\ Scheduled(IF notes THEN t ELSE pending, t, reads)

(* The watcher of the tabs: who is gone is forgotten, once they are known. *)
Pruned(l) ==
  /\ live' = l
  /\ visits' = visits \intersect l
  /\ \E more \in SUBSET (l \ live) :
       switcher' = [switcher EXCEPT !.results = IF switcher.open THEN (@ \intersect l) \union more ELSE {},
                                    !.selected = IF @ \in l THEN @ ELSE NoTab]
(* The tabs become l; another becomes active when the active one goes.     *)
TabsBecome(l) ==
  /\ Pruned(l)
  /\ \E a \in (IF active \in l THEN {active} ELSE AnyOf(l)) :
       active' = a /\ Scheduled(pending, a, CanRead)

-----------------------------------------------------------------------------
(* show                                                                    *)
Show ==
  /\ \E t \in AnyOf(live) :
       switcher' = [Shut EXCEPT !.open = TRUE, !.results = live, !.selected = t]
  /\ finishing' = Unpressed /\ typing' = Still
  /\ Scheduled(pending, active, FALSE)
(* the watcher of open in the component                                    *)
Closes == /\ switcher' = Shut
          /\ typing' = [typing EXCEPT !.next = FALSE, !.timer = FALSE]

OpenQuickSwitcher ==
  /\ ~switcher.open /\ Show
  /\ UNCHANGED <<live, loaded, active, page, reading, visits, leader>>
(* close, toggleOverview and the place around the switcher                 *)
CloseSwitcher ==
  /\ switcher.open /\ Closes /\ Scheduled(pending, active, Attended)
  /\ UNCHANGED <<live, loaded, active, page, reading, finishing, visits,
                  leader>>

(* select: what is not among the results any more is refused               *)
Select(t) ==
  IF t \notin switcher.results THEN UNCHANGED <<active, visits, pending, dwell, switcher, typing>>
  ELSE SwitchTab(t, Attended) /\ Closes

(* setFilter, refreshFilter                                                *)
Refilter ==
  \E res \in SUBSET live :
    \E t \in (IF switcher.selected \in res THEN {switcher.selected} ELSE AnyOf(res)) :
      switcher' = [switcher EXCEPT !.results = res, !.selected = t]
(* search: the first match is selected                                     *)
Searched ==
  \E res \in SUBSET live :
    \E t \in AnyOf(res) : switcher' = [switcher EXCEPT !.results = res, !.selected = t]
Search ==
  /\ switcher.open /\ Searched
  /\ UNCHANGED <<live, loaded, active, page, reading, finishing, typing, visits, pending, dwell, leader>>
Move ==
  /\ switcher.open /\ finishing = Unpressed /\ ~typing.composing
  /\ \E t \in switcher.results : switcher' = [switcher EXCEPT !.selected = t]
  /\ UNCHANGED <<live, loaded, active, page, reading, finishing, typing, visits, pending, dwell, leader>>

(* setView: an input method finishes first                                 *)
SetView == typing' = IF typing.composing THEN [typing EXCEPT !.next = TRUE] ELSE typing

(* a pointer on a tab, a filter, a view                                    *)
Point ==
  /\ switcher.open
  /\ \/ \E t \in Tabs : Select(t)
     \/ Refilter /\ UNCHANGED <<active, visits, pending, dwell, typing>>
     \/ SetView /\ UNCHANGED <<active, visits, pending, dwell, switcher>>
  /\ UNCHANGED <<live, loaded, page, reading, finishing, leader>>

(* onKey: a key that acts, acts when it is released                        *)
KeyDown(kind) ==
  /\ switcher.open /\ ~typing.composing /\ finishing = Unpressed
  /\ finishing' = [kind |-> kind, id |-> IF kind = "select" THEN switcher.selected ELSE NoTab]
  /\ UNCHANGED <<live, loaded, active, page, reading, switcher, typing,
                 visits, pending, dwell, leader>>
KeyUp ==
  /\ switcher.open /\ finishing # Unpressed /\ finishing' = Unpressed
  /\ CASE finishing.kind = "cancel" -> Closes /\ Scheduled(pending, active, Attended) /\ UNCHANGED <<active, visits>>
       [] finishing.kind = "select" -> Select(finishing.id)
       [] OTHER -> Refilter /\ UNCHANGED <<active, visits, pending, dwell, typing>>
  /\ UNCHANGED <<live, loaded, page, reading, leader>>

Composes ==
  /\ switcher.open /\ ~typing.composing /\ typing' = [typing EXCEPT !.composing = TRUE]
  /\ UNCHANGED <<live, loaded, active, page, reading, switcher, finishing,
                 visits, pending, dwell, leader>>
CompositionEnd ==
  /\ switcher.open /\ typing.composing /\ Searched
  /\ typing' = [composing |-> FALSE, next |-> typing.next, timer |-> typing.next]
  /\ UNCHANGED <<live, loaded, active, page, reading, finishing, visits, pending,
                 dwell, leader>>
CompositionTimer ==
  /\ typing.timer
  /\ typing' = IF typing.composing THEN [typing EXCEPT !.timer = FALSE, !.next = TRUE] ELSE Still
  /\ UNCHANGED <<live, loaded, active, page, reading, switcher, finishing, visits,
                  pending, dwell, leader>>

-----------------------------------------------------------------------------
(* handleKeydown: the key after the leader                                 *)
(* mutant: the leader key acts wherever the user is by then                *)
LeaderHoldsAnywhere == TRUE
LeaderHolds == leader.tab = active

LeaderPress ==
  /\ ~switcher.open /\ live # {} /\ ~leader.on
  /\ leader' = [on |-> TRUE, tab |-> active]
  /\ UNCHANGED <<live, loaded, active, page, reading, switcher, finishing,
                 typing, visits, pending, dwell>>
(* a key while text is typed or copied, Escape, the leader again, the two  *)
(* seconds; or another tab is active                                       *)
LeaderEnds ==
  /\ leader.on /\ leader' = Off
  /\ UNCHANGED <<live, loaded, active, page, reading, switcher, finishing,
                 typing, visits, pending, dwell>>
RunLeaderAction ==
  \/ \* switchTab, nextTab, prevTab
     \E t \in live : SwitchTab(t, CanRead) /\ UNCHANGED <<live, switcher, finishing, typing>>
  \/ \* closeTab
     active # NoTab /\ TabsBecome(live \ {active}) /\ UNCHANGED <<finishing, typing>>
  \/ \* overview
     Show /\ UNCHANGED <<live, active, visits>>
  \/ \* rename, and the leader given to tmux with what follows it
     UNCHANGED <<live, active, visits, pending, dwell, switcher, finishing, typing>>
LeaderKey ==
  /\ ~switcher.open /\ live # {} /\ leader.on /\ LeaderHolds /\ leader' = Off
  /\ RunLeaderAction /\ UNCHANGED <<loaded, page, reading>>

-----------------------------------------------------------------------------
(* The list arrives; others or exits change it; a tab is opened or closed. *)
ListArrives ==
  /\ ~loaded /\ loaded' = TRUE
  /\ \E l \in SUBSET Tabs \ {{}} : TabsBecome(l)
  /\ UNCHANGED <<page, reading, finishing, typing, leader>>
TabsChange(l) ==
  /\ loaded /\ l # live /\ TabsBecome(l)
  /\ UNCHANGED <<loaded, page, reading, finishing, typing, leader>>
(* a click on the strip, a notification                                    *)
ClickTab(t) ==
  /\ t \in live /\ SwitchTab(t, CanRead)
  /\ UNCHANGED <<live, loaded, page, reading, switcher, finishing, typing,
                  leader>>
(* visibilitychange, focus and blur of the window, isReading               *)
Attends(p, r) ==
  /\ page' = p /\ reading' = r
  /\ Scheduled(pending, active, ~switcher.open /\ r /\ p)
  /\ UNCHANGED <<live, loaded, active, switcher, finishing, typing, visits,
                  leader>>
PageChanges ==
  \/ Attends(~page, reading)
  \/ active # NoTab /\ Attends(page, ~reading)

(* the dwell timer                                                         *)
Dwelt ==
  /\ dwell # NoTab
  /\ IF pending = dwell /\ active = dwell /\ CanRead
     THEN visits' = visits \union {dwell} /\ pending' = NoTab
     ELSE UNCHANGED << visits, pending>>
  /\ dwell' = NoTab
  /\ UNCHANGED <<live, loaded, active, page, reading, switcher, finishing,
                 typing, leader>>

SwitchNext ==
  \/ OpenQuickSwitcher \/ CloseSwitcher \/ Search \/ CompositionEnd \/ Move \/ Point \/ KeyUp \/ Composes \/ CompositionTimer
  \/ \E k \in {"cancel", "select", "filter"} : KeyDown(k)
  \/ LeaderPress \/ LeaderEnds \/ LeaderKey
  \/ ListArrives \/ PageChanges \/ Dwelt
  \/ \E l \in SUBSET Tabs : TabsChange(l)
  \/ \E t \in Tabs : ClickTab(t)
SwitchSpec == SwitchInit /\ [][SwitchNext]_switchVars

-----------------------------------------------------------------------------
(* Keys do what was meant by them though the list and the page change      *)
(* between them.  A leader key acts on the tab it was pressed in (it may   *)
(* close it); what is selected can be gone to; a view that waits for an    *)
(* input method waits in an open switcher; the timer of a visit runs       *)
(* exactly while the tab entered is being read, so that a visit counts     *)
(* that was one, and each that was does; and a list that is still loading  *)
(* takes nobody's visits away, one that is there keeps none of a closed    *)
(* tab.                                                                    *)
KeysMeanTheirTab ==
  /\ [](/\ switcher.open /\ switcher.selected # NoTab => switcher.selected \in live
        /\ typing.timer => switcher.open /\ typing.next
        /\ pending # NoTab => pending = active
        /\ dwell = IF CanRead THEN pending ELSE NoTab
        /\ loaded => visits \subseteq live)
  /\ [][leader.on /\ ~leader'.on /\ <<live, active, switcher>>' # <<live, active, switcher>>
          => leader.tab = active]_switchVars
=============================================================================
