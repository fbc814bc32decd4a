------------------------------ MODULE FileTree ------------------------------
(***************************************************************************)
(* The file panel of the drawer (FilesPanel.vue) and the place it stands   *)
(* in (ResourceDrawer.vue).                                                *)
(*                                                                         *)
(* A place is a directory (cwd) and a sub-directory of it (root).  The     *)
(* drawer hands the panel the directory of the active pane, unless it is   *)
(* locked to one; the panel keeps its own, moves through the tree,         *)
(* searches, goes back, and creates, renames and deletes.  Rows and search *)
(* results are abstracted to the place and query they came from; a request *)
(* is what is asked, its answer another step.  The panel opens where the   *)
(* page knows the pane to be; later the telemetry may fail.                *)
(***************************************************************************)
EXTENDS Naturals, Sequences

CONSTANTS
  Dirs,      \* directories a pane may be in
  Queries,   \* what may be typed in the search box
  MaxBack,   \* bound: locations remembered to go back to
  MaxWalk    \* bound: moves of the user and of the pane

VARIABLES
  pane,      \* where the pane of the session is
  followed,  \* where the page believes it is: telemetry, or "" when there is none
  lock,      \* ResourceDrawer: locked, lockedCwd, selectedFilesCwd
  panel,     \* FilesPanel: treeCwd, treeRootRel, treeQuery, roots, searchResults, ...
  back,      \* backStack
  view,      \* the request of loadView that viewSeq lets through
  refresh,   \* refreshDir(null) in flight, by the rel it asked for
  search,    \* searchTimer, the request searchSeq lets through, searchPoll
  deleting,  \* the row the delete bar asks about
  done,      \* the last deletion: what was asked about and what was sent
  strayed,   \* a refresh was answered after the panel had left its place
  walked

ftVars == <<pane, followed, lock, panel, back, view, refresh, search, deleting, done, strayed, walked>>

Roots == {"", "sub"}
Nothing == [none |-> TRUE]
NoSearch == [timer |-> "", asked |-> Nothing, poll |-> ""]

PropsCwd(f, l) == IF l.selected # "" THEN l.selected ELSE IF l.on THEN l.cwd ELSE f
Cwd == PropsCwd(followed, lock)
(* The server takes the directory of the session when none is named.       *)
Real(cwd) == IF cwd = "" THEN pane ELSE cwd

FtInit ==
  /\ pane \in Dirs /\ followed = pane
  /\ lock = [on |-> FALSE, cwd |-> "", selected |-> ""]
  /\ panel = [cwd |-> followed, root |-> "", query |-> "", rows |-> Nothing, results |-> Nothing, active |-> TRUE, due |-> FALSE]
  /\ back = <<>> /\ view = [cwd |-> followed, root |-> "", named |-> FALSE] /\ refresh = {} /\ search = NoSearch
  /\ deleting = Nothing /\ done = Nothing /\ strayed = FALSE /\ walked = 0

Walks == walked < MaxWalk /\ walked' = walked + 1 /\ UNCHANGED strayed
Stands == UNCHANGED <<walked, strayed>>
Elsewhere == UNCHANGED <<deleting, done>>

-----------------------------------------------------------------------------
(* Mutant of Cancelled: the request in flight is left to answer.           *)
CancelledTimers(s) == [s EXCEPT !.timer = "", !.poll = ""]

(* cancelSearch                                                            *)
Cancelled(s) == NoSearch

(* The panel becomes p and its search s; the watch on query and root drops *)
(* the results and starts over.                                            *)
Turns(p, s) ==
  LET moved == p.root # panel.root \/ p.query # panel.query
  IN /\ panel' = IF moved THEN [p EXCEPT !.results = Nothing] ELSE p
     /\ search' = IF moved THEN [Cancelled(s) EXCEPT !.timer = p.query] ELSE s

Asks(p) == view' = [cwd |-> p.cwd, root |-> p.root, named |-> FALSE]

Here == [cwd |-> panel.cwd, root |-> panel.root, query |-> panel.query, rows |-> panel.rows,
         results |-> panel.results, pending |-> view # Nothing]
Remember == Len(back) < MaxBack /\ back' = Append(back, Here)

(* watch [sessionId, cwd]: another directory, or session, starts over      *)
Reanchor ==
  LET p == [panel EXCEPT !.cwd = Cwd', !.root = "", !.query = "", !.rows = Nothing, !.results = Nothing, !.due = ~panel.active]
  IN /\ panel' = p /\ search' = Cancelled(search) /\ back' = <<>>
     /\ IF panel.active THEN Asks(p) ELSE view' = Nothing
Follows ==
  IF Cwd' \in {Cwd, "", panel.cwd} THEN UNCHANGED <<panel, search, back, view>> ELSE Reanchor

PaneMoves(d) ==
  /\ d # pane /\ pane' = d /\ followed' \in {d, followed, ""}
  /\ UNCHANGED lock /\ Follows /\ UNCHANGED refresh /\ Elsewhere /\ Walks
Telemetry ==
  /\ followed' = pane /\ followed' # followed
  /\ UNCHANGED <<pane, lock>> /\ Follows /\ UNCHANGED refresh /\ Elsewhere /\ Stands
SessionChanges(d) ==
  /\ pane' = d /\ followed' = d /\ UNCHANGED lock
  /\ Reanchor /\ UNCHANGED refresh /\ Elsewhere /\ Walks

(* toggleLock                                                              *)
ToggleLock ==
  /\ lock' = IF lock.on THEN [lock EXCEPT !.on = FALSE, !.selected = ""] ELSE [lock EXCEPT !.on = TRUE, !.cwd = followed]
  /\ UNCHANGED <<pane, followed>> /\ Follows /\ UNCHANGED refresh /\ Elsewhere /\ Walks

(* selectDirectoryLocation: the panel went to a directory itself           *)
Selects(d) ==
  lock' = [on |-> TRUE, cwd |-> IF lock.on THEN lock.cwd ELSE followed, selected |-> d]
(* lockPreviewLocation: a file was opened; the drawer stays here           *)
LockHere ==
  /\ ~lock.on /\ lock' = [lock EXCEPT !.on = TRUE, !.cwd = panel.cwd]
  /\ UNCHANGED <<pane, followed>> /\ Follows /\ UNCHANGED refresh /\ Elsewhere /\ Walks

-----------------------------------------------------------------------------
(* Moving through the tree.                                                *)
Still == UNCHANGED <<pane, followed>> /\ Elsewhere

(* reRoot                                                                  *)
ReRoot(root, push) ==
  /\ (root # panel.root \/ panel.query # "") /\ UNCHANGED lock /\ Still
  /\ IF push THEN Remember ELSE UNCHANGED back
  /\ LET p == [panel EXCEPT !.root = root, !.query = "", !.rows = Nothing]
     IN Turns(p, Cancelled(search)) /\ Asks(p)
  /\ UNCHANGED refresh /\ Walks

(* goBack: the place as it was; its search goes on, its load starts again  *)
GoBack ==
  /\ Still /\ back # <<>> /\ back' = SubSeq(back, 1, Len(back) - 1)
  /\ LET prev == back[Len(back)]
         p == [panel EXCEPT !.cwd = prev.cwd, !.root = prev.root, !.query = prev.query, !.rows = prev.rows, !.results = prev.results]
     IN /\ panel' = p
        /\ IF prev.cwd # panel.cwd THEN Selects(prev.cwd) ELSE UNCHANGED lock
        /\ search' = [Cancelled(search) EXCEPT !.asked = IF p.query = "" THEN @ ELSE
             [cwd |-> p.cwd, root |-> p.root, q |-> p.query, polling |-> TRUE]]
        /\ IF p.query = "" /\ prev.pending THEN Asks(p) ELSE view' = Nothing
  /\ UNCHANGED refresh /\ Walks

(* selectFileScope                                                         *)
SelectFileScope(d) ==
  /\ Still /\ Selects(d) /\ Remember
  /\ LET p == [panel EXCEPT !.cwd = d, !.root = "", !.query = "", !.rows = Nothing]
     IN Turns(p, Cancelled(search)) /\ Asks(p)
  /\ UNCHANGED refresh /\ Walks

(* activatePreview, previewRel and previewPath: what was under way stops   *)
CancelNavigation ==
  /\ view' = Nothing /\ search' = Cancelled(search)
  /\ UNCHANGED <<panel, back, lock, refresh>> /\ Still /\ Walks

(* browseTerminalDirectory: nothing moves until the directory is known     *)
Browse(d) ==
  /\ view' = [cwd |-> d, root |-> "", named |-> TRUE, scope |-> panel.cwd, from |-> Here]
  /\ search' = Cancelled(search)
  /\ UNCHANGED <<panel, back, lock, refresh>> /\ Still /\ Walks
Browsed ==
  /\ view # Nothing /\ view.named /\ view' = Nothing
  /\ \/ /\ view.scope = panel.cwd /\ Len(back) < MaxBack
        /\ back' = Append(back, view.from)
        /\ Selects(view.cwd)
        /\ Turns([panel EXCEPT !.cwd = view.cwd, !.root = "", !.query = "", !.rows = [cwd |-> view.cwd, root |-> ""]], search)
     \/ UNCHANGED <<back, lock, panel, search>>
  /\ UNCHANGED refresh /\ Still /\ Stands

(* loadView's answer, or its failure                                       *)
Viewed ==
  /\ view # Nothing /\ ~view.named /\ view' = Nothing
  /\ \/ panel' = [panel EXCEPT !.rows = [cwd |-> view.cwd, root |-> view.root], !.cwd = IF panel.root = "" THEN view.cwd ELSE @]
     \/ panel' = [panel EXCEPT !.rows = Nothing] \/ UNCHANGED panel
  /\ UNCHANGED <<back, lock, refresh, search>> /\ Still /\ Stands

(* refreshDir(null), after an upload or a change to the tree: the answer   *)
(* goes to the root there is then                                          *)
RefreshDir ==
  /\ refresh' = {r \in refresh : r.root # panel.root} \union {[cwd |-> panel.cwd, root |-> panel.root]}
  /\ UNCHANGED <<panel, back, lock, view, search>>
Refresh == RefreshDir /\ Still /\ Walks
Refreshed(r) ==
  /\ r \in refresh /\ refresh' = refresh \ {r}
  /\ \/ /\ panel' = [panel EXCEPT !.rows = [cwd |-> r.cwd, root |-> r.root], !.cwd = IF panel.root = "" THEN r.cwd ELSE @]
        /\ strayed' = (strayed \/ r # [cwd |-> panel.cwd, root |-> panel.root])
     \/ UNCHANGED <<panel, strayed>>
  /\ UNCHANGED <<back, lock, view, search, walked>> /\ Still

(* watch active                                                            *)
Hide ==
  /\ panel.active /\ panel' = [panel EXCEPT !.active = FALSE] /\ search' = Cancelled(search)
  /\ UNCHANGED <<back, lock, refresh, view>> /\ Still /\ Walks
RunSearch(q, polling) ==
  search' = [timer |-> search.timer, poll |-> "", asked |-> [cwd |-> panel.cwd, root |-> panel.root, q |-> q, polling |-> polling]]
Show ==
  /\ ~panel.active /\ Still /\ UNCHANGED lock /\ panel' = [panel EXCEPT !.active = TRUE, !.due = FALSE]
  /\ IF panel.due THEN Asks(panel) ELSE UNCHANGED view
  /\ IF panel.query # "" THEN RunSearch(panel.query, TRUE) ELSE UNCHANGED search
  /\ UNCHANGED <<back, refresh>> /\ Walks

-----------------------------------------------------------------------------
(* Search                                                                  *)
Type(q) ==
  /\ q # panel.query /\ Turns([panel EXCEPT !.query = q], search)
  /\ UNCHANGED <<back, lock, refresh, view>> /\ Still /\ Walks
(* searchPreviewFile: the file's name, from the top                        *)
SearchPreviewFile(q) ==
  /\ panel.root # "" /\ Turns([panel EXCEPT !.root = "", !.query = q, !.rows = Nothing], Cancelled(search))
  /\ view' = Nothing /\ UNCHANGED <<back, lock, refresh>> /\ Still /\ Walks
TimerFires ==
  /\ search.timer # ""
  /\ search' = [timer |-> "", poll |-> "", asked |-> [cwd |-> panel.cwd, root |-> panel.root, q |-> search.timer, polling |-> FALSE]]
  /\ UNCHANGED <<panel, back, lock, refresh, view>> /\ Still /\ Stands
(* A poll of the same generation leaves the results.                       *)
Found ==
  /\ search.asked # Nothing
  /\ LET a == search.asked
         hits == [cwd |-> a.cwd, root |-> a.root, query |-> a.q]
     IN \/ /\ panel' \in {[panel EXCEPT !.results = hits]} \union (IF a.polling THEN {panel} ELSE {})
           /\ search' = [search EXCEPT !.asked = Nothing, !.poll = IF panel.active /\ panel.query = a.q THEN a.q ELSE @]
        \/ UNCHANGED panel /\ search' = [search EXCEPT !.asked = Nothing]
  /\ UNCHANGED <<back, lock, refresh, view>> /\ Still /\ Stands
PollFires ==
  /\ search.poll # ""
  /\ IF panel.active /\ panel.query = search.poll THEN RunSearch(search.poll, TRUE) ELSE search' = [search EXCEPT !.poll = ""]
  /\ UNCHANGED <<panel, back, lock, refresh, view>> /\ Still /\ Stands

-----------------------------------------------------------------------------
(* Deleting: the row is asked about, and sent with the directory handed to *)
(* the panel by then.                                                      *)
AskDelete ==
  /\ panel.rows # Nothing /\ panel.query = "" /\ deleting = Nothing
  /\ deleting' = [cwd |-> panel.cwd, root |-> panel.root]
  /\ UNCHANGED <<pane, followed, lock, panel, back, view, refresh, search, done>> /\ Walks
CancelDelete ==
  /\ deleting # Nothing /\ deleting' = Nothing
  /\ UNCHANGED <<pane, followed, lock, panel, back, view, refresh, search, done>> /\ Stands
ConfirmDelete ==
  /\ deleting # Nothing /\ deleting' = Nothing
  /\ done' = [asked |-> deleting, sent |-> [cwd |-> Real(Cwd), root |-> deleting.root]]
  /\ RefreshDir /\ UNCHANGED <<pane, followed>> /\ Walks

FtNext ==
  \/ \E d \in Dirs : PaneMoves(d) \/ SessionChanges(d) \/ SelectFileScope(d) \/ Browse(d)
  \/ \E root \in Roots, push \in BOOLEAN : ReRoot(root, push)
  \/ \E q \in Queries \union {""} : Type(q) \/ (q # "" /\ SearchPreviewFile(q))
  \/ \E r \in refresh : Refreshed(r)
  \/ Telemetry \/ ToggleLock \/ LockHere \/ GoBack \/ CancelNavigation \/ Browsed \/ Viewed \/ Refresh
  \/ Hide \/ Show \/ TimerFires \/ Found \/ PollFires \/ AskDelete \/ CancelDelete \/ ConfirmDelete
FtSpec == FtInit /\ [][FtNext]_ftVars

-----------------------------------------------------------------------------
(* Search results on the screen are those of the query in the box, in the  *)
(* place the panel stands in: typing, going back, re-rooting, a pane that  *)
(* moves and a late answer never mix them.  (A late refresh may: it moves  *)
(* the panel itself, without the search.)                                  *)
SearchShowsItsQuery ==
  panel.results # Nothing /\ ~strayed =>
    /\ panel.results.query = panel.query /\ panel.results.root = panel.root
    /\ panel.results.cwd = panel.cwd

=============================================================================
