------------------------------ MODULE Workbench ------------------------------
(***************************************************************************)
(* The tab list, one document that every open browser edits: useWorkbench, *)
(* workbenchMerge, tabReorder and the client of /workbench, against the    *)
(* server's guarded PUT (settings.go).                                     *)
(*                                                                         *)
(* A browser reads the whole document, edits its copy, and writes the copy *)
(* back after a pause.  The server refuses a write that names another rev  *)
(* than the stored one, and the browser merges: base (what it last saw on  *)
(* the server), local, server.  A request and the server's handling of it  *)
(* are one step (nothing the sender does in between is in the request);    *)
(* the answer arrives in a later one, and edits, timers, reads and the     *)
(* other browsers come in between.                                         *)
(*                                                                         *)
(* A tab is [id, group, name]: name stands for every field merged by       *)
(* itself (name, cwd, engine, session, split).  rev 0: the document names  *)
(* no rev.                                                                 *)
(***************************************************************************)
EXTENDS Naturals, SequencesExt

CONSTANTS
  Browsers, Tabs, Names,
  FirstTabs,      \* tabs of the document the server starts with
  Stored,         \* the server starts with a document
  MaxRetries,     \* MAX_CONFLICT_RETRIES
  MaxEdits,       \* bound: edits of each browser
  MaxFailures     \* bound: failed requests, lost answers and reloads

ASSUME WorkbenchAssumption == FirstTabs \subseteq Tabs /\ IsFiniteSet(FirstTabs)

VARIABLES
  server,     \* the stored document, NoDoc when there is none
  page,       \* what each browser holds
  opened, removed, closed, doubtful,   \* history, for the properties
  edits, failures

wbVars == <<server, page, opened, removed, closed, doubtful, edits, failures>>
wbHistory == <<opened, removed, closed, doubtful>>

NoDoc == [rev |-> 0, groups |-> <<>>, activeTab |-> "", activeGroup |-> ""]
NoPut == [kind |-> "none"]
NoRead == [kind |-> "none"]

(* byId(...).has / get                                                     *)
Ids(s) == {x.id : x \in ToSet(s)}
ById(s, id) == CHOOSE x \in ToSet(s) : x.id = id

(* The members of s that are in S, in their order                          *)
Only(s, S) ==
  LET only[n \in 0 .. Len(s)] ==
        IF n = 0 THEN <<>>
        ELSE IF s[n] \in S THEN Append(only[n - 1], s[n]) ELSE only[n - 1]
  IN only[Len(s)]

TabsOf(cfg) == FlattenSeq([i \in DOMAIN cfg.groups |-> cfg.groups[i].tabs])
TabIds(cfg) == UNION {Ids(cfg.groups[i].tabs) : i \in DOMAIN cfg.groups}

(* createDefaultWorkbenchConfig: one empty group, its id the browser's own *)
DefaultConfig(b) ==
  [rev |-> 0, groups |-> <<[id |-> b, folded |-> FALSE, tabs |-> <<>>]>>,
   activeTab |-> "", activeGroup |-> b]

(* moveTabBefore; before = "" moves to the end                             *)
MoveTabBefore(tabs, id, before) ==
  IF id \notin Ids(tabs) \/ before = id \/ (before # "" /\ before \notin Ids(tabs))
  THEN tabs
  ELSE LET rest == Only(tabs, {t \in ToSet(tabs) : t.id # id})
           to == IF before = "" THEN Len(rest) + 1
                 ELSE SelectInSeq(rest, LAMBDA t : t.id = before)
       IN InsertAt(rest, to, ById(tabs, id))

MoveInGroups(groups, move) ==
  [i \in DOMAIN groups |->
     IF groups[i].id = move.group
     THEN [groups[i] EXCEPT !.tabs = MoveTabBefore(@, move.tab, move.before)]
     ELSE groups[i]]

ReplayMoves(groups, moves) ==
  LET replayed[n \in 0 .. Len(moves)] ==
        IF n = 0 THEN groups ELSE MoveInGroups(replayed[n - 1], moves[n])
  IN replayed[Len(moves)]

(* mergeFields: my edit, else theirs                                       *)
MergeFields(base, local, theirs, id, fields) ==
  IF id \notin Ids(base) THEN ById(local, id)
  ELSE [f \in DOMAIN ById(theirs, id) |->
          IF f \in fields /\ ById(local, id)[f] # ById(base, id)[f]
          THEN ById(local, id)[f] ELSE ById(theirs, id)[f]]

(* Mutant of MergeItems: what is not there was deleted there.              *)
MergeTheirs(base, local, theirs, fields) == theirs

(* Mutant of MergeItems: what is not here was deleted here.                *)
MergeMine(base, local, theirs, fields) == local

(* What survives, in the server's order and then mine: absent here and in  *)
(* the base, I deleted it; absent there and in the base, they did.         *)
MergeItems(base, local, theirs, fields) ==
  LET kept == Only(theirs, {x \in ToSet(theirs) : x.id \in Ids(local) \/ x.id \notin Ids(base)})
      own == Only(local, {x \in ToSet(local) : x.id \notin Ids(theirs) \union Ids(base)})
  IN [i \in DOMAIN kept |->
        IF kept[i].id \in Ids(local)
        THEN MergeFields(base, local, theirs, kept[i].id, fields) ELSE kept[i]] \o own

Slots(base, local, theirs) ==
  LET merged == MergeItems(base.groups, local.groups, theirs.groups, {"folded"})
      fallback == SubSeq(local.groups \o theirs.groups, 1, 1)
      groups == IF merged = <<>> THEN fallback ELSE merged
  IN [i \in DOMAIN groups |-> [groups[i] EXCEPT !.tabs = <<>>]]

(* mergeWorkbench                                                          *)
MergeWorkbench(base, local, theirs, moves) ==
  LET survivors == MergeItems(TabsOf(base), TabsOf(local), TabsOf(theirs), {"group", "name"})
      slots == Slots(base, local, theirs)
      Home(t) == IF t.group \in Ids(slots) THEN t.group ELSE slots[1].id
      placed == [i \in DOMAIN slots |->
                   [slots[i] EXCEPT !.tabs =
                      LET mine == Only(survivors, {t \in ToSet(survivors) : Home(t) = slots[i].id})
                      IN [j \in DOMAIN mine |-> [mine[j] EXCEPT !.group = slots[i].id]]]]
      Else(here, there, all, last) ==
        IF here \in all THEN here ELSE IF there \in all THEN there ELSE last
  IN [rev |-> theirs.rev, groups |-> ReplayMoves(placed, moves),
      activeTab |-> Else(local.activeTab, theirs.activeTab, Ids(survivors), ""),
      activeGroup |-> Else(local.activeGroup, theirs.activeGroup, Ids(slots), slots[1].id)]

-----------------------------------------------------------------------------
NewPage(b) ==
  [config |-> NoDoc, baseline |-> NoDoc, hydrated |-> FALSE, moves |-> <<>>,
   timer |-> FALSE, put |-> NoPut, pending |-> FALSE,
   read |-> [kind |-> "load"], unsaved |-> FALSE]

WbInit ==
  /\ server = IF Stored
              THEN [rev |-> 1, activeTab |-> "", activeGroup |-> "g",
                    groups |-> <<[id |-> "g", folded |-> FALSE,
                       tabs |-> SetToSeq({[id |-> t, group |-> "g", name |-> ""] : t \in FirstTabs})]>>]
              ELSE NoDoc
  /\ page = [b \in Browsers |-> NewPage(b)]
  /\ opened = (IF Stored THEN FirstTabs ELSE {}) /\ removed = {}
  /\ closed = [b \in Browsers |-> {}] /\ doubtful = {}
  /\ edits = [b \in Browsers |-> 0] /\ failures = 0

Set(b, p) == page' = [page EXCEPT ![b] = p]
Fail == failures < MaxFailures /\ failures' = failures + 1
Keep == UNCHANGED <<opened, removed, closed, edits>>

(* fetchWorkbenchConfig: 404 is an empty list that was read; 401 and 429   *)
(* give a list to show that was not.                                       *)
Fetched(b) ==
  [hydrated |-> TRUE, config |-> IF server = NoDoc THEN DefaultConfig(b) ELSE server]

(* load, once per page; a failure shows the default and never writes it.   *)
Load(b) ==
  /\ page[b].read.kind = "load"
  /\ \/ /\ Set(b, [page[b] EXCEPT !.config = Fetched(b).config, !.baseline = Fetched(b).config,
                                  !.hydrated = TRUE, !.read = NoRead])
        /\ UNCHANGED failures
     \/ /\ Fail
        /\ Set(b, [page[b] EXCEPT !.config = DefaultConfig(b), !.baseline = NoDoc,
                                  !.hydrated = FALSE, !.read = NoRead])
  /\ UNCHANGED <<server, doubtful>> /\ Keep

(* resync: the read, taken when no write is in flight                      *)
ResyncAsks(b) ==
  /\ page[b].read = NoRead /\ page[b].put = NoPut
  /\ Set(b, [page[b] EXCEPT !.read =
               [kind |-> "resync", base |-> page[b].baseline, got |-> Fetched(b).config]])
  /\ UNCHANGED <<server, doubtful, failures>> /\ Keep

(* Mutant of Overtaken: only a write still in flight counts.               *)
OvertakenInFlight(p) == p.put # NoPut

(* ... and the answer, dropped when a write overtook it                    *)
Overtaken(p) == p.put # NoPut \/ p.baseline # p.read.base

ResyncAnswered(b) ==
  /\ page[b].read.kind = "resync"
  /\ LET p == [page[b] EXCEPT !.read = NoRead]
     IN \/ /\ UNCHANGED failures
           /\ Set(b, IF Overtaken(page[b]) THEN p
                     ELSE [p EXCEPT !.hydrated = TRUE, !.baseline = page[b].read.got,
                             !.config = MergeWorkbench(p.baseline, p.config,
                                                       page[b].read.got, p.moves)])
        \/ Fail /\ Set(b, p)
  /\ UNCHANGED <<server, doubtful>> /\ Keep

(* handleSaveWorkbench: a write that names a rev must name the stored one  *)
ServerTakes(doc) == doc.rev = 0 \/ doc.rev = server.rev

(* saveWorkbenchConfig, from the page p, to its outcome.  "lost": stored,  *)
(* and the answer never came.                                              *)
Send(b, p, attempt) ==
  LET req == [kind |-> "asked", out |-> p.config, count |-> Len(p.moves), attempt |-> attempt,
              rev |-> server.rev + 1, current |-> server]
      Answer(k) == Set(b, [p EXCEPT !.put = [req EXCEPT !.kind = k]])
  IN \/ /\ ServerTakes(p.config)
        /\ server' = [p.config EXCEPT !.rev = server.rev + 1]
        /\ \/ Answer("saved") /\ UNCHANGED <<failures, doubtful>>
           \/ /\ Answer("threw") /\ Fail
              /\ doubtful' = doubtful \union (TabIds(p.config) \ TabIds(p.baseline))
     \/ ~ServerTakes(p.config) /\ Answer("conflict") /\ UNCHANGED <<server, failures, doubtful>>
     \/ \E k \in {"skipped", "failed", "threw"} :
          Answer(k) /\ Fail /\ UNCHANGED <<server, doubtful>>

(* kick: one write at a time; before the server was read, none at all      *)
Gate(p) == p.hydrated

Kick(b, p) ==
  IF p.put # NoPut
  THEN Set(b, [p EXCEPT !.pending = TRUE]) /\ UNCHANGED <<server, failures, doubtful>>
  ELSE IF Gate(p) THEN Send(b, [p EXCEPT !.pending = FALSE], 0)
  ELSE Set(b, [p EXCEPT !.pending = FALSE, !.unsaved = TRUE])
       /\ UNCHANGED <<server, failures, doubtful>>

TimerFires(b) ==
  /\ page[b].timer
  /\ Kick(b, [page[b] EXCEPT !.timer = FALSE]) /\ Keep

(* The retry button, shown with the error                                  *)
RetrySave(b) ==
  /\ page[b].unsaved
  /\ Kick(b, [page[b] EXCEPT !.timer = FALSE]) /\ Keep

(* flush is over; kick goes round again if a save came meanwhile           *)
FlushEnds(b, p) == Kick(b, [p EXCEPT !.put = NoPut])
Ends(b, p) ==
  IF p.pending THEN FlushEnds(b, p)
  ELSE Set(b, [p EXCEPT !.put = NoPut]) /\ UNCHANGED <<server, failures, doubtful>>

Saved(b) ==
  /\ page[b].put.kind = "saved"
  /\ LET p == page[b] rev == p.put.rev
     IN Ends(b, [p EXCEPT !.config.rev = rev, !.baseline = [p.put.out EXCEPT !.rev = rev],
                   !.moves = SubSeq(@, p.put.count + 1, Len(@)), !.unsaved = FALSE])
  /\ Keep

(* The base moved on: merge what I changed onto it and write again.        *)
Conflict(b) ==
  /\ page[b].put.kind = "conflict"
  /\ LET p == page[b] current == p.put.current
     IN IF p.put.attempt >= MaxRetries THEN Ends(b, [p EXCEPT !.unsaved = TRUE])
        ELSE Send(b, [p EXCEPT !.baseline = current,
                        !.config = MergeWorkbench(p.baseline, p.config, current, p.moves)],
                  p.put.attempt + 1)
  /\ Keep

(* 401 and 429, HTTP errors; a request that threw leaves kick's loop.      *)
NotSaved(b) ==
  /\ page[b].put.kind \in {"skipped", "failed", "threw"}
  /\ LET p == [page[b] EXCEPT !.unsaved = TRUE]
     IN IF p.put.kind = "threw"
        THEN Set(b, [p EXCEPT !.put = NoPut]) /\ UNCHANGED <<server, failures, doubtful>>
        ELSE Ends(b, p)
  /\ Keep

-----------------------------------------------------------------------------
(* Edits.  Each ends in save(): the timer starts again.                    *)
Ready(b) == page[b].config # NoDoc /\ edits[b] < MaxEdits
GroupOf(cfg, t) == CHOOSE i \in DOMAIN cfg.groups : t \in Ids(cfg.groups[i].tabs)
Edited(b, cfg) ==
  /\ Set(b, [page[b] EXCEPT !.config = cfg, !.timer = TRUE])
  /\ edits' = [edits EXCEPT ![b] = @ + 1]
  /\ UNCHANGED <<server, doubtful, failures>>

AddTab(b, t, i, activate) ==
  /\ Ready(b) /\ t \notin opened /\ i \in DOMAIN page[b].config.groups
  /\ LET cfg == page[b].config g == cfg.groups[i].id
         with == [cfg EXCEPT !.groups[i].tabs = Append(@, [id |-> t, group |-> g, name |-> ""])]
     IN Edited(b, IF activate THEN [with EXCEPT !.activeGroup = g, !.activeTab = t] ELSE with)
  /\ opened' = opened \union {t} /\ UNCHANGED <<removed, closed>>

(* The tab before it, or the new first, becomes the active one.            *)
RemoveTab(b, t) ==
  /\ Ready(b) /\ t \in TabIds(page[b].config)
  /\ LET cfg == page[b].config i == GroupOf(cfg, t) tabs == cfg.groups[i].tabs
         at == SelectInSeq(tabs, LAMBDA x : x.id = t)
         rest == RemoveAt(tabs, at)
         without == [cfg EXCEPT !.groups[i].tabs = rest]
         next == IF rest = <<>> THEN "" ELSE rest[IF at = 1 THEN 1 ELSE at - 1].id
     IN Edited(b, IF cfg.activeTab = t THEN [without EXCEPT !.activeTab = next] ELSE without)
  /\ removed' = removed \union {t} /\ closed' = [closed EXCEPT ![b] = @ \union {t}]
  /\ UNCHANGED opened

SetName(cfg, t, n) ==
  LET i == GroupOf(cfg, t)
  IN [cfg EXCEPT !.groups[i].tabs =
        [j \in DOMAIN @ |-> IF @[j].id = t THEN [@[j] EXCEPT !.name = n] ELSE @[j]]]

(* renameTab; bindSession, unbindSession and setTabSplit write alike.      *)
RenameTab(b, t, n) ==
  /\ Ready(b) /\ t \in TabIds(page[b].config)
  /\ Edited(b, SetName(page[b].config, t, n))
  /\ UNCHANGED <<opened, removed, closed>>

(* adoptRemoteTabName and setTabCwd: a pushed value, saved if it is new    *)
AdoptName(b, t, n) ==
  /\ Ready(b) /\ t \in TabIds(page[b].config) /\ n # ""
  /\ ById(TabsOf(page[b].config), t).name # n
  /\ Edited(b, SetName(page[b].config, t, n))
  /\ UNCHANGED <<opened, removed, closed>>

SetActiveTab(b, t) ==
  /\ Ready(b) /\ t \in TabIds(page[b].config)
  /\ LET cfg == page[b].config
     IN Edited(b, [cfg EXCEPT !.activeTab = t, !.activeGroup = cfg.groups[GroupOf(cfg, t)].id])
  /\ UNCHANGED <<opened, removed, closed>>

ToggleGroupCollapsed(b, i) ==
  /\ Ready(b) /\ i \in DOMAIN page[b].config.groups
  /\ Edited(b, [page[b].config EXCEPT !.groups[i].folded = ~@])
  /\ UNCHANGED <<opened, removed, closed>>

(* reorderTabs: refused before the list was read; remembered until saved   *)
ReorderTabs(b, t, before) ==
  /\ Ready(b) /\ page[b].hydrated /\ t \in TabIds(page[b].config)
  /\ LET cfg == page[b].config
         move == [group |-> cfg.groups[GroupOf(cfg, t)].id, tab |-> t, before |-> before]
         moved == MoveInGroups(cfg.groups, move)
     IN /\ moved # cfg.groups
        /\ Set(b, [page[b] EXCEPT !.config.groups = moved, !.timer = TRUE,
                     !.moves = Append(@, move)])
  /\ edits' = [edits EXCEPT ![b] = @ + 1]
  /\ UNCHANGED <<server, wbHistory, failures>>

(* The page is loaded anew: what it had not saved is gone.                 *)
Reload(b) ==
  /\ page[b].read.kind # "load" /\ Fail
  /\ Set(b, NewPage(b)) /\ closed' = [closed EXCEPT ![b] = {}]
  /\ UNCHANGED <<server, opened, removed, doubtful, edits>>

Edit(b) ==
  \/ \E t \in Tabs, i \in 1..3, a \in BOOLEAN : AddTab(b, t, i, a)
  \/ \E t \in Tabs : RemoveTab(b, t) \/ SetActiveTab(b, t)
  \/ \E t \in Tabs, n \in Names : RenameTab(b, t, n) \/ AdoptName(b, t, n)
  \/ \E i \in 1..3 : ToggleGroupCollapsed(b, i)
  \/ \E t \in Tabs, before \in Tabs \union {""} : ReorderTabs(b, t, before)

WbStep(b) ==
  \/ Load(b) \/ ResyncAsks(b) \/ ResyncAnswered(b)
  \/ TimerFires(b) \/ RetrySave(b) \/ Saved(b) \/ Conflict(b) \/ NotSaved(b)
  \/ Reload(b) \/ Edit(b)

WbNext == \E b \in Browsers : WbStep(b)
WbSpec == WbInit /\ [][WbNext]_wbVars

-----------------------------------------------------------------------------
(* A browser with nothing to say: no edit waiting, none in flight, none    *)
(* that failed.                                                            *)
AtRest(b) ==
  LET p == page[b] IN p.hydrated /\ ~p.timer /\ p.put = NoPut /\ ~p.unsaved

(* What a write may not do (settings.go, workbenchMerge): a tab leaves the *)
(* stored list only if somebody closed it, whatever the writer had read.   *)
OnlyClosedTabsGo ==
  [][\A t \in TabIds(server) : t \notin TabIds(server') => t \in removed]_wbVars

(* A tab closed in a browser does not come back to it: no conflict, stale  *)
(* read or other device brings it back.  Not promised for a tab that was   *)
(* stored by a write whose answer was lost: the base does not have it.     *)
ClosedStaysClosed ==
  \A b \in Browsers : closed[b] \intersect TabIds(page[b].config) \subseteq doubtful

(* An open tab is lost by no merge: it leaves a browser's list only if     *)
(* somebody closed it, or with the page.                                   *)
OpenTabsStay ==
  [][\A b \in Browsers : page'[b].config # NoDoc =>
       \A t \in TabIds(page[b].config) :
         t \notin TabIds(page'[b].config) => t \in removed']_wbVars

(* A browser at rest on the stored revision shows the stored tabs, their   *)
(* names and order included.  (The empty group a failed load puts up stays *)
(* in its list until a save stores it.)                                    *)
RestShowsStored ==
  \A b \in Browsers : AtRest(b) /\ page[b].config.rev = server.rev =>
    TabsOf(page[b].config) = TabsOf(server)
=============================================================================
