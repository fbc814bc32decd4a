----------------------------- MODULE TabSessions -----------------------------
(***************************************************************************)
(* The tabs of one browser against the shells of the machines they are     *)
(* on: useCliState, reconcileTabs, tabLiveness and reopenDetached.         *)
(*                                                                         *)
(* A tab names a session; the machine knows which sessions live.  Every    *)
(* change goes over HTTP, and what the page does after an answer it does   *)
(* with the tabs as they are then, while other operations run.  A request  *)
(* and its handling are one step, its answer another.                      *)
(*                                                                         *)
(* reconcile takes one list of the sessions here and works from it to the  *)
(* end: settle the exited, judge every tab, reopen the dead, adopt the     *)
(* sessions no tab names.                                                  *)
(***************************************************************************)
EXTENDS Naturals, FiniteSets

CONSTANTS
  TabNames, Sessions,
  PeerTabs,      \* tabs opened on a remote peer
  PeerSessions,  \* sessions that live there
  MaxCalls,      \* bound: operations of the user in flight
  MaxEvents      \* bound: operations, exits, losses and reconciles begun

VARIABLES
  tab,        \* what useWorkbench holds of each tab
  live,       \* tabLiveness
  active,     \* activeTabId
  shell,      \* the machines: what became of each session
  calls,      \* operations waiting for an answer
  rec,        \* the reconcile in progress
  events

tsVars == <<tab, live, active, shell, calls, rec, events>>

NoTab == "noTab"
None == "none"
Closed == [open |-> FALSE, session |-> None, second |-> None, split |-> FALSE]
NotRec == [pc |-> "idle"]
Silent == {[id |-> "?", state |-> "silent"]}   \* the list that could not be read

IsOpen(t) == tab[t].open
Open == {t \in TabNames : tab[t].open}
Local == TabNames \ PeerTabs
Bound == {tab[t].session : t \in Open} \union {tab[t].second : t \in Open}
Home(t) == IF t \in PeerTabs THEN PeerSessions ELSE Sessions \ PeerSessions
Free(t) == {s \in Home(t) : shell[s] = "unborn"}
Running(ss) == {s \in ss : shell[s] = "running"}

(* A document of tabs and the sessions that survived, in any agreement.    *)
TsInit ==
  /\ \E first \in TabNames, s \in Sessions \union {None} :
       /\ s = None \/ s \in Home(first)
       /\ tab = [t \in TabNames |-> IF t = first
                   THEN [Closed EXCEPT !.open = TRUE, !.session = s] ELSE Closed]
       /\ active \in {first, NoTab}
       /\ shell \in [Sessions -> {"unborn", "running", "zero", "crash", "gone"}]
       /\ s # None => shell[s] # "unborn"
  /\ live = [t \in TabNames |-> "live"]
  /\ calls = {} /\ rec = NotRec /\ events = 0

(* Another operation ran into this reconcile.                              *)
Disturb == rec' = IF rec.pc = "idle" THEN rec ELSE [rec EXCEPT !.quiet = FALSE]

Bind(tb, t, s) == IF tb[t].open THEN [tb EXCEPT ![t].session = s] ELSE tb
Unbind(tb, t) == [tb EXCEPT ![t].session = None]
Fresh(s) == [open |-> TRUE, session |-> s, second |-> None, split |-> FALSE]

(* createSessionOn: a session on that machine, or none                     *)
Created(t, sh, s) == s \in Free(t) /\ sh = [shell EXCEPT ![s] = "running"]

(* DELETE, its failure passed over in silence                              *)
Deleted(ss) == [s \in Sessions |-> IF s \in ss THEN "gone" ELSE shell[s]]
Drops(ss) == shell' = Deleted(ss) \/ UNCHANGED shell

(* removeTab: the tab before it in its group, if any, becomes active       *)
Removed(t) ==
  /\ tab' = [tab EXCEPT ![t] = Closed] /\ live' = [live EXCEPT ![t] = "live"]
  /\ IF active = t THEN active' \in (Open \ {t}) \union {NoTab}
     ELSE UNCHANGED active

-----------------------------------------------------------------------------
(* What the user does.                                                     *)
Begins == events < MaxEvents /\ events' = events + 1
Goes == UNCHANGED events
CanCall == Cardinality(calls) < MaxCalls
Call(c) == CanCall /\ calls' = calls \union {c}
Asked(op, t, s) == [op |-> op, tab |-> t, session |-> s]

(* createTabSilent and createRemoteTab, up to their POST                   *)
NewTab(t) ==
  /\ ~IsOpen(t)
  /\ tab' = [tab EXCEPT ![t] = Fresh(None)] /\ active' = t
  /\ \/ \E s \in Sessions : Created(t, shell', s) /\ Call(Asked("create", t, s))
     \/ Call(Asked("create", t, None)) /\ UNCHANGED shell
  /\ UNCHANGED live /\ Disturb /\ Begins

(* ... and after it: the tab gets the session, or goes                     *)
TabCreated(t, s) ==
  /\ Asked("create", t, s) \in calls
  /\ calls' = calls \ {Asked("create", t, s)}
  /\ IF s = None THEN Removed(t)
     ELSE tab' = Bind(tab, t, s) /\ live' = [live EXCEPT ![t] = "live"] /\ UNCHANGED active
  /\ UNCHANGED shell /\ Disturb /\ Goes

(* restoreTab, asked for on the card of a tab without a session            *)
Restore(t) ==
  /\ IsOpen(t) /\ active = t /\ tab[t].session = None
  /\ \/ \E s \in Sessions : Created(t, shell', s) /\ Call(Asked("restore", t, s))
     \/ Call(Asked("restore", t, None)) /\ UNCHANGED shell
  /\ UNCHANGED <<tab, live, active>> /\ Disturb /\ Begins

Restored(t, s) ==
  /\ Asked("restore", t, s) \in calls
  /\ calls' = calls \ {Asked("restore", t, s)}
  /\ IF s = None THEN UNCHANGED <<tab, live>>
     ELSE tab' = Bind(tab, t, s) /\ live' = [live EXCEPT ![t] = "live"]
  /\ UNCHANGED <<active, shell>> /\ Disturb /\ Goes

(* closeTab: both sessions, then the tab                                   *)
CloseTab(t) ==
  /\ IsOpen(t) /\ Call(Asked("close", t, None))
  /\ Drops({tab[t].session, tab[t].second} \ {None})
  /\ UNCHANGED <<tab, live, active>> /\ Disturb /\ Begins

TabClosed(t) ==
  /\ Asked("close", t, None) \in calls
  /\ calls' = calls \ {Asked("close", t, None)}
  /\ Removed(t) /\ UNCHANGED shell /\ Disturb /\ Goes

(* splitTab: the pane first, then its session                              *)
SplitTab(t) ==
  /\ IsOpen(t) /\ ~tab[t].split
  /\ tab' = [tab EXCEPT ![t].split = TRUE]
  /\ \/ \E s \in Sessions : Created(t, shell', s) /\ Call(Asked("split", t, s))
     \/ Call(Asked("split", t, None)) /\ UNCHANGED shell
  /\ UNCHANGED <<live, active>> /\ Disturb /\ Begins

SplitMade(t, s) ==
  /\ Asked("split", t, s) \in calls
  /\ calls' = calls \ {Asked("split", t, s)}
  /\ tab' = IF IsOpen(t) THEN [tab EXCEPT ![t].split = s # None, ![t].second = s] ELSE tab
  /\ UNCHANGED <<live, active, shell>> /\ Disturb /\ Goes

(* unsplitTab: the pane goes at once, its session is asked to              *)
Unsplit(t) ==
  /\ IsOpen(t) /\ tab[t].split
  /\ tab' = [tab EXCEPT ![t].split = FALSE, ![t].second = None]
  /\ Drops({tab[t].second} \ {None})
UnsplitTab(t) == Unsplit(t) /\ UNCHANGED <<live, active, calls>> /\ Disturb /\ Begins

SwitchTab(t) ==
  /\ IsOpen(t) /\ active # t /\ active' = t
  /\ UNCHANGED <<tab, live, shell, calls>> /\ Disturb /\ Begins

(* settleExitedTab: an exit of 0 closes the tab; any other leaves it, and  *)
(* the card                                                                *)
SettleAsks(t, code) ==
  /\ Drops((IF code = "zero" THEN {tab[t].session, tab[t].second} ELSE {tab[t].session}) \ {None})
  /\ live' = IF code = "zero" THEN live ELSE [live EXCEPT ![t] = "detached"]

SettleEnds(t, code) ==
  IF code = "zero" THEN Removed(t)
  ELSE tab' = Unbind(tab, t) /\ UNCHANGED <<live, active>>

(* With the last tab gone a new one is made, as NewTab does.               *)
WasLast(t, code) == code = "zero" /\ Open = {t}
Refill(t, s) ==
  /\ ~IsOpen(t) /\ t \in Local
  /\ tab' = [tab EXCEPT ![t] = Fresh(None)] /\ active' = t /\ UNCHANGED live
  /\ (s = None /\ UNCHANGED shell) \/ (s # None /\ Created(t, shell', s))

(* A shell ends; a page that is connected to it is told (onTabSessionExit) *)
ShellExits(s, code) ==
  /\ shell[s] = "running" /\ shell' = [shell EXCEPT ![s] = code]
  /\ UNCHANGED <<tab, live, active, calls>> /\ Disturb /\ Begins

ExitSeen(t) ==
  /\ IsOpen(t) /\ tab[t].session # None
  /\ LET code == shell[tab[t].session]
     IN /\ code \in {"zero", "crash"}
        /\ SettleAsks(t, code) /\ Call([op |-> "settle", tab |-> t, code |-> code])
  /\ UNCHANGED <<tab, active>> /\ Disturb /\ Begins

ExitSettled(c) ==
  /\ c \in calls /\ c.op = "settle"
  /\ calls' = (calls \ {c}) \union
       (IF WasLast(c.tab, c.code) THEN {[op |-> "refill"]} ELSE {})
  /\ SettleEnds(c.tab, c.code) /\ UNCHANGED shell /\ Disturb /\ Goes

LastSettled(t, s) ==
  /\ [op |-> "refill"] \in calls /\ Refill(t, s)
  /\ calls' = (calls \ {[op |-> "refill"]}) \union {Asked("create", t, s)}
  /\ Disturb /\ Goes

(* The machine restarts or another device deletes: the session is gone.    *)
ShellLost(s) ==
  /\ shell[s] # "unborn" /\ shell[s] # "gone" /\ shell' = [shell EXCEPT ![s] = "gone"]
  /\ UNCHANGED <<tab, live, active, calls>> /\ Disturb /\ Begins

-----------------------------------------------------------------------------
(* reconcileSessions, from mounting, the page coming back, or a recheck.   *)
Here == Sessions \ PeerSessions
Known == {[id |-> s, state |-> shell[s]] : s \in {x \in Here : shell[x] \notin {"unborn", "gone"}}}
ListedAs(list, states) == IF list = Silent THEN {} ELSE {r.id : r \in {x \in list : x.state \in states}}

(* fetchLocalSessions                                                      *)
ReconcileAsks ==
  /\ rec = NotRec /\ Begins
  /\ \E list \in {Known, Silent} :
       rec' = [pc |-> "settle", list |-> list, settled |-> {}, quiet |-> calls = {}, refilled |-> FALSE, held |-> [t \in TabNames |-> tab[t].session],
               at |-> NoTab, session |-> None, peers |-> {}, todo |-> {}]
  /\ UNCHANGED <<tab, live, active, shell, calls>>

Exited(t) == tab[t].session \in ListedAs(rec.list, {"zero", "crash"})
CodeOf(s) == (CHOOSE r \in rec.list : r.id = s).state

(* Those that exited while nobody looked, one DELETE after another         *)
SettleNext(t) ==
  /\ rec.pc = "settle" /\ t \in Local /\ IsOpen(t) /\ t \notin rec.settled /\ Exited(t)
  /\ SettleAsks(t, CodeOf(tab[t].session))
  /\ rec' = [rec EXCEPT !.pc = "settling", !.at = t, !.session = tab[t].session,
                        !.settled = @ \union {t}]
  /\ UNCHANGED <<tab, active, calls>>

SettleDone ==
  /\ rec.pc = "settling" /\ SettleEnds(rec.at, CodeOf(rec.session))
  /\ rec' = [rec EXCEPT !.pc = IF WasLast(rec.at, CodeOf(rec.session)) THEN "refill" ELSE "settle"]
  /\ UNCHANGED <<shell, calls>>

RefillNext(t, s) ==
  /\ rec.pc = "refill" /\ t # rec.at /\ Refill(t, s)
  /\ rec' = [rec EXCEPT !.pc = "refilling", !.at = t, !.session = s, !.refilled = TRUE]
  /\ UNCHANGED calls

RefillDone ==
  /\ rec.pc = "refilling" /\ rec' = [rec EXCEPT !.pc = "settle"]
  /\ IF rec.session = None THEN Removed(rec.at)
     ELSE tab' = Bind(tab, rec.at, rec.session) /\ UNCHANGED <<live, active>>
  /\ UNCHANGED <<shell, calls>>

(* A second pane whose shell exited folds away.                            *)
SplitGone(t) == tab[t].second \in ListedAs(rec.list, {"zero", "crash"})
UnsplitNext(t) ==
  /\ rec.pc = "settle" /\ t \in Local /\ IsOpen(t) /\ SplitGone(t)
  /\ \A u \in Open \intersect Local : u \in rec.settled \/ ~Exited(u)
  /\ Unsplit(t) /\ UNCHANGED <<live, active, calls, rec>>

(* Mutant of TabLivenessFrom: no answer is an empty list.                  *)
TabLivenessEmpty(s, list) ==
  IF s \in ListedAs(list, {"running"}) THEN "live" ELSE "detached"

TabLivenessFrom(s, list) ==
  IF list = Silent THEN "unreachable"
  ELSE IF s \in ListedAs(list, {"running"}) THEN "live" ELSE "detached"

(* reconcileTabs on the tabs ts, each with the session it had              *)
Apply(ts, had, list) ==
  /\ live' = [t \in TabNames |-> IF t \in ts THEN TabLivenessFrom(had[t].session, list) ELSE live[t]]
  /\ tab' = [t \in TabNames |->
       IF t \in ts /\ live'[t] = "detached" /\ had[t].session # None
       THEN Unbind(tab, t)[t] ELSE tab[t]]

JudgeLocal ==
  /\ rec.pc = "settle"
  /\ \A t \in Open \intersect Local : (Exited(t) => t \in rec.settled) /\ ~SplitGone(t)
  /\ Apply(Open \intersect Local, tab, rec.list)
  /\ rec' = [rec EXCEPT !.pc = "peers", !.peers = [t \in Open \intersect PeerTabs |-> tab[t]]]
  /\ UNCHANGED <<active, shell, calls>>

PeerList == {[id |-> s, state |-> "running"] :
               s \in {x \in PeerSessions : shell[x] \notin {"unborn", "gone"}}}

(* The peer's answer, on the tabs as they were; then the tabs to reopen    *)
JudgePeers ==
  /\ rec.pc = "peers"
  /\ \E list \in {PeerList, Silent} : Apply(DOMAIN rec.peers, rec.peers, list)
  /\ rec' = [rec EXCEPT !.pc = "reopen",
       !.todo = {t \in Local : tab'[t].open /\ t \notin rec.settled /\ live'[t] = "detached"}]
  /\ UNCHANGED <<active, shell, calls>>

(* reopenDetachedTabs: a new shell for each                                *)
ReopenNext(t) ==
  /\ rec.pc = "reopen" /\ t \in rec.todo
  /\ \/ \E s \in Sessions : Created(t, shell', s)
          /\ rec' = [rec EXCEPT !.pc = "reopening", !.at = t, !.session = s, !.todo = @ \ {t}]
     \/ rec' = [rec EXCEPT !.todo = @ \ {t}] /\ UNCHANGED shell
  /\ UNCHANGED <<tab, live, active, calls>>

ReopenDone ==
  /\ rec.pc = "reopening"
  /\ tab' = Bind(tab, rec.at, rec.session) /\ live' = [live EXCEPT ![rec.at] = "live"]
  /\ rec' = [rec EXCEPT !.pc = "reopen"] /\ UNCHANGED <<active, shell, calls>>

(* adoptOrphanSessions: a tab for every listed session that no tab names.  *)
(* Bound by the tabs left: every way to give each orphan its own.          *)
Orphans == ListedAs(rec.list, {"running"}) \ Bound
AdoptOrphans ==
  /\ rec.pc = "reopen" /\ rec.todo = {}
  /\ \E new \in [Orphans -> Local \ Open] :
       /\ \A r, s \in Orphans : new[r] = new[s] => r = s
       /\ tab' = [t \in TabNames |-> IF \E s \in Orphans : new[s] = t
                    THEN Fresh(CHOOSE s \in Orphans : new[s] = t) ELSE tab[t]]
  /\ live' = [t \in TabNames |-> IF tab'[t].open /\ ~tab[t].open THEN "live" ELSE live[t]]
  /\ rec' = [rec EXCEPT !.pc = "active"] /\ UNCHANGED <<active, shell, calls>>

(* ensureActiveTab                                                         *)
EnsureActive ==
  /\ rec.pc = "active"
  /\ active' \in (IF active \in Open \/ Open = {} THEN {active} ELSE Open)
  /\ rec' = [rec EXCEPT !.pc = "done"] /\ UNCHANGED <<tab, live, shell, calls>>

ReconcileEnds ==
  /\ rec.pc = "done" /\ rec' = NotRec /\ UNCHANGED <<tab, live, active, shell, calls>>

User ==
  \/ \E t \in TabNames : \/ NewTab(t) \/ Restore(t) \/ CloseTab(t) \/ TabClosed(t) \/ SplitTab(t)
                       \/ UnsplitTab(t) \/ SwitchTab(t) \/ ExitSeen(t)
  \/ \E t \in TabNames, s \in Sessions \union {None} :
       TabCreated(t, s) \/ Restored(t, s) \/ SplitMade(t, s) \/ LastSettled(t, s)
  \/ \E c \in calls : ExitSettled(c)
Machine == \E s \in Sessions : ShellLost(s) \/ \E code \in {"zero", "crash"} : ShellExits(s, code)
Reconciling ==
  \/ SettleDone \/ RefillDone \/ JudgeLocal \/ JudgePeers \/ ReopenDone
  \/ AdoptOrphans \/ EnsureActive \/ ReconcileEnds
  \/ \E t \in TabNames : SettleNext(t) \/ UnsplitNext(t) \/ ReopenNext(t)
  \/ \E t \in TabNames, s \in Sessions \union {None} : RefillNext(t, s)
TsNext == User \/ Machine \/ ReconcileAsks \/ (Reconciling /\ Goes)
TsSpec == TsInit /\ [][TsNext]_tsVars

-----------------------------------------------------------------------------
(* A reconcile that nothing ran into, and that made no tab in place of the *)
(* last one, leaves tabs and sessions in agreement: every shell that runs  *)
(* here has a tab, every session a tab here names was running when the     *)
(* list was read or was made since, and a tab is shown.  One that got no   *)
(* answer takes no session from a tab.                                     *)
QuietReconcileRepairs ==
  rec.pc = "done" /\ rec.quiet =>
    IF rec.list = Silent
    THEN \A t \in Local : rec.held[t] \in {tab[t].session, None}
    ELSE /\ Running(Here) \subseteq Bound \/ rec.refilled
         /\ \A t \in Open \intersect Local :
              tab[t].session \in ListedAs(rec.list, {"running"}) \union Running(Here) \union {None}
         /\ Open # {} => active \in Open

=============================================================================
