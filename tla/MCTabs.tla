------------------------------- MODULE MCTabs -------------------------------
(***************************************************************************)
(* The tabs of the browser: the list that browsers share (Workbench) and   *)
(* the sessions its tabs name (TabSessions).  A behaviour is one of the    *)
(* part that `focus` names, the other stays as it began.                   *)
(***************************************************************************)
EXTENDS Workbench, TLC

CONSTANTS TabNames, Sessions, PeerTabs, PeerSessions, MaxCalls, MaxEvents
VARIABLES focus, tab, live, active, shell, calls, rec, events

sessionVars == <<tab, live, active, shell, calls, rec, events>>
TS == INSTANCE TabSessions

ASSUME TabsAssumption == TS!None \notin Sessions

BrowserSymmetry == Permutations(Browsers)

\* What a part out of focus begins with says nothing.
TabsInit ==
  /\ focus \in {"list", "sessions"}
  /\ WbInit /\ TS!TsInit
  /\ focus # "sessions" =>
       /\ active = TS!NoTab /\ shell = [s \in Sessions |-> "unborn"]
       /\ tab[CHOOSE t \in TabNames : TRUE].open

TabsNext ==
  /\ UNCHANGED focus
  /\ \/ focus = "list" /\ WbNext /\ UNCHANGED sessionVars
     \/ focus = "sessions" /\ TS!TsNext /\ UNCHANGED wbVars

TabsSpec == TabsInit /\ [][TabsNext]_<<focus, wbVars, sessionVars>>

\* A tab leaves the stored list, or a browser's, only if somebody closed it:
\* no writer's stale read and no merge loses one (settings.go, workbenchMerge.ts).
TabsAreKept == OnlyClosedTabsGo /\ OpenTabsStay

\* A reconcile that nothing ran into leaves tabs and sessions in agreement
\* (reconcileTabs.ts).
QuietReconcileRepairs == TS!QuietReconcileRepairs
=============================================================================
