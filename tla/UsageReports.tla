---------------------------- MODULE UsageReports ----------------------------
(***************************************************************************)
(* The usage chip (UsageChip.vue): one loader of reports for each window   *)
(* of time (createUsageReportLoader), which follows a cold calculation     *)
(* with a bounded number of further requests, and the one request at a     *)
(* time for what the agents did (refreshAggregate).                        *)
(*                                                                         *)
(* An answer is what its reader tells apart: a report that is good, stale  *)
(* or still calculated anew (warm), none yet because it is calculated      *)
(* (cold), none at all, or a failure.                                      *)
(***************************************************************************)
EXTENDS Naturals, FiniteSets

CONSTANTS
  Spans,      \* the windows of time
  MaxTries    \* retryDelays.length

VARIABLES
  chip,       \* open, visible, mounted, tab, activeWindow
  loader,     \* per window: report, loading, calculating, error
  runs,       \* the calls of run that have not returned; own: of the present generation
  busy,       \* aggregateRefreshBusy
  agentAsk    \* the windows whose agent request is under way

usageVars == <<chip, loader, runs, busy, agentAsk>>

Answers == {"good", "stale", "warm", "cold", "none", "bad"}
Available(a) == a \in {"good", "stale", "warm"}
Kept(a) == IF Available(a) THEN "usable" ELSE "unusable"
Idle == [report |-> "null", loading |-> FALSE, calculating |-> FALSE, error |-> FALSE]

-----------------------------------------------------------------------------
(* cancel: whoever waits goes home; an aborted request is told later and   *)
(* belongs to a generation that is over                                    *)
Cancelled(l) == [l EXCEPT !.loading = FALSE, !.calculating = FALSE]
FirstRun(w) == [w |-> w, own |-> TRUE, pc |-> "asked", try |-> 0, rechecked |-> FALSE]
Disowned(ws) == {IF r.w \in ws THEN [FirstRun(r.w) EXCEPT !.own = FALSE] ELSE r :
                   r \in {q \in runs : q.w \notin ws \/ q.pc = "asked"}}
CancelAll(ws) ==
  /\ loader' = [w \in Spans |-> IF w \in ws THEN Cancelled(loader[w]) ELSE loader[w]]
  /\ runs' = Disowned(ws)

(* load(w), after the loaders in `first` have been cancelled               *)
Load(w, first) ==
  IF loader[w].loading /\ w \notin first THEN CancelAll(first)
  ELSE /\ loader' = [v \in Spans |->
            IF v = w THEN [Cancelled(loader[v]) EXCEPT !.loading = TRUE, !.error = FALSE]
            ELSE IF v \in first THEN Cancelled(loader[v]) ELSE loader[v]]
       /\ runs' = Disowned(first \union {w}) \union {FirstRun(w)}
NoLoad == UNCHANGED <<loader, runs>>

(* refreshAggregate: one request at a time, others are passed over         *)
Aggregate(w) ==
  IF busy THEN UNCHANGED <<busy, agentAsk>>
  ELSE busy' = TRUE /\ agentAsk' = agentAsk \union {w}
NoAggregate == UNCHANGED <<busy, agentAsk>>

UsageInit ==
  /\ \E w \in Spans, v \in BOOLEAN :
       /\ chip = [open |-> FALSE, visible |-> v, mounted |-> TRUE, tab |-> "usage", window |-> w]
       /\ loader = [u \in Spans |-> IF u = w THEN [Idle EXCEPT !.loading = TRUE] ELSE Idle]
       /\ runs = {FirstRun(w)}
       /\ agentAsk = {w}
  /\ busy = TRUE

-----------------------------------------------------------------------------
(* A request of the loader is answered, is aborted or runs into its time.  *)
(* mutant: an aborted request is taken for an answer                       *)
CurrentAlways(r) == TRUE
Current(r) == r.own

Returns(r, l) == runs' = runs \ {r} /\ loader' = [loader EXCEPT ![r.w] = l]
Answered(r, a) ==
  /\ r \in runs /\ r.pc = "asked"
  /\ LET l == loader[r.w]
         calc == a \in {"warm", "cold"}
         recheck == a = "stale" /\ ~r.rechecked
         took == [l EXCEPT !.calculating = calc,
                           !.report = IF Available(a) \/ @ # "usable" \/ ~calc THEN Kept(a) ELSE @]
     IN IF ~Current(r) THEN Returns(r, l)
        ELSE IF a = "bad" THEN Returns(r, [l EXCEPT !.error = TRUE, !.calculating = FALSE, !.loading = FALSE])
        ELSE IF (~calc /\ ~recheck) \/ r.try >= MaxTries THEN Returns(r, [took EXCEPT !.loading = FALSE])
        ELSE /\ loader' = [loader EXCEPT ![r.w] = took]
             /\ runs' = (runs \ {r}) \union {[r EXCEPT !.pc = "waiting", !.rechecked = @ \/ recheck]}
  /\ UNCHANGED <<chip, busy, agentAsk>>

(* wait is over: once more, or the 45 s are                                *)
WaitOver(r) ==
  /\ r \in runs /\ r.pc = "waiting"
  /\ \/ /\ runs' = (runs \ {r}) \union {[r EXCEPT !.pc = "asked", !.try = @ + 1]}
        /\ UNCHANGED loader
     \/ Returns(r, [loader[r.w] EXCEPT !.loading = FALSE])
  /\ UNCHANGED <<chip, busy, agentAsk>>

AgentAnswered(w) ==
  /\ w \in agentAsk /\ agentAsk' = agentAsk \ {w} /\ busy' = FALSE
  /\ UNCHANGED <<chip, loader, runs>>

-----------------------------------------------------------------------------
Attended == chip.mounted /\ chip.visible
(* toggle and its watcher; reload                                          *)
Toggle ==
  /\ Attended
  /\ chip' = [chip EXCEPT !.open = ~@]
  /\ IF chip.open THEN CancelAll(Spans) /\ NoAggregate
     ELSE Load(chip.window, {}) /\ Aggregate(chip.window)

PickTab(t) ==
  /\ Attended /\ chip.open /\ chip' = [chip EXCEPT !.tab = t]
  /\ IF t = "agent" THEN CancelAll(Spans) /\ Aggregate(chip.window)
     ELSE Load(chip.window, {}) /\ NoAggregate

(* watch(activeWindow)                                                     *)
PickWindow(w) ==
  /\ Attended /\ chip.open /\ w # chip.window /\ chip' = [chip EXCEPT !.window = w]
  /\ IF chip.tab = "agent" THEN CancelAll({chip.window}) /\ Aggregate(w)
     ELSE Load(w, {chip.window}) /\ NoAggregate

(* refresh, and the buttons that try again                                 *)
Refresh ==
  /\ Attended /\ chip.open /\ chip.tab = "usage"
  /\ Load(chip.window, {}) /\ UNCHANGED <<chip, busy, agentAsk>>

(* visibilitychange, and focus of the window                               *)
Hides ==
  /\ chip.mounted /\ chip.visible /\ chip' = [chip EXCEPT !.visible = FALSE]
  /\ CancelAll(Spans) /\ UNCHANGED <<busy, agentAsk>>
OnVisible ==
  /\ chip.mounted /\ chip' = [chip EXCEPT !.visible = TRUE]
  /\ IF chip.open THEN Load(chip.window, {}) ELSE NoLoad
  /\ Aggregate(chip.window)
AggregateTick ==
  /\ Attended /\ ~busy /\ Aggregate(chip.window) /\ NoLoad /\ UNCHANGED chip

Unmounts ==
  /\ chip.mounted /\ chip' = [chip EXCEPT !.mounted = FALSE]
  /\ CancelAll(Spans) /\ UNCHANGED <<busy, agentAsk>>

UsageNext ==
  \/ \E r \in runs : WaitOver(r) \/ \E a \in Answers : Answered(r, a)
  \/ \E w \in Spans : PickWindow(w) \/ AgentAnswered(w)
  \/ PickTab("usage") \/ PickTab("agent")
  \/ Toggle \/ Refresh \/ Hides \/ OnVisible \/ AggregateTick \/ Unmounts

-----------------------------------------------------------------------------
(* The chip never waits for nobody: a loader says that it loads exactly    *)
(* while one run of its own is under way, however loads are cancelled,     *)
(* begun again and answered late; what the user looks at is loading, has   *)
(* an answer or says that there is none; the flag that keeps agent         *)
(* requests apart goes with its request; and nothing loads for a chip that *)
(* is gone.                                                                *)
UsageIsAwaited ==
  /\ \A w \in Spans :
       LET own == {r \in runs : r.w = w /\ r.own}
       IN Cardinality(own) = (IF loader[w].loading THEN 1 ELSE 0)
  /\ \A r \in runs : r.pc = "waiting" => r.own
  /\ Attended /\ chip.open /\ chip.tab = "usage" =>
       LET l == loader[chip.window] IN l.loading \/ l.error \/ l.report # "null"
  /\ Cardinality(agentAsk) = (IF busy THEN 1 ELSE 0)
  /\ ~chip.mounted => \A w \in Spans : ~loader[w].loading
=============================================================================
