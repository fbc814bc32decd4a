----------------------------- MODULE PageProofs ------------------------------
(***************************************************************************)
(* Proofs about parts of the page: for any spans of the usage chip, any    *)
(* windows that an agent may run in, any history of clipboard entries and  *)
(* any number of lines of a terminal's history.                            *)
(***************************************************************************)
EXTENDS MCPage, Integers, FiniteSetTheorems, TLAPS

-----------------------------------------------------------------------------
(***************************************************************************)
(* The loaders of the usage chip.                                          *)
(*                                                                         *)
(* How many runs of its own a loader has is said pointwise: no two of      *)
(* them, one exactly while it loads.  A run that waits is of the present   *)
(* generation and has had an answer, so that its loader has a report when  *)
(* the wait ends without another.                                          *)
(***************************************************************************)
Loader == [report : {"null", "usable", "unusable"}, loading : BOOLEAN,
           calculating : BOOLEAN, error : BOOLEAN]
Run == [w : Spans, own : BOOLEAN, pc : {"asked", "waiting"}, try : Nat, rechecked : BOOLEAN]

(* One run of its own for each loader that loads, none for the others      *)
Awaited(ls, rs) ==
  /\ \A r, s \in rs : (r.own /\ s.own /\ r.w = s.w) => r = s
  /\ \A r \in rs : r.own => ls[r.w].loading
  /\ \A w \in Spans : ls[w].loading => \E r \in rs : r.w = w /\ r.own
(* Whoever waits had an answer                                             *)
WaitsAnswered(ls, rs) ==
  \A r \in rs : r.pc = "waiting" => r.own /\ ls[r.w].report # "null"
LoadersInv(ls, rs) ==
  /\ ls \in [Spans -> Loader] /\ rs \subseteq Run
  /\ Awaited(ls, rs) /\ WaitsAnswered(ls, rs)

ChipTypeOK == chip \in [open : BOOLEAN, visible : BOOLEAN, mounted : BOOLEAN,
                        tab : {"usage", "agent"}, window : Spans]
LoadersRight ==
  LoadersInv(loader, runs)
(* What the user looks at                                                  *)
LookedAt ==
  (UR!Attended /\ chip.open /\ chip.tab = "usage") =>
    (loader[chip.window].loading \/ loader[chip.window].error
       \/ loader[chip.window].report # "null")
AgentAsked == (busy => \E w \in Spans : agentAsk = {w}) /\ (~busy => agentAsk = {})
NothingForNobody == ~chip.mounted => \A w \in Spans : ~loader[w].loading
UsageInv ==
  ChipTypeOK /\ LoadersRight /\ LookedAt /\ AgentAsked /\ NothingForNobody

-----------------------------------------------------------------------------
(* Cancelled loaders wait for nobody and keep what they reported.          *)
LEMMA DisownedRuns ==
  ASSUME NEW freed \in SUBSET Spans, runs \subseteq Run
  PROVE  /\ UR!Disowned(freed) \subseteq Run
         /\ \A r \in UR!Disowned(freed) :
              \/ r \in runs /\ r.w \notin freed
              \/ r.w \in freed /\ ~r.own /\ r.pc = "asked"
         /\ \A r \in runs : r.w \notin freed => r \in UR!Disowned(freed)
<1>1. ASSUME NEW q \in runs, q.w \in freed
      PROVE  LET d == [UR!FirstRun(q.w) EXCEPT !.own = FALSE]
             IN d \in Run /\ d.w \in freed /\ ~d.own /\ d.pc = "asked"
  BY <1>1 DEF UR!FirstRun, Run
<1> QED BY <1>1 DEF UR!Disowned

LEMMA CancelKeeps ==
  ASSUME LoadersRight, NEW freed \in SUBSET Spans, UR!CancelAll(freed)
  PROVE  /\ LoadersRight'
         /\ \A w \in Spans : /\ loader'[w].report = loader[w].report
                             /\ loader'[w].error = loader[w].error
                             /\ w \notin freed => loader'[w] = loader[w]
                             /\ w \in freed => ~loader'[w].loading
<1> USE DEF LoadersRight, LoadersInv
<1>1. /\ loader' \in [Spans -> Loader]
      /\ \A w \in Spans : /\ loader'[w].report = loader[w].report
                          /\ loader'[w].error = loader[w].error
                          /\ w \notin freed => loader'[w] = loader[w]
                          /\ w \in freed => ~loader'[w].loading
  BY DEF UR!CancelAll, UR!Cancelled, Loader
<1>2. /\ runs' \subseteq Run
      /\ \A r \in runs' : \/ r \in runs /\ r.w \notin freed
                          \/ r.w \in freed /\ ~r.own /\ r.pc = "asked"
      /\ \A r \in runs : r.w \notin freed => r \in runs'
  BY DisownedRuns DEF UR!CancelAll
<1>3. \A r \in runs \union runs' : r.w \in Spans
  BY <1>2 DEF Run
<1>4. Awaited(loader', runs')
  BY <1>1, <1>2, <1>3 DEF Awaited
<1>5. WaitsAnswered(loader', runs')
  BY <1>1, <1>2, <1>3 DEF WaitsAnswered
<1> QED BY <1>1, <1>2, <1>4, <1>5

(* A load begun anew, or going on, is awaited.                             *)
LEMMA LoadKeeps ==
  ASSUME LoadersRight, NEW w \in Spans, NEW first \in SUBSET Spans, UR!Load(w, first)
  PROVE  LoadersRight' /\ loader'[w].loading
<1>1. CASE loader[w].loading /\ w \notin first
  BY <1>1, CancelKeeps DEF UR!Load
<1>2. CASE ~(loader[w].loading /\ w \notin first)
  <2> DEFINE freed == first \union {w}
             new == UR!FirstRun(w)
  <2> USE DEF LoadersRight, LoadersInv
  <2> DEFINE to(v) == IF v = w THEN [UR!Cancelled(loader[v]) EXCEPT !.loading = TRUE,
                                                                    !.error = FALSE]
                      ELSE IF v \in first THEN UR!Cancelled(loader[v]) ELSE loader[v]
  <2>a. loader' = [v \in Spans |-> to(v)]
    BY <1>2 DEF UR!Load
  <2>b. ASSUME NEW v \in Spans
        PROVE  /\ to(v) \in Loader
               /\ to(v).report = loader[v].report
               /\ v \notin freed => to(v) = loader[v]
               /\ (v \in freed /\ v # w) => ~to(v).loading
               /\ v = w => to(v).loading
    BY DEF UR!Cancelled, Loader
  <2> HIDE DEF to
  <2>1. /\ loader' \in [Spans -> Loader]
        /\ \A v \in Spans : /\ loader'[v].report = loader[v].report
                            /\ v \notin freed => loader'[v] = loader[v]
                            /\ (v \in freed /\ v # w) => ~loader'[v].loading
                            /\ v = w => loader'[v].loading
    BY <2>a, <2>b
  <2>2. new \in Run /\ new.w = w /\ new.own /\ new.pc = "asked"
    BY DEF UR!FirstRun, Run
  <2>3. /\ runs' \subseteq Run /\ new \in runs'
        /\ \A r \in runs' : \/ r \in runs /\ r.w \notin freed
                            \/ r.w \in freed /\ ~r.own /\ r.pc = "asked"
                            \/ r = new
        /\ \A r \in runs : r.w \notin freed => r \in runs'
    <3>1. runs' = UR!Disowned(freed) \union {new}
      BY <1>2 DEF UR!Load
    <3>2. freed \in SUBSET Spans /\ runs \subseteq Run
      OBVIOUS
    <3> HIDE DEF freed, new
    <3> QED BY <2>2, <3>1, <3>2, DisownedRuns
  <2>4. \A r \in runs \union runs' : r.w \in Spans
    BY <2>3 DEF Run
  <2> HIDE DEF new
  <2>5. Awaited(loader', runs')
    BY <2>1, <2>2, <2>3, <2>4 DEF Awaited
  <2>6. WaitsAnswered(loader', runs')
    BY <2>1, <2>2, <2>3, <2>4 DEF WaitsAnswered
  <2> QED BY <2>1, <2>3, <2>5, <2>6
<1> QED BY <1>1, <1>2

LEMMA AggregateKeeps ==
  ASSUME AgentAsked, NEW w \in Spans, UR!Aggregate(w)
  PROVE  AgentAsked'
BY DEF AgentAsked, UR!Aggregate

-----------------------------------------------------------------------------
(* One run r goes on as q, or returns; its loader becomes l.               *)
LEMMA RunReturns ==
  ASSUME LoadersRight, NEW r \in runs, NEW l \in Loader, UR!Returns(r, l),
         r.own => ~l.loading, ~r.own => l = loader[r.w]
  PROVE  LoadersRight'
<1> USE DEF LoadersRight, LoadersInv
<1>1. r.w \in Spans /\ r \in Run /\ \A q \in runs : q.w \in Spans
  BY DEF Run
<1>2. /\ loader' \in [Spans -> Loader] /\ runs' = runs \ {r} /\ runs' \subseteq Run
      /\ \A v \in Spans : loader'[v] = IF v = r.w THEN l ELSE loader[v]
  BY <1>1 DEF UR!Returns
<1>3. CASE r.own
  <2>1. \A q \in runs' : q.own => q.w # r.w
    BY <1>2, <1>3 DEF Awaited
  <2>2. Awaited(loader', runs')
    BY <1>1, <1>2, <1>3, <2>1 DEF Awaited
  <2>3. WaitsAnswered(loader', runs')
    BY <1>1, <1>2, <2>1 DEF WaitsAnswered
  <2> QED BY <1>2, <2>2, <2>3
<1>4. CASE ~r.own
  <2>1. \A v \in Spans : loader'[v] = loader[v]
    BY <1>2, <1>4
  <2>2. Awaited(loader', runs')
    BY <1>1, <1>2, <1>4, <2>1 DEF Awaited
  <2>3. WaitsAnswered(loader', runs')
    BY <1>1, <1>2, <2>1 DEF WaitsAnswered
  <2> QED BY <1>2, <2>2, <2>3
<1> QED BY <1>3, <1>4

LEMMA RunGoesOn ==
  ASSUME LoadersRight, NEW r \in runs, NEW l \in Loader, NEW q \in Run,
         loader' = [loader EXCEPT ![r.w] = l], runs' = (runs \ {r}) \union {q},
         r.own, q.own, q.w = r.w, l.loading = loader[r.w].loading, l.report # "null"
  PROVE  LoadersRight'
<1> USE DEF LoadersRight, LoadersInv
<1>1. r.w \in Spans /\ r \in Run /\ \A p \in runs : p.w \in Spans
  BY DEF Run
<1>2. /\ loader' \in [Spans -> Loader] /\ runs' \subseteq Run
      /\ \A v \in Spans : loader'[v] = IF v = r.w THEN l ELSE loader[v]
  BY <1>1
<1>3. \A p \in runs \ {r} : p.own => p.w # r.w
  BY DEF Awaited
<1>4. Awaited(loader', runs')
  BY <1>1, <1>2, <1>3 DEF Awaited
<1>5. WaitsAnswered(loader', runs')
  BY <1>1, <1>2, <1>3 DEF WaitsAnswered
<1> QED BY <1>2, <1>4, <1>5

(* What an answer leaves of its loader                                     *)
LEMMA AnsweredKeeps ==
  ASSUME UsageInv, NEW r \in runs, NEW a \in UR!Answers, UR!Answered(r, a)
  PROVE  UsageInv'
<1> DEFINE l == loader[r.w]
           calc == a \in {"warm", "cold"}
           recheck == a = "stale" /\ ~r.rechecked
           took == [l EXCEPT !.calculating = calc,
                             !.report = IF UR!Available(a) \/ @ # "usable" \/ ~calc
                                        THEN UR!Kept(a) ELSE @]
           failed == [l EXCEPT !.error = TRUE, !.calculating = FALSE, !.loading = FALSE]
           over == [took EXCEPT !.loading = FALSE]
           next == [r EXCEPT !.pc = "waiting", !.rechecked = @ \/ recheck]
<1>1. /\ r \in Run /\ r.w \in Spans /\ l \in Loader /\ loader \in [Spans -> Loader]
      /\ LoadersRight
  BY DEF UsageInv, LoadersRight, LoadersInv, Run
<1>2. UR!Kept(a) \in {"usable", "unusable"}
  BY DEF UR!Kept
<1>3. failed \in Loader /\ failed.error /\ ~failed.loading
  BY <1>1 DEF Loader
<1>4. took \in Loader /\ took.report # "null" /\ took.loading = l.loading
  <2>1. ASSUME NEW x \in {"usable", "unusable"}, NEW b \in BOOLEAN
        PROVE  LET t == [l EXCEPT !.calculating = b, !.report = x]
               IN t \in Loader /\ t.report # "null" /\ t.loading = l.loading
    BY <1>1 DEF Loader
  <2>2. \E x \in {"usable", "unusable"} : took = [l EXCEPT !.calculating = calc, !.report = x]
    <3> DEFINE x == IF UR!Available(a) \/ l.report # "usable" \/ ~calc THEN UR!Kept(a)
                    ELSE l.report
    <3>1. x \in {"usable", "unusable"}
      BY <1>2
    <3> QED BY <3>1, <1>1 DEF Loader
  <2>3. calc \in BOOLEAN
    OBVIOUS
  <2> HIDE DEF took, calc
  <2> QED BY <2>1, <2>2, <2>3
<1>5. over \in Loader /\ over.report # "null" /\ ~over.loading
  BY <1>4 DEF Loader
<1>6. next \in Run /\ next.w = r.w /\ next.own = r.own
  BY <1>1 DEF Run
<1>7. \/ ~r.own /\ UR!Returns(r, l)
      \/ r.own /\ UR!Returns(r, failed)
      \/ r.own /\ UR!Returns(r, over)
      \/ r.own /\ loader' = [loader EXCEPT ![r.w] = took] /\ runs' = (runs \ {r}) \union {next}
  BY DEF UR!Answered, UR!Current
<1>8. UNCHANGED <<chip, busy, agentAsk>>
  BY DEF UR!Answered
<1> HIDE DEF l, calc, recheck, took, failed, over, next
<1>9. LoadersRight'
  <2>1. CASE ~r.own /\ UR!Returns(r, l)
    BY <2>1, <1>1, RunReturns DEF l
  <2>2. CASE r.own /\ UR!Returns(r, failed)
    BY <2>2, <1>1, <1>3, RunReturns
  <2>3. CASE r.own /\ UR!Returns(r, over)
    BY <2>3, <1>1, <1>5, RunReturns
  <2>4. CASE r.own /\ loader' = [loader EXCEPT ![r.w] = took] /\ runs' = (runs \ {r}) \union {next}
    BY <2>4, <1>1, <1>4, <1>6, RunGoesOn DEF l
  <2> QED BY <1>7, <2>1, <2>2, <2>3, <2>4
<1>10. \A v \in Spans :
         \/ loader'[v] = loader[v]
         \/ /\ r.own /\ loader[v].loading
            /\ loader'[v].loading \/ loader'[v].error \/ loader'[v].report # "null"
  <2>1. r.own => loader[r.w].loading
    BY <1>1 DEF LoadersRight, LoadersInv, Awaited
  <2>2. \E x \in {l, failed, over, took} :
          /\ loader' = [loader EXCEPT ![r.w] = x]
          /\ x = l \/ (r.own /\ (x.error \/ x.report # "null"))
    BY <1>3, <1>4, <1>5, <1>7 DEF UR!Returns
  <2> QED BY <1>1, <2>1, <2>2 DEF l
<1>11. LookedAt'
  BY <1>8, <1>10 DEF LookedAt, UsageInv, ChipTypeOK, UR!Attended
<1>12. NothingForNobody'
  BY <1>8, <1>10 DEF NothingForNobody, UsageInv
<1>13. ChipTypeOK' /\ AgentAsked'
  BY <1>8 DEF ChipTypeOK, AgentAsked, UsageInv
<1> QED BY <1>9, <1>11, <1>12, <1>13 DEF UsageInv

LEMMA WaitOverKeeps ==
  ASSUME UsageInv, NEW r \in runs, UR!WaitOver(r)
  PROVE  UsageInv'
<1> DEFINE over == [loader[r.w] EXCEPT !.loading = FALSE]
           next == [r EXCEPT !.pc = "asked", !.try = @ + 1]
<1>1. /\ r \in Run /\ r.w \in Spans /\ loader[r.w] \in Loader /\ loader \in [Spans -> Loader]
      /\ LoadersRight
  BY DEF UsageInv, LoadersRight, LoadersInv, Run
<1>2. r.own /\ loader[r.w].report # "null"
  BY <1>1 DEF UR!WaitOver, LoadersRight, LoadersInv, WaitsAnswered
<1>3. over \in Loader /\ ~over.loading /\ over.report = loader[r.w].report
  BY <1>1 DEF Loader
<1>4. next \in Run /\ next.own = r.own /\ next.w = r.w
  <2>1. r.try + 1 \in Nat
    BY <1>1 DEF Run
  <2>2. ASSUME NEW n \in Nat
        PROVE  LET x == [r EXCEPT !.pc = "asked", !.try = n]
               IN x \in Run /\ x.own = r.own /\ x.w = r.w
    BY <1>1 DEF Run
  <2> QED BY <2>1, <2>2
<1>5. \/ runs' = (runs \ {r}) \union {next} /\ loader' = loader
      \/ UR!Returns(r, over)
  BY DEF UR!WaitOver
<1>6. UNCHANGED <<chip, busy, agentAsk>>
  BY DEF UR!WaitOver
<1> HIDE DEF over, next
<1>7. LoadersRight'
  <2>1. CASE UR!Returns(r, over)
    BY <2>1, <1>1, <1>2, <1>3, RunReturns
  <2>2. CASE runs' = (runs \ {r}) \union {next} /\ loader' = loader
    <3>1. loader' = [loader EXCEPT ![r.w] = loader[r.w]]
      BY <2>2, <1>1
    <3> QED BY <2>2, <3>1, <1>1, <1>2, <1>4, RunGoesOn
  <2> QED BY <1>5, <2>1, <2>2
<1>8. \A v \in Spans :
         \/ loader'[v] = loader[v]
         \/ ~loader'[v].loading /\ loader'[v].report # "null"
  BY <1>1, <1>2, <1>3, <1>5 DEF UR!Returns
<1>9. LookedAt' /\ NothingForNobody'
  BY <1>6, <1>8 DEF LookedAt, NothingForNobody, UsageInv, ChipTypeOK, UR!Attended
<1>10. ChipTypeOK' /\ AgentAsked'
  BY <1>6 DEF ChipTypeOK, AgentAsked, UsageInv
<1> QED BY <1>7, <1>9, <1>10 DEF UsageInv

-----------------------------------------------------------------------------
(* What the user does to the chip.                                         *)
LEMMA ChipChanges ==
  ASSUME UsageInv, ChipTypeOK',
         \/ UR!Load(chip'.window, {}) /\ chip'.mounted
         \/ UR!Load(chip'.window, {chip.window}) /\ chip'.mounted
         \/ /\ UR!CancelAll(Spans)
            /\ ~chip'.open \/ ~chip'.mounted \/ ~chip'.visible \/ chip'.tab = "agent"
         \/ /\ UR!CancelAll({chip.window}) /\ chip'.mounted
            /\ chip'.tab = "agent"
         \/ /\ UR!NoLoad /\ chip'.mounted
            /\ ~chip'.open \/ chip' = chip,
         UR!NoAggregate \/ UR!Aggregate(chip'.window)
  PROVE  UsageInv'
<1>1. /\ LoadersRight /\ chip.window \in Spans /\ chip'.window \in Spans
      /\ chip.mounted \in BOOLEAN /\ chip'.mounted \in BOOLEAN
  BY DEF UsageInv, ChipTypeOK
<1>2. AgentAsked'
  BY <1>1, AggregateKeeps DEF UsageInv, UR!NoAggregate, AgentAsked
<1>3. CASE \E first \in SUBSET Spans : UR!Load(chip'.window, first) /\ chip'.mounted
  <2>1. LoadersRight' /\ loader'[chip'.window].loading
    BY <1>1, <1>3, LoadKeeps
  <2>2. LookedAt' /\ NothingForNobody'
    BY <1>3, <2>1 DEF LookedAt, NothingForNobody
  <2> QED BY <1>2, <2>1, <2>2 DEF UsageInv
<1>4. CASE /\ UR!CancelAll(Spans)
           /\ ~chip'.open \/ ~chip'.mounted \/ ~chip'.visible \/ chip'.tab = "agent"
  <2>1. LoadersRight' /\ \A w \in Spans : ~loader'[w].loading
    BY <1>1, <1>4, CancelKeeps
  <2>2. LookedAt' /\ NothingForNobody'
    BY <1>4, <2>1 DEF LookedAt, NothingForNobody, UR!Attended
  <2> QED BY <1>2, <2>1, <2>2 DEF UsageInv
<1>5. CASE UR!CancelAll({chip.window}) /\ chip'.mounted /\ chip'.tab = "agent"
  <2>1. LoadersRight'
    BY <1>1, <1>5, CancelKeeps
  <2>2. LookedAt' /\ NothingForNobody'
    BY <1>5 DEF LookedAt, NothingForNobody
  <2> QED BY <1>2, <2>1, <2>2 DEF UsageInv
<1>6. CASE UR!NoLoad /\ chip'.mounted /\ (~chip'.open \/ chip' = chip)
  <2>1. LoadersRight'
    BY <1>1, <1>6 DEF UR!NoLoad, LoadersRight
  <2>2. LookedAt' /\ NothingForNobody'
    BY <1>6 DEF UR!NoLoad, LookedAt, NothingForNobody, UR!Attended, UsageInv
  <2> QED BY <1>2, <2>1, <2>2 DEF UsageInv
<1> QED BY <1>1, <1>3, <1>4, <1>5, <1>6

LEMMA ToggleKeeps == ASSUME UsageInv, UR!Toggle PROVE UsageInv'
<1>1. /\ ChipTypeOK' /\ chip'.window = chip.window /\ chip'.mounted /\ chip'.open = ~chip.open
      /\ chip.open \in BOOLEAN
  BY DEF UR!Toggle, UR!Attended, UsageInv, ChipTypeOK
<1> QED BY <1>1, ChipChanges DEF UR!Toggle

LEMMA PickTabKeeps ==
  ASSUME UsageInv, NEW t \in {"usage", "agent"}, UR!PickTab(t) PROVE UsageInv'
<1>1. ChipTypeOK' /\ chip'.window = chip.window /\ chip'.mounted /\ chip'.tab = t
  BY DEF UR!PickTab, UR!Attended, UsageInv, ChipTypeOK
<1> QED BY <1>1, ChipChanges DEF UR!PickTab

LEMMA PickWindowKeeps ==
  ASSUME UsageInv, NEW w \in Spans, UR!PickWindow(w) PROVE UsageInv'
<1>1. ChipTypeOK' /\ chip'.window = w /\ chip'.mounted /\ chip'.tab = chip.tab
  BY DEF UR!PickWindow, UR!Attended, UsageInv, ChipTypeOK
<1> QED BY <1>1, ChipChanges DEF UR!PickWindow

LEMMA RefreshKeeps == ASSUME UsageInv, UR!Refresh PROVE UsageInv'
<1>1. ChipTypeOK' /\ chip' = chip /\ chip.mounted
  BY DEF UR!Refresh, UR!Attended, UsageInv, ChipTypeOK
<1> QED BY <1>1, ChipChanges DEF UR!Refresh, UR!NoAggregate

LEMMA HidesKeeps == ASSUME UsageInv, UR!Hides \/ UR!Unmounts PROVE UsageInv'
<1>1. ChipTypeOK' /\ (~chip'.mounted \/ ~chip'.visible)
  BY DEF UR!Hides, UR!Unmounts, UsageInv, ChipTypeOK
<1> QED BY <1>1, ChipChanges DEF UR!Hides, UR!Unmounts, UR!NoAggregate

LEMMA OnVisibleKeeps == ASSUME UsageInv, UR!OnVisible PROVE UsageInv'
<1>1. ChipTypeOK' /\ chip'.mounted /\ chip'.window = chip.window /\ chip'.open = chip.open
  BY DEF UR!OnVisible, UsageInv, ChipTypeOK
<1> QED BY <1>1, ChipChanges DEF UR!OnVisible

LEMMA AggregateTickKeeps == ASSUME UsageInv, UR!AggregateTick PROVE UsageInv'
<1>1. ChipTypeOK' /\ chip' = chip /\ chip.mounted
  BY DEF UR!AggregateTick, UR!Attended, UsageInv, ChipTypeOK
<1> QED BY <1>1, ChipChanges DEF UR!AggregateTick

LEMMA AgentAnsweredKeeps ==
  ASSUME UsageInv, NEW w \in Spans, UR!AgentAnswered(w) PROVE UsageInv'
<1>1. UNCHANGED <<chip, loader, runs>> /\ AgentAsked'
  BY DEF UR!AgentAnswered, UsageInv, AgentAsked
<1> QED BY <1>1 DEF UsageInv, ChipTypeOK, LoadersRight, LookedAt, NothingForNobody, UR!Attended

-----------------------------------------------------------------------------
LEMMA UsageInitHolds == ASSUME UR!UsageInit PROVE UsageInv
<1>1. PICK w \in Spans, v \in BOOLEAN :
        /\ chip = [open |-> FALSE, visible |-> v, mounted |-> TRUE, tab |-> "usage",
                   window |-> w]
        /\ loader = [u \in Spans |-> IF u = w THEN [UR!Idle EXCEPT !.loading = TRUE]
                                     ELSE UR!Idle]
        /\ runs = {UR!FirstRun(w)} /\ agentAsk = {w} /\ busy = TRUE
  BY DEF UR!UsageInit
<1>2. ChipTypeOK /\ chip.mounted /\ ~chip.open /\ AgentAsked
  BY <1>1 DEF ChipTypeOK, AgentAsked
<1>3. UR!FirstRun(w) \in Run /\ UR!FirstRun(w).w = w /\ UR!FirstRun(w).own
      /\ UR!FirstRun(w).pc = "asked"
  BY DEF UR!FirstRun, Run
<1>4. /\ loader \in [Spans -> Loader]
      /\ \A u \in Spans : loader[u].loading <=> u = w
  BY <1>1 DEF UR!Idle, Loader
<1>5. LoadersRight
  BY <1>1, <1>3, <1>4 DEF LoadersRight, LoadersInv, Awaited, WaitsAnswered
<1> QED BY <1>2, <1>5 DEF UsageInv, LookedAt, NothingForNobody

LEMMA UsageInductive == ASSUME UsageInv, [UR!UsageNext]_urVars PROVE UsageInv'
<1>1. ASSUME NEW r \in runs, UR!WaitOver(r) \/ \E a \in UR!Answers : UR!Answered(r, a)
      PROVE  UsageInv'
  BY <1>1, WaitOverKeeps, AnsweredKeeps
<1>2. ASSUME NEW w \in Spans, UR!PickWindow(w) \/ UR!AgentAnswered(w) PROVE UsageInv'
  BY <1>2, PickWindowKeeps, AgentAnsweredKeeps
<1>3. ASSUME UNCHANGED urVars PROVE UsageInv'
  BY <1>3 DEF urVars, UsageInv, ChipTypeOK, LoadersRight, LookedAt, AgentAsked,
     NothingForNobody, UR!Attended
<1> QED
  BY <1>1, <1>2, <1>3, PickTabKeeps, ToggleKeeps, RefreshKeeps, HidesKeeps, OnVisibleKeeps,
     AggregateTickKeeps DEF UR!UsageNext

(* A component counts as the page does.                                    *)
LEMMA UsageCounts == \A S : UR!Cardinality(S) = Cardinality(S)
BY DEF UR!Cardinality, Cardinality

(* A set with one element or with none, counted                            *)
LEMMA OneOrNone ==
  ASSUME NEW S, NEW b \in BOOLEAN, b => \E x : S = {x}, ~b => S = {}
  PROVE  Cardinality(S) = (IF b THEN 1 ELSE 0)
BY FS_EmptySet, FS_Singleton

LEMMA UsageInvImplies == ASSUME UsageInv PROVE UsageIsAwaited
<1>1. ASSUME NEW w \in Spans
      PROVE  LET own == {r \in runs : r.w = w /\ r.own}
             IN Cardinality(own) = (IF loader[w].loading THEN 1 ELSE 0)
  <2> DEFINE own == {r \in runs : r.w = w /\ r.own}
  <2>1. loader[w].loading \in BOOLEAN /\ Awaited(loader, runs)
    BY DEF UsageInv, LoadersRight, LoadersInv, Loader
  <2>2. loader[w].loading => \E x : own = {x}
    <3>1. SUFFICES ASSUME loader[w].loading PROVE \E x : own = {x}
      OBVIOUS
    <3>2. PICK r \in runs : r.w = w /\ r.own
      BY <2>1, <3>1 DEF Awaited
    <3>3. \A s \in own : s = r
      BY <2>1, <3>2 DEF Awaited
    <3>4. own = {r}
      BY <3>2, <3>3
    <3> QED BY <3>4
  <2>3. ~loader[w].loading => own = {}
    BY <2>1 DEF Awaited
  <2> QED BY <2>1, <2>2, <2>3, OneOrNone
<1>2. Cardinality(agentAsk) = (IF busy THEN 1 ELSE 0)
  <2>1. CASE busy
    BY <2>1, FS_Singleton DEF UsageInv, AgentAsked
  <2>2. CASE ~busy
    BY <2>2, FS_EmptySet DEF UsageInv, AgentAsked
  <2> QED BY <2>1, <2>2
<1>3. \A r \in runs : r.pc = "waiting" => r.own
  BY DEF UsageInv, LoadersRight, LoadersInv, WaitsAnswered
<1>4. UR!Attended /\ chip.open /\ chip.tab = "usage" =>
        LET l == loader[chip.window] IN l.loading \/ l.error \/ l.report # "null"
  BY DEF UsageInv, LookedAt
<1>5. ~chip.mounted => \A w \in Spans : ~loader[w].loading
  BY DEF UsageInv, NothingForNobody
<1> QED
  BY <1>1, <1>2, <1>3, <1>4, <1>5, UsageCounts DEF UsageIsAwaited, UR!UsageIsAwaited

(* Of the page, only the chip's own steps touch the chip.                  *)
(* The chip never waits for nobody, for any number of windows of time and  *)
(* of further requests (usageReportLoader.ts, UsageChip.vue).              *)
THEOREM ChipNeverWaitsForNobody == PageSpec => []UsageIsAwaited
<1>1. PageInit => UsageInv
  BY UsageInitHolds DEF PageInit
<1>2. UsageInv /\ [PageNext]_<<focus, upVars, usVars, ccVars, ftVars, fpVars, ahVars, thVars,
                               urVars, trVars, qsVars>> => UsageInv'
  <2>1. ASSUME PageNext PROVE [UR!UsageNext]_urVars
    BY <2>1 DEF PageNext
  <2> QED BY <2>1, UsageInductive
<1> QED BY <1>1, <1>2, UsageInvImplies, PTL DEF PageSpec

-----------------------------------------------------------------------------
(***************************************************************************)
(* The attention card.                                                     *)
(*                                                                         *)
(* Take a window whose dates did not go back.  If the latest date frames   *)
(* gave it was said, and a pane still has that date, then one of the two   *)
(* memories that keep a turn from being raised has it: what is raised or   *)
(* waved away later is either that turn, or was undated, and then no pane  *)
(* has the date any more - and no pane gets it again.                      *)
(***************************************************************************)
PaneStates == [status : {"running", "waiting", "done"}, since : Nat]
Status == {"none", "running", "waiting", "idle", "done-unseen"}
Item == [key : Windows, status : Status, since : Nat]
HudTypeOK ==
  /\ DOMAIN agent = Windows /\ \A k \in Windows : agent[k] \in [1..Panes[k] -> PaneStates]
  /\ agentTurns \in Nat
  /\ frame \in [Windows -> [status : Status, awaits : BOOLEAN, since : Nat]]
  /\ lastSeen \in [Windows -> Status]
  /\ raised \in [Windows -> Nat] /\ muted \in [Windows -> Nat]
  /\ card \subseteq Item /\ spoken \subseteq Windows \X (Nat \ {0})
  /\ newest \in [Windows -> Nat] /\ backward \subseteq Windows

(* A pane still has the latest date its window was given                   *)
Lasts(k) == newest[k] # 0 /\ \E p \in 1..Panes[k] : agent[k][p].since = newest[k]
(* Turns are numbered as they come                                         *)
TurnsInOrder ==
  /\ \A k \in Windows : \A p \in 1..Panes[k] : agent[k][p].since <= agentTurns
  /\ \A k \in Windows : newest[k] <= agentTurns
  /\ \A k \in Windows, s \in Nat : <<k, s>> \in spoken => s <= newest[k]
(* What was said of a turn that lasts is remembered                        *)
SaidIsRemembered ==
  \A k \in Windows \ backward :
    Lasts(k) /\ <<k, newest[k]>> \in spoken => newest[k] \in {raised[k], muted[k]}
(* The card speaks of the last frame, of each window once, of its latest   *)
(* turn while that lasts                                                   *)
CardIsOfFrame ==
  /\ \A i \in card : frame[i.key].since = i.since /\ lastSeen[i.key] = i.status
  /\ \A i, j \in card : i.key = j.key => i = j
CardWithinNewest == \A i \in card : i.since <= newest[i.key]
CardIsOfLatest ==
  \A i \in card : i.key \notin backward /\ Lasts(i.key) => i.since = newest[i.key]
HudInv ==
  /\ HudTypeOK /\ TurnsInOrder /\ SaidIsRemembered
  /\ CardIsOfFrame /\ CardIsOfLatest /\ CardWithinNewest /\ repeated = FALSE

(* Every set of numbers that is not empty has a least one.                 *)
LEMMA LeastOf ==
  ASSUME NEW S, S \subseteq Nat, S # {} PROVE \E p \in S : \A q \in S : p <= q
<1>1. IsWellFoundedOn({ss \in Nat \X Nat : ss[1] < ss[2]}, Nat)
  BY NatLessThanWellFounded DEF OpToRel
<1>2. PICK p \in S : \A q \in S : ~(<<q, p>> \in {ss \in Nat \X Nat : ss[1] < ss[2]})
  BY <1>1, WFMin
<1>3. \A q \in S : <<q, p>> \in Nat \X Nat
  OBVIOUS
<1>4. \A q \in S : ~(q < p)
  BY <1>2, <1>3
<1> QED BY <1>4

(* The card of a window has the date of one of its panes, if one has any.  *)
LEMMA RollUpIsOfAPane ==
  ASSUME NEW n \in Nat, NEW panes \in [1..n -> PaneStates]
  PROVE  /\ AH!RollUp(panes) \in [status : Status, awaits : BOOLEAN, since : Nat]
         /\ AH!RollUp(panes).since # 0 =>
              \E p \in 1..n : panes[p].since = AH!RollUp(panes).since
         /\ AH!RollUp(panes).since = 0 => \A p \in 1..n : panes[p].since = 0
<1> DEFINE dated == {p \in DOMAIN panes : panes[p].since > 0}
           least == CHOOSE p \in dated : \A q \in dated : p <= q
<1>1. \A p \in 1..n : panes[p].since \in Nat
  BY DEF PaneStates
<1>2. dated \subseteq Nat /\ dated = {p \in 1..n : panes[p].since > 0}
  OBVIOUS
<1>3. dated # {} => least \in dated
  <2>1. dated # {} => \E p \in dated : \A q \in dated : p <= q
    <3> HIDE DEF dated
    <3> QED BY <1>2, LeastOf
  <2> QED BY <2>1
<1>4. AH!RollUp(panes).since = IF dated = {} THEN 0 ELSE panes[least].since
  BY DEF AH!RollUp
<1>5. AH!RollUp(panes) =
        [status |-> AH!RollUp(panes).status, awaits |-> AH!RollUp(panes).awaits,
         since |-> AH!RollUp(panes).since]
  BY DEF AH!RollUp
<1>6. AH!RollUp(panes).status \in Status /\ AH!RollUp(panes).awaits \in BOOLEAN
  BY DEF AH!RollUp, Status
<1> HIDE DEF dated, least
<1>7. CASE dated = {}
  <2>1. \A p \in 1..n : panes[p].since = 0
    BY <1>1, <1>2, <1>7
  <2> QED BY <1>4, <1>5, <1>6, <1>7, <2>1
<1>8. CASE dated # {}
  <2>1. least \in 1..n /\ panes[least].since > 0
    BY <1>2, <1>3, <1>8
  <2> QED BY <1>1, <1>4, <1>5, <1>6, <1>8, <2>1
<1> QED BY <1>7, <1>8

-----------------------------------------------------------------------------
(* The agents go on and stop: only a new turn has a number, a later one.   *)
LEMMA AgentKeeps ==
  ASSUME HudInv, NEW k \in Windows, NEW p \in 1..Panes[k],
         AH!AgentStops(k, p) \/ AH!AgentGoesOn(k, p)
  PROVE  HudInv'
<1>1. UNCHANGED <<frame, lastSeen, raised, muted, card, spoken, newest, backward, repeated>>
  BY DEF AH!AgentStops, AH!AgentGoesOn, AH!Hud, AH!Said
<1>2. /\ DOMAIN agent = Windows /\ \A q \in Windows : agent[q] \in [1..Panes[q] -> PaneStates]
      /\ agentTurns \in Nat
  BY DEF HudInv, HudTypeOK
<1>3. PICK a \in PaneStates :
        /\ agent' = [agent EXCEPT ![k][p] = a]
        /\ \/ a.since \in {0, agent[k][p].since} /\ agentTurns' = agentTurns
           \/ a.since = agentTurns + 1 /\ agentTurns' = agentTurns + 1
  <2>1. CASE AH!AgentStops(k, p)
    <3>1. PICK st \in {"waiting", "done"}, since \in {0, agentTurns + 1} :
            /\ agent' = [agent EXCEPT ![k][p] = [status |-> st, since |-> since]]
            /\ agentTurns' = IF since = 0 THEN agentTurns ELSE since
      BY <2>1 DEF AH!AgentStops
    <3> DEFINE new == [status |-> st, since |-> since]
    <3>2. new \in PaneStates /\ new.since = since
      BY <1>2 DEF PaneStates
    <3>3. agent' = [agent EXCEPT ![k][p] = new]
      BY <3>1
    <3> HIDE DEF new
    <3> QED BY <3>1, <3>2, <3>3
  <2>2. CASE AH!AgentGoesOn(k, p)
    <3>1. /\ agentTurns' = agentTurns
          /\ \/ agent' = [agent EXCEPT ![k][p] = [status |-> "running", since |-> 0]]
             \/ agent' = [agent EXCEPT ![k][p].status = "done"]
      BY <2>2 DEF AH!AgentGoesOn, AH!Running
    <3>2. agent[k][p] \in PaneStates
      BY <1>2
    <3>3. CASE agent' = [agent EXCEPT ![k][p] = [status |-> "running", since |-> 0]]
      <4> DEFINE new == [status |-> "running", since |-> 0]
      <4>1. new \in PaneStates /\ new.since = 0 /\ agent' = [agent EXCEPT ![k][p] = new]
        BY <3>3 DEF PaneStates
      <4> HIDE DEF new
      <4> QED BY <3>1, <4>1
    <3>4. CASE agent' = [agent EXCEPT ![k][p].status = "done"]
      <4>1. agent' = [agent EXCEPT ![k][p] = [agent[k][p] EXCEPT !.status = "done"]]
        BY <1>2, <3>4
      <4>2. /\ [agent[k][p] EXCEPT !.status = "done"] \in PaneStates
            /\ [agent[k][p] EXCEPT !.status = "done"].since = agent[k][p].since
        BY <3>2 DEF PaneStates
      <4> QED BY <3>1, <4>1, <4>2
    <3> QED BY <3>1, <3>3, <3>4
  <2> QED BY <2>1, <2>2
<1>4. /\ DOMAIN agent' = Windows /\ \A q \in Windows \ {k} : agent'[q] = agent[q]
      /\ agent'[k] = [agent[k] EXCEPT ![p] = a]
  BY <1>2, <1>3
<1>5. /\ \A q \in Windows : agent'[q] \in [1..Panes[q] -> PaneStates]
      /\ \A q \in Windows : \A r \in 1..Panes[q] :
           agent'[q][r].since = IF q = k /\ r = p THEN a.since ELSE agent[q][r].since
  <2>1. agent[k] \in [1..Panes[k] -> PaneStates]
    BY <1>2
  <2>2. /\ agent'[k] \in [1..Panes[k] -> PaneStates]
        /\ \A r \in 1..Panes[k] : agent'[k][r] = IF r = p THEN a ELSE agent[k][r]
    BY <1>4, <2>1
  <2>3. \A q \in Windows : agent'[q] \in [1..Panes[q] -> PaneStates]
    BY <1>2, <1>4, <2>2
  <2>4. ASSUME NEW q \in Windows, NEW r \in 1..Panes[q]
        PROVE  agent'[q][r].since = IF q = k /\ r = p THEN a.since ELSE agent[q][r].since
    <3>1. CASE q = k
      BY <2>2, <3>1
    <3>2. CASE q # k
      BY <1>4, <3>2
    <3> QED BY <3>1, <3>2
  <2> QED BY <2>3, <2>4
<1>6. agentTurns' \in Nat /\ agentTurns <= agentTurns' /\ a.since \in Nat /\ a.since <= agentTurns'
  <2>1. a.since \in Nat
    BY DEF PaneStates
  <2>2. agent[k][p].since <= agentTurns /\ agent[k][p].since \in Nat
    BY <1>2 DEF HudInv, TurnsInOrder, PaneStates
  <2> QED BY <1>2, <1>3, <2>1, <2>2
<1>7. newest \in [Windows -> Nat] /\ \A q \in Windows : newest[q] <= agentTurns
  BY DEF HudInv, HudTypeOK, TurnsInOrder
<1>8. \A q \in Windows : \A r \in 1..Panes[q] : agent[q][r].since \in Nat /\ agent[q][r].since <= agentTurns
  BY <1>2 DEF HudInv, TurnsInOrder, PaneStates
<1>9. HudTypeOK'
  BY <1>1, <1>4, <1>5, <1>6 DEF HudInv, HudTypeOK
<1>10. TurnsInOrder'
  <2>1. \A q \in Windows : \A r \in 1..Panes[q] : agent'[q][r].since <= agentTurns'
    BY <1>2, <1>5, <1>6, <1>8
  <2>2. \A q \in Windows : newest'[q] <= agentTurns'
    BY <1>1, <1>2, <1>6, <1>7
  <2>3. \A q \in Windows, s \in Nat : <<q, s>> \in spoken' => s <= newest'[q]
    BY <1>1 DEF HudInv, TurnsInOrder
  <2> QED BY <2>1, <2>2, <2>3 DEF TurnsInOrder
<1>11. \A q \in Windows : Lasts(q)' => Lasts(q)
  <2> SUFFICES ASSUME NEW q \in Windows, newest[q] # 0, NEW r \in 1..Panes[q],
                      agent'[q][r].since = newest[q]
               PROVE  \E t \in 1..Panes[q] : agent[q][t].since = newest[q]
    BY <1>1 DEF Lasts
  <2>1. CASE q = k /\ r = p /\ a.since = agentTurns + 1
    BY <1>2, <1>5, <1>7, <2>1
  <2>2. CASE q = k /\ r = p /\ a.since \in {0, agent[k][p].since}
    BY <1>5, <2>2
  <2>3. CASE ~(q = k /\ r = p)
    BY <1>5, <2>3
  <2> QED BY <1>3, <2>1, <2>2, <2>3
<1>12. SaidIsRemembered'
  BY <1>1, <1>11 DEF HudInv, SaidIsRemembered
<1>13. CardIsOfFrame' /\ CardWithinNewest' /\ repeated' = FALSE
  BY <1>1 DEF HudInv, CardIsOfFrame, CardWithinNewest
<1>14. CardIsOfLatest'
  <2>1. \A i \in card : i.key \in Windows
    BY DEF HudInv, HudTypeOK, Item
  <2> QED BY <1>1, <1>11, <2>1 DEF HudInv, CardIsOfLatest
<1> QED BY <1>9, <1>10, <1>12, <1>13, <1>14 DEF HudInv

(* A frame: what it admits was not said of, and is remembered from now on. *)
LEMMA FrameKeeps ==
  ASSUME HudInv, NEW listed \in SUBSET Windows, AH!Frame(listed), UNCHANGED <<agent, agentTurns>>
  PROVE  HudInv'
<1> DEFINE w == [k \in Windows |-> IF k \in listed THEN AH!RollUp(agent[k]) ELSE AH!None]
<1>0. \A k \in Windows : w[k] \in [status : Status, awaits : BOOLEAN, since : Nat]
  <2>1. \A k \in Windows : AH!RollUp(agent[k]) \in [status : Status, awaits : BOOLEAN, since : Nat]
    BY RollUpIsOfAPane, PanesAssumption DEF HudInv, HudTypeOK
  <2> QED BY <2>1 DEF AH!None, Status
<1>1. PICK status \in [Windows -> Status], admitted \in SUBSET listed,
           wanting \in SUBSET listed :
        /\ frame' = w /\ lastSeen' = status
        /\ \A k \in admitted : ~AH!SaidBefore(k, w[k].since)
        /\ raised' = [k \in Windows |-> IF k \in admitted THEN w[k].since
                                        ELSE AH!Cut(raised, listed)[k]]
        /\ muted' = AH!Cut(muted, listed)
        /\ card' = {i \in {[key |-> k, status |-> status[k], since |-> w[k].since] :
                             k \in wanting} :
                      i.key \in admitted \/ \E d \in card : d.key = i.key}
        /\ newest' = [k \in Windows |-> IF w[k].since > newest[k] THEN w[k].since
                                        ELSE AH!Cut(newest, listed)[k]]
        /\ backward' = {k \in listed : k \in backward \/ w[k].since \in 1..(newest[k] - 1)}
        /\ repeated' = (repeated \/ \E k \in admitted \ backward' : <<k, w[k].since>> \in spoken)
        /\ spoken' = {s \in spoken : s[1] \in listed}
                       \union {<<k, w[k].since>> : k \in {x \in admitted : w[x].since > 0}}
  <2> DEFINE looked == {k \in listed : k = front /\ ~overview /\ w[k].awaits /\ w[k].since > 0}
             sn == [k \in Windows |-> IF k \in looked THEN w[k].since ELSE AH!Cut(seen, listed)[k]]
             un == {k \in undated \intersect listed : w[k].awaits}
             status == [k \in Windows |-> IF k \in listed THEN AH!Effective(k, w[k], sn, un)
                                          ELSE "none"]
             edges == IF primed THEN {k \in listed : status[k] # lastSeen[k]} ELSE {}
             cool == (cooling \intersect listed) \ {k \in edges : status[k] = "running"}
             wanting == {k \in listed : status[k] \in {"waiting", "done-unseen"}}
             admitted == IF hidden THEN {} ELSE
               {k \in (edges \intersect wanting) \ (AH!Visible(listed) \union cool) :
                  ~AH!SaidBefore(k, w[k].since)}
  <2>1. \A k \in listed : w[k].status \in Status
    BY <1>0
  <2>2. status \in [Windows -> Status]
    <3> HIDE DEF w
    <3> QED BY <2>1 DEF AH!Effective, Status
  <2>3. wanting \in SUBSET listed
    OBVIOUS
  <2>4. admitted \in SUBSET listed /\ \A k \in admitted : ~AH!SaidBefore(k, w[k].since)
    OBVIOUS
  <2>5. /\ frame' = w /\ lastSeen' = status
        /\ raised' = [k \in Windows |-> IF k \in admitted THEN w[k].since
                                        ELSE AH!Cut(raised, listed)[k]]
        /\ muted' = AH!Cut(muted, listed)
        /\ card' = {i \in {[key |-> k, status |-> status[k], since |-> w[k].since] :
                             k \in wanting} :
                      i.key \in admitted \/ \E d \in card : d.key = i.key}
        /\ newest' = [k \in Windows |-> IF w[k].since > newest[k] THEN w[k].since
                                        ELSE AH!Cut(newest, listed)[k]]
        /\ backward' = {k \in listed : k \in backward \/ w[k].since \in 1..(newest[k] - 1)}
        /\ repeated' = (repeated \/ \E k \in admitted \ backward' : <<k, w[k].since>> \in spoken)
        /\ spoken' = {s \in spoken : s[1] \in listed}
                       \union {<<k, w[k].since>> : k \in {x \in admitted : w[x].since > 0}}
    BY DEF AH!Frame
  <2> HIDE DEF w, status, wanting, admitted
  <2> QED BY <2>2, <2>3, <2>4, <2>5
<1>2. /\ \A k \in Windows : w[k].since \in Nat
      /\ \A k \in listed : w[k].since # 0 => \E p \in 1..Panes[k] : agent[k][p].since = w[k].since
      /\ \A k \in listed : w[k].since = 0 => \A p \in 1..Panes[k] : agent[k][p].since = 0
      /\ \A k \in Windows \ listed : w[k].since = 0
  <2>1. \A k \in Windows : w[k].since \in Nat
    BY <1>0
  <2>2. ASSUME NEW k \in listed
        PROVE  /\ w[k].since # 0 => \E p \in 1..Panes[k] : agent[k][p].since = w[k].since
               /\ w[k].since = 0 => \A p \in 1..Panes[k] : agent[k][p].since = 0
    <3>1. Panes[k] \in Nat /\ agent[k] \in [1..Panes[k] -> PaneStates]
      BY PanesAssumption DEF HudInv, HudTypeOK
    <3>2. w[k] = AH!RollUp(agent[k])
      OBVIOUS
    <3> HIDE DEF w
    <3> QED BY <3>1, <3>2, RollUpIsOfAPane
  <2>3. \A k \in Windows \ listed : w[k].since = 0
    BY DEF AH!None
  <2> HIDE DEF w
  <2> QED BY <2>1, <2>2, <2>3
<1>3. w \in [Windows -> [status : Status, awaits : BOOLEAN, since : Nat]]
  BY <1>0
<1> HIDE DEF w
<1>4. /\ raised \in [Windows -> Nat] /\ muted \in [Windows -> Nat] /\ newest \in [Windows -> Nat]
      /\ spoken \subseteq Windows \X (Nat \ {0}) /\ agentTurns \in Nat
  BY DEF HudInv, HudTypeOK
<1>5. /\ raised' \in [Windows -> Nat] /\ muted' \in [Windows -> Nat] /\ newest' \in [Windows -> Nat]
      /\ \A k \in listed : /\ muted'[k] = muted[k]
                           /\ raised'[k] = IF k \in admitted THEN w[k].since ELSE raised[k]
                           /\ newest'[k] = IF w[k].since > newest[k] THEN w[k].since ELSE newest[k]
      /\ \A k \in Windows \ listed : newest'[k] = 0
  BY <1>1, <1>2, <1>4 DEF AH!Cut
<1>6. \A k \in Windows, s \in Nat : <<k, s>> \in spoken' =>
        /\ k \in listed /\ s # 0
        /\ <<k, s>> \in spoken \/ (k \in admitted /\ s = w[k].since)
  BY <1>1, <1>4
<1>7. spoken' \subseteq Windows \X (Nat \ {0})
  BY <1>1, <1>2, <1>4
<1>8. \A i \in card' : \E k \in wanting :
        i = [key |-> k, status |-> lastSeen'[k], since |-> frame'[k].since]
  BY <1>1
<1>9. card' \subseteq Item /\ CardIsOfFrame'
  BY <1>1, <1>2, <1>8 DEF Item, CardIsOfFrame
<1>10. \A k \in listed : newest[k] \in Nat /\ newest'[k] \in Nat /\ newest[k] <= newest'[k]
                         /\ w[k].since <= newest'[k]
  BY <1>2, <1>4, <1>5
<1>11. TurnsInOrder'
  <2>1. \A k \in Windows : \A p \in 1..Panes[k] : agent'[k][p].since <= agentTurns'
    BY DEF HudInv, TurnsInOrder
  <2>2. \A k \in Windows : newest'[k] <= agentTurns'
    <3> SUFFICES ASSUME NEW k \in Windows PROVE newest'[k] <= agentTurns
      OBVIOUS
    <3>1. newest[k] <= agentTurns /\ \A p \in 1..Panes[k] : agent[k][p].since <= agentTurns
      BY DEF HudInv, TurnsInOrder
    <3>2. CASE k \in listed
      BY <1>2, <1>4, <1>5, <3>1, <3>2
    <3>3. CASE k \notin listed
      BY <1>4, <1>5, <3>3
    <3> QED BY <3>2, <3>3
  <2>3. ASSUME NEW k \in Windows, NEW s \in Nat, <<k, s>> \in spoken' PROVE s <= newest'[k]
    <3>1. k \in listed /\ (<<k, s>> \in spoken \/ s = w[k].since)
      BY <1>6, <2>3
    <3>2. <<k, s>> \in spoken => s <= newest[k]
      BY DEF HudInv, TurnsInOrder
    <3> QED BY <1>10, <3>1, <3>2
  <2> QED BY <2>1, <2>2, <2>3 DEF TurnsInOrder
<1>12. \A k \in listed \ backward' :
         k \notin backward /\ (w[k].since = 0 \/ w[k].since = newest'[k])
  <2> SUFFICES ASSUME NEW k \in listed, k \notin backward'
               PROVE  k \notin backward /\ (w[k].since = 0 \/ w[k].since = newest'[k])
    OBVIOUS
  <2>1. k \notin backward /\ w[k].since \notin 1..(newest[k] - 1)
    BY <1>1
  <2>2. w[k].since \in Nat /\ newest[k] \in Nat
    BY <1>2, <1>4
  <2>3. newest'[k] = IF w[k].since > newest[k] THEN w[k].since ELSE newest[k]
    BY <1>5
  <2> QED BY <2>1, <2>2, <2>3
<1>13. \A k \in listed : w[k].since = 0 => ~Lasts(k)'
  BY <1>2, <1>5 DEF Lasts
<1>14. SaidIsRemembered'
  <2> SUFFICES ASSUME NEW k \in Windows \ backward', Lasts(k)', <<k, newest'[k]>> \in spoken'
               PROVE  newest'[k] \in {raised'[k], muted'[k]}
    BY DEF SaidIsRemembered
  <2>1. newest'[k] \in Nat
    BY <1>5
  <2>2. k \in listed /\ (<<k, newest'[k]>> \in spoken \/ k \in admitted)
    BY <1>6, <2>1
  <2>3. w[k].since = newest'[k] /\ k \notin backward
    BY <1>12, <1>13, <2>2
  <2>4. CASE k \in admitted
    BY <1>5, <2>2, <2>3, <2>4
  <2>5. CASE k \notin admitted
    <3>1. <<k, newest'[k]>> \in spoken
      BY <2>2, <2>5
    <3>2. newest'[k] <= newest[k]
      BY <2>1, <3>1 DEF HudInv, TurnsInOrder
    <3>3. newest'[k] = newest[k]
      BY <1>10, <2>2, <3>2
    <3>4. Lasts(k)
      BY <3>3 DEF Lasts
    <3>5. newest[k] \in {raised[k], muted[k]}
      BY <2>3, <3>1, <3>3, <3>4 DEF HudInv, SaidIsRemembered
    <3> QED BY <1>5, <2>2, <2>5, <3>3, <3>5
  <2> QED BY <2>4, <2>5
<1>15. CardIsOfLatest'
  <2> SUFFICES ASSUME NEW i \in card', i.key \notin backward', Lasts(i.key)'
               PROVE  i.since = newest'[i.key]
    BY DEF CardIsOfLatest
  <2>1. PICK k \in wanting : i.key = k /\ i.since = w[k].since
    BY <1>1, <1>8
  <2> QED BY <1>12, <1>13, <2>1
<1>19. CardWithinNewest'
  <2> SUFFICES ASSUME NEW i \in card' PROVE i.since <= newest'[i.key]
    BY DEF CardWithinNewest
  <2>1. PICK k \in wanting : i.key = k /\ i.since = w[k].since
    BY <1>1, <1>8
  <2> QED BY <1>10, <2>1
<1>16. ~\E k \in admitted \ backward' : <<k, w[k].since>> \in spoken
  <2> SUFFICES ASSUME NEW k \in admitted \ backward', <<k, w[k].since>> \in spoken PROVE FALSE
    OBVIOUS
  <2>1. k \in Windows /\ k \in listed /\ w[k].since # 0 /\ w[k].since \in Nat
    BY <1>2, <1>4
  <2>2. w[k].since <= newest[k]
    BY <2>1 DEF HudInv, TurnsInOrder
  <2>3. w[k].since = newest[k] /\ k \notin backward
    BY <1>4, <1>10, <1>12, <2>1, <2>2
  <2>4. Lasts(k)
    BY <1>2, <2>1, <2>3 DEF Lasts
  <2>5. w[k].since \in {raised[k], muted[k]}
    BY <2>1, <2>3, <2>4 DEF HudInv, SaidIsRemembered
  <2> QED BY <1>1, <2>1, <2>5 DEF AH!SaidBefore
<1>17. repeated' = FALSE
  BY <1>1, <1>16 DEF HudInv
<1>18. HudTypeOK'
  <2>1. backward' \subseteq Windows
    BY <1>1
  <2>2. /\ DOMAIN agent' = Windows /\ \A k \in Windows : agent'[k] \in [1..Panes[k] -> PaneStates]
        /\ agentTurns' \in Nat
    BY DEF HudInv, HudTypeOK
  <2>3. frame' \in [Windows -> [status : Status, awaits : BOOLEAN, since : Nat]]
    BY <1>1, <1>3
  <2>4. lastSeen' \in [Windows -> Status]
    BY <1>1
  <2> QED BY <1>5, <1>7, <1>9, <2>1, <2>2, <2>3, <2>4 DEF HudTypeOK
<1> QED BY <1>9, <1>11, <1>14, <1>15, <1>17, <1>18, <1>19 DEF HudInv

-----------------------------------------------------------------------------
(* What the user waves away is remembered as it was in the last frame.     *)
LEMMA MuteKeeps ==
  ASSUME HudInv, NEW items \in SUBSET card, AH!Mute(items), AH!Close
  PROVE  HudInv'
<1>1. UNCHANGED <<agent, agentTurns, frame, lastSeen, raised, newest, backward, repeated>> /\ card' = {}
  BY DEF AH!Close
<1>2. /\ \A i \in items : i \in Item /\ i.since = frame[i.key].since
      /\ \A i, j \in items : i.key = j.key => i = j
  BY DEF HudInv, HudTypeOK, CardIsOfFrame
<1>3. \A i \in items : (CHOOSE j \in items : j.key = i.key).since = frame[i.key].since
  BY <1>2
<1>4. /\ muted' \in [Windows -> Nat]
      /\ \A k \in Windows : muted'[k] = muted[k] \/ \E i \in items : i.key = k /\ muted'[k] = i.since
      /\ \A i \in items : muted'[i.key] = frame[i.key].since
  <2>1. muted \in [Windows -> Nat] /\ \A k \in Windows : frame[k].since \in Nat
    BY DEF HudInv, HudTypeOK
  <2>2. \A k \in Windows :
          muted'[k] = IF \E i \in items : i.key = k
                      THEN (CHOOSE i \in items : i.key = k).since ELSE muted[k]
    BY DEF AH!Mute
  <2>3. \A k \in Windows : muted'[k] = IF \E i \in items : i.key = k THEN frame[k].since
                                       ELSE muted[k]
    BY <1>3, <2>2
  <2>4. DOMAIN muted' = Windows /\ muted' = [k \in Windows |-> muted'[k]]
    BY DEF AH!Mute
  <2> QED BY <1>2, <2>1, <2>3, <2>4 DEF Item
<1>5. spoken' = spoken \union {<<i.key, i.since>> : i \in {d \in items : d.since > 0}}
  BY DEF AH!Mute
<1>6. \A k \in Windows, s \in Nat : <<k, s>> \in spoken' =>
        <<k, s>> \in spoken \/ (muted'[k] = s /\ \E i \in items : i.key = k /\ i.since = s /\ s # 0)
  <2> SUFFICES ASSUME NEW k \in Windows, NEW s \in Nat, <<k, s>> \in spoken', <<k, s>> \notin spoken
               PROVE  muted'[k] = s /\ \E i \in items : i.key = k /\ i.since = s /\ s # 0
    OBVIOUS
  <2>1. PICK i \in items : i.since > 0 /\ i.key = k /\ i.since = s
    BY <1>5
  <2> QED BY <1>2, <1>4, <2>1
<1>7. spoken' \subseteq Windows \X (Nat \ {0})
  BY <1>2, <1>5 DEF Item, HudInv, HudTypeOK
<1>9. TurnsInOrder'
  <2>1. \A i \in items : i.since <= newest[i.key]
    BY DEF HudInv, CardWithinNewest
  <2> QED BY <1>1, <1>6, <2>1 DEF HudInv, TurnsInOrder
<1>10. SaidIsRemembered'
  <2> SUFFICES ASSUME NEW k \in Windows \ backward, Lasts(k), <<k, newest[k]>> \in spoken'
               PROVE  newest[k] \in {raised[k], muted'[k]}
    BY <1>1 DEF SaidIsRemembered, Lasts
  <2>1. newest[k] \in Nat
    BY DEF HudInv, HudTypeOK
  <2>2. CASE \E i \in items : i.key = k
    <3>1. PICK i \in items : i.key = k
      BY <2>2
    <3>2. i.since = newest[k]
      BY <3>1 DEF HudInv, CardIsOfLatest
    <3> QED BY <1>2, <1>4, <3>1, <3>2
  <2>3. CASE ~\E i \in items : i.key = k
    <3>1. muted'[k] = muted[k] /\ <<k, newest[k]>> \in spoken
      BY <1>4, <1>6, <2>1, <2>3
    <3> QED BY <3>1 DEF HudInv, SaidIsRemembered
  <2> QED BY <2>2, <2>3
<1>11. CardIsOfFrame' /\ CardIsOfLatest' /\ CardWithinNewest' /\ HudTypeOK'
  BY <1>1, <1>4, <1>7 DEF CardIsOfFrame, CardIsOfLatest, CardWithinNewest, HudTypeOK, HudInv
<1> QED BY <1>1, <1>9, <1>10, <1>11 DEF HudInv

LEMMA ActivateKeeps ==
  ASSUME HudInv, NEW i \in card, AH!Activate(i) PROVE HudInv'
BY MuteKeeps DEF AH!Activate
LEMMA DismissKeeps ==
  ASSUME HudInv, AH!Dismiss PROVE HudInv'
BY MuteKeeps DEF AH!Dismiss
LEMMA CollapseKeeps ==
  ASSUME HudInv, AH!Collapse PROVE HudInv'
<1>1. /\ card' = {} /\ UNCHANGED <<muted, spoken>>
      /\ UNCHANGED <<agent, agentTurns, frame, lastSeen, raised, newest, backward, repeated>>
  BY DEF AH!Collapse, AH!Close
<1> QED BY <1>1 DEF HudInv, HudTypeOK, TurnsInOrder, SaidIsRemembered, CardIsOfFrame,
                    CardIsOfLatest, CardWithinNewest, Lasts

(* Reloaded, the page has said nothing yet.                                *)
LEMMA HudReloadKeeps ==
  ASSUME HudInv, AH!Reload PROVE HudInv'
<1>1. /\ UNCHANGED <<agent, agentTurns, repeated>> /\ card' = {} /\ spoken' = {} /\ backward' = {}
      /\ frame' = [k \in Windows |-> AH!None] /\ lastSeen' = [k \in Windows |-> "none"]
      /\ raised' = [k \in Windows |-> 0] /\ muted' = raised' /\ newest' = raised'
  BY DEF AH!Reload
<1>2. HudTypeOK'
  BY <1>1 DEF HudInv, HudTypeOK, AH!None, Status
<1>3. TurnsInOrder'
  <2>1. agentTurns \in Nat /\ \A k \in Windows : newest'[k] = 0
    BY <1>1 DEF HudInv, HudTypeOK
  <2> QED BY <1>1, <2>1 DEF HudInv, TurnsInOrder
<1>4. SaidIsRemembered' /\ CardIsOfFrame' /\ CardIsOfLatest' /\ CardWithinNewest'
  BY <1>1 DEF SaidIsRemembered, CardIsOfFrame, CardIsOfLatest, CardWithinNewest
<1> QED BY <1>1, <1>2, <1>3, <1>4 DEF HudInv

LEMMA HudInitHolds == ASSUME AH!AhInit PROVE HudInv
<1>1. HudTypeOK
  BY DEF AH!AhInit, HudTypeOK, AH!None, AH!Running, PaneStates, Status
<1>2. TurnsInOrder
  BY DEF AH!AhInit, TurnsInOrder, AH!Running
<1>3. SaidIsRemembered /\ CardIsOfFrame /\ CardIsOfLatest /\ CardWithinNewest /\ repeated = FALSE
  BY DEF AH!AhInit, SaidIsRemembered, CardIsOfFrame, CardIsOfLatest, CardWithinNewest
<1> QED BY <1>1, <1>2, <1>3 DEF HudInv

LEMMA HudInductive == ASSUME HudInv, [AH!AhNext]_ahVars PROVE HudInv'
<1>1. ASSUME UNCHANGED <<agent, agentTurns, frame, lastSeen, raised, muted, card, spoken, newest,
                         backward, repeated>>
      PROVE  HudInv'
  BY <1>1 DEF HudInv, HudTypeOK, TurnsInOrder, SaidIsRemembered, CardIsOfFrame,
              CardIsOfLatest, CardWithinNewest, Lasts
<1>2. ASSUME NEW k \in Windows, AH!Cools(k) \/ AH!OverviewDismiss(k) PROVE HudInv'
  BY <1>1, <1>2 DEF AH!Cools, AH!OverviewDismiss, AH!Hud, AH!Said
<1>3. ASSUME AH!Looks \/ UNCHANGED ahVars PROVE HudInv'
  BY <1>1, <1>3 DEF AH!Looks, AH!Hud, AH!Said, ahVars
<1>4. ASSUME AH!FrameArrives PROVE HudInv'
  BY <1>4, FrameKeeps DEF AH!FrameArrives
<1> QED
  BY <1>2, <1>3, <1>4, AgentKeeps, ActivateKeeps, DismissKeeps, CollapseKeeps, HudReloadKeeps
  DEF AH!AhNext

(* A dated turn interrupts the user once while its window's dates do not   *)
(* go back, and a card speaks of the last frame, for any number of         *)
(* windows, panes, turns and frames (useAttentionHud.ts).                  *)
THEOREM DatedTurnInterruptsOnce == PageSpec => []TurnInterruptsOnce
<1>1. PageInit => HudInv
  BY HudInitHolds DEF PageInit
<1>2. HudInv /\ [PageNext]_<<focus, upVars, usVars, ccVars, ftVars, fpVars, ahVars, thVars,
                             urVars, trVars, qsVars>> => HudInv'
  <2>1. ASSUME PageNext PROVE [AH!AhNext]_ahVars
    BY <2>1 DEF PageNext
  <2> QED BY <2>1, HudInductive
<1>3. HudInv => TurnInterruptsOnce
  BY DEF HudInv, CardIsOfFrame, TurnInterruptsOnce, AH!TurnInterruptsOnce
<1> QED BY <1>1, <1>2, <1>3, PTL DEF PageSpec

-----------------------------------------------------------------------------
(***************************************************************************)
(* The clipboard history.                                                  *)
(*                                                                         *)
(* A frame brings the entry its cursor names, or none; a poll is about the *)
(* epoch it was asked in, from a cursor that the client has not fallen     *)
(* behind since: nothing but a poll's own answer takes the cursor back.    *)
(* Whatever is kept or deleted was made before, so that the entry made     *)
(* next was never deleted.                                                 *)
(***************************************************************************)
Entry == Nat \X Nat
Delta == [epoch : Nat \ {0}, cursor : Nat, entries : SUBSET Entry]
Flags == [pc : {"off", "ready"}, force : BOOLEAN, aborted : BOOLEAN]
AskedPoll == [pc : {"asked"}, force : BOOLEAN, aborted : BOOLEAN, epoch : Nat, since : Nat,
              wait : BOOLEAN]
AnsweredPoll == [pc : {"answered"}, force : BOOLEAN, aborted : BOOLEAN, data : Delta]
Polls == Flags \union AskedPoll \union AnsweredPoll
Timers == {"off", "on", "force"}
Client == [epoch : Nat, cursor : Nat, known : SUBSET Entry, list : SUBSET Entry,
           init : BOOLEAN, loaded : BOOLEAN, poll : Polls, wanted : BOOLEAN,
           timer : Timers, owners : SUBSET Sockets, attached : BOOLEAN, dirty : BOOLEAN]

(* The entries made so far, and the frames that tell of them               *)
Made(a) == {e \in Entry : e[1] < a.epoch \/ (e[1] = a.epoch /\ e[2] <= a.seq)}
OneEntry(f) ==
  \/ f.entries = {}
  \/ f.cursor \in 1..MaxSeq /\ f.entries = {<<f.epoch, f.cursor>>}
Frames(a) == {f \in Delta : OneEntry(f) /\ f.entries \subseteq Made(a)}

(* The answer is of all there is, or begins no later than what is here     *)
ReachesBack(cl, d) ==
  \E from \in Nat \ {0} :
    /\ d.entries = CC!Entries(d.epoch, from, d.cursor)
    /\ from = 1 \/ (cl.epoch = d.epoch /\ from - 1 <= cl.cursor)
PollRight(cl) ==
  /\ cl.poll.pc \in {"asked", "answered"} => cl.loaded
  /\ cl.poll.pc = "asked" =>
       cl.poll.epoch = 0 \/ (cl.poll.epoch = cl.epoch /\ cl.poll.since <= cl.cursor)
  /\ cl.poll.pc = "answered" => ReachesBack(cl, cl.poll.data)
Sane(cl) == cl \in Client /\ PollRight(cl) /\ (cl.init => cl.epoch # 0)

ClientRight ==
  /\ Sane(c) /\ c.list \intersect removed = {}
  /\ c.known \union c.list \subseteq Made(app)
  /\ c.poll.pc = "answered" => c.poll.data.entries \subseteq Made(app)
StoreRight ==
  /\ stored \in [epoch : Nat, cursor : Nat, list : SUBSET Entry, known : SUBSET Entry]
  /\ removed \in SUBSET Entry
  /\ removed \union stored.known \union stored.list \subseteq Made(app)
FramesRight == ws \in [Sockets -> [up : BOOLEAN, q : Seq(Frames(app))]]
ClipInv ==
  app \in [epoch : Nat \ {0}, seq : Nat] /\ ClientRight /\ StoreRight /\ FramesRight

(* The action the property is about                                        *)
StaysWhole ==
  /\ c.loaded /\ c'.loaded /\ c.init /\ CC!Whole(c) => CC!Whole(c)'
  /\ c'.list \intersect removed' = {}

-----------------------------------------------------------------------------
(* A turn of the client that learns nothing                                *)
SamePoll(p, q) ==
  \/ p.pc \in {"off", "ready"}
  \/ /\ p.pc = q.pc
     /\ p.pc = "asked" => p.epoch = q.epoch /\ p.since = q.since
     /\ p.pc = "answered" => p.data = q.data
Quiet(o, cl) ==
  /\ o \in Client /\ SamePoll(o.poll, cl.poll)
  /\ o.epoch = cl.epoch /\ o.cursor = cl.cursor /\ o.known = cl.known /\ o.list = cl.list
  /\ o.init = cl.init /\ o.loaded = cl.loaded

LEMMA QuietSets ==
  ASSUME NEW cl \in Client, NEW w \in BOOLEAN, NEW t \in Timers, NEW ow \in SUBSET Sockets,
         NEW b \in BOOLEAN, NEW p \in Polls, SamePoll(p, cl.poll)
  PROVE  /\ Quiet(cl, cl)
         /\ Quiet([cl EXCEPT !.wanted = w], cl)
         /\ Quiet([cl EXCEPT !.timer = t], cl)
         /\ Quiet([cl EXCEPT !.owners = ow], cl)
         /\ Quiet([cl EXCEPT !.attached = b], cl)
         /\ Quiet([cl EXCEPT !.dirty = b], cl)
         /\ Quiet([cl EXCEPT !.poll = p], cl)
         /\ Quiet([cl EXCEPT !.wanted = w, !.timer = t], cl)
         /\ Quiet([cl EXCEPT !.wanted = w, !.timer = t, !.poll = p], cl)
         /\ Quiet([cl EXCEPT !.owners = ow, !.timer = t, !.wanted = w, !.poll = p], cl)
<1>1. SamePoll(cl.poll, cl.poll)
  BY DEF SamePoll
<1> HIDE DEF SamePoll
<1> QED BY <1>1 DEF Quiet, Client

LEMMA QuietTwice ==
  ASSUME NEW a, NEW b, NEW d, Quiet(b, a), Quiet(d, b)
  PROVE  Quiet(d, a)
BY DEF Quiet, SamePoll

(* Given up, a poll is about what it was about.                            *)
LEMMA PollAborted ==
  ASSUME NEW p \in Polls, NEW b \in BOOLEAN
  PROVE  [p EXCEPT !.aborted = b] \in Polls /\ SamePoll([p EXCEPT !.aborted = b], p)
<1>1. CASE p \in Flags
  BY <1>1 DEF Polls, Flags, SamePoll
<1>2. CASE p \in AskedPoll
  BY <1>2 DEF Polls, AskedPoll, SamePoll
<1>3. CASE p \in AnsweredPoll
  BY <1>3 DEF Polls, AnsweredPoll, SamePoll
<1> QED BY <1>1, <1>2, <1>3 DEF Polls

LEMMA NewPoll ==
  ASSUME NEW b \in BOOLEAN, NEW q
  PROVE  /\ [CC!Idle EXCEPT !.pc = "ready", !.force = b] \in Polls
         /\ SamePoll([CC!Idle EXCEPT !.pc = "ready", !.force = b], q)
         /\ CC!Idle \in Polls /\ SamePoll(CC!Idle, q)
BY DEF CC!Idle, Polls, Flags, SamePoll

LEMMA PollQuiet ==
  ASSUME NEW cl \in Client, NEW force \in BOOLEAN
  PROVE  Quiet(CC!Poll(cl, force), cl)
<1> DEFINE ready == [CC!Idle EXCEPT !.pc = "ready", !.force = force]
           w == cl.wanted \/ force
           u == cl.wanted /\ ~force
<1>1. w \in BOOLEAN /\ u \in BOOLEAN
  BY DEF Client
<1>2. ready \in Polls /\ SamePoll(ready, cl.poll)
  BY NewPoll
<1>3. \/ CC!Poll(cl, force) = cl
      \/ CC!Poll(cl, force) = [cl EXCEPT !.wanted = w]
      \/ CC!Poll(cl, force) = [cl EXCEPT !.wanted = u, !.timer = "off", !.poll = ready]
  BY DEF CC!Poll
<1>4. cl.timer \in Timers /\ cl.owners \in SUBSET Sockets
  BY DEF Client
<1> HIDE DEF ready, w, u
<1>5. "off" \in Timers
  BY DEF Timers
<1>6. Quiet(cl, cl) /\ Quiet([cl EXCEPT !.wanted = w], cl)
  BY <1>1, <1>2, <1>4, QuietSets
<1>7. Quiet([cl EXCEPT !.wanted = u, !.timer = "off", !.poll = ready], cl)
  BY <1>1, <1>2, <1>4, <1>5, QuietSets
<1> QED BY <1>3, <1>6, <1>7

LEMMA PollOverQuiet ==
  ASSUME NEW cl \in Client
  PROVE  Quiet(CC!PollOver(cl), cl)
<1> DEFINE o == [cl EXCEPT !.poll = CC!Idle]
           t == IF o.wanted THEN "force" ELSE "on"
<1>1. cl.timer \in Timers /\ cl.owners \in SUBSET Sockets /\ cl.wanted \in BOOLEAN
  BY DEF Client
<1>2. Quiet(o, cl)
  BY <1>1, NewPoll, QuietSets
<1>3. o \in Client /\ t \in Timers
  BY <1>2 DEF Quiet, Timers
<1>4. \/ CC!PollOver(cl) = CC!Poll([o EXCEPT !.wanted = FALSE], TRUE)
      \/ CC!PollOver(cl) = [o EXCEPT !.wanted = FALSE, !.timer = t]
      \/ CC!PollOver(cl) = o
  BY DEF CC!PollOver
<1> HIDE DEF o, t
<1>5. SamePoll(o.poll, o.poll) /\ o.poll \in Polls /\ o.owners \in SUBSET Sockets
  BY <1>3 DEF SamePoll, Client
<1>6. Quiet([o EXCEPT !.wanted = FALSE], o) /\ Quiet([o EXCEPT !.wanted = FALSE, !.timer = t], o)
  BY <1>3, <1>5, QuietSets
<1>7. Quiet(CC!Poll([o EXCEPT !.wanted = FALSE], TRUE), [o EXCEPT !.wanted = FALSE])
  BY <1>6, PollQuiet DEF Quiet
<1>8. Quiet(CC!Poll([o EXCEPT !.wanted = FALSE], TRUE), o)
  BY <1>6, <1>7, QuietTwice
<1>9. /\ Quiet(CC!Poll([o EXCEPT !.wanted = FALSE], TRUE), cl)
      /\ Quiet([o EXCEPT !.wanted = FALSE, !.timer = t], cl)
  BY <1>2, <1>6, <1>8, QuietTwice
<1> QED BY <1>2, <1>4, <1>9

LEMMA ClaimQuiet ==
  ASSUME NEW cl \in Client, NEW s \in Sockets
  PROVE  Quiet(CC!Claimed(cl, s), cl)
<1> DEFINE p == [cl.poll EXCEPT !.aborted = CC!Polling(cl)]
           ow == cl.owners \union {s}
           w == cl.wanted \/ ~cl.init
           o == [cl EXCEPT !.owners = ow, !.timer = "off", !.wanted = w, !.poll = p]
<1>1. /\ cl.timer \in Timers /\ ow \in SUBSET Sockets /\ w \in BOOLEAN /\ cl.poll \in Polls
      /\ "off" \in Timers
  BY DEF Client, Timers
<1>2. p \in Polls /\ SamePoll(p, cl.poll)
  BY <1>1, PollAborted DEF CC!Polling
<1>3. \/ CC!Claimed(cl, s) = cl
      \/ CC!Claimed(cl, s) = CC!Poll([o EXCEPT !.wanted = FALSE], TRUE)
      \/ CC!Claimed(cl, s) = o
  BY DEF CC!Claimed, CC!Claim
<1> HIDE DEF p, ow, w
<1>4. Quiet(o, cl) /\ Quiet(cl, cl)
  BY <1>1, <1>2, QuietSets
<1>5. o \in Client
  BY <1>4 DEF Quiet
<1> HIDE DEF o
<1>6. Quiet([o EXCEPT !.wanted = FALSE], o)
  <2>1. SamePoll(o.poll, o.poll) /\ o.poll \in Polls /\ o.owners \in SUBSET Sockets
        /\ o.timer \in Timers
    BY <1>5 DEF SamePoll, Client
  <2> QED BY <1>5, <2>1, QuietSets
<1>7. Quiet(CC!Poll([o EXCEPT !.wanted = FALSE], TRUE), [o EXCEPT !.wanted = FALSE])
  BY <1>6, PollQuiet DEF Quiet
<1> QED BY <1>3, <1>4, <1>6, <1>7, QuietTwice

LEMMA ReleaseQuiet ==
  ASSUME NEW cl \in Client, NEW s
  PROVE  Quiet(CC!Release(cl, s), cl)
<1> DEFINE o == [cl EXCEPT !.owners = cl.owners \ {s}]
<1>1. cl.timer \in Timers /\ cl.owners \ {s} \in SUBSET Sockets /\ cl.poll \in Polls
      /\ SamePoll(cl.poll, cl.poll)
  BY DEF Client, SamePoll
<1>2. Quiet(o, cl)
  BY <1>1, QuietSets
<1>3. CC!Release(cl, s) = o \/ CC!Release(cl, s) = CC!Poll(o, FALSE)
  BY DEF CC!Release
<1> HIDE DEF o
<1>4. Quiet(CC!Poll(o, FALSE), o)
  BY <1>2, PollQuiet DEF Quiet
<1>5. Quiet(CC!Poll(o, FALSE), cl)
  BY <1>2, <1>4, QuietTwice
<1> QED BY <1>2, <1>3, <1>5

LEMMA WantSnapshotQuiet ==
  ASSUME NEW cl \in Client
  PROVE  Quiet(CC!WantSnapshot(cl), cl)
<1>1. cl.timer \in Timers /\ cl.owners \in SUBSET Sockets /\ cl.poll \in Polls
      /\ SamePoll(cl.poll, cl.poll)
  BY DEF Client, SamePoll
<1>2. Quiet([cl EXCEPT !.wanted = TRUE], cl)
  BY <1>1, QuietSets
<1>3. Quiet(CC!WantSnapshot(cl), [cl EXCEPT !.wanted = TRUE])
  BY <1>2, PollQuiet DEF Quiet, CC!WantSnapshot
<1> QED BY <1>2, <1>3, QuietTwice

-----------------------------------------------------------------------------
(***************************************************************************)
(* A turn of the client that learns of the entries es: what it knows and   *)
(* shows grows by them, and whole it stays whole.                          *)
(***************************************************************************)
Grows(o, cl, es) ==
  /\ Sane(o) /\ o.loaded = cl.loaded
  /\ cl.known \subseteq o.known /\ o.known \subseteq cl.known \union es
  /\ o.list \subseteq cl.list \union (es \ removed)
  /\ o.poll.pc = "answered" => cl.poll.pc = "answered" /\ o.poll.data = cl.poll.data
  /\ cl.init /\ CC!Whole(cl) => CC!Whole(o)

LEMMA QuietKeepsPoll ==
  ASSUME NEW cl, NEW o, PollRight(cl), Quiet(o, cl)
  PROVE  /\ PollRight(o)
         /\ o.poll.pc = "answered" => cl.poll.pc = "answered" /\ o.poll.data = cl.poll.data
<1>1. ASSUME NEW d PROVE ReachesBack(o, d) <=> ReachesBack(cl, d)
  BY DEF ReachesBack, Quiet
<1> QED BY <1>1 DEF PollRight, Quiet, SamePoll

LEMMA QuietGrows ==
  ASSUME NEW cl, NEW o, Sane(cl), Quiet(o, cl)
  PROVE  Grows(o, cl, {})
<1>1. PollRight(o) /\ (o.poll.pc = "answered" => cl.poll.pc = "answered" /\ o.poll.data = cl.poll.data)
  BY QuietKeepsPoll DEF Sane
<1>2. CC!Whole(o) <=> CC!Whole(cl)
  BY DEF Quiet, CC!Whole
<1> QED BY <1>1, <1>2 DEF Grows, Sane, Quiet

LEMMA GrowsQuietly ==
  ASSUME NEW a, NEW b, NEW d, NEW es, Grows(b, a, es), Quiet(d, b)
  PROVE  Grows(d, a, es)
<1>1. Grows(d, b, {})
  BY QuietGrows DEF Grows
<1>2. CC!Whole(d) <=> CC!Whole(b)
  BY DEF Quiet, CC!Whole
<1> QED BY <1>1, <1>2 DEF Grows

LEMMA QuietThenGrows ==
  ASSUME NEW a, NEW b, NEW d, NEW es, Sane(a), Quiet(b, a), Grows(d, b, es)
  PROVE  Grows(d, a, es)
<1>1. Grows(b, a, {})
  BY QuietGrows
<1>2. b.init = a.init
  BY DEF Quiet
<1> QED BY <1>1, <1>2 DEF Grows

(* accept                                                                  *)
LEMMA AcceptDoes ==
  ASSUME NEW cl \in Client, NEW d \in Delta
  PROVE  LET o == CC!Accept(cl, d)
             new == {e \in d.entries : e \notin cl.known /\ e \notin removed}
         IN /\ o \in Client /\ o.epoch = d.epoch /\ o.init /\ o.loaded = cl.loaded
            /\ o.known = cl.known \union new /\ o.list = cl.list \union new
            /\ o.poll = cl.poll
            /\ o.cursor = IF cl.epoch = d.epoch /\ d.cursor < cl.cursor THEN cl.cursor
                          ELSE d.cursor
<1> DEFINE new == {e \in d.entries : e \notin cl.known /\ e \notin removed}
           cur == IF cl.epoch = d.epoch /\ d.cursor < cl.cursor THEN cl.cursor ELSE d.cursor
<1>1. /\ new \in SUBSET Entry /\ cur \in Nat /\ d.epoch \in Nat
      /\ cl.known \union new \in SUBSET Entry /\ cl.list \union new \in SUBSET Entry
  BY DEF Client, Delta
<1>2. CC!Accept(cl, d) =
        [cl EXCEPT !.known = cl.known \union new, !.list = cl.list \union new, !.init = TRUE,
                   !.dirty = TRUE, !.cursor = cur, !.epoch = d.epoch]
  BY DEF CC!Accept, Client
<1> HIDE DEF new, cur
<1> DEFINE with(k, l, n, e) == [cl EXCEPT !.known = k, !.list = l, !.init = TRUE,
                                          !.dirty = TRUE, !.cursor = n, !.epoch = e]
<1>3. ASSUME NEW k \in SUBSET Entry, NEW l \in SUBSET Entry, NEW n \in Nat, NEW e \in Nat
      PROVE  /\ with(k, l, n, e) \in Client /\ with(k, l, n, e).epoch = e
             /\ with(k, l, n, e).init /\ with(k, l, n, e).loaded = cl.loaded
             /\ with(k, l, n, e).known = k /\ with(k, l, n, e).list = l
             /\ with(k, l, n, e).poll = cl.poll /\ with(k, l, n, e).cursor = n
  BY DEF Client
<1>4. /\ CC!Accept(cl, d) \in Client /\ CC!Accept(cl, d).epoch = d.epoch
      /\ CC!Accept(cl, d).init /\ CC!Accept(cl, d).loaded = cl.loaded
      /\ CC!Accept(cl, d).known = cl.known \union new
      /\ CC!Accept(cl, d).list = cl.list \union new
      /\ CC!Accept(cl, d).poll = cl.poll /\ CC!Accept(cl, d).cursor = cur
  <2> DEFINE k == cl.known \union new
             l == cl.list \union new
  <2>1. k \in SUBSET Entry /\ l \in SUBSET Entry
    BY <1>1
  <2>2. CC!Accept(cl, d) = with(k, l, cur, d.epoch)
    BY <1>2
  <2> HIDE DEF k, l, with
  <2>3. /\ CC!Accept(cl, d) \in Client /\ CC!Accept(cl, d).epoch = d.epoch
        /\ CC!Accept(cl, d).init /\ CC!Accept(cl, d).loaded = cl.loaded
        /\ CC!Accept(cl, d).known = k /\ CC!Accept(cl, d).list = l
        /\ CC!Accept(cl, d).poll = cl.poll /\ CC!Accept(cl, d).cursor = cur
    BY <1>1, <1>3, <2>1, <2>2
  <2> QED BY <2>3 DEF k, l
<1> QED BY <1>4 DEF new, cur

(* applyClipboardDelta                                                     *)
LEMMA DeltaGrows ==
  ASSUME MaxSeq \in Nat, NEW cl, Sane(cl), NEW f \in Delta, OneEntry(f)
  PROVE  Grows(CC!ApplyDelta(cl, f), cl, f.entries)
<1> DEFINE o == CC!ApplyDelta(cl, f)
<1>1. /\ cl \in Client /\ cl.epoch \in Nat /\ cl.cursor \in Nat /\ cl.init \in BOOLEAN
      /\ f.epoch \in Nat \ {0} /\ f.cursor \in Nat
  BY DEF Sane, Client, Delta
<1>2. ASSUME NEW x, Quiet(x, cl) PROVE Grows(x, cl, f.entries)
  BY <1>2, QuietGrows DEF Grows
<1>3. CASE o = CC!WantSnapshot(cl) \/ o = cl
  <2>1. Quiet(cl, cl)
    BY <1>1 DEF Quiet, SamePoll
  <2> QED BY <1>1, <1>2, <1>3, <2>1, WantSnapshotQuiet
<1>4. CASE /\ cl.epoch = 0 \/ f.epoch = cl.epoch
           /\ cl.init => cl.epoch = f.epoch /\ f.cursor > cl.cursor
           /\ ~CC!GapSeen(cl, f) /\ f.entries # {} /\ o = CC!Accept(cl, f)
  <2> DEFINE new == {e \in f.entries : e \notin cl.known /\ e \notin removed}
  <2>1. /\ o \in Client /\ o.epoch = f.epoch /\ o.init /\ o.loaded = cl.loaded
        /\ o.known = cl.known \union new /\ o.list = cl.list \union new /\ o.poll = cl.poll
        /\ o.cursor = IF cl.epoch = f.epoch /\ f.cursor < cl.cursor THEN cl.cursor ELSE f.cursor
    BY <1>1, <1>4, AcceptDoes
  <2>2. f.cursor \in 1..MaxSeq /\ f.entries = {<<f.epoch, f.cursor>>}
    BY <1>4 DEF OneEntry
  <2>3. CC!First(f) = f.cursor
    <3>1. \A n \in 1..MaxSeq : <<f.epoch, n>> \in f.entries <=> n = f.cursor
      BY <2>2
    <3>2. \A n \in 1..MaxSeq :
            (<<f.epoch, n>> \in f.entries /\ \A m \in 1..(n - 1) : <<f.epoch, m>> \notin f.entries)
              <=> n = f.cursor
      BY <2>2, <3>1
    <3> QED BY <2>2, <3>2 DEF CC!First
  <2>4. PollRight(o)
    <3>1. cl.epoch = o.epoch => cl.cursor <= o.cursor
      BY <1>1, <2>1
    <3>2. PollRight(cl)
      BY DEF Sane
    <3>3. CASE cl.poll.pc = "asked"
      <4>1. cl.poll.epoch = 0 \/ (cl.poll.epoch = cl.epoch /\ cl.poll.since <= cl.cursor)
        BY <3>2, <3>3 DEF PollRight
      <4>2. cl.poll.since \in Nat
        BY <1>1, <3>3 DEF Client, Polls, Flags, AskedPoll, AnsweredPoll
      <4>3. cl.poll.epoch = 0 \/ (cl.poll.epoch = o.epoch /\ cl.poll.since <= o.cursor)
        BY <1>1, <1>4, <2>1, <3>1, <4>1, <4>2
      <4> QED BY <2>1, <3>2, <3>3, <4>3 DEF PollRight
    <3>4. CASE cl.poll.pc = "answered"
      <4>1. ReachesBack(cl, cl.poll.data) /\ cl.poll.data.epoch # 0
        BY <1>1, <3>2, <3>4 DEF PollRight, Client, Polls, Flags, AskedPoll, AnsweredPoll, Delta
      <4>2. ReachesBack(o, cl.poll.data)
        BY <1>1, <1>4, <2>1, <3>1, <4>1 DEF ReachesBack
      <4> QED BY <2>1, <3>2, <3>4, <4>2 DEF PollRight
    <3> QED BY <2>1, <3>2, <3>3, <3>4 DEF PollRight
  <2>5. ASSUME cl.init, CC!Whole(cl) PROVE CC!Whole(o)
    <3>1. cl.epoch = f.epoch /\ f.cursor = cl.cursor + 1 /\ o.cursor = f.cursor
      BY <1>1, <1>4, <2>1, <2>2, <2>3, <2>5 DEF CC!GapSeen
    <3>2. \A n \in 1..cl.cursor : <<cl.epoch, n>> \in cl.known \union removed
      BY <2>5 DEF CC!Whole, CC!Entries
    <3>3. <<cl.epoch, f.cursor>> \in o.known \union removed
      BY <2>1, <2>2, <3>1
    <3>4. \A n \in 1..o.cursor : n \in 1..cl.cursor \/ n = f.cursor
      BY <1>1, <3>1
    <3>5. \A n \in 1..o.cursor : <<o.epoch, n>> \in o.known \union removed
      BY <2>1, <3>1, <3>2, <3>3, <3>4
    <3> QED BY <3>5 DEF CC!Whole, CC!Entries
  <2>6. o.epoch # 0
    BY <1>1, <2>1
  <2> QED BY <2>1, <2>4, <2>5, <2>6 DEF Grows, Sane
<1>5. CASE /\ cl.epoch = 0 \/ f.epoch = cl.epoch
           /\ cl.init => cl.epoch = f.epoch /\ f.cursor <= cl.cursor
           /\ o = [cl EXCEPT !.epoch = f.epoch, !.cursor = IF f.cursor > @ THEN f.cursor ELSE @,
                             !.wanted = @ \/ ~cl.init]
  <2> DEFINE cur == IF f.cursor > cl.cursor THEN f.cursor ELSE cl.cursor
             w == cl.wanted \/ ~cl.init
  <2>1. o = [cl EXCEPT !.epoch = f.epoch, !.cursor = cur, !.wanted = w]
    BY <1>1, <1>5 DEF Client
  <2>2. cur \in Nat /\ cl.cursor <= cur /\ w \in BOOLEAN
    BY <1>1 DEF Client
  <2> HIDE DEF o, w, cur
  <2>3. /\ o \in Client /\ o.epoch = f.epoch /\ o.cursor = cur /\ o.init = cl.init
        /\ o.loaded = cl.loaded /\ o.known = cl.known /\ o.list = cl.list /\ o.poll = cl.poll
    BY <1>1, <2>1, <2>2 DEF Client
  <2>4. PollRight(o)
    <3>1. cl.epoch = o.epoch => cl.cursor <= o.cursor
      BY <2>2, <2>3
    <3>2. PollRight(cl)
      BY DEF Sane
    <3>3. CASE cl.poll.pc = "asked"
      <4>1. cl.poll.epoch = 0 \/ (cl.poll.epoch = cl.epoch /\ cl.poll.since <= cl.cursor)
        BY <3>2, <3>3 DEF PollRight
      <4>2. cl.poll.since \in Nat
        BY <1>1, <3>3 DEF Client, Polls, Flags, AskedPoll, AnsweredPoll
      <4>3. cl.poll.epoch = 0 \/ (cl.poll.epoch = o.epoch /\ cl.poll.since <= o.cursor)
        BY <1>1, <1>5, <2>2, <2>3, <3>1, <4>1, <4>2
      <4> QED BY <2>3, <3>2, <3>3, <4>3 DEF PollRight
    <3>4. CASE cl.poll.pc = "answered"
      <4>1. ReachesBack(cl, cl.poll.data) /\ cl.poll.data.epoch # 0
        BY <1>1, <3>2, <3>4 DEF PollRight, Client, Polls, Flags, AskedPoll, AnsweredPoll, Delta
      <4>2. ReachesBack(o, cl.poll.data)
        BY <1>1, <1>5, <2>2, <2>3, <3>1, <4>1 DEF ReachesBack
      <4> QED BY <2>3, <3>2, <3>4, <4>2 DEF PollRight
    <3> QED BY <2>3, <3>2, <3>3, <3>4 DEF PollRight
  <2>5. cl.init /\ CC!Whole(cl) => CC!Whole(o)
    <3>1. cl.init => o.epoch = cl.epoch /\ o.cursor = cl.cursor
      BY <1>1, <1>5, <2>3 DEF cur
    <3> QED BY <2>3, <3>1 DEF CC!Whole
  <2>6. o.epoch # 0
    BY <1>1, <2>3
  <2>7. Grows(o, cl, f.entries)
    BY <2>3, <2>4, <2>5, <2>6 DEF Grows, Sane
  <2> QED BY <2>7 DEF o
<1>6. cl.init => cl.epoch # 0
  BY DEF Sane
<1> QED BY <1>1, <1>3, <1>4, <1>5, <1>6 DEF CC!ApplyDelta

(* The answer of a poll, and what the poll's end leads to                  *)
LEMMA AnswerGrows ==
  ASSUME NEW cl, Sane(cl), cl.poll.pc = "answered"
  PROVE  Grows(CC!PollOver(CC!PollResult(cl, cl.poll.data)), cl, cl.poll.data.entries)
<1> DEFINE d == cl.poll.data
           r == CC!PollResult(cl, d)
           o == CC!PollOver(r)
<1>1. /\ cl \in Client /\ cl.epoch \in Nat /\ cl.cursor \in Nat /\ cl.init \in BOOLEAN
      /\ d \in Delta /\ d.epoch \in Nat \ {0} /\ d.cursor \in Nat
  BY DEF Sane, Client, Polls, Flags, AskedPoll, AnsweredPoll, Delta
<1>2. PICK from \in Nat \ {0} :
        /\ d.entries = CC!Entries(d.epoch, from, d.cursor)
        /\ from = 1 \/ (cl.epoch = d.epoch /\ from - 1 <= cl.cursor)
  BY DEF Sane, PollRight, ReachesBack
<1>3. \A n \in Nat : <<d.epoch, n>> \in d.entries <=> from <= n /\ n <= d.cursor
  <2>1. d.entries = {<<d.epoch, n>> : n \in from..d.cursor}
    BY <1>2 DEF CC!Entries
  <2> QED BY <1>1, <2>1
<1> HIDE DEF d
<1>4. /\ r \in Client /\ r.loaded = cl.loaded /\ (r.init => r.epoch # 0)
      /\ cl.known \subseteq r.known /\ r.known \subseteq cl.known \union d.entries
      /\ r.list \subseteq cl.list \union (d.entries \ removed)
      /\ CC!Whole(cl) => CC!Whole(r)
  <2>1. CASE d.entries # {} \/ cl.epoch # d.epoch
    <3> DEFINE new == {e \in d.entries : e \notin cl.known /\ e \notin removed}
    <3>1. /\ r \in Client /\ r.epoch = d.epoch /\ r.init /\ r.loaded = cl.loaded
          /\ r.known = cl.known \union new /\ r.list = cl.list \union new
          /\ r.cursor = IF cl.epoch = d.epoch /\ d.cursor < cl.cursor THEN cl.cursor ELSE d.cursor
      BY <1>1, <2>1, AcceptDoes DEF CC!PollResult
    <3>2. ASSUME CC!Whole(cl) PROVE CC!Whole(r)
      <4>1. \A n \in 1..cl.cursor : <<cl.epoch, n>> \in cl.known \union removed
        BY <3>2 DEF CC!Whole, CC!Entries
      <4>2. ASSUME NEW n \in 1..r.cursor PROVE <<r.epoch, n>> \in r.known \union removed
        <5>1. CASE from <= n /\ n <= d.cursor
          BY <1>3, <3>1, <5>1
        <5>2. CASE ~(from <= n /\ n <= d.cursor)
          <6>1. cl.epoch = d.epoch /\ n \in 1..cl.cursor
            BY <1>1, <1>2, <3>1, <5>2
          <6> QED BY <3>1, <4>1, <6>1
        <5> QED BY <5>1, <5>2
      <4> QED BY <4>2 DEF CC!Whole, CC!Entries
    <3>3. r.epoch # 0
      BY <1>1, <3>1
    <3> QED BY <3>1, <3>2, <3>3
  <2>2. CASE d.entries = {} /\ cl.epoch = d.epoch
    <3>1. r = [cl EXCEPT !.cursor = d.cursor, !.init = TRUE]
      BY <2>2 DEF CC!PollResult
    <3>2. /\ r \in Client /\ r.epoch = cl.epoch /\ r.loaded = cl.loaded /\ r.known = cl.known
          /\ r.list = cl.list /\ r.cursor = d.cursor
      BY <1>1, <3>1 DEF Client
    <3>3. d.cursor <= cl.cursor \/ d.cursor = 0
      <4>1. d.cursor < from
        BY <1>1, <1>3, <2>2
      <4> QED BY <1>1, <1>2, <4>1
    <3>4. ASSUME CC!Whole(cl) PROVE CC!Whole(r)
      <4>1. \A n \in 1..cl.cursor : <<cl.epoch, n>> \in cl.known \union removed
        BY <3>4 DEF CC!Whole, CC!Entries
      <4>2. \A n \in 1..r.cursor : n \in 1..cl.cursor
        BY <1>1, <3>2, <3>3
      <4> QED BY <3>2, <4>1, <4>2 DEF CC!Whole, CC!Entries
    <3>5. r.epoch # 0
      BY <1>1, <2>2, <3>2
    <3> QED BY <3>2, <3>4, <3>5
  <2> QED BY <2>1, <2>2
<1>5. Quiet(o, r)
  BY <1>4, PollOverQuiet
<1>6. o.poll.pc \in {"off", "ready"}
  BY <1>4 DEF CC!PollOver, CC!Poll, CC!Idle, CC!Polling, Client
<1>7. o \in Client /\ o.epoch = r.epoch /\ o.cursor = r.cursor /\ o.known = r.known
      /\ o.list = r.list /\ o.init = r.init /\ o.loaded = r.loaded
  BY <1>5 DEF Quiet
<1>8. CC!Whole(o) <=> CC!Whole(r)
  BY <1>7 DEF CC!Whole
<1> HIDE DEF o, r
<1>9. PollRight(o)
  BY <1>6 DEF PollRight
<1>10. Grows(o, cl, d.entries)
  BY <1>4, <1>6, <1>7, <1>8, <1>9 DEF Grows, Sane
<1> QED BY <1>10 DEF o, r, d

-----------------------------------------------------------------------------
(***************************************************************************)
(* The steps of the page and of the app.                                   *)
(***************************************************************************)
LEMMA ClientGrew ==
  ASSUME ClipInv, NEW es \in SUBSET Made(app), Grows(c', c, es), FramesRight',
         UNCHANGED <<app, stored, removed>>
  PROVE  ClipInv' /\ StaysWhole
<1>1. CC!Whole(c)' <=> CC!Whole(c')
  BY DEF CC!Whole
<1>2. ClientRight'
  BY DEF ClipInv, ClientRight, Grows
<1>3. StoreRight'
  BY DEF ClipInv, StoreRight
<1>4. c'.list \intersect removed' = {}
  BY <1>2 DEF ClientRight
<1>5. c.init /\ CC!Whole(c) => CC!Whole(c)'
  BY <1>1 DEF Grows
<1> QED BY <1>2, <1>3, <1>4, <1>5 DEF ClipInv, StaysWhole

(* A step of which the client learns nothing                               *)
LEMMA ClientQuiet ==
  ASSUME ClipInv, Quiet(c', c), FramesRight', UNCHANGED <<app, stored, removed>>
  PROVE  ClipInv' /\ StaysWhole
<1>1. Grows(c', c, {})
  BY QuietGrows DEF ClipInv, ClientRight
<1> QED BY <1>1, ClientGrew

LEMMA FramesPushed ==
  ASSUME ClipInv, MaxSeq \in Nat, app.seq < MaxSeq, app' = [app EXCEPT !.seq = @ + 1],
         NEW to \in SUBSET Sockets, ws' = CC!Pushed(to)
  PROVE  FramesRight'
<1>1. app \in [epoch : Nat \ {0}, seq : Nat] /\ ws \in [Sockets -> [up : BOOLEAN, q : Seq(Frames(app))]]
  BY DEF ClipInv, FramesRight
<1>2. app'.epoch = app.epoch /\ app'.seq = app.seq + 1 /\ app.seq + 1 \in 1..MaxSeq
  BY <1>1
<1> DEFINE f == [epoch |-> app.epoch, cursor |-> app.seq + 1,
                 entries |-> {<<app.epoch, app.seq + 1>>}]
<1>3. Frames(app) \subseteq Frames(app')
  <2>1. Made(app) \subseteq Made(app')
    BY <1>1, <1>2 DEF Made, Entry
  <2> QED BY <2>1 DEF Frames
<1>4. f \in Frames(app')
  <2>1. f \in Delta
    BY <1>1, <1>2 DEF Delta, Entry
  <2>2. OneEntry(f)
    BY <1>2 DEF OneEntry
  <2>3. f.entries \subseteq Made(app')
    BY <1>1, <1>2 DEF Made, Entry
  <2> QED BY <2>1, <2>2, <2>3 DEF Frames
<1> HIDE DEF f
<1>5. ASSUME NEW q \in Seq(Frames(app))
      PROVE  q \in Seq(Frames(app')) /\ Append(q, f) \in Seq(Frames(app'))
  <2>1. q \in Seq(Frames(app'))
    BY <1>3
  <2> QED BY <1>4, <2>1
<1>6. ws' = [s \in Sockets |-> IF s \notin to THEN ws[s] ELSE [ws[s] EXCEPT !.q = Append(ws[s].q, f)]]
  BY <1>1 DEF CC!Pushed, f
<1>7. ASSUME NEW s \in Sockets
      PROVE  ws'[s] \in [up : BOOLEAN, q : Seq(Frames(app'))]
  <2>1. ws[s] \in [up : BOOLEAN, q : Seq(Frames(app))] /\ ws[s].q \in Seq(Frames(app))
    BY <1>1
  <2>2. ws[s].q \in Seq(Frames(app')) /\ Append(ws[s].q, f) \in Seq(Frames(app'))
    BY <1>5, <2>1
  <2>3. CASE s \notin to
    BY <1>6, <2>1, <2>2, <2>3
  <2>4. CASE s \in to
    BY <1>6, <2>1, <2>2, <2>4
  <2> QED BY <2>3, <2>4
<1> QED BY <1>6, <1>7 DEF FramesRight

LEMMA FramesClosed ==
  ASSUME NEW a, ws' = [s \in Sockets |-> CC!Closed]
  PROVE  ws' \in [Sockets -> [up : BOOLEAN, q : Seq(Frames(a))]]
BY DEF CC!Closed

(* What was made stays made when the app numbers on.                       *)
LEMMA MadeGrows ==
  ASSUME ClipInv,
         \/ app' = [app EXCEPT !.seq = @ + 1]
         \/ app' = [epoch |-> app.epoch + 1, seq |-> 0]
  PROVE  /\ app' \in [epoch : Nat \ {0}, seq : Nat] /\ Made(app) \subseteq Made(app')
         /\ app'.epoch = app.epoch => <<app.epoch, app.seq + 1>> \in Made(app') \ Made(app)
BY DEF ClipInv, Made, Entry

LEMMA QuietBeyond ==
  ASSUME ClipInv, Quiet(c', c), FramesRight', UNCHANGED <<stored, removed>>,
         app' \in [epoch : Nat \ {0}, seq : Nat], Made(app) \subseteq Made(app')
  PROVE  ClipInv' /\ StaysWhole
<1>1. Grows(c', c, {})
  BY QuietGrows DEF ClipInv, ClientRight
<1>2. CC!Whole(c)' <=> CC!Whole(c')
  BY DEF CC!Whole
<1>3. ClientRight'
  BY <1>1 DEF ClipInv, ClientRight, Grows
<1>4. StoreRight'
  BY DEF ClipInv, StoreRight
<1>5. StaysWhole
  BY <1>1, <1>2, <1>3 DEF StaysWhole, ClientRight, Grows
<1> QED BY <1>3, <1>4, <1>5 DEF ClipInv

LEMMA CopiedKeeps ==
  ASSUME ClipInv, MaxSeq \in Nat, CC!Copied PROVE ClipInv' /\ StaysWhole
<1>1. /\ app.seq < MaxSeq /\ app' = [app EXCEPT !.seq = @ + 1]
      /\ \E to \in SUBSET Sockets : ws' = CC!Pushed(to)
      /\ UNCHANGED <<c, stored, removed>>
  BY DEF CC!Copied
<1>2. Quiet(c', c)
  BY <1>1 DEF Quiet, SamePoll, ClipInv, ClientRight, Sane
<1> QED BY <1>1, <1>2, FramesPushed, MadeGrows, QuietBeyond

LEMMA AppRestartsKeeps ==
  ASSUME ClipInv, CC!AppRestarts PROVE ClipInv' /\ StaysWhole
<1>1. /\ app' = [epoch |-> app.epoch + 1, seq |-> 0] /\ ws' = [s \in Sockets |-> CC!Closed]
      /\ UNCHANGED <<stored, removed>>
      /\ \/ c' = c
         \/ c.owners # {} /\ LET s == CHOOSE s \in c.owners : TRUE
                             IN c' = CC!Release([c EXCEPT !.owners = {s}], s)
  BY DEF CC!AppRestarts
<1>2. c \in Client /\ c.owners \in SUBSET Sockets
  BY DEF ClipInv, ClientRight, Sane, Client
<1>3. Quiet(c, c)
  BY <1>2 DEF Quiet, SamePoll
<1>4. ASSUME NEW s \in Sockets
      PROVE  Quiet(CC!Release([c EXCEPT !.owners = {s}], s), c)
  <2>1. Quiet([c EXCEPT !.owners = {s}], c)
    BY <1>2 DEF Quiet, SamePoll, Client
  <2>2. Quiet(CC!Release([c EXCEPT !.owners = {s}], s), [c EXCEPT !.owners = {s}])
    BY <2>1, ReleaseQuiet DEF Quiet
  <2> QED BY <2>1, <2>2, QuietTwice
<1>5. Quiet(c', c)
  BY <1>1, <1>2, <1>3, <1>4
<1>6. FramesRight'
  BY <1>1, FramesClosed DEF FramesRight
<1> QED BY <1>1, <1>5, <1>6, MadeGrows, QuietBeyond

(* The entry made last was never deleted.                                  *)
LEMMA SentKeeps ==
  ASSUME ClipInv, MaxSeq \in Nat, CC!SentFromHere PROVE ClipInv' /\ StaysWhole
<1> DEFINE e == <<app.epoch, app.seq + 1>>
           k == c.known \union {e}
           l == c.list \union {e}
<1>1. /\ app.seq < MaxSeq /\ app' = [app EXCEPT !.seq = @ + 1]
      /\ c' = [c EXCEPT !.known = k, !.list = l, !.dirty = TRUE]
      /\ \E to \in SUBSET Sockets : ws' = CC!Pushed(to)
      /\ UNCHANGED <<stored, removed>>
  BY DEF CC!SentFromHere
<1>2. app \in [epoch : Nat \ {0}, seq : Nat] /\ app'.epoch = app.epoch
  BY <1>1 DEF ClipInv
<1>3. app' \in [epoch : Nat \ {0}, seq : Nat] /\ Made(app) \subseteq Made(app')
      /\ e \in Made(app') /\ e \notin Made(app)
  BY <1>1, <1>2, MadeGrows
<1>4. k \in SUBSET Entry /\ l \in SUBSET Entry /\ k \union l \subseteq Made(app')
      /\ l \intersect removed = {} /\ c \in Client /\ c.known \subseteq k
  BY <1>3 DEF ClipInv, ClientRight, StoreRight, Sane, Client, Made
<1> HIDE DEF k, l, e
<1>5. /\ c' \in Client /\ c'.known = k /\ c'.list = l /\ c'.poll = c.poll /\ c'.epoch = c.epoch
      /\ c'.cursor = c.cursor /\ c'.init = c.init /\ c'.loaded = c.loaded
  BY <1>1, <1>4 DEF Client
<1>6. PollRight(c')
  BY <1>5 DEF ClipInv, ClientRight, Sane, PollRight, ReachesBack
<1>7. ClientRight'
  BY <1>1, <1>3, <1>4, <1>5, <1>6 DEF ClipInv, ClientRight, Sane
<1>8. StaysWhole
  BY <1>1, <1>4, <1>5 DEF StaysWhole, CC!Whole
<1>9. StoreRight'
  BY <1>1, <1>3 DEF ClipInv, StoreRight
<1> QED BY <1>1, <1>3, <1>7, <1>8, <1>9, FramesPushed DEF ClipInv

(* A frame                                                                 *)
LEMMA FrameComesKeeps ==
  ASSUME ClipInv, MaxSeq \in Nat, NEW s \in Sockets, CC!FrameComes(s)
  PROVE  ClipInv' /\ StaysWhole
<1> DEFINE q == ws[s].q
           f == Head(q)
           o == CC!Claimed(c, s)
<1>1. /\ q # <<>> /\ ws' = [ws EXCEPT ![s] = [ws[s] EXCEPT !.q = Tail(q)]]
      /\ c' = CC!ApplyDelta(o, f) /\ UNCHANGED <<app, stored, removed>>
  BY DEF CC!FrameComes
<1>2. /\ ws \in [Sockets -> [up : BOOLEAN, q : Seq(Frames(app))]] /\ Sane(c) /\ c \in Client
  BY DEF ClipInv, FramesRight, ClientRight, Sane
<1>3. q \in Seq(Frames(app)) /\ f \in Frames(app) /\ Tail(q) \in Seq(Frames(app))
  <2>1. q \in Seq(Frames(app))
    BY <1>2
  <2> QED BY <1>1, <2>1
<1>4. FramesRight'
  BY <1>1, <1>2, <1>3 DEF FramesRight
<1>5. f \in Delta /\ OneEntry(f) /\ f.entries \in SUBSET Made(app)
  BY <1>3 DEF Frames
<1>6. Quiet(o, c)
  BY <1>2, ClaimQuiet
<1> HIDE DEF q, f, o
<1>7. Sane(o)
  BY <1>2, <1>6, QuietGrows DEF Grows
<1>8. Grows(c', o, f.entries)
  BY <1>1, <1>5, <1>7, DeltaGrows
<1>9. Grows(c', c, f.entries)
  BY <1>2, <1>6, <1>8, QuietThenGrows
<1> QED BY <1>1, <1>4, <1>5, <1>9, ClientGrew

LEMMA ConnectsKeeps ==
  ASSUME ClipInv, NEW s \in Sockets, CC!Connects(s) \/ CC!Disconnects(s)
  PROVE  ClipInv' /\ StaysWhole
<1> DEFINE f == [epoch |-> app.epoch, cursor |-> app.seq, entries |-> {}]
<1>1. /\ ws \in [Sockets -> [up : BOOLEAN, q : Seq(Frames(app))]] /\ c \in Client
      /\ app \in [epoch : Nat \ {0}, seq : Nat]
  BY DEF ClipInv, FramesRight, ClientRight, Sane
<1>2. f \in Frames(app)
  BY <1>1 DEF Frames, Delta, OneEntry
<1>3. UNCHANGED <<app, stored, removed>>
  BY DEF CC!Connects, CC!Disconnects
<1>4. ws' = [ws EXCEPT ![s] = [up |-> TRUE, q |-> <<f>>]] \/ ws' = [ws EXCEPT ![s] = CC!Closed]
  BY DEF CC!Connects, CC!Disconnects
<1> HIDE DEF f
<1>5. FramesRight'
  <2>1. <<f>> \in Seq(Frames(app)) /\ <<>> \in Seq(Frames(app))
    BY <1>2
  <2>2. [up |-> TRUE, q |-> <<f>>] \in [up : BOOLEAN, q : Seq(Frames(app))]
    BY <2>1
  <2>3. CC!Closed \in [up : BOOLEAN, q : Seq(Frames(app))]
    BY <2>1 DEF CC!Closed
  <2>4. ws' \in [Sockets -> [up : BOOLEAN, q : Seq(Frames(app))]]
    BY <1>1, <1>4, <2>2, <2>3
  <2> QED BY <1>3, <2>4 DEF FramesRight
<1>6. Quiet(c', c)
  BY <1>1, ReleaseQuiet DEF CC!Connects, CC!Disconnects, Quiet, SamePoll
<1> QED BY <1>3, <1>5, <1>6, ClientQuiet

-----------------------------------------------------------------------------
LEMMA AttachKeeps ==
  ASSUME ClipInv, CC!Attach \/ CC!TimerDue \/ CC!PollFails PROVE ClipInv' /\ StaysWhole
<1>1. UNCHANGED <<app, stored, removed, ws>> /\ c \in Client
  BY DEF CC!Attach, CC!TimerDue, CC!PollFails, ClipInv, ClientRight, Sane
<1>2. FramesRight'
  BY <1>1 DEF ClipInv, FramesRight
<1>3. /\ c.owners \in SUBSET Sockets /\ c.poll \in Polls /\ SamePoll(c.poll, c.poll)
      /\ "off" \in Timers
  BY <1>1 DEF Client, SamePoll, Timers
<1>4. CASE CC!Attach
  <2>1. Quiet([c EXCEPT !.attached = TRUE], c)
    BY <1>1 DEF Quiet, SamePoll, Client
  <2>2. Quiet(c', [c EXCEPT !.attached = TRUE])
    BY <1>4, <2>1, PollQuiet DEF CC!Attach, Quiet
  <2> QED BY <1>1, <1>2, <2>1, <2>2, QuietTwice, ClientQuiet
<1>5. CASE CC!TimerDue
  <2>1. Quiet([c EXCEPT !.timer = "off"], c)
    BY <1>1 DEF Quiet, SamePoll, Client, Timers
  <2>2. Quiet(c', [c EXCEPT !.timer = "off"])
    BY <1>5, <2>1, PollQuiet DEF CC!TimerDue, Quiet
  <2> QED BY <1>1, <1>2, <2>1, <2>2, QuietTwice, ClientQuiet
<1>6. CASE CC!PollFails
  BY <1>1, <1>2, <1>6, PollOverQuiet, ClientQuiet DEF CC!PollFails
<1> QED BY <1>4, <1>5, <1>6

(* A poll is sent: of this epoch, from this cursor.                        *)
LEMMA PollAsksKeeps ==
  ASSUME ClipInv, CC!PollAsks PROVE ClipInv' /\ StaysWhole
<1> DEFINE p == [pc |-> "asked", force |-> c.poll.force, aborted |-> FALSE, epoch |-> c.epoch,
                 since |-> c.cursor, wait |-> c.init /\ ~c.poll.force]
<1>1. c' = [c EXCEPT !.poll = p] /\ UNCHANGED <<app, stored, removed, ws>>
      /\ c.poll.pc = "ready" /\ c.loaded
  BY DEF CC!PollAsks
<1>2. c \in Client /\ c.epoch \in Nat /\ c.cursor \in Nat /\ c.poll.force \in BOOLEAN
      /\ c.init \in BOOLEAN
  BY DEF ClipInv, ClientRight, Sane, Client, Polls, Flags, AskedPoll, AnsweredPoll
<1>3. p \in Polls
  BY <1>2 DEF Polls, AskedPoll
<1>4. p.pc = "asked" /\ p.epoch = c.epoch /\ p.since = c.cursor
  OBVIOUS
<1> HIDE DEF p
<1>5. /\ c' \in Client /\ c'.known = c.known /\ c'.list = c.list /\ c'.poll = p
      /\ c'.epoch = c.epoch /\ c'.cursor = c.cursor /\ c'.init = c.init /\ c'.loaded = c.loaded
  BY <1>1, <1>2, <1>3 DEF Client
<1>6. PollRight(c')
  BY <1>1, <1>2, <1>4, <1>5 DEF PollRight
<1>7. Grows(c', c, {})
  BY <1>2, <1>4, <1>5, <1>6 DEF Grows, Sane, CC!Whole, ClipInv, ClientRight
<1>8. FramesRight'
  BY <1>1 DEF ClipInv, FramesRight
<1> QED BY <1>1, <1>7, <1>8, ClientGrew

(* The app answers: what is there from the cursor asked, or all of it.     *)
LEMMA PollHandledKeeps ==
  ASSUME ClipInv, CC!PollHandled PROVE ClipInv' /\ StaysWhole
<1> DEFINE from == IF c.poll.epoch = app.epoch THEN c.poll.since + 1 ELSE 1
           d == [epoch |-> app.epoch, cursor |-> app.seq,
                 entries |-> CC!Entries(app.epoch, from, app.seq)]
           p == [pc |-> "answered", force |-> c.poll.force, aborted |-> FALSE, data |-> d]
<1>1. c' = [c EXCEPT !.poll = p] /\ UNCHANGED <<app, stored, removed, ws>> /\ c.poll.pc = "asked"
  BY DEF CC!PollHandled
<1>2. /\ c \in Client /\ c.epoch \in Nat /\ c.cursor \in Nat /\ c.poll \in AskedPoll
      /\ app \in [epoch : Nat \ {0}, seq : Nat] /\ app.epoch \in Nat \ {0} /\ app.seq \in Nat
  BY <1>1 DEF ClipInv, ClientRight, Sane, Client, Polls, Flags, AskedPoll, AnsweredPoll
<1>3. c.poll.force \in BOOLEAN /\ c.poll.epoch \in Nat /\ c.poll.since \in Nat
  BY <1>2 DEF AskedPoll
<1>4. from \in Nat \ {0}
  BY <1>3
<1>5. d.entries = {<<app.epoch, n>> : n \in from..app.seq}
  BY DEF CC!Entries
<1>6. d.entries \subseteq Made(app) /\ d.entries \subseteq Entry
  BY <1>2, <1>4, <1>5 DEF Made, Entry
<1>7. d \in Delta /\ p \in Polls
  <2>1. d \in Delta
    BY <1>2, <1>6 DEF Delta
  <2> HIDE DEF d
  <2> QED BY <1>3, <2>1 DEF Polls, AnsweredPoll
<1>8. from = 1 \/ (c.epoch = app.epoch /\ from - 1 <= c.cursor)
  <2>1. c.poll.epoch = 0 \/ (c.poll.epoch = c.epoch /\ c.poll.since <= c.cursor)
    BY <1>1 DEF ClipInv, ClientRight, Sane, PollRight
  <2> QED BY <1>2, <1>3, <2>1
<1>9. ReachesBack(c, d)
  BY <1>4, <1>8 DEF ReachesBack
<1>10. p.pc = "answered" /\ p.data = d
  OBVIOUS
<1> HIDE DEF p, d, from
<1>11. /\ c' \in Client /\ c'.known = c.known /\ c'.list = c.list /\ c'.poll = p
       /\ c'.epoch = c.epoch /\ c'.cursor = c.cursor /\ c'.init = c.init /\ c'.loaded = c.loaded
  BY <1>1, <1>2, <1>7 DEF Client
<1>12. PollRight(c')
  BY <1>1, <1>9, <1>10, <1>11 DEF PollRight, ReachesBack, ClipInv, ClientRight, Sane
<1>13. ClientRight'
  BY <1>1, <1>6, <1>10, <1>11, <1>12 DEF ClientRight, Sane, ClipInv
<1>14. StaysWhole
  BY <1>1, <1>11 DEF StaysWhole, CC!Whole, ClipInv, ClientRight
<1>15. FramesRight' /\ StoreRight'
  BY <1>1 DEF ClipInv, FramesRight, StoreRight
<1> QED BY <1>1, <1>13, <1>14, <1>15 DEF ClipInv

LEMMA PollAnsweredKeeps ==
  ASSUME ClipInv, CC!PollAnswered PROVE ClipInv' /\ StaysWhole
<1>1. /\ c' = CC!PollOver(CC!PollResult(c, c.poll.data)) /\ c.poll.pc = "answered"
      /\ UNCHANGED <<app, stored, removed, ws>>
  BY DEF CC!PollAnswered
<1>2. Grows(c', c, c.poll.data.entries)
  BY <1>1, AnswerGrows DEF ClipInv, ClientRight
<1>3. c.poll.data.entries \in SUBSET Made(app) /\ FramesRight'
  BY <1>1 DEF ClipInv, ClientRight, FramesRight
<1> QED BY <1>1, <1>2, <1>3, ClientGrew

(* IndexedDB is read, before the history is loaded.                        *)
LEMMA StoredLoadedKeeps ==
  ASSUME ClipInv, CC!StoredLoaded PROVE ClipInv' /\ StaysWhole
<1>1. ~c.loaded /\ UNCHANGED <<app, stored, removed, ws>>
  BY DEF CC!StoredLoaded
<1> DEFINE k == stored.known \union removed
           l == stored.list \ removed
<1>2. /\ c \in Client /\ stored.epoch \in Nat /\ stored.cursor \in Nat
      /\ k \in SUBSET Entry /\ l \in SUBSET Entry /\ k \union l \subseteq Made(app)
      /\ l \intersect removed = {}
  BY DEF ClipInv, ClientRight, StoreRight, Sane
<1>3. c.poll.pc \notin {"asked", "answered"}
  BY <1>1 DEF ClipInv, ClientRight, Sane, PollRight
<1>4. CASE stored.epoch = 0
  <2>1. c' = [c EXCEPT !.loaded = TRUE]
    BY <1>4 DEF CC!StoredLoaded
  <2>2. /\ c' \in Client /\ c'.known = c.known /\ c'.list = c.list /\ c'.poll = c.poll
        /\ c'.epoch = c.epoch /\ c'.init = c.init
    BY <1>2, <2>1 DEF Client
  <2>3. ClientRight'
    BY <1>1, <1>3, <2>2 DEF ClipInv, ClientRight, Sane, PollRight
  <2> QED BY <1>1, <2>3 DEF ClipInv, FramesRight, StoreRight, StaysWhole, ClientRight
<1>5. CASE stored.epoch # 0
  <2>1. c' = [c EXCEPT !.loaded = TRUE, !.list = l, !.known = k, !.cursor = stored.cursor,
                       !.epoch = stored.epoch]
    BY <1>5 DEF CC!StoredLoaded
  <2> HIDE DEF k, l
  <2>2. /\ c' \in Client /\ c'.known = k /\ c'.list = l /\ c'.poll = c.poll
        /\ c'.epoch = stored.epoch
    BY <1>2, <2>1 DEF Client
  <2>3. ClientRight'
    BY <1>1, <1>2, <1>3, <1>5, <2>2 DEF ClientRight, Sane, PollRight
  <2> QED BY <1>1, <2>3 DEF ClipInv, FramesRight, StoreRight, StaysWhole, ClientRight
<1> QED BY <1>4, <1>5

LEMMA SavedKeeps ==
  ASSUME ClipInv, CC!Saved PROVE ClipInv' /\ StaysWhole
<1>1. /\ c' = [c EXCEPT !.dirty = FALSE] /\ UNCHANGED <<app, removed, ws>>
      /\ stored' = [epoch |-> c.epoch, cursor |-> c.cursor, list |-> c.list, known |-> c.known]
  BY DEF CC!Saved
<1>2. c \in Client /\ c.epoch \in Nat /\ c.cursor \in Nat /\ c.list \in SUBSET Entry
      /\ c.known \in SUBSET Entry
  BY DEF ClipInv, ClientRight, Sane, Client
<1>3. Quiet(c', c)
  BY <1>1, <1>2 DEF Quiet, SamePoll, Client
<1>4. Grows(c', c, {})
  BY <1>3, QuietGrows DEF ClipInv, ClientRight
<1>5. CC!Whole(c)' <=> CC!Whole(c')
  BY <1>1 DEF CC!Whole
<1>6. ClientRight'
  BY <1>1, <1>4 DEF ClipInv, ClientRight, Grows
<1>7. StoreRight'
  BY <1>1, <1>2 DEF ClipInv, ClientRight, StoreRight
<1>8. FramesRight'
  BY <1>1 DEF ClipInv, FramesRight
<1> QED BY <1>1, <1>4, <1>5, <1>6, <1>7, <1>8 DEF ClipInv, StaysWhole, Grows, ClientRight

(* Deletions                                                               *)
LEMMA DeletionKeeps ==
  ASSUME ClipInv, CC!RemoveEntry \/ CC!ClearHistory PROVE ClipInv' /\ StaysWhole
<1>1. PICK gone \in SUBSET (c.known \union c.list), rest \in SUBSET c.list :
        /\ removed' = removed \union gone /\ rest \intersect gone = {}
        /\ c' = [c EXCEPT !.list = rest, !.dirty = TRUE]
        /\ UNCHANGED <<app, stored, ws>>
  <2>1. CASE CC!RemoveEntry
    <3>1. PICK e \in c.list : removed' = removed \union {e}
                              /\ c' = [c EXCEPT !.list = c.list \ {e}, !.dirty = TRUE]
      BY <2>1 DEF CC!RemoveEntry, ClipInv, ClientRight, Sane, Client
    <3>2. /\ {e} \in SUBSET (c.known \union c.list) /\ c.list \ {e} \in SUBSET c.list
          /\ (c.list \ {e}) \intersect {e} = {}
      OBVIOUS
    <3>3. UNCHANGED <<app, stored, ws>>
      BY <2>1 DEF CC!RemoveEntry
    <3> QED BY <3>1, <3>2, <3>3
  <2>2. CASE CC!ClearHistory
    <3>1. removed' = removed \union (c.known \union c.list)
      BY <2>2 DEF CC!ClearHistory
    <3>2. c' = [c EXCEPT !.list = {}, !.dirty = TRUE] /\ UNCHANGED <<app, stored, ws>>
      BY <2>2 DEF CC!ClearHistory
    <3>3. /\ c.known \union c.list \in SUBSET (c.known \union c.list)
          /\ {} \in SUBSET c.list /\ {} \intersect (c.known \union c.list) = {}
      OBVIOUS
    <3> QED BY <3>1, <3>2, <3>3
  <2> QED BY <2>1, <2>2
<1>2. c \in Client /\ rest \in SUBSET Entry /\ gone \in SUBSET Entry
      /\ gone \subseteq Made(app) /\ rest \intersect removed = {}
  BY DEF ClipInv, ClientRight, Sane, Client
<1>3. /\ c' \in Client /\ c'.known = c.known /\ c'.list = rest /\ c'.poll = c.poll
      /\ c'.epoch = c.epoch /\ c'.cursor = c.cursor /\ c'.init = c.init
      /\ c'.loaded = c.loaded
  BY <1>1, <1>2 DEF Client
<1>4. PollRight(c')
  BY <1>3 DEF PollRight, ReachesBack, ClipInv, ClientRight, Sane
<1>5. ClientRight'
  BY <1>1, <1>2, <1>3, <1>4 DEF ClipInv, ClientRight, Sane
<1>6. StoreRight' /\ FramesRight'
  BY <1>1, <1>2 DEF ClipInv, StoreRight, FramesRight
<1>7. CC!Whole(c) => CC!Whole(c)'
  BY <1>1, <1>3 DEF CC!Whole
<1> QED BY <1>1, <1>5, <1>6, <1>7 DEF ClipInv, StaysWhole, ClientRight

LEMMA ClipReloadKeeps ==
  ASSUME ClipInv, CC!Reload PROVE ClipInv' /\ StaysWhole
<1>1. c' = CC!Fresh /\ ws' = [s \in Sockets |-> CC!Closed] /\ UNCHANGED <<app, stored, removed>>
  BY DEF CC!Reload
<1>2. CC!Idle \in Polls
  BY NewPoll
<1>3. /\ CC!Fresh \in Client /\ CC!Fresh.list = {} /\ CC!Fresh.known = {}
      /\ CC!Fresh.poll = CC!Idle /\ ~CC!Fresh.init /\ ~CC!Fresh.loaded
  BY <1>2 DEF CC!Fresh, Client, Timers
<1>4. CC!Idle.pc = "off"
  BY DEF CC!Idle
<1>5. ClientRight'
  BY <1>1, <1>3, <1>4 DEF ClientRight, Sane, PollRight
<1>6. FramesRight'
  BY <1>1, FramesClosed DEF FramesRight
<1> QED BY <1>1, <1>3, <1>5, <1>6 DEF ClipInv, StoreRight, StaysWhole

-----------------------------------------------------------------------------
LEMMA ClipInitHolds == ASSUME CC!CcInit PROVE ClipInv
<1>1. app.epoch = 1 /\ app.seq \in Nat /\ app \in [epoch : Nat \ {0}, seq : Nat]
  BY DEF CC!CcInit
<1>2. PICK n \in Nat :
        /\ n <= app.seq
        /\ stored \in {[epoch |-> 0, cursor |-> 0, list |-> {}, known |-> {}],
                       [epoch |-> 1, cursor |-> n, list |-> CC!Entries(1, 1, n),
                        known |-> CC!Entries(1, 1, n)]}
  BY DEF CC!CcInit
<1>3. CC!Entries(1, 1, n) \subseteq Made(app) /\ CC!Entries(1, 1, n) \in SUBSET Entry
  BY <1>1, <1>2 DEF CC!Entries, Made, Entry
<1> HIDE DEF CC!Entries
<1>4. StoreRight
  BY <1>2, <1>3 DEF CC!CcInit, StoreRight
<1>5. FramesRight
  BY DEF CC!CcInit, FramesRight, CC!Closed
<1>6. ClientRight
  <2>1. c = CC!Fresh
    BY DEF CC!CcInit
  <2>2. CC!Idle \in Polls
    BY NewPoll
  <2>3. /\ CC!Fresh \in Client /\ CC!Fresh.list = {} /\ CC!Fresh.known = {}
        /\ CC!Fresh.poll = CC!Idle /\ ~CC!Fresh.init
    BY <2>2 DEF CC!Fresh, Client, Timers
  <2>4. CC!Idle.pc = "off"
    BY DEF CC!Idle
  <2> QED BY <2>1, <2>3, <2>4 DEF ClientRight, Sane, PollRight
<1> QED BY <1>1, <1>4, <1>5, <1>6 DEF ClipInv

LEMMA ClipInductive ==
  ASSUME MaxSeq \in Nat, ClipInv, [CC!CcNext]_ccVars
  PROVE  ClipInv' /\ [StaysWhole]_ccVars
<1>1. ASSUME UNCHANGED ccVars PROVE ClipInv'
  BY <1>1 DEF ccVars, ClipInv, ClientRight, Sane, PollRight, ReachesBack, StoreRight, FramesRight
<1>2. ASSUME NEW s \in Sockets, CC!Connects(s) \/ CC!FrameComes(s) \/ CC!Disconnects(s)
      PROVE  ClipInv' /\ StaysWhole
  BY <1>2, ConnectsKeeps, FrameComesKeeps
<1> QED
  BY <1>1, <1>2, AttachKeeps, StoredLoadedKeeps, SavedKeeps, PollAsksKeeps, PollHandledKeeps,
     PollAnsweredKeeps, DeletionKeeps, SentKeeps, ClipReloadKeeps, CopiedKeeps, AppRestartsKeeps
  DEF CC!CcNext

(* The clipboard history stays whole once it is, and what was deleted      *)
(* never comes back, for any number of sockets, copies and lives of the    *)
(* app (useRemoteClipboard.ts).                                            *)
THEOREM ClipboardStaysWhole == PageSpec => WholeStaysWhole
<1>1. PageInit => ClipInv
  BY ClipInitHolds DEF PageInit
<1>2. ClipInv /\ [PageNext]_<<focus, upVars, usVars, ccVars, ftVars, fpVars, ahVars, thVars,
                              urVars, trVars, qsVars>>
        => ClipInv' /\ [StaysWhole]_ccVars
  <2>1. ASSUME PageNext PROVE [CC!CcNext]_ccVars
    BY <2>1 DEF PageNext
  <2> QED BY <2>1, ClipInductive, PageAssumption
<1>3. [StaysWhole]_ccVars => [/\ c.loaded /\ c'.loaded /\ c.init /\ CC!Whole(c) => CC!Whole(c)'
                             /\ c'.list \cap removed' = {}]_(CC!ccVars)
  BY DEF StaysWhole, ccVars, CC!ccVars
<1> QED BY <1>1, <1>2, <1>3, PTL DEF PageSpec, WholeStaysWhole, CC!WholeStaysWhole

-----------------------------------------------------------------------------
(***************************************************************************)
(* Sets of numbers with a bound have a largest and a smallest element.     *)
(***************************************************************************)
LEMMA GreatestOf ==
  ASSUME NEW N \in Nat, NEW T, T \subseteq 0..N, T # {}
  PROVE  \E x \in T : \A y \in T : x >= y
<1> DEFINE R == {N - x : x \in T}
<1>1. R \subseteq Nat /\ R # {}
  <2>1. \A x \in T : N - x \in Nat
    OBVIOUS
  <2> QED BY <2>1
<1>2. PICK r \in R : \A y \in R : r <= y
  BY <1>1, LeastOf
<1>3. PICK x \in T : r = N - x
  OBVIOUS
<1>4. ASSUME NEW y \in T PROVE x >= y
  <2>1. r <= N - y
    BY <1>2
  <2> QED BY <1>3, <2>1
<1> QED BY <1>4

LEMMA MinMaxHere ==
  ASSUME NEW N \in Nat, NEW T, T \subseteq 0..N, T # {}
  PROVE  /\ TH!Min(T) \in T /\ \A y \in T : TH!Min(T) <= y
         /\ TH!Max(T) \in T /\ \A y \in T : y <= TH!Max(T)
<1>1. \E x \in T : \A y \in T : x =< y
  <2>1. T \subseteq Nat
    OBVIOUS
  <2> QED BY <2>1, LeastOf
<1>2. \E x \in T : \A y \in T : x >= y
  BY GreatestOf
<1>3. TH!Min(T) \in T /\ \A y \in T : TH!Min(T) =< y
  BY <1>1 DEF TH!Min
<1>4. TH!Max(T) \in T /\ \A y \in T : TH!Max(T) >= y
  BY <1>2 DEF TH!Max
<1>5. \A y \in T : y \in Int
  OBVIOUS
<1> QED BY <1>3, <1>4, <1>5

(* A set of numbers without a hole has all of them.                        *)
LEMMA NoHole ==
  ASSUME NEW N \in Nat, NEW T, T \subseteq 0..N, NEW lo \in T, NEW hi \in T,
         \A n \in T : n <= hi, \A n \in T : n = lo \/ n - 1 \in T
  PROVE  \A n \in lo..hi : n \in T
<1> DEFINE miss == {n \in lo..hi : n \notin T}
<1>1. SUFFICES ASSUME miss # {} PROVE FALSE
  OBVIOUS
<1>2. lo \in 0..N /\ hi \in 0..N
  OBVIOUS
<1>3. miss \subseteq 0..N
  BY <1>2
<1>4. PICK n \in miss : \A m \in miss : n >= m
  BY <1>1, <1>3, GreatestOf
<1>5. n \in lo..hi /\ n \notin T /\ n # hi
  OBVIOUS
<1>6. n + 1 \in lo..hi /\ n + 1 \in T
  BY <1>2, <1>4, <1>5
<1>7. (n + 1) - 1 \in T
  BY <1>2, <1>5, <1>6
<1> QED BY <1>2, <1>5, <1>7

-----------------------------------------------------------------------------
(***************************************************************************)
(* The history of a terminal.                                              *)
(*                                                                         *)
(* A request that reads through to the end carries the screen it read      *)
(* first, the line that its selection is to reach: when its last page is   *)
(* in, that line is among the lines on view.                               *)
(***************************************************************************)
Line == 0..MaxTotal
Rest(r) == /\ r = [n |-> r.n, from |-> r.from, end |-> r.end, screen |-> r.screen, mine |-> r.mine]
           /\ r.screen \subseteq Line
PageRequest(f) ==
  /\ f = [kind |-> f.kind, got |-> f.got, kept |-> f.kept, no |-> f.no, for |-> f.for]
  /\ Rest(f.for) /\ f.got \subseteq Line /\ f.kept.total \in Line
  /\ f.kind = "screen" => \E n \in Line : f.got = {n}
  /\ f.kind = "fill" => f.for.end \in Line /\ f.for.screen = {f.for.end}
Requests(fs) == \A f \in fs : PageRequest(f)

Sel == [on : BOOLEAN, anchor : Int, focus : Int, end : Int]
Selects(s, ls) ==
  /\ s \in Sel /\ ls \subseteq Line
  /\ s.on => s.anchor \in ls /\ s.focus \in Line
  /\ s.on /\ s.end # -1 => s.focus >= s.end
HistoryInv ==
  /\ kept \in [base : Nat, total : Line]
  /\ known.total \in Line
  /\ Selects(sel, lines) /\ Requests(flying)

LEMMA WatchedSelects ==
  ASSUME NEW s, NEW old, Selects(s, old), NEW ls \in SUBSET Line
  PROVE  Selects(TH!Watched(s, ls), ls)
BY DEF Selects, TH!Watched, TH!NoSel, Sel

(* What waits for an answer keeps its shape.                               *)
LEMMA RestSets ==
  ASSUME NEW r, Rest(r), NEW x, NEW z \in SUBSET Line
  PROVE  /\ LET q == [r EXCEPT !.mine = x]
            IN Rest(q) /\ q.end = r.end /\ q.screen = r.screen
         /\ LET q == [r EXCEPT !.from = x]
            IN Rest(q) /\ q.end = r.end /\ q.screen = r.screen
         /\ LET q == [r EXCEPT !.n = x]
            IN Rest(q) /\ q.end = r.end /\ q.screen = r.screen
         /\ LET q == [r EXCEPT !.end = x]
            IN Rest(q) /\ q.end = x /\ q.screen = r.screen
         /\ LET q == [r EXCEPT !.screen = z]
            IN Rest(q) /\ q.end = r.end /\ q.screen = z
<1>1. PICK a, b, d, e, f : /\ r = [n |-> a, from |-> b, end |-> d, screen |-> e, mine |-> f]
                           /\ e \subseteq Line
  BY DEF Rest
<1>2. [r EXCEPT !.mine = x] = [n |-> a, from |-> b, end |-> d, screen |-> e, mine |-> x]
  BY <1>1
<1>3. [r EXCEPT !.from = x] = [n |-> a, from |-> x, end |-> d, screen |-> e, mine |-> f]
  BY <1>1
<1>4. [r EXCEPT !.n = x] = [n |-> x, from |-> b, end |-> d, screen |-> e, mine |-> f]
  BY <1>1
<1>5. [r EXCEPT !.end = x] = [n |-> a, from |-> b, end |-> x, screen |-> e, mine |-> f]
  BY <1>1
<1>6. [r EXCEPT !.screen = z] = [n |-> a, from |-> b, end |-> d, screen |-> z, mine |-> f]
  BY <1>1
<1> QED BY <1>1, <1>2, <1>3, <1>4, <1>5, <1>6 DEF Rest

LEMMA DisownedRequests ==
  ASSUME NEW fs, Requests(fs)
  PROVE  Requests(TH!Disowned(fs))
<1>1. ASSUME NEW f \in fs PROVE PageRequest([f EXCEPT !.for.mine = FALSE])
  <2> DEFINE r == [f.for EXCEPT !.mine = FALSE]
             g == [f EXCEPT !.for = r]
  <2>1. PageRequest(f)
    BY DEF Requests
  <2>2. Rest(r) /\ r.end = f.for.end /\ r.screen = f.for.screen
    BY <2>1, RestSets DEF PageRequest
  <2> HIDE DEF r
  <2>3. g = [kind |-> f.kind, got |-> f.got, kept |-> f.kept, no |-> f.no, for |-> r]
    BY <2>1 DEF PageRequest
  <2>4. PageRequest(g)
    BY <2>1, <2>2, <2>3 DEF PageRequest
  <2> QED BY <2>4 DEF r
<1> QED BY <1>1 DEF Requests, TH!Disowned

LEMMA LetsRequests ==
  ASSUME NEW fs, Requests(fs), NEW ls
  PROVE  Requests(TH!Lets(ls, fs))
BY DisownedRequests DEF TH!Lets

LEMMA NewRequest ==
  ASSUME NEW kind, NEW got, got \subseteq Line, NEW k, k.total \in Line, NEW no, NEW r, Rest(r),
         kind = "screen" => \E n \in Line : got = {n},
         kind = "fill" => r.end \in Line /\ r.screen = {r.end}
  PROVE  PageRequest([kind |-> kind, got |-> got, kept |-> k, no |-> no, for |-> r])
BY DEF PageRequest

LEMMA NothingRests ==
  /\ Rest(TH!Nothing) /\ Rest([TH!Nothing EXCEPT !.mine = TRUE])
  /\ \A n : Rest([TH!Nothing EXCEPT !.n = n])
<1>1. Rest(TH!Nothing)
  BY DEF Rest, TH!Nothing
<1> QED BY <1>1, RestSets

LEMMA AsksRequests ==
  ASSUME HistoryInv, NEW kind, NEW got, got \subseteq Line, NEW r, Rest(r),
         TH!Asks(kind, got, r),
         kind = "screen" => \E n \in Line : got = {n}, kind # "fill"
  PROVE  Requests(flying')
<1>1. kept.total \in Line
  BY DEF HistoryInv
<1>2. flying' = flying \union
        {[kind |-> kind, got |-> got, kept |-> kept, no |-> TH!Free(flying), for |-> r]}
  BY DEF TH!Asks
<1>3. PageRequest([kind |-> kind, got |-> got, kept |-> kept, no |-> TH!Free(flying), for |-> r])
  BY <1>1, NewRequest
<1> HIDE DEF PageRequest
<1> QED BY <1>2, <1>3 DEF HistoryInv, Requests

(* What the server sends is of lines                                       *)
LEMMA SentLines ==
  ASSUME kept.total \in Line
  PROVE  /\ \A from, count : TH!History(from, count) \subseteq Line
         /\ TH!Screen \subseteq Line /\ \A got \in TH!Tails : got \subseteq Line
BY DEF TH!History, TH!Span, Line, TH!Screen, TH!Tails

-----------------------------------------------------------------------------
LEMMA OpenKeeps ==
  ASSUME HistoryInv, TH!Open PROVE HistoryInv'
<1>1. PICK got \in TH!Tails : TH!Asks("open", got, TH!Nothing)
  BY DEF TH!Open
<1>2. UNCHANGED <<kept, lines, known, sel>>
  BY DEF TH!Open
<1>3. got \subseteq Line
  BY SentLines DEF HistoryInv
<1> QED BY <1>1, <1>2, <1>3, AsksRequests, NothingRests DEF HistoryInv

LEMMA CloseKeeps ==
  ASSUME HistoryInv, TH!Close PROVE HistoryInv'
<1>1. UNCHANGED <<kept, lines, known>> /\ sel' = TH!NoSel /\ flying' = TH!Disowned(flying)
  BY DEF TH!Close
<1>2. Selects(TH!NoSel, lines)
  BY DEF HistoryInv, Selects, TH!NoSel, Sel
<1> QED BY <1>1, <1>2, DisownedRequests DEF HistoryInv

LEMMA LoadOlderKeeps ==
  ASSUME HistoryInv, TH!LoadOlder PROVE HistoryInv'
<1>1. PICK from, count : TH!Asks("older", TH!History(from, count), TH!Nothing)
  BY DEF TH!LoadOlder
<1>2. UNCHANGED <<kept, lines, known, sel>>
  BY DEF TH!LoadOlder
<1>3. TH!History(from, count) \subseteq Line
  BY SentLines DEF HistoryInv
<1> QED BY <1>1, <1>2, <1>3, AsksRequests, NothingRests DEF HistoryInv

LEMMA RunSearchKeeps ==
  ASSUME HistoryInv, TH!RunSearch PROVE HistoryInv'
<1>1. PICK hits \in {{}} \union {{n} : n \in TH!History(0, MaxTotal + 1)} :
        TH!Asks("search", hits, TH!Nothing)
  BY DEF TH!RunSearch
<1>2. UNCHANGED <<kept, lines, known, sel>>
  BY DEF TH!RunSearch
<1>3. hits \subseteq Line
  BY SentLines DEF HistoryInv
<1> QED BY <1>1, <1>2, <1>3, AsksRequests, NothingRests DEF HistoryInv

LEMMA StepMatchKeeps ==
  ASSUME HistoryInv, TH!StepMatch PROVE HistoryInv'
<1>1. PICK n : TH!EnsureVisible(n)
  BY DEF TH!StepMatch
<1>2. UNCHANGED <<kept, lines, known, sel>>
  BY DEF TH!StepMatch
<1>3. Requests(flying')
  <2>1. CASE n \in lines
    BY <1>1, <2>1 DEF TH!EnsureVisible, HistoryInv
  <2>2. CASE n \notin lines
    <3>1. PICK from, count : TH!Asks("jump", TH!History(from, count), [TH!Nothing EXCEPT !.n = n])
      BY <1>1, <2>2 DEF TH!EnsureVisible
    <3>2. TH!History(from, count) \subseteq Line
      BY SentLines DEF HistoryInv
    <3> QED BY <3>1, <3>2, AsksRequests, NothingRests
  <2> QED BY <2>1, <2>2
<1> QED BY <1>2, <1>3 DEF HistoryInv

LEMMA SelectKeeps ==
  ASSUME HistoryInv, NEW n \in lines, TH!Select(n) PROVE HistoryInv'
<1>1. UNCHANGED <<kept, lines, known>>
  BY DEF TH!Select
<1>2. n \in Line /\ n \in Int /\ sel \in Sel /\ lines \subseteq Line
  BY DEF HistoryInv, Selects, Line
<1>3. CASE /\ sel' = [TH!NoSel EXCEPT !.on = TRUE, !.anchor = n, !.focus = n]
           /\ flying' = TH!Disowned(flying)
  <2>1. Selects(sel', lines)
    <3>1. sel' = [on |-> TRUE, anchor |-> n, focus |-> n, end |-> -1]
      BY <1>3 DEF TH!NoSel
    <3> QED BY <1>2, <3>1 DEF Selects, Sel
  <2> QED BY <1>1, <1>3, <2>1, DisownedRequests DEF HistoryInv
<1>4. CASE sel.on /\ sel' = [sel EXCEPT !.focus = n, !.end = -1] /\ UNCHANGED flying
  <2>1. Selects(sel', lines)
    <3>1. /\ sel' \in Sel /\ sel'.on = sel.on /\ sel'.anchor = sel.anchor /\ sel'.focus = n
          /\ sel'.end = -1
      <4>1. sel' = [sel EXCEPT !.focus = n, !.end = -1]
        BY <1>4
      <4>2. sel \in Sel /\ n \in Int
        BY <1>2
      <4> DEFINE none == -1
      <4>3. none \in Int
        OBVIOUS
      <4> HIDE DEF none
      <4>4. sel' = [sel EXCEPT !.focus = n, !.end = none]
        BY <4>1 DEF none
      <4>5. sel' \in Sel /\ sel'.on = sel.on /\ sel'.anchor = sel.anchor /\ sel'.focus = n
            /\ sel'.end = none
        BY <4>2, <4>3, <4>4 DEF Sel
      <4> QED BY <4>5 DEF none
    <3>2. sel.anchor \in lines
      BY <1>4 DEF HistoryInv, Selects
    <3> QED BY <1>2, <3>1, <3>2 DEF Selects
  <2> QED BY <1>1, <1>4, <2>1 DEF HistoryInv
<1> QED BY <1>3, <1>4 DEF TH!Select

(* Extended to the newest line there is, a selection reaches the end that  *)
(* is among the lines.                                                     *)
LEMMA ToEndSelects ==
  ASSUME MaxTotal \in Nat, Selects(sel, lines), sel.on, NEW ls, lines \subseteq ls, ls \subseteq Line,
         NEW end \in Int, TH!Max(ls) >= end \/ end \in ls
  PROVE  Selects(TH!ToEnd(sel, ls, end), ls)
<1>1. sel \in Sel /\ sel.anchor \in ls /\ ls # {}
  BY DEF Selects
<1>2. TH!Max(ls) \in ls /\ \A n \in ls : n <= TH!Max(ls)
  BY <1>1, MinMaxHere DEF Line
<1>3. TH!Max(ls) \in Line /\ TH!Max(ls) \in Int /\ TH!Max(ls) >= end
  <2>1. TH!Max(ls) \in Line /\ TH!Max(ls) \in Int
    <3>1. TH!Max(ls) \in Line
      BY <1>2
    <3>2. \A n \in Line : n \in Int
      BY DEF Line
    <3> QED BY <3>1, <3>2
  <2>2. CASE end \in ls
    BY <1>2, <2>1, <2>2
  <2> QED BY <2>1, <2>2
<1> DEFINE m == TH!Max(ls)
<1> HIDE DEF m
<1>4. TH!ToEnd(sel, ls, end) = [sel EXCEPT !.focus = m, !.end = end]
  BY DEF TH!ToEnd, m
<1>5. m \in Line /\ m \in Int /\ m >= end
  BY <1>3 DEF m
<1> QED BY <1>1, <1>4, <1>5 DEF Selects, Sel

LEMMA SelectThroughEndKeeps ==
  ASSUME MaxTotal \in Nat, HistoryInv, TH!SelectThroughEnd PROVE HistoryInv'
<1>1. UNCHANGED <<kept, lines, known>> /\ sel.on
  BY DEF TH!SelectThroughEnd
<1>2. CASE TH!Max(lines) >= known.total /\ sel' = TH!ToEnd(sel, lines, known.total)
           /\ UNCHANGED flying
  <2>1. known.total \in Int /\ Selects(sel, lines) /\ lines \subseteq Line
    BY DEF HistoryInv, Line, Selects
  <2>2. Selects(sel', lines)
    BY <1>1, <1>2, <2>1, ToEndSelects
  <2> QED BY <1>1, <1>2, <2>2 DEF HistoryInv
<1>3. CASE TH!Asks("screen", TH!Screen, [TH!Nothing EXCEPT !.mine = TRUE]) /\ UNCHANGED sel
  <2>1. kept.total \in Line /\ TH!Screen = {kept.total} /\ TH!Screen \subseteq Line
    BY DEF HistoryInv, TH!Screen
  <2>2. Requests(flying')
    BY <1>3, <2>1, AsksRequests, NothingRests
  <2> QED BY <1>1, <1>3, <2>2 DEF HistoryInv
<1> QED BY <1>2, <1>3 DEF TH!SelectThroughEnd

-----------------------------------------------------------------------------
(* Answers.                                                                *)
LEMMA OthersRequests ==
  ASSUME HistoryInv, NEW f \in flying
  PROVE  Requests(TH!Others(f)) /\ PageRequest(f)
BY DEF HistoryInv, Requests, TH!Others

LEMMA HoldsSelects ==
  ASSUME HistoryInv, NEW ls \in SUBSET Line, TH!Holds(ls)
  PROVE  Selects(sel', lines')
BY WatchedSelects DEF HistoryInv, TH!Holds

LEMMA FillsKeeps ==
  ASSUME MaxTotal \in Nat, HistoryInv, NEW f \in flying, NEW ls, lines \subseteq ls, ls \subseteq Line,
         NEW r, Rest(r), r.end \in Line, r.screen = {r.end}, TH!Fills(f, ls, r)
  PROVE  Selects(sel', lines') /\ Requests(flying')
<1>1. CASE r.from < r.end
  <2>1. TH!Holds(ls)
    BY <1>1 DEF TH!Fills
  <2>2. PICK count : flying' = TH!Others(f) \union
          {[kind |-> "fill", got |-> TH!History(r.from, count), kept |-> kept, no |-> f.no,
            for |-> r]}
    BY <1>1 DEF TH!Fills
  <2>3. TH!History(r.from, count) \subseteq Line /\ kept.total \in Line
    BY SentLines DEF HistoryInv
  <2>4. PageRequest([kind |-> "fill", got |-> TH!History(r.from, count), kept |-> kept,
                     no |-> f.no, for |-> r])
    BY <2>3, NewRequest
  <2> DEFINE q == [kind |-> "fill", got |-> TH!History(r.from, count), kept |-> kept,
                   no |-> f.no, for |-> r]
  <2>5. flying' = TH!Others(f) \union {q} /\ PageRequest(q)
    BY <2>2, <2>4
  <2> HIDE DEF q
  <2>6. Requests(flying')
    BY <2>5, OthersRequests DEF Requests
  <2> QED BY <2>1, <2>6, HoldsSelects
<1>2. CASE ~(r.from < r.end)
  <2> DEFINE all == ls \union r.screen
  <2>1. /\ flying' = TH!Others(f) /\ lines' = all
        /\ sel' = IF r.mine /\ sel.on THEN TH!ToEnd(sel, all, r.end) ELSE sel
    BY <1>2 DEF TH!Fills
  <2>2. all \subseteq Line /\ lines \subseteq all /\ r.end \in all /\ r.end \in Int
    <3>1. r.end \in r.screen /\ r.screen \subseteq Line
      OBVIOUS
    <3>2. all \subseteq Line /\ lines \subseteq all /\ r.end \in all
      BY <3>1
    <3>3. r.end \in Int
      BY DEF Line
    <3> QED BY <3>2, <3>3
  <2>3. Selects(sel, lines)
    BY DEF HistoryInv
  <2> HIDE DEF all
  <2>4. Selects(sel, all)
    BY <2>2, <2>3 DEF Selects
  <2>5. sel.on => Selects(TH!ToEnd(sel, all, r.end), all)
    BY <2>2, <2>3, ToEndSelects
  <2> QED BY <2>1, <2>4, <2>5, OthersRequests
<1> QED BY <1>1, <1>2

LEMMA AnsweredHolds ==
  ASSUME MaxTotal \in Nat, HistoryInv, NEW f \in flying, TH!Answered(f)
  PROVE  HistoryInv'
<1>1. Requests(TH!Others(f)) /\ PageRequest(f) /\ f.got \subseteq Line /\ f.kept.total \in Line
  BY OthersRequests DEF PageRequest
<1>2. /\ kept \in [base : Nat, total : Line] /\ known.total \in Line /\ Selects(sel, lines)
      /\ lines \subseteq Line
  BY DEF HistoryInv, Selects
<1>3. CASE TH!Fails(f)
  BY <1>1, <1>2, <1>3 DEF TH!Fails, HistoryInv
<1>4. CASE TH!Opened(f)
  <2>1. Selects(sel', lines') /\ Requests(flying')
    BY <1>1, <1>4, HoldsSelects, LetsRequests DEF TH!Opened
  <2> QED BY <1>1, <1>2, <1>4, <2>1 DEF TH!Opened, TH!Told, HistoryInv
<1>5. CASE TH!Older(f)
  <2>1. Selects(sel', lines') /\ Requests(flying')
    BY <1>1, <1>2, <1>5, HoldsSelects DEF TH!Older
  <2> QED BY <1>1, <1>2, <1>5, <2>1 DEF TH!Older, TH!Told, HistoryInv
<1>6. CASE TH!Jumped(f)
  <2>1. PICK ls \in SUBSET Line : TH!Holds(ls) /\ flying' = TH!Lets(ls, TH!Others(f))
    <3>1. lines \union f.got \in SUBSET Line /\ f.got \in SUBSET Line
      BY <1>1, <1>2
    <3> QED BY <1>6, <3>1 DEF TH!Jumped
  <2>2. Selects(sel', lines') /\ Requests(flying')
    BY <1>1, <2>1, HoldsSelects, LetsRequests
  <2> QED BY <1>1, <1>2, <1>6, <2>2 DEF TH!Jumped, TH!Told, HistoryInv
<1>7. CASE TH!Searched(f)
  <2>1. UNCHANGED <<kept, lines, known, sel>>
    BY <1>7 DEF TH!Searched
  <2>2. \/ flying' = TH!Others(f)
        \/ \E n, from, count :
             flying' = TH!Others(f) \union
               {[kind |-> "jump", no |-> f.no, kept |-> kept, for |-> [TH!Nothing EXCEPT !.n = n],
                 got |-> TH!History(from, count)]}
    BY <1>7 DEF TH!Searched
  <2>3. ASSUME NEW n, NEW from, NEW count
        PROVE  PageRequest([kind |-> "jump", no |-> f.no, kept |-> kept,
                            for |-> [TH!Nothing EXCEPT !.n = n],
                            got |-> TH!History(from, count)])
    <3>1. TH!History(from, count) \subseteq Line /\ kept.total \in Line
      BY SentLines DEF HistoryInv
    <3> DEFINE r == [TH!Nothing EXCEPT !.n = n]
    <3>2. Rest(r)
      BY NothingRests
    <3> HIDE DEF r
    <3>3. PageRequest([kind |-> "jump", no |-> f.no, kept |-> kept, for |-> r,
                       got |-> TH!History(from, count)])
      BY <3>1, <3>2 DEF PageRequest
    <3> QED BY <3>3 DEF r
  <2>4. Requests(flying')
    <3> HIDE DEF PageRequest
    <3>1. \E q : PageRequest(q) /\ flying' \subseteq TH!Others(f) \union {q}
      BY <1>1, <2>2, <2>3
    <3> QED BY <1>1, <3>1 DEF Requests
  <2> QED BY <1>2, <2>1, <2>4 DEF HistoryInv
<1>8. CASE TH!ScreenRead(f)
  <2> DEFINE r == [f.for EXCEPT !.from = TH!Max(lines) + 1, !.end = TH!Min(f.got),
                                !.screen = f.got]
  <2>1. PICK n \in Line : f.got = {n}
    BY <1>1, <1>8 DEF TH!ScreenRead, PageRequest
  <2>2. TH!Min(f.got) = n
    BY <2>1 DEF TH!Min, Line
  <2>3. Rest(r) /\ r.end \in Line /\ r.screen = {r.end}
    <3>1. Rest(f.for) /\ f.got \in SUBSET Line
      BY <1>1 DEF PageRequest
    <3>2. Rest(r) /\ r.end = TH!Min(f.got) /\ r.screen = f.got
      <4> DEFINE lo == TH!Max(lines) + 1
                 hi == TH!Min(f.got)
      <4> HIDE DEF lo, hi
      <4> DEFINE r1 == [f.for EXCEPT !.from = lo]
                 r2 == [r1 EXCEPT !.end = hi]
      <4>1. Rest(r1)
        BY <3>1, RestSets
      <4> HIDE DEF r1
      <4>2. Rest(r2) /\ r2.end = hi
        BY <4>1, RestSets
      <4> HIDE DEF r2
      <4>3. LET q == [r2 EXCEPT !.screen = f.got]
            IN Rest(q) /\ q.end = hi /\ q.screen = f.got
        BY <3>1, <4>2, RestSets
      <4> QED BY <4>3 DEF lo, hi, r1, r2
    <3> HIDE DEF r
    <3> QED BY <2>1, <2>2, <3>2
  <2>4. TH!Fills(f, lines, r) /\ TH!Told(f) /\ UNCHANGED kept
    BY <1>8 DEF TH!ScreenRead
  <2> HIDE DEF r
  <2>5. Selects(sel', lines') /\ Requests(flying')
    BY <1>2, <2>3, <2>4, FillsKeeps
  <2> QED BY <1>1, <1>2, <2>4, <2>5 DEF TH!Told, HistoryInv
<1>9. CASE TH!Filled(f)
  <2>1. TH!Told(f) /\ UNCHANGED kept /\ f.kind = "fill"
    BY <1>9 DEF TH!Filled
  <2>2. CASE flying' = TH!Others(f) /\ UNCHANGED <<lines, sel>>
    BY <1>1, <1>2, <2>1, <2>2 DEF TH!Told, HistoryInv
  <2>3. CASE \E count : TH!Fills(f, lines \union f.got, [f.for EXCEPT !.from = @ + count])
    <3>1. PICK count : TH!Fills(f, lines \union f.got, [f.for EXCEPT !.from = @ + count])
      BY <2>3
    <3> DEFINE r == [f.for EXCEPT !.from = @ + count]
    <3>a. Rest(r) /\ r.end = f.for.end /\ r.screen = f.for.screen
      BY <1>1, RestSets DEF PageRequest
    <3>2. Rest(r) /\ r.end \in Line /\ r.screen = {r.end}
      BY <1>1, <2>1, <3>a DEF PageRequest
    <3>3. TH!Fills(f, lines \union f.got, r)
      BY <3>1
    <3> HIDE DEF r
    <3>4. Selects(sel', lines') /\ Requests(flying')
      BY <1>1, <1>2, <3>2, <3>3, FillsKeeps
    <3> QED BY <1>1, <1>2, <2>1, <3>4 DEF TH!Told, HistoryInv
  <2>4. \/ flying' = TH!Others(f) /\ UNCHANGED <<lines, sel>>
        \/ \E count : TH!Fills(f, lines \union f.got, [f.for EXCEPT !.from = @ + count])
    BY <1>9 DEF TH!Filled
  <2> QED BY <2>2, <2>3, <2>4
<1> QED BY <1>3, <1>4, <1>5, <1>6, <1>7, <1>8, <1>9 DEF TH!Answered

-----------------------------------------------------------------------------
LEMMA HistoryInitHolds ==
  ASSUME MaxTotal \in Nat \ {0}, TH!ThInit PROVE HistoryInv
<1>1. kept \in [base : Nat, total : Line] /\ known.total \in Line
  BY DEF TH!ThInit, Line
<1>2. Selects(sel, lines)
  BY DEF TH!ThInit, Selects, Sel, TH!NoSel, TH!Span, Line
<1>3. Requests(flying)
  BY DEF TH!ThInit, Requests
<1> QED BY <1>1, <1>2, <1>3 DEF HistoryInv

LEMMA HistoryInductive ==
  ASSUME MaxTotal \in Nat, HistoryInv, [TH!ThNext]_thVars
  PROVE  HistoryInv'
<1>1. ASSUME TH!Scrolls PROVE HistoryInv'
  <2>1. /\ kept' \in {[kept EXCEPT !.total = @ + 1], [kept EXCEPT !.base = 1]}
        /\ kept.total < MaxTotal /\ UNCHANGED <<lines, known, flying, sel>>
    BY <1>1 DEF TH!Scrolls
  <2>2. kept' \in [base : Nat, total : Line]
    BY <2>1 DEF HistoryInv, Line
  <2> QED BY <2>1, <2>2 DEF HistoryInv
<1>2. ASSUME TH!CloseSearch \/ UNCHANGED thVars PROVE HistoryInv'
  BY <1>2 DEF TH!CloseSearch, thVars, HistoryInv
<1> QED
  BY <1>1, <1>2, OpenKeeps, CloseKeeps, LoadOlderKeeps, RunSearchKeeps, StepMatchKeeps,
     SelectThroughEndKeeps, SelectKeeps, AnsweredHolds DEF TH!ThNext

(* What is offered for copying has no hole.                                *)
LEMMA SelectedWhole ==
  ASSUME MaxTotal \in Nat, HistoryInv, TH!Selected # {}
  PROVE  \A n \in TH!Min(TH!Ends)..TH!Max(TH!Ends) : n \in TH!Selected
<1> DEFINE s == IF sel.on THEN TH!Between(TH!Min(TH!Ends), TH!Max(TH!Ends)) ELSE {}
<1>1. /\ TH!Selected = s /\ s # {}
      /\ TH!Min(s) = TH!Min(TH!Ends) /\ TH!Max(s) = TH!Max(TH!Ends)
      /\ \A n \in s : n = TH!Min(s) \/ n - 1 \in s
  BY DEF TH!Selected
<1>2. s \subseteq 0..MaxTotal
  BY DEF TH!Between, HistoryInv, Selects, Line
<1> HIDE DEF s
<1>3. TH!Min(s) \in s /\ TH!Max(s) \in s /\ \A n \in s : n <= TH!Max(s)
  BY <1>1, <1>2, MinMaxHere
<1>4. \A n \in TH!Min(s)..TH!Max(s) : n \in s
  BY <1>1, <1>2, <1>3, NoHole
<1> QED BY <1>1, <1>4

(* A selection stays what was meant while pages come and go, for any       *)
(* length of the history and of its pages (useTerminalHistory.ts,          *)
(* historySelection.ts).                                                   *)
THEOREM SelectionStaysWhatWasMeant == PageSpec => []SelectionHolds
<1>1. PageInit => HistoryInv
  BY HistoryInitHolds, PageAssumption DEF PageInit
<1>2. HistoryInv /\ [PageNext]_<<focus, upVars, usVars, ccVars, ftVars, fpVars, ahVars, thVars,
                                 urVars, trVars, qsVars>> => HistoryInv'
  <2>1. ASSUME PageNext PROVE [TH!ThNext]_thVars
    BY <2>1 DEF PageNext
  <2> QED BY <2>1, HistoryInductive, PageAssumption
<1>3. HistoryInv => SelectionHolds
  BY SelectedWhole, PageAssumption DEF HistoryInv, Selects, SelectionHolds, TH!SelectionHolds
<1> QED BY <1>1, <1>2, <1>3, PTL DEF PageSpec
=============================================================================
