---------------------------- MODULE AttentionHud ----------------------------
(***************************************************************************)
(* When a window of the session may interrupt the user: useAttentionHud    *)
(* over statusEdgeDetector, and what was seen (useAgentOverview).          *)
(*                                                                         *)
(* The agent in each pane of a window runs, waits, or has finished and     *)
(* awaits; a wait may be dated by its turn (awaitingSince) or not (0).     *)
(* The window's card rolls the panes up, so its date may go back to the    *)
(* older wait of another pane.  The page learns of it in frames of         *)
(* telemetry, which may skip states and lose a window for a while.  Every  *)
(* frame feeds the seen layer, then the detector and the gates.            *)
(***************************************************************************)
EXTENDS Naturals, FiniteSets

CONSTANTS
  Windows,
  Panes,      \* how many panes with agents each window has
  MaxTurns,   \* bound: dated turns
  MaxFrames   \* bound: frames after the first, and things the user does

VARIABLES
  agent,      \* the panes of each window, as they are
  turns,      \* the dated turns there were: the time goes by them
  front,      \* the active window
  frame,      \* the last frame: the cards of the windows in it
  seen,       \* seen: the turn of each window that was looked at, kept over reloads
  undated,    \* undatedSeen
  overview, hidden,  \* the overview covers the page; the page is in the background
  last,       \* the detector's memory, by window
  primed,
  raised, muted,     \* raisedAck, mutedAck
  cooling,    \* windows within the cooldown of raisedAt
  card,       \* the items of the card
  spoken,     \* history: dated turns raised since their window came, and those waved away
  newest,     \* history: the latest date frames gave each window since it came
  backward,   \* history: windows that had an earlier date after a later one
  repeated,   \* history: a turn was raised again though its window's dates never went back
  acts

ahVars == <<agent, turns, front, frame, seen, undated, overview, hidden, last, primed, raised, muted,
            cooling, card, spoken, newest, backward, repeated, acts>>

None == [status |-> "none", awaits |-> FALSE, since |-> 0]
Running == [status |-> "running", since |-> 0]

(* RollUp: the card of a window of these panes.  Severity decides the      *)
(* status; the date is that of the first pane that has one.                *)
RollUp(panes) ==
  LET some(s) == \E p \in DOMAIN panes : panes[p].status = s
      dated == {p \in DOMAIN panes : panes[p].since > 0}
  IN [status |-> IF some("waiting") THEN "waiting" ELSE IF some("running") THEN "running" ELSE "idle",
      awaits |-> some("waiting") \/ some("done"),
      since  |-> IF dated = {} THEN 0
                 ELSE panes[CHOOSE p \in dated : \A q \in dated : p <= q].since]

Cut(f, live) == [k \in Windows |-> IF k \in live THEN f[k] ELSE 0]

AhInit ==
  /\ agent = [k \in Windows |-> [p \in 1..Panes[k] |-> Running]] /\ turns = 0
  /\ front \in Windows /\ frame = [k \in Windows |-> None]
  /\ seen = [k \in Windows |-> 0] /\ undated = {} /\ overview = FALSE /\ hidden = FALSE
  /\ last = [k \in Windows |-> "none"] /\ primed = FALSE
  /\ raised = [k \in Windows |-> 0] /\ muted = [k \in Windows |-> 0] /\ cooling = {}
  /\ card = {} /\ spoken = {} /\ repeated = FALSE /\ acts = 0
  /\ newest = [k \in Windows |-> 0] /\ backward = {}

Acts == acts < MaxFrames /\ acts' = acts + 1
Said == <<spoken, newest, backward, repeated>>
Hud == <<raised, muted, card, Said>>

-----------------------------------------------------------------------------
(* The agents: running, then a wait or an end, dated or not                *)
AgentStops(k, p) ==
  /\ agent[k][p].status = "running"
  /\ \E status \in {"waiting", "done"}, since \in {0, turns + 1} :
       /\ since <= MaxTurns
       /\ agent' = [agent EXCEPT ![k][p] = [status |-> status, since |-> since]]
       /\ turns' = IF since = 0 THEN turns ELSE since
  /\ UNCHANGED <<front, frame, seen, undated, overview, hidden, last, primed, cooling, acts, Hud>>
AgentGoesOn(k, p) ==
  /\ \/ agent[k][p].status # "running" /\ agent' = [agent EXCEPT ![k][p] = Running]
     \/ agent[k][p].status = "waiting" /\ agent' = [agent EXCEPT ![k][p].status = "done"]
  /\ UNCHANGED <<turns, front, frame, seen, undated, overview, hidden, last, primed, cooling, acts, Hud>>

(* effectiveStatus, on the seen layer sn and un                            *)
Effective(k, w, sn, un) ==
  IF w.status # "idle" \/ ~w.awaits THEN w.status
  ELSE IF (w.since > 0 /\ sn[k] = w.since) \/ (w.since = 0 /\ k \in un) THEN "idle" ELSE "done-unseen"

(* Mutant of SaidBefore: the gates of identity stand down for every turn.  *)
SaidNever(k, since) == FALSE

(* gates 1 and 4: this turn was raised, or waved away                      *)
SaidBefore(k, since) == since > 0 /\ since \in {raised[k], muted[k]}

(* visibleKeys: what the user sees already                                 *)
Visible(live) == IF overview THEN live ELSE {front} \intersect live

(* A frame with the windows live: both watches                             *)
Frame(live) ==
  LET w == [k \in Windows |-> IF k \in live THEN RollUp(agent[k]) ELSE None]
      looked == {k \in live : k = front /\ ~overview /\ w[k].awaits /\ w[k].since > 0}
      sn == [k \in Windows |-> IF k \in looked THEN w[k].since ELSE Cut(seen, live)[k]]
      un == {k \in undated \intersect live : w[k].awaits}
      status == [k \in Windows |-> IF k \in live THEN Effective(k, w[k], sn, un) ELSE "none"]
      edges == IF primed THEN {k \in live : status[k] # last[k]} ELSE {}
      cool == (cooling \intersect live) \ {k \in edges : status[k] = "running"}
      wanting == {k \in live : status[k] \in {"waiting", "done-unseen"}}
      admitted == IF hidden THEN {} ELSE
        {k \in (edges \intersect wanting) \ (Visible(live) \union cool) : ~SaidBefore(k, w[k].since)}
      now == {[key |-> k, status |-> status[k], since |-> w[k].since] : k \in wanting}
  IN /\ frame' = w /\ last' = status /\ primed' = TRUE
     /\ IF primed \/ live # {} THEN seen' = sn /\ undated' = un ELSE UNCHANGED <<seen, undated>>
     /\ raised' = [k \in Windows |-> IF k \in admitted THEN w[k].since ELSE Cut(raised, live)[k]]
     /\ muted' = Cut(muted, live) /\ cooling' = cool \union admitted
     /\ card' = {c \in now : c.key \in admitted \/ \E d \in card : d.key = c.key}
     /\ newest' = [k \in Windows |-> IF w[k].since > newest[k] THEN w[k].since
                                    ELSE Cut(newest, live)[k]]
     /\ backward' = {k \in live : k \in backward \/ w[k].since \in 1..(newest[k] - 1)}
     /\ repeated' = (repeated \/ \E k \in admitted \ backward' : <<k, w[k].since>> \in spoken)
     /\ spoken' = {s \in spoken : s[1] \in live}
                    \union {<<k, w[k].since>> : k \in {x \in admitted : w[x].since > 0}}

(* Telemetry arrives, or loses windows                                     *)
FrameArrives ==
  /\ \E live \in SUBSET Windows : Frame(live)
  /\ IF primed THEN Acts ELSE UNCHANGED acts
  /\ UNCHANGED <<agent, turns, front, overview, hidden>>
Cools(k) ==
  /\ k \in cooling /\ cooling' = cooling \ {k}
  /\ UNCHANGED <<agent, turns, front, frame, seen, undated, overview, hidden, last, primed, acts, Hud>>

-----------------------------------------------------------------------------
(* markSeen (dismiss of the seen layer) for the window as last received    *)
MarkSeen(k) ==
  IF frame[k].since > 0 THEN seen' = [seen EXCEPT ![k] = frame[k].since] /\ UNCHANGED undated
  ELSE undated' = (IF frame[k].awaits THEN undated \union {k} ELSE undated) /\ UNCHANGED seen

Mute(items) ==
  /\ muted' = [k \in Windows |-> IF \E c \in items : c.key = k
                 THEN (CHOOSE c \in items : c.key = k).since ELSE muted[k]]
  /\ spoken' = spoken \union {<<c.key, c.since>> : c \in {d \in items : d.since > 0}}
Close ==
  /\ card' = {}
  /\ UNCHANGED <<agent, turns, frame, overview, hidden, last, primed, raised, cooling, newest,
                 backward, repeated>>

(* activate: the user goes to the window of one item                       *)
Activate(c) ==
  /\ c \in card /\ MarkSeen(c.key) /\ Mute({c}) /\ front' = c.key /\ Close /\ Acts
(* dismiss: the most urgent is seen, the others only muted                 *)
Primary == IF \E c \in card : c.status = "waiting" THEN {c \in card : c.status = "waiting"} ELSE card
Dismiss ==
  /\ \E c \in Primary : MarkSeen(c.key)
  /\ Mute(card) /\ UNCHANGED front /\ Close /\ Acts
(* collapse: its time is over                                              *)
Collapse ==
  /\ card # {} /\ Close /\ UNCHANGED <<front, seen, undated, muted, spoken, acts>>
(* dismiss of a card of the overview                                       *)
OverviewDismiss(k) ==
  /\ overview /\ frame[k].awaits /\ MarkSeen(k) /\ Acts
  /\ UNCHANGED <<agent, turns, front, frame, overview, hidden, last, primed, cooling, Hud>>

Looks ==
  /\ \/ front' \in Windows \ {front} /\ UNCHANGED <<overview, hidden>>
     \/ overview' = ~overview /\ UNCHANGED <<front, hidden>>
     \/ hidden' = ~hidden /\ UNCHANGED <<front, overview>>
  /\ Acts /\ UNCHANGED <<agent, turns, frame, seen, undated, last, primed, cooling, Hud>>

(* The page is loaded again: only what was seen is kept.                   *)
Reload ==
  /\ primed /\ primed' = FALSE /\ last' = [k \in Windows |-> "none"] /\ frame' = [k \in Windows |-> None]
  /\ undated' = {} /\ raised' = [k \in Windows |-> 0] /\ muted' = raised' /\ cooling' = {} /\ card' = {}
  /\ spoken' = {} /\ newest' = raised' /\ backward' = {}
  /\ Acts /\ UNCHANGED <<agent, turns, front, seen, overview, hidden, repeated>>

AhNext ==
  \/ \E k \in Windows : \/ \E p \in 1..Panes[k] : AgentStops(k, p) \/ AgentGoesOn(k, p)
                         \/ Cools(k) \/ OverviewDismiss(k)
  \/ \E c \in card : Activate(c)
  \/ FrameArrives \/ Dismiss \/ Collapse \/ Looks \/ Reload
AhSpec == AhInit /\ [][AhNext]_ahVars

-----------------------------------------------------------------------------
(* A dated turn interrupts the user once: as long as the dates frames gave *)
(* its window did not go back, it is not raised again after it was raised  *)
(* or waved away, though its status changes, its cooldown ends, another    *)
(* pane asks and cards come and go.  A card speaks of windows as the last  *)
(* frame had them, and not of a completion that had been seen by then.     *)
TurnInterruptsOnce ==
  /\ ~repeated
  /\ \A c \in card : frame[c.key].since = c.since /\ last[c.key] = c.status
  /\ \A c, d \in card : c.key = d.key => c = d
=============================================================================
