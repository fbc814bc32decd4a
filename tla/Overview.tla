------------------------------ MODULE Overview ------------------------------
(***************************************************************************)
(* What of the agents' work the user has seen (useAgentOverview.ts), kept  *)
(* by every list of cards on the page - the tabs' (useCliState.ts) and,    *)
(* for a tab in tmux, its windows' (CliTerminalSurface.vue) - and stored   *)
(* for the next load; and the drawer's tab of figures of a session         *)
(* (SessionOverviewTab.vue).                                               *)
(*                                                                         *)
(* A turn that waits for the user is a number, or Undated when nothing     *)
(* says since when.  A card reports what its session does, as it likes;    *)
(* a dated turn is newer than those before it.                             *)
(***************************************************************************)
EXTENDS Naturals, FiniteSets

CONSTANTS
  Lists,         \* the lists of cards on the page
  Units,         \* the sessions or windows a list may show
  MaxTurns,
  Sessions, Places, NoData

VARIABLES
  cards,         \* by list: the units shown, and what each does
  turn,          \* the last turn of a unit that ended, 0 before any
  seen,          \* seen, by list: the dated turn that was acknowledged
  undatedSeen,   \* by list
  received,      \* receivedUnits
  stored,        \* needsYouSeen in localStorage
  acked,         \* the turns the user has acknowledged, by list and unit
  tab            \* SessionOverviewTab

seenVars == <<cards, turn, seen, undatedSeen, received, stored, acked>>
overviewVars == <<seenVars, tab>>

(* What a card says: at work or idle, waiting since nobody knows when, or  *)
(* since a turn that ended.                                                *)
Works == 0
Undated == MaxTurns + 1
None == [u \in {} |-> 0]
(* A card's key is of its list: a session's, or a window's of tmux.        *)
Keys(l) == {<<l, u>> : u \in Units}
Tab0 == [session |-> CHOOSE s \in Sessions : TRUE, place |-> CHOOSE p \in Places : TRUE,
         active |-> FALSE, shown |-> NoData, loading |-> TRUE, polling |-> FALSE,
         request |-> NoData, flying |-> {}, seq |-> 0]

OverviewInit ==
  /\ cards = [l \in Lists |-> None] /\ turn = [l \in Lists |-> [u \in Keys(l) |-> 0]]
  /\ seen = [l \in Lists |-> None] /\ undatedSeen = [l \in Lists |-> {}]
  /\ received = [l \in Lists |-> FALSE] /\ stored = None
  /\ acked = [l \in Lists |-> {}] /\ tab = Tab0

----------------------------------------------------------------------------
(* useOverviewUnits                                                        *)

Dated(since) == since \in 1 .. MaxTurns
Awaits(since) == since # Works
SeenOf(l, u) == IF u \in DOMAIN seen[l] THEN seen[l][u] ELSE 0

(* effectiveStatus of a card that is not at work                           *)
Needs(l, u) ==
  LET since == cards[l][u]
  IN Awaits(since) /\ (IF Dated(since) THEN SeenOf(l, u) # since ELSE u \notin undatedSeen[l])

(* The watch of the cards: what the user looks at is seen, and what is     *)
(* gone is forgotten - but not before the first cards have come.           *)
(* mutant: the empty list before the first frame forgets everything        *)
LoadingNever(l, cs) == FALSE
Loading(l, cs) == ~received[l] /\ DOMAIN cs = {}
Marked(l, cs, viewed) ==
  [u \in {x \in DOMAIN cs : x \in DOMAIN seen[l] \/ (x \in viewed /\ Dated(cs[x]))} |->
     IF u \in viewed /\ Dated(cs[u]) THEN cs[u] ELSE seen[l][u]]
Store(l, s) == stored' = IF s # seen[l] THEN s ELSE stored

(* A frame: the cards of a list, one of them viewed while no overview      *)
(* covers it.                                                              *)
Frame(l, cs, viewed) ==
  /\ cards' = [cards EXCEPT ![l] = cs]
  /\ IF Loading(l, cs)
     THEN UNCHANGED <<seen, undatedSeen, received, stored, acked>>
     ELSE LET s == Marked(l, cs, viewed)
          IN /\ received' = [received EXCEPT ![l] = TRUE]
             /\ seen' = [seen EXCEPT ![l] = s] /\ Store(l, s)
             /\ undatedSeen' = [undatedSeen EXCEPT ![l] = {u \in @ : u \in DOMAIN cs /\ Awaits(cs[u])}]
             /\ acked' = [acked EXCEPT ![l] =
                  {a \in @ : a[1] \in DOMAIN cs \/ (~received[l] /\ DOMAIN cs = {})}
                    \cup {<<u, cs[u]>> : u \in {x \in viewed : Dated(cs[x])}}]
(* What a list may show next: a unit comes, goes or does something else; a *)
(* turn that ended is dated anew, or not at all.                           *)
Feed(l) ==
  \E shown, new, undated, works \in SUBSET Keys(l) :
    /\ new \subseteq shown /\ works \subseteq shown /\ undated \subseteq new \ works
    /\ \A u \in new : turn[l][u] < MaxTurns
    /\ turn' = [turn EXCEPT ![l] = [u \in Keys(l) |-> IF u \in new THEN @[u] + 1 ELSE @[u]]]
    /\ LET says(u) == IF u \in works \/ (u \notin new /\ turn[l][u] = 0) THEN Works
                      ELSE IF u \in undated THEN Undated
                      ELSE IF u \notin new /\ u \in DOMAIN cards[l] /\ cards[l][u] = Undated THEN Undated
                      ELSE turn'[l][u]
       IN \E viewed \in SUBSET shown : Cardinality(viewed) <= 1 /\ Frame(l, [u \in shown |-> says(u)], viewed)
    /\ UNCHANGED tab
(* dismiss                                                                 *)
Dismiss(l, u) ==
  /\ u \in DOMAIN cards[l] /\ Awaits(cards[l][u])
  /\ IF Dated(cards[l][u])
     THEN /\ seen' = [seen EXCEPT ![l] = [x \in DOMAIN @ \cup {u} |-> IF x = u THEN cards[l][u] ELSE @[x]]]
          /\ Store(l, seen'[l])
          /\ acked' = [acked EXCEPT ![l] = @ \cup {<<u, cards[l][u]>>}]
          /\ UNCHANGED undatedSeen
     ELSE undatedSeen' = [undatedSeen EXCEPT ![l] = @ \cup {u}] /\ UNCHANGED <<seen, stored, acked>>
  /\ UNCHANGED <<cards, turn, received, tab>>
(* The page is loaded again: every list begins with what is stored.        *)
Reload ==
  /\ cards' = [l \in Lists |-> None] /\ received' = [l \in Lists |-> FALSE]
  /\ seen' = [l \in Lists |-> stored] /\ undatedSeen' = [l \in Lists |-> {}]
  /\ UNCHANGED <<turn, stored, acked, tab>>
(* The watch runs at once, with no cards as yet.                           *)
FirstWatch(l) ==
  /\ ~received[l] /\ cards[l] = None /\ Frame(l, None, {}) /\ UNCHANGED <<turn, tab>>

----------------------------------------------------------------------------
(* SessionOverviewTab                                                      *)

Key(t) == [session |-> t.session, place |-> t.place]
(* refresh: one request at a time                                          *)
Refreshed(t) ==
  IF ~t.active \/ t.request # NoData THEN t
  ELSE [t EXCEPT !.seq = @ + 1, !.request = t.seq + 1,
                 !.flying = @ \cup {[id |-> t.seq + 1, key |-> Key(t)]}]
CancelRequest(t) == [t EXCEPT !.request = NoData, !.seq = @ + 1]
MaxSeq == 4
TabStep(t) == t.seq <= MaxSeq /\ tab' = t /\ UNCHANGED seenVars

ShowTab ==
  /\ ~tab.active /\ TabStep([Refreshed([tab EXCEPT !.active = TRUE]) EXCEPT !.polling = TRUE])
HideTab ==
  /\ tab.active /\ TabStep(CancelRequest([tab EXCEPT !.active = FALSE, !.polling = FALSE]))
Poll == tab.polling /\ tab.request = NoData /\ TabStep(Refreshed(tab))
NewSession(s) == [CancelRequest(tab) EXCEPT !.session = s, !.shown = NoData, !.loading = TRUE]
SessionChanges(s) ==
  /\ s # tab.session
  /\ TabStep([Refreshed(NewSession(s)) EXCEPT !.polling = tab.active])
PlaceChanges(p) ==
  /\ p # tab.place /\ TabStep(Refreshed([CancelRequest(tab) EXCEPT !.place = p]))
(* An answer, a failure, or the timeout of 10 s; that of a request that    *)
(* was given up may still come.  One without figures leaves those shown.   *)
Ends(t, r) == [t EXCEPT !.request = IF t.request = r.id THEN NoData ELSE @, !.flying = @ \ {r},
                        !.loading = IF t.seq = r.id THEN FALSE ELSE @]
Answered(r, filled) ==
  /\ r \in tab.flying
  /\ LET takes == tab.seq = r.id /\ (filled \/ tab.shown = NoData)
     IN TabStep([Ends(tab, r) EXCEPT !.shown = IF takes THEN (IF filled THEN r.key ELSE NoData) ELSE @])
Failed(r) == r \in tab.flying /\ TabStep(Ends(tab, r))

SeenNext ==
  Reload \/ \E l \in Lists : Feed(l) \/ FirstWatch(l) \/ \E u \in Keys(l) : Dismiss(l, u)
FiguresNext ==
  \/ ShowTab \/ HideTab \/ Poll
  \/ (\E s \in Sessions : SessionChanges(s)) \/ (\E p \in Places : PlaceChanges(p))
  \/ (\E r \in tab.flying : Failed(r) \/ (\E filled \in BOOLEAN : Answered(r, filled)))
OverviewNext == SeenNext \/ FiguresNext
OverviewSpec == OverviewInit /\ [][OverviewNext]_overviewVars

----------------------------------------------------------------------------
(* A turn that the user has acknowledged asks no more, after a reload      *)
(* either, while its card stays (useAgentOverview.ts:463, "one seen-state  *)
(* across every component instance AND across reloads").                   *)
AcknowledgedStays ==
  \A l \in Lists : \A u \in DOMAIN cards[l] : <<u, cards[l][u]>> \in acked[l] => ~Needs(l, u)

(* A turn that ended unseen asks: neither an older acknowledgement nor     *)
(* that of another unit answers for it.                                    *)
NewTurnAsks ==
  \A l \in Lists : \A u \in DOMAIN cards[l] :
    (Dated(cards[l][u]) /\ \A k \in Lists : <<u, cards[l][u]>> \notin acked[k]) => Needs(l, u)

(* The figures shown are of the session on show, one request that counts   *)
(* is out at most, and a tab on show asks again (SessionOverviewTab.vue).  *)
FiguresAreItsSessions ==
  /\ tab.shown # NoData => tab.shown.session = tab.session
  /\ \A r \in tab.flying : tab.seq = r.id => tab.request = r.id
  /\ tab.active => tab.polling
OverviewHolds == AcknowledgedStays /\ NewTurnAsks /\ FiguresAreItsSessions
=============================================================================
