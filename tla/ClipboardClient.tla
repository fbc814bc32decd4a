--------------------------- MODULE ClipboardClient ---------------------------
(***************************************************************************)
(* The clipboard history of a browser (useRemoteClipboard): a log the app  *)
(* numbers within its life (epoch, sequence), read by one HTTP poll at a   *)
(* time and pushed over every terminal's socket, kept in IndexedDB.        *)
(*                                                                         *)
(* c is the client, cl an operand of the operators that follow its         *)
(* functions line by line; a step of the browser is one or more of them,   *)
(* as one turn of its event loop is.                                       *)
(***************************************************************************)
EXTENDS Naturals, Sequences

CONSTANTS
  Sockets,
  MaxSeq, MaxEpochs,   \* bounds: copies in one life of the app, lives of the app
  MaxEvents            \* bound: reloads, restarts, deletions, frames dropped, requests failed

VARIABLES
  app,      \* the app: its epoch and the last sequence
  c,        \* the client in the page
  stored,   \* IndexedDB
  removed,  \* localStorage: what was deleted
  ws,       \* frames under way on each connected socket
  budget    \* such events so far

ccVars == <<app, c, stored, removed, ws, budget>>

Idle == [pc |-> "off", force |-> FALSE, aborted |-> FALSE]
Fresh == [epoch |-> 0, cursor |-> 0, known |-> {}, list |-> {}, init |-> FALSE, loaded |-> FALSE,
          poll |-> Idle, wanted |-> FALSE, timer |-> "off", owners |-> {}, attached |-> FALSE, dirty |-> FALSE]
Entries(e, from, to) == {<<e, n>> : n \in from..to}
Closed == [up |-> FALSE, q |-> <<>>]
Up(s) == ws[s].up

CcInit ==
  /\ app \in [epoch : {1}, seq : 0..MaxSeq] /\ c = Fresh /\ removed = {}
  /\ \E n \in 0..MaxSeq : stored \in {[epoch |-> 0, cursor |-> 0, list |-> {}, known |-> {}],
                                      [epoch |-> 1, cursor |-> n, list |-> Entries(1, 1, n), known |-> Entries(1, 1, n)]}
                          /\ n <= app.seq
  /\ ws = [s \in Sockets |-> Closed] /\ budget = 0

(* publishClipboardEntry: the next entry, to the sockets it reaches         *)
Pushed(to) ==
  [s \in Sockets |-> IF s \notin to THEN ws[s]
     ELSE [ws[s] EXCEPT !.q = Append(@, [epoch |-> app.epoch, cursor |-> app.seq + 1,
                                         entries |-> {<<app.epoch, app.seq + 1>>}])]]

Spends == budget < MaxEvents /\ budget' = budget + 1

(* ---- the client's functions ---------------------------------------------- *)
Polling(cl) == cl.poll.pc # "off"

(* poll, as far as its first await                                         *)
Poll(cl, force) ==
  IF ~cl.attached THEN cl
  ELSE IF Polling(cl) THEN [cl EXCEPT !.wanted = @ \/ force]
  ELSE [cl EXCEPT !.wanted = @ /\ ~force, !.timer = "off",
                  !.poll = [Idle EXCEPT !.pc = "ready", !.force = force]]

(* its finally                                                             *)
PollOver(cl) ==
  LET o == [cl EXCEPT !.poll = Idle]
  IN IF o.attached /\ o.owners # {} /\ o.wanted THEN Poll([o EXCEPT !.wanted = FALSE], TRUE)
     ELSE IF o.attached /\ o.owners = {} THEN [o EXCEPT !.wanted = FALSE, !.timer = IF o.wanted THEN "force" ELSE "on"]
     ELSE o

Accept(cl, data) ==
  LET new == {e \in data.entries : e \notin cl.known /\ e \notin removed}
  IN [cl EXCEPT !.known = @ \union new, !.list = @ \union new, !.init = TRUE, !.dirty = TRUE,
                !.cursor = IF cl.epoch = data.epoch /\ data.cursor < cl.cursor THEN @ ELSE data.cursor,
                !.epoch = data.epoch]

PollResult(cl, data) ==
  IF data.entries # {} \/ cl.epoch # data.epoch THEN Accept(cl, data)
  ELSE [cl EXCEPT !.cursor = data.cursor, !.init = TRUE]

(* claimControlPlane: the poll under way is given up                       *)
Claim(cl, s) ==
  LET o == [cl EXCEPT !.owners = @ \union {s}, !.timer = "off", !.wanted = @ \/ ~cl.init,
                      !.poll.aborted = Polling(cl)]
  IN IF ~cl.init /\ ~Polling(cl) THEN Poll([o EXCEPT !.wanted = FALSE], TRUE) ELSE o
Claimed(cl, s) == IF s \in cl.owners THEN cl ELSE Claim(cl, s)

Release(cl, s) ==
  LET o == [cl EXCEPT !.owners = @ \ {s}]
  IN IF s \in cl.owners /\ o.owners = {} /\ ~Polling(o) THEN Poll(o, FALSE) ELSE o

WantSnapshot(cl) == Poll([cl EXCEPT !.wanted = TRUE], TRUE)
First(f) == CHOOSE n \in 1..MaxSeq : <<f.epoch, n>> \in f.entries /\ \A m \in 1..(n - 1) : <<f.epoch, m>> \notin f.entries

(* mutant: a delta that skips a sequence is taken as it comes              *)
GapSeenNever(cl, f) == FALSE
GapSeen(cl, f) == cl.init /\ f.entries # {} /\ First(f) > cl.cursor + 1

ApplyDelta(cl, f) ==
  IF cl.epoch # 0 /\ f.epoch # cl.epoch THEN WantSnapshot(cl)
  ELSE IF cl.init /\ cl.epoch = f.epoch /\ f.cursor <= cl.cursor THEN cl
  ELSE IF GapSeen(cl, f) THEN WantSnapshot(cl)
  ELSE IF f.entries # {} THEN Accept(cl, f)
  ELSE IF cl.init /\ f.cursor > cl.cursor THEN WantSnapshot(cl)
  ELSE [cl EXCEPT !.epoch = f.epoch, !.cursor = IF f.cursor > @ THEN f.cursor ELSE @, !.wanted = @ \/ ~cl.init]

(* ---- the page -------------------------------------------------------------- *)
Attach ==
  /\ ~c.attached /\ c' = Poll([c EXCEPT !.attached = TRUE], FALSE)
  /\ UNCHANGED <<app, stored, removed, ws, budget>>

(* ready: IndexedDB answers; what is there replaces what there is          *)
StoredLoaded ==
  /\ ~c.loaded
  /\ c' = IF stored.epoch = 0 THEN [c EXCEPT !.loaded = TRUE]
          ELSE [c EXCEPT !.loaded = TRUE, !.list = stored.list \ removed, !.known = stored.known \union removed,
                         !.cursor = stored.cursor, !.epoch = stored.epoch]
  /\ UNCHANGED <<app, stored, removed, ws, budget>>

(* persist: one save at a time, of what there is when it runs              *)
Saved ==
  /\ c.dirty /\ c.loaded /\ c' = [c EXCEPT !.dirty = FALSE]
  /\ stored' = [epoch |-> c.epoch, cursor |-> c.cursor, list |-> c.list, known |-> c.known]
  /\ UNCHANGED <<app, removed, ws, budget>>

PollAsks ==
  /\ c.poll.pc = "ready" /\ c.loaded /\ ~c.poll.aborted
  /\ c' = [c EXCEPT !.poll = [pc |-> "asked", force |-> c.poll.force, aborted |-> FALSE,
                              epoch |-> c.epoch, since |-> c.cursor, wait |-> c.init /\ ~c.poll.force]]
  /\ UNCHANGED <<app, stored, removed, ws, budget>>

(* clipboardStore.snapshot; a waiting one answers when there is something, *)
(* or empty when its time is over                                          *)
PollHandled ==
  /\ c.poll.pc = "asked" /\ ~c.poll.aborted
  /\ c' = [c EXCEPT !.poll = [pc |-> "answered", force |-> c.poll.force, aborted |-> FALSE,
             data |-> [epoch |-> app.epoch, cursor |-> app.seq,
                       entries |-> Entries(app.epoch, IF c.poll.epoch = app.epoch THEN c.poll.since + 1 ELSE 1, app.seq)]]]
  /\ UNCHANGED <<app, stored, removed, ws, budget>>

PollAnswered ==
  /\ c.poll.pc = "answered" /\ ~c.poll.aborted
  /\ c' = PollOver(PollResult(c, c.poll.data))
  /\ UNCHANGED <<app, stored, removed, ws, budget>>

PollFails ==
  /\ \/ c.poll.aborted /\ (c.poll.pc = "ready" => c.loaded) /\ UNCHANGED budget
     \/ c.poll.pc \in {"asked", "answered"} /\ ~c.poll.aborted /\ Spends
  /\ c' = PollOver(c)
  /\ UNCHANGED <<app, stored, removed, ws>>

TimerDue ==
  /\ c.timer # "off" /\ c' = Poll([c EXCEPT !.timer = "off"], c.timer = "force")
  /\ UNCHANGED <<app, stored, removed, ws, budget>>

RemoveEntry ==
  /\ \E e \in c.list : removed' = removed \union {e} /\ c' = [c EXCEPT !.list = @ \ {e}, !.dirty = TRUE]
  /\ Spends /\ UNCHANGED <<app, stored, ws>>

(* clear: all that is known is deleted                                     *)
ClearHistory ==
  /\ c.list # {}
  /\ removed' = removed \union c.known \union c.list /\ c' = [c EXCEPT !.list = {}, !.dirty = TRUE]
  /\ Spends /\ UNCHANGED <<app, stored, ws>>

(* saveRemote, sendDraft: the app's answer carries the entry it added,     *)
(* its delta may come before or after                                      *)
SentFromHere ==
  /\ app.seq < MaxSeq /\ c.attached /\ c.loaded
  /\ app' = [app EXCEPT !.seq = @ + 1]
  /\ LET e == <<app.epoch, app.seq + 1>>
     IN c' = [c EXCEPT !.known = @ \union {e}, !.list = @ \union {e}, !.dirty = TRUE]
  /\ ws' = Pushed({s \in Sockets : Up(s)})
  /\ UNCHANGED <<stored, removed, budget>>

(* a surface's socket: connected it is told where the log is; its first    *)
(* frame makes it an owner; lost it is one no more                         *)
Connects(s) ==
  /\ ~Up(s) /\ c.attached
  /\ ws' = [ws EXCEPT ![s] = [up |-> TRUE, q |-> <<[epoch |-> app.epoch, cursor |-> app.seq, entries |-> {}]>>]]
  /\ UNCHANGED <<app, c, stored, removed, budget>>
FrameComes(s) ==
  /\ Up(s) /\ ws[s].q # <<>>
  /\ ws' = [ws EXCEPT ![s].q = Tail(@)] /\ c' = ApplyDelta(Claimed(c, s), Head(ws[s].q))
  /\ UNCHANGED <<app, stored, removed, budget>>
Disconnects(s) ==
  /\ Up(s) /\ Spends
  /\ ws' = [ws EXCEPT ![s] = Closed] /\ c' = Release(c, s)
  /\ UNCHANGED <<app, stored, removed>>

Reload ==
  /\ Spends /\ c' = Fresh /\ ws' = [s \in Sockets |-> Closed] /\ UNCHANGED <<app, stored, removed>>

(* ---- the app ---------------------------------------------------------------- *)
Copied ==
  /\ app.seq < MaxSeq /\ app' = [app EXCEPT !.seq = @ + 1]
  /\ \E missed \in SUBSET {s \in Sockets : Up(s)} :
       /\ IF missed = {} THEN UNCHANGED budget ELSE Spends
       /\ ws' = Pushed({s \in Sockets : Up(s)} \ missed)
  /\ UNCHANGED <<c, stored, removed>>

AppRestarts ==
  /\ app.epoch < MaxEpochs /\ app' = [epoch |-> app.epoch + 1, seq |-> 0]
  /\ ws' = [s \in Sockets |-> Closed]
  /\ c' = IF c.owners = {} THEN c
          ELSE LET s == CHOOSE s \in c.owners : TRUE IN Release([c EXCEPT !.owners = {s}], s)
  /\ Spends /\ UNCHANGED <<stored, removed>>

CcNext ==
  \/ Attach \/ StoredLoaded \/ Saved \/ PollAsks \/ PollHandled \/ PollAnswered \/ PollFails \/ TimerDue
  \/ RemoveEntry \/ ClearHistory \/ SentFromHere \/ Reload \/ Copied \/ AppRestarts
  \/ \E s \in Sockets : Connects(s) \/ FrameComes(s) \/ Disconnects(s)

CcSpec == CcInit /\ [][CcNext]_ccVars

(* The client has every entry up to the cursor it asks from (deleted ones  *)
(* it knows too).                                                          *)
Whole(cl) == Entries(cl.epoch, 1, cl.cursor) \subseteq cl.known \union removed

(* Once loaded and whole the history stays whole: whatever the mixture of  *)
(* poll answers and frames, dropped, doubled, late or of another life of   *)
(* the app, the cursor never passes an entry the client does not have; and *)
(* what was deleted here never comes back, not by a reload that finds an   *)
(* older save, a late frame or a snapshot.                                 *)
WholeStaysWhole ==
  [][/\ c.loaded /\ c'.loaded /\ c.init /\ Whole(c) => Whole(c)'
     /\ c'.list \cap removed' = {}]_ccVars

(* The comment of applyClipboardDelta: the browser is initialized once the *)
(* one-shot snapshot has filled the history.  (With nothing asked and      *)
(* nothing wanted the snapshot is over.)                                   *)
SnapshotFillsHistory == c.init /\ ~Polling(c) /\ ~c.wanted /\ c.timer = "off" => Whole(c)
=============================================================================
