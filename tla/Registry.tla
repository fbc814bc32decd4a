------------------------------ MODULE Registry ------------------------------
(***************************************************************************)
(* The list of sessions, which exists in the daemon (muxd/daemon.go) and   *)
(* which every server keeps a view of: by numbered lifecycle events that   *)
(* may be lost, and by re-reading the whole list when they are             *)
(* (session_mux.go: watchOnce, applyEvent, reconcile, forgetVanished),     *)
(* while requests create and destroy sessions (session_manager.go).        *)
(*                                                                         *)
(* A Session struct of the server is an object: more than one may come to  *)
(* stand for the same session, and those dropped from the view live on in  *)
(* the goroutines that hold them.                                          *)
(***************************************************************************)
EXTENDS Integers, Sequences, FiniteSets, BoundedQueue

CONSTANTS
  Ids,       \* sessions, each created by this server or by another one
  EvCap,     \* capacity of an event channel (64 in the code)
  MaxSubsLost, \* bound: subscriptions lost
  MaxFails,  \* bound: attaches that fail although the session is there
  MaxUnread  \* bound: reads of the list that fail

\* The event channel has room for an event.
ASSUME RegistryAssumption == EvCap \in Nat \ {0}

VARIABLES
  sessions,  \* the daemon: "none" (not yet created), "alive", "exited", "gone"
  unsent,    \* lifecycle events whose broadcast is still to come
  subUp,     \* the subscription is open
  stamp,     \* subscriber.seq
  events,    \* its event channel
  watch,     \* watchOnce: "off", "ack", "list", "adopt", "store", "attach", "loop"
  lastSeq,   \* its lastSeq
  list,      \* the summaries reconcile holds: id -> alive
  todo,      \* summaries it has not gone through
  adoptee,   \* the one being adopted: its id and its object
  again,     \* another re-read follows this one
  view,      \* m.sessions: the object standing for each session, 0 for none
  objects,   \* every object made: [ended, pump]
  creator,   \* Create of each session by this server: "none", "called", "attach", "done", and its object
  destroyer, \* Destroy of each session: "none", "called", "absent", "done", and its object
  terminalActive, \* open sessions, as counted
  stale,     \* history: the last read of the list failed
  budget     \* subscriptions lost, attaches and reads failed so far

daemonVars  == <<sessions, unsent>>
channelVars == <<subUp, stamp, events>>
watcherVars == <<watch, lastSeq, list, todo, adoptee, again>>
serverVars  == <<view, objects, terminalActive>>
callVars    == <<creator, destroyer>>
registryVars ==
  <<daemonVars, channelVars, watcherVars, serverVars, callVars, stale, budget>>

Listed == {id \in Ids : sessions[id] \in {"alive", "exited"}}
Known  == {id \in Ids : view[id] # 0}
Event(kind, id) == [kind |-> kind, id |-> id]
NoAdoptee       == [id |-> "none", obj |-> 0]
At(pc, k)       == [pc |-> pc, obj |-> k]

(***************************************************************************)
(* The daemon.                                                             *)
(***************************************************************************)
Spawn(id) ==
  /\ sessions[id] = "none" /\ sessions' = [sessions EXCEPT ![id] = "alive"]
  /\ unsent' = unsent \cup {Event("created", id)}

TheirCreate(id) ==
  /\ Spawn(id)
  /\ UNCHANGED <<channelVars, watcherVars, serverVars, callVars, stale, budget>>

\* Session.finish, then onSessionExit.
Exit(id) ==
  /\ sessions[id] = "alive" /\ sessions' = [sessions EXCEPT ![id] = "exited"]
  /\ unsent' = unsent \cup {Event("exited", id)}
  /\ UNCHANGED <<channelVars, watcherVars, serverVars, callVars, stale, budget>>

\* MsgDestroy: the session leaves the list, then its end and its destruction
\* are announced.
Remove(id) ==
  /\ sessions' = [sessions EXCEPT ![id] = "gone"]
  /\ unsent' = unsent \cup {Event("destroyed", id)}
                 \cup (IF sessions[id] = "alive" THEN {Event("exited", id)} ELSE {})

TheirDestroy(id) ==
  /\ id \in Listed /\ Remove(id)
  /\ UNCHANGED <<channelVars, watcherVars, serverVars, callVars, stale, budget>>

\* Mutant: a subscriber may fall behind without limit.
BroadcastEvent_Unbounded(e) ==
  /\ e \in unsent /\ unsent' = unsent \ {e}
  /\ IF subUp
     THEN stamp' = stamp + 1 /\ events' = Append(events, [kind |-> e.kind, id |-> e.id, seq |-> stamp + 1])
     ELSE UNCHANGED <<stamp, events>>
  /\ UNCHANGED <<sessions, subUp, watcherVars, serverVars, callVars, stale, budget>>

\* broadcast: numbered per subscriber, the oldest dropped when it falls behind.
BroadcastEvent(e) ==
  /\ e \in unsent /\ unsent' = unsent \ {e}
  /\ IF subUp
     THEN /\ stamp' = stamp + 1
          /\ events' = PushNewestOnFull(events, EvCap, [kind |-> e.kind, id |-> e.id, seq |-> stamp + 1])
     ELSE UNCHANGED <<stamp, events>>
  /\ UNCHANGED <<sessions, subUp, watcherVars, serverVars, callVars, stale, budget>>

LoseSubscription ==
  /\ subUp /\ budget.drops < MaxSubsLost /\ subUp' = FALSE
  /\ budget' = [budget EXCEPT !.drops = @ + 1]
  /\ UNCHANGED <<daemonVars, stamp, events, watcherVars, serverVars, callVars, stale>>

(***************************************************************************)
(* Objects of the server.                                                  *)
(***************************************************************************)
End(objs, k) == [objs EXCEPT ![k].ended = TRUE]

\* A fresh object stands for id.
Make(id, ended) ==
  /\ objects' = Append(objects, [id |-> id, ended |-> ended, pump |-> FALSE])
  /\ view' = [view EXCEPT ![id] = Len(objects) + 1]
  /\ terminalActive' = terminalActive + 1

\* Deleted from the view and marked ended.
Forget(ids) ==
  /\ view' = [id \in Ids |-> IF id \in ids THEN 0 ELSE view[id]]
  /\ objects' = [k \in DOMAIN objects |->
                   [objects[k] EXCEPT !.ended = @ \/ \E id \in ids : view[id] = k]]
  /\ terminalActive' = terminalActive - Cardinality(ids)

Fails == budget.fails < MaxFails /\ budget' = [budget EXCEPT !.fails = @ + 1]

\* pumpStream and reattach: the stream of a session that is over ends.
PumpEnds(k) ==
  /\ objects[k].pump /\ sessions[objects[k].id] # "alive"
  /\ objects' = [objects EXCEPT ![k].pump = FALSE, ![k].ended = TRUE]
  /\ UNCHANGED <<daemonVars, channelVars, watcherVars, view, terminalActive, callVars, stale, budget>>

(***************************************************************************)
(* The watcher.                                                            *)
(***************************************************************************)

\* watchOnce: the daemon registers the subscriber, then acknowledges...
WatchSubscribe ==
  /\ watch = "off" /\ ~subUp /\ watch' = "ack"
  /\ subUp' = TRUE /\ stamp' = 0 /\ events' = <<>> /\ lastSeq' = 0
  /\ UNCHANGED <<daemonVars, list, todo, adoptee, again, serverVars, callVars, stale, budget>>

\* ...unless its forwarder was quicker: an event in place of the acknowledgement
\* makes Subscribe fail.
SubscribeFails ==
  /\ watch = "ack" /\ (events # <<>> \/ ~subUp)
  /\ watch' = "off" /\ subUp' = FALSE /\ events' = <<>>
  /\ UNCHANGED <<daemonVars, stamp, lastSeq, list, todo, adoptee, again, serverVars, callVars, stale, budget>>

\* Subscribed: only then is the list read.
Subscribed ==
  /\ watch = "ack" /\ watch' = "list"
  /\ UNCHANGED <<daemonVars, channelVars, lastSeq, list, todo, adoptee, again, serverVars, callVars, stale, budget>>

\* reconcile: the daemon's list, as of now...
ReadList ==
  /\ watch = "list" /\ watch' = "adopt"
  /\ list' = [id \in Listed |-> sessions[id] = "alive"] /\ todo' = Listed
  /\ stale' = FALSE
  /\ UNCHANGED <<daemonVars, channelVars, lastSeq, adoptee, again, serverVars, callVars, budget>>

\* ...or an error, which is only logged...
ListFails ==
  /\ watch = "list" /\ budget.unread < MaxUnread
  /\ watch' = IF again THEN "list" ELSE "loop"
  /\ again' = FALSE /\ stale' = TRUE
  /\ budget' = [budget EXCEPT !.unread = @ + 1]
  /\ UNCHANGED <<daemonVars, channelVars, lastSeq, list, todo, adoptee, serverVars, callVars>>

\* ...one summary after another: a known session takes its status from it...
Refresh(id) ==
  /\ watch = "adopt" /\ id \in todo \cap Known
  /\ todo' = todo \ {id}
  /\ objects' = IF list[id] THEN objects ELSE End(objects, view[id])
  /\ UNCHANGED <<daemonVars, channelVars, watch, lastSeq, list, adoptee, again, view, terminalActive, callVars, stale, budget>>

\* ...and an unknown one gets an object...
AdoptLoad(id) ==
  /\ watch = "adopt" /\ id \in todo \ Known
  /\ watch' = "store" /\ adoptee' = [id |-> id, obj |-> 0] /\ todo' = todo \ {id}
  /\ UNCHANGED <<daemonVars, channelVars, lastSeq, list, again, serverVars, callVars, stale, budget>>

\* ...stored over whatever Create has put there meanwhile...
AdoptStore ==
  /\ watch = "store"
  /\ Make(adoptee.id, ~list[adoptee.id])
  /\ watch' = IF list[adoptee.id] THEN "attach" ELSE "adopt"
  /\ adoptee' = IF list[adoptee.id] THEN [adoptee EXCEPT !.obj = Len(objects) + 1] ELSE NoAdoptee
  /\ UNCHANGED <<daemonVars, channelVars, lastSeq, list, todo, again, callVars, stale, budget>>

\* ...and attached if its session was alive; a failure is only logged.
AdoptAttach ==
  /\ watch = "attach" /\ watch' = "adopt"
  /\ \/ /\ adoptee.id \in Listed
        /\ objects' = [objects EXCEPT ![adoptee.obj].pump = TRUE] /\ UNCHANGED budget
     \/ adoptee.id \notin Listed /\ UNCHANGED <<objects, budget>>
     \/ Fails /\ UNCHANGED objects
  /\ adoptee' = NoAdoptee
  /\ UNCHANGED <<daemonVars, channelVars, lastSeq, list, todo, again, view, terminalActive, callVars, stale>>

\* forgetVanished: what the list did not hold is dropped.
ForgetVanished ==
  /\ watch = "adopt" /\ todo = {}
  /\ Forget(Known \ DOMAIN list)
  /\ watch' = IF again THEN "list" ELSE "loop"
  /\ again' = FALSE /\ list' = <<>>
  /\ UNCHANGED <<daemonVars, channelVars, lastSeq, todo, adoptee, callVars, stale, budget>>

\* Mutant: the first event is a free baseline.
Missed_FirstIsFree(last, got) == last # 0 /\ got # last + 1

\* MissedEvents: every subscription is numbered from 1.
Missed(last, got) == got # last + 1

\* applyEvent, and a re-read if the number shows that events were lost.
TakeEvent ==
  LET e      == Head(events)
      missed == Missed(lastSeq, e.seq)
      adopts == e.kind = "created" /\ e.id \notin Known
  IN  /\ watch = "loop" /\ events # <<>>
      /\ events' = Tail(events) /\ lastSeq' = e.seq
      /\ CASE e.kind = "exited" /\ e.id \in Known ->
                objects' = End(objects, view[e.id]) /\ UNCHANGED <<view, terminalActive>>
           [] e.kind = "destroyed" /\ e.id \in Known -> Forget({e.id})
           [] OTHER -> UNCHANGED <<view, objects, terminalActive>>
      /\ watch' = IF adopts \/ missed THEN "list" ELSE "loop"
      /\ again' = (adopts /\ missed)
      /\ UNCHANGED <<daemonVars, subUp, stamp, list, todo, adoptee, callVars, stale, budget>>

WatchEnds ==
  /\ watch = "loop" /\ events = <<>> /\ ~subUp /\ watch' = "off"
  /\ UNCHANGED <<daemonVars, channelVars, lastSeq, list, todo, adoptee, again, serverVars, callVars, stale, budget>>

(***************************************************************************)
(* Requests.                                                               *)
(***************************************************************************)

\* Create: the daemon makes the session and answers after its broadcast...
CreateCall(id) ==
  /\ creator[id].pc = "none" /\ creator' = [creator EXCEPT ![id] = At("called", 0)]
  /\ Spawn(id)
  /\ UNCHANGED <<channelVars, watcherVars, serverVars, destroyer, stale, budget>>

\* ...LoadOrStore: the watcher may have adopted it already...
CreateStore(id) ==
  /\ creator[id].pc = "called" /\ Event("created", id) \notin unsent
  /\ IF id \in Known
     THEN creator' = [creator EXCEPT ![id] = At("done", 0)] /\ UNCHANGED serverVars
     ELSE creator' = [creator EXCEPT ![id] = At("attach", Len(objects) + 1)] /\ Make(id, FALSE)
  /\ UNCHANGED <<daemonVars, channelVars, watcherVars, destroyer, stale, budget>>

\* ...and the attach, whose failure undoes the create.
CreateAttach(id) ==
  /\ creator[id].pc = "attach" /\ creator' = [creator EXCEPT ![id] = At("done", 0)]
  /\ \/ /\ id \in Listed
        /\ objects' = [objects EXCEPT ![creator[id].obj].pump = TRUE]
        /\ UNCHANGED <<daemonVars, view, terminalActive, budget>>
     \/ /\ IF id \in Listed THEN Fails /\ Remove(id) ELSE UNCHANGED <<daemonVars, budget>>
        /\ view' = [view EXCEPT ![id] = 0] /\ terminalActive' = terminalActive - 1
        /\ UNCHANGED objects
  /\ UNCHANGED <<channelVars, watcherVars, destroyer, stale>>

\* Destroy: the daemon first, which answers after its broadcast...
DestroyCall(id) ==
  /\ destroyer[id].pc = "none" /\ id \in Known
  /\ IF id \in Listed
     THEN Remove(id) /\ destroyer' = [destroyer EXCEPT ![id] = At("called", view[id])]
     ELSE UNCHANGED daemonVars /\ destroyer' = [destroyer EXCEPT ![id] = At("absent", view[id])]
  /\ UNCHANGED <<channelVars, watcherVars, serverVars, creator, stale, budget>>

\* ...then the view, whatever stands there by now.
DestroyLocal(id) ==
  /\ \/ destroyer[id].pc = "called" /\ Event("destroyed", id) \notin unsent
     \/ destroyer[id].pc = "absent"
  /\ destroyer' = [destroyer EXCEPT ![id] = At("done", 0)]
  /\ view' = [view EXCEPT ![id] = 0] /\ terminalActive' = terminalActive - 1
  /\ objects' = [objects EXCEPT ![destroyer[id].obj].ended = TRUE, ![destroyer[id].obj].pump = FALSE]
  /\ UNCHANGED <<daemonVars, channelVars, watcherVars, creator, stale, budget>>

-----------------------------------------------------------------------------
\* A daemon that may hold another server's sessions, and a server starting.
RegistryInit ==
  /\ sessions \in [Ids -> {"none", "alive", "exited"}]
  /\ unsent = {} /\ subUp = FALSE /\ stamp = 0 /\ events = <<>>
  /\ watch = "off" /\ lastSeq = 0 /\ list = <<>> /\ todo = {}
  /\ adoptee = NoAdoptee /\ again = FALSE
  /\ view = [id \in Ids |-> 0] /\ objects = <<>> /\ terminalActive = 0
  /\ creator = [id \in Ids |-> At("none", 0)]
  /\ destroyer = [id \in Ids |-> At("none", 0)]
  /\ stale = FALSE /\ budget = [drops |-> 0, fails |-> 0, unread |-> 0]

RegistryNext ==
  \/ \E id \in Ids : TheirCreate(id) \/ Exit(id) \/ TheirDestroy(id)
  \/ \E e \in unsent : BroadcastEvent(e)
  \/ LoseSubscription
  \/ \E k \in DOMAIN objects : PumpEnds(k)
  \/ WatchSubscribe \/ SubscribeFails \/ Subscribed \/ ReadList \/ ListFails
  \/ \E id \in Ids : Refresh(id) \/ AdoptLoad(id)
  \/ AdoptStore \/ AdoptAttach \/ ForgetVanished \/ TakeEvent \/ WatchEnds
  \/ \E id \in Ids : CreateCall(id) \/ CreateStore(id) \/ CreateAttach(id)
  \/ \E id \in Ids : DestroyCall(id) \/ DestroyLocal(id)

RegistrySpec == RegistryInit /\ [][RegistryNext]_registryVars
-----------------------------------------------------------------------------
(***************************************************************************)
(* Properties.                                                             *)
(***************************************************************************)
RegistryTypeOK ==
  /\ sessions \in [Ids -> {"none", "alive", "exited", "gone"}]
  /\ unsent \subseteq [kind : {"created", "exited", "destroyed"}, id : Ids]
  /\ Len(events) <= EvCap /\ stamp \in Nat
  /\ watch \in {"off", "ack", "list", "adopt", "store", "attach", "loop"}
  /\ todo \subseteq DOMAIN list /\ DOMAIN list \subseteq Ids
  /\ view \in [Ids -> 0 .. Len(objects)]
  /\ \A id \in Known : objects[view[id]].id = id
  /\ terminalActive \in Int

\* Nothing is under way: requests are answered, events consumed.
AllSettled ==
  /\ watch = "loop" /\ subUp /\ events = <<>> /\ unsent = {}
  /\ \A id \in Ids : creator[id].pc \in {"none", "done"}
  /\ \A id \in Ids : destroyer[id].pc \in {"none", "done"}

\* Whatever events were lost, reordered or raced by requests, the view ends up
\* with exactly the sessions the daemon holds, unless the list could not be read
\* when it had to be, which is not tried again (watchOnce, reconcile).
ViewMirrorsDaemon == AllSettled /\ ~stale => Known = Listed

\* A session of the view that is over is shown as over, or its stream's end is
\* still to be read; again unless the list could not be (applyEvent,
\* refreshFromDaemon, pumpStream).
ExitsAreSeen ==
  AllSettled /\ ~stale => \A id \in Known :
    sessions[id] = "exited" => objects[view[id]].ended \/ objects[view[id]].pump

\* At rest the server shows the sessions the daemon has, and has noticed every
\* exit (reconcile, streamDaemon, pumpStream).
ServerSeesDaemon == ViewMirrorsDaemon /\ ExitsAreSeen
=============================================================================
