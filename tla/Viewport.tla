------------------------------ MODULE Viewport ------------------------------
(***************************************************************************)
(* Which browser sizes a session: preemption (session_manager.go), the     *)
(* viewer registry and its owner (session_viewport.go), the order in which *)
(* a connection's handler walks through them (handlers.go), and the one    *)
(* size this server declares on its attachment to the daemon, which a      *)
(* re-attach declares too (session_mux.go).                                *)
(*                                                                         *)
(* A size is a number, 0 for an observer.  Every change of the registry is *)
(* followed, outside its lock, by a syncViewport of the same goroutine.    *)
(***************************************************************************)
EXTENDS Naturals, FiniteSets, FiniteSetsExt

CONSTANTS
  Conns,      \* WebSocket connections to this session, each used once
  NoConn,     \* no connection; activeViewer = ""
  Attacher,   \* the goroutine attaching the session to the daemon
  WindowSizes, \* window sizes a browser declares, beside 0
  MaxSizes,   \* bound: sizes one connection declares
  MaxDrops    \* bound: connections to the daemon lost

VARIABLES
  epochs,     \* connEpoch
  epoch,      \* the epoch of each connection
  active,     \* the session's entry in activeConns
  cancelled,  \* connections preempted by another
  at,         \* where each connection's handler is
  declares,   \* sizes declared so far
  viewers,    \* registered viewers
  winSize,    \* their windows
  owner,      \* activeViewer
  ownerEpoch, \* ownerEpoch
  sync,       \* syncViewport of each goroutine: "none", "due", "locked"
  want,       \* the viewport the holder of geomMu read
  declared,   \* Session.declared
  stream,     \* Session.stream: "none", "up", "down"
  attaching,  \* where the attach is: "read", "request", "adopt", "note", "done"
  asked,      \* the viewport it read
  ours,       \* the size the daemon has for this server's attachment
  crossed,    \* history: a declaration on this attachment was overwritten by noteDeclared
  drops       \* connections to the daemon lost

preemption == <<epochs, epoch, active, cancelled>>
registry   == <<viewers, winSize, owner, ownerEpoch>>
attachment == <<stream, attaching, asked, ours, drops>>
handlers   == <<at, declares>>
viewportVars == <<preemption, registry, attachment, handlers, sync, want, declared, crossed>>

\* What the code's constants are: ids are not empty, the attaching goroutine is
\* no connection's, and a window has a side.
ASSUME ViewportAssumption ==
  /\ NoConn \notin Conns /\ Attacher \notin Conns /\ IsFiniteSet(Conns)
  /\ WindowSizes \subseteq Nat \ {0} /\ MaxSizes \in Nat /\ MaxDrops \in Nat

Procs == Conns \cup {Attacher}

\* viewportLocked: the owner's window alone, or without an owner the smallest.
TheViewport ==
  LET shown == {winSize[v] : v \in viewers} \ {0}
  IN  IF owner # NoConn THEN (IF owner \in viewers THEN winSize[owner] ELSE 0)
      ELSE IF shown = {} THEN 0 ELSE Min(shown)

Go(c, from, to) == at[c] = from /\ sync[c] = "none" /\ at' = [at EXCEPT ![c] = to]
Owes(c)         == sync' = [sync EXCEPT ![c] = "due"]

(***************************************************************************)
(* Preemption: SetActiveConn and ClearActiveConn.                          *)
(***************************************************************************)
TakeEpoch(c) ==
  /\ Go(c, "new", "ticket")
  /\ epochs' = epochs + 1 /\ epoch' = [epoch EXCEPT ![c] = epochs + 1]
  /\ UNCHANGED <<active, cancelled, registry, attachment, declares, sync, want, declared, crossed>>

Preempt(c) ==
  /\ Go(c, "ticket", "preempting")
  /\ active' = c /\ cancelled' = cancelled \cup ({active} \ {NoConn})
  /\ UNCHANGED <<epochs, epoch, registry, attachment, declares, sync, want, declared, crossed>>

ClearLoad(c) ==
  /\ Go(c, "unregistered", IF active = c THEN "clearing" ELSE "gone")
  /\ UNCHANGED <<preemption, registry, attachment, declares, sync, want, declared, crossed>>

ClearDelete(c) ==
  /\ Go(c, "clearing", "gone")
  /\ active' = NoConn
  /\ UNCHANGED <<epochs, epoch, cancelled, registry, attachment, declares, sync, want, declared, crossed>>

(***************************************************************************)
(* The registry.                                                           *)
(***************************************************************************)

\* Subscribe: registered as an observer.
Subscribe(c) ==
  /\ Go(c, "preempting", "subscribed")
  /\ viewers' = viewers \cup {c} /\ winSize' = [winSize EXCEPT ![c] = 0]
  /\ UNCHANGED <<preemption, owner, ownerEpoch, attachment, declares, sync, want, declared, crossed>>

\* Mutant: the last to claim owns.
SetViewerOwner_AnyEpoch(c) ==
  /\ Go(c, "subscribed", "live")
  /\ owner' = c /\ ownerEpoch' = epoch[c] /\ Owes(c)
  /\ UNCHANGED <<preemption, viewers, winSize, attachment, declares, want, declared, crossed>>

\* SetViewerOwner: a claim older than the present one is void, and declares
\* nothing.
SetViewerOwner(c) ==
  /\ Go(c, "subscribed", "live")
  /\ IF epoch[c] < ownerEpoch
     THEN UNCHANGED <<owner, ownerEpoch, sync>>
     ELSE owner' = c /\ ownerEpoch' = epoch[c] /\ Owes(c)
  /\ UNCHANGED <<preemption, viewers, winSize, attachment, declares, want, declared, crossed>>

\* setViewerSize, while the reader loop has not noticed a cancellation.
SetViewerSize(c, s) ==
  /\ Go(c, "live", "live") /\ declares[c] < MaxSizes
  /\ declares' = [declares EXCEPT ![c] = @ + 1]
  /\ winSize' = [winSize EXCEPT ![c] = s] /\ Owes(c)
  /\ UNCHANGED <<preemption, viewers, owner, ownerEpoch, attachment, want, declared, crossed>>

\* The connection ends, preempted or closed: its defers run.  ReleaseViewerOwner
\* drops ownership only if it still has it.
ReleaseViewerOwner(c) ==
  /\ Go(c, "live", "released")
  /\ IF owner = c THEN owner' = NoConn /\ Owes(c) ELSE UNCHANGED <<owner, sync>>
  /\ UNCHANGED <<preemption, viewers, winSize, ownerEpoch, attachment, declares, want, declared, crossed>>

Unsubscribe(c) ==
  /\ Go(c, "released", "unregistered")
  /\ viewers' = viewers \ {c} /\ Owes(c)
  /\ UNCHANGED <<preemption, winSize, owner, ownerEpoch, attachment, declares, want, declared, crossed>>

(***************************************************************************)
(* syncViewport, and the attach it shares the declaration with.            *)
(***************************************************************************)

\* Under geomMu: the present viewport is read...
SyncRead(p) ==
  /\ sync[p] = "due" /\ \A q \in Procs : sync[q] # "locked"
  /\ sync' = [sync EXCEPT ![p] = "locked"] /\ want' = [want EXCEPT ![p] = TheViewport]
  /\ UNCHANGED <<preemption, registry, attachment, handlers, declared, crossed>>

\* ...and declared, unless it is what was declared last or there is no stream;
\* on a stream whose connection is down the send fails.
SyncSend(p) ==
  /\ sync[p] = "locked"
  /\ IF want[p] # declared /\ stream = "up"
     THEN ours' = want[p] /\ declared' = want[p]
     ELSE UNCHANGED <<ours, declared>>
  /\ sync' = [sync EXCEPT ![p] = "none"] /\ want' = [want EXCEPT ![p] = 0]
  /\ UNCHANGED <<preemption, registry, stream, attaching, asked, drops, handlers, crossed>>

AttachRead ==
  /\ attaching = "read" /\ attaching' = "request" /\ asked' = TheViewport
  /\ UNCHANGED <<preemption, registry, stream, ours, drops, handlers, sync, want, declared, crossed>>

\* The daemon sizes the new attachment by what the request says.
AttachRequest ==
  /\ attaching = "request" /\ attaching' = "adopt" /\ ours' = asked
  /\ UNCHANGED <<preemption, registry, stream, asked, drops, handlers, sync, want, declared, crossed>>

AttachAdopt ==
  /\ attaching = "adopt" /\ attaching' = "note" /\ stream' = "up" /\ crossed' = FALSE
  /\ UNCHANGED <<preemption, registry, asked, ours, drops, handlers, sync, want, declared>>

\* noteDeclared takes geomMu; then attach re-derives the viewport.
AttachNote ==
  /\ attaching = "note" /\ attaching' = "done"
  /\ \A q \in Procs : sync[q] # "locked"
  /\ declared' = asked /\ crossed' = (ours # asked)
  /\ Owes(Attacher)
  /\ UNCHANGED <<preemption, registry, stream, asked, ours, drops, handlers, want>>

\* The connection to the daemon is lost; the pump re-attaches.
Drop ==
  /\ attaching = "done" /\ sync[Attacher] = "none" /\ drops < MaxDrops
  /\ stream' = "down" /\ attaching' = "read" /\ ours' = 0 /\ drops' = drops + 1
  /\ UNCHANGED <<preemption, registry, asked, handlers, sync, want, declared, crossed>>

-----------------------------------------------------------------------------
\* A session in the registry, its first attach on the way (Create, reconcile).
ViewportInit ==
  /\ epochs = 0 /\ epoch = [c \in Conns |-> 0] /\ active = NoConn /\ cancelled = {}
  /\ at = [c \in Conns |-> "new"] /\ declares = [c \in Conns |-> 0]
  /\ viewers = {} /\ winSize = [c \in Conns |-> 0] /\ owner = NoConn /\ ownerEpoch = 0
  /\ sync = [p \in Procs |-> "none"] /\ want = [p \in Procs |-> 0] /\ declared = 0
  /\ stream = "none" /\ attaching = "read" /\ asked = 0 /\ ours = 0
  /\ crossed = FALSE /\ drops = 0

ViewportNext ==
  \/ \E c \in Conns :
       \/ TakeEpoch(c) \/ Preempt(c) \/ Subscribe(c) \/ SetViewerOwner(c)
       \/ \E s \in WindowSizes \cup {0} : SetViewerSize(c, s)
       \/ ReleaseViewerOwner(c) \/ Unsubscribe(c) \/ ClearLoad(c) \/ ClearDelete(c)
  \/ \E p \in Procs : SyncRead(p) \/ SyncSend(p)
  \/ AttachRead \/ AttachRequest \/ AttachAdopt \/ AttachNote \/ Drop

ViewportSpec == ViewportInit /\ [][ViewportNext]_viewportVars
-----------------------------------------------------------------------------
(***************************************************************************)
(* Properties.                                                             *)
(***************************************************************************)
ViewportTypeOK ==
  /\ epochs \in 0 .. Cardinality(Conns) /\ epoch \in [Conns -> 0 .. epochs]
  /\ active \in Conns \cup {NoConn} /\ cancelled \subseteq Conns
  /\ viewers \subseteq Conns /\ winSize \in [Conns -> WindowSizes \cup {0}]
  /\ owner \in Conns \cup {NoConn} /\ ownerEpoch \in 0 .. epochs
  /\ declared \in WindowSizes \cup {0} /\ ours \in WindowSizes \cup {0} /\ asked \in WindowSizes \cup {0}
  /\ Cardinality({p \in Procs : sync[p] = "locked"}) <= 1

Live == {c \in Conns : at[c] = "live"}

\* No goroutine is under way: connections are up or gone, the session attached.
Settled ==
  /\ \A c \in Conns : at[c] \in {"new", "live", "gone"} /\ (at[c] = "live" => c \notin cancelled)
  /\ \A p \in Procs : sync[p] = "none"
  /\ attaching = "done"

\* Once a connection has claimed the grid, no connection it preempted takes it
\* back, in whatever order their handlers run (SetViewerOwner, ownerEpoch).
NewestClaimHolds ==
  \A c, d \in Conns :
    at[d] \notin {"new", "ticket", "preempting", "subscribed"} /\ epoch[c] < epoch[d] => owner # c

\* The last frame on the wire carried the newest viewport: the daemon has the
\* size of the window being looked at, whatever raced (syncViewport), unless an
\* attach overwrote what had been declared on it.
DaemonHasViewport == Settled /\ ~crossed => ours = TheViewport

\* The window that rules a session is the newest connection's, here and at the
\* daemon: a connection preempted by another never takes the grid back, and at
\* rest the daemon has the size of the window being looked at, unless an attach
\* wrote over what was declared on it (SetViewerOwner, syncViewport,
\* noteDeclared).
NewestWindowRules == NewestClaimHolds /\ DaemonHasViewport
=============================================================================
