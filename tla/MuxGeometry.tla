---------------------------- MODULE MuxGeometry ----------------------------
(***************************************************************************)
(* The size of a session that several clients watch at once: the smallest  *)
(* of their windows wins (muxd/session.go: Resize, Subscribe,              *)
(* effectiveSizeLocked, applySizeLocked, SetAttachSize; muxd/daemon.go:    *)
(* MsgAttach, MsgResize).  A client lays its terminal out on the size it   *)
(* asks for as soon as it asks, so what it asked and what it is told may   *)
(* cross on the wire.                                                      *)
(***************************************************************************)
EXTENDS Integers, Sequences, FiniteSets, FiniteSetsExt, BoundedQueue

CONSTANTS
  Clients,    \* attached connections
  Windows,    \* the window sizes they may have, [cols, rows]
  NoticeCap,  \* resize notices an attachment's channel holds
  MaxAsks     \* bound: resize requests of one client in flight

NoGrid == [cols |-> 0, rows |-> 0]
Grids  == Windows \cup {NoGrid}

ASSUME GeometryAssumption ==
  /\ IsFiniteSet(Clients)
  /\ IsFiniteSet(Windows) /\ Windows \subseteq [cols : Nat \ {0}, rows : Nat \ {0}]
  /\ NoticeCap \in Nat \ {0} /\ MaxAsks \in Nat

VARIABLES
  alive,    \* the shell runs
  size,     \* Session.size
  manual,   \* Session.manual
  window,   \* s.subs: what each attached client declared, NoGrid for an observer
  asks,     \* MsgResize on the way to the daemon
  notices,  \* resizes on the way to the client
  shown     \* the grid each client lays its terminal out on

vars == <<alive, size, manual, window, asks, notices, shown>>

-----------------------------------------------------------------------------
Attached(w) == DOMAIN w

Declared(w) == {w[c] : c \in Attached(w)} \ {NoGrid}

\* Minimised per axis: the largest grid that fits in all of them.
Smallest(gs) == [cols |-> Min({g.cols : g \in gs}), rows |-> Min({g.rows : g \in gs})]

\* effectiveSizeLocked.
Effective(w, m, s) ==
  IF Declared(w) # {} THEN Smallest(Declared(w)) ELSE IF m # NoGrid THEN m ELSE s

Push(q, g) == PushNewestOnFull(q, NoticeCap, g)

\* Everyone attached is told.
Broadcast(ns, w, g) == [c \in Clients |-> IF c \in Attached(w) THEN Push(ns[c], g) ELSE ns[c]]

\* applySizeLocked, with the windows w and the manual size m: only a change is
\* applied and announced; ns is what was on its way before.
ApplySize(w, m, ns) ==
  LET next == Effective(w, m, size)
  IN  /\ size' = next
      /\ notices' = IF next = size THEN ns ELSE Broadcast(ns, w, next)

Without(w, c) == [d \in Attached(w) \ {c} |-> w[d]]
With(w, c, g) == [d \in Attached(w) \cup {c} |-> IF d = c THEN g ELSE w[d]]

(***************************************************************************)
(* Clients.                                                                *)
(***************************************************************************)

\* MsgAttach: the acknowledgement, written before anything of the channel,
\* carries the size after the new window has had its effect.
Attach(c, g) ==
  /\ alive /\ c \notin Attached(window)
  /\ window' = With(window, c, g)
  /\ ApplySize(window', manual, [notices EXCEPT ![c] = <<>>])
  /\ shown' = [shown EXCEPT ![c] = size']
  /\ UNCHANGED <<alive, manual, asks>>

\* A session that is over has a last screen to replay, on the grid it was
\* written for, and nothing to subscribe to.
AttachToDead(c) ==
  /\ ~alive /\ shown' = [shown EXCEPT ![c] = size] /\ notices' = [notices EXCEPT ![c] = <<>>]
  /\ UNCHANGED <<alive, size, manual, window, asks>>

Ask(c, g) ==
  /\ c \in Attached(window) /\ Len(asks[c]) < MaxAsks
  /\ asks' = [asks EXCEPT ![c] = Append(@, g)]
  /\ shown' = [shown EXCEPT ![c] = g]
  /\ UNCHANGED <<alive, size, manual, window, notices>>

Told(c) ==
  /\ notices[c] # <<>>
  /\ notices' = [notices EXCEPT ![c] = Tail(@)]
  /\ shown' = [shown EXCEPT ![c] = Head(notices[c])]
  /\ UNCHANGED <<alive, size, manual, window, asks>>

\* Mutant: a client that leaves constrains the session still.
Detach_NoApply(c) ==
  /\ c \in Attached(window) /\ window' = Without(window, c)
  /\ asks' = [asks EXCEPT ![c] = <<>>] /\ notices' = [notices EXCEPT ![c] = <<>>]
  /\ UNCHANGED <<alive, size, manual, shown>>

\* Its window, or its connection, is closed; what was under way is lost with it.
Detach(c) ==
  /\ c \in Attached(window) /\ window' = Without(window, c)
  /\ ApplySize(window', manual, [notices EXCEPT ![c] = <<>>])
  /\ asks' = [asks EXCEPT ![c] = <<>>]
  /\ UNCHANGED <<alive, manual, shown>>

(***************************************************************************)
(* The daemon.                                                             *)
(***************************************************************************)

\* Mutant: only a change is news.
SetAttachSize_NoAnswer(c) ==
  /\ c \in Attached(window) /\ asks[c] # <<>>
  /\ asks' = [asks EXCEPT ![c] = Tail(@)]
  /\ window' = With(window, c, Head(asks[c])) /\ ApplySize(window', manual, notices)
  /\ UNCHANGED <<alive, manual, shown>>

\* SetAttachSize: a request that moves nothing is answered unless it was met.
SetAttachSize(c) ==
  LET want == Head(asks[c])
      next == Effective(With(window, c, want), manual, size)
  IN  /\ c \in Attached(window) /\ asks[c] # <<>>
      /\ asks' = [asks EXCEPT ![c] = Tail(@)]
      /\ window' = With(window, c, want)
      /\ IF next = size /\ size # want
         THEN size' = size /\ notices' = [notices EXCEPT ![c] = Push(@, size)]
         ELSE ApplySize(window', manual, notices)
      /\ UNCHANGED <<alive, manual, shown>>

\* A MsgResize of an attachment the end of the shell has removed.
AskTooLate(c) ==
  /\ c \notin Attached(window) /\ asks[c] # <<>>
  /\ asks' = [asks EXCEPT ![c] = Tail(@)]
  /\ UNCHANGED <<alive, size, manual, window, notices, shown>>

\* Mutant: the manual size is only noted.
Resize_NoApply(g) ==
  /\ alive /\ manual' = g
  /\ UNCHANGED <<alive, size, window, asks, notices, shown>>

\* Resize, of a connection that is not attached: the size of a session that
\* nobody watches.
Resize(g) ==
  /\ alive /\ manual' = g
  /\ ApplySize(window, g, notices)
  /\ UNCHANGED <<alive, window, asks, shown>>

\* finish: every channel is closed; what is in it is still read.
Finish ==
  /\ alive /\ alive' = FALSE /\ window' = [c \in {} |-> NoGrid]
  /\ UNCHANGED <<size, manual, asks, notices, shown>>

-----------------------------------------------------------------------------
Init ==
  /\ alive = TRUE /\ size \in Windows /\ manual = NoGrid
  /\ window = [c \in {} |-> NoGrid]
  /\ asks = [c \in Clients |-> <<>>] /\ notices = [c \in Clients |-> <<>>]
  /\ shown = [c \in Clients |-> NoGrid]

Next ==
  \/ \E c \in Clients, g \in Grids : Attach(c, g) \/ Ask(c, g)
  \/ \E c \in Clients :
       AttachToDead(c) \/ Told(c) \/ Detach(c) \/ SetAttachSize(c) \/ AskTooLate(c)
  \/ \E g \in Windows : Resize(g)
  \/ Finish

Spec == Init /\ [][Next]_vars
-----------------------------------------------------------------------------
(***************************************************************************)
(* Properties.                                                             *)
(***************************************************************************)
Sizes == [cols : Nat \ {0}, rows : Nat \ {0}]

TypeOK ==
  /\ alive \in BOOLEAN /\ size \in Sizes /\ manual \in Grids
  /\ DOMAIN window \subseteq Clients /\ \A c \in DOMAIN window : window[c] \in Grids
  /\ asks \in [Clients -> Seq(Grids)]
  /\ notices \in [Clients -> Seq(Sizes)]
  /\ \A c \in Clients : Len(notices[c]) <= NoticeCap
  /\ shown \in [Clients -> Sizes \cup {NoGrid}]

\* The grid a client ends up with when everything sent to it has arrived.
Expects(c) == IF notices[c] = <<>> THEN shown[c] ELSE notices[c][Len(notices[c])]

\* An attached client whose requests are all served will paint on the grid the
\* session has, whatever crossed on the wire and whatever its channel gave up
\* (SetAttachSize's answer, applySizeLocked's broadcast, pushControl).
KnowsItsGrid ==
  \A c \in DOMAIN window : asks[c] = <<>> => Expects(c) = size

\* While anyone shows the session it is the largest grid that fits in all their
\* windows: no larger than any, and on each axis as large as one
\* (applySizeLocked after every attach, detach and resize).
FitsEveryWindow ==
  Declared(window) # {} =>
    /\ \A g \in Declared(window) : size.cols <= g.cols /\ size.rows <= g.rows
    /\ \E g \in Declared(window) : size.cols = g.cols
    /\ \E g \in Declared(window) : size.rows = g.rows

\* One who only looks, coming or leaving, moves nobody's grid (effectiveSizeLocked).
ObserverMovesNothing ==
  [][\A c \in Clients :
       \/ c \notin DOMAIN window /\ c \in DOMAIN window' /\ window'[c] = NoGrid
       \/ c \in DOMAIN window /\ c \notin DOMAIN window' /\ window[c] = NoGrid
     => size' = size]_vars
=============================================================================
