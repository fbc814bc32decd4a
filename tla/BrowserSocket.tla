--------------------------- MODULE BrowserSocket ---------------------------
(***************************************************************************)
(* The browser's end of a terminal's WebSocket: useWebSocketClient.        *)
(* connect() opens a socket and binds its callbacks; a socket that is      *)
(* replaced has them taken away first, so only the current one can act.   *)
(* A closed socket is retried after a back-off at most MaxAttempts times   *)
(* in a row; the budget is given back only by a connection that lived ten  *)
(* seconds and brought a message.  A session taken over by another         *)
(* connection is not retried.  Input typed while the socket is opening is  *)
(* kept, up to QueueLimit, and sent when it opens.                         *)
(*                                                                         *)
(* Time is the flag `stable' (ten seconds since onopen); the delay of the  *)
(* back-off is left out.  Traffic counters and the RTT display are data    *)
(* of the status line and left out; the telemetry timer is modelled as on  *)
(* or off.                                                                 *)
(***************************************************************************)
EXTENDS Naturals, Sequences

CONSTANTS MaxAttempts,   \* maxReconnectAttempts
          QueueLimit,    \* maxQueuedBinaryBytes, in units of one input
          MaxConns       \* bound: sockets opened in a behaviour

ASSUME SocketAssumption == /\ MaxAttempts \in Nat /\ QueueLimit \in Nat
                           /\ MaxConns \in Nat

VARIABLES
  ws,        \* readyState of the socket in `ws', or "none"
  status,    \* what the interface shows
  attempts,  \* reconnectAttempts
  timer,     \* reconnectTimer is set
  stopped,   \* disconnect() was called
  telemetry, \* telemetryTimer is set
  queue,     \* queuedBinary: the socket each input was typed for
  life,      \* what the callbacks of the current socket remember
  conn       \* sockets opened so far: names the current one

socketVars == <<ws, status, attempts, timer, stopped, telemetry, queue, life, conn>>

Statuses == {"connecting", "reconnecting", "connected", "disconnected", "preempted"}
NewLife == [stable |-> FALSE, got |-> FALSE, preempted |-> FALSE]

SocketTypeOK ==
  /\ ws \in {"none", "connecting", "open", "closing"}
  /\ status \in Statuses
  /\ attempts \in 0..MaxAttempts
  /\ timer \in BOOLEAN /\ stopped \in BOOLEAN /\ telemetry \in BOOLEAN
  /\ queue \in Seq(1..MaxConns) /\ Len(queue) <= QueueLimit
  /\ life \in [stable : BOOLEAN, got : BOOLEAN, preempted : BOOLEAN]
  /\ conn \in 0..MaxConns

SocketInit ==
  /\ ws = "none" /\ status = "connecting" /\ attempts = 0
  /\ timer = FALSE /\ stopped = FALSE /\ telemetry = FALSE
  /\ queue = <<>> /\ life = NewLife /\ conn = 0

StartTelemetry == telemetry' = TRUE    \* first ping, then the interval
StopTelemetry == telemetry' = FALSE
FlushQueue == queue' = <<>>            \* in order, on the socket that opened

Live(s) == s \in {"connecting", "open"}

(* A new socket in place of `ws', with n failed attempts behind it.        *)
OpenSocket(n) ==
  /\ conn < MaxConns
  /\ conn' = conn + 1 /\ ws' = "connecting" /\ life' = NewLife
  /\ status' = IF n > 0 THEN "reconnecting" ELSE "connecting"
  /\ attempts' = n /\ timer' = FALSE

(* scheduleReconnect with n attempts behind it.                            *)
Schedule(n) ==
  IF stopped \/ n >= MaxAttempts \/ timer
  THEN attempts' = n /\ UNCHANGED timer
  ELSE attempts' = n + 1 /\ timer' = TRUE

(* connect(): nothing while a socket is live or the client was stopped.    *)
Connect ==
  IF stopped \/ Live(ws) THEN UNCHANGED socketVars
  ELSE OpenSocket(attempts) /\ UNCHANGED <<stopped, telemetry, queue>>

(* The back-off is over; the WebSocket constructor may throw.              *)
RetryTimer ==
  /\ timer
  /\ OpenSocket(attempts) /\ UNCHANGED <<stopped, telemetry, queue>>

(* Mutant of RetryThrows: a constructor that throws is not retried.        *)
RetryThrowsGivesUp ==
  /\ timer /\ ~stopped /\ ~Live(ws)
  /\ status' = "disconnected" /\ timer' = FALSE
  /\ UNCHANGED <<ws, attempts, stopped, telemetry, queue, life, conn>>

RetryThrows ==
  /\ timer /\ ~stopped /\ ~Live(ws)
  /\ status' = "disconnected"
  /\ IF attempts >= MaxAttempts THEN timer' = FALSE /\ UNCHANGED attempts
     ELSE timer' = TRUE /\ attempts' = attempts + 1
  /\ UNCHANGED <<ws, stopped, telemetry, queue, life, conn>>

(* onopen: the queue goes out.  The budget is not given back yet.          *)
SocketOpens ==
  /\ ws = "connecting"
  /\ ws' = "open" /\ status' = "connected" /\ StartTelemetry /\ FlushQueue
  /\ UNCHANGED <<attempts, timer, stopped, life, conn>>

TenSeconds ==
  /\ ws = "open" /\ ~life.stable
  /\ life' = [life EXCEPT !.stable = TRUE]
  /\ UNCHANGED <<ws, status, attempts, timer, stopped, telemetry, queue, conn>>

(* onmessage of the current socket; taken: the frame says `preempted'.     *)
SocketMessage(taken) ==
  /\ ws = "open"
  /\ life' = [life EXCEPT !.got = TRUE, !.preempted = @ \/ taken]
  /\ attempts' = IF life.stable THEN 0 ELSE attempts
  /\ UNCHANGED <<ws, status, timer, stopped, telemetry, queue, conn>>

(* The socket starts to close: no frame can be sent on it any more, and    *)
(* onclose is still to come.                                               *)
SocketDrops ==
  /\ Live(ws)
  /\ ws' = "closing"
  /\ UNCHANGED <<status, attempts, timer, stopped, telemetry, queue, life, conn>>

(* onclose of the current socket; reason: the close code tells a takeover. *)
SocketClosed(reason) ==
  /\ ws = "closing"
  /\ ws' = "none" /\ StopTelemetry
  /\ LET n == IF life.got /\ life.stable THEN 0 ELSE attempts
     IN IF life.preempted \/ reason
        THEN /\ status' = "preempted" /\ queue' = <<>>
             /\ attempts' = n /\ UNCHANGED timer
        ELSE /\ status' = "disconnected" /\ Schedule(n) /\ UNCHANGED queue
  /\ UNCHANGED <<stopped, life, conn>>

(* reconnect(): the user's, or of a page that came back.                   *)
Reconnect ==
  /\ OpenSocket(0)
  /\ stopped' = FALSE /\ StopTelemetry
  /\ UNCHANGED queue

(* onVisible: one fresh attempt, and none for a session taken over.        *)
PageBack ==
  IF stopped \/ status # "disconnected" THEN UNCHANGED socketVars ELSE Reconnect

(* disconnect(), when the surface goes away.                               *)
Disconnect ==
  /\ stopped' = TRUE /\ timer' = FALSE /\ StopTelemetry
  /\ ws' = "none" /\ queue' = <<>> /\ status' = "disconnected"
  /\ UNCHANGED <<attempts, life, conn>>

(* sendBinary: sent, kept for the opening socket, or dropped.              *)
SendBinary ==
  /\ queue' = IF ws = "connecting" /\ Len(queue) < QueueLimit
              THEN Append(queue, conn) ELSE queue
  /\ UNCHANGED <<ws, status, attempts, timer, stopped, telemetry, life, conn>>

(* sendControl says itself whether the frame went out.                     *)
CanSend == ws = "open"
=============================================================================
