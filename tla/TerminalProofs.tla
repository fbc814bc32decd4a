--------------------------- MODULE TerminalProofs ---------------------------
(***************************************************************************)
(* Proofs about a terminal tab of the browser: about its restore gate, for *)
(* any number of connections and of writes that wait for the parser; about *)
(* the surface that joins it with the socket and with what the page tells  *)
(* the server about its size; about the screen while its tab is shown and  *)
(* hidden, and what a terminal measures of itself; and about what a user   *)
(* types and pastes, for any number of keys, pastes and files.             *)
(***************************************************************************)
EXTENDS MCTerminal, SequenceTheorems, TLAPS

-----------------------------------------------------------------------------
(***************************************************************************)
(* The restore gate.                                                       *)
(*                                                                         *)
(* What a paint may settle is decided by the epoch its write was made in.  *)
(* The queue is FIFO, so epochs come out of it in order: the invariant     *)
(* says that what waits in the queue is of no earlier epoch than what has  *)
(* been parsed, that what waits for a paint has been parsed, and that a    *)
(* paint of this epoch implies that its restore was the last one parsed.   *)
(***************************************************************************)
(* The epochs in the queue and among the paints                            *)
EpochsInOrder ==
  /\ \A i \in 1..Len(writes) :
       writes[i].epoch >= 0 => parsed <= writes[i].epoch /\ writes[i].epoch <= epoch
  /\ \A i, j \in 1..Len(writes) :
       (i < j /\ writes[i].epoch >= 0 /\ writes[j].epoch >= 0) => writes[i].epoch <= writes[j].epoch
  /\ parsed <= epoch
  /\ \A e \in paints : e <= parsed
GateInv == RestoreTypeOK /\ EpochsInOrder /\ SettledMeansShown

-----------------------------------------------------------------------------
(* A write of this epoch, or one that settles nothing, keeps the order.    *)
LEMMA EnqueueKeeps ==
  ASSUME RestoreTypeOK, EpochsInOrder,
         NEW w \in Write, w.epoch \in {-1, epoch}, Enqueue(w)
  PROVE  /\ writes' \in Seq(Write) /\ paints' = paints /\ parsed' = parsed
         /\ \A i \in 1..Len(writes') :
              writes'[i].epoch >= 0 => parsed <= writes'[i].epoch /\ writes'[i].epoch <= epoch
         /\ \A i, j \in 1..Len(writes') :
              (i < j /\ writes'[i].epoch >= 0 /\ writes'[j].epoch >= 0)
                => writes'[i].epoch <= writes'[j].epoch
<1>1. /\ writes \in Seq(Write) /\ writes' = Append(writes, w) /\ paints' = paints /\ parsed' = parsed
      /\ epoch \in Nat /\ parsed \in Int /\ parsed <= epoch
  BY RestoreAssumption DEF Enqueue, RestoreTypeOK, EpochsInOrder
<1>2. /\ Len(writes') = Len(writes) + 1 /\ Len(writes) \in Nat
      /\ writes'[Len(writes) + 1] = w
      /\ \A i \in 1..Len(writes) : writes'[i] = writes[i] /\ writes[i] \in Write
  BY <1>1
<1>3. \A i \in 1..Len(writes) : writes[i].epoch \in Int
  BY <1>2, RestoreAssumption DEF Write
<1>4. writes' \in Seq(Write)
  BY <1>1
<1>5. ASSUME NEW i \in 1..Len(writes'), writes'[i].epoch >= 0
      PROVE  parsed <= writes'[i].epoch /\ writes'[i].epoch <= epoch
  <2>1. CASE i \in 1..Len(writes)
    BY <2>1, <1>2, <1>5 DEF EpochsInOrder
  <2>2. CASE i = Len(writes) + 1
    BY <2>2, <1>1, <1>2, <1>5
  <2> QED BY <2>1, <2>2, <1>2
<1>6. ASSUME NEW i \in 1..Len(writes'), NEW j \in 1..Len(writes'),
             i < j, writes'[i].epoch >= 0, writes'[j].epoch >= 0
      PROVE  writes'[i].epoch <= writes'[j].epoch
  <2>1. i \in 1..Len(writes)
    BY <1>2, <1>6
  <2>2. CASE j \in 1..Len(writes)
    BY <2>1, <2>2, <1>2, <1>6 DEF EpochsInOrder
  <2>3. CASE j = Len(writes) + 1
    <3>1. writes'[i].epoch <= epoch
      BY <1>5, <1>6
    <3>2. writes'[j].epoch = epoch
      BY <2>3, <1>1, <1>2, <1>6
    <3> QED BY <3>1, <3>2
  <2> QED BY <2>2, <2>3, <1>2
<1> QED BY <1>1, <1>4, <1>5, <1>6

(* The head of the queue goes to the screen; what follows is no older.     *)
LEMMA ParseKeeps ==
  ASSUME RestoreTypeOK, EpochsInOrder, Parse
  PROVE  RestoreTypeOK' /\ EpochsInOrder'
<1> DEFINE e == Head(writes).epoch
<1>1. /\ writes \in Seq(Write) /\ writes # <<>> /\ writes' = Tail(writes)
      /\ UNCHANGED <<gateVars, excused>>
  BY DEF Parse, RestoreTypeOK
<1>2. /\ Len(writes) \in Nat /\ Len(writes) > 0 /\ Len(writes') = Len(writes) - 1
      /\ writes[1] = Head(writes) /\ Head(writes) \in Write /\ writes' \in Seq(Write)
      /\ \A i \in 1..Len(writes') : writes'[i] = writes[i + 1] /\ i + 1 \in 1..Len(writes)
  BY <1>1
<1>3. /\ e \in -1..MaxEpoch /\ MaxEpoch \in Nat /\ epoch \in Nat /\ epoch' = epoch /\ parsed \in -1..MaxEpoch
      /\ \A i \in 1..Len(writes) : writes[i].epoch \in Int
  <2>1. MaxEpoch \in Nat /\ epoch \in Nat /\ epoch' = epoch /\ parsed \in -1..MaxEpoch
    BY <1>1, RestoreAssumption DEF RestoreTypeOK, gateVars
  <2>2. e \in -1..MaxEpoch
    BY <1>2 DEF Write
  <2>3. \A i \in 1..Len(writes) : writes[i] \in Write
    BY <1>1
  <2>4. \A w \in Write : w.epoch \in Int
    BY RestoreAssumption DEF Write
  <2> QED BY <2>1, <2>2, <2>3, <2>4
<1>4. \A i, j \in 1..Len(writes') :
        (i < j /\ writes'[i].epoch >= 0 /\ writes'[j].epoch >= 0) => writes'[i].epoch <= writes'[j].epoch
  <2> SUFFICES ASSUME NEW i \in 1..Len(writes'), NEW j \in 1..Len(writes'), i < j,
                      writes'[i].epoch >= 0, writes'[j].epoch >= 0
               PROVE  writes'[i].epoch <= writes'[j].epoch
    OBVIOUS
  <2>1. i + 1 < j + 1
    BY <1>2
  <2>2. /\ writes'[i] = writes[i + 1] /\ i + 1 \in 1..Len(writes)
        /\ writes'[j] = writes[j + 1] /\ j + 1 \in 1..Len(writes)
    BY <1>2
  <2>3. writes[i + 1].epoch <= writes[j + 1].epoch
    BY <2>1, <2>2 DEF EpochsInOrder
  <2> QED BY <2>2, <2>3
<1>5. CASE e < 0
  <2>1. paints' = paints /\ parsed' = parsed
    BY <1>5 DEF Parse
  <2>2. RestoreTypeOK'
    <3>1. owed' = owed /\ epoch' = epoch /\ awaitingRestore' = awaitingRestore /\ restoreInFlight' = restoreInFlight
          /\ sawReset' = sawReset /\ excused' = excused
      BY <1>1 DEF gateVars
    <3> QED BY <3>1, <2>1, <1>2 DEF RestoreTypeOK
  <2>3. EpochsInOrder'
    BY <2>1, <1>2, <1>3, <1>4 DEF EpochsInOrder
  <2> QED BY <2>2, <2>3
<1>6. CASE ~(e < 0)
  <2>1. paints' = paints \union {e} /\ parsed' = e /\ e \in 0..MaxEpoch
    BY <1>6, <1>3 DEF Parse, AfterNextPaint
  <2>2. parsed <= e /\ e <= epoch
    BY <1>2, <1>3, <1>6 DEF EpochsInOrder
  <2>3. RestoreTypeOK'
    <3>1. owed' = owed /\ epoch' = epoch /\ awaitingRestore' = awaitingRestore /\ restoreInFlight' = restoreInFlight
          /\ sawReset' = sawReset /\ excused' = excused
      BY <1>1 DEF gateVars
    <3>2. paints' \subseteq 0..MaxEpoch /\ parsed' \in -1..MaxEpoch
      BY <2>1, <1>3 DEF RestoreTypeOK
    <3> QED BY <3>1, <3>2, <1>2 DEF RestoreTypeOK
  <2>4. \A i \in 1..Len(writes') :
          writes'[i].epoch >= 0 => e <= writes'[i].epoch /\ writes'[i].epoch <= epoch
    <3> SUFFICES ASSUME NEW i \in 1..Len(writes'), writes'[i].epoch >= 0
                 PROVE  e <= writes'[i].epoch /\ writes'[i].epoch <= epoch
      OBVIOUS
    <3>1. writes'[i] = writes[i + 1] /\ i + 1 \in 1..Len(writes) /\ 1 \in 1..Len(writes) /\ 1 < i + 1
      BY <1>2
    <3> QED BY <3>1, <1>2, <1>3, <1>6 DEF EpochsInOrder
  <2>5. \A p \in paints' : p <= e
    <3>1. \A p \in paints : p <= parsed /\ p \in Int
      BY RestoreAssumption DEF EpochsInOrder, RestoreTypeOK
    <3> QED BY <3>1, <2>1, <2>2, <1>3
  <2>6. EpochsInOrder'
    BY <2>1, <2>2, <2>4, <2>5, <1>3, <1>4 DEF EpochsInOrder
  <2> QED BY <2>3, <2>6
<1> QED BY <1>5, <1>6

(* A new epoch is later than all that is under way.                        *)
LEMMA NewEpochKeeps ==
  ASSUME GateInv, NEW r \in BOOLEAN, NewEpoch(r), UNCHANGED screenVars
  PROVE  GateInv'
<1>1. /\ epoch \in 0..MaxEpoch /\ epoch < MaxEpoch /\ epoch' = epoch + 1 /\ MaxEpoch \in Nat
      /\ owed' = TRUE /\ excused' = FALSE
      /\ awaitingRestore' = r /\ sawReset' = r /\ restoreInFlight' = FALSE
      /\ writes' = writes /\ paints' = paints /\ parsed' = parsed
  BY RestoreAssumption DEF GateInv, RestoreTypeOK, NewEpoch, screenVars
<1>2. RestoreTypeOK'
  <2>1. epoch' \in 0..MaxEpoch
    BY <1>1
  <2> QED BY <2>1, <1>1 DEF GateInv, RestoreTypeOK
<1>3. EpochsInOrder'
  <2>1. \A w \in Write : w.epoch \in Int
    BY RestoreAssumption DEF Write
  <2>2. parsed \in Int /\ \A i \in 1..Len(writes) : writes[i] \in Write
    BY RestoreAssumption DEF GateInv, RestoreTypeOK
  <2>3. \A i \in 1..Len(writes) : writes[i].epoch \in Int
    BY <2>1, <2>2
  <2> QED BY <2>2, <2>3, <1>1 DEF GateInv, EpochsInOrder
<1>4. SettledMeansShown'
  BY <1>1 DEF SettledMeansShown
<1> QED BY <1>2, <1>3, <1>4 DEF GateInv

-----------------------------------------------------------------------------
(* Every state of the gate is well typed, its epochs are in order, and     *)
(* nothing is settled early.                                               *)
LEMMA GateInvInductive == RestoreSpec => []GateInv
<1>1. RestoreInit => GateInv
  <2> SUFFICES ASSUME RestoreInit PROVE GateInv
    OBVIOUS
  <2>1. writes = <<>> /\ <<>> \in Seq(Write) /\ Len(<<>>) = 0
    BY DEF RestoreInit
  <2>2. RestoreTypeOK
    <3>1. /\ owed \in BOOLEAN /\ awaitingRestore \in BOOLEAN /\ restoreInFlight \in BOOLEAN
          /\ sawReset \in BOOLEAN /\ excused \in BOOLEAN /\ paints \subseteq 0..MaxEpoch
      BY DEF RestoreInit
    <3>2. epoch \in 0..MaxEpoch /\ parsed \in -1..MaxEpoch
      BY RestoreAssumption DEF RestoreInit
    <3> QED BY <3>1, <3>2, <2>1 DEF RestoreTypeOK
  <2>3. EpochsInOrder
    BY <2>1 DEF RestoreInit, EpochsInOrder
  <2>4. SettledMeansShown
    BY DEF RestoreInit, SettledMeansShown
  <2> QED BY <2>2, <2>3, <2>4 DEF GateInv
<1>2. GateInv /\ [RestoreNext]_restoreVars => GateInv'
  <2> SUFFICES ASSUME GateInv, [RestoreNext]_restoreVars PROVE GateInv'
    OBVIOUS
  <2> USE DEF GateInv
  <2>0. epoch \in 0..MaxEpoch /\ MaxEpoch \in Nat /\ [kind |-> "live", epoch |-> -1] \in Write
        /\ [kind |-> "reset", epoch |-> -1] \in Write /\ [kind |-> "reset", epoch |-> epoch] \in Write
        /\ [kind |-> "restore", epoch |-> epoch] \in Write
    BY RestoreAssumption DEF RestoreTypeOK, Write
  <2>1. CASE GateConnecting
    BY <2>1, NewEpochKeeps DEF GateConnecting
  <2>2. CASE GateReplayReset
    BY <2>2, NewEpochKeeps DEF GateReplayReset
  <2>3. CASE OutputFrame
    <3>1. /\ owed' = owed /\ epoch' = epoch /\ sawReset' = sawReset /\ excused' = excused
          /\ awaitingRestore' = FALSE /\ restoreInFlight' \in BOOLEAN
      BY <2>3 DEF OutputFrame, TakeBinary, RestoreTypeOK
    <3>2. \E w \in Write : w.epoch \in {-1, epoch} /\ Enqueue(w)
      BY <2>3, <2>0 DEF OutputFrame
    <3>3. PICK w \in Write : w.epoch \in {-1, epoch} /\ Enqueue(w)
      BY <3>2
    <3> QED BY <3>1, <3>3, EnqueueKeeps DEF RestoreTypeOK, EpochsInOrder, SettledMeansShown
  <2>4. CASE SessionMeta
    <3>1. CASE awaitingRestore
      <4>1. Enqueue([kind |-> "reset", epoch |-> epoch])
            /\ awaitingRestore' = FALSE /\ restoreInFlight' = TRUE
            /\ UNCHANGED <<owed, epoch, sawReset, excused>>
        BY <2>4, <3>1 DEF SessionMeta
      <4> QED BY <4>1, <2>0, EnqueueKeeps DEF RestoreTypeOK, EpochsInOrder, SettledMeansShown
    <3>2. CASE ~awaitingRestore
      <4>1. /\ owed' = (owed /\ (restoreInFlight \/ sawReset))
            /\ excused' = (excused \/ (~restoreInFlight /\ ~sawReset))
            /\ UNCHANGED <<epoch, awaitingRestore, restoreInFlight, sawReset, screenVars>>
        BY <2>4, <3>2 DEF SessionMeta
      <4>2. RestoreTypeOK' /\ EpochsInOrder'
        BY <4>1 DEF RestoreTypeOK, EpochsInOrder, screenVars
      <4>3. SettledMeansShown'
        BY <4>1 DEF SettledMeansShown, RestoreTypeOK, screenVars
      <4> QED BY <4>2, <4>3
    <3> QED BY <3>1, <3>2
  <2>5. CASE TerminalFrame
    <3>1. /\ owed' = FALSE /\ awaitingRestore' = FALSE /\ restoreInFlight' = FALSE
          /\ excused' = TRUE /\ epoch' = epoch /\ sawReset' = sawReset
      BY <2>5 DEF TerminalFrame
    <3>2. CASE awaitingRestore
      <4>1. Enqueue([kind |-> "reset", epoch |-> -1])
        BY <2>5, <3>2 DEF TerminalFrame
      <4> QED BY <4>1, <3>1, <2>0, EnqueueKeeps DEF RestoreTypeOK, EpochsInOrder, SettledMeansShown
    <3>3. CASE ~awaitingRestore
      <4>1. UNCHANGED screenVars
        BY <2>5, <3>3 DEF TerminalFrame
      <4> QED BY <4>1, <3>1 DEF RestoreTypeOK, EpochsInOrder, SettledMeansShown, screenVars
    <3> QED BY <3>2, <3>3
  <2>6. CASE Parse
    <3>1. RestoreTypeOK' /\ EpochsInOrder'
      BY <2>6, ParseKeeps
    <3>2. SettledMeansShown'
      (* A settled epoch stays parsed: what is parsed next is of this epoch *)
      (* or settles nothing.                                               *)
      <4>1. owed' = owed /\ excused' = excused /\ epoch' = epoch /\ parsed \in Int /\ parsed' \in Int
        BY <2>6, <3>1, RestoreAssumption DEF Parse, gateVars, RestoreTypeOK
      <4>2. parsed' = parsed \/ parsed <= parsed'
        <5>1. writes # <<>> /\ writes \in Seq(Write) /\ Head(writes) = writes[1] /\ 1 \in 1..Len(writes)
              /\ Head(writes).epoch \in Int
          <6>1. writes # <<>> /\ writes \in Seq(Write)
            BY <2>6 DEF Parse, RestoreTypeOK
          <6>2. Head(writes) = writes[1] /\ 1 \in 1..Len(writes) /\ Head(writes) \in Write
            BY <6>1
          <6>3. \A w \in Write : w.epoch \in Int
            BY RestoreAssumption DEF Write
          <6> QED BY <6>1, <6>2, <6>3
        <5> QED BY <5>1, <2>6 DEF Parse, EpochsInOrder
      <4>3. parsed' <= epoch /\ epoch \in Int
        BY <3>1, <4>1, <2>0 DEF EpochsInOrder
      <4> QED BY <4>1, <4>2, <4>3 DEF SettledMeansShown
    <3> QED BY <3>1, <3>2
  <2>7. ASSUME NEW e \in paints, Painted(e) PROVE GateInv'
    <3>1. /\ paints' = paints \ {e}
          /\ UNCHANGED <<epoch, awaitingRestore, sawReset, writes, parsed, excused>>
      BY <2>7 DEF Painted
    <3>2. CASE e = epoch /\ restoreInFlight
      <4>1. owed' = FALSE /\ restoreInFlight' = FALSE
        BY <2>7, <3>2 DEF Painted
      <4>2. parsed = epoch
        BY <3>2, RestoreAssumption DEF EpochsInOrder, RestoreTypeOK
      <4> QED BY <3>1, <4>1, <4>2 DEF RestoreTypeOK, EpochsInOrder, SettledMeansShown
    <3>3. CASE ~(e = epoch /\ restoreInFlight)
      <4>1. UNCHANGED <<owed, restoreInFlight>>
        BY <2>7, <3>3 DEF Painted
      <4> QED BY <3>1, <4>1 DEF RestoreTypeOK, EpochsInOrder, SettledMeansShown
    <3> QED BY <3>2, <3>3
  <2>8. CASE UNCHANGED restoreVars
    BY <2>8 DEF restoreVars, gateVars, screenVars, RestoreTypeOK, EpochsInOrder, SettledMeansShown
  <2> QED BY <2>1, <2>2, <2>3, <2>4, <2>5, <2>6, <2>7, <2>8 DEF RestoreNext, ControlFrame
<1> QED BY <1>1, <1>2, PTL DEF RestoreSpec

(* The state of the gate and of xterm's queue is well typed, whatever the  *)
(* number of connections (restoreGate.ts).                                 *)
THEOREM RestoreTypeCorrect == RestoreSpec => []RestoreTypeOK
<1>1. GateInv => RestoreTypeOK
  BY DEF GateInv
<1> QED BY <1>1, GateInvInductive, PTL

(* The overlay never goes away before the restore of its own epoch has     *)
(* been parsed, unless no restore is to come: a paint that an earlier      *)
(* connection or a voided restore asked for settles nothing                *)
(* (restoreGate.ts, restorePainted).                                       *)
THEOREM RestoreShownFirst == RestoreSpec => []SettledMeansShown
<1>1. GateInv => SettledMeansShown
  BY DEF GateInv
<1> QED BY <1>1, GateInvInductive, PTL

-----------------------------------------------------------------------------
(***************************************************************************)
(* The socket.  Whatever opens, drops, retries or is asked for, a client   *)
(* without a socket has a timer, was stopped or taken over, or has used up *)
(* its budget.                                                             *)
(***************************************************************************)
\* A socket that is opening is shown as opening.
Opening == ws = "connecting" => status \in {"connecting", "reconnecting"}

\* There is no socket before the first one.
FirstConn == conn = 0 => ws = "none"

SocketInv == SocketTypeOK /\ Opening /\ FirstConn /\ RetriesOrGivesUp

\* Every way the surface moves its socket.
SocketStep ==
  \/ Connect \/ Reconnect \/ PageBack \/ Disconnect
  \/ SocketOpens \/ TenSeconds \/ SocketDrops \/ RetryTimer \/ RetryThrows
  \/ \E reason \in BOOLEAN : SocketClosed(reason)
  \/ \E taken \in BOOLEAN : SocketMessage(taken)
  \/ ws = "connecting" /\ SendBinary
  \/ UNCHANGED socketVars

\* A new socket is counted, has a fresh life and no timer beside it.
LEMMA OpenSocketKeeps ==
  ASSUME SocketInv, NEW n \in 0 .. MaxAttempts, OpenSocket(n),
         queue' = queue, stopped' \in BOOLEAN, telemetry' \in BOOLEAN
  PROVE  SocketInv'
<1>1. conn \in Nat /\ MaxConns \in Nat /\ conn < MaxConns /\ conn' = conn + 1
  BY SocketAssumption DEF SocketInv, SocketTypeOK, OpenSocket
<1>2. conn' \in 0 .. MaxConns /\ conn' # 0
  BY <1>1
<1>3. ws' = "connecting" /\ status' \in {"connecting", "reconnecting"} /\ attempts' = n
      /\ timer' = FALSE /\ life' = NewLife
  BY DEF OpenSocket
<1>4. NewLife \in [stable : BOOLEAN, got : BOOLEAN, preempted : BOOLEAN]
  BY DEF NewLife
<1>5. queue \in Seq(1 .. MaxConns) /\ Len(queue) <= QueueLimit
  BY DEF SocketInv, SocketTypeOK
<1>6. SocketTypeOK'
  BY <1>2, <1>3, <1>4, <1>5 DEF SocketTypeOK, Statuses
<1> QED BY <1>2, <1>3, <1>6 DEF SocketInv, Opening, FirstConn, RetriesOrGivesUp

\* What is typed while a socket opens is kept for it, up to the limit.
LEMMA SendBinaryKeeps ==
  ASSUME SocketInv, ws = "connecting", SendBinary
  PROVE  SocketInv'
<1>1. UNCHANGED <<ws, status, attempts, timer, stopped, telemetry, life, conn>>
  BY DEF SendBinary
<1>2. conn \in 1 .. MaxConns
  BY SocketAssumption DEF SocketInv, SocketTypeOK, FirstConn
<1>3. queue \in Seq(1 .. MaxConns) /\ Len(queue) <= QueueLimit /\ Len(queue) \in Nat
      /\ QueueLimit \in Nat
  BY SocketAssumption DEF SocketInv, SocketTypeOK
<1>4. queue' \in Seq(1 .. MaxConns) /\ Len(queue') <= QueueLimit
  <2>1. CASE Len(queue) < QueueLimit
    <3>1. queue' = Append(queue, conn)
      BY <2>1 DEF SendBinary
    <3> QED BY <3>1, <2>1, <1>2, <1>3
  <2>2. CASE ~(Len(queue) < QueueLimit)
    BY <2>2, <1>3 DEF SendBinary
  <2> QED BY <2>1, <2>2
<1>5. SocketTypeOK'
  BY <1>1, <1>4 DEF SocketInv, SocketTypeOK
<1> QED BY <1>1, <1>5 DEF SocketInv, Opening, FirstConn, RetriesOrGivesUp

\* A closed socket is retried, or was taken over, or was the last attempt.
LEMMA SocketClosedKeeps ==
  ASSUME SocketInv, NEW reason \in BOOLEAN, SocketClosed(reason)
  PROVE  SocketInv'
<1> DEFINE n == IF life.got /\ life.stable THEN 0 ELSE attempts
<1>1. ws' = "none" /\ telemetry' = FALSE /\ UNCHANGED <<stopped, life, conn>>
  BY DEF SocketClosed, StopTelemetry
<1>2. n \in 0 .. MaxAttempts /\ MaxAttempts \in Nat
  BY SocketAssumption DEF SocketInv, SocketTypeOK
<1>3. queue \in Seq(1 .. MaxConns) /\ Len(queue) <= QueueLimit
      /\ <<>> \in Seq(1 .. MaxConns) /\ Len(<<>>) = 0 /\ 0 <= QueueLimit
  BY SocketAssumption DEF SocketInv, SocketTypeOK
<1>4. CASE life.preempted \/ reason
  <2>1. status' = "preempted" /\ queue' = <<>> /\ attempts' = n /\ timer' = timer
    BY <1>4 DEF SocketClosed
  <2>2. SocketTypeOK'
    BY <2>1, <1>1, <1>2, <1>3 DEF SocketInv, SocketTypeOK, Statuses
  <2> QED BY <2>1, <2>2, <1>1 DEF SocketInv, Opening, FirstConn, RetriesOrGivesUp
<1>5. CASE ~(life.preempted \/ reason)
  <2>1. status' = "disconnected" /\ Schedule(n) /\ queue' = queue
    BY <1>5 DEF SocketClosed
  <2> HIDE DEF n
  <2>2. CASE stopped \/ n >= MaxAttempts \/ timer
    <3>1. attempts' = n /\ timer' = timer
      BY <2>1, <2>2 DEF Schedule
    <3>2. SocketTypeOK'
      BY <2>1, <3>1, <1>1, <1>2, <1>3 DEF SocketInv, SocketTypeOK, Statuses
    <3>3. stopped' \/ timer' \/ attempts' = MaxAttempts
      BY <2>2, <3>1, <1>1, <1>2
    <3> QED BY <3>2, <3>3, <1>1 DEF SocketInv, Opening, FirstConn, RetriesOrGivesUp
  <2>3. CASE ~(stopped \/ n >= MaxAttempts \/ timer)
    <3>1. attempts' = n + 1 /\ timer' = TRUE
      BY <2>1, <2>3 DEF Schedule
    <3>2. n + 1 \in 0 .. MaxAttempts
      BY <2>3, <1>2
    <3>3. SocketTypeOK'
      BY <2>1, <3>1, <3>2, <1>1, <1>3 DEF SocketInv, SocketTypeOK, Statuses
    <3> QED BY <3>1, <3>3, <1>1 DEF SocketInv, Opening, FirstConn, RetriesOrGivesUp
  <2> QED BY <2>2, <2>3
<1> QED BY <1>4, <1>5

\* A constructor that throws is retried while the budget lasts.
LEMMA RetryThrowsKeeps ==
  ASSUME SocketInv, RetryThrows
  PROVE  SocketInv'
<1>1. /\ UNCHANGED <<ws, stopped, telemetry, queue, life, conn>>
      /\ status' = "disconnected" /\ ws \notin {"connecting", "open"}
  BY DEF RetryThrows, Live
<1>2. attempts \in 0 .. MaxAttempts /\ MaxAttempts \in Nat
  BY SocketAssumption DEF SocketInv, SocketTypeOK
<1>3. attempts' \in 0 .. MaxAttempts /\ timer' \in BOOLEAN
      /\ (timer' \/ attempts' = MaxAttempts)
  <2>1. CASE attempts >= MaxAttempts
    <3>1. timer' = FALSE /\ attempts' = attempts
      BY <2>1 DEF RetryThrows
    <3>2. attempts' = MaxAttempts /\ attempts' \in 0 .. MaxAttempts
      BY <3>1, <2>1, <1>2
    <3> QED BY <3>1, <3>2
  <2>2. CASE ~(attempts >= MaxAttempts)
    <3>1. timer' = TRUE /\ attempts' = attempts + 1
      BY <2>2 DEF RetryThrows
    <3> QED BY <3>1, <2>2, <1>2
  <2> QED BY <2>1, <2>2
<1>4. SocketTypeOK'
  BY <1>1, <1>3 DEF SocketInv, SocketTypeOK, Statuses
<1> QED BY <1>1, <1>3, <1>4 DEF SocketInv, Opening, FirstConn, RetriesOrGivesUp

LEMMA SocketStepKeeps ==
  ASSUME SocketInv, SocketStep
  PROVE  SocketInv'
<1>0. /\ attempts \in 0 .. MaxAttempts /\ 0 \in 0 .. MaxAttempts
      /\ stopped \in BOOLEAN /\ telemetry \in BOOLEAN /\ timer \in BOOLEAN
  BY SocketAssumption DEF SocketInv, SocketTypeOK
<1>1. CASE UNCHANGED socketVars
  BY <1>1 DEF socketVars, SocketInv, SocketTypeOK, Opening, FirstConn, RetriesOrGivesUp
<1>2. CASE Connect
  BY <1>0, <1>1, <1>2, OpenSocketKeeps DEF Connect
<1>3. CASE Reconnect
  BY <1>0, <1>3, OpenSocketKeeps DEF Reconnect, StopTelemetry
<1>4. CASE PageBack
  BY <1>1, <1>3, <1>4 DEF PageBack
<1>5. CASE Disconnect
  <2>1. <<>> \in Seq(1 .. MaxConns) /\ Len(<<>>) <= QueueLimit
    BY SocketAssumption
  <2>2. SocketTypeOK'
    BY <1>5, <2>1 DEF Disconnect, StopTelemetry, SocketInv, SocketTypeOK, Statuses
  <2> QED BY <1>5, <2>2 DEF Disconnect, SocketInv, Opening, FirstConn, RetriesOrGivesUp
<1>6. CASE SocketOpens
  <2>1. <<>> \in Seq(1 .. MaxConns) /\ Len(<<>>) <= QueueLimit
    BY SocketAssumption
  <2>2. SocketTypeOK'
    BY <1>6, <2>1 DEF SocketOpens, StartTelemetry, FlushQueue, SocketInv, SocketTypeOK, Statuses
  <2> QED BY <1>6, <2>2 DEF SocketOpens, SocketInv, Opening, FirstConn, RetriesOrGivesUp
<1>7. CASE TenSeconds
  <2>1. SocketTypeOK'
    BY <1>7 DEF TenSeconds, SocketInv, SocketTypeOK
  <2> QED BY <1>7, <2>1 DEF TenSeconds, SocketInv, Opening, FirstConn, RetriesOrGivesUp
<1>8. CASE SocketDrops
  <2>1. SocketTypeOK'
    BY <1>8 DEF SocketDrops, SocketInv, SocketTypeOK
  <2> QED BY <1>8, <2>1 DEF SocketDrops, Live, SocketInv, Opening, FirstConn, RetriesOrGivesUp
<1>9. CASE RetryTimer
  BY <1>0, <1>9, OpenSocketKeeps DEF RetryTimer
<1>10. CASE RetryThrows
  BY <1>10, RetryThrowsKeeps
<1>11. CASE \E reason \in BOOLEAN : SocketClosed(reason)
  BY <1>11, SocketClosedKeeps
<1>12. ASSUME NEW taken \in BOOLEAN, SocketMessage(taken)
       PROVE  SocketInv'
  <2>1. /\ UNCHANGED <<ws, status, timer, stopped, telemetry, queue, conn>>
        /\ ws = "open" /\ attempts' \in {0, attempts}
    BY <1>12 DEF SocketMessage
  <2>2. life' \in [stable : BOOLEAN, got : BOOLEAN, preempted : BOOLEAN]
    BY <1>12 DEF SocketMessage, SocketInv, SocketTypeOK
  <2>3. SocketTypeOK'
    BY <1>0, <2>1, <2>2 DEF SocketInv, SocketTypeOK
  <2> QED BY <2>1, <2>3 DEF SocketInv, Opening, FirstConn, RetriesOrGivesUp
<1>13. CASE ws = "connecting" /\ SendBinary
  BY <1>13, SendBinaryKeeps
<1> QED
  BY <1>1, <1>2, <1>3, <1>4, <1>5, <1>6, <1>7, <1>8, <1>9, <1>10, <1>11, <1>12, <1>13
  DEF SocketStep

\* A socket that is open in the next state was open and shows the same, or
\* has just opened and shows it.
LEMMA OpensVisibly ==
  ASSUME SocketInv, SocketStep, ws' = "open"
  PROVE  \/ ws = "open" /\ status' = status
         \/ status' # status /\ status' = "connected"
<1>1. CASE SocketOpens
  BY <1>1 DEF SocketOpens, SocketInv, Opening
<1>2. CASE ~SocketOpens
  BY <1>2 DEF SocketStep, Connect, Reconnect, PageBack, Disconnect, TenSeconds, SocketDrops,
     RetryTimer, RetryThrows, SocketClosed, SocketMessage, SendBinary, OpenSocket, socketVars, Live
<1> QED BY <1>1, <1>2

-----------------------------------------------------------------------------
(***************************************************************************)
(* The surface.                                                            *)
(***************************************************************************)
\* Before the receiver is attached nothing opens a socket, and nothing that
\* could open one later is under way: no timer, and no "disconnected" that
\* coming back to the page would act on.
NothingEarly ==
  ~ready => ws = "none" /\ ~timer /\ (status = "connecting" \/ stopped)

SurfaceInv == SocketInv /\ ready \in BOOLEAN /\ NothingEarly /\ size \in Sizes /\ BelievedVoteHeld

\* A declaration that went out is remembered together with the server's
\* record, one that did not is forgotten.
LEMMA DeclareKeeps ==
  ASSUME SurfaceInv, NEW a \in BOOLEAN, NEW v \in BOOLEAN, NEW g \in BOOLEAN,
         DeclareViewport(a, v, g, size), ws' = ws
  PROVE  BelievedVoteHeld'
<1> DEFINE now == Viewer(a, v)
           changed == g /\ lastDeclared # size
<1>0. size \in Sizes /\ now \in BOOLEAN
  BY DEF SurfaceInv, Viewer
<1>1. CASE ~ready
  BY <1>1 DEF DeclareViewport, SurfaceInv, voteVars, BelievedVoteHeld
<1>2. CASE ready /\ Intent(wasViewer, now, changed) = "silent"
  <2>1. wasViewer' = now /\ UNCHANGED <<lastDeclared, vote>>
    BY <1>2 DEF DeclareViewport
  <2>2. now => wasViewer
    BY <1>2 DEF Intent
  <2> QED BY <2>1, <2>2 DEF SurfaceInv, BelievedVoteHeld
<1>3. CASE ready /\ Intent(wasViewer, now, changed) = "withdraw"
  <2>1. wasViewer' = FALSE
    BY <1>3 DEF DeclareViewport
  <2> QED BY <2>1 DEF BelievedVoteHeld
<1>4. CASE ready /\ Intent(wasViewer, now, changed) = "declare"
  <2>1. CASE CanSend
    <3>1. lastDeclared' = size /\ vote' = size
      BY <1>4, <2>1 DEF DeclareViewport
    <3> QED BY <3>1, <1>0 DEF BelievedVoteHeld
  <2>2. CASE ~CanSend
    <3>1. wasViewer' = FALSE
      BY <1>4, <2>2 DEF DeclareViewport
    <3> QED BY <3>1 DEF BelievedVoteHeld
  <2> QED BY <2>1, <2>2
<1>5. Intent(wasViewer, now, changed) \in {"silent", "withdraw", "declare"}
  BY DEF Intent
<1> QED BY <1>1, <1>2, <1>3, <1>4, <1>5 DEF SurfaceInv

\* The watch on the socket's status forgets the declaration when a connection
\* is established, and the server forgets it with the connection.
LEMMA WatchKeeps ==
  ASSUME SurfaceInv, SocketStep, StatusWatch
  PROVE  BelievedVoteHeld'
<1>1. CASE ws' # "open"
  BY <1>1 DEF BelievedVoteHeld
<1>2. CASE ws' = "open" /\ status' # status /\ status' = "connected"
  BY <1>2 DEF StatusWatch, BelievedVoteHeld
<1>3. CASE ws' = "open" /\ ws = "open" /\ status' = status
  <2>1. UNCHANGED <<wasViewer, lastDeclared>> /\ vote' = vote
    BY <1>3 DEF StatusWatch
  <2> QED BY <1>3, <2>1 DEF SurfaceInv, BelievedVoteHeld
<1> QED BY <1>1, <1>2, <1>3, OpensVisibly DEF SurfaceInv

\* The connection gate opens a socket only once there is a receiver.
LEMMA FlushGateSteps ==
  ASSUME SurfaceInv, NEW req, NEW rdy \in BOOLEAN, FlushGate(req, rdy)
  PROVE  /\ SocketStep /\ ready' = rdy
         /\ rdy \/ UNCHANGED socketVars
BY DEF FlushGate, SocketStep

\* Coming back to the page opens no socket that has no receiver.
LEMMA PageBackSteps ==
  ASSUME SurfaceInv, PageBack
  PROVE  /\ SocketStep
         /\ ready \/ UNCHANGED socketVars
BY DEF PageBack, SocketStep, SurfaceInv, NothingEarly

\* The overlay's gate sees a step of its own, or none.
LEMMA WatchDrivesGate ==
  ASSUME StatusWatch
  PROVE  [RestoreNext]_restoreVars
BY DEF StatusWatch, RestoreNext

-----------------------------------------------------------------------------
\* Steps that leave the socket alone and declare at most.
LEMMA DeclaringStep ==
  ASSUME SurfaceInv, NEW a \in BOOLEAN, NEW v \in BOOLEAN, NEW g \in BOOLEAN,
         DeclareViewport(a, v, g, size) \/ UNCHANGED voteVars,
         UNCHANGED <<socketVars, ready>>, size' \in Sizes
  PROVE  SurfaceInv'
<1>1. SocketStep /\ ws' = ws /\ timer' = timer /\ status' = status /\ stopped' = stopped
  BY DEF SocketStep, socketVars
<1>2. SocketInv'
  BY <1>1, SocketStepKeeps DEF SurfaceInv
<1>3. BelievedVoteHeld'
  <2>1. CASE DeclareViewport(a, v, g, size)
    BY <2>1, <1>1, DeclareKeeps
  <2>2. CASE UNCHANGED voteVars
    BY <2>2, <1>1 DEF SurfaceInv, BelievedVoteHeld, voteVars
  <2> QED BY <2>1, <2>2
<1> QED BY <1>1, <1>2, <1>3 DEF SurfaceInv, NothingEarly

\* Steps of the socket, with the watch on its status.
LEMMA WatchedStep ==
  ASSUME SurfaceInv, SocketStep, StatusWatch, ready' \in BOOLEAN, size' = size,
         ready => ready', ready' \/ UNCHANGED socketVars
  PROVE  SurfaceInv'
<1>1. SocketInv'
  BY SocketStepKeeps DEF SurfaceInv
<1>2. BelievedVoteHeld'
  BY WatchKeeps
<1>3. NothingEarly'
  BY DEF SurfaceInv, NothingEarly, socketVars
<1> QED BY <1>1, <1>2, <1>3 DEF SurfaceInv

LEMMA SurfaceInvInductive == SurfaceSpec => []SurfaceInv /\ [](active \in BOOLEAN /\ pageVisible \in BOOLEAN)
<1> DEFINE Shown == active \in BOOLEAN /\ pageVisible \in BOOLEAN
<1>1. SurfaceInit => SurfaceInv /\ Shown
  <2> SUFFICES ASSUME SurfaceInit PROVE SurfaceInv /\ Shown
    OBVIOUS
  <2>1. SocketInv
    <3>1. <<>> \in Seq(1 .. MaxConns) /\ Len(<<>>) <= QueueLimit /\ 0 \in 0 .. MaxAttempts
          /\ 0 \in 0 .. MaxConns
      BY SocketAssumption
    <3>2. SocketTypeOK
      BY <3>1 DEF SurfaceInit, SocketInit, SocketTypeOK, Statuses, NewLife
    <3> QED BY <3>2 DEF SurfaceInit, SocketInit, SocketInv, Opening, FirstConn, RetriesOrGivesUp
  <2> QED BY <2>1 DEF SurfaceInit, SocketInit, SurfaceInv, NothingEarly, BelievedVoteHeld
<1>2. SurfaceInv /\ Shown /\ [SurfaceNext]_surfaceVars => SurfaceInv' /\ Shown'
  <2> SUFFICES ASSUME SurfaceInv, Shown, [SurfaceNext]_surfaceVars PROVE SurfaceInv' /\ Shown'
    OBVIOUS
  <2>0. ready \in BOOLEAN /\ size \in Sizes
    BY DEF SurfaceInv
  <2>1. CASE ReceiverAttached
    <3>1. FlushGate(requested, TRUE) /\ StatusWatch /\ UNCHANGED <<tabVars, size, resizing>>
      BY <2>1 DEF ReceiverAttached
    <3>2. SocketStep /\ ready' = TRUE
      BY <3>1, FlushGateSteps
    <3> QED BY <3>1, <3>2, WatchedStep DEF tabVars
  <2>2. CASE Activate
    <3>1. FlushGate(TRUE, ready) /\ active' = TRUE /\ UNCHANGED <<pageVisible, size>>
      BY <2>2 DEF Activate
    <3>2. SocketStep /\ ready' = ready /\ (ready \/ UNCHANGED socketVars)
      BY <3>1, <2>0, FlushGateSteps
    <3>3. CASE socketVars' = socketVars
      <4>1. DeclareViewport(TRUE, pageVisible, TRUE, size)
        BY <2>2, <3>3 DEF Activate
      <4> QED BY <4>1, <3>1, <3>2, <3>3, <2>0, DeclaringStep
    <3>4. CASE socketVars' # socketVars
      <4>1. StatusWatch
        BY <2>2, <3>4 DEF Activate
      <4> QED BY <4>1, <3>1, <3>2, <2>0, WatchedStep
    <3> QED BY <3>3, <3>4
  <2>3. CASE Deactivate
    <3>1. DeclareViewport(FALSE, pageVisible, FALSE, size) /\ UNCHANGED <<socketVars, ready>>
          /\ size' = size /\ active' = FALSE /\ pageVisible' = pageVisible
      BY <2>3 DEF Deactivate, connectVars, sizeVars
    <3> QED BY <3>1, <2>0, DeclaringStep
  <2>4. CASE PageHides
    <3>1. DeclareViewport(active, FALSE, FALSE, size) /\ UNCHANGED <<socketVars, ready>>
          /\ size' = size /\ active' = active /\ pageVisible' = FALSE
      BY <2>4 DEF PageHides, connectVars, sizeVars
    <3> QED BY <3>1, <2>0, DeclaringStep
  <2>5. CASE PageShows
    <3>1. PageBack /\ ready' = ready /\ size' = size /\ active' = active /\ pageVisible' = TRUE
      BY <2>5 DEF PageShows, connectVars
    <3>2. SocketStep /\ (ready \/ UNCHANGED socketVars)
      BY <3>1, PageBackSteps
    <3>3. CASE socketVars' = socketVars
      <4>1. DeclareViewport(active, TRUE, FALSE, size)
        BY <2>5, <3>3 DEF PageShows
      <4> QED BY <4>1, <3>1, <3>3, <2>0, DeclaringStep
    <3>4. CASE socketVars' # socketVars
      <4>1. StatusWatch
        BY <2>5, <3>4 DEF PageShows
      <4> QED BY <4>1, <3>1, <3>2, <2>0, WatchedStep
    <3> QED BY <3>3, <3>4
  <2>6. CASE WindowBlur
    <3>1. wasViewer' = FALSE /\ UNCHANGED <<socketVars, ready, size, active, pageVisible>>
      BY <2>6 DEF WindowBlur, connectVars, sizeVars, tabVars
    <3>2. SocketInv'
      BY <3>1, SocketStepKeeps DEF SocketStep, SurfaceInv
    <3> QED BY <3>1, <3>2 DEF SurfaceInv, NothingEarly, BelievedVoteHeld, socketVars
  <2>7. CASE WindowFocus
    <3>1. DeclareViewport(active, pageVisible, FALSE, size)
          /\ UNCHANGED <<socketVars, ready, size, active, pageVisible>>
      BY <2>7 DEF WindowFocus, connectVars, sizeVars, tabVars
    <3> QED BY <3>1, <2>0, DeclaringStep
  <2>8. CASE ContainerResizes
    <3>1. size' \in Sizes /\ UNCHANGED <<socketVars, ready, active, pageVisible, voteVars>>
      BY <2>8 DEF ContainerResizes, connectVars, tabVars
    <3> QED BY <3>1, <2>0, DeclaringStep
  <2>9. CASE ReportResize
    <3>1. UNCHANGED <<socketVars, ready, size, active, pageVisible>>
      BY <2>9 DEF ReportResize, connectVars, tabVars
    <3>2. DeclareViewport(active, pageVisible, TRUE, size) \/ UNCHANGED voteVars
      BY <2>9 DEF ReportResize
    <3> QED BY <3>1, <3>2, <2>0, DeclaringStep
  <2>10. CASE LadderFit
    <3>1. DeclareViewport(active, pageVisible, TRUE, size)
          /\ UNCHANGED <<socketVars, ready, size, active, pageVisible>>
      BY <2>10 DEF LadderFit, connectVars, tabVars
    <3> QED BY <3>1, <2>0, DeclaringStep
  <2>11. CASE Frame
    <3>1. UNCHANGED <<tabVars, connectVars, voteVars, sizeVars>>
          /\ \E taken \in BOOLEAN : SocketMessage(taken)
      BY <2>11 DEF Frame
    <3>2. SocketInv'
      BY <3>1, SocketStepKeeps DEF SocketStep, SurfaceInv
    <3>3. ws' = ws /\ timer' = timer /\ status' = status /\ stopped' = stopped
      BY <3>1 DEF SocketMessage
    <3> QED BY <3>1, <3>2, <3>3
        DEF SurfaceInv, NothingEarly, BelievedVoteHeld, tabVars, connectVars, voteVars, sizeVars
  <2>12. CASE SocketEvent
    <3>1. SocketStep /\ StatusWatch /\ UNCHANGED <<ready, size, active, pageVisible>>
      BY <2>12 DEF SocketEvent, SocketStep, Settled, connectVars, tabVars
    <3>2. ready
      BY <2>12 DEF SocketEvent, SurfaceInv, NothingEarly, SocketOpens, TenSeconds, SocketDrops,
         RetryTimer, RetryThrows, SocketClosed, Live
    <3> QED BY <3>1, <3>2, WatchedStep
  <2>13. CASE UserReconnects
    <3>1. ready /\ SocketStep /\ StatusWatch /\ UNCHANGED <<ready, size, active, pageVisible>>
      BY <2>13 DEF UserReconnects, SocketStep, Settled, connectVars, tabVars
    <3> QED BY <3>1, WatchedStep
  <2>14. CASE Typing
    <3>1. ws = "connecting" /\ SendBinary /\ UNCHANGED <<tabVars, connectVars, voteVars, sizeVars>>
      BY <2>14 DEF Typing
    <3>2. SocketInv'
      BY <3>1, SocketStepKeeps DEF SocketStep, SurfaceInv
    <3>3. ws' = ws /\ timer' = timer /\ status' = status /\ stopped' = stopped
      BY <3>1 DEF SendBinary
    <3> QED BY <3>1, <3>2, <3>3
        DEF SurfaceInv, NothingEarly, BelievedVoteHeld, tabVars, connectVars, voteVars, sizeVars
  <2>15. CASE ScreenParses \/ \E e \in 0 .. MaxEpoch : ScreenPaints(e)
    <3>1. UNCHANGED <<socketVars, voteVars>> /\ UNCHANGED <<ready, size, active, pageVisible>>
      BY <2>15 DEF ScreenParses, ScreenPaints, connectVars, tabVars, sizeVars
    <3> QED BY <3>1, <2>0, DeclaringStep
  <2>16. CASE Unmount
    <3>1. Disconnect /\ UNCHANGED <<ready, size, active, pageVisible>>
      BY <2>16 DEF Unmount
    <3>2. SocketInv'
      BY <3>1, SocketStepKeeps DEF SocketStep, SurfaceInv
    <3> QED BY <3>1, <3>2 DEF Disconnect, SurfaceInv, NothingEarly, BelievedVoteHeld
  <2>17. CASE PanelChanges
    <3>1. vote' = XtermGrid /\ UNCHANGED <<socketVars, ready, size, active, pageVisible>>
      BY <2>17 DEF PanelChanges, connectVars, sizeVars, tabVars
    <3>2. SocketInv'
      BY <3>1, SocketStepKeeps DEF SocketStep, SurfaceInv
    <3> QED BY <3>1, <3>2 DEF SurfaceInv, NothingEarly, BelievedVoteHeld, socketVars
  <2>18. CASE UNCHANGED surfaceVars
    <3>1. UNCHANGED <<socketVars, voteVars>> /\ UNCHANGED <<ready, size, active, pageVisible>>
      BY <2>18 DEF surfaceVars, connectVars, tabVars, sizeVars
    <3> QED BY <3>1, <2>0, DeclaringStep
  <2> QED
    BY <2>1, <2>2, <2>3, <2>4, <2>5, <2>6, <2>7, <2>8, <2>9, <2>10, <2>11, <2>12, <2>13,
       <2>14, <2>15, <2>16, <2>17, <2>18 DEF SurfaceNext
<1> QED BY <1>1, <1>2, PTL DEF SurfaceSpec

-----------------------------------------------------------------------------
\* The socket of a terminal is well typed in every reachable state: its retries
\* stay within the budget, and what was typed for an opening socket within its
\* queue, whatever the user, the page and the network do (useWebSocketClient).
THEOREM SocketTypeCorrect == SurfaceSpec => []SocketTypeOK
<1>1. SurfaceInv => SocketTypeOK
  BY DEF SurfaceInv, SocketInv
<1> QED BY <1>1, SurfaceInvInductive, PTL

\* No way to open a socket comes before the terminal that receives its replay,
\* and a terminal that was neither closed nor taken over is left without a
\* socket and without a timer only when its budget is used up
\* (terminalConnectionGate.ts, scheduleReconnect).
THEOREM TerminalKeepsItsSocket == SurfaceSpec => []SocketIsKept
<1>1. SurfaceInv => SocketIsKept
  BY DEF SurfaceInv, SocketInv, NothingEarly, SocketIsKept, ReceiverFirst
<1> QED BY <1>1, SurfaceInvInductive, PTL

\* What the page believes it declared on an open socket is what the server has,
\* or the panel watch has sent xterm's grid since, through every drop, retry,
\* takeover, hiding and resize (declareViewport, watch(activeMode)).
THEOREM DeclarationIsHeld == SurfaceSpec => []BelievedVoteHeld
<1>1. SurfaceInv => BelievedVoteHeld
  BY DEF SurfaceInv
<1> QED BY <1>1, SurfaceInvInductive, PTL

\* A surface drives its overlay only by the steps of the restore gate, so what
\* is proved of the gate holds of the terminal tab (CliTerminalSurface.vue).
THEOREM SurfaceDrivesGate == SurfaceSpec => RestoreSpec
<1>1. SurfaceInit => RestoreInit
  BY DEF SurfaceInit
<1>2. [SurfaceNext]_surfaceVars => [RestoreNext]_restoreVars
  <2> SUFFICES ASSUME [SurfaceNext]_surfaceVars PROVE [RestoreNext]_restoreVars
    OBVIOUS
  <2>1. CASE ReceiverAttached \/ SocketEvent \/ UserReconnects
    BY <2>1, WatchDrivesGate DEF ReceiverAttached, SocketEvent, UserReconnects
  <2>2. CASE Activate \/ PageShows
    BY <2>2, WatchDrivesGate DEF Activate, PageShows
  <2>3. CASE Frame
    BY <2>3 DEF Frame, RestoreNext, ControlFrame
  <2>4. CASE ScreenParses
    BY <2>4 DEF ScreenParses, RestoreNext
  <2>5. ASSUME NEW e \in 0 .. MaxEpoch, ScreenPaints(e) PROVE [RestoreNext]_restoreVars
    <3>1. e \in paints /\ Painted(e)
      BY <2>5 DEF ScreenPaints, Painted
    <3> QED BY <3>1 DEF RestoreNext
  <2>6. CASE Deactivate \/ PageHides \/ WindowBlur \/ WindowFocus \/ ContainerResizes
             \/ ReportResize \/ LadderFit \/ PanelChanges \/ Typing \/ Unmount \/ UNCHANGED surfaceVars
    BY <2>6 DEF Deactivate, PageHides, WindowBlur, WindowFocus, ContainerResizes, ReportResize,
       LadderFit, PanelChanges, Typing, Unmount, surfaceVars
  <2> QED BY <2>1, <2>2, <2>3, <2>4, <2>5, <2>6 DEF SurfaceNext
<1> QED BY <1>1, <1>2, PTL DEF SurfaceSpec, RestoreSpec

\* So a terminal tab never takes its overlay away before the restore of the
\* present connection is on the screen, or none is to come.
THEOREM SurfaceShownFirst == SurfaceSpec => []SettledMeansShown
BY SurfaceDrivesGate, RestoreShownFirst
-----------------------------------------------------------------------------
(***************************************************************************)
(* The screen while its tab is shown and hidden.                           *)
(*                                                                         *)
(* What a timer or a tick still has to do depends on what happened since   *)
(* it was made, so the invariant says of each what it may find: a tick of  *)
(* the mount no terminal, one of the watcher an active tab, a timer that   *)
(* reveals no tick before it.  A tab that is shown is laid out once no     *)
(* tick is outstanding, and what was parsed without a layout is still to   *)
(* be repainted: by a tick, by the timer or by a repaint that is queued.   *)
(***************************************************************************)
Wishes == {"none"} \cup XS!Kinds
Writes == {"data", "repaint", "late repaint"}

StoredTyped ==
  stored \in [query : Wishes, pin : Wishes, pref : Wishes] /\ wish \in Wishes
FlagsTyped ==
  /\ screenActive \in BOOLEAN /\ pageShown \in BOOLEAN /\ laidOut \in BOOLEAN
  /\ gpu \in BOOLEAN /\ denied \in BOOLEAN /\ release \in BOOLEAN
  /\ stale \in BOOLEAN /\ attached \in BOOLEAN
StagesTyped ==
  /\ term \in {"none", "made", "gone"} /\ rendererInUse \in XS!Kinds
  /\ tick \in {"none", "mount", "own", "old"} /\ reveal \in {"none", "own", "old"}
QueueTyped == screenQueue \in Seq(Writes)
GhostTyped == ghost \in [owed : BOOLEAN, timer : BOOLEAN, flying : BOOLEAN]
ScreenTyped == StoredTyped /\ FlagsTyped /\ StagesTyped /\ QueueTyped /\ GhostTyped

RepaintQueued == \E i \in 1 .. Len(screenQueue) : screenQueue[i] = "repaint"

\* What ticks and timers find.
TimersInOrder ==
  /\ tick = "mount" => screenActive /\ term = "none"
  /\ tick = "own" => screenActive /\ term # "gone"
  /\ tick = "old" => term = "gone"
  /\ reveal = "own" => screenActive /\ term # "gone"
  /\ reveal = "old" => term = "gone"
  /\ reveal # "none" => tick = "none"
  /\ screenActive /\ tick = "none" => laidOut

\* A terminal that is not there holds nothing.
NothingWithout ==
  /\ term = "none" => ~stale /\ screenQueue = <<>>
  /\ term = "gone" => ~gpu /\ ~release /\ ~attached

\* What a shown terminal lacks is under way.
RevealDue ==
  term = "made" /\ screenActive =>
    /\ rendererInUse = "webgl" => gpu \/ denied \/ tick = "own" \/ reveal = "own"
    /\ stale => tick # "none" \/ reveal = "own" \/ RepaintQueued

\* A link's wish has been read by the terminal that was made with it.
LinkRead == term = "made" /\ stored.query # "none" => stored.pin = stored.query

WishKept  == wish # "none" => XS!Resolved(XS!PinRead) = wish
HiddenLean == ~screenActive /\ ~release => ~gpu
RedrawDue ==
  ghost.owed /\ screenActive /\ pageShown /\ attached =>
    ghost.timer \/ ghost.flying \/ tick # "none"

ScreenInv ==
  /\ ScreenTyped /\ TimersInOrder /\ NothingWithout /\ RevealDue /\ LinkRead
  /\ WishKept /\ HiddenLean /\ RedrawDue

-----------------------------------------------------------------------------
(* The queue of writes.                                                    *)
LEMMA QueueGrows ==
  ASSUME QueueTyped, NEW w \in Writes, screenQueue' = Append(screenQueue, w)
  PROVE  QueueTyped' /\ ((RepaintQueued \/ w = "repaint") => RepaintQueued')
<1>1. /\ screenQueue \in Seq(Writes) /\ Len(screenQueue) \in Nat
      /\ Len(screenQueue') = Len(screenQueue) + 1 /\ screenQueue'[Len(screenQueue) + 1] = w
      /\ \A i \in 1 .. Len(screenQueue) : screenQueue'[i] = screenQueue[i]
  BY DEF QueueTyped
<1>2. RepaintQueued => RepaintQueued'
  BY <1>1 DEF RepaintQueued
<1>3. w = "repaint" => RepaintQueued'
  BY <1>1 DEF RepaintQueued
<1>4. QueueTyped'
  BY <1>1 DEF QueueTyped
<1>. QED
  BY <1>2, <1>3, <1>4

LEMMA QueueShrinks ==
  ASSUME QueueTyped, screenQueue # <<>>, screenQueue' = Tail(screenQueue)
  PROVE  /\ QueueTyped' /\ Head(screenQueue) \in Writes
         /\ RepaintQueued /\ Head(screenQueue) # "repaint" => RepaintQueued'
<1>1. /\ screenQueue \in Seq(Writes) /\ Len(screenQueue) \in Nat /\ screenQueue' \in Seq(Writes)
      /\ Len(screenQueue') = Len(screenQueue) - 1 /\ Head(screenQueue) = screenQueue[1]
      /\ \A i \in 1 .. Len(screenQueue') : screenQueue'[i] = screenQueue[i + 1]
      /\ Head(screenQueue) \in Writes
  BY DEF QueueTyped
<1>2. ASSUME NEW i \in 1 .. Len(screenQueue), screenQueue[i] = "repaint", screenQueue[1] # "repaint"
      PROVE  RepaintQueued'
  <2>1. i - 1 \in 1 .. Len(screenQueue') /\ screenQueue'[i - 1] = "repaint"
    BY <1>1, <1>2
  <2>. QED
    BY <2>1 DEF RepaintQueued
<1>. QED
  BY <1>1, <1>2 DEF RepaintQueued, QueueTyped

LEMMA QueueAges ==
  ASSUME QueueTyped, screenQueue' = XS!Aged(screenQueue)
  PROVE  QueueTyped' /\ (screenQueue = <<>> => screenQueue' = <<>>)
<1>1. screenQueue \in Seq(Writes) /\ DOMAIN screenQueue = 1 .. Len(screenQueue)
  BY DEF QueueTyped
<1>. DEFINE aged(i) == IF screenQueue[i] = "repaint" THEN "late repaint" ELSE screenQueue[i]
            n == Len(screenQueue)
<1>2. ASSUME NEW i \in 1 .. n
      PROVE  aged(i) \in Writes
  <2>1. screenQueue[i] \in Writes
    BY <1>1
  <2>. QED
    BY <2>1 DEF Writes
<1>3. screenQueue' = [i \in 1 .. n |-> aged(i)]
  BY <1>1 DEF XS!Aged
<1>4. n \in Nat /\ (screenQueue = <<>> => n = 0)
  BY <1>1
<1>. HIDE DEF n, aged
<1>5. screenQueue' \in [1 .. n -> Writes]
  BY <1>2, <1>3
<1>6. screenQueue' \in Seq(Writes) /\ (n = 0 => screenQueue' = <<>>)
  BY <1>4, <1>5
<1>. QED
  BY <1>6, <1>4 DEF QueueTyped

LEMMA ScreenBegins ==
  XS!ScreenInit => ScreenInv
<1>. SUFFICES ASSUME XS!ScreenInit
              PROVE  ScreenInv
  OBVIOUS
<1>1. StoredTyped /\ FlagsTyped /\ StagesTyped /\ GhostTyped /\ TimersInOrder /\ NothingWithout
  BY DEF XS!ScreenInit, StoredTyped, FlagsTyped, StagesTyped, GhostTyped, TimersInOrder,
     NothingWithout, Wishes, XS!Kinds, XS!Quiet
<1>2. QueueTyped
  BY DEF XS!ScreenInit, QueueTyped
<1>3. RevealDue /\ LinkRead /\ WishKept /\ HiddenLean /\ RedrawDue
  BY DEF XS!ScreenInit, RevealDue, LinkRead, WishKept, HiddenLean, RedrawDue, XS!Quiet
<1>. QED
  BY <1>1, <1>2, <1>3 DEF ScreenInv, ScreenTyped

LEMMA ShownKeeps ==
  ASSUME ScreenInv, XS!Shown
  PROVE  ScreenInv'
<1>1. FlagsTyped'
  BY DEF XS!Shown, ScreenInv, ScreenTyped, FlagsTyped
<1>2. StoredTyped' /\ StagesTyped'
  BY DEF XS!Shown, ScreenInv, ScreenTyped, StoredTyped, StagesTyped,
     Wishes, XS!Kinds, XS!PinRead
<1>3. GhostTyped'
  BY DEF XS!Shown, ScreenInv, ScreenTyped, FlagsTyped, GhostTyped
<1>4. QueueTyped'
  BY QueueAges DEF XS!Shown, ScreenInv, ScreenTyped, QueueTyped
<1>5. TimersInOrder' /\ NothingWithout' /\ RevealDue'
  BY QueueAges DEF XS!Shown, ScreenInv, ScreenTyped, FlagsTyped, StagesTyped,
     TimersInOrder, NothingWithout, RevealDue, RepaintQueued
<1>6. LinkRead' /\ WishKept' /\ HiddenLean' /\ RedrawDue'
  BY DEF XS!Shown, ScreenInv, ScreenTyped, StoredTyped, FlagsTyped, StagesTyped, GhostTyped,
     TimersInOrder, NothingWithout, LinkRead, WishKept, HiddenLean, RedrawDue, XS!Resolved,
     XS!PinRead
<1>. QED
  BY <1>1, <1>2, <1>3, <1>4, <1>5, <1>6 DEF ScreenInv, ScreenTyped

LEMMA HiddenKeeps ==
  ASSUME ScreenInv, XS!Hidden
  PROVE  ScreenInv'
<1>1. FlagsTyped'
  BY DEF XS!Hidden, ScreenInv, ScreenTyped, FlagsTyped
<1>2. StoredTyped' /\ StagesTyped'
  BY DEF XS!Hidden, ScreenInv, ScreenTyped, StoredTyped, StagesTyped,
     Wishes, XS!Kinds, XS!PinRead
<1>3. GhostTyped'
  BY DEF XS!Hidden, ScreenInv, ScreenTyped, FlagsTyped, GhostTyped
<1>4. QueueTyped'
  BY QueueAges DEF XS!Hidden, ScreenInv, ScreenTyped, QueueTyped
<1>5. TimersInOrder' /\ NothingWithout' /\ RevealDue'
  BY QueueAges DEF XS!Hidden, ScreenInv, ScreenTyped, FlagsTyped, StagesTyped,
     TimersInOrder, NothingWithout, RevealDue, RepaintQueued
<1>6. LinkRead' /\ WishKept' /\ HiddenLean' /\ RedrawDue'
  BY DEF XS!Hidden, ScreenInv, ScreenTyped, StoredTyped, FlagsTyped, StagesTyped, GhostTyped,
     TimersInOrder, NothingWithout, LinkRead, WishKept, HiddenLean, RedrawDue, XS!Resolved,
     XS!PinRead
<1>. QED
  BY <1>1, <1>2, <1>3, <1>4, <1>5, <1>6 DEF ScreenInv, ScreenTyped

LEMMA NextTickKeeps ==
  ASSUME ScreenInv, XS!NextTick
  PROVE  ScreenInv'
<1>1. FlagsTyped'
  BY DEF XS!NextTick, XS!Make, XS!Attach, XS!IfOwed, XS!Owing, ScreenInv, ScreenTyped, FlagsTyped
<1>2. StoredTyped' /\ StagesTyped'
  BY DEF XS!NextTick, XS!Make, XS!Attach, XS!IfOwed, XS!Owing, ScreenInv, ScreenTyped,
     StoredTyped, StagesTyped,
     Wishes, XS!Kinds, XS!PinRead
<1>3. GhostTyped'
  BY DEF XS!NextTick, XS!Make, XS!Attach, XS!IfOwed, XS!Owing, ScreenInv, ScreenTyped,
     FlagsTyped, GhostTyped
<1>4. QueueTyped'
  BY DEF XS!NextTick, ScreenInv, ScreenTyped, QueueTyped
<1>5. TimersInOrder' /\ NothingWithout' /\ RevealDue'
  BY DEF XS!NextTick, XS!Make, XS!Attach, XS!IfOwed, XS!Owing, ScreenInv, ScreenTyped,
     FlagsTyped, StagesTyped,
     TimersInOrder, NothingWithout, RevealDue, RepaintQueued
<1>6. LinkRead' /\ WishKept' /\ HiddenLean' /\ RedrawDue'
  BY DEF XS!NextTick, XS!Make, XS!Attach, XS!IfOwed, XS!Owing, ScreenInv, ScreenTyped,
     StoredTyped, FlagsTyped, StagesTyped, GhostTyped,
     TimersInOrder, NothingWithout, LinkRead, WishKept, HiddenLean, RedrawDue, XS!Resolved,
     XS!PinRead
<1>. QED
  BY <1>1, <1>2, <1>3, <1>4, <1>5, <1>6 DEF ScreenInv, ScreenTyped

LEMMA RevealTimerKeeps ==
  ASSUME ScreenInv, XS!RevealTimer
  PROVE  ScreenInv'
<1>1. FlagsTyped'
  BY DEF XS!RevealTimer, XS!Make, XS!Reacquire, XS!Attach, ScreenInv, ScreenTyped, FlagsTyped
<1>2. StoredTyped' /\ StagesTyped'
  BY DEF XS!RevealTimer, XS!Make, XS!Reacquire, XS!Attach, ScreenInv, ScreenTyped, StoredTyped,
     StagesTyped,
     Wishes, XS!Kinds, XS!PinRead
<1>3. GhostTyped'
  BY DEF XS!RevealTimer, XS!Make, XS!Reacquire, XS!Attach, ScreenInv, ScreenTyped, FlagsTyped,
     GhostTyped
<1>4. QueueTyped'
  BY QueueGrows DEF XS!RevealTimer, ScreenInv, ScreenTyped, QueueTyped, Writes
<1>5. TimersInOrder' /\ NothingWithout' /\ RevealDue'
  BY QueueGrows DEF XS!RevealTimer, XS!Make, XS!Reacquire, XS!Attach, ScreenInv, ScreenTyped,
     FlagsTyped, StagesTyped,
     TimersInOrder, NothingWithout, RevealDue, RepaintQueued
<1>6. LinkRead' /\ WishKept' /\ HiddenLean' /\ RedrawDue'
  BY DEF XS!RevealTimer, XS!Make, XS!Reacquire, XS!Attach, ScreenInv, ScreenTyped, StoredTyped,
     FlagsTyped, StagesTyped, GhostTyped,
     TimersInOrder, NothingWithout, LinkRead, WishKept, HiddenLean, RedrawDue, XS!Resolved,
     XS!PinRead
<1>. QED
  BY <1>1, <1>2, <1>3, <1>4, <1>5, <1>6 DEF ScreenInv, ScreenTyped

LEMMA ReleaseTimerKeeps ==
  ASSUME ScreenInv, XS!ReleaseTimer
  PROVE  ScreenInv'
<1>1. FlagsTyped'
  BY DEF XS!ReleaseTimer, ScreenInv, ScreenTyped, FlagsTyped
<1>2. StoredTyped' /\ StagesTyped'
  BY DEF XS!ReleaseTimer, ScreenInv, ScreenTyped, StoredTyped, StagesTyped,
     Wishes, XS!Kinds, XS!PinRead
<1>3. GhostTyped'
  BY DEF XS!ReleaseTimer, ScreenInv, ScreenTyped, FlagsTyped, GhostTyped
<1>4. QueueTyped'
  BY DEF XS!ReleaseTimer, ScreenInv, ScreenTyped, QueueTyped
<1>5. TimersInOrder' /\ NothingWithout' /\ RevealDue'
  BY DEF XS!ReleaseTimer, ScreenInv, ScreenTyped, FlagsTyped, StagesTyped,
     TimersInOrder, NothingWithout, RevealDue, RepaintQueued
<1>6. LinkRead' /\ WishKept' /\ HiddenLean' /\ RedrawDue'
  BY DEF XS!ReleaseTimer, ScreenInv, ScreenTyped, StoredTyped, FlagsTyped, StagesTyped,
     GhostTyped,
     TimersInOrder, NothingWithout, LinkRead, WishKept, HiddenLean, RedrawDue, XS!Resolved,
     XS!PinRead
<1>. QED
  BY <1>1, <1>2, <1>3, <1>4, <1>5, <1>6 DEF ScreenInv, ScreenTyped

LEMMA ContextLostKeeps ==
  ASSUME ScreenInv, XS!ContextLost
  PROVE  ScreenInv'
<1>1. FlagsTyped'
  BY DEF XS!ContextLost, ScreenInv, ScreenTyped, FlagsTyped
<1>2. StoredTyped' /\ StagesTyped'
  BY DEF XS!ContextLost, ScreenInv, ScreenTyped, StoredTyped, StagesTyped,
     Wishes, XS!Kinds, XS!PinRead
<1>3. GhostTyped'
  BY DEF XS!ContextLost, ScreenInv, ScreenTyped, FlagsTyped, GhostTyped
<1>4. QueueTyped'
  BY DEF XS!ContextLost, ScreenInv, ScreenTyped, QueueTyped
<1>5. TimersInOrder' /\ NothingWithout' /\ RevealDue'
  BY DEF XS!ContextLost, ScreenInv, ScreenTyped, FlagsTyped, StagesTyped,
     TimersInOrder, NothingWithout, RevealDue, RepaintQueued
<1>6. LinkRead' /\ WishKept' /\ HiddenLean' /\ RedrawDue'
  BY DEF XS!ContextLost, ScreenInv, ScreenTyped, StoredTyped, FlagsTyped, StagesTyped, GhostTyped,
     TimersInOrder, NothingWithout, LinkRead, WishKept, HiddenLean, RedrawDue, XS!Resolved,
     XS!PinRead
<1>. QED
  BY <1>1, <1>2, <1>3, <1>4, <1>5, <1>6 DEF ScreenInv, ScreenTyped

LEMMA WriteKeeps ==
  ASSUME ScreenInv, XS!Write
  PROVE  ScreenInv'
<1>1. FlagsTyped'
  BY DEF XS!Write, ScreenInv, ScreenTyped, FlagsTyped
<1>2. StoredTyped' /\ StagesTyped'
  BY DEF XS!Write, ScreenInv, ScreenTyped, StoredTyped, StagesTyped,
     Wishes, XS!Kinds, XS!PinRead
<1>3. GhostTyped'
  BY DEF XS!Write, ScreenInv, ScreenTyped, FlagsTyped, GhostTyped
<1>4. QueueTyped'
  BY QueueGrows DEF XS!Write, ScreenInv, ScreenTyped, QueueTyped, Writes
<1>5. TimersInOrder' /\ NothingWithout' /\ RevealDue'
  BY QueueGrows DEF XS!Write, ScreenInv, ScreenTyped, FlagsTyped, StagesTyped,
     TimersInOrder, NothingWithout, RevealDue, RepaintQueued
<1>6. LinkRead' /\ WishKept' /\ HiddenLean' /\ RedrawDue'
  BY DEF XS!Write, ScreenInv, ScreenTyped, StoredTyped, FlagsTyped, StagesTyped, GhostTyped,
     TimersInOrder, NothingWithout, LinkRead, WishKept, HiddenLean, RedrawDue, XS!Resolved,
     XS!PinRead
<1>. QED
  BY <1>1, <1>2, <1>3, <1>4, <1>5, <1>6 DEF ScreenInv, ScreenTyped

LEMMA ScreenParseKeeps ==
  ASSUME ScreenInv, XS!Parse
  PROVE  ScreenInv'
<1>1. FlagsTyped'
  BY DEF XS!Parse, ScreenInv, ScreenTyped, FlagsTyped
<1>2. StoredTyped' /\ StagesTyped'
  BY DEF XS!Parse, ScreenInv, ScreenTyped, StoredTyped, StagesTyped,
     Wishes, XS!Kinds, XS!PinRead
<1>3. GhostTyped'
  BY DEF XS!Parse, ScreenInv, ScreenTyped, FlagsTyped, GhostTyped
<1>4. QueueTyped'
  BY QueueShrinks DEF XS!Parse, ScreenInv, ScreenTyped, QueueTyped
<1>5. TimersInOrder' /\ NothingWithout' /\ RevealDue'
  BY QueueShrinks DEF XS!Parse, ScreenInv, ScreenTyped, FlagsTyped, StagesTyped,
     TimersInOrder, NothingWithout, RevealDue, RepaintQueued
<1>6. LinkRead' /\ WishKept' /\ HiddenLean' /\ RedrawDue'
  BY DEF XS!Parse, ScreenInv, ScreenTyped, StoredTyped, FlagsTyped, StagesTyped, GhostTyped,
     TimersInOrder, NothingWithout, LinkRead, WishKept, HiddenLean, RedrawDue, XS!Resolved,
     XS!PinRead
<1>. QED
  BY <1>1, <1>2, <1>3, <1>4, <1>5, <1>6 DEF ScreenInv, ScreenTyped

LEMMA UnmountKeeps ==
  ASSUME ScreenInv, XS!Unmount
  PROVE  ScreenInv'
<1>1. FlagsTyped'
  BY DEF XS!Unmount, ScreenInv, ScreenTyped, FlagsTyped
<1>2. StoredTyped' /\ StagesTyped'
  BY DEF XS!Unmount, ScreenInv, ScreenTyped, StoredTyped, StagesTyped,
     Wishes, XS!Kinds, XS!PinRead
<1>3. GhostTyped'
  BY DEF XS!Unmount, ScreenInv, ScreenTyped, FlagsTyped, GhostTyped
<1>4. QueueTyped'
  BY DEF XS!Unmount, ScreenInv, ScreenTyped, QueueTyped
<1>5. TimersInOrder' /\ NothingWithout' /\ RevealDue'
  BY DEF XS!Unmount, ScreenInv, ScreenTyped, FlagsTyped, StagesTyped,
     TimersInOrder, NothingWithout, RevealDue, RepaintQueued
<1>6. LinkRead' /\ WishKept' /\ HiddenLean' /\ RedrawDue'
  BY DEF XS!Unmount, ScreenInv, ScreenTyped, StoredTyped, FlagsTyped, StagesTyped, GhostTyped,
     TimersInOrder, NothingWithout, LinkRead, WishKept, HiddenLean, RedrawDue, XS!Resolved,
     XS!PinRead
<1>. QED
  BY <1>1, <1>2, <1>3, <1>4, <1>5, <1>6 DEF ScreenInv, ScreenTyped

LEMMA PageVisibilityKeeps ==
  ASSUME ScreenInv, XS!PageVisibility
  PROVE  ScreenInv'
<1>1. FlagsTyped'
  BY DEF XS!PageVisibility, XS!IfOwed, XS!Owing, ScreenInv, ScreenTyped, FlagsTyped
<1>2. StoredTyped' /\ StagesTyped'
  BY DEF XS!PageVisibility, XS!IfOwed, XS!Owing, ScreenInv, ScreenTyped, StoredTyped, StagesTyped,
     Wishes, XS!Kinds, XS!PinRead
<1>3. GhostTyped'
  BY DEF XS!PageVisibility, XS!IfOwed, XS!Owing, ScreenInv, ScreenTyped, FlagsTyped, GhostTyped
<1>4. QueueTyped'
  BY DEF XS!PageVisibility, ScreenInv, ScreenTyped, QueueTyped
<1>5. TimersInOrder' /\ NothingWithout' /\ RevealDue'
  BY DEF XS!PageVisibility, XS!IfOwed, XS!Owing, ScreenInv, ScreenTyped, FlagsTyped, StagesTyped,
     TimersInOrder, NothingWithout, RevealDue, RepaintQueued
<1>6. LinkRead' /\ WishKept' /\ HiddenLean' /\ RedrawDue'
  BY DEF XS!PageVisibility, XS!IfOwed, XS!Owing, ScreenInv, ScreenTyped, StoredTyped,
     FlagsTyped, StagesTyped, GhostTyped,
     TimersInOrder, NothingWithout, LinkRead, WishKept, HiddenLean, RedrawDue, XS!Resolved,
     XS!PinRead
<1>. QED
  BY <1>1, <1>2, <1>3, <1>4, <1>5, <1>6 DEF ScreenInv, ScreenTyped

LEMMA AttachTmuxKeeps ==
  ASSUME ScreenInv, XS!AttachTmux
  PROVE  ScreenInv'
<1>1. FlagsTyped'
  BY DEF XS!AttachTmux, XS!Owing, ScreenInv, ScreenTyped, FlagsTyped
<1>2. StoredTyped' /\ StagesTyped'
  BY DEF XS!AttachTmux, XS!Owing, ScreenInv, ScreenTyped, StoredTyped, StagesTyped,
     Wishes, XS!Kinds, XS!PinRead
<1>3. GhostTyped'
  BY DEF XS!AttachTmux, XS!Owing, ScreenInv, ScreenTyped, FlagsTyped, GhostTyped
<1>4. QueueTyped'
  BY DEF XS!AttachTmux, ScreenInv, ScreenTyped, QueueTyped
<1>5. TimersInOrder' /\ NothingWithout' /\ RevealDue'
  BY DEF XS!AttachTmux, XS!Owing, ScreenInv, ScreenTyped, FlagsTyped, StagesTyped,
     TimersInOrder, NothingWithout, RevealDue, RepaintQueued
<1>6. LinkRead' /\ WishKept' /\ HiddenLean' /\ RedrawDue'
  BY DEF XS!AttachTmux, XS!Owing, ScreenInv, ScreenTyped, StoredTyped, FlagsTyped, StagesTyped,
     GhostTyped,
     TimersInOrder, NothingWithout, LinkRead, WishKept, HiddenLean, RedrawDue, XS!Resolved,
     XS!PinRead
<1>. QED
  BY <1>1, <1>2, <1>3, <1>4, <1>5, <1>6 DEF ScreenInv, ScreenTyped

LEMMA DrawerSettlesKeeps ==
  ASSUME ScreenInv, XS!DrawerSettles
  PROVE  ScreenInv'
<1>1. FlagsTyped'
  BY DEF XS!DrawerSettles, XS!Owing, ScreenInv, ScreenTyped, FlagsTyped
<1>2. StoredTyped' /\ StagesTyped'
  BY DEF XS!DrawerSettles, XS!Owing, ScreenInv, ScreenTyped, StoredTyped, StagesTyped,
     Wishes, XS!Kinds, XS!PinRead
<1>3. GhostTyped'
  BY DEF XS!DrawerSettles, XS!Owing, ScreenInv, ScreenTyped, FlagsTyped, GhostTyped
<1>4. QueueTyped'
  BY DEF XS!DrawerSettles, ScreenInv, ScreenTyped, QueueTyped
<1>5. TimersInOrder' /\ NothingWithout' /\ RevealDue'
  BY DEF XS!DrawerSettles, XS!Owing, ScreenInv, ScreenTyped, FlagsTyped, StagesTyped,
     TimersInOrder, NothingWithout, RevealDue, RepaintQueued
<1>6. LinkRead' /\ WishKept' /\ HiddenLean' /\ RedrawDue'
  BY DEF XS!DrawerSettles, XS!Owing, ScreenInv, ScreenTyped, StoredTyped, FlagsTyped,
     StagesTyped, GhostTyped,
     TimersInOrder, NothingWithout, LinkRead, WishKept, HiddenLean, RedrawDue, XS!Resolved,
     XS!PinRead
<1>. QED
  BY <1>1, <1>2, <1>3, <1>4, <1>5, <1>6 DEF ScreenInv, ScreenTyped

LEMMA GhostTimerKeeps ==
  ASSUME ScreenInv, XS!GhostTimer
  PROVE  ScreenInv'
<1>1. FlagsTyped'
  BY DEF XS!GhostTimer, XS!Viewer, ScreenInv, ScreenTyped, FlagsTyped
<1>2. StoredTyped' /\ StagesTyped'
  BY DEF XS!GhostTimer, XS!Viewer, ScreenInv, ScreenTyped, StoredTyped, StagesTyped,
     Wishes, XS!Kinds, XS!PinRead
<1>3. GhostTyped'
  BY DEF XS!GhostTimer, XS!Viewer, ScreenInv, ScreenTyped, FlagsTyped, GhostTyped
<1>4. QueueTyped'
  BY DEF XS!GhostTimer, ScreenInv, ScreenTyped, QueueTyped
<1>5. TimersInOrder' /\ NothingWithout' /\ RevealDue'
  BY DEF XS!GhostTimer, XS!Viewer, ScreenInv, ScreenTyped, FlagsTyped, StagesTyped,
     TimersInOrder, NothingWithout, RevealDue, RepaintQueued
<1>6. LinkRead' /\ WishKept' /\ HiddenLean' /\ RedrawDue'
  BY DEF XS!GhostTimer, XS!Viewer, ScreenInv, ScreenTyped, StoredTyped, FlagsTyped, StagesTyped,
     GhostTyped,
     TimersInOrder, NothingWithout, LinkRead, WishKept, HiddenLean, RedrawDue, XS!Resolved,
     XS!PinRead
<1>. QED
  BY <1>1, <1>2, <1>3, <1>4, <1>5, <1>6 DEF ScreenInv, ScreenTyped

LEMMA GhostDoneKeeps ==
  ASSUME ScreenInv, XS!GhostDone
  PROVE  ScreenInv'
<1>1. FlagsTyped'
  BY DEF XS!GhostDone, XS!Viewer, ScreenInv, ScreenTyped, FlagsTyped
<1>2. StoredTyped' /\ StagesTyped'
  BY DEF XS!GhostDone, XS!Viewer, ScreenInv, ScreenTyped, StoredTyped, StagesTyped,
     Wishes, XS!Kinds, XS!PinRead
<1>3. GhostTyped'
  BY DEF XS!GhostDone, XS!Viewer, ScreenInv, ScreenTyped, FlagsTyped, GhostTyped
<1>4. QueueTyped'
  BY DEF XS!GhostDone, ScreenInv, ScreenTyped, QueueTyped
<1>5. TimersInOrder' /\ NothingWithout' /\ RevealDue'
  BY DEF XS!GhostDone, XS!Viewer, ScreenInv, ScreenTyped, FlagsTyped, StagesTyped,
     TimersInOrder, NothingWithout, RevealDue, RepaintQueued
<1>6. LinkRead' /\ WishKept' /\ HiddenLean' /\ RedrawDue'
  BY DEF XS!GhostDone, XS!Viewer, ScreenInv, ScreenTyped, StoredTyped, FlagsTyped, StagesTyped,
     GhostTyped,
     TimersInOrder, NothingWithout, LinkRead, WishKept, HiddenLean, RedrawDue, XS!Resolved,
     XS!PinRead
<1>. QED
  BY <1>1, <1>2, <1>3, <1>4, <1>5, <1>6 DEF ScreenInv, ScreenTyped

LEMMA NavigateKeeps ==
  ASSUME ScreenInv, XS!Navigate
  PROVE  ScreenInv'
<1>1. FlagsTyped'
  BY DEF XS!Navigate, ScreenInv, ScreenTyped, FlagsTyped
<1>2. StoredTyped' /\ StagesTyped'
  BY DEF XS!Navigate, ScreenInv, ScreenTyped, StoredTyped, StagesTyped,
     Wishes, XS!Kinds, XS!PinRead
<1>3. GhostTyped'
  BY DEF XS!Navigate, ScreenInv, ScreenTyped, FlagsTyped, GhostTyped
<1>4. QueueTyped'
  BY DEF XS!Navigate, ScreenInv, ScreenTyped, QueueTyped
<1>5. TimersInOrder' /\ NothingWithout' /\ RevealDue'
  BY DEF XS!Navigate, ScreenInv, ScreenTyped, FlagsTyped, StagesTyped,
     TimersInOrder, NothingWithout, RevealDue, RepaintQueued
<1>6. LinkRead' /\ WishKept' /\ HiddenLean' /\ RedrawDue'
  BY DEF XS!Navigate, ScreenInv, ScreenTyped, StoredTyped, FlagsTyped, StagesTyped, GhostTyped,
     TimersInOrder, NothingWithout, LinkRead, WishKept, HiddenLean, RedrawDue, XS!Resolved,
     XS!PinRead
<1>. QED
  BY <1>1, <1>2, <1>3, <1>4, <1>5, <1>6 DEF ScreenInv, ScreenTyped

LEMMA ChooseKeeps ==
  ASSUME ScreenInv, NEW k \in XS!Kinds, XS!Choose(k)
  PROVE  ScreenInv'
<1>1. FlagsTyped'
  BY DEF XS!Choose, XS!ForgetLink, ScreenInv, ScreenTyped, FlagsTyped
<1>2. StoredTyped' /\ StagesTyped'
  BY DEF XS!Choose, XS!ForgetLink, ScreenInv, ScreenTyped, StoredTyped, StagesTyped,
     Wishes, XS!Kinds, XS!PinRead
<1>3. GhostTyped'
  BY DEF XS!Choose, XS!ForgetLink, ScreenInv, ScreenTyped, FlagsTyped, GhostTyped
<1>4. QueueTyped'
  BY DEF XS!Choose, ScreenInv, ScreenTyped, QueueTyped
<1>5. TimersInOrder' /\ NothingWithout' /\ RevealDue'
  BY DEF XS!Choose, XS!ForgetLink, ScreenInv, ScreenTyped, FlagsTyped, StagesTyped,
     TimersInOrder, NothingWithout, RevealDue, RepaintQueued
<1>6. LinkRead' /\ WishKept' /\ HiddenLean' /\ RedrawDue'
  BY DEF XS!Choose, XS!ForgetLink, ScreenInv, ScreenTyped, StoredTyped, FlagsTyped, StagesTyped,
     GhostTyped,
     TimersInOrder, NothingWithout, LinkRead, WishKept, HiddenLean, RedrawDue, XS!Resolved,
     XS!PinRead
<1>. QED
  BY <1>1, <1>2, <1>3, <1>4, <1>5, <1>6 DEF ScreenInv, ScreenTyped

LEMMA LoadPageKeeps ==
  ASSUME ScreenInv, NEW q \in Wishes, XS!LoadPage(q)
  PROVE  ScreenInv'
<1>1. FlagsTyped'
  BY DEF XS!LoadPage, XS!Quiet, ScreenInv, ScreenTyped, FlagsTyped
<1>2. StoredTyped' /\ StagesTyped'
  BY DEF XS!LoadPage, XS!Quiet, ScreenInv, ScreenTyped, StoredTyped, StagesTyped,
     Wishes, XS!Kinds, XS!PinRead
<1>3. GhostTyped'
  BY DEF XS!LoadPage, XS!Quiet, ScreenInv, ScreenTyped, FlagsTyped, GhostTyped
<1>4. QueueTyped'
  BY DEF XS!LoadPage, ScreenInv, ScreenTyped, QueueTyped
<1>5. TimersInOrder' /\ NothingWithout' /\ RevealDue'
  BY DEF XS!LoadPage, XS!Quiet, ScreenInv, ScreenTyped, FlagsTyped, StagesTyped,
     TimersInOrder, NothingWithout, RevealDue, RepaintQueued
<1>6. LinkRead' /\ WishKept' /\ HiddenLean' /\ RedrawDue'
  BY DEF XS!LoadPage, XS!Quiet, ScreenInv, ScreenTyped, StoredTyped, FlagsTyped, StagesTyped,
     GhostTyped,
     TimersInOrder, NothingWithout, LinkRead, WishKept, HiddenLean, RedrawDue, XS!Resolved,
     XS!PinRead
<1>. QED
  BY <1>1, <1>2, <1>3, <1>4, <1>5, <1>6 DEF ScreenInv, ScreenTyped

LEMMA ScreenStepKeeps ==
  ASSUME ScreenInv, XS!ScreenNext
  PROVE  ScreenInv'
<1>1. CASE XS!Shown \/ XS!Hidden \/ XS!NextTick \/ XS!RevealTimer \/ XS!ReleaseTimer
  BY <1>1, ShownKeeps, HiddenKeeps, NextTickKeeps, RevealTimerKeeps, ReleaseTimerKeeps
<1>2. CASE XS!ContextLost \/ XS!Write \/ XS!Parse \/ XS!Unmount \/ XS!PageVisibility
  BY <1>2, ContextLostKeeps, WriteKeeps, ScreenParseKeeps, UnmountKeeps, PageVisibilityKeeps
<1>3. CASE \/ XS!AttachTmux \/ XS!DrawerSettles \/ XS!GhostTimer \/ XS!GhostDone
           \/ XS!Navigate
  BY <1>3, AttachTmuxKeeps, DrawerSettlesKeeps, GhostTimerKeeps, GhostDoneKeeps, NavigateKeeps
<1>4. ASSUME NEW k \in XS!Kinds, XS!Choose(k)
      PROVE  ScreenInv'
  BY <1>4, ChooseKeeps
<1>5. ASSUME NEW q \in Wishes, XS!LoadPage(q)
      PROVE  ScreenInv'
  BY <1>5, LoadPageKeeps
<1>. QED
  BY <1>1, <1>2, <1>3, <1>4, <1>5 DEF XS!ScreenNext, Wishes

LEMMA ScreenStays ==
  ASSUME ScreenInv, UNCHANGED xsVars
  PROVE  ScreenInv'
<1>1. ScreenTyped'
  BY DEF xsVars, ScreenInv, ScreenTyped, StoredTyped, FlagsTyped, StagesTyped, QueueTyped,
     GhostTyped
<1>2. TimersInOrder' /\ NothingWithout' /\ RevealDue'
  BY DEF xsVars, ScreenInv, TimersInOrder, NothingWithout, RevealDue, RepaintQueued
<1>3. LinkRead' /\ WishKept' /\ HiddenLean' /\ RedrawDue'
  BY DEF xsVars, ScreenInv, LinkRead, WishKept, HiddenLean, RedrawDue, XS!Resolved, XS!PinRead
<1>. QED
  BY <1>1, <1>2, <1>3 DEF ScreenInv

LEMMA ScreenIsRight ==
  ScreenInv => XS!ScreenIsCurrent
<1>. SUFFICES ASSUME ScreenInv
              PROVE  XS!ScreenIsCurrent
  OBVIOUS
<1>1. screenQueue = <<>> => ~RepaintQueued
  BY DEF RepaintQueued
<1>. QED
  BY <1>1 DEF ScreenInv, TimersInOrder, NothingWithout, RevealDue, WishKept, HiddenLean, RedrawDue,
     XS!ScreenIsCurrent, XS!Viewer

-----------------------------------------------------------------------------
(***************************************************************************)
(* What a terminal measures of itself, and the events that wait.           *)
(*                                                                         *)
(* A wait that began in the present epoch of visibility has seen the page  *)
(* hidden only if it still is (Honest); that makes the check of the epoch  *)
(* at the end of a wait enough.  Events that a request carries go before   *)
(* those that wait, without a hole, unless those that wait fill the buffer *)
(* by themselves: then what comes back is what is trimmed.                 *)
(***************************************************************************)
Echoes  == [conn : Nat, epoch : Nat, dark : BOOLEAN]
Awaited == [token : Nat, epoch : Nat, laidOut : BOOLEAN, dark : BOOLEAN]
Honest(r) == r.epoch <= tab.epoch /\ (r.epoch = tab.epoch /\ r.dark => tab.hidden)

EchoTyped ==
  /\ tab \in [hidden : BOOLEAN, epoch : Nat, laidOut : BOOLEAN]
  /\ link \in [up : BOOLEAN, conn : Nat] /\ pendingEcho \in Echoes
  /\ \A t \in DOMAIN echoes : echoes[t] \in Echoes
  /\ nextToken \in Nat /\ queued \in Seq(Awaited) /\ renders \subseteq Awaited
  /\ chip \in BOOLEAN

\* A wait for an echo is of the connection there is.
WaitsHonest ==
  /\ pendingEcho # DG!NoSend =>
       link.up /\ pendingEcho.conn = link.conn /\ Honest(pendingEcho)
  /\ \A t \in DOMAIN echoes : link.up /\ echoes[t].conn = link.conn /\ Honest(echoes[t])
  /\ \A i \in 1 .. Len(queued) : Honest(queued[i])
  /\ \A r \in renders : Honest(r)

EchoInv == EchoTyped /\ WaitsHonest /\ DG!MeasuresAreHonest

EventsTyped ==
  /\ buf \in Seq(Nat) /\ lastEvent \in Nat /\ lostUpTo \in Nat
  /\ flush \in [on : BOOLEAN, batch : Seq(Nat)]

\* The events that wait are the newest ones.
WaitingFollow ==
  /\ \A i \in 1 .. Len(buf) : buf[i] = lastEvent - (Len(buf) - i)
  /\ lostUpTo <= lastEvent - Len(buf) /\ Len(buf) <= MaxBuffer + 1

\* Those of the request are older, and join them or will be trimmed.
BatchFollows ==
  flush.on =>
    /\ Len(buf) <= MaxBuffer /\ Len(flush.batch) > 0
    /\ \A i \in 1 .. Len(flush.batch) : flush.batch[i] <= lastEvent - Len(buf)
    /\ \/ Len(buf) = MaxBuffer
       \/ /\ \A i \in 1 .. Len(flush.batch) :
               flush.batch[i] = lastEvent - Len(buf) - (Len(flush.batch) - i)
          /\ lostUpTo <= lastEvent - Len(buf) - Len(flush.batch)

EventInv == EventsTyped /\ WaitingFollow /\ BatchFollows

-----------------------------------------------------------------------------
LEMMA MeasuringBegins ==
  ASSUME DG!DgInit, MaxBuffer \in Nat
  PROVE  EchoInv /\ EventInv
<1>1. EchoTyped
  <2>1. /\ tab = [hidden |-> FALSE, epoch |-> 0, laidOut |-> TRUE]
        /\ link = [up |-> FALSE, conn |-> 0] /\ chip = FALSE
        /\ pendingEcho = [conn |-> 0, epoch |-> 0, dark |-> FALSE]
        /\ echoes = <<>> /\ queued = <<>> /\ nextToken = 1 /\ renders = {}
    BY DEF DG!DgInit, DG!NoSend
  <2>2. DOMAIN echoes = {}
    BY <2>1
  <2>3. queued \in Seq(Awaited) /\ renders \subseteq Awaited /\ nextToken \in Nat
    BY <2>1
  <2>4. tab \in [hidden : BOOLEAN, epoch : Nat, laidOut : BOOLEAN]
    BY <2>1
  <2>5. link \in [up : BOOLEAN, conn : Nat] /\ chip \in BOOLEAN
    BY <2>1
  <2>6. pendingEcho \in Echoes
    BY <2>1 DEF Echoes
  <2>. QED
    BY <2>2, <2>3, <2>4, <2>5, <2>6 DEF EchoTyped
<1>2. WaitsHonest /\ DG!MeasuresAreHonest
  BY DEF DG!DgInit, WaitsHonest, DG!MeasuresAreHonest
<1>3. Len(buf) = 0 /\ buf \in Seq(Nat) /\ flush \in [on : BOOLEAN, batch : Seq(Nat)]
  BY DEF DG!DgInit, DG!Idle
<1>4. EventInv
  BY <1>3 DEF DG!DgInit, DG!Idle, EventInv, EventsTyped, WaitingFollow, BatchFollows
<1>. QED
  BY <1>1, <1>2, <1>4 DEF EchoInv

LEMMA VisibilityChangeKeeps ==
  ASSUME EchoInv, DG!VisibilityChange
  PROVE  EchoInv'
<1>1. /\ tab' = [tab EXCEPT !.hidden = ~@, !.epoch = @ + 1]
      /\ pendingEcho' = IF pendingEcho = DG!NoSend THEN DG!NoSend
                        ELSE [pendingEcho EXCEPT !.dark = TRUE]
      /\ echoes' = [t \in DOMAIN echoes |-> [echoes[t] EXCEPT !.dark = TRUE]]
      /\ queued' = [i \in DOMAIN queued |-> [queued[i] EXCEPT !.dark = TRUE]]
      /\ renders' = {[r EXCEPT !.dark = TRUE] : r \in renders}
      /\ UNCHANGED <<link, nextToken, samples, chip, frames>>
  BY DEF DG!VisibilityChange
<1>2. EchoTyped /\ WaitsHonest /\ DG!MeasuresAreHonest
  BY DEF EchoInv
<1>3. /\ tab' \in [hidden : BOOLEAN, epoch : Nat, laidOut : BOOLEAN]
      /\ tab'.epoch = tab.epoch + 1 /\ tab.epoch \in Nat
  <2>1. tab \in [hidden : BOOLEAN, epoch : Nat, laidOut : BOOLEAN]
    BY <1>2 DEF EchoTyped
  <2>2. tab' = [hidden |-> ~tab.hidden, epoch |-> tab.epoch + 1, laidOut |-> tab.laidOut]
    BY <1>1, <2>1
  <2>3. tab.epoch \in Nat /\ tab.laidOut \in BOOLEAN /\ (~tab.hidden) \in BOOLEAN
    BY <2>1
  <2>. QED
    BY <2>2, <2>3
<1>4. \A r : r.epoch \in Nat /\ r.epoch <= tab.epoch =>
        r.epoch <= tab'.epoch /\ r.epoch # tab'.epoch
  BY <1>3
<1>5. \A r \in Echoes : /\ [r EXCEPT !.dark = TRUE] \in Echoes
                        /\ [r EXCEPT !.dark = TRUE].epoch = r.epoch
                        /\ [r EXCEPT !.dark = TRUE].conn = r.conn
  BY DEF Echoes
<1>6. \A r \in Awaited : /\ [r EXCEPT !.dark = TRUE] \in Awaited
                         /\ [r EXCEPT !.dark = TRUE].epoch = r.epoch
  BY DEF Awaited
<1>7. /\ DOMAIN queued = 1 .. Len(queued) /\ Len(queued) \in Nat
      /\ \A i \in 1 .. Len(queued) : queued[i] \in Awaited /\ queued[i].epoch \in Nat
      /\ \A r \in renders : r \in Awaited /\ r.epoch \in Nat
      /\ \A t \in DOMAIN echoes : echoes[t] \in Echoes /\ echoes[t].epoch \in Nat
      /\ pendingEcho \in Echoes /\ pendingEcho.epoch \in Nat
  <2>1. /\ queued \in Seq(Awaited) /\ renders \subseteq Awaited /\ pendingEcho \in Echoes
        /\ \A t \in DOMAIN echoes : echoes[t] \in Echoes
    BY <1>2 DEF EchoTyped
  <2>2. \A r \in Awaited : r.epoch \in Nat
    BY DEF Awaited
  <2>3. \A r \in Echoes : r.epoch \in Nat
    BY DEF Echoes
  <2>4. DOMAIN queued = 1 .. Len(queued) /\ Len(queued) \in Nat
    BY <2>1
  <2>5. \A i \in 1 .. Len(queued) : queued[i] \in Awaited
    BY <2>1
  <2>. QED
    BY <2>1, <2>2, <2>3, <2>4, <2>5
<1>8. queued' \in [1 .. Len(queued) -> Awaited]
  BY <1>1, <1>6, <1>7
<1>9. queued' \in Seq(Awaited) /\ Len(queued') = Len(queued)
  BY <1>7, <1>8
<1>10. DG!NoSend \in Echoes
  BY DEF DG!NoSend, Echoes
<1>11. EchoTyped'
  BY <1>1, <1>2, <1>3, <1>5, <1>6, <1>7, <1>9, <1>10 DEF EchoTyped
<1>12. pendingEcho' # DG!NoSend =>
         link'.up /\ pendingEcho'.conn = link'.conn /\ Honest(pendingEcho)'
  BY <1>1, <1>2, <1>4, <1>5, <1>7 DEF WaitsHonest, Honest
<1>13. \A t \in DOMAIN echoes' : link'.up /\ echoes'[t].conn = link'.conn /\ Honest(echoes[t])'
  <2>1. SUFFICES ASSUME NEW t \in DOMAIN echoes
                 PROVE  /\ link'.up /\ echoes'[t].conn = link'.conn
                        /\ Honest([echoes[t] EXCEPT !.dark = TRUE])'
    BY <1>1
  <2>2. /\ link.up /\ echoes[t].conn = link.conn /\ echoes[t].epoch <= tab.epoch
        /\ echoes[t] \in Echoes /\ echoes[t].epoch \in Nat
    BY <1>2, <1>7 DEF WaitsHonest, Honest
  <2>3. /\ [echoes[t] EXCEPT !.dark = TRUE].epoch = echoes[t].epoch
        /\ echoes'[t].conn = echoes[t].conn
    BY <1>1, <1>5, <2>2
  <2>. QED
    BY <1>1, <1>4, <2>2, <2>3 DEF Honest
<1>14. \A i \in 1 .. Len(queued') : Honest(queued[i])'
  BY <1>1, <1>2, <1>4, <1>6, <1>7, <1>9 DEF WaitsHonest, Honest
<1>15. \A r \in renders' : Honest(r)'
  <2>1. SUFFICES ASSUME NEW r \in renders PROVE Honest([r EXCEPT !.dark = TRUE])'
    BY <1>1
  <2>2. r \in Awaited /\ r.epoch \in Nat /\ r.epoch <= tab.epoch
    BY <1>2, <1>7 DEF WaitsHonest, Honest
  <2>3. [r EXCEPT !.dark = TRUE].epoch = r.epoch
    BY <1>6, <2>2
  <2>. QED
    BY <1>4, <2>2, <2>3 DEF Honest
<1>16. DG!MeasuresAreHonest'
  BY <1>1, <1>2 DEF DG!MeasuresAreHonest
<1>. QED
  BY <1>11, <1>12, <1>13, <1>14, <1>15, <1>16 DEF EchoInv, WaitsHonest

LEMMA ConnectedKeeps ==
  ASSUME EchoInv, DG!Connected
  PROVE  EchoInv'
<1>1. /\ ~link.up /\ link' = [up |-> TRUE, conn |-> link.conn + 1]
      /\ UNCHANGED <<tab, pendingEcho, echoes, nextToken, queued, renders, samples, chip, frames>>
  BY DEF DG!Connected
<1>2. EchoTyped /\ WaitsHonest /\ DG!MeasuresAreHonest
  BY DEF EchoInv
<1>3. link' \in [up : BOOLEAN, conn : Nat]
  BY <1>1, <1>2 DEF EchoTyped
<1>4. pendingEcho = DG!NoSend /\ DOMAIN echoes = {} /\ samples = {} /\ ~chip
  BY <1>1, <1>2 DEF WaitsHonest, DG!MeasuresAreHonest
<1>5. EchoTyped'
  BY <1>1, <1>2, <1>3 DEF EchoTyped
<1>6. WaitsHonest'
  BY <1>1, <1>2, <1>4 DEF WaitsHonest, Honest, DG!NoSend
<1>7. DG!MeasuresAreHonest'
  BY <1>1, <1>2, <1>4 DEF DG!MeasuresAreHonest
<1>. QED
  BY <1>5, <1>6, <1>7 DEF EchoInv

LEMMA DisconnectedKeeps ==
  ASSUME EchoInv, DG!Disconnected
  PROVE  EchoInv'
<1>1. /\ link' = [link EXCEPT !.up = FALSE] /\ pendingEcho' = DG!NoSend /\ echoes' = <<>>
      /\ samples' = {} /\ chip' = FALSE
      /\ UNCHANGED <<tab, nextToken, queued, renders, frames>>
  BY DEF DG!Disconnected, DG!Reset
<1>2. EchoTyped /\ WaitsHonest /\ DG!MeasuresAreHonest
  BY DEF EchoInv
<1>3. link' \in [up : BOOLEAN, conn : Nat]
  BY <1>1, <1>2 DEF EchoTyped
<1>4. DOMAIN echoes' = {}
  BY <1>1
<1>5. DG!NoSend \in Echoes
  BY DEF DG!NoSend, Echoes
<1>6. EchoTyped'
  BY <1>1, <1>2, <1>3, <1>4, <1>5 DEF EchoTyped
<1>7. WaitsHonest'
  BY <1>1, <1>2, <1>4 DEF WaitsHonest, Honest, DG!NoSend
<1>8. DG!MeasuresAreHonest'
  BY <1>1, <1>2 DEF DG!MeasuresAreHonest
<1>. QED
  BY <1>6, <1>7, <1>8 DEF EchoInv

LEMMA LayoutKeeps ==
  ASSUME EchoInv, DG!Layout
  PROVE  EchoInv'
<1>1. /\ tab' = [tab EXCEPT !.laidOut = ~@]
      /\ UNCHANGED <<link, pendingEcho, echoes, nextToken, queued, renders, samples, chip, frames>>
  BY DEF DG!Layout
<1>2. EchoTyped /\ WaitsHonest /\ DG!MeasuresAreHonest
  BY DEF EchoInv
<1>3. /\ tab' \in [hidden : BOOLEAN, epoch : Nat, laidOut : BOOLEAN]
      /\ tab'.hidden = tab.hidden /\ tab'.epoch = tab.epoch
  <2>1. tab \in [hidden : BOOLEAN, epoch : Nat, laidOut : BOOLEAN]
    BY <1>2 DEF EchoTyped
  <2>2. tab' = [hidden |-> tab.hidden, epoch |-> tab.epoch, laidOut |-> ~tab.laidOut]
    BY <1>1, <2>1
  <2>3. tab.epoch \in Nat /\ tab.hidden \in BOOLEAN /\ (~tab.laidOut) \in BOOLEAN
    BY <2>1
  <2>. QED
    BY <2>2, <2>3
<1>4. EchoTyped'
  BY <1>1, <1>2, <1>3 DEF EchoTyped
<1>5. WaitsHonest'
  BY <1>1, <1>2, <1>3 DEF WaitsHonest, Honest
<1>6. DG!MeasuresAreHonest'
  BY <1>1, <1>2 DEF DG!MeasuresAreHonest
<1>. QED
  BY <1>4, <1>5, <1>6 DEF EchoInv

LEMMA SendKeeps ==
  ASSUME EchoInv, NEW late \in BOOLEAN, DG!Send(late)
  PROVE  EchoInv'
<1>1. /\ link.up
      /\ \/ pendingEcho' = pendingEcho
         \/ pendingEcho' = [conn |-> link.conn, epoch |-> tab.epoch, dark |-> tab.hidden]
      /\ UNCHANGED <<tab, link, echoes, nextToken, queued, renders, samples, chip, frames>>
  BY DEF DG!Send
<1>2. EchoTyped /\ WaitsHonest /\ DG!MeasuresAreHonest
  BY DEF EchoInv
<1>3. /\ tab.epoch \in Nat /\ tab.hidden \in BOOLEAN /\ link.conn \in Nat
      /\ pendingEcho \in Echoes
  BY <1>2 DEF EchoTyped
<1>4. pendingEcho' \in Echoes
  BY <1>1, <1>3 DEF Echoes
<1>5. EchoTyped'
  BY <1>1, <1>2, <1>4 DEF EchoTyped
<1>6. pendingEcho' # DG!NoSend =>
         link'.up /\ pendingEcho'.conn = link'.conn /\ Honest(pendingEcho)'
  BY <1>1, <1>2, <1>3 DEF WaitsHonest, Honest
<1>7. WaitsHonest'
  BY <1>1, <1>2, <1>6 DEF WaitsHonest, Honest
<1>8. DG!MeasuresAreHonest'
  BY <1>1, <1>2 DEF DG!MeasuresAreHonest
<1>. QED
  BY <1>5, <1>7, <1>8 DEF EchoInv

\* What is given up is the oldest; the others are as they were.
LEMMA YoungestAreThere ==
  ASSUME NEW f
  PROVE  DOMAIN DG!Youngest(f) \subseteq DOMAIN f /\
         \A t \in DOMAIN DG!Youngest(f) : DG!Youngest(f)[t] = f[t]
<1>. DEFINE oldest == CHOOSE t \in DOMAIN f : \A u \in DOMAIN f : t <= u
<1>1. DG!Youngest(f) = f \/ DG!Youngest(f) = [t \in DOMAIN f \ {oldest} |-> f[t]]
  BY DEF DG!Youngest
<1>. HIDE DEF oldest
<1>. QED
  BY <1>1

LEMMA OutputFrameKeeps ==
  ASSUME EchoInv, NEW restore \in BOOLEAN, NEW late \in BOOLEAN, DG!OutputFrame(restore, late)
  PROVE  EchoInv'
<1>. DEFINE frame == [token |-> IF nextToken' = nextToken THEN 0 ELSE nextToken,
                      epoch |-> tab.epoch, laidOut |-> tab.laidOut, dark |-> tab.hidden]
            answered == [t \in DOMAIN echoes \union {nextToken} |->
                           IF t = nextToken THEN pendingEcho ELSE echoes[t]]
<1>1. /\ link.up /\ pendingEcho' = DG!NoSend /\ queued' = Append(queued, frame)
      /\ \/ UNCHANGED <<echoes, nextToken>>
         \/ /\ pendingEcho # DG!NoSend /\ nextToken' = nextToken + 1
            /\ echoes' = DG!Youngest(answered)
      /\ UNCHANGED <<tab, link, renders, samples, chip, frames>>
  BY DEF DG!OutputFrame, DG!NoteOutput
<1>2. EchoTyped /\ WaitsHonest /\ DG!MeasuresAreHonest
  BY DEF EchoInv
<1>3. /\ tab.epoch \in Nat /\ tab.hidden \in BOOLEAN /\ tab.laidOut \in BOOLEAN
      /\ nextToken \in Nat /\ nextToken' \in Nat
  BY <1>1, <1>2 DEF EchoTyped
<1>4. frame \in Awaited /\ frame.epoch = tab.epoch /\ frame.dark = tab.hidden
  BY <1>3 DEF Awaited
<1>. HIDE DEF frame
<1>5. /\ queued \in Seq(Awaited) /\ queued' \in Seq(Awaited) /\ Len(queued) \in Nat
      /\ Len(queued') = Len(queued) + 1
      /\ \A i \in 1 .. Len(queued') : i \in 1 .. Len(queued) \/ i = Len(queued) + 1
      /\ \A i \in 1 .. Len(queued) : queued'[i] = queued[i]
      /\ queued'[Len(queued) + 1] = frame
  BY <1>1, <1>2, <1>4 DEF EchoTyped
<1>6. \A i \in 1 .. Len(queued') : Honest(queued[i])'
  BY <1>1, <1>2, <1>3, <1>4, <1>5 DEF WaitsHonest, Honest
<1>7. \A t \in DOMAIN echoes' : \/ echoes'[t] = pendingEcho /\ pendingEcho # DG!NoSend
                                \/ t \in DOMAIN echoes /\ echoes'[t] = echoes[t]
  <2>1. CASE UNCHANGED echoes
    BY <2>1
  <2>2. CASE pendingEcho # DG!NoSend /\ echoes' = DG!Youngest(answered)
    <3>1. /\ DOMAIN answered = DOMAIN echoes \union {nextToken}
          /\ \A t \in DOMAIN answered :
               answered[t] = pendingEcho \/ (t \in DOMAIN echoes /\ answered[t] = echoes[t])
      OBVIOUS
    <3>. HIDE DEF answered
    <3>2. /\ DOMAIN echoes' \subseteq DOMAIN answered
          /\ \A t \in DOMAIN echoes' : echoes'[t] = answered[t]
      BY <2>2, YoungestAreThere
    <3>. QED
      BY <2>2, <3>1, <3>2
  <2>. QED
    BY <1>1, <2>1, <2>2
<1>8. \A t \in DOMAIN echoes' : /\ echoes'[t] \in Echoes
                                /\ link'.up /\ echoes'[t].conn = link'.conn /\ Honest(echoes[t])'
  BY <1>1, <1>2, <1>7 DEF EchoTyped, WaitsHonest, Honest
<1>9. DG!NoSend \in Echoes
  BY DEF DG!NoSend, Echoes
<1>10. EchoTyped'
  BY <1>1, <1>2, <1>3, <1>5, <1>8, <1>9 DEF EchoTyped
<1>11. WaitsHonest'
  BY <1>1, <1>2, <1>6, <1>8 DEF WaitsHonest, Honest
<1>12. DG!MeasuresAreHonest'
  BY <1>1, <1>2 DEF DG!MeasuresAreHonest
<1>. QED
  BY <1>10, <1>11, <1>12 DEF EchoInv

LEMMA ParsedKeeps ==
  ASSUME EchoInv, DG!Parsed
  PROVE  EchoInv'
<1>. DEFINE begun == [Head(queued) EXCEPT !.token = 0]
<1>1. /\ queued # <<>> /\ queued' = Tail(queued) /\ renders' = renders \union {begun}
      /\ UNCHANGED <<tab, link, pendingEcho, echoes, nextToken, samples, chip, frames>>
  BY DEF DG!Parsed
<1>2. EchoTyped /\ WaitsHonest /\ DG!MeasuresAreHonest
  BY DEF EchoInv
<1>3. /\ queued \in Seq(Awaited) /\ Len(queued) \in Nat /\ Len(queued) > 0
      /\ Head(queued) = queued[1] /\ queued[1] \in Awaited
      /\ queued' \in Seq(Awaited) /\ Len(queued') = Len(queued) - 1
      /\ \A i \in 1 .. Len(queued') : i + 1 \in 1 .. Len(queued) /\ queued'[i] = queued[i + 1]
  BY <1>1, <1>2 DEF EchoTyped
<1>4. begun \in Awaited /\ begun.epoch = queued[1].epoch /\ begun.dark = queued[1].dark
  BY <1>3 DEF Awaited
<1>. HIDE DEF begun
<1>5. Honest(queued[1]) /\ \A i \in 1 .. Len(queued) : Honest(queued[i])
  BY <1>2, <1>3 DEF WaitsHonest
<1>6. Honest(begun)
  BY <1>4, <1>5 DEF Honest
<1>7. EchoTyped'
  BY <1>1, <1>2, <1>3, <1>4 DEF EchoTyped
<1>8. /\ \A i \in 1 .. Len(queued') : Honest(queued[i])'
      /\ \A r \in renders' : Honest(r)'
  BY <1>1, <1>2, <1>3, <1>5, <1>6 DEF WaitsHonest, Honest
<1>9. WaitsHonest'
  BY <1>1, <1>2, <1>8 DEF WaitsHonest, Honest
<1>10. DG!MeasuresAreHonest'
  BY <1>1, <1>2 DEF DG!MeasuresAreHonest
<1>. QED
  BY <1>7, <1>9, <1>10 DEF EchoInv

\* An echo painted in the epoch of its send was never hidden.
LEMMA PaintedKeeps ==
  ASSUME EchoInv, NEW t \in paintsDue, DG!Painted(t)
  PROVE  EchoInv'
<1>1. /\ echoes' = [u \in DOMAIN echoes \ {t} |-> echoes[u]]
      /\ UNCHANGED <<tab, link, pendingEcho, nextToken, queued, renders, frames>>
  BY DEF DG!Painted
<1>2. \/ /\ t \in DOMAIN echoes /\ DG!Seen(echoes[t]) /\ chip' = TRUE
         /\ samples' = samples \union {[conn |-> echoes[t].conn, dark |-> echoes[t].dark]}
      \/ samples' = samples /\ chip' \in {FALSE, samples # {}}
  BY DEF DG!Painted
<1>3. EchoTyped /\ WaitsHonest /\ DG!MeasuresAreHonest
  BY DEF EchoInv
<1>4. chip' \in BOOLEAN
  BY <1>2
<1>5. EchoTyped'
  BY <1>1, <1>3, <1>4 DEF EchoTyped
<1>6. WaitsHonest'
  BY <1>1, <1>3 DEF WaitsHonest, Honest
<1>7. t \in DOMAIN echoes /\ DG!Seen(echoes[t]) =>
        link.up /\ echoes[t].conn = link.conn /\ ~echoes[t].dark
  BY <1>3 DEF WaitsHonest, Honest, DG!Seen
<1>8. \A s \in samples' : link'.up /\ s.conn = link'.conn /\ ~s.dark
  <2>1. \A s \in samples : link.up /\ s.conn = link.conn /\ ~s.dark
    BY <1>3 DEF DG!MeasuresAreHonest
  <2>2. CASE t \in DOMAIN echoes /\ DG!Seen(echoes[t]) /\
             samples' = samples \union {[conn |-> echoes[t].conn, dark |-> echoes[t].dark]}
    <3>. DEFINE new == [conn |-> echoes[t].conn, dark |-> echoes[t].dark]
    <3>1. new.conn = echoes[t].conn /\ new.dark = echoes[t].dark
      OBVIOUS
    <3>2. samples' = samples \union {new}
      BY <2>2
    <3>. HIDE DEF new
    <3>3. link.up /\ new.conn = link.conn /\ ~new.dark
      BY <1>7, <2>2, <3>1
    <3>. QED
      BY <1>1, <2>1, <3>2, <3>3
  <2>3. CASE samples' = samples
    BY <1>1, <2>1, <2>3
  <2>. QED
    BY <1>2, <2>2, <2>3
<1>9. chip' => samples' # {}
  BY <1>2
<1>10. DG!MeasuresAreHonest'
  BY <1>1, <1>3, <1>8, <1>9 DEF DG!MeasuresAreHonest
<1>. QED
  BY <1>5, <1>6, <1>10 DEF EchoInv

LEMMA RenderedKeeps ==
  ASSUME EchoInv, DG!Rendered
  PROVE  EchoInv'
<1>1. /\ renders' = {}
      /\ frames' = frames \union {[dark |-> r.dark, laidOut |-> r.laidOut] :
                                    r \in {x \in renders : DG!Seen(x) /\ x.laidOut}}
      /\ UNCHANGED <<tab, link, pendingEcho, echoes, nextToken, queued, samples, chip>>
  BY DEF DG!Rendered
<1>2. EchoTyped /\ WaitsHonest /\ DG!MeasuresAreHonest
  BY DEF EchoInv
<1>3. \A r \in renders : DG!Seen(r) => ~r.dark
  BY <1>2 DEF WaitsHonest, Honest, DG!Seen
<1>4. \A r \in frames' : ~r.dark /\ r.laidOut
  BY <1>1, <1>2, <1>3 DEF DG!MeasuresAreHonest
<1>5. EchoTyped'
  BY <1>1, <1>2 DEF EchoTyped
<1>6. WaitsHonest'
  BY <1>1, <1>2 DEF WaitsHonest, Honest
<1>7. DG!MeasuresAreHonest'
  BY <1>1, <1>2, <1>4 DEF DG!MeasuresAreHonest
<1>. QED
  BY <1>5, <1>6, <1>7 DEF EchoInv

LEMMA TimersKeep ==
  ASSUME EchoInv, DG!MetricsTimer \/ \E stale_ \in BOOLEAN : DG!LatencyTimer(stale_)
  PROVE  EchoInv'
<1>1. UNCHANGED <<tab, link, pendingEcho, echoes, nextToken, queued, renders, samples>>
  BY DEF DG!MetricsTimer, DG!LatencyTimer
<1>2. /\ frames' = frames \/ frames' = {}
      /\ chip' = chip \/ (chip' \in BOOLEAN /\ (chip' => samples # {}))
  BY DEF DG!MetricsTimer, DG!LatencyTimer
<1>3. EchoTyped /\ WaitsHonest /\ DG!MeasuresAreHonest
  BY DEF EchoInv
<1>4. chip' \in BOOLEAN
  BY <1>2, <1>3 DEF EchoTyped
<1>5. EchoTyped'
  BY <1>1, <1>3, <1>4 DEF EchoTyped
<1>6. WaitsHonest'
  BY <1>1, <1>3 DEF WaitsHonest, Honest
<1>7. \A s \in samples' : link'.up /\ s.conn = link'.conn /\ ~s.dark
  BY <1>1, <1>3 DEF DG!MeasuresAreHonest
<1>8. /\ \A r \in frames' : ~r.dark /\ r.laidOut
      /\ chip' => link.up /\ samples # {}
  BY <1>2, <1>3 DEF DG!MeasuresAreHonest
<1>9. DG!MeasuresAreHonest'
  BY <1>1, <1>7, <1>8 DEF DG!MeasuresAreHonest
<1>. QED
  BY <1>5, <1>6, <1>9 DEF EchoInv

-----------------------------------------------------------------------------
\* What is trimmed is the front, and the newest of it is the newest lost.
FrontCut(q, k) ==
  /\ k <= Len(q) /\ Len(q) - k <= MaxBuffer
  /\ k = 0 \/ k = Len(q) - MaxBuffer
  /\ DG!Trimmed(q) \in Seq(Nat) /\ Len(DG!Trimmed(q)) = Len(q) - k
  /\ \A i \in 1 .. Len(q) - k : DG!Trimmed(q)[i] = q[i + k]
  /\ DG!Lost(q) = lostUpTo \/ (k > 0 /\ DG!Lost(q) = q[k])
  /\ DG!Lost(q) \in Nat

LEMMA TrimmedFront ==
  ASSUME NEW q \in Seq(Nat), MaxBuffer \in Nat, lostUpTo \in Nat
  PROVE  \E k \in Nat : FrontCut(q, k)
<1>1. CASE Len(q) > MaxBuffer
  <2>. DEFINE k == Len(q) - MaxBuffer
  <2>1. k \in Nat /\ k > 0 /\ k <= Len(q) /\ Len(q) - k = MaxBuffer /\ q[k] \in Nat
    BY <1>1
  <2>2. /\ DG!Trimmed(q) = SubSeq(q, k + 1, Len(q))
        /\ DG!Lost(q) = IF q[k] > lostUpTo THEN q[k] ELSE lostUpTo
    BY <1>1 DEF DG!Trimmed, DG!Lost
  <2>3. /\ DG!Trimmed(q) \in Seq(Nat) /\ Len(DG!Trimmed(q)) = Len(q) - k
        /\ \A i \in 1 .. Len(q) - k : DG!Trimmed(q)[i] = q[i + k]
    <3>. HIDE DEF k
    <3>1. k + 1 \in Nat /\ k + 1 >= 1 /\ Len(q) <= Len(q) /\ Len(q) - (k + 1) + 1 = Len(q) - k
      BY <2>1
    <3>2. SubSeq(q, k + 1, Len(q)) \in Seq(Nat)
      BY <2>1, <3>1
    <3>3. Len(SubSeq(q, k + 1, Len(q))) = Len(q) - k
      BY <2>1, <3>1
    <3>4. \A i \in 1 .. Len(q) - k : SubSeq(q, k + 1, Len(q))[i] = q[i + k]
      BY <2>1, <3>1
    <3>. QED
      BY <2>2, <3>2, <3>3, <3>4
  <2>4. DG!Lost(q) \in Nat /\ (DG!Lost(q) = lostUpTo \/ DG!Lost(q) = q[k])
    BY <2>1, <2>2
  <2>5. k = Len(q) - MaxBuffer
    OBVIOUS
  <2>. HIDE DEF k
  <2>6. FrontCut(q, k)
    BY <2>1, <2>3, <2>4, <2>5 DEF FrontCut
  <2>. QED
    BY <2>1, <2>6
<1>2. CASE ~(Len(q) > MaxBuffer)
  <2>1. DG!Trimmed(q) = q /\ DG!Lost(q) = lostUpTo
    BY <1>2 DEF DG!Trimmed, DG!Lost
  <2>2. 0 \in Nat /\ Len(q) - 0 = Len(q) /\ \A i \in 1 .. Len(q) : i + 0 = i
    OBVIOUS
  <2>3. FrontCut(q, 0)
    BY <1>2, <2>1, <2>2 DEF FrontCut
  <2>. QED
    BY <2>3
<1>. QED
  BY <1>1, <1>2

LEMMA PushKeeps ==
  ASSUME EventInv, DG!PushEvent, MaxBuffer \in Nat
  PROVE  EventInv'
<1>. DEFINE q == Append(buf, lastEvent + 1)
<1>1. /\ lastEvent' = lastEvent + 1 /\ flush' = flush
      /\ buf' = DG!Trimmed(q) /\ lostUpTo' = DG!Lost(q)
  BY DEF DG!PushEvent, DG!NewEvent
<1>2. EventsTyped /\ WaitingFollow /\ BatchFollows
  BY DEF EventInv
<1>3. lastEvent \in Nat /\ lostUpTo \in Nat /\ buf \in Seq(Nat) /\ Len(buf) \in Nat
  BY <1>2 DEF EventsTyped
<1>4. /\ q \in Seq(Nat) /\ Len(q) = Len(buf) + 1
      /\ \A i \in 1 .. Len(q) : q[i] = IF i = Len(buf) + 1 THEN lastEvent + 1 ELSE buf[i]
  BY <1>3
<1>. HIDE DEF q
<1>5. \A i \in 1 .. Len(q) : q[i] = lastEvent + 1 - (Len(q) - i)
  <2>1. SUFFICES ASSUME NEW i \in 1 .. Len(q) PROVE q[i] = lastEvent + 1 - (Len(q) - i)
    OBVIOUS
  <2>2. CASE i = Len(buf) + 1
    BY <1>3, <1>4, <2>2
  <2>3. CASE i # Len(buf) + 1
    <3>1. i \in 1 .. Len(buf)
      BY <1>3, <1>4, <2>3
    <3>2. buf[i] = lastEvent - (Len(buf) - i)
      BY <1>2, <3>1 DEF WaitingFollow
    <3>. QED
      BY <1>3, <1>4, <2>3, <3>1, <3>2
  <2>. QED
    BY <2>2, <2>3
<1>6. PICK k \in Nat :
        /\ k <= Len(q) /\ Len(q) - k <= MaxBuffer
        /\ k = 0 \/ k = Len(q) - MaxBuffer
        /\ buf' \in Seq(Nat) /\ Len(buf') = Len(q) - k
        /\ \A i \in 1 .. Len(q) - k : buf'[i] = q[i + k]
        /\ lostUpTo' = lostUpTo \/ (k > 0 /\ lostUpTo' = q[k])
        /\ lostUpTo' \in Nat
  BY <1>1, <1>3, <1>4, TrimmedFront DEF FrontCut
<1>7. EventsTyped'
  BY <1>1, <1>2, <1>3, <1>6 DEF EventsTyped
<1>8. \A i \in 1 .. Len(buf') : buf'[i] = lastEvent' - (Len(buf') - i)
  BY <1>1, <1>3, <1>4, <1>5, <1>6
<1>9. lostUpTo' <= lastEvent' - Len(buf')
  <2>1. CASE lostUpTo' = lostUpTo
    <3>1. lostUpTo <= lastEvent - Len(buf)
      BY <1>2 DEF WaitingFollow
    <3>. QED
      BY <1>1, <1>3, <1>4, <1>6, <2>1, <3>1
  <2>2. CASE k > 0 /\ lostUpTo' = q[k]
    <3>1. k \in 1 .. Len(q)
      BY <1>4, <1>6, <2>2
    <3>2. q[k] = lastEvent + 1 - (Len(q) - k)
      BY <1>5, <3>1
    <3>. QED
      BY <1>1, <1>3, <1>4, <1>6, <2>2, <3>2
  <2>. QED
    BY <1>6, <2>1, <2>2
<1>10. WaitingFollow'
  BY <1>3, <1>4, <1>6, <1>8, <1>9 DEF WaitingFollow
<1>11. BatchFollows'
  <2>1. SUFFICES ASSUME flush.on PROVE BatchFollows'
    BY <1>1 DEF BatchFollows
  <2>2. /\ Len(buf) <= MaxBuffer /\ Len(flush.batch) > 0 /\ flush.batch \in Seq(Nat)
        /\ \A i \in 1 .. Len(flush.batch) :
             flush.batch[i] \in Nat /\ flush.batch[i] <= lastEvent - Len(buf)
    BY <1>2, <2>1 DEF EventsTyped, BatchFollows
  <2>3. Len(buf') <= MaxBuffer /\ lastEvent' - Len(buf') >= lastEvent - Len(buf)
    BY <1>1, <1>3, <1>4, <1>6
  <2>4. \A i \in 1 .. Len(flush.batch) : flush.batch[i] <= lastEvent' - Len(buf')
    <3>1. SUFFICES ASSUME NEW i \in 1 .. Len(flush.batch)
                   PROVE  flush.batch[i] <= lastEvent' - Len(buf')
      OBVIOUS
    <3>2. flush.batch[i] \in Nat /\ flush.batch[i] <= lastEvent - Len(buf)
      BY <2>2
    <3>3. lastEvent' - Len(buf') \in Int /\ lastEvent - Len(buf) \in Int
      BY <1>1, <1>3, <1>6
    <3>. QED
      BY <2>3, <3>2, <3>3
  <2>5. CASE Len(buf) = MaxBuffer
    <3>1. Len(buf') = MaxBuffer
      BY <1>3, <1>4, <1>6, <2>5
    <3>. QED
      BY <1>1, <2>2, <2>3, <2>4, <3>1 DEF BatchFollows
  <2>6. CASE Len(buf) # MaxBuffer
    <3>1. k = 0 /\ Len(buf') = Len(buf) + 1 /\ lostUpTo' = lostUpTo
      BY <1>3, <1>4, <1>6, <2>2, <2>6
    <3>2. lastEvent' - Len(buf') = lastEvent - Len(buf)
      BY <1>1, <1>3, <3>1
    <3>3. /\ \A i \in 1 .. Len(flush.batch) :
               flush.batch[i] = lastEvent - Len(buf) - (Len(flush.batch) - i)
          /\ lostUpTo <= lastEvent - Len(buf) - Len(flush.batch)
      BY <1>2, <2>1, <2>6 DEF BatchFollows
    <3>. QED
      BY <1>1, <2>2, <2>3, <2>4, <3>1, <3>2, <3>3 DEF BatchFollows
  <2>. QED
    BY <2>5, <2>6
<1>. QED
  BY <1>7, <1>10, <1>11 DEF EventInv

LEMMA FlushKeeps ==
  ASSUME EventInv, DG!Flush, MaxBuffer \in Nat
  PROVE  EventInv'
<1>1. /\ buf # <<>> /\ flush' = [on |-> TRUE, batch |-> buf] /\ buf' = <<>>
      /\ lastEvent' = lastEvent /\ lostUpTo' = lostUpTo
  BY DEF DG!Flush
<1>2. EventsTyped /\ WaitingFollow
  BY DEF EventInv
<1>3. /\ lastEvent \in Nat /\ lostUpTo \in Nat /\ buf \in Seq(Nat) /\ Len(buf) \in Nat
      /\ Len(buf) > 0 /\ Len(buf') = 0 /\ buf' \in Seq(Nat)
  BY <1>1, <1>2 DEF EventsTyped
<1>4. flush'.on = TRUE /\ flush'.batch = buf /\ flush' \in [on : BOOLEAN, batch : Seq(Nat)]
  BY <1>1, <1>3
<1>5. EventsTyped'
  BY <1>1, <1>3, <1>4 DEF EventsTyped
<1>6. WaitingFollow'
  BY <1>1, <1>2, <1>3 DEF WaitingFollow
<1>7. BatchFollows'
  BY <1>1, <1>2, <1>3, <1>4 DEF WaitingFollow, BatchFollows
<1>. QED
  BY <1>5, <1>6, <1>7 DEF EventInv

\* Events that follow one another up to the newest, and one more.
LEMMA OneMoreFollows ==
  ASSUME EventsTyped, lastEvent' = lastEvent + 1, flush' = DG!Idle,
         NEW q \in Seq(Nat), Len(q) <= MaxBuffer, MaxBuffer \in Nat,
         \A i \in 1 .. Len(q) : q[i] = lastEvent - (Len(q) - i),
         buf' = Append(q, lastEvent'), lostUpTo' \in Nat, lostUpTo' <= lastEvent - Len(q)
  PROVE  EventInv'
<1>1. lastEvent \in Nat /\ Len(q) \in Nat
  BY DEF EventsTyped
<1>2. /\ buf' \in Seq(Nat) /\ Len(buf') = Len(q) + 1
      /\ \A i \in 1 .. Len(buf') : buf'[i] = IF i = Len(q) + 1 THEN lastEvent + 1 ELSE q[i]
  BY <1>1
<1>3. ~flush'.on /\ flush' \in [on : BOOLEAN, batch : Seq(Nat)]
  BY DEF DG!Idle
<1>4. EventsTyped'
  BY <1>1, <1>2, <1>3 DEF EventsTyped
<1>5. \A i \in 1 .. Len(buf') : buf'[i] = lastEvent' - (Len(buf') - i)
  <2>1. SUFFICES ASSUME NEW i \in 1 .. Len(buf')
                 PROVE  buf'[i] = lastEvent' - (Len(buf') - i)
    OBVIOUS
  <2>2. CASE i = Len(q) + 1
    BY <1>1, <1>2, <2>2
  <2>3. CASE i # Len(q) + 1
    <3>1. i \in 1 .. Len(q)
      BY <1>1, <1>2, <2>3
    <3>2. q[i] = lastEvent - (Len(q) - i) /\ buf'[i] = q[i]
      BY <1>2, <2>3, <3>1
    <3>. QED
      BY <1>1, <1>2, <3>1, <3>2
  <2>. QED
    BY <2>2, <2>3
<1>6. lostUpTo' <= lastEvent' - Len(buf') /\ Len(buf') <= MaxBuffer + 1
  BY <1>1, <1>2
<1>7. WaitingFollow'
  BY <1>5, <1>6 DEF WaitingFollow
<1>8. BatchFollows'
  BY <1>3 DEF BatchFollows
<1>. QED
  BY <1>4, <1>7, <1>8 DEF EventInv

\* What a failed request puts back closes the gap, or is what is trimmed.
LEMMA RequeuedFollow ==
  ASSUME EventInv, flush.on, MaxBuffer \in Nat
  PROVE  LET q == DG!Requeued(flush.batch)
         IN  /\ DG!Trimmed(q) \in Seq(Nat) /\ Len(DG!Trimmed(q)) <= MaxBuffer
             /\ DG!Lost(q) \in Nat /\ DG!Lost(q) <= lastEvent - Len(DG!Trimmed(q))
             /\ \A i \in 1 .. Len(DG!Trimmed(q)) :
                  DG!Trimmed(q)[i] = lastEvent - (Len(DG!Trimmed(q)) - i)
<1>. DEFINE b == flush.batch
            q == b \o buf
            t == DG!Trimmed(q)
<1>1. EventsTyped /\ WaitingFollow /\ BatchFollows
  BY DEF EventInv
<1>2. /\ lastEvent \in Nat /\ lostUpTo \in Nat /\ buf \in Seq(Nat) /\ b \in Seq(Nat)
      /\ Len(buf) \in Nat /\ Len(b) \in Nat
  BY <1>1 DEF EventsTyped
<1>3. /\ Len(b) > 0 /\ Len(buf) <= MaxBuffer
      /\ \A i \in 1 .. Len(b) : b[i] \in Nat /\ b[i] <= lastEvent - Len(buf)
      /\ \/ Len(buf) = MaxBuffer
         \/ /\ \A i \in 1 .. Len(b) : b[i] = lastEvent - Len(buf) - (Len(b) - i)
            /\ lostUpTo <= lastEvent - Len(buf) - Len(b)
  <2>1. \A i \in 1 .. Len(b) : b[i] \in Nat
    BY <1>2
  <2>. QED
    BY <1>1, <2>1 DEF BatchFollows
<1>4. /\ \A i \in 1 .. Len(buf) : buf[i] = lastEvent - (Len(buf) - i)
      /\ lostUpTo <= lastEvent - Len(buf)
  BY <1>1 DEF WaitingFollow
<1>. HIDE DEF b
<1>5. /\ q \in Seq(Nat) /\ Len(q) = Len(b) + Len(buf)
      /\ \A i \in 1 .. Len(b) : q[i] = b[i]
      /\ \A i \in 1 .. Len(buf) : q[i + Len(b)] = buf[i]
  BY <1>2
<1>. HIDE DEF q
<1>6. PICK k \in Nat :
        /\ k <= Len(q) /\ Len(q) - k <= MaxBuffer
        /\ k = 0 \/ k = Len(q) - MaxBuffer
        /\ t \in Seq(Nat) /\ Len(t) = Len(q) - k
        /\ \A i \in 1 .. Len(q) - k : t[i] = q[i + k]
        /\ DG!Lost(q) = lostUpTo \/ (k > 0 /\ DG!Lost(q) = q[k])
        /\ DG!Lost(q) \in Nat
  BY <1>2, <1>5, TrimmedFront DEF FrontCut
<1>. HIDE DEF t
<1>7. CASE Len(buf) = MaxBuffer
  <2>1. k = Len(b) /\ Len(t) = Len(buf)
    <3>1. Len(q) = Len(b) + Len(buf) /\ Len(b) \in Nat /\ Len(buf) \in Nat
      BY <1>2, <1>5
    <3>2. /\ k \in Nat /\ Len(q) - k <= MaxBuffer /\ Len(t) = Len(q) - k
          /\ k = 0 \/ k = Len(q) - MaxBuffer
      BY <1>6
    <3>. QED
      BY <1>3, <1>7, <3>1, <3>2
  <2>2. \A i \in 1 .. Len(t) : t[i] = buf[i]
    BY <1>2, <1>5, <1>6, <2>1
  <2>3. DG!Lost(q) <= lastEvent - Len(t)
    <3>1. CASE DG!Lost(q) = lostUpTo
      BY <1>4, <2>1, <3>1
    <3>2. CASE DG!Lost(q) = q[k]
      <4>1. k \in 1 .. Len(b) /\ q[k] = b[k]
        BY <1>2, <1>3, <1>5, <2>1
      <4>. QED
        BY <1>3, <2>1, <3>2, <4>1
    <3>. QED
      BY <1>6, <3>1, <3>2
  <2>4. \A i \in 1 .. Len(t) : t[i] = lastEvent - (Len(t) - i)
    BY <1>4, <2>1, <2>2
  <2>. QED
    BY <1>6, <2>3, <2>4 DEF DG!Requeued, b, q, t
<1>8. CASE /\ \A i \in 1 .. Len(b) : b[i] = lastEvent - Len(buf) - (Len(b) - i)
           /\ lostUpTo <= lastEvent - Len(buf) - Len(b)
  <2>1. \A i \in 1 .. Len(q) : q[i] = lastEvent - (Len(q) - i)
    <3>1. SUFFICES ASSUME NEW i \in 1 .. Len(q) PROVE q[i] = lastEvent - (Len(q) - i)
      OBVIOUS
    <3>2. CASE i <= Len(b)
      BY <1>2, <1>5, <1>8, <3>2
    <3>3. CASE i > Len(b)
      <4>1. i - Len(b) \in 1 .. Len(buf) /\ (i - Len(b)) + Len(b) = i
        BY <1>2, <1>5, <3>3
      <4>2. q[i] = buf[i - Len(b)]
        BY <1>5, <4>1
      <4>. QED
        BY <1>2, <1>4, <1>5, <4>1, <4>2
    <3>. QED
      BY <1>2, <1>5, <3>2, <3>3
  <2>2. \A i \in 1 .. Len(t) : t[i] = lastEvent - (Len(t) - i)
    BY <1>2, <1>5, <1>6, <2>1
  <2>3. DG!Lost(q) <= lastEvent - Len(t)
    BY <1>2, <1>5, <1>6, <1>8, <2>1
  <2>. QED
    BY <1>6, <2>2, <2>3 DEF DG!Requeued, b, q, t
<1>. QED
  BY <1>3, <1>7, <1>8

LEMMA FlushedKeeps ==
  ASSUME EventInv, DG!Flushed, MaxBuffer \in Nat
  PROVE  EventInv'
<1>. DEFINE q == DG!Requeued(flush.batch)
<1>1. EventsTyped /\ WaitingFollow /\ BatchFollows
  BY DEF EventInv
<1>2. flush.on /\ flush' = DG!Idle
  BY DEF DG!Flushed
<1>3. lastEvent \in Nat /\ lostUpTo \in Nat /\ buf \in Seq(Nat)
  BY <1>1 DEF EventsTyped
<1>4. CASE UNCHANGED <<buf, lastEvent, lostUpTo>>
  <2>1. ~flush'.on /\ flush' \in [on : BOOLEAN, batch : Seq(Nat)]
    BY <1>2 DEF DG!Idle
  <2>2. EventsTyped'
    BY <1>3, <1>4, <2>1 DEF EventsTyped
  <2>3. WaitingFollow' /\ BatchFollows'
    BY <1>1, <1>4, <2>1 DEF WaitingFollow, BatchFollows
  <2>. QED
    BY <2>2, <2>3 DEF EventInv
<1>5. CASE DG!NewEvent /\ buf' = Append(buf, lastEvent') /\ UNCHANGED lostUpTo
  <2>1. lastEvent' = lastEvent + 1
    BY <1>5 DEF DG!NewEvent
  <2>2. Len(buf) <= MaxBuffer
    BY <1>1, <1>2 DEF BatchFollows
  <2>3. /\ \A i \in 1 .. Len(buf) : buf[i] = lastEvent - (Len(buf) - i)
        /\ lostUpTo <= lastEvent - Len(buf)
    BY <1>1 DEF WaitingFollow
  <2>. QED
    BY <1>1, <1>2, <1>3, <1>5, <2>1, <2>2, <2>3, OneMoreFollows
<1>6. CASE /\ DG!NewEvent /\ buf' = Append(DG!Trimmed(q), lastEvent') /\ lostUpTo' = DG!Lost(q)
  <2>1. lastEvent' = lastEvent + 1
    BY <1>6 DEF DG!NewEvent
  <2>2. /\ DG!Trimmed(q) \in Seq(Nat) /\ Len(DG!Trimmed(q)) <= MaxBuffer
        /\ DG!Lost(q) \in Nat /\ DG!Lost(q) <= lastEvent - Len(DG!Trimmed(q))
        /\ \A i \in 1 .. Len(DG!Trimmed(q)) :
             DG!Trimmed(q)[i] = lastEvent - (Len(DG!Trimmed(q)) - i)
    BY <1>2, RequeuedFollow
  <2>. HIDE DEF q
  <2>. QED
    BY <1>1, <1>2, <1>6, <2>1, <2>2, OneMoreFollows
<1>. QED
  BY <1>4, <1>5, <1>6 DEF DG!Flushed

LEMMA EventsWaitInOrder ==
  ASSUME EventInv, MaxBuffer \in Nat
  PROVE  DG!QueueHasNoHole
<1>1. /\ lastEvent \in Nat /\ lostUpTo \in Nat /\ buf \in Seq(Nat) /\ Len(buf) \in Nat
      /\ DOMAIN buf = 1 .. Len(buf)
  BY DEF EventInv, EventsTyped
<1>2. /\ \A i \in 1 .. Len(buf) : buf[i] = lastEvent - (Len(buf) - i)
      /\ lostUpTo <= lastEvent - Len(buf) /\ Len(buf) <= MaxBuffer + 1
  BY DEF EventInv, WaitingFollow
<1>3. buf # <<>> => lostUpTo < buf[1]
  BY <1>1, <1>2
<1>. QED
  BY <1>1, <1>2, <1>3 DEF DG!QueueHasNoHole

-----------------------------------------------------------------------------
LEMMA EchoStepKeeps ==
  ASSUME EchoInv, EventInv, DG!EchoNext
  PROVE  EchoInv' /\ EventInv'
<1>1. EventInv'
  BY DEF DG!EchoNext, DG!eventVars, EventInv, EventsTyped, WaitingFollow, BatchFollows
<1>2. ASSUME NEW restore \in BOOLEAN, NEW late \in BOOLEAN, DG!OutputFrame(restore, late)
      PROVE  EchoInv'
  BY <1>2, OutputFrameKeeps
<1>3. ASSUME NEW late \in BOOLEAN, DG!Send(late) PROVE EchoInv'
  BY <1>3, SendKeeps
<1>4. ASSUME NEW t \in paintsDue, DG!Painted(t) PROVE EchoInv'
  BY <1>4, PaintedKeeps
<1>. QED
  BY <1>1, <1>2, <1>3, <1>4, ConnectedKeeps, DisconnectedKeeps, VisibilityChangeKeeps,
     LayoutKeeps, ParsedKeeps, RenderedKeeps, TimersKeep DEF DG!EchoNext

LEMMA MeasuringStays ==
  ASSUME EchoInv, UNCHANGED DG!echoVars
  PROVE  EchoInv'
  BY DEF DG!echoVars, EchoInv, EchoTyped, WaitsHonest, Honest, DG!MeasuresAreHonest

LEMMA EventStepKeeps ==
  ASSUME EchoInv, EventInv, DG!EventNext, MaxBuffer \in Nat
  PROVE  EchoInv' /\ EventInv'
  BY MeasuringStays, PushKeeps, FlushKeeps, FlushedKeeps DEF DG!EventNext

LEMMA EventsStay ==
  ASSUME EventInv, UNCHANGED DG!eventVars
  PROVE  EventInv'
  BY DEF DG!eventVars, EventInv, EventsTyped, WaitingFollow, BatchFollows

-----------------------------------------------------------------------------
TerminalInv == ScreenInv /\ EchoInv /\ EventInv

LEMMA TerminalStepKeeps ==
  ASSUME TerminalInv, TerminalNext
  PROVE  TerminalInv'
<1>1. ScreenInv /\ EchoInv /\ EventInv /\ MaxBuffer \in Nat
  BY TerminalAssumption DEF TerminalInv
<1>2. CASE XS!ScreenNext /\ UNCHANGED dgVars
  <2>1. ScreenInv'
    BY <1>1, <1>2, ScreenStepKeeps
  <2>2. UNCHANGED DG!echoVars /\ UNCHANGED DG!eventVars
    BY <1>2 DEF dgVars, DG!echoVars, DG!eventVars
  <2>3. EchoInv'
    BY <1>1, <2>2, MeasuringStays
  <2>4. EventInv'
    BY <1>1, <2>2, EventsStay
  <2>. QED
    BY <2>1, <2>3, <2>4 DEF TerminalInv
<1>3. CASE UNCHANGED xsVars /\ UNCHANGED dgVars
  <2>1. ScreenInv'
    BY <1>1, <1>3, ScreenStays
  <2>2. UNCHANGED DG!echoVars /\ UNCHANGED DG!eventVars
    BY <1>3 DEF dgVars, DG!echoVars, DG!eventVars
  <2>3. EchoInv'
    BY <1>1, <2>2, MeasuringStays
  <2>4. EventInv'
    BY <1>1, <2>2, EventsStay
  <2>. QED
    BY <2>1, <2>3, <2>4 DEF TerminalInv
<1>4. CASE UNCHANGED xsVars /\ (DG!EchoNext \/ DG!EventNext)
  <2>1. ScreenInv'
    BY <1>1, <1>4, ScreenStays
  <2>2. EchoInv' /\ EventInv'
    BY <1>1, <1>4, EchoStepKeeps, EventStepKeeps
  <2>. QED
    BY <2>1, <2>2 DEF TerminalInv
<1>. QED
  BY <1>2, <1>3, <1>4 DEF TerminalNext

\* A terminal that is shown is painted and drawn by its renderer, one that is
\* hidden gives its GPU context back, a wish for a renderer is kept and a
\* redraw that is owed comes (XtermTerminal.vue, terminalRenderer.ts); a
\* latency or a render is measured only while it could be seen, on the
\* connection there is (latencyProbe.ts, renderSampleGate.ts); and the events
\* that wait for the server's log are the newest ones without a hole,
\* whatever fails and is put back (useCliInputDiagnostics.ts).
THEOREM ScreenAlwaysCurrent == TerminalSpec => []ScreenIsCurrent
<1>1. TerminalInit => TerminalInv
  BY ScreenBegins, MeasuringBegins, TerminalAssumption DEF TerminalInit, TerminalInv
<1>2. TerminalInv /\ [TerminalNext]_<<
        focus, surfaceVars, tcVars, prVars, xsVars, kfVars, dgVars>> => TerminalInv'
  <2>1. ASSUME TerminalInv, UNCHANGED <<xsVars, dgVars>>
        PROVE  TerminalInv'
    <3>1. ScreenInv'
      BY <2>1, ScreenStays DEF TerminalInv
    <3>2. UNCHANGED DG!echoVars /\ UNCHANGED DG!eventVars
      BY <2>1 DEF dgVars, DG!echoVars, DG!eventVars
    <3>3. EchoInv' /\ EventInv'
      BY <2>1, <3>2, MeasuringStays, EventsStay DEF TerminalInv
    <3>. QED
      BY <3>1, <3>3 DEF TerminalInv
  <2>. QED
    BY <2>1, TerminalStepKeeps
<1>3. TerminalInv => ScreenIsCurrent
  BY ScreenIsRight, EventsWaitInOrder, TerminalAssumption DEF TerminalInv, EchoInv, ScreenIsCurrent
<1>. QED
  BY <1>1, <1>2, <1>3, PTL DEF TerminalSpec

-----------------------------------------------------------------------------
(***************************************************************************)
(* What is typed: sequences as the sets of what stands in them.            *)
(***************************************************************************)
Ran(s) == {s[i] : i \in 1 .. Len(s)}
Distinct(s) == \A i, j \in 1 .. Len(s) : s[i] = s[j] => i = j

LEMMA RanIsRange ==
  ASSUME NEW s \in Seq(Nat)
  PROVE  TC!Range(s) = Ran(s) /\ Ran(s) \subseteq Nat
  BY DEF TC!Range, Ran

LEMMA DistinctIsOnce ==
  ASSUME NEW s \in Seq(Nat)
  PROVE  TC!Once(s) <=> Distinct(s)
  BY DEF TC!Once, TC!IsInjective, Distinct

LEMMA RanOfFew ==
  /\ <<>> \in Seq(Nat) /\ Ran(<<>>) = {} /\ Distinct(<<>>)
  /\ \A n \in Nat : <<n>> \in Seq(Nat) /\ Ran(<<n>>) = {n} /\ Distinct(<<n>>)
<1>1. <<>> \in Seq(Nat) /\ Len(<<>>) = 0
  OBVIOUS
<1>2. ASSUME NEW n \in Nat
      PROVE  <<n>> \in Seq(Nat) /\ Ran(<<n>>) = {n} /\ Distinct(<<n>>)
  <2>1. <<n>> \in Seq(Nat) /\ Len(<<n>>) = 1 /\ <<n>>[1] = n
    OBVIOUS
  <2>2. \A i \in 1 .. 1 : i = 1
    OBVIOUS
  <2>. QED
    BY <2>1, <2>2 DEF Ran, Distinct
<1>3. 1 .. 0 = {}
  OBVIOUS
<1>. QED
  BY <1>1, <1>2, <1>3 DEF Ran, Distinct

LEMMA RanOfJoined ==
  ASSUME NEW s \in Seq(Nat), NEW t \in Seq(Nat)
  PROVE  /\ s \o t \in Seq(Nat) /\ Len(s \o t) = Len(s) + Len(t)
         /\ Ran(s \o t) = Ran(s) \union Ran(t)
         /\ Distinct(s \o t) <=> Distinct(s) /\ Distinct(t) /\ Ran(s) \cap Ran(t) = {}
<1>. DEFINE j == s \o t
            m == Len(s)
            n == Len(t)
<1>1. /\ j \in Seq(Nat) /\ Len(j) = m + n /\ m \in Nat /\ n \in Nat
      /\ \A i \in 1 .. m : j[i] = s[i]
      /\ \A i \in 1 .. n : j[i + m] = t[i]
  OBVIOUS
<1>2. /\ \A i \in 1 .. m : i \in 1 .. m + n
      /\ \A i \in 1 .. n : i + m \in 1 .. m + n
      /\ \A i \in 1 .. m + n : i \in 1 .. m \/ (i - m \in 1 .. n /\ (i - m) + m = i)
      /\ \A i \in 1 .. m, k \in 1 .. n : i # k + m
      /\ \A i, k \in 1 .. n : i + m = k + m => i = k
  BY <1>1
<1>3. Ran(j) = Ran(s) \union Ran(t)
  <2>1. ASSUME NEW x \in Ran(j) PROVE x \in Ran(s) \union Ran(t)
    <3>1. PICK i \in 1 .. m + n : x = j[i]
      BY <1>1 DEF Ran
    <3>2. CASE i \in 1 .. m
      BY <1>1, <3>1, <3>2 DEF Ran
    <3>3. CASE i - m \in 1 .. n /\ (i - m) + m = i
      <4>1. j[i] = t[i - m]
        BY <1>1, <3>3
      <4>. QED
        BY <3>1, <3>3, <4>1 DEF Ran
    <3>. QED
      BY <1>2, <3>2, <3>3
  <2>2. ASSUME NEW x \in Ran(s) PROVE x \in Ran(j)
    <3>1. PICK i \in 1 .. m : x = s[i]
      BY DEF Ran
    <3>2. i \in 1 .. Len(j) /\ j[i] = x
      BY <1>1, <1>2, <3>1
    <3>. QED
      BY <3>2 DEF Ran
  <2>3. ASSUME NEW x \in Ran(t) PROVE x \in Ran(j)
    <3>1. PICK i \in 1 .. n : x = t[i]
      BY DEF Ran
    <3>2. i + m \in 1 .. Len(j) /\ j[i + m] = x
      BY <1>1, <1>2, <3>1
    <3>. QED
      BY <3>2 DEF Ran
  <2>. QED
    BY <2>1, <2>2, <2>3
<1>4. ASSUME Distinct(j) PROVE Distinct(s) /\ Distinct(t) /\ Ran(s) \cap Ran(t) = {}
  <2>. HIDE DEF j
  <2>1. \A i, k \in 1 .. m + n : j[i] = j[k] => i = k
    BY <1>1, <1>4 DEF Distinct
  <2>2. Distinct(s)
    BY <1>1, <1>2, <2>1 DEF Distinct
  <2>3. ASSUME NEW i \in 1 .. n, NEW k \in 1 .. n, t[i] = t[k] PROVE i = k
    <3>1. j[i + m] = j[k + m] /\ i + m \in 1 .. m + n /\ k + m \in 1 .. m + n
      BY <1>1, <1>2, <2>3
    <3>2. i + m = k + m
      BY <2>1, <3>1
    <3>. QED
      BY <1>2, <3>2
  <2>4. ASSUME NEW x \in Ran(s), x \in Ran(t) PROVE FALSE
    <3>1. PICK i \in 1 .. m : x = s[i]
      BY DEF Ran
    <3>2. PICK k \in 1 .. n : x = t[k]
      BY <2>4 DEF Ran
    <3>3. j[i] = j[k + m] /\ i \in 1 .. m + n /\ k + m \in 1 .. m + n /\ i # k + m
      BY <1>1, <1>2, <3>1, <3>2
    <3>. QED
      BY <2>1, <3>3
  <2>. QED
    BY <2>2, <2>3, <2>4 DEF Distinct
<1>5. ASSUME Distinct(s), Distinct(t), Ran(s) \cap Ran(t) = {} PROVE Distinct(j)
  <2>. SUFFICES ASSUME NEW i \in 1 .. m + n, NEW k \in 1 .. m + n, j[i] = j[k]
                PROVE  i = k
    BY <1>1 DEF Distinct
  <2>. HIDE DEF j
  <2>1. CASE i \in 1 .. m /\ k \in 1 .. m
    BY <1>1, <1>5, <2>1 DEF Distinct
  <2>2. CASE i \in 1 .. m /\ k - m \in 1 .. n /\ (k - m) + m = k
    <3>1. s[i] = t[k - m]
      BY <1>1, <2>2
    <3>2. s[i] \in Ran(s) /\ t[k - m] \in Ran(t)
      BY <2>2 DEF Ran
    <3>. QED
      BY <1>5, <3>1, <3>2
  <2>3. CASE k \in 1 .. m /\ i - m \in 1 .. n /\ (i - m) + m = i
    <3>1. s[k] = t[i - m]
      BY <1>1, <2>3
    <3>2. s[k] \in Ran(s) /\ t[i - m] \in Ran(t)
      BY <2>3 DEF Ran
    <3>. QED
      BY <1>5, <3>1, <3>2
  <2>4. CASE i - m \in 1 .. n /\ k - m \in 1 .. n /\ (i - m) + m = i /\ (k - m) + m = k
    <3>1. t[i - m] = t[k - m]
      BY <1>1, <2>4
    <3>2. i - m = k - m
      BY <1>5, <2>4, <3>1 DEF Distinct
    <3>. QED
      BY <2>4, <3>2
  <2>. QED
    BY <1>2, <2>1, <2>2, <2>3, <2>4
<1>. QED
  BY <1>1, <1>3, <1>4, <1>5

LEMMA RanOfFront ==
  ASSUME NEW s \in Seq(Nat), s # <<>>, Distinct(s)
  PROVE  LET f == SubSeq(s, 1, Len(s) - 1)
         IN  /\ f \in Seq(Nat) /\ Len(f) = Len(s) - 1 /\ Distinct(f)
             /\ s[Len(s)] \in Ran(s) /\ Ran(f) = Ran(s) \ {s[Len(s)]}
<1>. DEFINE f == SubSeq(s, 1, Len(s) - 1)
            n == Len(s)
<1>1. /\ n \in Nat /\ n > 0 /\ f \in Seq(Nat) /\ Len(f) = n - 1
      /\ \A i \in 1 .. n - 1 : f[i] = s[i] /\ i \in 1 .. n /\ i # n
      /\ \A i \in 1 .. n : i = n \/ i \in 1 .. n - 1
      /\ n \in 1 .. n
  <2>1. n \in Nat /\ n > 0 /\ n - 1 \in Nat
    OBVIOUS
  <2>2. f \in Seq(Nat) /\ Len(f) = n - 1 /\ \A i \in 1 .. n - 1 : f[i] = s[i]
    <3>1. n - 1 \in Int /\ 1 \in Int /\ (n - 1) - 1 + 1 = n - 1
      BY <2>1
    <3>2. \A i \in 1 .. n - 1 : s[i] \in Nat /\ 1 + i - 1 = i
      BY <2>1
    <3>3. /\ f \in Seq(Nat)
          /\ Len(f) = IF 1 <= n - 1 THEN (n - 1) - 1 + 1 ELSE 0
          /\ \A i \in 1 .. (n - 1) - 1 + 1 : f[i] = s[1 + i - 1]
      BY <3>1, <3>2, SubSeqProperties
    <3>. QED
      BY <2>1, <3>1, <3>2, <3>3
  <2>5. /\ \A i \in 1 .. n - 1 : i \in 1 .. n /\ i # n
        /\ \A i \in 1 .. n : i = n \/ i \in 1 .. n - 1
        /\ n \in 1 .. n
    BY <2>1
  <2>. QED
    BY <2>1, <2>2, <2>5
<1>. HIDE DEF f, n
<1>2. Distinct(f)
  BY <1>1 DEF Distinct, n
<1>3. s[n] \in Ran(s)
  BY <1>1 DEF Ran, n
<1>4. ASSUME NEW x \in Ran(f) PROVE x \in Ran(s) /\ x # s[n]
  <2>1. PICK i \in 1 .. n - 1 : x = f[i]
    BY <1>1 DEF Ran
  <2>2. x = s[i] /\ i \in 1 .. n /\ i # n
    BY <1>1, <2>1
  <2>. QED
    BY <1>1, <2>2 DEF Ran, Distinct, n
<1>5. ASSUME NEW x \in Ran(s), x # s[n] PROVE x \in Ran(f)
  <2>1. PICK i \in 1 .. n : x = s[i]
    BY DEF Ran, n
  <2>2. i \in 1 .. n - 1 /\ f[i] = x
    BY <1>1, <1>5, <2>1
  <2>. QED
    BY <1>1, <2>2 DEF Ran
<1>6. Ran(f) = Ran(s) \ {s[n]}
  BY <1>4, <1>5
<1>. QED
  BY <1>1, <1>2, <1>3, <1>6 DEF f, n

-----------------------------------------------------------------------------
(***************************************************************************)
(* Where what was typed stands: in the terminal's prompt (p), in what is   *)
(* written and not sent (w), gone (g) or lost (l); and only what is gone   *)
(* can be undone (u).                                                      *)
(***************************************************************************)
Placed(p, w, g, l, n) ==
  /\ p \in Seq(Nat) /\ w \in Seq(Nat) /\ n \in Nat
  /\ Distinct(p) /\ Distinct(w) /\ Ran(p) \cap Ran(w) = {} /\ g \cap l = {}
  /\ (g \union l) \cap (Ran(p) \union Ran(w)) = {}
  /\ 1 .. n = Ran(p) \union Ran(w) \union g \union l
Undoable(u, g) == u \in Seq(Nat) /\ Distinct(u) /\ Ran(u) \subseteq g

LEMMA NewIsNowhere ==
  ASSUME NEW p, NEW w, NEW g, NEW l, NEW n, Placed(p, w, g, l, n)
  PROVE  /\ n + 1 \in Nat /\ 1 .. n + 1 = 1 .. n \union {n + 1}
         /\ n + 1 \notin Ran(p) /\ n + 1 \notin Ran(w) /\ n + 1 \notin g /\ n + 1 \notin l
<1>1. n \in Nat /\ n + 1 \notin 1 .. n /\ n + 1 \in Nat /\ 1 .. n + 1 = 1 .. n \union {n + 1}
  BY DEF Placed
<1>. QED
  BY <1>1 DEF Placed

LEMMA TypedIntoTerminal ==
  ASSUME NEW p, NEW w, NEW g, NEW l, NEW n, Placed(p, w, g, l, n)
  PROVE  Placed(p \o <<n + 1>>, w, g, l, n + 1)
<1>. DEFINE new == <<n + 1>>
<1>1. /\ n + 1 \in Nat /\ 1 .. n + 1 = 1 .. n \union {n + 1}
      /\ n + 1 \notin Ran(p) /\ n + 1 \notin Ran(w) /\ n + 1 \notin g /\ n + 1 \notin l
  BY NewIsNowhere
<1>2. new \in Seq(Nat) /\ Ran(new) = {n + 1} /\ Distinct(new)
  BY <1>1, RanOfFew
<1>. HIDE DEF new
<1>3. p \in Seq(Nat) /\ Distinct(p)
  BY DEF Placed
<1>4. p \o new \in Seq(Nat) /\ Ran(p \o new) = Ran(p) \union {n + 1} /\ Distinct(p \o new)
  BY <1>1, <1>2, <1>3, RanOfJoined
<1>5. Placed(p \o new, w, g, l, n + 1)
  BY <1>1, <1>4 DEF Placed
<1>. QED
  BY <1>5 DEF new

LEMMA TypedIntoBox ==
  ASSUME NEW p, NEW w, NEW g, NEW l, NEW n, Placed(p, w, g, l, n)
  PROVE  Placed(p, w \o <<n + 1>>, g, l, n + 1) /\ Append(w, n + 1) = w \o <<n + 1>>
<1>. DEFINE new == <<n + 1>>
<1>1. /\ n + 1 \in Nat /\ 1 .. n + 1 = 1 .. n \union {n + 1}
      /\ n + 1 \notin Ran(p) /\ n + 1 \notin Ran(w) /\ n + 1 \notin g /\ n + 1 \notin l
  BY NewIsNowhere
<1>2. new \in Seq(Nat) /\ Ran(new) = {n + 1} /\ Distinct(new)
  BY <1>1, RanOfFew
<1>3. w \in Seq(Nat) /\ Distinct(w)
  BY DEF Placed
<1>4. Append(w, n + 1) = w \o new
  BY <1>1, <1>3, AppendIsConcat
<1>. HIDE DEF new
<1>5. w \o new \in Seq(Nat) /\ Ran(w \o new) = Ran(w) \union {n + 1} /\ Distinct(w \o new)
  BY <1>1, <1>2, <1>3, RanOfJoined
<1>6. Placed(p, w \o new, g, l, n + 1)
  BY <1>1, <1>5 DEF Placed
<1>. QED
  BY <1>4, <1>6 DEF new

LEMMA TypedAway ==
  ASSUME NEW p, NEW w, NEW g, NEW l, NEW n, Placed(p, w, g, l, n)
  PROVE  Placed(p, w, g, l \union {n + 1}, n + 1)
<1>1. /\ n + 1 \in Nat /\ 1 .. n + 1 = 1 .. n \union {n + 1}
      /\ n + 1 \notin Ran(p) /\ n + 1 \notin Ran(w) /\ n + 1 \notin g /\ n + 1 \notin l
  BY NewIsNowhere
<1>. QED
  BY <1>1 DEF Placed

\* What was written is written over or taken back.
LEMMA WrittenLeaves ==
  ASSUME NEW p, NEW w, NEW g, NEW l, NEW n, Placed(p, w, g, l, n)
  PROVE  /\ TC!Range(w) = Ran(w)
         /\ Placed(p, <<>>, g \union Ran(w), l, n)
         /\ Placed(p, <<>>, g, l \union Ran(w), n)
<1>1. w \in Seq(Nat)
  BY DEF Placed
<1>2. TC!Range(w) = Ran(w)
  BY <1>1, RanIsRange
<1>3. Placed(p, <<>>, g \union Ran(w), l, n) /\ Placed(p, <<>>, g, l \union Ran(w), n)
  BY RanOfFew DEF Placed
<1>. QED
  BY <1>2, <1>3

\* What stands in the prompt is submitted or taken back.
LEMMA PromptLeaves ==
  ASSUME NEW p, NEW w, NEW g, NEW l, NEW n, Placed(p, w, g, l, n)
  PROVE  TC!Range(p) = Ran(p) /\ Placed(<<>>, w, g \union Ran(p), l, n)
<1>1. p \in Seq(Nat)
  BY DEF Placed
<1>2. TC!Range(p) = Ran(p)
  BY <1>1, RanIsRange
<1>3. Placed(<<>>, w, g \union Ran(p), l, n)
  BY RanOfFew DEF Placed
<1>. QED
  BY <1>2, <1>3

-----------------------------------------------------------------------------
(***************************************************************************)
(* Typing that moves into the box.  Who composes in the box does so in one *)
(* that is there; what the tracker counts is no less than what stands in   *)
(* the prompt, unless it does not know or a key was missed; and a loss, a  *)
(* road that is shut or a composition whose box has gone is a disturbance. *)
(***************************************************************************)
Triggers == [set : BOOLEAN, known : BOOLEAN, typed : Seq(Nat), before : Seq(Nat)]
Boxes    == [open : BOOLEAN, text : Seq(Nat), trig : Triggers]

BoxTyped == box \in Boxes /\ draft \in Seq(Nat)
BoxThere ==
  /\ focused = "box" => box.open
  /\ comp = "box" => box.open
  /\ tc.moving => comp = "term"
PromptKnown ==
  /\ pending \in Nat
  /\ pending # TC!Unknown /\ ~missed => Len(pty) <= pending
TcTyped == tc \in [armed : BOOLEAN, passed : BOOLEAN, moving : BOOLEAN]
RoadKnown == (usable /\ ~covered /\ ~injected) \/ disturbed
NoneLost == lost = {} \/ disturbed
MovesKnown == (tc.armed \/ tc.moving) => box.open \/ disturbed
TypingInv ==
  /\ TcTyped /\ BoxTyped /\ BoxThere /\ PromptKnown /\ RoadKnown /\ NoneLost /\ MovesKnown
  /\ Placed(pty, TC!Written, gone, lost, typed) /\ Undoable(undo, gone)

LEMMA ClosedIsBox == TC!ClosedBox \in Boxes /\ ~TC!ClosedBox.open
<1>1. <<>> \in Seq(Nat)
  OBVIOUS
<1>. QED
  BY <1>1 DEF TC!ClosedBox, TC!NoTrigger, Boxes, Triggers

Edited(b, t)  == [b EXCEPT !.text = t]
Cleared(b, t) == [b EXCEPT !.text = t, !.trig = TC!NoTrigger]
LEMMA BoxEdited ==
  ASSUME NEW b \in Boxes, NEW t \in Seq(Nat)
  PROVE  /\ Edited(b, t) \in Boxes /\ Edited(b, t).open = b.open /\ Edited(b, t).text = t
         /\ Cleared(b, t) \in Boxes /\ Cleared(b, t).open = b.open /\ Cleared(b, t).text = t
<1>1. b.text \in Seq(Nat) /\ b.trig \in Triggers /\ b.open \in BOOLEAN /\ <<>> \in Seq(Nat)
  BY DEF Boxes
<1>2. TC!NoTrigger \in Triggers
  BY <1>1 DEF Triggers, TC!NoTrigger
<1>3. Edited(b, t) \in Boxes /\ Edited(b, t).open = b.open /\ Edited(b, t).text = t
  BY <1>1 DEF Boxes, Edited
<1>4. Cleared(b, t) \in Boxes /\ Cleared(b, t).open = b.open /\ Cleared(b, t).text = t
  BY <1>1, <1>2 DEF Boxes, Cleared
<1>. QED
  BY <1>3, <1>4

\* The operators of the box: what they do to its text.
LEMMA BoxOperators ==
  ASSUME NEW b \in Boxes, NEW t \in Seq(Nat)
  PROVE  /\ TC!BeginTyped(b, t) \in Boxes /\ TC!BeginTyped(b, t).open = b.open
         /\ TC!BeginTyped(b, t).text = b.text \o t
         /\ TC!BeginIme(b) \in Boxes /\ TC!BeginIme(b).open = b.open
         /\ TC!BeginIme(b).text = b.text
         /\ TC!AdoptCommitted(b, t) \in Boxes /\ TC!AdoptCommitted(b, t).open = b.open
         /\ TC!AdoptCommitted(b, t).text = b.text \o t
<1>1. b.text \in Seq(Nat) /\ b.trig \in Triggers /\ b.open \in BOOLEAN /\ <<>> \in Seq(Nat)
  BY DEF Boxes
<1>2. b.text \o t \in Seq(Nat)
  BY <1>1
<1>3. \A g \in Triggers : /\ [b EXCEPT !.text = b.text \o t, !.trig = g] \in Boxes
                          /\ [b EXCEPT !.text = b.text \o t, !.trig = g].open = b.open
                          /\ [b EXCEPT !.text = b.text \o t, !.trig = g].text = b.text \o t
                          /\ [b EXCEPT !.trig = g] \in Boxes
                          /\ [b EXCEPT !.trig = g].open = b.open
                          /\ [b EXCEPT !.trig = g].text = b.text
  BY <1>1, <1>2 DEF Boxes
<1>4. /\ [set |-> TRUE, known |-> TRUE, typed |-> t, before |-> b.text] \in Triggers
      /\ [set |-> TRUE, known |-> FALSE, typed |-> <<>>, before |-> b.text] \in Triggers
  BY <1>1 DEF Triggers
<1>5. [b.trig EXCEPT !.known = TRUE, !.typed = t] \in Triggers
  BY <1>1 DEF Triggers
<1>6. /\ TC!BeginTyped(b, t) \in Boxes /\ TC!BeginTyped(b, t).open = b.open
      /\ TC!BeginTyped(b, t).text = b.text \o t
  BY <1>3, <1>4 DEF TC!BeginTyped
<1>7. /\ TC!BeginIme(b) \in Boxes /\ TC!BeginIme(b).open = b.open
      /\ TC!BeginIme(b).text = b.text
  BY <1>3, <1>4 DEF TC!BeginIme
<1>8. /\ TC!AdoptCommitted(b, t) \in Boxes /\ TC!AdoptCommitted(b, t).open = b.open
      /\ TC!AdoptCommitted(b, t).text = b.text \o t
  <2>. DEFINE g == IF b.trig.set /\ ~b.trig.known
                   THEN [b.trig EXCEPT !.known = TRUE, !.typed = t] ELSE b.trig
  <2>1. g \in Triggers
    BY <1>1, <1>5
  <2>2. TC!AdoptCommitted(b, t) = [b EXCEPT !.text = b.text \o t, !.trig = g]
    BY DEF TC!AdoptCommitted
  <2>. QED
    BY <1>3, <2>1, <2>2
<1>. QED
  BY <1>6, <1>7, <1>8

LEMMA CompositionNoted ==
  ASSUME NEW b \in Boxes
  PROVE  /\ TC!NoteCompositionEnd(b) \in Boxes /\ TC!NoteCompositionEnd(b).open = b.open
         /\ TC!NoteCompositionEnd(b).text = b.text
<1>1. b.text \in Seq(Nat) /\ b.trig \in Triggers /\ b.trig.before \in Seq(Nat)
  BY DEF Boxes, Triggers
<1>. DEFINE rest == SubSeq(b.text, Len(b.trig.before) + 1, Len(b.text))
<1>2. rest \in Seq(Nat)
  <2>1. Len(b.trig.before) + 1 \in Int /\ Len(b.text) \in Int /\ Len(b.trig.before) + 1 >= 1
    BY <1>1
  <2>2. \A i \in Len(b.trig.before) + 1 .. Len(b.text) : b.text[i] \in Nat
    BY <1>1, <2>1
  <2>. QED
    BY <2>1, <2>2, SubSeqProperties
<1>3. [b.trig EXCEPT !.known = TRUE, !.typed = rest] \in Triggers /\ TC!NoTrigger \in Triggers
  <2>1. <<>> \in Seq(Nat)
    OBVIOUS
  <2>. HIDE DEF rest
  <2>. QED
    BY <1>1, <1>2, <2>1 DEF Triggers, TC!NoTrigger
<1>4. \A g \in Triggers : /\ [b EXCEPT !.trig = g] \in Boxes /\ [b EXCEPT !.trig = g].open = b.open
                          /\ [b EXCEPT !.trig = g].text = b.text
  BY DEF Boxes
<1>5. \/ TC!NoteCompositionEnd(b) = b
      \/ TC!NoteCompositionEnd(b) =
           [b EXCEPT !.trig = [b.trig EXCEPT !.known = TRUE, !.typed = rest]]
      \/ TC!NoteCompositionEnd(b) = [b EXCEPT !.trig = TC!NoTrigger]
  BY DEF TC!NoteCompositionEnd
<1>. DEFINE known == [b.trig EXCEPT !.known = TRUE, !.typed = rest]
<1>6. CASE TC!NoteCompositionEnd(b) = b
  BY <1>6
<1>7. CASE TC!NoteCompositionEnd(b) = [b EXCEPT !.trig = known]
  <2>. HIDE DEF known
  <2>. QED
    BY <1>3, <1>4, <1>7 DEF known
<1>8. CASE TC!NoteCompositionEnd(b) = [b EXCEPT !.trig = TC!NoTrigger]
  BY <1>3, <1>4, <1>8
<1>. QED
  BY <1>5, <1>6, <1>7, <1>8

LEMMA Assembles ==
  ASSUME TypingInv, UNCHANGED <<usable, covered, injected, disturbed>>,
         TcTyped', BoxTyped', BoxThere', PromptKnown', NoneLost', MovesKnown',
         Placed(pty', TC!Written', gone', lost', typed'), Undoable(undo', gone')
  PROVE  TypingInv'
<1>1. RoadKnown'
  BY DEF TypingInv, RoadKnown
<1>. QED
  BY <1>1 DEF TypingInv

LEMMA WrittenIs ==
  /\ box.open => TC!Written = box.text
  /\ ~box.open => TC!Written = draft
  /\ box'.open => TC!Written' = box'.text
  /\ ~box'.open => TC!Written' = draft'
  /\ UNCHANGED <<box, draft>> => TC!Written' = TC!Written
BY DEF TC!Written

LEMMA WhereItStands ==
  ASSUME TypingInv
  PROVE  /\ pty \in Seq(Nat) /\ TC!Written \in Seq(Nat) /\ typed \in Nat /\ undo \in Seq(Nat)
         /\ Distinct(pty) /\ Distinct(TC!Written) /\ Distinct(undo)
         /\ <<>> \in Seq(Nat) /\ <<typed + 1>> \in Seq(Nat)
         /\ Placed(pty, TC!Written, gone, lost, typed)
         /\ TC!Range(undo) = Ran(undo) /\ Undoable(undo, gone)
<1>1. Placed(pty, TC!Written, gone, lost, typed) /\ Undoable(undo, gone)
  BY DEF TypingInv
<1>2. undo \in Seq(Nat) /\ TC!Range(undo) = Ran(undo)
  BY <1>1, RanIsRange DEF Undoable
<1>3. typed \in Nat /\ typed + 1 \in Nat
  BY <1>1 DEF Placed
<1>. QED
  BY <1>1, <1>2, <1>3, RanOfFew DEF Placed, Undoable

\* A box that opens shows the draft, or the host's, and the draft is lost.
LEMMA OpenedShowsDraft ==
  ASSUME TypingInv, TC!LosesDraft
  PROVE  /\ TC!Opened \in Boxes /\ TC!Opened.open /\ TC!Opened.text \in Seq(Nat)
         /\ Placed(pty, TC!Opened.text, gone, lost', typed)
         /\ lost' = {} \/ disturbed
<1>1. box \in Boxes /\ draft \in Seq(Nat) /\ RoadKnown /\ NoneLost
  BY DEF TypingInv, BoxTyped
<1>2. TC!NoTrigger \in Triggers
  BY RanOfFew DEF TC!NoTrigger, Triggers
<1>3. Placed(pty, TC!Written, gone, lost, typed)
  BY WhereItStands
<1>4. CASE box.open
  <2>1. TC!Opened = box /\ lost' = lost \union {}
    BY <1>4 DEF TC!Opened, TC!LosesDraft
  <2>2. TC!Written = box.text /\ box.text \in Seq(Nat)
    BY <1>1, <1>4, WrittenIs DEF Boxes
  <2>3. lost' = lost
    BY <2>1
  <2>. QED
    BY <1>1, <1>3, <1>4, <2>1, <2>2, <2>3 DEF NoneLost
<1>5. CASE ~box.open /\ ~injected
  <2>. DEFINE fresh == [open |-> TRUE, text |-> draft, trig |-> TC!NoTrigger]
  <2>1. fresh \in Boxes /\ fresh.open /\ fresh.text = draft
    BY <1>1, <1>2 DEF Boxes
  <2>2. TC!Opened = fresh /\ lost' = lost \union {}
    BY <1>5 DEF TC!Opened, TC!LosesDraft
  <2>3. lost' = lost /\ TC!Written = draft
    BY <1>5, <2>2, WrittenIs
  <2>. HIDE DEF fresh
  <2>. QED
    BY <1>1, <1>3, <2>1, <2>2, <2>3 DEF NoneLost
<1>6. CASE ~box.open /\ injected
  <2>. DEFINE fresh == [open |-> TRUE, text |-> <<>>, trig |-> TC!NoTrigger]
  <2>1. fresh \in Boxes /\ fresh.open /\ fresh.text = <<>>
    BY <1>2, RanOfFew DEF Boxes
  <2>2. TC!Opened = fresh /\ lost' = lost \union TC!Range(draft) /\ TC!Written = draft
    BY <1>6, WrittenIs DEF TC!Opened, TC!LosesDraft
  <2>. HIDE DEF fresh
  <2>3. TC!Range(draft) = Ran(draft) /\ Placed(pty, <<>>, gone, lost \union Ran(draft), typed)
    BY <1>3, <2>2, WrittenLeaves
  <2>4. disturbed
    BY <1>1, <1>6 DEF RoadKnown
  <2>. QED
    BY <2>1, <2>2, <2>3, <2>4, RanOfFew
<1>. QED
  BY <1>4, <1>5, <1>6

\* What is sent stands in the prompt, or is lost where nothing takes it; and
\* the tracker counts no less than what arrived.
LEMMA SentArrives ==
  ASSUME TypingInv, MaxTyped \in Nat, NEW t \in Seq(Nat), TC!Sent(t), missed' = missed,
         NEW w, NEW n, Placed(pty \o t, w, gone, lost, n), Placed(pty, w, gone, lost \union Ran(t), n)
  PROVE  /\ PromptKnown' /\ Placed(pty', w, gone, lost', n)
         /\ lost' = {} \/ disturbed
<1>1. PromptKnown /\ pty \in Seq(Nat) /\ RoadKnown /\ NoneLost
  BY WhereItStands DEF TypingInv
<1>2. /\ pending' = IF covered \/ pending = TC!Unknown THEN pending ELSE pending + Len(t)
      /\ IF usable /\ ~covered THEN pty' = pty \o t /\ lost' = lost
         ELSE lost' = lost \union TC!Range(t) /\ pty' = pty
  BY DEF TC!Sent
<1>3. /\ Len(pty \o t) = Len(pty) + Len(t) /\ Len(t) \in Nat /\ Len(pty) \in Nat
      /\ TC!Unknown' = TC!Unknown /\ pending \in Nat /\ TC!Range(t) = Ran(t)
  BY <1>1, RanIsRange DEF TC!Unknown, PromptKnown
<1>4. pending # TC!Unknown /\ ~missed => Len(pty) <= pending
  BY <1>1 DEF PromptKnown
<1>5. CASE usable /\ ~covered
  <2>1. pty' = pty \o t /\ lost' = lost
    BY <1>2, <1>5
  <2>2. pending' \in Nat
    BY <1>2, <1>3
  <2>3. pending' # TC!Unknown /\ ~missed => Len(pty') <= pending'
    BY <1>2, <1>3, <1>4, <1>5, <2>1
  <2>. QED
    BY <1>1, <1>3, <2>1, <2>2, <2>3 DEF PromptKnown, NoneLost
<1>6. CASE ~(usable /\ ~covered)
  <2>1. pty' = pty /\ lost' = lost \union Ran(t)
    BY <1>2, <1>3, <1>6
  <2>2. pending' \in Nat
    BY <1>2, <1>3
  <2>3. pending' # TC!Unknown /\ ~missed => Len(pty') <= pending'
    BY <1>2, <1>3, <1>4, <2>1
  <2>4. disturbed
    BY <1>1, <1>6 DEF RoadKnown
  <2>. QED
    BY <1>3, <2>1, <2>2, <2>3, <2>4 DEF PromptKnown
<1>. QED
  BY <1>5, <1>6

\* What is sent with a return is gone with the prompt, or lost where no socket
\* takes it.
LEMMA SubmitsLeave ==
  ASSUME TypingInv, MaxTyped \in Nat, NEW t \in Seq(Nat), TC!Submits(t),
         NEW w, w \in Seq(Nat), Distinct(w), Ran(w) \cap Ran(t) = {},
         Ran(TC!Written) = Ran(w) \union Ran(t)
  PROVE  /\ PromptKnown' /\ Placed(pty', w, gone', lost', typed) /\ Undoable(undo, gone')
         /\ lost' = {} \/ disturbed
<1>1. /\ PromptKnown /\ pty \in Seq(Nat) /\ RoadKnown /\ NoneLost
      /\ Placed(pty, TC!Written, gone, lost, typed) /\ Undoable(undo, gone)
  BY WhereItStands DEF TypingInv
<1>2. TC!Range(t) = Ran(t) /\ TC!Range(t \o pty) = Ran(t) \union Ran(pty)
  <2>1. t \o pty \in Seq(Nat) /\ Ran(t \o pty) = Ran(t) \union Ran(pty)
    BY <1>1, RanOfJoined
  <2>2. TC!Range(t \o pty) = Ran(t \o pty)
    BY <2>1, RanIsRange
  <2>3. TC!Range(t) = Ran(t)
    BY RanIsRange
  <2>. QED
    BY <2>1, <2>2, <2>3
<1>3. CASE usable
  <2>1. pty' = <<>> /\ pending' = 0 /\ lost' = lost /\ gone' = gone \union Ran(t) \union Ran(pty)
    BY <1>2, <1>3 DEF TC!Submits
  <2>2. Placed(pty', w, gone', lost', typed)
    BY <1>1, <2>1, RanOfFew DEF Placed
  <2>3. PromptKnown' /\ Undoable(undo, gone')
    BY <1>1, <2>1 DEF PromptKnown, Undoable
  <2>. QED
    BY <1>1, <2>1, <2>2, <2>3 DEF NoneLost
<1>4. CASE ~usable
  <2>1. /\ pty' = pty /\ pending' = 0 /\ lost' = lost \union Ran(t) /\ gone' = gone
        /\ missed' = IF ~usable /\ pty # <<>> THEN TRUE ELSE FALSE
    BY <1>2, <1>4 DEF TC!Submits
  <2>2. Placed(pty', w, gone', lost', typed)
    BY <1>1, <2>1 DEF Placed
  <2>3. missed' \/ pty = <<>>
    BY <1>4, <2>1
  <2>4. Len(pty) <= 0 \/ missed'
    BY <2>3
  <2>5. PromptKnown' /\ Undoable(undo, gone')
    BY <1>1, <2>1, <2>4 DEF PromptKnown
  <2>6. disturbed
    BY <1>1, <1>4 DEF RoadKnown
  <2>. QED
    BY <2>2, <2>5, <2>6
<1>. QED
  BY <1>3, <1>4

LEMMA TypingBegins ==
  ASSUME TC!TcInit
  PROVE  TypingInv
<1>1. /\ typed = 0 /\ pty = <<>> /\ gone = {} /\ lost = {} /\ pending = 0 /\ focused = "term"
      /\ box = TC!ClosedBox /\ draft = <<>> /\ undo = <<>> /\ comp = "none"
      /\ tc = [armed |-> FALSE, passed |-> FALSE, moving |-> FALSE]
      /\ usable /\ ~covered /\ ~injected
  BY DEF TC!TcInit, TC!Quiet
<1>2. TcTyped /\ ~tc.armed /\ ~tc.moving
  BY <1>1 DEF TcTyped
<1>3. BoxTyped /\ BoxThere /\ MovesKnown
  BY <1>1, <1>2, ClosedIsBox, RanOfFew DEF BoxTyped, BoxThere, MovesKnown
<1>4. PromptKnown /\ RoadKnown /\ NoneLost
  BY <1>1 DEF PromptKnown, RoadKnown, NoneLost
<1>5. 1 .. 0 = {} /\ 0 \in Nat
  OBVIOUS
<1>6. TC!Written = <<>>
  BY <1>1, ClosedIsBox, WrittenIs
<1>7. Placed(pty, TC!Written, gone, lost, typed) /\ Undoable(undo, gone)
  BY <1>1, <1>5, <1>6, RanOfFew DEF Placed, Undoable
<1>. QED
  BY <1>2, <1>3, <1>4, <1>7 DEF TypingInv

LEMMA KeyInTermKeeps ==
  ASSUME TypingInv, TC!KeyInTerm, MaxTyped \in Nat
  PROVE  TypingInv'
<1>1. /\ comp = "none" /\ typed' = typed + 1 /\ tc' = [tc EXCEPT !.moving = FALSE]
      /\ UNCHANGED <<gone, undo, comp, missed, disturbed, usable, covered, injected>>
  BY DEF TC!KeyInTerm, TC!Types, TC!Next1, TC!worldVars
<1>2. /\ TcTyped /\ BoxTyped /\ BoxThere /\ PromptKnown /\ NoneLost /\ MovesKnown
      /\ Placed(pty, TC!Written, gone, lost, typed) /\ Undoable(undo, gone)
  BY DEF TypingInv
<1>3. TcTyped' /\ tc'.armed = tc.armed /\ ~tc'.moving
  BY <1>1, <1>2 DEF TcTyped
<1>4. <<typed + 1>> \in Seq(Nat) /\ pty \in Seq(Nat)
  BY WhereItStands
<1>5. CASE /\ box' = TC!BeginTyped(TC!Opened, <<typed + 1>>) /\ draft' = box'.text
           /\ focused' = "box" /\ TC!LosesDraft /\ UNCHANGED <<pty, pending>>
  <2>. DEFINE key == <<typed + 1>>
              old == TC!Opened.text
  <2>1. /\ TC!Opened \in Boxes /\ TC!Opened.open /\ old \in Seq(Nat) /\ key \in Seq(Nat)
        /\ Placed(pty, old, gone, lost', typed) /\ (lost' = {} \/ disturbed)
    BY <1>4, <1>5, OpenedShowsDraft
  <2>2. Placed(pty, old \o key, gone, lost', typed + 1)
    BY <2>1, TypedIntoBox
  <2>3. box' = TC!BeginTyped(TC!Opened, key) /\ draft' = box'.text
    BY <1>5
  <2>. HIDE DEF key
  <2>4. box' \in Boxes /\ box'.open /\ box'.text = old \o key /\ old \o key \in Seq(Nat)
    <3>1. /\ TC!BeginTyped(TC!Opened, key) \in Boxes
          /\ TC!BeginTyped(TC!Opened, key).open = TC!Opened.open
          /\ TC!BeginTyped(TC!Opened, key).text = TC!Opened.text \o key
      BY <2>1, BoxOperators
    <3>2. old \o key \in Seq(Nat)
      BY <2>1
    <3>. QED
      BY <2>1, <2>3, <3>1, <3>2
  <2>5. Placed(pty', TC!Written', gone', lost', typed') /\ Undoable(undo', gone')
    BY <1>1, <1>2, <1>5, <2>2, <2>4, WrittenIs
  <2>6. BoxTyped' /\ BoxThere' /\ PromptKnown' /\ NoneLost' /\ MovesKnown'
    BY <1>1, <1>2, <1>3, <1>5, <2>1, <2>3, <2>4
       DEF BoxTyped, BoxThere, PromptKnown, NoneLost, MovesKnown, TC!Unknown
  <2>. QED
    BY <1>1, <1>3, <2>5, <2>6, Assembles
<1>6. CASE TC!Sent(<<typed + 1>>) /\ UNCHANGED <<box, draft, focused>>
  <2>1. /\ Placed(pty \o <<typed + 1>>, TC!Written, gone, lost, typed + 1)
        /\ Placed(pty, TC!Written, gone, lost \union Ran(<<typed + 1>>), typed + 1)
    <3>1. Ran(<<typed + 1>>) = {typed + 1}
      BY WhereItStands, RanOfFew
    <3>. QED
      BY <1>2, <3>1, TypedIntoTerminal, TypedAway
  <2>2. /\ PromptKnown' /\ Placed(pty', TC!Written, gone, lost', typed + 1)
        /\ (lost' = {} \/ disturbed)
    BY <1>1, <1>4, <1>6, <2>1, SentArrives
  <2>3. Placed(pty', TC!Written', gone', lost', typed') /\ Undoable(undo', gone')
    BY <1>1, <1>2, <1>6, <2>2, WrittenIs
  <2>4. BoxTyped' /\ BoxThere' /\ NoneLost' /\ MovesKnown'
    BY <1>1, <1>2, <1>3, <1>6, <2>2 DEF BoxTyped, BoxThere, NoneLost, MovesKnown
  <2>. QED
    BY <1>1, <1>3, <2>2, <2>3, <2>4, Assembles
<1>. QED
  BY <1>5, <1>6 DEF TC!KeyInTerm, TC!Next1

\* A box that is opened for a composition.
LEMMA ImeOpens ==
  ASSUME TypingInv, box' = TC!BeginIme(TC!Opened), focused' = "box", TC!LosesDraft,
         TcTyped', tc'.moving => comp' = "term",
         UNCHANGED <<typed, pty, gone, pending, draft, undo, missed, disturbed,
                     usable, covered, injected>>
  PROVE  TypingInv'
<1>1. /\ TC!Opened \in Boxes /\ TC!Opened.open
      /\ Placed(pty, TC!Opened.text, gone, lost', typed) /\ (lost' = {} \/ disturbed)
  BY OpenedShowsDraft
<1>2. box' \in Boxes /\ box'.open /\ box'.text = TC!Opened.text
  BY <1>1, RanOfFew, BoxOperators
<1>3. Placed(pty', TC!Written', gone', lost', typed') /\ Undoable(undo', gone')
  BY <1>1, <1>2, WrittenIs, WhereItStands
<1>4. BoxTyped' /\ BoxThere' /\ PromptKnown' /\ NoneLost' /\ MovesKnown'
  BY <1>1, <1>2
     DEF TypingInv, BoxTyped, BoxThere, PromptKnown, NoneLost, MovesKnown, TC!Unknown
<1>. QED
  BY <1>3, <1>4, Assembles

\* The text and the prompt as they were.
LEMMA TextStays ==
  ASSUME TypingInv, TcTyped', BoxThere',
         (tc'.armed \/ tc'.moving) => tc.armed \/ tc.moving \/ box.open,
         UNCHANGED <<typed, pty, gone, lost, pending, box, draft, undo, missed, disturbed,
                     usable, covered, injected>>
  PROVE  TypingInv'
<1>1. Placed(pty', TC!Written', gone', lost', typed') /\ Undoable(undo', gone')
  BY WrittenIs, WhereItStands
<1>2. BoxTyped' /\ PromptKnown' /\ NoneLost' /\ MovesKnown'
  BY DEF TypingInv, BoxTyped, PromptKnown, NoneLost, MovesKnown, TC!Unknown
<1>. QED
  BY <1>1, <1>2, Assembles

LEMMA ImeKeyKeeps ==
  ASSUME TypingInv, TC!ImeKey
  PROVE  TypingInv'
<1>1. /\ comp = "none"
      /\ UNCHANGED <<typed, pty, gone, pending, draft, undo, comp, missed, disturbed,
                     usable, covered, injected>>
  BY DEF TC!ImeKey, TC!worldVars
<1>2. TcTyped /\ BoxThere
  BY DEF TypingInv
<1>3. CASE /\ tc' = [tc EXCEPT !.moving = FALSE, !.armed = TRUE]
           /\ box' = TC!BeginIme(TC!Opened) /\ focused' = "box" /\ TC!LosesDraft
  <2>1. TcTyped' /\ ~tc'.moving
    BY <1>2, <1>3 DEF TcTyped
  <2>. QED
    BY <1>1, <1>3, <2>1, ImeOpens
<1>4. CASE /\ tc' = [tc EXCEPT !.moving = FALSE, !.passed = TRUE]
           /\ UNCHANGED <<box, focused, lost>>
  <2>1. TcTyped' /\ ~tc'.moving /\ tc'.armed = tc.armed
    BY <1>2, <1>4 DEF TcTyped
  <2>2. BoxThere'
    BY <1>1, <1>2, <1>4, <2>1 DEF BoxThere
  <2>. QED
    BY <1>1, <1>4, <2>1, <2>2, TextStays
<1>. QED
  BY <1>3, <1>4 DEF TC!ImeKey

LEMMA ImeWindowOverKeeps ==
  ASSUME TypingInv, TC!ImeWindowOver
  PROVE  TypingInv'
<1>1. /\ tc' = [tc EXCEPT !.armed = FALSE, !.passed = FALSE]
      /\ UNCHANGED <<typed, pty, gone, lost, pending, focused, box, draft, undo, comp, missed,
                     disturbed, usable, covered, injected>>
  BY DEF TC!ImeWindowOver, TC!worldVars
<1>2. TcTyped /\ BoxThere
  BY DEF TypingInv
<1>3. TcTyped' /\ ~tc'.armed /\ tc'.moving = tc.moving
  BY <1>1, <1>2 DEF TcTyped
<1>4. BoxThere'
  BY <1>1, <1>2, <1>3 DEF BoxThere
<1>. QED
  BY <1>1, <1>3, <1>4, TextStays

LEMMA StartsKeep ==
  ASSUME TypingInv, TC!StartInTerm \/ TC!StartInBox
  PROVE  TypingInv'
<1>1. /\ comp = "none"
      /\ UNCHANGED <<typed, pty, gone, pending, draft, undo, missed, disturbed,
                     usable, covered, injected>>
  BY DEF TC!StartInTerm, TC!StartInBox, TC!worldVars
<1>2. TcTyped /\ BoxThere /\ ~tc.moving
  BY <1>1 DEF TypingInv, BoxThere
<1>3. CASE /\ comp' = "term" /\ UNCHANGED <<box, focused, lost>>
           /\ tc' = [tc EXCEPT !.armed = FALSE, !.passed = FALSE]
  <2>1. TcTyped' /\ ~tc'.moving /\ ~tc'.armed
    BY <1>2, <1>3 DEF TcTyped
  <2>2. BoxThere'
    BY <1>2, <1>3, <2>1 DEF BoxThere
  <2>. QED
    BY <1>1, <1>3, <2>1, <2>2, TextStays
<1>4. CASE /\ comp' = "term" /\ tc' = [armed |-> FALSE, passed |-> FALSE, moving |-> TRUE]
           /\ tc.armed /\ UNCHANGED <<box, focused, lost>>
  <2>1. TcTyped' /\ ~tc'.armed
    BY <1>4 DEF TcTyped
  <2>2. BoxThere'
    BY <1>2, <1>4 DEF BoxThere
  <2>. QED
    BY <1>1, <1>4, <2>1, <2>2, TextStays
<1>5. CASE /\ comp' = "term" /\ tc' = [armed |-> FALSE, passed |-> FALSE, moving |-> TRUE]
           /\ box' = TC!BeginIme(TC!Opened) /\ focused' = "box" /\ TC!LosesDraft
  <2>1. TcTyped'
    BY <1>5 DEF TcTyped
  <2>. QED
    BY <1>1, <1>5, <2>1, ImeOpens
<1>6. CASE comp' = "box" /\ focused = "box" /\ UNCHANGED <<box, focused, tc, lost>>
  <2>1. TcTyped' /\ BoxThere'
    BY <1>2, <1>6 DEF TcTyped, BoxThere
  <2>. QED
    BY <1>1, <1>6, <2>1, TextStays
<1>. QED
  BY <1>3, <1>4, <1>5, <1>6 DEF TC!StartInTerm, TC!StartInBox

\* A composition ends in a text, new or empty, into the terminal, the box or
\* nowhere.
LEMMA EndsKeep ==
  ASSUME TypingInv, NEW t \in Seq(Nat), TC!EndsInTerm(t) \/ TC!EndsInBox(t), MaxTyped \in Nat,
         UNCHANGED <<gone, focused, undo, missed, disturbed, usable, covered, injected>>,
         Placed(pty \o t, TC!Written, gone, lost, typed'),
         Placed(pty, TC!Written \o t, gone, lost, typed'),
         Placed(pty, TC!Written, gone, lost \union Ran(t), typed'),
         t = <<>> => TC!Written \o t = TC!Written
  PROVE  TypingInv'
<1>1. /\ TcTyped /\ BoxTyped /\ BoxThere /\ PromptKnown /\ NoneLost /\ MovesKnown
      /\ pty \in Seq(Nat) /\ box \in Boxes /\ TC!Range(t) = Ran(t) /\ Undoable(undo, gone)
  BY WhereItStands, RanIsRange DEF TypingInv, BoxTyped
<1>2. CASE TC!EndsInTerm(t)
  <2>1. comp = "term" /\ comp' = "none" /\ tc' = [tc EXCEPT !.moving = FALSE]
    BY <1>2 DEF TC!EndsInTerm
  <2>2. TcTyped' /\ ~tc'.moving /\ tc'.armed = tc.armed
    BY <1>1, <2>1 DEF TcTyped
  <2>3. CASE TC!Sent(t) /\ UNCHANGED <<box, draft>>
    <3>1. /\ PromptKnown' /\ Placed(pty', TC!Written, gone, lost', typed')
          /\ (lost' = {} \/ disturbed)
      BY <2>3, SentArrives
    <3>2. Placed(pty', TC!Written', gone', lost', typed') /\ Undoable(undo', gone')
      BY <1>1, <2>3, <3>1, WrittenIs
    <3>3. BoxTyped' /\ BoxThere' /\ NoneLost' /\ MovesKnown'
      BY <1>1, <2>1, <2>2, <2>3, <3>1 DEF BoxTyped, BoxThere, NoneLost, MovesKnown
    <3>. QED
      BY <2>2, <3>1, <3>2, <3>3, Assembles
  <2>4. CASE /\ box.open /\ UNCHANGED <<pty, pending, lost>>
             /\ box' = IF t = <<>> THEN box ELSE TC!AdoptCommitted(box, t)
             /\ draft' = IF t = <<>> THEN draft ELSE box'.text
    <3>1. TC!Written = box.text /\ draft \in Seq(Nat) /\ box.text \in Seq(Nat)
      BY <1>1, <2>4, WrittenIs DEF BoxTyped, Boxes
    <3>2. box' \in Boxes /\ box'.open /\ box'.text = TC!Written \o t
      BY <1>1, <2>4, <3>1, BoxOperators
    <3>3. Placed(pty', TC!Written', gone', lost', typed') /\ Undoable(undo', gone')
      BY <1>1, <2>4, <3>2, WrittenIs
    <3>4. draft' \in Seq(Nat)
      <4>1. box'.text \in Seq(Nat)
        BY <3>2 DEF Boxes
      <4>. QED
        BY <2>4, <3>1, <4>1
    <3>5. BoxTyped' /\ BoxThere' /\ PromptKnown' /\ NoneLost' /\ MovesKnown'
      BY <1>1, <2>1, <2>2, <2>4, <3>2, <3>4
         DEF BoxTyped, BoxThere, PromptKnown, NoneLost, MovesKnown, TC!Unknown
    <3>. QED
      BY <2>2, <3>3, <3>5, Assembles
  <2>5. CASE /\ tc.moving /\ ~box.open /\ lost' = lost \union TC!Range(t)
             /\ UNCHANGED <<pty, pending, box, draft>>
    <3>1. disturbed
      BY <1>1, <2>5 DEF MovesKnown
    <3>2. Placed(pty', TC!Written', gone', lost', typed') /\ Undoable(undo', gone')
      BY <1>1, <2>5, WrittenIs
    <3>3. BoxTyped' /\ BoxThere' /\ PromptKnown' /\ NoneLost' /\ MovesKnown'
      BY <1>1, <2>1, <2>2, <2>5, <3>1
         DEF BoxTyped, BoxThere, PromptKnown, NoneLost, MovesKnown, TC!Unknown
    <3>. QED
      BY <2>2, <3>2, <3>3, Assembles
  <2>. QED
    BY <1>2, <2>3, <2>4, <2>5 DEF TC!EndsInTerm
<1>3. CASE TC!EndsInBox(t)
  <2>. DEFINE grown == [box EXCEPT !.text = box.text \o t]
  <2>1. /\ comp = "box" /\ comp' = "none" /\ draft' = box'.text
        /\ box' = TC!NoteCompositionEnd(grown)
        /\ UNCHANGED <<pty, pending, lost, tc>>
    BY <1>3 DEF TC!EndsInBox
  <2>2. box.open /\ TC!Written = box.text /\ ~tc.moving
    BY <1>1, <2>1, WrittenIs DEF BoxThere
  <2>3. box.text \o t \in Seq(Nat)
    BY <1>1 DEF Boxes
  <2>4. grown \in Boxes /\ grown.open = box.open /\ grown.text = TC!Written \o t
    <3>. DEFINE text == box.text \o t
    <3>1. text \in Seq(Nat) /\ text = TC!Written \o t /\ grown = Edited(box, text)
      BY <2>2, <2>3 DEF Edited
    <3>. HIDE DEF text, grown
    <3>. QED
      BY <1>1, <3>1, BoxEdited
  <2>. HIDE DEF grown
  <2>5. box' \in Boxes /\ box'.open /\ box'.text = TC!Written \o t /\ box'.text \in Seq(Nat)
    BY <2>1, <2>2, <2>3, <2>4, CompositionNoted
  <2>6. Placed(pty', TC!Written', gone', lost', typed') /\ Undoable(undo', gone')
    BY <1>1, <2>1, <2>5, WrittenIs
  <2>7. /\ TcTyped' /\ BoxTyped' /\ BoxThere' /\ PromptKnown' /\ NoneLost' /\ MovesKnown'
    BY <1>1, <2>1, <2>2, <2>5
       DEF TcTyped, BoxTyped, BoxThere, PromptKnown, NoneLost, MovesKnown, TC!Unknown
  <2>. QED
    BY <2>6, <2>7, Assembles
<1>. QED
  BY <1>2, <1>3

LEMMA CompositionEndsKeeps ==
  ASSUME TypingInv, TC!CompositionEnds, MaxTyped \in Nat
  PROVE  TypingInv'
<1>1. UNCHANGED <<gone, focused, undo, missed, disturbed, usable, covered, injected>>
  BY DEF TC!CompositionEnds, TC!worldVars
<1>2. /\ Placed(pty, TC!Written, gone, lost, typed)
      /\ pty \in Seq(Nat) /\ TC!Written \in Seq(Nat) /\ typed \in Nat
      /\ <<typed + 1>> \in Seq(Nat) /\ <<>> \in Seq(Nat)
  BY WhereItStands
<1>3. CASE typed' = typed + 1 /\ (TC!EndsInTerm(<<typed + 1>>) \/ TC!EndsInBox(<<typed + 1>>))
  <2>1. <<typed + 1>> # <<>> /\ Ran(<<typed + 1>>) = {typed + 1}
    BY <1>2, RanOfFew
  <2>2. /\ Placed(pty \o <<typed + 1>>, TC!Written, gone, lost, typed')
        /\ Placed(pty, TC!Written \o <<typed + 1>>, gone, lost, typed')
        /\ Placed(pty, TC!Written, gone, lost \union Ran(<<typed + 1>>), typed')
    BY <1>2, <1>3, <2>1, TypedIntoTerminal, TypedIntoBox, TypedAway
  <2>. QED
    BY <1>1, <1>2, <1>3, <2>1, <2>2, EndsKeep
<1>4. CASE typed' = typed /\ (TC!EndsInTerm(<<>>) \/ TC!EndsInBox(<<>>))
  <2>1. pty \o <<>> = pty /\ TC!Written \o <<>> = TC!Written
    BY <1>2
  <2>2. lost \union Ran(<<>>) = lost
    BY RanOfFew
  <2>3. /\ Placed(pty \o <<>>, TC!Written, gone, lost, typed')
        /\ Placed(pty, TC!Written \o <<>>, gone, lost, typed')
        /\ Placed(pty, TC!Written, gone, lost \union Ran(<<>>), typed')
    BY <1>2, <1>4, <2>1, <2>2
  <2>. QED
    BY <1>1, <1>2, <1>4, <2>1, <2>3, EndsKeep
<1>. QED
  BY <1>3, <1>4 DEF TC!CompositionEnds, TC!Types, TC!Next1

\* What the box holds is typed, deleted, cleared, brought back or replaced.
LEMMA EditingKeeps ==
  ASSUME TypingInv,
         TC!KeyInBox \/ TC!DeleteInBox \/ TC!ClearAll \/ TC!UndoClear \/ TC!PickText
  PROVE  TypingInv'
<1>1. /\ comp = "none" /\ box.open /\ focused' = "box"
      /\ UNCHANGED <<pty, lost, pending, tc, comp, missed, disturbed, usable, covered, injected>>
  BY DEF TC!KeyInBox, TC!DeleteInBox, TC!ClearAll, TC!UndoClear, TC!PickText, TC!InBox,
     TC!worldVars
<1>2. /\ TcTyped /\ BoxTyped /\ BoxThere /\ PromptKnown /\ NoneLost /\ MovesKnown
      /\ box \in Boxes /\ draft \in Seq(Nat)
      /\ TC!Written = box.text
  BY <1>1, WrittenIs DEF TypingInv, BoxTyped
<1>3. /\ Placed(pty, box.text, gone, lost, typed) /\ Undoable(undo, gone)
      /\ box.text \in Seq(Nat) /\ Distinct(box.text) /\ undo \in Seq(Nat) /\ typed \in Nat
      /\ TC!Range(box.text) = Ran(box.text) /\ TC!Range(undo) = Ran(undo)
      /\ <<>> \in Seq(Nat) /\ Distinct(undo)
  BY <1>2, WhereItStands, WrittenLeaves
<1>4. ASSUME NEW text \in Seq(Nat), draft' = text \/ draft' = draft,
             box' = Edited(box, text) \/ box' = Cleared(box, text),
             Placed(pty, text, gone', lost, typed'), Undoable(undo', gone')
      PROVE  TypingInv'
  <2>1. box' \in Boxes /\ box'.open /\ box'.text = text
    <3>1. /\ Edited(box, text) \in Boxes /\ Edited(box, text).open = box.open
          /\ Edited(box, text).text = text
          /\ Cleared(box, text) \in Boxes /\ Cleared(box, text).open = box.open
          /\ Cleared(box, text).text = text
      BY <1>2, <1>4, BoxEdited
    <3>. QED
      BY <1>1, <1>4, <3>1
  <2>2. TcTyped' /\ BoxTyped' /\ BoxThere' /\ PromptKnown' /\ NoneLost' /\ MovesKnown'
    BY <1>1, <1>2, <1>4, <2>1
       DEF TcTyped, BoxTyped, BoxThere, PromptKnown, NoneLost, MovesKnown, TC!Unknown
  <2>3. Placed(pty', TC!Written', gone', lost', typed')
    BY <1>1, <1>4, <2>1, WrittenIs
  <2>. QED
    BY <1>1, <1>4, <2>2, <2>3, Assembles
<1>5. CASE TC!KeyInBox
  <2>. DEFINE text == Append(box.text, typed + 1)
  <2>1. /\ box' = Edited(box, text) /\ draft' = box'.text
        /\ typed' = typed + 1 /\ UNCHANGED <<gone, undo>>
    BY <1>5 DEF TC!KeyInBox, TC!Types, TC!Next1, Edited
  <2>2. text \in Seq(Nat)
    BY <1>3
  <2>3. Placed(pty, text, gone', lost, typed') /\ Undoable(undo', gone')
    BY <1>3, <2>1, TypedIntoBox
  <2>. HIDE DEF text
  <2>4. draft' = text
    BY <1>2, <2>1, <2>2, BoxEdited
  <2>. QED
    BY <1>4, <2>1, <2>2, <2>3, <2>4
<1>6. CASE TC!DeleteInBox
  <2>. DEFINE text == SubSeq(box.text, 1, Len(box.text) - 1)
              x == box.text[Len(box.text)]
  <2>1. /\ box' = Edited(box, text) /\ draft' = box'.text /\ box.text # <<>>
        /\ gone' = gone \union {x} /\ UNCHANGED <<undo, typed>>
    BY <1>6 DEF TC!DeleteInBox, Edited
  <2>2. /\ text \in Seq(Nat) /\ Distinct(text) /\ x \in Ran(box.text)
        /\ Ran(text) = Ran(box.text) \ {x}
    BY <1>3, <2>1, RanOfFront
  <2>. HIDE DEF text, x
  <2>3. Placed(pty, text, gone', lost, typed') /\ Undoable(undo', gone')
    BY <1>3, <2>1, <2>2 DEF Placed, Undoable
  <2>4. draft' = text
    BY <1>2, <2>1, <2>2, BoxEdited
  <2>. QED
    BY <1>4, <2>1, <2>2, <2>3, <2>4
<1>7. CASE TC!ClearAll
  <2>1. /\ box' = Cleared(box, <<>>) /\ draft' = <<>>
        /\ undo' = box.text /\ gone' = gone \union Ran(box.text) /\ typed' = typed
    BY <1>3, <1>7 DEF TC!ClearAll, Cleared
  <2>2. Placed(pty, <<>>, gone', lost, typed') /\ Undoable(undo', gone')
    BY <1>3, <2>1, WrittenLeaves DEF Undoable
  <2>. QED
    BY <1>3, <1>4, <2>1, <2>2
<1>8. CASE TC!UndoClear
  <2>1. /\ box' = Edited(box, undo) /\ draft' = undo /\ undo' = <<>>
        /\ gone' = (gone \ Ran(undo)) \union Ran(box.text) /\ typed' = typed
    BY <1>3, <1>8 DEF TC!UndoClear, Edited
  <2>2. Placed(pty, undo, gone', lost, typed')
    BY <1>3, <2>1 DEF Placed, Undoable
  <2>3. Undoable(undo', gone')
    BY <2>1, RanOfFew DEF Undoable
  <2>. QED
    BY <1>3, <1>4, <2>1, <2>2, <2>3
<1>9. CASE TC!PickText
  <2>1. /\ box' = Edited(box, <<>>) /\ gone' = gone \union Ran(box.text)
        /\ UNCHANGED <<typed, draft, undo>>
    BY <1>3, <1>9 DEF TC!PickText, Edited
  <2>2. Placed(pty, <<>>, gone', lost, typed') /\ Undoable(undo', gone')
    BY <1>3, <2>1, WrittenLeaves DEF Undoable
  <2>. QED
    BY <1>3, <1>4, <2>1, <2>2
<1>. QED
  BY <1>5, <1>6, <1>7, <1>8, <1>9

\* The box goes; what Undo would have brought back goes with it.
LEMMA ShutKeeps ==
  ASSUME TypingInv, TC!Shut, UNCHANGED <<typed, tc, usable, covered, injected>>,
         comp' # "box", tc.moving => comp' = "term", PromptKnown',
         NEW d \in Seq(Nat), draft' = d, Placed(pty', d, gone', lost', typed),
         lost' = {} \/ disturbed
  PROVE  TypingInv'
<1>1. /\ box' = TC!ClosedBox /\ focused' = "term" /\ undo' = <<>>
      /\ disturbed' = IF tc.armed \/ tc.moving THEN TRUE ELSE disturbed
  BY DEF TC!Shut
<1>2. box' \in Boxes /\ ~box'.open /\ TC!Written' = d
  BY <1>1, ClosedIsBox, WrittenIs
<1>3. (disturbed => disturbed') /\ (tc.armed \/ tc.moving => disturbed')
  BY <1>1
<1>4. TcTyped' /\ BoxTyped' /\ BoxThere'
  BY <1>1, <1>2 DEF TypingInv, TcTyped, BoxTyped, BoxThere
<1>5. RoadKnown' /\ NoneLost' /\ MovesKnown'
  BY <1>3 DEF TypingInv, RoadKnown, NoneLost, MovesKnown
<1>6. Undoable(undo', gone')
  BY <1>1, RanOfFew DEF Undoable
<1>. QED
  BY <1>2, <1>4, <1>5, <1>6 DEF TypingInv

\* Escape takes what a box was opened with to the terminal.
LEMMA EscapeKeeps ==
  ASSUME TypingInv, TC!EscapeBox, MaxTyped \in Nat
  PROVE  TypingInv'
<1>1. /\ comp = "none" /\ box.open /\ TC!Shut
      /\ UNCHANGED <<typed, gone, tc, comp, missed, usable, covered, injected>>
  BY DEF TC!EscapeBox, TC!InBox, TC!worldVars
<1>2. /\ PromptKnown /\ NoneLost /\ box \in Boxes /\ TC!Written = box.text /\ ~tc.moving
      /\ Placed(pty, box.text, gone, lost, typed)
  BY <1>1, WrittenIs, WhereItStands DEF TypingInv, BoxTyped, BoxThere
<1>3. pty \in Seq(Nat) /\ box.text \in Seq(Nat)
  BY <1>2 DEF Placed
<1>4. CASE TC!Pristine(box)
  <2>. DEFINE new == box.trig.typed
              old == box.trig.before
  <2>1. TC!Sent(new) /\ draft' = old
    BY <1>4 DEF TC!EscapeBox
  <2>2. box.text = old \o new
    BY <1>4 DEF TC!Pristine
  <2>3. new \in Seq(Nat) /\ old \in Seq(Nat)
    BY <1>2 DEF Boxes, Triggers
  <2>. HIDE DEF new, old
  <2>4. /\ Ran(box.text) = Ran(old) \union Ran(new) /\ Distinct(box.text)
        /\ Distinct(old) /\ Distinct(new) /\ Ran(old) \cap Ran(new) = {}
    BY <1>2, <2>2, <2>3, RanOfJoined DEF Placed
  <2>5. /\ pty \o new \in Seq(Nat) /\ Ran(pty \o new) = Ran(pty) \union Ran(new)
        /\ Distinct(pty \o new)
    BY <1>2, <1>3, <2>3, <2>4, RanOfJoined DEF Placed
  <2>6. /\ Placed(pty \o new, old, gone, lost, typed)
        /\ Placed(pty, old, gone, lost \union Ran(new), typed)
    BY <1>2, <2>3, <2>4, <2>5 DEF Placed
  <2>7. PromptKnown' /\ Placed(pty', old, gone, lost', typed) /\ (lost' = {} \/ disturbed)
    BY <1>1, <2>1, <2>3, <2>6, SentArrives
  <2>8. Placed(pty', old, gone', lost', typed)
    BY <1>1, <2>7
  <2>. QED
    BY <1>1, <1>2, <2>1, <2>3, <2>7, <2>8, ShutKeeps
<1>5. CASE ~TC!Pristine(box)
  <2>1. draft' = box.text /\ UNCHANGED <<pty, pending, lost>>
    BY <1>5 DEF TC!EscapeBox
  <2>2. PromptKnown' /\ Placed(pty', box.text, gone', lost', typed) /\ (lost' = {} \/ disturbed)
    BY <1>1, <1>2, <2>1 DEF PromptKnown, TC!Unknown, NoneLost
  <2>. QED
    BY <1>1, <1>2, <1>3, <2>1, <2>2, ShutKeeps
<1>. QED
  BY <1>4, <1>5

LEMMA SendsKeep ==
  ASSUME TypingInv, TC!SendBox \/ TC!ReturnFromEmptyBox, MaxTyped \in Nat
  PROVE  TypingInv'
<1>1. /\ comp = "none" /\ box.open /\ TC!Shut /\ draft' = <<>>
      /\ UNCHANGED <<typed, tc, comp, usable, covered, injected>>
  BY DEF TC!SendBox, TC!ReturnFromEmptyBox, TC!InBox, TC!worldVars
<1>2. /\ PromptKnown /\ NoneLost /\ TC!Written = box.text /\ ~tc.moving
      /\ Placed(pty, box.text, gone, lost, typed)
  BY <1>1, WrittenIs, WhereItStands DEF TypingInv, BoxThere
<1>3. /\ pty \in Seq(Nat) /\ box.text \in Seq(Nat) /\ <<>> \in Seq(Nat)
      /\ Ran(<<>>) = {} /\ Distinct(<<>>)
  BY <1>2, RanOfFew DEF Placed
<1>4. CASE TC!Submits(box.text)
  <2>1. Ran(<<>>) \cap Ran(box.text) = {} /\ Ran(TC!Written) = Ran(<<>>) \union Ran(box.text)
    BY <1>2, <1>3
  <2>2. /\ PromptKnown' /\ Placed(pty', <<>>, gone', lost', typed)
        /\ (lost' = {} \/ disturbed)
    BY <1>3, <1>4, <2>1, SubmitsLeave
  <2>. QED
    BY <1>1, <1>2, <1>3, <2>2, ShutKeeps
<1>5. CASE box.text = <<>> /\ UNCHANGED <<pty, gone, lost, pending, missed>>
  <2>1. PromptKnown' /\ Placed(pty', <<>>, gone', lost', typed) /\ (lost' = {} \/ disturbed)
    BY <1>2, <1>5 DEF PromptKnown, TC!Unknown, NoneLost
  <2>. QED
    BY <1>1, <1>2, <1>3, <2>1, ShutKeeps
<1>6. CASE box.text = <<>> /\ TC!Submits(<<>>)
  BY <1>4, <1>6
<1>. QED
  BY <1>4, <1>5, <1>6 DEF TC!SendBox, TC!ReturnFromEmptyBox

LEMMA ToggleKeeps ==
  ASSUME TypingInv, TC!ToggleBox
  PROVE  TypingInv'
<1>1. UNCHANGED <<typed, pty, gone, pending, tc, missed, usable, covered, injected>>
  BY DEF TC!ToggleBox, TC!worldVars
<1>2. /\ TcTyped /\ BoxTyped /\ BoxThere /\ PromptKnown /\ NoneLost
      /\ Placed(pty, TC!Written, gone, lost, typed) /\ Undoable(undo, gone)
  BY DEF TypingInv
<1>3. PromptKnown' /\ TC!Written \in Seq(Nat)
  BY <1>1, <1>2, WhereItStands DEF PromptKnown, TC!Unknown
<1>4. CASE box.open
  <2>1. /\ TC!Shut /\ draft' = TC!Written /\ lost' = lost
        /\ comp' = IF comp = "box" THEN "none" ELSE comp
    BY <1>4, WrittenIs DEF TC!ToggleBox
  <2>2. comp' # "box" /\ (tc.moving => comp' = "term")
    BY <1>2, <2>1 DEF BoxThere
  <2>3. Placed(pty', TC!Written, gone', lost', typed) /\ (lost' = {} \/ disturbed)
    BY <1>1, <1>2, <2>1 DEF NoneLost
  <2>. QED
    BY <1>1, <1>3, <2>1, <2>2, <2>3, ShutKeeps
<1>5. CASE ~box.open
  <2>1. /\ box' = TC!Opened /\ focused' = "box" /\ TC!LosesDraft
        /\ UNCHANGED <<undo, draft, disturbed, comp>>
    BY <1>5 DEF TC!ToggleBox
  <2>2. /\ box' \in Boxes /\ box'.open /\ Placed(pty, box'.text, gone, lost', typed)
        /\ (lost' = {} \/ disturbed)
    BY <2>1, OpenedShowsDraft
  <2>3. TcTyped' /\ BoxTyped' /\ BoxThere' /\ NoneLost' /\ MovesKnown'
    BY <1>1, <1>2, <2>1, <2>2 DEF TcTyped, BoxTyped, BoxThere, NoneLost, MovesKnown
  <2>4. Placed(pty', TC!Written', gone', lost', typed') /\ Undoable(undo', gone')
    BY <1>1, <1>2, <2>1, <2>2, WrittenIs
  <2>. QED
    BY <1>1, <1>3, <2>1, <2>3, <2>4, Assembles
<1>. QED
  BY <1>4, <1>5

\* The host's prompt takes the place of what is written, which is lost.
LEMMA InjectKeeps ==
  ASSUME TypingInv, TC!Inject
  PROVE  TypingInv'
<1>1. /\ disturbed' = TRUE /\ lost' = lost \union TC!Range(TC!Written)
      /\ UNCHANGED <<typed, pty, gone, pending, undo, missed, tc, comp>>
      /\ comp = "none"
  BY DEF TC!Inject
<1>2. /\ TcTyped /\ BoxTyped /\ BoxThere /\ PromptKnown /\ box \in Boxes
      /\ Placed(pty, TC!Written, gone, lost, typed) /\ Undoable(undo, gone) /\ <<>> \in Seq(Nat)
  BY WhereItStands DEF TypingInv, BoxTyped
<1>3. /\ box' \in Boxes /\ box'.open /\ box'.text = <<>> /\ draft' \in Seq(Nat)
  <2>1. CASE box.open
    <3>1. box' = Edited(box, <<>>) /\ draft' = <<>>
      BY <2>1 DEF TC!Inject, Edited
    <3>. QED
      BY <1>2, <2>1, <3>1, BoxEdited
  <2>2. CASE ~box.open
    <3>1. box' = [TC!ClosedBox EXCEPT !.open = TRUE] /\ draft' = draft
      BY <2>2 DEF TC!Inject
    <3>2. TC!NoTrigger \in Triggers
      BY <1>2 DEF TC!NoTrigger, Triggers
    <3>3. TC!ClosedBox \in Boxes /\ TC!ClosedBox.text = <<>>
      BY <1>2, <3>2 DEF Boxes, TC!ClosedBox
    <3>4. /\ [TC!ClosedBox EXCEPT !.open = TRUE] \in Boxes
          /\ [TC!ClosedBox EXCEPT !.open = TRUE].open
          /\ [TC!ClosedBox EXCEPT !.open = TRUE].text = TC!ClosedBox.text
      BY <3>3 DEF Boxes
    <3>. QED
      BY <1>2, <3>1, <3>3, <3>4 DEF BoxTyped
  <2>. QED
    BY <2>1, <2>2
<1>4. Placed(pty', TC!Written', gone', lost', typed') /\ Undoable(undo', gone')
  <2>1. /\ TC!Range(TC!Written) = Ran(TC!Written)
        /\ Placed(pty, <<>>, gone, lost \union Ran(TC!Written), typed)
    BY <1>2, WrittenLeaves
  <2>2. TC!Written' = <<>>
    BY <1>3, WrittenIs
  <2>. QED
    BY <1>1, <1>2, <2>1, <2>2
<1>5. RoadKnown' /\ NoneLost' /\ MovesKnown'
  BY <1>1 DEF RoadKnown, NoneLost, MovesKnown
<1>6. TcTyped' /\ BoxTyped' /\ BoxThere' /\ PromptKnown'
  BY <1>1, <1>2, <1>3 DEF TcTyped, BoxTyped, BoxThere, PromptKnown, TC!Unknown
<1>. QED
  BY <1>4, <1>5, <1>6 DEF TypingInv

\* The box as it was.
LEMMA BoxStays ==
  ASSUME TypingInv, UNCHANGED <<typed, box, draft, undo, tc, comp, usable, covered, injected,
                                disturbed>>,
         focused' = focused \/ focused' = "term" \/ (focused' = "box" /\ box.open),
         lost' = {} \/ disturbed,
         PromptKnown', Placed(pty', TC!Written, gone', lost', typed), Undoable(undo, gone')
  PROVE  TypingInv'
<1>1. TcTyped' /\ BoxTyped' /\ BoxThere' /\ NoneLost' /\ MovesKnown'
  BY DEF TypingInv, TcTyped, BoxTyped, BoxThere, NoneLost, MovesKnown
<1>2. Placed(pty', TC!Written', gone', lost', typed') /\ Undoable(undo', gone')
  BY WrittenIs
<1>. QED
  BY <1>1, <1>2, Assembles

LEMMA InTermKeeps ==
  ASSUME TypingInv, MaxTyped \in Nat,
         TC!ReturnInTerm \/ TC!BackspaceInTerm \/ TC!AgentStarts
  PROVE  TypingInv'
<1>1. UNCHANGED <<typed, focused, box, draft, undo, tc, comp, usable, covered, injected, disturbed>>
  BY DEF TC!ReturnInTerm, TC!BackspaceInTerm, TC!AgentStarts, TC!worldVars
<1>2. /\ PromptKnown /\ NoneLost /\ Placed(pty, TC!Written, gone, lost, typed)
      /\ Undoable(undo, gone) /\ pty \in Seq(Nat) /\ Distinct(pty)
      /\ TC!Written \in Seq(Nat) /\ Distinct(TC!Written) /\ <<>> \in Seq(Nat) /\ Ran(<<>>) = {}
  BY WhereItStands, RanOfFew DEF TypingInv
<1>3. CASE TC!ReturnInTerm
  <2>1. TC!Submits(<<>>)
    BY <1>3 DEF TC!ReturnInTerm
  <2>2. /\ PromptKnown' /\ Placed(pty', TC!Written, gone', lost', typed)
        /\ Undoable(undo, gone') /\ (lost' = {} \/ disturbed)
    <3>1. Ran(TC!Written) \cap Ran(<<>>) = {} /\ Ran(TC!Written) = Ran(TC!Written) \union Ran(<<>>)
      BY <1>2
    <3>. QED
      BY <1>2, <2>1, <3>1, SubmitsLeave
  <2>. QED
    BY <1>1, <2>2, BoxStays
<1>4. CASE TC!AgentStarts
  <2>1. gone' = gone \union Ran(pty) /\ pty' = <<>> /\ pending' = 0 /\ lost' = lost
    BY <1>2, <1>4, RanIsRange DEF TC!AgentStarts
  <2>2. PromptKnown' /\ Undoable(undo, gone') /\ (lost' = {} \/ disturbed)
    BY <1>2, <2>1 DEF PromptKnown, NoneLost, Undoable
  <2>3. Placed(pty', TC!Written, gone', lost', typed)
    BY <1>2, <2>1, PromptLeaves
  <2>. QED
    BY <1>1, <2>2, <2>3, BoxStays
<1>5. CASE TC!BackspaceInTerm
  <2>. DEFINE x == pty[Len(pty)]
              some == pending \notin {0, TC!Unknown}
  <2>0. /\ pending' = IF some THEN pending - 1 ELSE pending
        /\ lost' = lost /\ pending \in Nat /\ TC!Unknown' = TC!Unknown
        /\ (pending # TC!Unknown /\ ~missed => Len(pty) <= pending) /\ Len(pty) \in Nat
    BY <1>2, <1>5 DEF TC!BackspaceInTerm, PromptKnown, TC!Unknown
  <2>1. CASE /\ pty # <<>> /\ gone' = gone \union {x} /\ missed' = missed
             /\ pty' = SubSeq(pty, 1, Len(pty) - 1)
    <3>1. /\ pty' \in Seq(Nat) /\ Distinct(pty') /\ x \in Ran(pty) /\ Ran(pty') = Ran(pty) \ {x}
          /\ Len(pty') = Len(pty) - 1
      BY <1>2, <2>1, RanOfFront
    <3>. HIDE DEF x
    <3>2. Placed(pty', TC!Written, gone', lost', typed) /\ Undoable(undo, gone')
      BY <1>2, <2>0, <2>1, <3>1 DEF Placed, Undoable
    <3>3. Len(pty) > 0
      BY <1>2, <2>1
    <3>4. PromptKnown' /\ (lost' = {} \/ disturbed)
      BY <1>2, <2>0, <2>1, <3>1, <3>3 DEF PromptKnown, NoneLost
    <3>. QED
      BY <1>1, <3>2, <3>4, BoxStays
  <2>2. CASE /\ missed' = (IF pty # <<>> THEN TRUE ELSE missed)
             /\ UNCHANGED <<pty, gone>>
    <3>1. pending' \in Nat
      BY <2>0
    <3>2. Len(pty) = 0 \/ missed'
      BY <2>2
    <3>3. Len(pty) <= pending' \/ missed'
      BY <2>0, <3>1, <3>2
    <3>4. PromptKnown' /\ (lost' = {} \/ disturbed)
      BY <1>2, <2>0, <2>2, <3>1, <3>3 DEF PromptKnown, NoneLost
    <3>. QED
      BY <1>1, <1>2, <2>0, <2>2, <3>4, BoxStays
  <2>. QED
    BY <1>5, <2>1, <2>2 DEF TC!BackspaceInTerm
<1>. QED
  BY <1>3, <1>4, <1>5

LEMMA NothingTypedKeeps ==
  ASSUME TypingInv, MaxTyped \in Nat,
         TC!FocusTerm \/ TC!FocusBox \/ TC!HistoryInTerm \/ TC!AgentChanges
  PROVE  TypingInv'
<1>1. /\ UNCHANGED <<typed, pty, gone, lost, box, draft, undo, tc, comp, missed, disturbed,
                     usable, covered, injected>>
      /\ focused' = focused \/ focused' = "term" \/ (focused' = "box" /\ box.open)
      /\ pending' = pending \/ pending' = TC!Unknown
  BY DEF TC!FocusTerm, TC!FocusBox, TC!HistoryInTerm, TC!AgentChanges, TC!worldVars
<1>2. PromptKnown /\ NoneLost /\ Placed(pty, TC!Written, gone, lost, typed) /\ Undoable(undo, gone)
  BY DEF TypingInv
<1>3. PromptKnown'
  BY <1>1, <1>2 DEF PromptKnown, TC!Unknown
<1>4. Placed(pty', TC!Written, gone', lost', typed) /\ Undoable(undo, gone')
  BY <1>1, <1>2
<1>. QED
  BY <1>1, <1>2, <1>3, <1>4, BoxStays DEF NoneLost

\* Undo is over, or the road changes.
LEMMA UndoOverKeeps ==
  ASSUME TypingInv, TC!UndoOver \/ TC!RoadChanges
  PROVE  TypingInv'
<1>1. /\ UNCHANGED <<typed, pty, gone, lost, pending, box, draft, tc, comp, missed, focused>>
      /\ undo' = undo \/ undo' = <<>>
      /\ disturbed' = TRUE \/ UNCHANGED <<disturbed, usable, covered, injected>>
  BY DEF TC!UndoOver, TC!RoadChanges, TC!worldVars
<1>2. TcTyped' /\ BoxTyped' /\ BoxThere' /\ PromptKnown' /\ RoadKnown' /\ NoneLost' /\ MovesKnown'
  BY <1>1 DEF TypingInv, TcTyped, BoxTyped, BoxThere, PromptKnown, RoadKnown, NoneLost, MovesKnown,
     TC!Unknown
<1>3. Placed(pty', TC!Written', gone', lost', typed')
  BY <1>1, WhereItStands, WrittenIs
<1>4. Undoable(undo', gone')
  BY <1>1, WhereItStands, RanOfFew DEF Undoable
<1>. QED
  BY <1>2, <1>3, <1>4 DEF TypingInv

LEMMA TypingStepKeeps ==
  ASSUME TypingInv, TC!TcNext, MaxTyped \in Nat
  PROVE  TypingInv'
<1>1. CASE TC!KeyInTerm \/ TC!ImeKey \/ TC!ImeWindowOver \/ TC!StartInTerm \/ TC!StartInBox
           \/ TC!CompositionEnds
  BY <1>1, KeyInTermKeeps, ImeKeyKeeps, ImeWindowOverKeeps, StartsKeep, CompositionEndsKeeps
<1>2. CASE TC!KeyInBox \/ TC!DeleteInBox \/ TC!ClearAll \/ TC!UndoClear \/ TC!PickText
  BY <1>2, EditingKeeps
<1>3. CASE TC!SendBox \/ TC!EscapeBox \/ TC!ReturnFromEmptyBox \/ TC!ToggleBox \/ TC!Inject
  BY <1>3, SendsKeep, EscapeKeeps, ToggleKeeps, InjectKeeps
<1>4. CASE TC!ReturnInTerm \/ TC!BackspaceInTerm \/ TC!AgentStarts
  BY <1>4, InTermKeeps
<1>5. CASE TC!FocusTerm \/ TC!FocusBox \/ TC!HistoryInTerm \/ TC!AgentChanges
  BY <1>5, NothingTypedKeeps
<1>6. CASE TC!UndoOver \/ TC!RoadChanges
  BY <1>6, UndoOverKeeps
<1>. QED
  BY <1>1, <1>2, <1>3, <1>4, <1>5, <1>6 DEF TC!TcNext

LEMMA TypingStays ==
  ASSUME TypingInv, UNCHANGED tcVars
  PROVE  TypingInv'
<1>1. TcTyped' /\ BoxThere'
  BY DEF tcVars, TypingInv, TcTyped, BoxThere
<1>. QED
  BY <1>1, TextStays DEF tcVars

LEMMA TypedIsThere ==
  ASSUME TypingInv, MaxTyped \in Nat
  PROVE  TC!TypedInOnePlace
<1>. DEFINE w == TC!Written
<1>1. /\ Placed(pty, w, gone, lost, typed) /\ Undoable(undo, gone) /\ NoneLost
      /\ (pending # TC!Unknown /\ ~missed => Len(pty) <= pending)
      /\ TC!Range(undo) = Ran(undo)
  BY WhereItStands DEF TypingInv, PromptKnown
<1>2. /\ pty \in Seq(Nat) /\ w \in Seq(Nat)
      /\ Distinct(pty) /\ Distinct(w) /\ Ran(pty) \cap Ran(w) = {}
      /\ (gone \union lost) \cap (Ran(pty) \union Ran(w)) = {} /\ gone \cap lost = {}
      /\ 1 .. typed = Ran(pty) \union Ran(w) \union gone \union lost
  BY <1>1 DEF Placed
<1>. HIDE DEF w
<1>3. /\ pty \o w \in Seq(Nat) /\ Distinct(pty \o w)
      /\ Ran(pty \o w) = Ran(pty) \union Ran(w)
  BY <1>2, RanOfJoined
<1>4. TC!Once(pty \o w) /\ TC!Range(pty \o w) = Ran(pty) \union Ran(w)
  BY <1>3, RanIsRange, DistinctIsOnce
<1>5. pending = 0 => pty = <<>> \/ missed
  <2>1. pending = 0 => pending # TC!Unknown
    BY DEF TC!Unknown
  <2>. QED
    BY <1>1, <1>2, <2>1
<1>6. TC!Range(undo) \subseteq gone
  BY <1>1 DEF Undoable
<1>. QED
  BY <1>1, <1>2, <1>4, <1>5, <1>6 DEF TC!TypedInOnePlace, TC!PromptEmpty, NoneLost, w

-----------------------------------------------------------------------------
(***************************************************************************)
(* Keys of a soft keyboard: a press is the older the smaller its number,   *)
(* all were pressed, and all that wait are newer than all that was sent.   *)
(***************************************************************************)
Strokes == [press : Nat, mod : BOOLEAN]
KeysTyped == presses \in Seq(Keys) /\ waiting \in Seq(Nat) /\ out \in Seq(Strokes)
SentInOrder ==
  /\ \A i, j \in 1 .. Len(out) : i < j => out[i].press < out[j].press
  /\ \A i \in 1 .. Len(out) : out[i].press <= Len(presses)
WaitInOrder ==
  /\ \A i, j \in 1 .. Len(waiting) : i < j => waiting[i] < waiting[j]
  /\ \A i \in 1 .. Len(waiting) : waiting[i] <= Len(presses)
  /\ \A i \in 1 .. Len(out), j \in 1 .. Len(waiting) : out[i].press < waiting[j]
  /\ Len(waiting) <= MaxPending
KeyInv == KeysTyped /\ sticky \in BOOLEAN /\ SentInOrder /\ WaitInOrder

LEMMA KeysBegin ==
  ASSUME KF!KeyInit, MaxPending \in Nat
  PROVE  KeyInv
<1>1. presses = <<>> /\ waiting = <<>> /\ out = <<>> /\ sticky = FALSE
  BY DEF KF!KeyInit
<1>2. KeysTyped /\ Len(out) = 0 /\ Len(waiting) = 0
  BY <1>1 DEF KeysTyped
<1>3. SentInOrder /\ WaitInOrder
  BY <1>2 DEF SentInOrder, WaitInOrder
<1>. QED
  BY <1>1, <1>2, <1>3 DEF KeyInv

LEMMA StrokesAreOfPresses ==
  ASSUME NEW n \in Nat, NEW m \in BOOLEAN
  PROVE  /\ [press |-> n, mod |-> m] \in Strokes /\ [press |-> n, mod |-> m].press = n
         /\ \A r \in Strokes : r.press \in Nat
  BY DEF Strokes

\* Of a key that is sent as it is pressed nothing waits any more.
LEMMA HeardKeeps ==
  ASSUME KeyInv, MaxPending \in Nat, NEW k \in Keys, KF!Pressed(k), waiting' = <<>>,
         KF!Send(Len(presses'))
  PROVE  KeyInv'
<1>1. KeysTyped /\ sticky \in BOOLEAN /\ SentInOrder
  BY DEF KeyInv
<1>2. /\ presses' = Append(presses, k) /\ sticky' = FALSE
      /\ out' = Append(out, [press |-> Len(presses'), mod |-> sticky])
  BY DEF KF!Pressed, KF!Send
<1>3. /\ presses \in Seq(Keys) /\ presses' \in Seq(Keys) /\ Len(presses) \in Nat
      /\ Len(presses') = Len(presses) + 1
  BY <1>1, <1>2 DEF KeysTyped
<1>. DEFINE sent == [press |-> Len(presses'), mod |-> sticky]
<1>4. sent \in Strokes /\ sent.press = Len(presses) + 1 /\ \A r \in Strokes : r.press \in Nat
  BY <1>1, <1>3, StrokesAreOfPresses
<1>5. out' = Append(out, sent) /\ out \in Seq(Strokes)
  BY <1>1, <1>2 DEF KeysTyped
<1>. HIDE DEF sent
<1>6. /\ out' \in Seq(Strokes) /\ Len(out) \in Nat /\ Len(out') = Len(out) + 1
      /\ \A i \in 1 .. Len(out) : out'[i] = out[i]
      /\ out'[Len(out) + 1] = sent
  BY <1>4, <1>5
<1>7. \A i \in 1 .. Len(out) : out[i].press \in Nat
  BY <1>4, <1>5
<1>8. KeysTyped' /\ (Len(waiting) = 0)'
  BY <1>3, <1>6 DEF KeysTyped
<1>9. SentInOrder'
  <2>1. /\ \A i, j \in 1 .. Len(out) : i < j => out[i].press < out[j].press
        /\ \A i \in 1 .. Len(out) : out[i].press <= Len(presses)
    BY <1>1 DEF SentInOrder
  <2>2. \A i \in 1 .. Len(out') : i \in 1 .. Len(out) \/ i = Len(out) + 1
    BY <1>6
  <2>3. ASSUME NEW i \in 1 .. Len(out'), NEW j \in 1 .. Len(out'), i < j
        PROVE  out'[i].press < out'[j].press
    <3>1. i \in 1 .. Len(out)
      BY <1>6, <2>2, <2>3
    <3>2. out'[i] = out[i] /\ out[i].press <= Len(presses) /\ out[i].press \in Nat
      BY <1>6, <1>7, <2>1, <3>1
    <3>3. CASE j \in 1 .. Len(out)
      BY <1>6, <2>1, <2>3, <3>1, <3>3
    <3>4. CASE j = Len(out) + 1
      BY <1>3, <1>4, <1>6, <3>2, <3>4
    <3>. QED
      BY <2>2, <3>3, <3>4
  <2>4. ASSUME NEW i \in 1 .. Len(out')
        PROVE  out'[i].press <= Len(presses')
    BY <1>3, <1>4, <1>6, <1>7, <2>1, <2>2
  <2>. QED
    BY <2>3, <2>4 DEF SentInOrder
<1>10. WaitInOrder'
  BY <1>8 DEF WaitInOrder
<1>. QED
  BY <1>2, <1>8, <1>9, <1>10 DEF KeyInv

\* A key that waits is the newest; of too many the oldest is given up.
LEMMA UnheardKeeps ==
  ASSUME KeyInv, MaxPending \in Nat, NEW k \in Keys, KF!PressUnheard(k)
  PROVE  KeyInv'
<1>1. KeysTyped /\ sticky \in BOOLEAN /\ SentInOrder /\ WaitInOrder
  BY DEF KeyInv
<1>2. /\ presses' = Append(presses, k) /\ sticky' = sticky /\ out' = out
      /\ waiting' \in {waiting, <<>>, KF!Scheduled(Len(presses'))}
  BY DEF KF!PressUnheard, KF!Pressed
<1>3. /\ presses \in Seq(Keys) /\ presses' \in Seq(Keys) /\ Len(presses) \in Nat
      /\ Len(presses') = Len(presses) + 1 /\ waiting \in Seq(Nat) /\ Len(waiting) \in Nat
      /\ out \in Seq(Strokes)
  BY <1>1, <1>2 DEF KeysTyped
<1>4. /\ \A i \in 1 .. Len(out) : out[i].press \in Nat
      /\ \A i \in 1 .. Len(waiting) : waiting[i] \in Nat
  <2>1. \A r \in Strokes : r.press \in Nat
    BY DEF Strokes
  <2>. QED
    BY <1>3, <2>1
<1>5. SentInOrder'
  BY <1>1, <1>2, <1>3, <1>4 DEF SentInOrder
<1>6. CASE waiting' = waiting
  <2>1. WaitInOrder'
    BY <1>1, <1>2, <1>3, <1>4, <1>6 DEF WaitInOrder
  <2>2. KeysTyped'
    BY <1>2, <1>3, <1>6 DEF KeysTyped
  <2>. QED
    BY <1>1, <1>2, <1>5, <2>1, <2>2 DEF KeyInv
<1>7. CASE waiting' = <<>>
  <2>1. (Len(waiting) = 0)' /\ waiting' \in Seq(Nat)
    BY <1>7
  <2>2. WaitInOrder'
    BY <2>1 DEF WaitInOrder
  <2>3. KeysTyped'
    BY <1>2, <1>3, <2>1 DEF KeysTyped
  <2>. QED
    BY <1>1, <1>2, <1>5, <2>2, <2>3 DEF KeyInv
<1>8. CASE waiting' = KF!Scheduled(Len(presses'))
  <2>. DEFINE all == Append(waiting, Len(presses'))
  <2>1. waiting' = IF Len(all) > MaxPending THEN Tail(all) ELSE all
    BY <1>8 DEF KF!Scheduled
  <2>2. /\ all \in Seq(Nat) /\ Len(all) = Len(waiting) + 1
        /\ \A i \in 1 .. Len(waiting) : all[i] = waiting[i]
        /\ all[Len(waiting) + 1] = Len(presses) + 1
    BY <1>3
  <2>. HIDE DEF all
  <2>3. \A i \in 1 .. Len(all) : i \in 1 .. Len(waiting) \/ i = Len(waiting) + 1
    BY <1>3, <2>2
  <2>4. /\ \A i, j \in 1 .. Len(waiting) : i < j => waiting[i] < waiting[j]
        /\ \A i \in 1 .. Len(waiting) : waiting[i] <= Len(presses)
        /\ \A i \in 1 .. Len(out), j \in 1 .. Len(waiting) : out[i].press < waiting[j]
        /\ \A i \in 1 .. Len(out) : out[i].press <= Len(presses)
    BY <1>1 DEF WaitInOrder, SentInOrder
  <2>5. ASSUME NEW i \in 1 .. Len(all)
        PROVE  all[i] <= Len(presses')
    <3>1. CASE i \in 1 .. Len(waiting)
      <4>1. all[i] = waiting[i] /\ waiting[i] <= Len(presses) /\ waiting[i] \in Nat
        BY <1>4, <2>2, <2>4, <3>1
      <4>. QED
        BY <1>3, <4>1
    <3>2. CASE i = Len(waiting) + 1
      BY <1>3, <2>2, <3>2
    <3>. QED
      BY <2>3, <3>1, <3>2
  <2>6. ASSUME NEW i \in 1 .. Len(all), NEW j \in 1 .. Len(all), i < j
        PROVE  all[i] < all[j]
    <3>1. i \in 1 .. Len(waiting)
      BY <1>3, <2>2, <2>6, <2>3
    <3>2. all[i] = waiting[i] /\ waiting[i] <= Len(presses) /\ waiting[i] \in Nat
      BY <1>4, <2>2, <2>4, <3>1
    <3>3. CASE j \in 1 .. Len(waiting)
      BY <2>2, <2>6, <2>4, <3>1, <3>3
    <3>4. CASE j = Len(waiting) + 1
      BY <1>3, <2>2, <3>2, <3>4
    <3>. QED
      BY <2>3, <3>3, <3>4
  <2>7. ASSUME NEW i \in 1 .. Len(out), NEW j \in 1 .. Len(all)
        PROVE  out[i].press < all[j]
    <3>1. CASE j \in 1 .. Len(waiting)
      BY <2>2, <2>4, <3>1
    <3>2. CASE j = Len(waiting) + 1
      BY <1>3, <1>4, <2>2, <2>4, <3>2
    <3>. QED
      BY <2>3, <3>1, <3>2
  <2>8. CASE Len(all) > MaxPending
    <3>1. /\ waiting' \in Seq(Nat) /\ Len(waiting') = Len(all) - 1
          /\ \A i \in 1 .. Len(waiting') : i + 1 \in 1 .. Len(all) /\ waiting'[i] = all[i + 1]
      BY <2>1, <2>2, <2>8
    <3>2. Len(waiting') <= MaxPending
      BY <1>1, <1>3, <2>2, <3>1 DEF WaitInOrder
    <3>3. ASSUME NEW i \in 1 .. Len(waiting'), NEW j \in 1 .. Len(waiting'), i < j
          PROVE  waiting'[i] < waiting'[j]
      <4>1. i + 1 \in 1 .. Len(all) /\ waiting'[i] = all[i + 1]
        BY <3>1
      <4>2. j + 1 \in 1 .. Len(all) /\ waiting'[j] = all[j + 1]
        BY <3>1
      <4>3. i + 1 < j + 1
        BY <1>3, <2>2, <3>1, <3>3
      <4>. QED
        BY <2>6, <4>1, <4>2, <4>3
    <3>4. \A i \in 1 .. Len(waiting') : waiting'[i] <= Len(presses')
      BY <2>5, <3>1
    <3>5. \A i \in 1 .. Len(out), j \in 1 .. Len(waiting') : out[i].press < waiting'[j]
      BY <2>7, <3>1
    <3>6. WaitInOrder'
      BY <1>2, <3>2, <3>3, <3>4, <3>5 DEF WaitInOrder
    <3>7. KeysTyped'
      BY <1>2, <1>3, <3>1 DEF KeysTyped
    <3>. QED
      BY <1>1, <1>2, <1>5, <3>6, <3>7 DEF KeyInv
  <2>9. CASE ~(Len(all) > MaxPending)
    <3>1. waiting' = all /\ Len(all) <= MaxPending
      BY <2>1, <2>2, <2>9
    <3>2. WaitInOrder'
      BY <1>2, <2>6, <2>5, <2>7, <3>1 DEF WaitInOrder
    <3>3. KeysTyped'
      BY <1>2, <1>3, <2>2, <3>1 DEF KeysTyped
    <3>. QED
      BY <1>1, <1>2, <1>5, <3>2, <3>3 DEF KeyInv
  <2>. QED
    BY <2>8, <2>9
<1>. QED
  BY <1>2, <1>6, <1>7, <1>8

LEMMA FallbackKeeps ==
  ASSUME KeyInv, MaxPending \in Nat, KF!FallbackTimer
  PROVE  KeyInv'
<1>1. KeysTyped /\ sticky \in BOOLEAN /\ SentInOrder /\ WaitInOrder
  BY DEF KeyInv
<1>2. /\ waiting # <<>> /\ waiting' = Tail(waiting) /\ presses' = presses /\ sticky' = FALSE
      /\ out' = Append(out, [press |-> Head(waiting), mod |-> sticky])
  BY DEF KF!FallbackTimer, KF!Send
<1>3. /\ presses \in Seq(Keys) /\ Len(presses) \in Nat /\ waiting \in Seq(Nat)
      /\ out \in Seq(Strokes)
  BY <1>1 DEF KeysTyped
<1>4. /\ Len(waiting) \in Nat /\ Len(waiting) > 0 /\ Head(waiting) = waiting[1]
      /\ waiting[1] \in Nat /\ 1 \in 1 .. Len(waiting)
      /\ waiting' \in Seq(Nat) /\ Len(waiting') = Len(waiting) - 1
      /\ \A i \in 1 .. Len(waiting') :
           i + 1 \in 1 .. Len(waiting) /\ 1 < i + 1 /\ waiting'[i] = waiting[i + 1]
  BY <1>2, <1>3
<1>. DEFINE sent == [press |-> Head(waiting), mod |-> sticky]
<1>5. sent \in Strokes /\ sent.press = waiting[1] /\ \A r \in Strokes : r.press \in Nat
  BY <1>1, <1>4, StrokesAreOfPresses
<1>6. out' = Append(out, sent)
  BY <1>2
<1>. HIDE DEF sent
<1>7. /\ out' \in Seq(Strokes) /\ Len(out) \in Nat /\ Len(out') = Len(out) + 1
      /\ \A i \in 1 .. Len(out) : out'[i] = out[i] /\ out[i].press \in Nat
      /\ out'[Len(out) + 1] = sent
  BY <1>3, <1>5, <1>6
<1>8. KeysTyped'
  BY <1>2, <1>3, <1>4, <1>7 DEF KeysTyped
<1>9. /\ \A i \in 1 .. Len(out) : out[i].press < waiting[1]
      /\ waiting[1] <= Len(presses)
      /\ \A i \in 1 .. Len(waiting') : waiting[1] < waiting'[i]
  <2>1. /\ \A i, j \in 1 .. Len(waiting) : i < j => waiting[i] < waiting[j]
        /\ \A i \in 1 .. Len(waiting) : waiting[i] <= Len(presses)
        /\ \A i \in 1 .. Len(out), j \in 1 .. Len(waiting) : out[i].press < waiting[j]
    BY <1>1 DEF WaitInOrder
  <2>. QED
    BY <1>4, <2>1
<1>10. \A i \in 1 .. Len(out') : i \in 1 .. Len(out) \/ i = Len(out) + 1
  BY <1>7
<1>11. SentInOrder'
  <2>1. /\ \A i, j \in 1 .. Len(out) : i < j => out[i].press < out[j].press
        /\ \A i \in 1 .. Len(out) : out[i].press <= Len(presses)
    BY <1>1 DEF SentInOrder
  <2>2. ASSUME NEW i \in 1 .. Len(out'), NEW j \in 1 .. Len(out'), i < j
        PROVE  out'[i].press < out'[j].press
    <3>1. i \in 1 .. Len(out) /\ out'[i] = out[i]
      BY <1>7, <1>10, <2>2
    <3>2. CASE j \in 1 .. Len(out)
      BY <1>7, <2>1, <2>2, <3>1, <3>2
    <3>3. CASE j = Len(out) + 1
      BY <1>5, <1>7, <1>9, <3>1, <3>3
    <3>. QED
      BY <1>10, <3>2, <3>3
  <2>3. ASSUME NEW i \in 1 .. Len(out')
        PROVE  out'[i].press <= Len(presses')
    BY <1>2, <1>5, <1>7, <1>9, <1>10, <2>1
  <2>. QED
    BY <2>2, <2>3 DEF SentInOrder
<1>12. \A i, j \in 1 .. Len(waiting') : i < j => waiting'[i] < waiting'[j]
  <2>1. SUFFICES ASSUME NEW i \in 1 .. Len(waiting'), NEW j \in 1 .. Len(waiting'), i < j
                 PROVE  waiting'[i] < waiting'[j]
    OBVIOUS
  <2>2. /\ i + 1 \in 1 .. Len(waiting) /\ j + 1 \in 1 .. Len(waiting) /\ i + 1 < j + 1
        /\ waiting'[i] = waiting[i + 1] /\ waiting'[j] = waiting[j + 1]
    BY <1>4, <2>1
  <2>. QED
    BY <1>1, <2>2 DEF WaitInOrder
<1>13. \A i \in 1 .. Len(waiting') : waiting'[i] <= Len(presses')
  BY <1>1, <1>2, <1>4 DEF WaitInOrder
<1>14. \A i \in 1 .. Len(out'), j \in 1 .. Len(waiting') : out'[i].press < waiting'[j]
  <2>1. SUFFICES ASSUME NEW i \in 1 .. Len(out'), NEW j \in 1 .. Len(waiting')
                 PROVE  out'[i].press < waiting'[j]
    OBVIOUS
  <2>2. CASE i \in 1 .. Len(out)
    BY <1>1, <1>4, <1>7, <2>2 DEF WaitInOrder
  <2>3. CASE i = Len(out) + 1
    BY <1>5, <1>7, <1>9, <2>3
  <2>. QED
    BY <1>10, <2>2, <2>3
<1>15. Len(waiting') <= MaxPending
  BY <1>1, <1>4 DEF WaitInOrder
<1>16. WaitInOrder'
  BY <1>12, <1>13, <1>14, <1>15 DEF WaitInOrder
<1>. QED
  BY <1>2, <1>8, <1>11, <1>16 DEF KeyInv

LEMMA WaitingGoes ==
  ASSUME KeyInv, MaxPending \in Nat, UNCHANGED <<presses, out>>, sticky' \in BOOLEAN,
         waiting' = waiting \/ waiting' = <<>>
  PROVE  KeyInv'
<1>1. KeysTyped /\ SentInOrder /\ WaitInOrder
  BY DEF KeyInv
<1>2. SentInOrder'
  BY <1>1 DEF SentInOrder
<1>3. CASE waiting' = waiting
  BY <1>1, <1>2, <1>3 DEF KeyInv, KeysTyped, WaitInOrder
<1>4. CASE waiting' = <<>>
  <2>1. (Len(waiting) = 0)' /\ waiting' \in Seq(Nat)
    BY <1>4
  <2>. QED
    BY <1>1, <1>2, <2>1 DEF KeyInv, KeysTyped, WaitInOrder
<1>. QED
  BY <1>3, <1>4

LEMMA KeyStepKeeps ==
  ASSUME KeyInv, KF!KeyNext, MaxPending \in Nat
  PROVE  KeyInv'
<1>1. sticky \in BOOLEAN
  BY DEF KeyInv
<1>2. ASSUME NEW k \in Keys, KF!PressHeard(k) \/ KF!ComposedText(k)
      PROVE  KeyInv'
  BY <1>2, HeardKeeps DEF KF!PressHeard, KF!ComposedText, KF!ForgetWaiting
<1>3. ASSUME NEW k \in Keys, KF!PressUnheard(k)
      PROVE  KeyInv'
  BY <1>3, UnheardKeeps
<1>4. CASE KF!StickyKey
  <2>1. UNCHANGED <<presses, waiting, out>> /\ sticky' \in BOOLEAN
    BY <1>1, <1>4 DEF KF!StickyKey
  <2>. QED
    BY <2>1, WaitingGoes
<1>5. CASE KF!GuardOver \/ KF!RecentOver \/ KF!Enables \/ KF!Unmounts
  <2>1. UNCHANGED <<presses, out, sticky>> /\ (waiting' = waiting \/ waiting' = <<>>)
    BY <1>5 DEF KF!GuardOver, KF!RecentOver, KF!Enables, KF!Unmounts
  <2>. QED
    BY <1>1, <2>1, WaitingGoes
<1>6. ASSUME NEW on \in BOOLEAN, KF!Composes(on)
      PROVE  KeyInv'
  <2>1. UNCHANGED <<presses, out, sticky>> /\ (waiting' = waiting \/ waiting' = <<>>)
    BY <1>6 DEF KF!Composes
  <2>. QED
    BY <1>1, <2>1, WaitingGoes
<1>. QED
  BY <1>2, <1>3, <1>4, <1>5, <1>6, FallbackKeeps DEF KF!KeyNext

LEMMA KeysStay ==
  ASSUME KeyInv, UNCHANGED kfVars, MaxPending \in Nat
  PROVE  KeyInv'
  BY WaitingGoes DEF kfVars, KeyInv

LEMMA KeysAreRight ==
  ASSUME KeyInv
  PROVE  KF!SentAsTyped
<1>1. KeysTyped /\ SentInOrder /\ WaitInOrder
  BY DEF KeyInv
<1>2. /\ Len(out) \in Nat /\ Len(waiting) \in Nat
      /\ out # <<>> => Len(out) \in 1 .. Len(out)
      /\ waiting # <<>> => 1 \in 1 .. Len(waiting)
  BY <1>1 DEF KeysTyped
<1>3. \A i \in 1 .. Len(out) - 1 : out[i].press < out[i + 1].press
  BY <1>1, <1>2 DEF SentInOrder
<1>4. \A i \in 1 .. Len(waiting) - 1 : waiting[i] < waiting[i + 1]
  BY <1>1, <1>2 DEF WaitInOrder
<1>5. out # <<>> /\ waiting # <<>> => KF!Last(out).press < Head(waiting)
  BY <1>1, <1>2 DEF WaitInOrder, KF!Last
<1>. QED
  BY <1>1, <1>3, <1>4, <1>5 DEF KF!SentAsTyped, WaitInOrder

-----------------------------------------------------------------------------
(***************************************************************************)
(* Pastes.  Of a file nothing has landed until the user may retry it or    *)
(* its paste has ended, and what can be retried has not landed; what may   *)
(* land only once is so landed at most once.                               *)
(***************************************************************************)
Progress == {"native", "image", "strings", "upload", "done"}
Answers == {"none", "sending", "saved", "failed"}
PastesMade ==
  [pc : Progress, place : PR!Places, files : SUBSET PasteFiles,
   s : PR!Snapshots \union {PR!Unused}, upload : [PasteFiles -> Answers]]
PasteTyped ==
  /\ paste \in [Pastes -> PastesMade \union {PR!Unused}]
  /\ landed \in [Pastes -> [PasteFiles -> {0, 1}]]
PasteAsks(p) ==
  /\ paste[p].pc \in {"native", "image", "strings"} =>
       paste[p].s \in PR!Snapshots /\ paste[p].files = paste[p].s.files
  /\ paste[p].pc \in {"image", "strings"} => paste[p].files = {}
FileHolds(p, f) ==
  /\ paste[p].pc \in {"unused", "native", "image", "strings"} =>
       landed[p][f] = 0 /\ <<p, f>> \notin strip
  /\ paste[p].pc = "upload" =>
       /\ paste[p].upload[f] # "failed" => landed[p][f] = 0 /\ <<p, f>> \notin strip
       /\ paste[p].upload[f] = "failed" => <<p, f>> \in told
       /\ f \in paste[p].files => paste[p].upload[f] # "none"
  /\ paste[p].pc = "done" /\ f \in paste[p].files => landed[p][f] = 1 \/ <<p, f>> \in told
  /\ <<p, f>> \in strip => landed[p][f] = 0
PasteInv ==
  /\ PasteTyped
  /\ \A p \in Pastes : PasteAsks(p) /\ \A f \in PasteFiles : FileHolds(p, f)

LEMMA PasteBegins ==
  ASSUME PR!PrInit
  PROVE  PasteInv
<1>1. /\ paste = [p \in Pastes |-> PR!Unused] /\ strip = {}
      /\ landed = [p \in Pastes |-> [f \in PasteFiles |-> 0]]
  BY DEF PR!PrInit
<1>2. PasteTyped
  BY <1>1 DEF PasteTyped
<1>3. \A p \in Pastes : paste[p].pc = "unused"
  BY <1>1 DEF PR!Unused
<1>4. \A p \in Pastes, f \in PasteFiles : landed[p][f] = 0 /\ <<p, f>> \notin strip
  BY <1>1
<1>. QED
  BY <1>2, <1>3, <1>4 DEF PasteInv, PasteAsks, FileHolds

\* A step of one paste leaves the others alone, but for what is told.
LEMMA OnePasteKeeps ==
  ASSUME PasteInv, NEW p \in Pastes, PasteTyped',
         \A q \in Pastes \ {p} : paste'[q] = paste[q] /\ landed'[q] = landed[q],
         \A q \in Pastes \ {p}, f \in PasteFiles : <<q, f>> \in strip' => <<q, f>> \in strip,
         told \subseteq told',
         PasteAsks(p)', \A f \in PasteFiles : FileHolds(p, f)'
  PROVE  PasteInv'
<1>1. ASSUME NEW q \in Pastes, q # p
      PROVE  PasteAsks(q)' /\ \A f \in PasteFiles : FileHolds(q, f)'
  <2>1. PasteAsks(q) /\ \A f \in PasteFiles : FileHolds(q, f)
    BY DEF PasteInv
  <2>2. paste'[q] = paste[q] /\ landed'[q] = landed[q]
    BY <1>1
  <2>3. PasteAsks(q)'
    BY <2>1, <2>2 DEF PasteAsks
  <2>4. ASSUME NEW f \in PasteFiles
        PROVE  FileHolds(q, f)'
    <3>1. (<<q, f>> \in strip' => <<q, f>> \in strip) /\ (<<q, f>> \in told => <<q, f>> \in told')
      BY <1>1
    <3>2. FileHolds(q, f)
      BY <2>1
    <3>. QED
      BY <2>2, <3>1, <3>2 DEF FileHolds
  <2>. QED
    BY <2>3, <2>4
<1>2. ASSUME NEW q \in Pastes
      PROVE  (PasteAsks(q) /\ \A f \in PasteFiles : FileHolds(q, f))'
  BY <1>1, <1>2
<1>. QED
  BY <1>2 DEF PasteInv

LEMMA StageIs ==
  ASSUME NEW s \in PR!Snapshots, NEW probed \in BOOLEAN
  PROVE  /\ PR!Stage(s, probed) \in {"native", "upload", "image", "strings"}
         /\ PR!Stage(s, probed) \in {"image", "strings"} => s.files = {}
  BY DEF PR!Stage

LEMMA SendingIs ==
  ASSUME NEW fs
  PROVE  /\ PR!Sending(fs) \in [PasteFiles -> Answers]
         /\ \A f \in PasteFiles : PR!Sending(fs)[f] # "failed"
                                  /\ (f \in fs => PR!Sending(fs)[f] # "none")
  BY DEF PR!Sending, Answers

LEMMA ReachedIs ==
  ASSUME NEW s \in PR!Snapshots, NEW place \in PR!Places,
         NEW stage \in {"native", "upload", "image", "strings"},
         stage \in {"image", "strings"} => s.files = {}
  PROVE  LET r == PR!Reached(s, place, stage)
         IN /\ r \in PastesMade
            /\ r.pc = stage /\ r.files = s.files
            /\ stage # "upload" => r.s = s
            /\ stage = "upload" => r.upload = PR!Sending(s.files)
<1>1. s.files \in SUBSET PasteFiles
  BY DEF PR!Snapshots
<1>2. /\ PR!Sending(s.files) \in [PasteFiles -> Answers]
      /\ PR!Sending({}) \in [PasteFiles -> Answers]
  BY SendingIs
<1>. DEFINE held == IF stage \in {"native", "image", "strings"} THEN s ELSE PR!Unused
            sends == IF stage = "upload" THEN PR!Sending(s.files) ELSE PR!Sending({})
<1>3. held \in PR!Snapshots \union {PR!Unused} /\ sends \in [PasteFiles -> Answers]
      /\ (stage # "upload" => held = s) /\ (stage = "upload" => sends = PR!Sending(s.files))
  BY <1>2
<1>4. PR!Reached(s, place, stage) =
        [pc |-> stage, place |-> place, files |-> s.files, s |-> held, upload |-> sends]
  BY DEF PR!Reached
<1>. HIDE DEF held, sends
<1>. QED
  BY <1>1, <1>3, <1>4 DEF PastesMade, Progress

\* The paste that arrives at a stage of its way.
LEMMA ReachesKeeps ==
  ASSUME PasteInv, NEW p \in Pastes, NEW s \in PR!Snapshots, NEW place \in PR!Places,
         NEW stage \in {"native", "upload", "image", "strings"},
         stage \in {"image", "strings"} => s.files = {},
         paste[p].pc \in {"unused", "native", "image", "strings"},
         paste' = [paste EXCEPT ![p] = PR!Reached(s, place, stage)],
         UNCHANGED <<landed, told, strip>>
  PROVE  PasteInv'
<1>. DEFINE r == PR!Reached(s, place, stage)
<1>1. /\ r \in PastesMade /\ r.pc = stage /\ r.files = s.files
      /\ stage # "upload" => r.s = s
      /\ stage = "upload" => r.upload = PR!Sending(s.files)
  BY ReachedIs
<1>2. paste' = [paste EXCEPT ![p] = r]
  OBVIOUS
<1>. HIDE DEF r
<1>3. PasteTyped
  BY DEF PasteInv
<1>4. PasteTyped' /\ paste'[p] = r
      /\ \A q \in Pastes \ {p} : paste'[q] = paste[q] /\ landed'[q] = landed[q]
  BY <1>1, <1>2, <1>3 DEF PasteTyped
<1>5. PasteAsks(p)'
  BY <1>1, <1>4 DEF PasteAsks
<1>6. ASSUME NEW f \in PasteFiles
      PROVE  FileHolds(p, f)'
  <2>1. landed'[p][f] = 0 /\ <<p, f>> \notin strip'
    BY DEF PasteInv, FileHolds
  <2>2. CASE stage = "upload"
    <3>1. r.upload[f] # "failed" /\ (f \in r.files => r.upload[f] # "none")
      BY <1>1, <2>2, SendingIs
    <3>. QED
      BY <1>1, <1>4, <2>1, <2>2, <3>1 DEF FileHolds
  <2>3. CASE stage # "upload"
    BY <1>1, <1>4, <2>1, <2>3 DEF FileHolds
  <2>. QED
    BY <2>2, <2>3
<1>. QED
  BY <1>4, <1>5, <1>6, OnePasteKeeps

\* What is put in its place, or told instead, of some files of a paste.
LEMMA InjectingIs ==
  ASSUME PasteTyped, NEW p \in Pastes, NEW fs \in SUBSET PasteFiles,
         \A f \in fs : landed[p][f] = 0, PR!InjectPaths(p, fs)
  PROVE  /\ landed' \in [Pastes -> [PasteFiles -> {0, 1}]] /\ told \subseteq told'
         /\ \A q \in Pastes \ {p} : landed'[q] = landed[q]
         /\ \A f \in fs : landed'[p][f] = 1 \/ <<p, f>> \in told'
         /\ \A f \in PasteFiles \ fs : landed'[p][f] = landed[p][f]
<1>1. /\ landed \in [Pastes -> [PasteFiles -> {0, 1}]]
      /\ landed[p] \in [PasteFiles -> {0, 1}]
  BY DEF PasteTyped
<1>2. CASE paste[p].place \in open
  <2>. DEFINE now == [f \in PasteFiles |-> landed[p][f] + (IF f \in fs THEN 1 ELSE 0)]
  <2>1. landed' = [landed EXCEPT ![p] = now] /\ told' = told
    BY <1>2 DEF PR!InjectPaths
  <2>2. \A f \in PasteFiles : /\ landed[p][f] \in {0, 1}
                              /\ now[f] = IF f \in fs THEN 1 ELSE landed[p][f]
    BY <1>1
  <2>3. now \in [PasteFiles -> {0, 1}]
    BY <2>2
  <2>. HIDE DEF now
  <2>. QED
    BY <1>1, <2>1, <2>2, <2>3
<1>3. CASE paste[p].place \notin open
  BY <1>1, <1>3 DEF PR!InjectPaths
<1>. QED
  BY <1>2, <1>3

\* The paste that ends, every file of it landed or told about.
LEMMA EndsKeeps ==
  ASSUME PasteInv, NEW p \in Pastes, paste[p] \in PastesMade, PR!Ends(p),
         landed' \in [Pastes -> [PasteFiles -> {0, 1}]], told \subseteq told',
         \A q \in Pastes \ {p} : landed'[q] = landed[q], strip' = strip,
         \A f \in PasteFiles : <<p, f>> \in strip => landed'[p][f] = 0,
         \A f \in paste[p].files : landed'[p][f] = 1 \/ <<p, f>> \in told'
  PROVE  PasteInv'
<1>. DEFINE r == [paste[p] EXCEPT !.pc = "done", !.s = PR!Unused, !.upload = PR!Sending({})]
<1>1. paste \in [Pastes -> PastesMade \union {PR!Unused}]
  BY DEF PasteInv, PasteTyped
<1>2. paste' = [paste EXCEPT ![p] = r]
  BY <1>1 DEF PR!Ends
<1>3. PR!Sending({}) \in [PasteFiles -> Answers]
  BY SendingIs
<1>4. r \in PastesMade /\ r.pc = "done" /\ r.files = paste[p].files
  BY <1>3 DEF PastesMade, Progress
<1>. HIDE DEF r
<1>5. PasteTyped' /\ paste'[p] = r /\ \A q \in Pastes \ {p} : paste'[q] = paste[q]
  BY <1>1, <1>2, <1>4 DEF PasteTyped
<1>6. PasteAsks(p)'
  BY <1>4, <1>5 DEF PasteAsks
<1>7. \A f \in PasteFiles : FileHolds(p, f)'
  BY <1>4, <1>5 DEF FileHolds
<1>. QED
  BY <1>5, <1>6, <1>7, OnePasteKeeps

LEMMA PastingKeeps ==
  ASSUME PasteInv, NEW p \in Pastes, NEW s \in PR!Snapshots, NEW place \in PR!Places,
         PR!Paste(p, s, place)
  PROVE  PasteInv'
<1>1. paste[p].pc = "unused"
  BY DEF PR!Paste, PR!Unused
<1>. QED
  BY <1>1, StageIs, ReachesKeeps DEF PR!Paste

\* A paste that asks has landed nothing and offers no retry.
LEMMA AskingIs ==
  ASSUME PasteInv, NEW p \in Pastes, paste[p].pc \in {"native", "image", "strings"}
  PROVE  /\ paste[p] \in PastesMade /\ paste[p].s \in PR!Snapshots /\ paste[p].place \in PR!Places
         /\ paste[p].files = paste[p].s.files /\ paste[p].files \in SUBSET PasteFiles
         /\ paste[p].pc \in {"image", "strings"} => paste[p].files = {}
         /\ \A f \in PasteFiles : landed[p][f] = 0 /\ <<p, f>> \notin strip
<1>1. paste[p] \in PastesMade
  BY DEF PasteInv, PasteTyped, PR!Unused
<1>2. PasteAsks(p) /\ \A f \in PasteFiles : FileHolds(p, f)
  BY DEF PasteInv
<1>. QED
  BY <1>1, <1>2 DEF PasteAsks, FileHolds, PastesMade

\* The user is told of the whole paste.
LEMMA ToldKeeps ==
  ASSUME PasteInv, NEW p \in Pastes, paste[p].pc \in {"native", "image", "strings"},
         PR!Ends(p), PR!Tells(p), strip' = strip
  PROVE  PasteInv'
<1>1. /\ paste[p] \in PastesMade /\ paste[p].files \in SUBSET PasteFiles
      /\ \A f \in PasteFiles : landed[p][f] = 0 /\ <<p, f>> \notin strip
  BY AskingIs
<1>2. /\ landed' = landed /\ told \subseteq told'
      /\ \A f \in PasteFiles : <<p, f>> \in told'
  BY DEF PR!Tells
<1>3. landed \in [Pastes -> [PasteFiles -> {0, 1}]]
  BY DEF PasteInv, PasteTyped
<1>. QED
  BY <1>1, <1>2, <1>3, EndsKeeps

LEMMA InjectedKeeps ==
  ASSUME PasteInv, NEW p \in Pastes, paste[p].pc \in {"native", "image", "strings"},
         PR!Ends(p), PR!InjectPaths(p, PasteFiles), strip' = strip
  PROVE  PasteInv'
<1>1. /\ paste[p] \in PastesMade /\ paste[p].files \in SUBSET PasteFiles
      /\ \A f \in PasteFiles : landed[p][f] = 0 /\ <<p, f>> \notin strip
  BY AskingIs
<1>2. PasteTyped
  BY DEF PasteInv
<1>3. /\ landed' \in [Pastes -> [PasteFiles -> {0, 1}]] /\ told \subseteq told'
      /\ \A q \in Pastes \ {p} : landed'[q] = landed[q]
      /\ \A f \in PasteFiles : landed'[p][f] = 1 \/ <<p, f>> \in told'
  BY <1>1, <1>2, InjectingIs
<1>. QED
  BY <1>1, <1>3, EndsKeeps

LEMMA NativeAnswerKeeps ==
  ASSUME PasteInv, NEW p \in Pastes, PR!NativeAnswer(p)
  PROVE  PasteInv'
<1>1. paste[p].pc = "native" /\ strip' = strip
  BY DEF PR!NativeAnswer
<1>2. CASE PR!InjectPaths(p, PasteFiles) /\ PR!Ends(p)
  BY <1>1, <1>2, InjectedKeeps
<1>3. CASE PR!GoesOn(p, PR!Stage(paste[p].s, TRUE)) /\ UNCHANGED <<landed, told>>
  <2>1. paste[p].s \in PR!Snapshots /\ paste[p].place \in PR!Places
    BY <1>1, AskingIs
  <2>2. /\ PR!Stage(paste[p].s, TRUE) \in {"native", "upload", "image", "strings"}
        /\ PR!Stage(paste[p].s, TRUE) \in {"image", "strings"} => paste[p].s.files = {}
    BY <2>1, StageIs
  <2>3. paste' = [paste EXCEPT ![p] =
                    PR!Reached(paste[p].s, paste[p].place, PR!Stage(paste[p].s, TRUE))]
    BY <1>3 DEF PR!GoesOn, PasteInv, PasteTyped
  <2>. QED
    BY <1>1, <1>3, <2>1, <2>2, <2>3, ReachesKeeps
<1>. QED
  BY <1>2, <1>3 DEF PR!NativeAnswer

LEMMA ImageAnswerKeeps ==
  ASSUME PasteInv, NEW p \in Pastes, PR!ImageAnswer(p)
  PROVE  PasteInv'
<1>1. paste[p].pc = "image" /\ strip' = strip
  BY DEF PR!ImageAnswer
<1>2. CASE PR!Ends(p) /\ PR!Tells(p)
  BY <1>1, <1>2, ToldKeeps
<1>3. ASSUME NEW f \in PasteFiles, UNCHANGED <<landed, told>>,
             paste' = [paste EXCEPT ![p] =
               [PR!Reached(paste[p].s, paste[p].place, "upload") EXCEPT
                  !.files = {f}, !.upload = PR!Sending({f})]]
      PROVE  PasteInv'
  <2>. DEFINE first == PR!Reached(paste[p].s, paste[p].place, "upload")
              r == [first EXCEPT !.files = {f}, !.upload = PR!Sending({f})]
  <2>1. paste[p].s \in PR!Snapshots /\ paste[p].place \in PR!Places
    BY <1>1, AskingIs
  <2>2. first \in PastesMade /\ first.pc = "upload"
    BY <2>1, ReachedIs
  <2>3. PR!Sending({f}) \in [PasteFiles -> Answers]
    BY SendingIs
  <2>4. paste' = [paste EXCEPT ![p] = r]
    BY <1>3
  <2>. HIDE DEF first
  <2>5. /\ r \in PastesMade /\ r.pc = "upload" /\ r.files = {f}
        /\ r.upload = PR!Sending({f})
    BY <2>2, <2>3 DEF PastesMade
  <2>. HIDE DEF r
  <2>6. /\ PasteTyped' /\ paste'[p] = r
        /\ \A q \in Pastes \ {p} : paste'[q] = paste[q] /\ landed'[q] = landed[q]
    BY <1>3, <2>4, <2>5 DEF PasteTyped, PasteInv
  <2>7. PasteAsks(p)'
    BY <2>5, <2>6 DEF PasteAsks
  <2>8. ASSUME NEW g \in PasteFiles
        PROVE  FileHolds(p, g)'
    <3>1. landed'[p][g] = 0 /\ <<p, g>> \notin strip'
      BY <1>1, <1>3, AskingIs
    <3>2. r.upload[g] # "failed" /\ (g \in r.files => r.upload[g] # "none")
      BY <2>5, SendingIs
    <3>. QED
      BY <2>5, <2>6, <3>1, <3>2 DEF FileHolds
  <2>. QED
    BY <1>1, <1>3, <2>6, <2>7, <2>8, OnePasteKeeps
<1>. QED
  BY <1>2, <1>3 DEF PR!ImageAnswer

LEMMA StringsAnswerKeeps ==
  ASSUME PasteInv, NEW p \in Pastes, PR!StringsAnswer(p)
  PROVE  PasteInv'
<1>1. paste[p].pc = "strings" /\ strip' = strip /\ PR!Ends(p)
  BY DEF PR!StringsAnswer
<1>2. CASE PR!InjectPaths(p, PasteFiles)
  BY <1>1, <1>2, InjectedKeeps
<1>3. CASE PR!Tells(p)
  BY <1>1, <1>3, ToldKeeps
<1>4. CASE UNCHANGED <<landed, told>>
  <2>1. /\ paste[p] \in PastesMade /\ paste[p].files = {}
        /\ \A f \in PasteFiles : <<p, f>> \notin strip
    BY <1>1, AskingIs
  <2>2. landed \in [Pastes -> [PasteFiles -> {0, 1}]]
    BY DEF PasteInv, PasteTyped
  <2>. QED
    BY <1>1, <1>4, <2>1, <2>2, EndsKeeps
<1>. QED
  BY <1>2, <1>3, <1>4 DEF PR!StringsAnswer

LEMMA UploadingIs ==
  ASSUME PasteInv, NEW p \in Pastes, paste[p].pc = "upload"
  PROVE  /\ paste[p] \in PastesMade /\ paste[p].upload \in [PasteFiles -> Answers]
         /\ paste[p].files \in SUBSET PasteFiles /\ \A f \in PasteFiles : FileHolds(p, f)
<1>1. paste[p] \in PastesMade
  BY DEF PasteInv, PasteTyped, PR!Unused
<1>. QED
  BY <1>1 DEF PastesMade, PasteInv

\* An answer to one upload: the file was saved, or it failed and is told.
LEMMA UploadedKeeps ==
  ASSUME PasteInv, NEW p \in Pastes, NEW f \in PasteFiles, PR!Uploaded(p, f)
  PROVE  PasteInv'
<1>1. /\ paste[p].pc = "upload" /\ paste[p].upload[f] = "sending" /\ landed' = landed
      /\ \E how \in {"saved", "failed"} : PR!Became(p, f, how)
      /\ told \subseteq told' /\ strip' \subseteq strip \union {<<p, f>>}
  BY DEF PR!Uploaded
<1>2. PICK how \in {"saved", "failed"} :
        /\ PR!Became(p, f, how)
        /\ how = "failed" => <<p, f>> \in told'
        /\ how = "saved" => strip' = strip
  BY DEF PR!Uploaded
<1>3. /\ paste[p] \in PastesMade /\ paste[p].upload \in [PasteFiles -> Answers]
      /\ \A g \in PasteFiles : FileHolds(p, g)
  BY <1>1, UploadingIs
<1>4. /\ paste \in [Pastes -> PastesMade \union {PR!Unused}]
      /\ landed \in [Pastes -> [PasteFiles -> {0, 1}]]
  BY DEF PasteInv, PasteTyped
<1>. DEFINE ups == [paste[p].upload EXCEPT ![f] = how]
            r == [paste[p] EXCEPT !.upload = ups]
<1>5. /\ ups \in [PasteFiles -> Answers] /\ ups[f] = how
      /\ \A g \in PasteFiles \ {f} : ups[g] = paste[p].upload[g]
  BY <1>3 DEF Answers
<1>6. paste' = [paste EXCEPT ![p] = r]
  BY <1>2, <1>4 DEF PR!Became
<1>. HIDE DEF ups
<1>7. /\ r \in PastesMade /\ r.pc = "upload" /\ r.files = paste[p].files
      /\ r.upload = ups
  BY <1>1, <1>3, <1>5 DEF PastesMade
<1>. HIDE DEF r
<1>8. /\ PasteTyped' /\ paste'[p] = r
      /\ \A q \in Pastes \ {p} : paste'[q] = paste[q] /\ landed'[q] = landed[q]
  BY <1>1, <1>4, <1>6, <1>7 DEF PasteTyped
<1>9. PasteAsks(p)'
  BY <1>7, <1>8 DEF PasteAsks
<1>10. FileHolds(p, f)'
  <2>1. landed[p][f] = 0 /\ <<p, f>> \notin strip
    BY <1>1, <1>3 DEF FileHolds
  <2>2. landed'[p][f] = 0 /\ (how = "saved" => <<p, f>> \notin strip')
    BY <1>1, <1>2, <2>1
  <2>. QED
    BY <1>2, <1>5, <1>7, <1>8, <2>2 DEF FileHolds
<1>11. ASSUME NEW g \in PasteFiles, g # f
       PROVE  FileHolds(p, g)'
  <2>1. /\ FileHolds(p, g) /\ ups[g] = paste[p].upload[g]
        /\ (<<p, g>> \in strip' => <<p, g>> \in strip)
        /\ (<<p, g>> \in told => <<p, g>> \in told')
    BY <1>1, <1>3, <1>5, <1>11
  <2>. QED
    BY <1>1, <1>7, <1>8, <2>1 DEF FileHolds
<1>12. \A q \in Pastes \ {p}, g \in PasteFiles : <<q, g>> \in strip' => <<q, g>> \in strip
  BY <1>1
<1>. QED
  BY <1>1, <1>8, <1>9, <1>10, <1>11, <1>12, OnePasteKeeps

\* All answers are there: what was saved lands, what failed was told.
LEMMA BatchedKeeps ==
  ASSUME PasteInv, NEW p \in Pastes, PR!Batched(p)
  PROVE  PasteInv'
<1>. DEFINE saved == {f \in PasteFiles : paste[p].upload[f] = "saved"}
<1>1. /\ paste[p].pc = "upload" /\ \A f \in PasteFiles : paste[p].upload[f] # "sending"
      /\ PR!InjectPaths(p, saved) /\ PR!Ends(p) /\ strip' = strip
  BY DEF PR!Batched
<1>2. /\ paste[p] \in PastesMade /\ paste[p].upload \in [PasteFiles -> Answers]
      /\ paste[p].files \in SUBSET PasteFiles /\ \A f \in PasteFiles : FileHolds(p, f)
  BY <1>1, UploadingIs
<1>3. \A f \in saved : landed[p][f] = 0 /\ <<p, f>> \notin strip
  BY <1>1, <1>2 DEF FileHolds
<1>4. PasteTyped /\ saved \in SUBSET PasteFiles
  BY DEF PasteInv
<1>5. \A f \in PasteFiles : f \in saved <=> paste[p].upload[f] = "saved"
  OBVIOUS
<1>. HIDE DEF saved
<1>6. /\ landed' \in [Pastes -> [PasteFiles -> {0, 1}]] /\ told \subseteq told'
      /\ \A q \in Pastes \ {p} : landed'[q] = landed[q]
      /\ \A f \in saved : landed'[p][f] = 1 \/ <<p, f>> \in told'
      /\ \A f \in PasteFiles \ saved : landed'[p][f] = landed[p][f]
  BY <1>1, <1>3, <1>4, InjectingIs
<1>7. ASSUME NEW f \in PasteFiles, <<p, f>> \in strip
      PROVE  landed'[p][f] = 0
  BY <1>2, <1>3, <1>6, <1>7 DEF FileHolds
<1>8. ASSUME NEW f \in paste[p].files
      PROVE  landed'[p][f] = 1 \/ <<p, f>> \in told'
  <2>1. f \in PasteFiles /\ FileHolds(p, f)
    BY <1>2
  <2>2. paste[p].upload[f] \in {"saved", "failed"}
    BY <1>1, <1>2, <2>1 DEF FileHolds, Answers
  <2>. QED
    BY <1>1, <1>5, <1>6, <2>1, <2>2 DEF FileHolds
<1>. QED
  BY <1>1, <1>2, <1>6, <1>7, <1>8, EndsKeeps

\* A retry lands what had not landed, and takes its entry away as it does.
LEMMA RetryKeeps ==
  ASSUME PasteInv, NEW p \in Pastes, NEW f \in PasteFiles, PR!Retry(p, f)
  PROVE  PasteInv'
<1>1. /\ <<p, f>> \in strip /\ paste' = paste
      /\ \/ strip' = strip \ {<<p, f>>} /\ PR!InjectPaths(p, {f})
         \/ strip' \subseteq strip /\ UNCHANGED <<landed, told>>
  BY DEF PR!Retry, PR!Taken
<1>2. /\ PasteTyped /\ PasteAsks(p) /\ FileHolds(p, f)
      /\ \A g \in PasteFiles : FileHolds(p, g)
  BY DEF PasteInv
<1>3. landed[p][f] = 0 /\ paste[p].pc \notin {"unused", "native", "image", "strings"}
  BY <1>1, <1>2 DEF FileHolds
<1>4. PasteAsks(p)'
  BY <1>1, <1>2 DEF PasteAsks
<1>5. CASE strip' = strip \ {<<p, f>>} /\ PR!InjectPaths(p, {f})
  <2>1. /\ landed' \in [Pastes -> [PasteFiles -> {0, 1}]] /\ told \subseteq told'
        /\ \A q \in Pastes \ {p} : landed'[q] = landed[q]
        /\ landed'[p][f] = 1 \/ <<p, f>> \in told'
        /\ \A g \in PasteFiles \ {f} : landed'[p][g] = landed[p][g]
    <3>1. \A g \in {f} : landed[p][g] = 0
      BY <1>3
    <3>. QED
      BY <1>2, <1>5, <3>1, InjectingIs
  <2>2. PasteTyped'
    BY <1>1, <1>2, <2>1 DEF PasteTyped
  <2>3. FileHolds(p, f)'
    BY <1>1, <1>2, <1>3, <1>5, <2>1 DEF FileHolds
  <2>4. ASSUME NEW g \in PasteFiles, g # f
        PROVE  FileHolds(p, g)'
    <3>1. /\ FileHolds(p, g) /\ landed'[p][g] = landed[p][g]
          /\ (<<p, g>> \in strip' => <<p, g>> \in strip)
          /\ (<<p, g>> \in told => <<p, g>> \in told')
      BY <1>2, <1>5, <2>1, <2>4
    <3>. QED
      BY <1>1, <3>1 DEF FileHolds
  <2>. QED
    BY <1>1, <1>4, <1>5, <2>1, <2>2, <2>3, <2>4, OnePasteKeeps
<1>6. CASE strip' \subseteq strip /\ UNCHANGED <<landed, told>>
  <2>1. \A g \in PasteFiles : FileHolds(p, g)'
    BY <1>1, <1>2, <1>6 DEF FileHolds
  <2>2. PasteTyped'
    BY <1>1, <1>2, <1>6 DEF PasteTyped
  <2>. QED
    BY <1>1, <1>4, <1>6, <2>1, <2>2, OnePasteKeeps
<1>. QED
  BY <1>1, <1>5, <1>6

\* An entry that goes from the strip, or a step that says nothing of files
LEMMA PastesStay ==
  ASSUME PasteInv, UNCHANGED <<paste, landed, told>>, strip' \subseteq strip
  PROVE  PasteInv'
  BY DEF PasteInv, PasteTyped, PasteAsks, FileHolds

LEMMA PasteStepKeeps ==
  ASSUME PasteInv, PR!PrNext
  PROVE  PasteInv'
<1>1. ASSUME NEW p \in Pastes, NEW s \in PR!Snapshots, NEW place \in PR!Places,
             PR!Paste(p, s, place)
      PROVE  PasteInv'
  BY <1>1, PastingKeeps
<1>2. ASSUME NEW p \in Pastes,
             PR!NativeAnswer(p) \/ PR!ImageAnswer(p) \/ PR!StringsAnswer(p) \/ PR!Batched(p)
      PROVE  PasteInv'
  BY <1>2, NativeAnswerKeeps, ImageAnswerKeeps, StringsAnswerKeeps, BatchedKeeps
<1>3. ASSUME NEW p \in Pastes, NEW f \in PasteFiles, PR!Uploaded(p, f) \/ PR!Retry(p, f)
      PROVE  PasteInv'
  BY <1>3, UploadedKeeps, RetryKeeps
<1>4. ASSUME NEW e \in strip, PR!Dismiss(e)
      PROVE  PasteInv'
  BY <1>4, PastesStay DEF PR!Dismiss
<1>5. ASSUME NEW place \in PR!Places, PR!Toggle(place)
      PROVE  PasteInv'
  BY <1>5, PastesStay DEF PR!Toggle
<1>6. CASE PR!DebounceEnds
  BY <1>6, PastesStay DEF PR!DebounceEnds
<1>. QED
  BY <1>1, <1>2, <1>3, <1>4, <1>5, <1>6 DEF PR!PrNext

LEMMA PastedIsThere ==
  ASSUME PasteInv
  PROVE  PR!PastedLandsOnce
<1>1. ASSUME NEW p \in Pastes, paste[p] # PR!Unused
      PROVE  /\ \A f \in PasteFiles : landed[p][f] <= 1
             /\ paste[p].pc = "done" =>
                  \A f \in paste[p].files : landed[p][f] = 1 \/ <<p, f>> \in told
  <2>1. paste[p] \in PastesMade
    BY <1>1 DEF PasteInv, PasteTyped
  <2>2. paste[p].files \in SUBSET PasteFiles
    BY <2>1 DEF PastesMade
  <2>3. \A f \in PasteFiles : landed[p][f] \in {0, 1} /\ FileHolds(p, f)
    BY DEF PasteInv, PasteTyped
  <2>4. \A f \in PasteFiles : landed[p][f] <= 1
    BY <2>3
  <2>5. paste[p].pc = "done" => \A f \in paste[p].files : landed[p][f] = 1 \/ <<p, f>> \in told
    BY <2>2, <2>3 DEF FileHolds
  <2>. QED
    BY <2>4, <2>5
<1>. QED
  BY <1>1 DEF PR!PastedLandsOnce

-----------------------------------------------------------------------------
EnteredInv == TypingInv /\ KeyInv /\ PasteInv

LEMMA EnteredStays ==
  ASSUME EnteredInv, UNCHANGED <<tcVars, kfVars, prVars>>
  PROVE  EnteredInv'
<1>1. TypingInv' /\ KeyInv'
  BY TypingStays, KeysStay, TerminalAssumption DEF EnteredInv
<1>2. UNCHANGED <<paste, landed, told, strip>>
  BY DEF prVars
<1>3. PasteInv'
  BY <1>2, PastesStay DEF EnteredInv
<1>. QED
  BY <1>1, <1>3 DEF EnteredInv

LEMMA EnteredStepKeeps ==
  ASSUME EnteredInv, TerminalNext
  PROVE  EnteredInv'
<1>1. TypingInv /\ KeyInv /\ PasteInv /\ MaxTyped \in Nat /\ MaxPending \in Nat
  BY TerminalAssumption DEF EnteredInv
<1>2. UNCHANGED prVars => UNCHANGED <<paste, landed, told, strip>>
  BY DEF prVars
<1>3. CASE TC!TcNext /\ UNCHANGED <<kfVars, prVars>>
  BY <1>1, <1>2, <1>3, TypingStepKeeps, KeysStay, PastesStay DEF EnteredInv
<1>4. CASE KF!KeyNext /\ UNCHANGED <<tcVars, prVars>>
  BY <1>1, <1>2, <1>4, TypingStays, KeyStepKeeps, PastesStay DEF EnteredInv
<1>5. CASE PR!PrNext /\ UNCHANGED <<tcVars, kfVars>>
  BY <1>1, <1>5, TypingStays, KeysStay, PasteStepKeeps DEF EnteredInv
<1>6. CASE UNCHANGED <<tcVars, kfVars, prVars>>
  BY <1>6, EnteredStays
<1>. QED
  BY <1>3, <1>4, <1>5, <1>6 DEF TerminalNext

\* What is typed over a terminal is afterwards in its prompt, in the input
\* box or its draft, gone as the user wished, or lost, and only once; it is
\* lost only where the code lets it fall: no socket takes it, the terminal is
\* covered, the host's prompt replaces it, or its box has gone under a
\* composition (typeToCompose.ts, useComposeBox.ts, sendTerminalData).  A key
\* of a soft keyboard goes out once, in the order pressed, by the terminal or
\* by the fallback (useXtermKeyboardFallback.ts); and a pasted file lands at
\* most once, and when its paste is over it has landed or the user knows
\* (useCliPasteResolver.ts, useClipboardPaste.ts).
THEOREM WhatIsEnteredArrivesOnce == TerminalSpec => []EnteredOnce
<1>1. TerminalInit => EnteredInv
  BY TypingBegins, KeysBegin, PasteBegins, TerminalAssumption DEF TerminalInit, EnteredInv
<1>2. EnteredInv /\ [TerminalNext]_<<
        focus, surfaceVars, tcVars, prVars, xsVars, kfVars, dgVars>> => EnteredInv'
  BY EnteredStays, EnteredStepKeeps
<1>3. EnteredInv => EnteredOnce
  BY TypedIsThere, KeysAreRight, PastedIsThere, TerminalAssumption DEF EnteredInv, EnteredOnce
<1>. QED
  BY <1>1, <1>2, <1>3, PTL DEF TerminalSpec
=============================================================================
