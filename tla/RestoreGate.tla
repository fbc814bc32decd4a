---------------------------- MODULE RestoreGate ----------------------------
(***************************************************************************)
(* When the terminal's "restoring" overlay is owed: restoreGate.ts, the    *)
(* frames that drive it (outputFrames.ts) and the paint that settles it    *)
(* (framePaint.ts).                                                        *)
(*                                                                         *)
(* A (re)connection owes a restore, and so does every replay_reset.  The   *)
(* clear that a replay_reset asks for is put off and written together with *)
(* the next binary frame, the restore.  The debt is settled one paint      *)
(* after xterm has parsed it.  Between the write, the parse and the paint  *)
(* anything may arrive, another connection included: the callbacks carry   *)
(* the epoch they were made in.                                            *)
(*                                                                         *)
(* xterm's write queue is FIFO and asynchronous; a callback waits for      *)
(* requestAnimationFrame or a fallback timer, whichever runs first, and    *)
(* runs once, so callbacks may run in any order.                           *)
(***************************************************************************)
EXTENDS Integers, Sequences

CONSTANTS MaxEpoch,  \* bound: connections and replay_resets in a behaviour
          MaxWrites  \* bound: writes waiting for the parser

ASSUME RestoreAssumption == MaxEpoch \in Nat /\ MaxWrites \in Nat

VARIABLES
  owed, epoch, awaitingRestore, restoreInFlight, sawReset, \* createRestoreGate
  writes,   \* xterm's write queue: [kind, epoch], epoch -1: settles nothing
  paints,   \* epochs whose restorePainted callback waits for a paint
  parsed,   \* epoch of the last restore the parser consumed, or -1
  excused   \* the debt was waived: no restore will come

gateVars == <<owed, epoch, awaitingRestore, restoreInFlight, sawReset>>
screenVars == <<writes, paints, parsed>>
restoreVars == <<gateVars, screenVars, excused>>

Write == [kind : {"live", "restore", "reset"}, epoch : -1..MaxEpoch]

RestoreTypeOK ==
  /\ owed \in BOOLEAN /\ awaitingRestore \in BOOLEAN
  /\ restoreInFlight \in BOOLEAN /\ sawReset \in BOOLEAN /\ excused \in BOOLEAN
  /\ epoch \in 0..MaxEpoch /\ parsed \in -1..MaxEpoch
  /\ writes \in Seq(Write)
  /\ paints \subseteq 0..MaxEpoch

RestoreInit ==
  /\ owed = TRUE /\ epoch = 0
  /\ awaitingRestore = FALSE /\ restoreInFlight = FALSE /\ sawReset = FALSE
  /\ writes = <<>> /\ paints = {} /\ parsed = -1 /\ excused = FALSE

NewEpoch(reset) ==
  /\ epoch < MaxEpoch
  /\ epoch' = epoch + 1 /\ owed' = TRUE /\ excused' = FALSE
  /\ awaitingRestore' = reset /\ sawReset' = reset /\ restoreInFlight' = FALSE

(* connecting(): everything the last connection owed is void.              *)
GateConnecting == NewEpoch(FALSE) /\ UNCHANGED screenVars

(* replayReset(): from here a restore is owed; nothing is cleared yet.     *)
GateReplayReset == NewEpoch(TRUE) /\ UNCHANGED screenVars

Enqueue(w) ==
  /\ Len(writes) < MaxWrites
  /\ writes' = Append(writes, w) /\ UNCHANGED <<paints, parsed>>

(* gate.binary(): the first binary frame after a replay_reset is the       *)
(* restore.                                                                *)
TakeBinary ==
  /\ awaitingRestore' = FALSE
  /\ restoreInFlight' = (restoreInFlight \/ awaitingRestore)
  /\ UNCHANGED <<owed, epoch, sawReset, excused>>

(* handleOutputFrame: the restore takes the clear along in its write.      *)
OutputFrame ==
  /\ Enqueue(IF awaitingRestore THEN [kind |-> "restore", epoch |-> epoch]
             ELSE [kind |-> "live", epoch |-> -1])
  /\ TakeBinary

(* Mutant of SessionMeta: the put-off clear is written and not waited for. *)
SessionMetaNoPaint ==
  IF awaitingRestore
  THEN /\ Enqueue([kind |-> "reset", epoch |-> -1])
       /\ awaitingRestore' = FALSE /\ restoreInFlight' = TRUE
       /\ UNCHANGED <<owed, epoch, sawReset, excused>>
  ELSE /\ owed' = (owed /\ (restoreInFlight \/ sawReset))
       /\ excused' = (excused \/ (~restoreInFlight /\ ~sawReset))
       /\ UNCHANGED <<epoch, awaitingRestore, restoreInFlight, sawReset, screenVars>>

(* session_meta ends the initial burst: without a restore frame the put-off *)
(* clear is written by itself, and its paint settles the debt; a peer that  *)
(* sends no replay_reset owes nothing.                                      *)
SessionMeta ==
  IF awaitingRestore
  THEN /\ Enqueue([kind |-> "reset", epoch |-> epoch])
       /\ awaitingRestore' = FALSE /\ restoreInFlight' = TRUE
       /\ UNCHANGED <<owed, epoch, sawReset, excused>>
  ELSE /\ owed' = (owed /\ (restoreInFlight \/ sawReset))
       /\ excused' = (excused \/ (~restoreInFlight /\ ~sawReset))
       /\ UNCHANGED <<epoch, awaitingRestore, restoreInFlight, sawReset, screenVars>>

(* shell_exit, preempted, error: the notice that follows must be seen.     *)
TerminalFrame ==
  /\ IF awaitingRestore THEN Enqueue([kind |-> "reset", epoch |-> -1])
     ELSE UNCHANGED screenVars
  /\ owed' = FALSE /\ awaitingRestore' = FALSE /\ restoreInFlight' = FALSE
  /\ excused' = TRUE
  /\ UNCHANGED <<epoch, sawReset>>

(* handleControlFrame                                                      *)
ControlFrame == GateReplayReset \/ SessionMeta \/ TerminalFrame

AfterNextPaint(e) == paints' = paints \union {e}

(* The parser consumes a write; its callback asks for the next paint.      *)
Parse ==
  /\ writes # <<>>
  /\ writes' = Tail(writes)
  /\ LET e == Head(writes).epoch
     IN IF e < 0 THEN UNCHANGED <<paints, parsed>>
        ELSE AfterNextPaint(e) /\ parsed' = e
  /\ UNCHANGED <<gateVars, excused>>

(* Mutant of Painted: any callback settles the debt.                       *)
PaintedAnyEpoch(e) ==
  /\ e \in paints
  /\ paints' = paints \ {e}
  /\ IF restoreInFlight
     THEN owed' = FALSE /\ restoreInFlight' = FALSE
     ELSE UNCHANGED <<owed, restoreInFlight>>
  /\ UNCHANGED <<epoch, awaitingRestore, sawReset, writes, parsed, excused>>

(* restorePainted: a callback of an epoch that is over changes nothing.    *)
Painted(e) ==
  /\ e \in paints
  /\ paints' = paints \ {e}
  /\ IF e = epoch /\ restoreInFlight
     THEN owed' = FALSE /\ restoreInFlight' = FALSE
     ELSE UNCHANGED <<owed, restoreInFlight>>
  /\ UNCHANGED <<epoch, awaitingRestore, sawReset, writes, parsed, excused>>

RestoreNext ==
  \/ GateConnecting \/ OutputFrame \/ ControlFrame \/ Parse
  \/ \E e \in paints : Painted(e)

RestoreSpec == RestoreInit /\ [][RestoreNext]_restoreVars

-----------------------------------------------------------------------------
(* The overlay never goes away early: when nothing is owed, the restore of *)
(* this very epoch has been parsed, or no restore is to come.  The paint   *)
(* of an earlier connection's restore, or of one a resync made void, must  *)
(* not settle the debt (restoreGate.ts, restorePainted).                   *)
SettledMeansShown == ~owed => excused \/ parsed = epoch
=============================================================================
