---------------------------- MODULE Diagnostics ----------------------------
(***************************************************************************)
(* What a terminal measures of itself: the time from a key to its echo on  *)
(* the screen (latencyProbe.ts, outputFrames.ts), the cost of its renders  *)
(* (terminalRenderMetrics.ts behind renderSampleGate.ts), and the queue of *)
(* events for the server's log (useCliInputDiagnostics.ts).                *)
(*                                                                         *)
(* Durations are left out: a wait is in time or late, a sample is the      *)
(* circumstances it was taken in.  `dark` is history: the page was hidden  *)
(* at some moment since.                                                   *)
(***************************************************************************)
EXTENDS Naturals, Sequences, FiniteSets

CONSTANTS
  MaxTokens,   \* echoes followed at once (8 in the code)
  MaxBuffer,   \* MAX_BUFFER: events kept (200)
  MaxSends, MaxConns, MaxViews, MaxQueued, MaxEvents   \* bounds

VARIABLES
  tab,        \* visibility, visibilityEpoch, whether the terminal has a layout
  link,       \* connected, and to which connection
  pending,    \* the send that waits for its echo, or NoSend
  echoes,     \* inflight: token -> echo
  nextToken,
  queued,     \* frames that xterm has not parsed
  paints,     \* tokens whose afterNextPaint waits
  renders,    \* frames parsed whose onRender waits
  samples, chip,   \* latency samples, latencySummary
  frames,     \* metrics window: the render samples
  buf, flush, lastEvent, lostUpTo   \* _buf; the events of the request, newest event, newest lost

echoVars == <<tab, link, pending, echoes, nextToken, queued, paints, renders, samples, chip, frames>>
eventVars == <<buf, flush, lastEvent, lostUpTo>>
dgVars == <<echoVars, eventVars>>

NoSend == [conn |-> 0, epoch |-> 0, dark |-> FALSE]
Idle == [on |-> FALSE, batch |-> <<>>]

DgInit ==
  /\ tab = [hidden |-> FALSE, epoch |-> 0, laidOut |-> TRUE] /\ link = [up |-> FALSE, conn |-> 0]
  /\ pending = NoSend /\ echoes = <<>> /\ nextToken = 1
  /\ queued = <<>> /\ paints = {} /\ renders = {} /\ samples = {} /\ chip = FALSE /\ frames = {}
  /\ buf = <<>> /\ flush = Idle /\ lastEvent = 0 /\ lostUpTo = 0
-----------------------------------------------------------------------------
(* the watch on the connection: a new one starts blank                     *)
Reset == pending' = NoSend /\ echoes' = <<>> /\ samples' = {}
Connected ==
  /\ ~link.up /\ link.conn < MaxConns /\ link' = [up |-> TRUE, conn |-> link.conn + 1]
  /\ UNCHANGED <<tab, pending, echoes, nextToken, queued, paints, renders, samples, chip, frames>>
Disconnected ==
  /\ link.up /\ link' = [link EXCEPT !.up = FALSE] /\ Reset /\ chip' = FALSE
  /\ UNCHANGED <<tab, nextToken, queued, paints, renders, frames>>

(* visibilitychange; the tab strip                                         *)
VisibilityChange ==
  /\ tab.epoch < MaxViews /\ tab' = [tab EXCEPT !.hidden = ~@, !.epoch = @ + 1]
  /\ pending' = IF pending = NoSend THEN NoSend ELSE [pending EXCEPT !.dark = TRUE]
  /\ echoes' = [t \in DOMAIN echoes |-> [echoes[t] EXCEPT !.dark = TRUE]]
  /\ queued' = [i \in DOMAIN queued |-> [queued[i] EXCEPT !.dark = TRUE]]
  /\ renders' = {[r EXCEPT !.dark = TRUE] : r \in renders}
  /\ UNCHANGED <<link, nextToken, paints, samples, chip, frames>>
Layout ==
  /\ tab' = [tab EXCEPT !.laidOut = ~@]
  /\ UNCHANGED <<link, pending, echoes, nextToken, queued, paints, renders, samples, chip, frames>>

(* sendBinary of what expectsEcho; noteSend joins the earliest wait unless *)
(* that one is too old                                                     *)
Send(late) ==
  /\ link.up /\ nextToken <= MaxSends
  /\ pending' = IF pending # NoSend /\ ~late THEN pending
                ELSE [conn |-> link.conn, epoch |-> tab.epoch, dark |-> tab.hidden]
  /\ UNCHANGED <<tab, link, echoes, nextToken, queued, paints, renders, samples, chip, frames>>

(* noteOutput: live output answers the wait, a restore ends it; of too     *)
(* many echoes the oldest is given up                                      *)
Youngest(f) ==
  IF Cardinality(DOMAIN f) <= MaxTokens THEN f
  ELSE LET oldest == CHOOSE t \in DOMAIN f : \A u \in DOMAIN f : t <= u
       IN [t \in DOMAIN f \ {oldest} |-> f[t]]
NoteOutput(restore, late) ==
  /\ pending' = NoSend
  /\ IF pending = NoSend \/ restore \/ late THEN UNCHANGED <<echoes, nextToken>>
     ELSE /\ nextToken' = nextToken + 1
          /\ echoes' = Youngest([t \in DOMAIN echoes \union {nextToken} |->
                                   IF t = nextToken THEN pending ELSE echoes[t]])
(* handleOutputFrame, and write of XtermTerminal                           *)
OutputFrame(restore, late) ==
  /\ link.up /\ Len(queued) < MaxQueued /\ NoteOutput(restore, late)
  /\ queued' = Append(queued, [token |-> IF nextToken' = nextToken THEN 0 ELSE nextToken,
                               epoch |-> tab.epoch, laidOut |-> tab.laidOut, dark |-> tab.hidden])
  /\ UNCHANGED <<tab, link, paints, renders, samples, chip, frames>>

(* the write's callback: the next paint and the next render are awaited    *)
Parsed ==
  /\ queued # <<>> /\ queued' = Tail(queued)
  /\ paints' = paints \union ({Head(queued).token} \ {0})
  /\ renders' = renders \union {[Head(queued) EXCEPT !.token = 0]}
  /\ UNCHANGED <<tab, link, pending, echoes, nextToken, samples, chip, frames>>

Seen(r) == ~tab.hidden /\ r.epoch = tab.epoch
(* afterNextPaint, which a timer backs; notePainted                        *)
Painted(token) ==
  /\ token \in paints /\ paints' = paints \ {token}
  /\ echoes' = [t \in DOMAIN echoes \ {token} |-> echoes[t]]
  /\ IF token \in DOMAIN echoes /\ Seen(echoes[token])
     THEN samples' = samples \union {[conn |-> echoes[token].conn, dark |-> echoes[token].dark]}
          /\ chip' = TRUE
     ELSE UNCHANGED samples /\ chip' \in {FALSE, samples # {}}
  /\ UNCHANGED <<tab, link, pending, nextToken, queued, renders, frames>>
(* onRender; a terminal without a layout does not paint                    *)
Rendered ==
  /\ renders # {} /\ tab.laidOut /\ renders' = {}
  /\ frames' = frames \union
       {[dark |-> r.dark, laidOut |-> r.laidOut] : r \in {x \in renders : Seen(x) /\ x.laidOut}}
  /\ UNCHANGED <<tab, link, pending, echoes, nextToken, queued, paints, samples, chip>>

(* latencyTimer: what is shown may have gone stale                         *)
LatencyTimer(stale) ==
  /\ chip' = (samples # {} /\ ~stale)
  /\ UNCHANGED <<tab, link, pending, echoes, nextToken, queued, paints, renders, samples, frames>>
(* the report of createRenderMetrics, none when no frame came              *)
MetricsTimer ==
  /\ frames # {} /\ frames' = {}
  /\ UNCHANGED <<tab, link, pending, echoes, nextToken, queued, paints, renders, samples, chip>>

EchoNext ==
  /\ \/ Connected \/ Disconnected \/ VisibilityChange \/ Layout \/ Parsed \/ Rendered \/ MetricsTimer
     \/ \E restore, late \in BOOLEAN : OutputFrame(restore, late)
     \/ \E late \in BOOLEAN : Send(late) \/ LatencyTimer(late)
     \/ \E t \in paints : Painted(t)
  /\ UNCHANGED eventVars
-----------------------------------------------------------------------------
(* what is over the cap goes, the oldest first                             *)
Trimmed(q) == IF Len(q) > MaxBuffer THEN SubSeq(q, Len(q) - MaxBuffer + 1, Len(q)) ELSE q
Lost(q) ==
  IF Len(q) > MaxBuffer /\ q[Len(q) - MaxBuffer] > lostUpTo THEN q[Len(q) - MaxBuffer] ELSE lostUpTo
NewEvent == lastEvent < MaxEvents /\ lastEvent' = lastEvent + 1

PushEvent ==
  /\ NewEvent /\ UNCHANGED flush
  /\ LET q == Append(buf, lastEvent') IN buf' = Trimmed(q) /\ lostUpTo' = Lost(q)

(* _flush up to its request: by the timer, or as the page hides or leaves  *)
Flush ==
  /\ ~flush.on /\ buf # <<>> /\ flush' = [on |-> TRUE, batch |-> buf] /\ buf' = <<>>
  /\ UNCHANGED <<lastEvent, lostUpTo>>

(* its answer: a failure puts the events back; a failure or a slow success *)
(* is an event itself, which is not trimmed                                *)
Requeued(batch) == batch \o buf
Flushed ==
  /\ flush.on /\ flush' = Idle
  /\ \/ UNCHANGED <<buf, lastEvent, lostUpTo>>
     \/ NewEvent /\ buf' = Append(buf, lastEvent') /\ UNCHANGED lostUpTo
     \/ /\ NewEvent
        /\ LET q == Requeued(flush.batch)
           IN buf' = Append(Trimmed(q), lastEvent') /\ lostUpTo' = Lost(q)

EventNext == (PushEvent \/ Flush \/ Flushed) /\ UNCHANGED echoVars
DgNext == EchoNext \/ EventNext
-----------------------------------------------------------------------------
(* A latency sample is of the connection there is, and like the cost of a  *)
(* render of a time in which the page was visible throughout and the       *)
(* terminal laid out when it was written to; without a connection no       *)
(* latency is shown (latencyProbe.ts, renderSampleGate.ts).                *)
MeasuresAreHonest ==
  /\ \A s \in samples : link.up /\ s.conn = link.conn /\ ~s.dark
  /\ \A r \in frames : ~r.dark /\ r.laidOut
  /\ chip => link.up /\ samples # {}

(* Whatever fails and is put back: the events that wait are the newest     *)
(* ones, none missing between them, in their order, at most one more than  *)
(* the cap (useCliInputDiagnostics.ts).                                    *)
QueueHasNoHole ==
  /\ \A i \in DOMAIN buf : buf[i] = lastEvent - (Len(buf) - i)
  /\ buf # <<>> => lostUpTo < buf[1]
  /\ Len(buf) <= MaxBuffer + 1
=============================================================================
