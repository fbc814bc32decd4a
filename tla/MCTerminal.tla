----------------------------- MODULE MCTerminal -----------------------------
(***************************************************************************)
(* One run over a terminal tab's surface and over the parts beside it that *)
(* share no state with it: a behaviour is one of the part that `focus`     *)
(* names, the others stay as they began.                                   *)
(***************************************************************************)
EXTENDS TLC, TerminalSurface

CONSTANTS
  MaxTyped, Pastes, PasteFiles, MaxRetries, MaxQueue, Keys, MaxPresses,
  MaxPending, MaxTokens, MaxBuffer, MaxSends, MaxLinks, MaxViews, MaxQueued,
  MaxEvents

\* The caps of what waits - events, 200 in the code, and keys, 32 - may be
\* any; of what is typed there is any number.
ASSUME TerminalAssumption == MaxBuffer \in Nat /\ MaxPending \in Nat /\ MaxTyped \in Nat

VARIABLES
  focus,
  typed, pty, gone, lost, pending, agentTypes, focused, box, draft, undo,
  usable, covered, injected, missed, disturbed, tc, comp,
  env, paste, last, landed, told, strip, open, retries, stored, wish,
  screenActive, pageShown, laidOut, term, rendererInUse, gpu, denied, release,
  tick, reveal, screenQueue, stale, attached, ghost, enabled, presses,
  waiting, composing, guard, recent, sticky, out, tab, link, pendingEcho,
  echoes, nextToken, queued, paintsDue, renders, samples, chip, frames, buf,
  flush, lastEvent, lostUpTo

tcVars == <<typed, pty, gone, lost, pending, agentTypes, focused, box, draft,
             undo, usable, covered, injected, missed, disturbed, tc, comp>>
prVars == <<env, paste, last, landed, told, strip, open, retries>>
xsVars == <<stored, wish, screenActive, pageShown, laidOut, term,
             rendererInUse, gpu, denied, release, tick, reveal, screenQueue,
             stale, attached, ghost>>
kfVars == <<enabled, presses, waiting, composing, guard, recent, sticky, out>>
dgVars == <<tab, link, pendingEcho, echoes, nextToken, queued, paintsDue,
             renders, samples, chip, frames, buf, flush, lastEvent, lostUpTo>>

TC == INSTANCE TypeToCompose WITH focus <- focused, agent <- agentTypes
PR == INSTANCE PasteResolver
XS == INSTANCE XtermScreen WITH active <- screenActive, pageVisible <-
       pageShown, queue <- screenQueue
KF == INSTANCE KeyFallback
DG == INSTANCE Diagnostics WITH pending <- pendingEcho, paints <- paintsDue,
       MaxConns <- MaxLinks

\* What a part out of focus begins with says nothing.
TerminalInit ==
  /\ focus \in {
       "surface", "typing", "resolver", "screen", "keys", "echo", "events"}
  /\ SurfaceInit /\ TC!TcInit /\ PR!PrInit /\ XS!ScreenInit /\ KF!KeyInit
  /\ DG!DgInit
  /\ focus # "surface" => active /\ size = CHOOSE s \in Sizes : TRUE
  /\ focus # "typing" => agentTypes
  /\ focus # "resolver" => env = [native |-> FALSE, readable |-> FALSE]
  /\ focus # "screen" => screenActive
  /\ focus # "keys" => enabled

TerminalNext ==
  /\ UNCHANGED focus
  /\ \/ /\ focus = "surface" /\ SurfaceNext
        /\ UNCHANGED <<tcVars, prVars, xsVars, kfVars, dgVars>>
     \/ /\ focus = "typing" /\ TC!TcNext
        /\ UNCHANGED <<surfaceVars, prVars, xsVars, kfVars, dgVars>>
     \/ /\ focus = "resolver" /\ PR!PrNext
        /\ UNCHANGED <<surfaceVars, tcVars, xsVars, kfVars, dgVars>>
     \/ /\ focus = "screen" /\ XS!ScreenNext
        /\ UNCHANGED <<surfaceVars, tcVars, prVars, kfVars, dgVars>>
     \/ /\ focus = "keys" /\ KF!KeyNext
        /\ UNCHANGED <<surfaceVars, tcVars, prVars, xsVars, dgVars>>
     \/ /\ focus = "echo" /\ DG!EchoNext
        /\ UNCHANGED <<surfaceVars, tcVars, prVars, xsVars, kfVars>>
     \/ /\ focus = "events" /\ DG!EventNext
        /\ UNCHANGED <<surfaceVars, tcVars, prVars, xsVars, kfVars>>

TerminalSpec ==
  /\ TerminalInit /\ [][TerminalNext]_<<
       focus, surfaceVars, tcVars, prVars, xsVars, kfVars, dgVars>>
  /\ WF_surfaceVars(ScreenParses) /\ \A e \in 0..MaxEpoch : WF_surfaceVars(ScreenPaints(e))
-----------------------------------------------------------------------------

\* Each thing typed is in one place: the terminal, the box, gone as wished, or
\* lost, and lost only where the code lets it fall; keys go out once and in
\* order; a pasted file lands once, where it was meant, or the user is told
\* (typeToCompose.ts, useXtermKeyboardFallback.ts, useCliPasteResolver.ts).
EnteredOnce == TC!TypedInOnePlace /\ KF!SentAsTyped /\ PR!PastedLandsOnce

\* A terminal shown is painted and has its renderer, one hidden gives its GPU
\* context back; what it measures of itself it measured while seen, on the
\* connection there is, and the events that wait for the log have no hole
\* (XtermTerminal.vue, latencyProbe.ts, renderSampleGate.ts,
\* useCliInputDiagnostics.ts).
ScreenIsCurrent == XS!ScreenIsCurrent /\ DG!MeasuresAreHonest /\ DG!QueueHasNoHole
=============================================================================
