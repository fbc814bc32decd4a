---------------------------- MODULE KeyFallback ----------------------------
(***************************************************************************)
(* A key pressed on a soft keyboard whose terminal may say nothing of it   *)
(* (useXtermKeyboardFallback.ts, XtermTerminal.vue): 120 ms later it is    *)
(* sent all the same, unless the terminal has sent anything or an input    *)
(* method has begun to compose since.  What goes out passes the sticky     *)
(* modifiers of the key bar (CliTerminalSurface.vue).                      *)
(*                                                                         *)
(* The terminal answers a key within the event, or never: before any timer.*)
(* A press is a number; two presses may be of the same key.  The WebView   *)
(* that sends its keys from the document is left out.                      *)
(***************************************************************************)
EXTENDS Naturals, Sequences, FiniteSets, SequencesExt

CONSTANTS
  Keys, MaxPresses,
  MaxPending     \* 32 in the code

VARIABLES
  enabled,       \* active, on a phone, keyboard mode
  presses,       \* the keys pressed, in order
  waiting,       \* pending, by number of the press
  composing,     \* compositionActive
  guard,         \* compositionGuardUntil is to come
  recent,        \* lastTerminalDataText, for 50 ms
  sticky,        \* a modifier is held for the next key
  out            \* what was sent: press, and whether a modifier went with it

keyVars == <<enabled, presses, waiting, composing, guard, recent, sticky, out>>

NoData == "none"
KeyInit ==
  /\ enabled \in BOOLEAN /\ presses = <<>> /\ waiting = <<>> /\ composing = FALSE /\ guard = FALSE
  /\ recent = NoData /\ sticky = FALSE /\ out = <<>>

(* sendTerminalData: the modifier goes with one key                        *)
Send(i) == out' = Append(out, [press |-> i, mod |-> sticky]) /\ sticky' = FALSE

(* notifyTerminalData: what the terminal sent answers every key waiting   *)
ForgetWaiting(k) == <<>>

(* handleKeydown, when the terminal said nothing of the key in keydown     *)
Schedules(k) == enabled /\ ~guard /\ ~composing /\ recent # k
Scheduled(i) ==
  LET all == Append(waiting, i)
  IN IF Len(all) > MaxPending THEN Tail(all) ELSE all

Pressed(k) == Len(presses) < MaxPresses /\ presses' = Append(presses, k)
(* The terminal sends the key: in keydown, before ours, or in keypress.    *)
PressHeard(k) ==
  /\ ~composing /\ Pressed(k)
  /\ waiting' = ForgetWaiting(k) /\ recent' = k
  /\ Send(Len(presses'))
  /\ UNCHANGED <<enabled, composing, guard>>
(* The terminal does not.                                                  *)
PressUnheard(k) ==
  /\ Pressed(k)
  /\ waiting' = IF Schedules(k) THEN Scheduled(Len(presses'))
                ELSE IF enabled /\ composing THEN <<>> ELSE waiting
  /\ guard' = (guard \/ (enabled /\ composing))
  /\ UNCHANGED <<enabled, composing, recent, sticky, out>>
(* the timers, which end in the order they began                           *)
FallbackTimer ==
  /\ waiting # <<>> /\ waiting' = Tail(waiting)
  /\ Send(Head(waiting))
  /\ UNCHANGED <<enabled, presses, composing, guard, recent>>

(* onComposition: start and update, then the end                           *)
Composes(on) ==
  /\ composing' = on
  /\ IF enabled THEN guard' = TRUE /\ waiting' = <<>> ELSE UNCHANGED <<guard, waiting>>
  /\ UNCHANGED <<enabled, presses, recent, sticky, out>>
(* what was composed, or pasted, comes from the terminal as a whole        *)
ComposedText(k) ==
  /\ ~composing /\ guard /\ Pressed(k)
  /\ waiting' = ForgetWaiting(k) /\ recent' = k
  /\ Send(Len(presses'))
  /\ UNCHANGED <<enabled, composing, guard>>
GuardOver ==
  /\ guard /\ guard' = FALSE
  /\ UNCHANGED <<enabled, presses, waiting, composing, recent, sticky, out>>
RecentOver ==
  /\ recent # NoData /\ recent' = NoData
  /\ UNCHANGED <<enabled, presses, waiting, composing, guard, sticky, out>>
(* another tab, another mode of the key bar; its modifier key              *)
Enables ==
  /\ enabled' = ~enabled /\ UNCHANGED <<presses, waiting, composing, guard, recent, sticky, out>>
StickyKey ==
  /\ sticky' = ~sticky /\ UNCHANGED <<enabled, presses, waiting, composing, guard, recent, out>>
(* dispose                                                                 *)
Unmounts ==
  /\ waiting' = <<>> /\ waiting # <<>>
  /\ UNCHANGED <<enabled, presses, composing, guard, recent, sticky, out>>

KeyNext ==
  \/ \E k \in Keys : PressHeard(k) \/ PressUnheard(k) \/ ComposedText(k)
  \/ FallbackTimer \/ GuardOver \/ RecentOver \/ Enables \/ StickyKey \/ Unmounts
  \/ \E on \in BOOLEAN : Composes(on)

-----------------------------------------------------------------------------
(* What is sent is what was typed, in its order and never twice, though    *)
(* the terminal and the fallback both send and input methods come between; *)
(* and what still waits was typed after all that was sent.                 *)
SentAsTyped ==
  /\ \A i \in 1..Len(out) - 1 : out[i].press < out[i + 1].press
  /\ \A i \in 1..Len(waiting) - 1 : waiting[i] < waiting[i + 1]
  /\ out # <<>> /\ waiting # <<>> => Last(out).press < Head(waiting)
  /\ Len(waiting) <= MaxPending
=============================================================================
