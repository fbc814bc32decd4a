---------------------------- MODULE TypeToCompose ----------------------------
(***************************************************************************)
(* Typing over an agent opens the input box: typeToCompose (the events),   *)
(* composeIntercept (what is taken, the tracker of the agent's prompt),    *)
(* composeTypedTrigger (what to give back) and the box itself              *)
(* (useComposeBox, ComposeBarDesktop).                                     *)
(*                                                                         *)
(* What is typed is numbered 1, 2, ...; a sequence of numbers is a text.   *)
(* Text that was not typed here (a prompt put in by the host, a snippet, an *)
(* old entry) is left out, so a box may hold some even if its text is <<>>. *)
(* An input method's composition may begin before or after its keydown and *)
(* in either element, as browsers differ; it ends in one committed text or *)
(* in none.                                                                *)
(***************************************************************************)
EXTENDS Naturals, Sequences, Functions

CONSTANT MaxTyped   \* bound: keys and compositions typed

VARIABLES
  typed,      \* how many so far
  pty,        \* what reached the terminal and still stands in its prompt
  gone,       \* submitted, or taken back by the one who typed
  lost,       \* dropped on its way, or written over by the host
  pending,    \* promptTracker: pending, or Unknown
  agent,      \* the agent in front accepts typing; nothing covers the terminal
  focus,      \* the element with the focus
  box,        \* the box: open, text, trigger
  draft,      \* localStorage's draft of this session
  undo,       \* clearedBackup
  usable,     \* the socket is open (or opening, with room for what is typed)
  covered,    \* input belongs to a modal or to copy mode
  injected,   \* the host's own draft: once set it stays
  missed,     \* the tracker has noted a key that the prompt never got
  disturbed,  \* one of these, or a box closed under a composition, came up
  tc,         \* typeToCompose: imeArmed, imePassed, transferring
  comp        \* the composition in progress: none, or the element it is bound to

worldVars == <<agent, usable, covered, injected>>
tcVars == <<typed, pty, gone, lost, pending, agent, focus, box, draft, undo, usable, covered,
            injected, missed, disturbed, tc, comp>>
Unknown == MaxTyped + 1   \* no count of what is typed
NoTrigger == [set |-> FALSE, known |-> FALSE, typed |-> <<>>, before |-> <<>>]
ClosedBox == [open |-> FALSE, text |-> <<>>, trig |-> NoTrigger]
Quiet == [armed |-> FALSE, passed |-> FALSE, moving |-> FALSE]

TcInit ==
  /\ typed = 0 /\ pty = <<>> /\ gone = {} /\ lost = {} /\ pending = 0 /\ agent \in BOOLEAN
  /\ focus = "term" /\ box = ClosedBox /\ draft = <<>> /\ undo = <<>> /\ tc = Quiet /\ comp = "none"
  /\ usable = TRUE /\ covered = FALSE /\ injected = FALSE /\ missed = FALSE /\ disturbed = FALSE

PromptEmpty == pending = 0
(* decideIntercept: all that stands in the way, then the prompt            *)
Takes == agent /\ ~box.open /\ PromptEmpty
Next1 == typed + 1
Types == typed < MaxTyped /\ typed' = Next1

(* sendTerminalData: nothing while the terminal is covered; else noted by  *)
(* the tracker, and dropped by sendBinary when no socket takes it           *)
Sent(t) ==
  /\ pending' = IF covered \/ pending = Unknown THEN pending ELSE pending + Len(t)
  /\ IF usable /\ ~covered THEN pty' = pty \o t /\ UNCHANGED lost
     ELSE lost' = lost \union Range(t) /\ UNCHANGED pty
(* t and a Return: the prompt is submitted, if a socket takes them; the     *)
(* tracker believes so either way                                           *)
Submits(t) ==
  /\ pending' = 0 /\ missed' = IF ~usable /\ pty # <<>> THEN TRUE ELSE FALSE
  /\ IF usable THEN pty' = <<>> /\ gone' = gone \union Range(t \o pty) /\ UNCHANGED lost
     ELSE lost' = lost \union Range(t) /\ UNCHANGED <<pty, gone>>

(* openDesktopCompose: mounted with the draft, or with the host's in its    *)
(* place, and then the seed                                                 *)
Opened ==
  IF box.open THEN box
  ELSE [open |-> TRUE, text |-> IF injected THEN <<>> ELSE draft, trig |-> NoTrigger]
LosesDraft == lost' = lost \union (IF injected /\ ~box.open THEN Range(draft) ELSE {})
(* closeDesktopCompose; a composition that follows its keydown into the     *)
(* terminal finds no box then                                               *)
Shut ==
  /\ box' = ClosedBox /\ focus' = "term" /\ undo' = <<>>
  /\ disturbed' = IF tc.armed \/ tc.moving THEN TRUE ELSE disturbed
(* what the user has written and not sent                                   *)
Written == IF box.open THEN box.text ELSE draft

(* composeTypedTrigger                                                     *)
BeginTyped(b, t) ==
  [b EXCEPT !.text = @ \o t,
            !.trig = [set |-> TRUE, known |-> TRUE, typed |-> t, before |-> b.text]]
BeginIme(b) ==
  [b EXCEPT !.trig = [set |-> TRUE, known |-> FALSE, typed |-> <<>>, before |-> b.text]]
(* mutant: the committed text replaces the draft it should follow         *)
AdoptCommittedUnkept(b, t) == [b EXCEPT !.text = t]
AdoptCommitted(b, t) ==
  [b EXCEPT !.text = @ \o t,
            !.trig = IF @.set /\ ~@.known THEN [@ EXCEPT !.known = TRUE, !.typed = t] ELSE @]
IsPrefix0(p, s) == Len(p) <= Len(s) /\ SubSeq(s, 1, Len(p)) = p
NoteCompositionEnd(b) ==
  IF ~b.trig.set \/ b.trig.known THEN b
  ELSE IF IsPrefix0(b.trig.before, b.text) /\ Len(b.text) > Len(b.trig.before)
       THEN [b EXCEPT !.trig = [@ EXCEPT !.known = TRUE,
                                         !.typed = SubSeq(b.text, Len(b.trig.before) + 1, Len(b.text))]]
       ELSE [b EXCEPT !.trig = NoTrigger]
Pristine(b) == b.trig.set /\ b.trig.known /\ b.text = b.trig.before \o b.trig.typed

(* ---- keys with the focus in the terminal ---------------------------------- *)
(* a visible key: into a new box, nothing to the terminal; or to it        *)
KeyInTerm ==
  /\ focus = "term" /\ comp = "none" /\ Types
  /\ tc' = [tc EXCEPT !.moving = FALSE]
  /\ IF Takes
     THEN /\ box' = BeginTyped(Opened, <<Next1>>) /\ draft' = box'.text /\ focus' = "box"
          /\ LosesDraft /\ UNCHANGED <<pty, pending>>
     ELSE Sent(<<Next1>>) /\ UNCHANGED <<box, draft, focus>>
  /\ UNCHANGED <<gone, undo, comp, missed, disturbed, worldVars>>

(* the keydown (229) of an input method, before its composition: the focus *)
(* moves; a command prefix is let pass, and its composition with it        *)
ImeKey ==
  /\ focus = "term" /\ comp = "none" /\ typed < MaxTyped /\ Takes
  /\ \/ /\ tc' = [tc EXCEPT !.moving = FALSE, !.armed = TRUE]
        /\ box' = BeginIme(Opened) /\ focus' = "box" /\ LosesDraft
     \/ /\ tc' = [tc EXCEPT !.moving = FALSE, !.passed = TRUE]      \* a prefix key
        /\ UNCHANGED <<box, focus, lost>>
  /\ UNCHANGED <<typed, pty, gone, pending, draft, undo, comp, missed, disturbed, worldVars>>
ImeWindowOver ==
  /\ tc.armed \/ tc.passed
  /\ tc' = [tc EXCEPT !.armed = FALSE, !.passed = FALSE]
  /\ UNCHANGED <<typed, pty, gone, lost, pending, focus, box, draft, undo, comp, missed, disturbed,
                 worldVars>>

(* a composition begins in the element that has the focus, or in the       *)
(* terminal that has just lost it to the box                               *)
StartInTerm ==
  /\ comp = "none" /\ typed < MaxTyped /\ (focus = "term" \/ tc.armed)
  /\ comp' = "term"
  /\ IF tc.passed \/ (~tc.armed /\ ~Takes)
     THEN tc' = [tc EXCEPT !.armed = FALSE, !.passed = FALSE] /\ UNCHANGED <<box, focus, lost>>
     ELSE /\ tc' = [armed |-> FALSE, passed |-> FALSE, moving |-> TRUE]
          /\ IF tc.armed THEN UNCHANGED <<box, focus, lost>>
             ELSE box' = BeginIme(Opened) /\ focus' = "box" /\ LosesDraft
  /\ UNCHANGED <<typed, pty, gone, pending, draft, undo, missed, disturbed, worldVars>>
StartInBox ==
  /\ comp = "none" /\ focus = "box" /\ typed < MaxTyped /\ comp' = "box"
  /\ UNCHANGED <<typed, pty, gone, lost, pending, focus, box, draft, undo, tc, missed, disturbed,
                 worldVars>>

(* it ends: in the terminal's element what was taken goes to the box, if   *)
(* that is still there, what was not to the terminal; nothing at all when   *)
(* it was given up                                                          *)
EndsInTerm(t) ==
  /\ comp = "term" /\ comp' = "none" /\ tc' = [tc EXCEPT !.moving = FALSE]
  /\ \/ ~tc.moving /\ Sent(t) /\ UNCHANGED <<box, draft>>
     \/ /\ tc.moving /\ box.open /\ UNCHANGED <<pty, pending, lost>>
        /\ box' = IF t = <<>> THEN box ELSE AdoptCommitted(box, t)
        /\ draft' = IF t = <<>> THEN draft ELSE box'.text
     \/ /\ tc.moving /\ ~box.open
        /\ lost' = lost \union Range(t) /\ UNCHANGED <<pty, pending, box, draft>>
EndsInBox(t) ==
  /\ comp = "box" /\ comp' = "none"
  /\ box' = NoteCompositionEnd([box EXCEPT !.text = @ \o t])
  /\ draft' = box'.text /\ UNCHANGED <<pty, pending, lost, tc>>
CompositionEnds ==
  /\ \/ Types /\ (EndsInTerm(<<Next1>>) \/ EndsInBox(<<Next1>>))
     \/ UNCHANGED typed /\ (EndsInTerm(<<>>) \/ EndsInBox(<<>>))
  /\ UNCHANGED <<gone, focus, undo, missed, disturbed, worldVars>>

(* ---- keys with the focus in the box ---------------------------------------- *)
InBox == focus = "box" /\ box.open /\ comp = "none"
KeyInBox ==
  /\ InBox /\ Types
  /\ box' = [box EXCEPT !.text = Append(@, Next1)] /\ draft' = box'.text
  /\ UNCHANGED <<pty, gone, lost, pending, focus, undo, tc, comp, missed, disturbed, worldVars>>
DeleteInBox ==
  /\ InBox /\ box.text # <<>>
  /\ box' = [box EXCEPT !.text = SubSeq(@, 1, Len(@) - 1)] /\ draft' = box'.text
  /\ gone' = gone \union {box.text[Len(box.text)]}
  /\ UNCHANGED <<typed, pty, lost, pending, focus, undo, tc, comp, missed, disturbed, worldVars>>

(* Enter: sent with a return; the box and the draft are emptied whether or *)
(* not a socket took it                                                     *)
SendBox ==
  /\ InBox /\ Submits(box.text) /\ draft' = <<>> /\ Shut
  /\ UNCHANGED <<typed, tc, comp, worldVars>>

(* Escape on what the box was opened with and nothing else: that goes to   *)
(* the terminal and the draft is as before; else the draft stays           *)
EscapeBox ==
  /\ InBox /\ Shut
  /\ IF Pristine(box)
     THEN Sent(box.trig.typed) /\ draft' = box.trig.before
     ELSE draft' = box.text /\ UNCHANGED <<pty, pending, lost>>
  /\ UNCHANGED <<typed, gone, tc, comp, missed, worldVars>>

(* a key of the terminal's on an empty box: Return goes through            *)
ReturnFromEmptyBox ==
  /\ InBox /\ box.text = <<>> /\ Shut /\ draft' = <<>>
  /\ IF covered THEN UNCHANGED <<pty, gone, lost, pending, missed>> ELSE Submits(<<>>)
  /\ UNCHANGED <<typed, tc, comp, worldVars>>

(* the button and the shortcut ask for no composition to be over: one in   *)
(* the box dies with it                                                     *)
ToggleBox ==
  /\ IF box.open
     THEN /\ Shut /\ draft' = box.text /\ UNCHANGED lost
          /\ comp' = IF comp = "box" THEN "none" ELSE comp
     ELSE /\ box' = Opened /\ focus' = "box" /\ LosesDraft
          /\ UNCHANGED <<undo, draft, disturbed, comp>>
  /\ UNCHANGED <<typed, pty, gone, pending, tc, missed, worldVars>>

(* what is cleared is gone as wished, and comes back if it is undone       *)
ClearAll ==
  /\ InBox
  /\ box' = [box EXCEPT !.text = <<>>, !.trig = NoTrigger] /\ draft' = <<>> /\ undo' = box.text
  /\ gone' = gone \union Range(box.text)
  /\ UNCHANGED <<typed, pty, lost, pending, focus, tc, comp, missed, disturbed, worldVars>>
UndoClear ==
  /\ InBox /\ undo # <<>>
  /\ box' = [box EXCEPT !.text = undo] /\ draft' = undo /\ undo' = <<>>
  /\ gone' = (gone \ Range(undo)) \union Range(box.text)
  /\ UNCHANGED <<typed, pty, lost, pending, focus, tc, comp, missed, disturbed, worldVars>>
UndoOver ==
  /\ undo # <<>> /\ undo' = <<>>
  /\ UNCHANGED <<typed, pty, gone, lost, pending, focus, box, draft, tc, comp, missed, disturbed,
                 worldVars>>
(* a snippet or an old entry takes the text's place; the draft is not saved *)
PickText ==
  /\ box.open /\ comp = "none" /\ box' = [box EXCEPT !.text = <<>>] /\ focus' = "box"
  /\ gone' = gone \union Range(box.text)
  /\ UNCHANGED <<typed, pty, lost, pending, draft, undo, tc, comp, missed, disturbed, worldVars>>
(* onDrawerComposeDraft: a prompt of before, to be edited, takes the place *)
(* of what is written; an open box saves it as the draft at once            *)
Inject ==
  /\ comp = "none" /\ injected' = TRUE /\ disturbed' = TRUE
  /\ lost' = lost \union Range(Written)
  /\ IF box.open
     THEN box' = [box EXCEPT !.text = <<>>] /\ draft' = <<>> /\ focus' = "box"
     ELSE box' = [ClosedBox EXCEPT !.open = TRUE] /\ UNCHANGED <<draft, focus>>
  /\ UNCHANGED <<typed, pty, gone, pending, agent, undo, usable, covered, missed, tc, comp>>

(* ---- the terminal ------------------------------------------------------------ *)
FocusTerm ==
  /\ focus = "box" /\ comp = "none" /\ focus' = "term"
  /\ UNCHANGED <<typed, pty, gone, lost, pending, box, draft, undo, tc, comp, missed, disturbed,
                 worldVars>>
FocusBox ==
  /\ focus = "term" /\ box.open /\ comp = "none" /\ focus' = "box"
  /\ UNCHANGED <<typed, pty, gone, lost, pending, box, draft, undo, tc, comp, missed, disturbed,
                 worldVars>>
(* Return or Ctrl-C in the terminal; a backspace at the end of the prompt; *)
(* a key whose effect on the prompt is not known                           *)
InTerm == focus = "term" /\ comp = "none" /\ ~covered
ReturnInTerm ==
  /\ InTerm /\ Submits(<<>>)
  /\ UNCHANGED <<typed, focus, box, draft, undo, tc, comp, disturbed, worldVars>>
BackspaceInTerm ==
  /\ InTerm /\ pending' = IF pending \in {0, Unknown} THEN pending ELSE pending - 1
  /\ \/ /\ usable /\ pty # <<>> /\ pty' = SubSeq(pty, 1, Len(pty) - 1)
        /\ gone' = gone \union {pty[Len(pty)]} /\ UNCHANGED missed
     \/ /\ ~usable \/ pty = <<>>
        /\ missed' = IF pty # <<>> THEN TRUE ELSE missed
        /\ UNCHANGED <<pty, gone>>
  /\ UNCHANGED <<typed, lost, focus, box, draft, undo, tc, comp, disturbed, worldVars>>
HistoryInTerm ==
  /\ InTerm /\ pending' = Unknown
  /\ UNCHANGED <<typed, pty, gone, lost, focus, box, draft, undo, tc, comp, missed, disturbed,
                 worldVars>>
AgentChanges ==
  /\ agent' = ~agent
  /\ UNCHANGED <<typed, pty, gone, lost, pending, focus, box, draft, undo, usable, covered, injected,
                 missed, disturbed, tc, comp>>
(* another tool: its prompt is a new one, what stood in the old is gone    *)
AgentStarts ==
  /\ comp = "none" /\ agent' \in BOOLEAN /\ missed' = FALSE
  /\ gone' = gone \union Range(pty) /\ pty' = <<>> /\ pending' = 0
  /\ UNCHANGED <<typed, lost, focus, box, draft, undo, usable, covered, injected, disturbed, tc, comp>>
(* the socket goes or comes back; copy mode or a modal opens or closes     *)
RoadChanges ==
  /\ usable' \in BOOLEAN /\ covered' \in BOOLEAN /\ disturbed' = TRUE
  /\ UNCHANGED <<typed, pty, gone, lost, pending, agent, focus, box, draft, undo, injected, missed, tc,
                 comp>>

TcNext ==
  \/ KeyInTerm \/ ImeKey \/ ImeWindowOver \/ StartInTerm \/ StartInBox \/ CompositionEnds
  \/ KeyInBox \/ DeleteInBox \/ SendBox \/ EscapeBox \/ ReturnFromEmptyBox \/ ToggleBox
  \/ ClearAll \/ UndoClear \/ UndoOver \/ PickText \/ Inject
  \/ FocusTerm \/ FocusBox \/ ReturnInTerm \/ BackspaceInTerm \/ HistoryInTerm
  \/ AgentChanges \/ AgentStarts \/ RoadChanges

(* Nothing typed is in two places or in none: each key and each committed  *)
(* text is in the terminal, in the box (or its draft while it is closed),   *)
(* gone as its writer wished (and what Undo would bring back is), or lost.  *)
(* It is lost only where the code drops it or writes it over: a socket that *)
(* takes nothing, a covered terminal, a prompt put in by the host, a box    *)
(* closed under a composition; where none of these came up, nothing is.     *)
(* And what is taken for an empty prompt is one, unless a key meant for it  *)
(* never got there.                                                         *)
Once(t) == IsInjective(t)
TypedInOnePlace ==
  /\ Once(pty \o Written)
  /\ 1..typed = Range(pty \o Written) \union gone \union lost
  /\ gone \cap lost = {} /\ (gone \union lost) \cap Range(pty \o Written) = {}
  /\ Range(undo) \subseteq gone
  /\ lost # {} => disturbed
  /\ PromptEmpty => pty = <<>> \/ missed
=============================================================================
