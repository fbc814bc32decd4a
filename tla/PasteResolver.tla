--------------------------- MODULE PasteResolver ---------------------------
(***************************************************************************)
(* What becomes of a paste that carries more than text                     *)
(* (useCliPasteResolver and uploadFile of useClipboardPaste).              *)
(*                                                                         *)
(* An event is read at once; whether the browser's own paste is stopped is *)
(* decided then, or too late, after an await.  What follows - asking the   *)
(* server for the paths behind the clipboard, reading an image, uploading  *)
(* - takes several answers, while other pastes go on and the terminal or   *)
(* the input box the paste was meant for may close.                        *)
(***************************************************************************)
EXTENDS Naturals, FiniteSets

CONSTANTS
  Pastes,      \* bound: paste events, in the order of their numbers 1..n
  PasteFiles,  \* files a clipboard may hold
  MaxRetries   \* bound: uploads sent again

VARIABLES
  env,       \* detectPasteEnvironment: the server shares the clipboard; images can be read
  paste,     \* each paste: what it carries still, where to, how far
  last,      \* lastFingerprint within its 500 ms, lastWasIntercepted
  landed,    \* how often each file of each paste was put where it was meant
  told,      \* files the user was told about: on the upload strip or the HUD
  strip,     \* failed uploads that offer a retry
  open,      \* which of the places take text
  retries

prVars == <<env, paste, last, landed, told, strip, open, retries>>

Places == {"terminal", "compose"}
Unused == [pc |-> "unused"]
Snapshots == {s \in [files : SUBSET PasteFiles, hint : BOOLEAN, uri : BOOLEAN, image : BOOLEAN, text : BOOLEAN] :
                s.files # {} => s.hint}

PrInit ==
  /\ env \in [native : BOOLEAN, readable : BOOLEAN]
  /\ paste = [p \in Pastes |-> Unused] /\ last = [of |-> Unused, intercepted |-> FALSE]
  /\ landed = [p \in Pastes |-> [f \in PasteFiles |-> 0]] /\ told = {} /\ strip = {}
  /\ open = Places /\ retries = 0

(* shouldProbeNativeClipboard, shouldTryAsyncClipboardImage                *)
Probes(s) == env.native /\ (s.hint \/ s.uri)
TriesImage(s) == env.readable /\ s.files = {} /\ (s.image \/ (s.hint /\ ~s.text))

(* Where the handler waits next, the server having been asked or not       *)
Stage(s, probed) ==
  IF Probes(s) /\ ~probed THEN "native"
  ELSE IF s.files # {} THEN "upload"
  ELSE IF TriesImage(s) THEN "image" ELSE "strings"

Sending(fs) == [f \in PasteFiles |-> IF f \in fs THEN "sending" ELSE "none"]
Reached(s, place, stage) ==
  [pc |-> stage, place |-> place, files |-> s.files,
   s |-> IF stage \in {"native", "image", "strings"} THEN s ELSE Unused,
   upload |-> IF stage = "upload" THEN Sending(s.files) ELSE Sending({})]
GoesOn(p, stage) == paste' = [paste EXCEPT ![p] = Reached(@.s, @.place, stage)]

(* handlePasteEvent up to its first await; the same clipboard again within *)
(* half a second is no paste, only let through or stopped as the one before*)
Paste(p, s, place) ==
  /\ paste[p] = Unused /\ \A q \in Pastes : q < p => paste[q] # Unused
  /\ last.of # s
  /\ paste' = [paste EXCEPT ![p] = Reached(s, place, Stage(s, FALSE))]
  /\ last' = [of |-> s, intercepted |-> Stage(s, FALSE) # "strings"]
  /\ UNCHANGED <<env, landed, told, strip, open, retries>>

DebounceEnds ==
  /\ last.of # Unused /\ last' = [last EXCEPT !.of = Unused]
  /\ UNCHANGED <<env, paste, landed, told, strip, open, retries>>

(* injectPaths: into the place the paste was made in, or the user is told  *)
InjectPaths(p, fs) ==
  IF paste[p].place \in open
  THEN landed' = [landed EXCEPT ![p] = [f \in PasteFiles |-> @[f] + (IF f \in fs THEN 1 ELSE 0)]] /\ UNCHANGED told
  ELSE told' = told \union ({p} \X fs) /\ UNCHANGED landed

Ends(p) == paste' = [paste EXCEPT ![p].pc = "done", ![p].s = Unused, ![p].upload = Sending({})]
(* the attachment picker, or a line on the HUD                             *)
Tells(p) == told' = told \union ({p} \X PasteFiles) /\ UNCHANGED landed

(* readNativeClipboardPaths                                                *)
NativeAnswer(p) ==
  /\ paste[p].pc = "native"
  /\ \/ InjectPaths(p, PasteFiles) /\ Ends(p)
     \/ GoesOn(p, Stage(paste[p].s, TRUE)) /\ UNCHANGED <<landed, told>>
  /\ UNCHANGED <<env, last, strip, open, retries>>

(* readAsyncClipboardImages: an image is uploaded like a file              *)
ImageAnswer(p) ==
  /\ paste[p].pc = "image"
  /\ \/ \E f \in PasteFiles : paste' = [paste EXCEPT ![p] = [Reached(@.s, @.place, "upload") EXCEPT !.files = {f}, !.upload = Sending({f})]] /\ UNCHANGED <<landed, told>>
     \/ Ends(p) /\ Tells(p)
  /\ UNCHANGED <<env, last, strip, open, retries>>

(* readClipboardStrings: file URIs, else a hint of files, else only text   *)
StringsAnswer(p) ==
  /\ paste[p].pc = "strings" /\ Ends(p)
  /\ \/ /\ paste[p].s.uri
        /\ IF env.native THEN InjectPaths(p, PasteFiles) ELSE Tells(p)
        /\ last' = [last EXCEPT !.intercepted = TRUE]
     \/ paste[p].s.hint /\ Tells(p) /\ last' = [last EXCEPT !.intercepted = TRUE]
     \/ ~paste[p].s.hint /\ UNCHANGED <<landed, told, last>>
  /\ UNCHANGED <<env, strip, open, retries>>

-----------------------------------------------------------------------------
Became(p, f, how) == paste' = [paste EXCEPT ![p].upload[f] = how]

(* uploadFile's answer; a failure stands on the strip, most with a retry   *)
Uploaded(p, f) ==
  /\ paste[p].pc = "upload" /\ paste[p].upload[f] = "sending"
  /\ \/ Became(p, f, "saved") /\ UNCHANGED <<told, strip>>
     \/ /\ Became(p, f, "failed") /\ told' = told \union {<<p, f>>}
        /\ strip' \in {strip, strip \union {<<p, f>>}}
  /\ UNCHANGED <<env, last, landed, open, retries>>

(* uploadAndInjectFiles, once every file has its answer: what was saved    *)
Batched(p) ==
  /\ paste[p].pc = "upload" /\ \A f \in PasteFiles : paste[p].upload[f] # "sending"
  /\ InjectPaths(p, {f \in PasteFiles : paste[p].upload[f] = "saved"})
  /\ Ends(p) /\ UNCHANGED <<env, last, strip, open, retries>>

(* The retry of an entry takes the entry away.                             *)
Taken(e) == strip \ {e}

(* retry, whether or not the rest of its paste has ended: its own attempt, *)
(* its own injection                                                       *)
Retry(p, f) ==
  /\ <<p, f>> \in strip /\ retries < MaxRetries /\ retries' = retries + 1
  /\ \/ strip' = Taken(<<p, f>>) /\ InjectPaths(p, {f})
     \/ strip' = Taken(<<p, f>>) \union {<<p, f>>} /\ UNCHANGED <<landed, told>>
     \/ strip' = Taken(<<p, f>>) /\ UNCHANGED <<landed, told>>
  /\ UNCHANGED <<env, paste, last, open>>

(* dismissUpload; a terminal that disconnects, an input box that closes    *)
Dismiss(e) == e \in strip /\ strip' = strip \ {e} /\ UNCHANGED <<env, paste, last, landed, told, open, retries>>
Toggle(place) ==
  /\ open' = IF place \in open THEN open \ {place} ELSE open \union {place}
  /\ UNCHANGED <<env, paste, last, landed, told, strip, retries>>

PrNext ==
  \/ \E p \in Pastes : \/ \E s \in Snapshots, place \in Places : Paste(p, s, place)
                       \/ NativeAnswer(p) \/ ImageAnswer(p) \/ StringsAnswer(p) \/ Batched(p)
                       \/ \E f \in PasteFiles : Uploaded(p, f) \/ Retry(p, f)
  \/ \E e \in strip : Dismiss(e)
  \/ \E place \in Places : Toggle(place)
  \/ DebounceEnds
PrSpec == PrInit /\ [][PrNext]_prVars

-----------------------------------------------------------------------------
(* A file that is pasted lands at most once, in the place it was pasted    *)
(* into, however uploads fail, are retried and cross; and when its paste   *)
(* is over it has landed or the user was told about it.                    *)
PastedLandsOnce ==
  \A p \in Pastes : paste[p] # Unused =>
    /\ \A f \in PasteFiles : landed[p][f] <= 1
    /\ paste[p].pc = "done" =>
         \A f \in paste[p].files : landed[p][f] = 1 \/ <<p, f>> \in told
=============================================================================
