------------------------------- MODULE Upload -------------------------------
(***************************************************************************)
(* Files sent in parts: into the file tree (useTreeUpload, one job at a    *)
(* time, two parts at a time) and as an attachment of a session            *)
(* (uploadAttachment, two workers), against the server's staging area.     *)
(*                                                                         *)
(* The server derives a tree upload's id from the file, so that sending a  *)
(* file again goes on where it stopped, whoever started it; an attachment  *)
(* has an id of its own, remembered for a retry.  A request arrives and is *)
(* answered in steps of their own: a cancel, its abort or the server's     *)
(* sweep may come between.  An answer may be lost.                         *)
(*                                                                         *)
(* The strip of uploads over a terminal (uploadFile of useClipboardPaste,  *)
(* useUploadProgress) shows such calls, with three timers: the reveal of   *)
(* an entry, the tick that measures speed, the dismissal of what is done.  *)
(***************************************************************************)
EXTENDS Naturals, Sequences, FiniteSets

CONSTANTS
  Jobs, Files,     \* tree uploads, and the files they send
  Parts,           \* the parts of a file are 1..Parts
  Attempts,        \* tries of one part
  MaxIds,          \* bound: attachment ids the server hands out
  MaxLost,         \* bound: answers lost, refusals and staging areas swept
  Uploads, Size    \* calls of uploadFile; the size of each, in steps of progress

VARIABLES
  job, tail, canceled, run,      \* useTreeUpload: jobs, tail, canceled, runJob
  paste, resume,                 \* uploadAttachment and its resumable map
  stage, landed, aborts, lost,   \* the server; requests to abort; bound
  entry,      \* byId of useUploadProgress
  reveal,     \* entries whose reveal timer runs
  ticking,    \* the 250 ms timer of sample
  settled,    \* settledTimer
  inFlight    \* inFlight of useClipboardPaste

treeVars == <<job, tail, canceled, run, aborts>>
pasteVars == <<paste, resume>>
upVars == <<job, tail, canceled, run, paste, resume, stage, landed, aborts, lost>>

Chunks == 1..Parts
Ids == Files \union (1..MaxIds)
Off == [on |-> FALSE, parts |-> {}]
IdleRun == [pc |-> "idle", file |-> "-", left |-> {}, out |-> <<>>, whole |-> FALSE]
IdlePaste == [pc |-> "idle", id |-> 0, next |-> 1, got |-> {}, stopped |-> FALSE,
              w |-> [i \in 1..2 |-> [at |-> 0, st |-> "free", try |-> 0]], whole |-> FALSE]
NoJob == [status |-> "none", file |-> "-", known |-> FALSE, sent |-> 0, held |-> FALSE]

UpInit ==
  /\ job = [j \in Jobs |-> NoJob] /\ tail = <<>> /\ canceled = {} /\ run = IdleRun
  /\ paste = IdlePaste /\ resume = 0
  /\ stage = [i \in Ids |-> Off] /\ landed = {} /\ aborts = {} /\ lost = 0

(* The server: what a request finds and leaves.                            *)
Lose == lost < MaxLost /\ lost' = lost + 1
Dropped(i) ==
  /\ stage' = [stage EXCEPT ![i] = Off]
  /\ run' = [run EXCEPT !.whole = @ /\ run.file # i]
  /\ paste' = [paste EXCEPT !.whole = @ /\ paste.id # i]
Opened(i) == stage' = [stage EXCEPT ![i].on = TRUE]
Stored(i, c) == stage' = [stage EXCEPT ![i].parts = IF stage[i].on THEN @ \union {c} ELSE @]
Assembles(i) == stage[i].on /\ stage[i].parts = Chunks
(* a handled request: answered with what it found, or its answer lost      *)
Answer(ok, yes, no, ans) == \/ ans = (IF ok THEN yes ELSE no) /\ UNCHANGED lost
                            \/ ans = no /\ Lose

SweepStale == \E i \in Ids : stage[i].on /\ Lose /\ Dropped(i)
                             /\ UNCHANGED <<job, tail, canceled, aborts, resume, landed>>

(* ---- tree ---------------------------------------------------------------- *)
Head0 == Head(tail)

Enqueue(j, f) ==
  /\ job[j].status = "none"
  /\ job' = [job EXCEPT ![j] = [NoJob EXCEPT !.status = "active", !.file = f, !.held = TRUE]]
  /\ tail' = Append(tail, j)
  /\ UNCHANGED <<canceled, run, aborts, pasteVars, stage, landed, lost>>

(* schedule: the next of the chain starts, or is passed over               *)
RunNext ==
  /\ run.pc = "idle" /\ tail # <<>>
  /\ IF ~job[Head0].held \/ Head0 \in canceled
     THEN tail' = Tail(tail) /\ UNCHANGED <<job, run>>
     ELSE /\ run' = [IdleRun EXCEPT !.pc = "init", !.file = job[Head0].file]
          /\ job' = [job EXCEPT ![Head0].status = "active"] /\ UNCHANGED tail
  /\ UNCHANGED <<canceled, aborts, pasteVars, stage, landed, lost>>

InitArrives ==
  /\ run.pc = "init"
  /\ \E ans \in {"inited", "denied"} :
       /\ \/ Opened(run.file) /\ Answer(TRUE, "inited", "denied", ans)
          \/ ans = "denied" /\ Lose /\ UNCHANGED stage
       /\ run' = [run EXCEPT !.pc = ans, !.left = Chunks \ stage[run.file].parts, !.whole = TRUE]
  /\ UNCHANGED <<job, tail, canceled, aborts, pasteVars, landed>>

(* runJob returns: the next of the chain may start                         *)
JobEnds(jb) == job' = jb /\ run' = IdleRun /\ tail' = Tail(tail)
Settle(st) == JobEnds([job EXCEPT ![Head0].status = IF @ = "gone" THEN @ ELSE st])

SmallestOf(s) == CHOOSE c \in s : \A d \in s : c <= d
TwoOf(s) == LET c == SmallestOf(s) IN {c} \union (IF s = {c} THEN {} ELSE {SmallestOf(s \ {c})})
(* the loop over the missing parts, two at a time, then complete           *)
GoOn(r, jb) ==
  IF Head0 \in canceled THEN JobEnds(jb)
  ELSE /\ job' = jb /\ UNCHANGED tail
       /\ run' = IF r.left = {} THEN [r EXCEPT !.pc = "complete", !.out = <<>>]
                 ELSE [r EXCEPT !.pc = "parts",
                         !.out = [c \in TwoOf(r.left) |-> [st |-> "asked", try |-> 1]],
                         !.left = @ \ TwoOf(@)]

InitAnswered ==
  /\ run.pc \in {"inited", "denied"}
  /\ IF Head0 \in canceled THEN JobEnds(job)
     ELSE IF run.pc = "denied" THEN Settle("error")
     ELSE GoOn(run, [job EXCEPT ![Head0].known = TRUE, ![Head0].sent = Cardinality(Chunks \ run.left)])
  /\ UNCHANGED <<canceled, aborts, pasteVars, stage, landed, lost>>

ChunkArrives(c) ==
  /\ run.pc = "parts" /\ c \in DOMAIN run.out /\ run.out[c].st = "asked"
  /\ \E ans \in {"yes", "no"} :
       /\ \/ Stored(run.file, c) /\ Answer(stage[run.file].on, "yes", "no", ans)
          \/ Lose /\ ans = "no" /\ UNCHANGED stage
       /\ run' = [run EXCEPT !.out[c].st = ans]
  /\ UNCHANGED <<job, tail, canceled, aborts, pasteVars, landed>>

ChunkAnswered(c) ==
  /\ run.pc = "parts" /\ c \in DOMAIN run.out /\ run.out[c].st \in {"yes", "no"}
  /\ LET r == run.out[c]
         counts == r.st = "yes" /\ Head0 \notin canceled
         again == r.st = "no" /\ r.try < Attempts
     IN /\ run' = [run EXCEPT !.out[c] = IF again THEN [st |-> "asked", try |-> r.try + 1]
                                         ELSE [r EXCEPT !.st = IF counts THEN "landed" ELSE "failed"]]
        /\ job' = [job EXCEPT ![Head0].sent = IF counts THEN @ + 1 ELSE @]
  /\ UNCHANGED <<tail, canceled, aborts, pasteVars, stage, landed, lost>>

FailedParts(out) == \E c \in DOMAIN out : out[c].st = "failed"
BatchEnds ==
  /\ run.pc = "parts" /\ \A c \in DOMAIN run.out : run.out[c].st \in {"landed", "failed"}
  /\ IF FailedParts(run.out)
     THEN IF Head0 \in canceled THEN JobEnds(job) ELSE Settle("error")
     ELSE GoOn(run, job)
  /\ UNCHANGED <<canceled, aborts, pasteVars, stage, landed, lost>>

CompleteArrives ==
  /\ run.pc = "complete"
  /\ \E ans \in {"merged", "refused"} :
       /\ LET ok == Assembles(run.file)
          IN \/ Answer(ok, "merged", "refused", ans)
                /\ stage' = [stage EXCEPT ![run.file] = IF ok THEN Off ELSE @]
                /\ landed' = landed \union (IF ok THEN {run.file} ELSE {})
             \/ Lose /\ ans = "refused" /\ UNCHANGED <<stage, landed>>
       /\ run' = [run EXCEPT !.pc = ans]
  /\ UNCHANGED <<job, tail, canceled, aborts, pasteVars>>

CompleteAnswered ==
  /\ run.pc \in {"merged", "refused"}
  /\ Settle(IF run.pc = "merged" THEN "done" ELSE "error")
  /\ UNCHANGED <<canceled, aborts, pasteVars, stage, landed, lost>>

Retry(j) ==
  /\ job[j].status = "error" /\ job[j].held
  /\ canceled' = canceled \ {j}
  /\ job' = [job EXCEPT ![j].status = "active"] /\ tail' = Append(tail, j)
  /\ UNCHANGED <<run, aborts, pasteVars, stage, landed, lost>>

CancelJob(j) ==
  /\ job[j].status = "active"
  /\ canceled' = canceled \union {j}
  /\ job' = [job EXCEPT ![j].status = "canceled", ![j].held = FALSE]
  /\ aborts' = aborts \union (IF job[j].known THEN {job[j].file} ELSE {})
  /\ UNCHANGED <<tail, run, pasteVars, stage, landed, lost>>

ClearSettled ==
  /\ \E j \in Jobs : job[j].status \in {"done", "error", "canceled"}
  /\ job' = [j \in Jobs |-> IF job[j].status \in {"none", "active"} THEN job[j]
                           ELSE [job[j] EXCEPT !.status = "gone", !.held = FALSE]]
  /\ UNCHANGED <<tail, canceled, run, aborts, pasteVars, stage, landed, lost>>

AbortArrives ==
  /\ \E f \in aborts :
       /\ aborts' = aborts \ {f}
       /\ \/ Dropped(f) /\ UNCHANGED lost
          \/ Lose /\ UNCHANGED <<stage, run, paste>>
  /\ UNCHANGED <<job, tail, canceled, resume, landed>>

TreeNext ==
  \/ RunNext \/ InitArrives \/ InitAnswered \/ BatchEnds \/ CompleteArrives \/ CompleteAnswered
  \/ ClearSettled \/ AbortArrives
  \/ \E c \in Chunks : ChunkArrives(c) \/ ChunkAnswered(c)
  \/ \E j \in Jobs : Retry(j) \/ CancelJob(j) \/ \E f \in Files : Enqueue(j, f)

(* ---- attachment ------------------------------------------------------------ *)
(* uploadAttachment: the id of an upload of this blob that did not end, or *)
(* one of its own.  The id is forgotten when the server does not know it.  *)
PasteBegins ==
  /\ paste.pc = "idle"
  /\ paste' = [IdlePaste EXCEPT !.pc = "init", !.id = resume]
  /\ UNCHANGED <<treeVars, resume, stage, landed, lost>>

PasteReturns(rs) == paste' = IdlePaste /\ resume' = rs

FreshId == IF \E i \in 1..MaxIds : i > resume /\ ~stage[i].on /\ i \notin landed
           THEN CHOOSE i \in 1..MaxIds : i > resume /\ ~stage[i].on /\ i \notin landed ELSE 0

PasteInit ==
  /\ paste.pc = "init"
  /\ \/ /\ paste.id # 0 /\ stage[paste.id].on       \* resumed
        /\ paste' = [paste EXCEPT !.pc = "parts", !.got = stage[paste.id].parts, !.whole = TRUE]
        /\ UNCHANGED <<resume, stage, lost>>
     \/ /\ paste.id # 0 /\ ~stage[paste.id].on      \* 409: once more, without it
        /\ paste' = [paste EXCEPT !.id = 0] /\ resume' = 0 /\ UNCHANGED <<stage, lost>>
     \/ /\ paste.id = 0 /\ FreshId # 0
        /\ Opened(FreshId)
        /\ paste' = [paste EXCEPT !.pc = "parts", !.id = FreshId, !.whole = TRUE] /\ UNCHANGED <<resume, lost>>
     \/ /\ Lose /\ PasteReturns(resume)
        /\ \/ UNCHANGED stage
           \/ paste.id = 0 /\ FreshId # 0 /\ Opened(FreshId)
  /\ UNCHANGED <<treeVars, landed>>

(* worker: the next part the server has not; none left, or stopped: ends   *)
WorkerTakes(i) ==
  /\ paste.pc = "parts" /\ paste.w[i].st = "free"
  /\ LET from == {c \in Chunks : c >= paste.next /\ c \notin paste.got}
     IN paste' = IF paste.stopped \/ from = {} THEN [paste EXCEPT !.w[i].st = "ended"]
                 ELSE [paste EXCEPT !.w[i] = [at |-> SmallestOf(from), st |-> "asked", try |-> 1],
                                    !.next = SmallestOf(from) + 1]
  /\ UNCHANGED <<treeVars, resume, stage, landed, lost>>

PartArrives(i) ==
  /\ paste.pc = "parts" /\ paste.w[i].st = "asked"
  /\ \E ans \in {"yes", "unknown", "again"} :
       /\ \/ Stored(paste.id, paste.w[i].at)
             /\ \/ ans = (IF stage[paste.id].on THEN "yes" ELSE "unknown") /\ UNCHANGED lost
                \/ ans = "again" /\ Lose
          \/ ans = "again" /\ Lose /\ UNCHANGED stage
       /\ paste' = [paste EXCEPT !.w[i].st = ans]
  /\ UNCHANGED <<treeVars, resume, landed>>

WorkerAnswered(i) ==
  /\ paste.pc = "parts" /\ paste.w[i].st \in {"yes", "unknown", "again"}
  /\ LET w == paste.w[i]
     IN paste' = IF w.st = "again" /\ w.try < Attempts
                 THEN [paste EXCEPT !.w[i] = [w EXCEPT !.st = "asked", !.try = w.try + 1]]
                 ELSE IF w.st = "yes" THEN [paste EXCEPT !.w[i].st = "free"]
                 ELSE [paste EXCEPT !.w[i].st = "ended", !.stopped = TRUE]
  /\ UNCHANGED <<treeVars, resume, stage, landed, lost>>

(* both workers ended: a failure is returned, or the parts are put together *)
PasteJoins ==
  /\ paste.pc = "parts" /\ \A i \in 1..2 : paste.w[i].st = "ended"
  /\ IF paste.stopped THEN PasteReturns(paste.id)
     ELSE paste' = [paste EXCEPT !.pc = "complete"] /\ UNCHANGED resume
  /\ UNCHANGED <<treeVars, stage, landed, lost>>

PasteComplete ==
  /\ paste.pc = "complete"
  /\ \E done \in BOOLEAN :
       /\ LET ok == Assembles(paste.id)
          IN \/ Answer(ok, TRUE, FALSE, done)
                /\ stage' = [stage EXCEPT ![paste.id] = IF ok THEN Off ELSE @]
                /\ landed' = landed \union (IF ok THEN {paste.id} ELSE {})
             \/ Lose /\ done = FALSE /\ UNCHANGED <<stage, landed>>
       /\ PasteReturns(IF done THEN 0 ELSE paste.id)
  /\ UNCHANGED treeVars

PasteNext ==
  \/ PasteBegins \/ PasteInit \/ PasteJoins \/ PasteComplete
  \/ \E i \in 1..2 : WorkerTakes(i) \/ PartArrives(i) \/ WorkerAnswered(i)

UpNext == TreeNext \/ PasteNext \/ SweepStale

(* An upload asks the server to put the parts together only when every one *)
(* of them is there: parts skipped because the server had them, parts sent *)
(* again after a lost answer, parts of another job or of an earlier try,   *)
(* two workers taking turns and one of them failing all add up, as long as *)
(* the staging area was not taken away (by an abort or the sweep) since    *)
(* the upload was opened.  And a job shown as done has landed.             *)
CompleteAsksForWhole ==
  /\ run.pc = "complete" /\ run.whole => stage[run.file].parts = Chunks
  /\ paste.pc = "complete" /\ paste.whole => stage[paste.id].parts = Chunks
  /\ \A j \in Jobs : job[j].status = "done" => job[j].file \in landed /\ job[j].sent = Parts

(* ---- strip --------------------------------------------------------------- *)
stripVars == <<entry, reveal, ticking, settled, inFlight>>
NoEntry == [status |-> "none", sent |-> 0, seen |-> FALSE, again |-> FALSE]
With(st) == {u \in Uploads : entry[u].status = st}

StripInit ==
  /\ entry = [u \in Uploads |-> NoEntry] /\ reveal = {} /\ ticking = FALSE /\ settled = FALSE /\ inFlight = 0

(* mutant: the tick ends with the first upload that is over                *)
SampledOnce(es, tick) == tick /\ \A u \in Uploads : es[u].status \notin {"done", "error"}
(* sample: the tick ends with the last upload                              *)
Sampled(es, tick) == tick /\ \E u \in Uploads : es[u].status = "uploading"
(* dismissCompleted: from the last change, once nothing is uploading       *)
Dismissing(es) == IF \E u \in Uploads : es[u].status = "uploading" THEN settled ELSE TRUE
Removed(es, u) == [es EXCEPT ![u] = [NoEntry EXCEPT !.status = "gone"]]

(* uploadFile up to its request: register                                  *)
Registered(es, u, atOnce) ==
  /\ entry' = [es EXCEPT ![u] = [status |-> "uploading", sent |-> 0, seen |-> atOnce, again |-> TRUE]]
  /\ reveal' = IF atOnce THEN reveal ELSE reveal \union {u}
  /\ settled' = FALSE /\ ticking' = TRUE
UploadFile(u, atOnce) ==
  /\ entry[u].status = "none" /\ inFlight' = inFlight + 1 /\ Registered(entry, u, atOnce)

(* an entry of an error is tried again: it goes, another call begins       *)
RetryEntry(u, v, atOnce) ==
  /\ entry[u].status = "error" /\ entry[u].again /\ entry[v].status = "none"
  /\ inFlight' = inFlight + 1 /\ Registered(Removed(entry, u), v, atOnce)
DismissEntry(u) ==
  /\ entry[u].status = "error"
  /\ entry' = Removed(entry, u) /\ ticking' = Sampled(entry', ticking)
  /\ UNCHANGED <<reveal, settled, inFlight>>

(* progress: what the request reports, in any order, never taken back      *)
Progress(u, n) ==
  /\ entry[u].status = "uploading" /\ n \in 0..Size
  /\ entry' = [entry EXCEPT ![u].sent = IF n > @ THEN n ELSE @] /\ ticking' = Sampled(entry', ticking)
  /\ UNCHANGED <<reveal, settled, inFlight>>

(* the answer of 2xx: an entry nobody saw goes at once                     *)
Uploaded(u) ==
  /\ entry[u].status = "uploading"
  /\ entry' = IF entry[u].seen THEN [entry EXCEPT ![u].status = "done", ![u].sent = Size] ELSE Removed(entry, u)
  /\ ticking' = Sampled(entry', ticking) /\ settled' = Dismissing(entry') /\ inFlight' = inFlight - 1
  /\ UNCHANGED reveal

(* any other answer or an exception: kept, with what may be done about it  *)
UploadFails(u, retryable) ==
  /\ entry[u].status = "uploading"
  /\ entry' = [entry EXCEPT ![u].status = "error", ![u].seen = TRUE, ![u].again = retryable]
  /\ ticking' = Sampled(entry', ticking) /\ settled' = Dismissing(entry') /\ inFlight' = inFlight - 1
  /\ UNCHANGED reveal

RevealDue(u) ==
  /\ u \in reveal /\ reveal' = reveal \ {u}
  /\ entry' = [entry EXCEPT ![u].seen = @ \/ entry[u].status = "uploading"]
  /\ UNCHANGED <<ticking, settled, inFlight>>

DismissDue ==
  /\ settled /\ settled' = FALSE
  /\ entry' = [u \in Uploads |-> IF u \in With("done") THEN Removed(entry, u)[u] ELSE entry[u]]
  /\ ticking' = Sampled(entry', ticking) /\ UNCHANGED <<reveal, inFlight>>

StripNext ==
  \/ DismissDue
  \/ \E u \in Uploads : DismissEntry(u) \/ Uploaded(u) \/ RevealDue(u)
       \/ (\E b \in BOOLEAN : UploadFile(u, b) \/ UploadFails(u, b) \/ \E v \in Uploads : RetryEntry(u, v, b))
       \/ (\E n \in 0..Size : Progress(u, n))

(* What is done goes away by itself and what runs is measured, whatever    *)
(* the order in which uploads start, end, fail, are tried again and their  *)
(* timers fire: with nothing uploading a done entry has the dismissal      *)
(* ahead; while something uploads its tick runs; a call is counted until   *)
(* it ends; and an entry never seen is never left behind as done or error. *)
StripSettles ==
  /\ With("done") # {} /\ With("uploading") = {} => settled
  /\ ticking = (With("uploading") # {})
  /\ inFlight = Cardinality(With("uploading"))
  /\ \A u \in With("done") \union With("error") : entry[u].seen
=============================================================================
