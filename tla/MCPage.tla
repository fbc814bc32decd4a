------------------------------- MODULE MCPage -------------------------------
(***************************************************************************)
(* One run over parts of the page that share no state: a behaviour is one  *)
(* of the part that `focus` names, the others stay as they began.          *)
(***************************************************************************)
EXTENDS TLC, Naturals, Sequences

CONSTANTS
  Jobs, UpFiles, Parts, Attempts, MaxIds, MaxLost, Uploads, Size, Sockets,
  MaxSeq, MaxEpochs, MaxEvents, Dirs, Queries, MaxBack, MaxWalk, Files,
  Images, NoKey, MaxOpen, MaxAsked, Windows, Panes, MaxTurns, MaxFrames, Page,
  MaxTotal, MaxPages, MaxFlying, Spans, MaxTries, Strip, NoTab, MaxEdits, Tabs

ASSUME PageAssumption == MaxSeq \in Nat /\ MaxTotal \in Nat \ {0}
ASSUME PanesAssumption == Panes \in [Windows -> Nat]

\* One window is split between two agents, the others are shells.
SplitAndShells ==
  LET split == CHOOSE k \in Windows : TRUE
  IN [k \in Windows |-> IF k = split THEN 2 ELSE 0]

VARIABLES
  focus,
  job, tail, canceled, run, upPaste, resume, stage, upLanded, aborts, lost,
  entry, reveal, ticking, settled, inFlight, app, c, stored, removed, ws,
  budget, pane, followed, lock, panel, back, treeView, refresh, search,
  deleting, done, strayed, walked, previews, activePreview, requests,
  previewsFlying, path, converting, urls, retired, previewsAsked, agent, agentTurns,
  front, frame, seen, undated, overview, hidden, lastSeen, primed, raised,
  muted, cooling, card, spoken, newest, backward, repeated, acts, kept, lines, known, loading,
  flying, view, found, sel, asked, chip, loader, runs, busy, agentAsk, list,
  sorting, preview, moves, press, drop, menuTimer, heard, renaming, turns,
  live, loaded, activeTab, page, reading, switcher, finishing, typing, visits,
  pendingVisit, dwell, leader

upVars == <<job, tail, canceled, run, upPaste, resume, stage, upLanded,
             aborts, lost>>
usVars == <<entry, reveal, ticking, settled, inFlight>>
ccVars == <<app, c, stored, removed, ws, budget>>
ftVars == <<pane, followed, lock, panel, back, treeView, refresh, search,
             deleting, done, strayed, walked>>
fpVars == <<previews, activePreview, requests, previewsFlying, path,
             converting, urls, retired, previewsAsked>>
ahVars == <<agent, agentTurns, front, frame, seen, undated, overview, hidden, lastSeen,
             primed, raised, muted, cooling, card, spoken, newest, backward, repeated, acts>>
thVars == <<kept, lines, known, loading, flying, view, found, sel, asked>>
urVars == <<chip, loader, runs, busy, agentAsk>>
trVars == <<list, sorting, preview, moves, press, drop, menuTimer, heard,
             renaming, turns>>
qsVars == <<live, loaded, activeTab, page, reading, switcher, finishing,
             typing, visits, pendingVisit, dwell, leader>>

UP == INSTANCE Upload WITH Files <- UpFiles, paste <- upPaste, landed <-
       upLanded
CC == INSTANCE ClipboardClient
FT == INSTANCE FileTree WITH view <- treeView
FP == INSTANCE FilePreviews WITH active <- activePreview, asked <-
       previewsAsked, flying <- previewsFlying
AH == INSTANCE AttentionHud WITH last <- lastSeen, turns <- agentTurns
TH == INSTANCE TerminalHistory WITH MaxAsked <- MaxPages
UR == INSTANCE UsageReports
TS == INSTANCE TabStrip WITH MaxTurns <- MaxEdits, active <- activeTab,
       pending <- pendingVisit

\* What a part out of focus begins with says nothing.
PageInit ==
  /\ focus \in {
       "tree", "paste", "strip", "clipboard", "files", "previews", "hud",
       "history", "usage", "reorder", "switcher"}
  /\ UP!UpInit /\ UP!StripInit /\ CC!CcInit /\ FT!FtInit /\ FP!FpInit
  /\ AH!AhInit /\ TH!ThInit /\ UR!UsageInit /\ TS!ReorderInit /\ TS!SwitchInit
  /\ focus # "clipboard" => app.seq = 0 /\ stored.epoch = 0
  /\ focus # "files" => pane = CHOOSE d \in Dirs : TRUE
  /\ focus # "hud" => front = CHOOSE k \in Windows : TRUE
  /\ focus # "usage" => chip.visible /\ chip.window = "24h"
  /\ focus # "switcher" => visits = {}

PageNext ==
  /\ UNCHANGED focus
  /\ \/ /\ focus = "tree" /\ (UP!TreeNext \/ UP!SweepStale)
        /\ UNCHANGED <<usVars, ccVars, ftVars, fpVars, ahVars, thVars, urVars,
                       trVars, qsVars>>
     \/ /\ focus = "paste" /\ (UP!PasteNext \/ UP!SweepStale)
        /\ UNCHANGED <<usVars, ccVars, ftVars, fpVars, ahVars, thVars, urVars,
                       trVars, qsVars>>
     \/ /\ focus = "strip" /\ UP!StripNext
        /\ UNCHANGED <<upVars, ccVars, ftVars, fpVars, ahVars, thVars, urVars,
                       trVars, qsVars>>
     \/ /\ focus = "clipboard" /\ CC!CcNext
        /\ UNCHANGED <<upVars, usVars, ftVars, fpVars, ahVars, thVars, urVars,
                       trVars, qsVars>>
     \/ /\ focus = "files" /\ FT!FtNext
        /\ UNCHANGED <<upVars, usVars, ccVars, fpVars, ahVars, thVars, urVars,
                       trVars, qsVars>>
     \/ /\ focus = "previews" /\ FP!FpNext
        /\ UNCHANGED <<upVars, usVars, ccVars, ftVars, ahVars, thVars, urVars,
                       trVars, qsVars>>
     \/ /\ focus = "hud" /\ AH!AhNext
        /\ UNCHANGED <<upVars, usVars, ccVars, ftVars, fpVars, thVars, urVars,
                       trVars, qsVars>>
     \/ /\ focus = "history" /\ TH!ThNext
        /\ UNCHANGED <<upVars, usVars, ccVars, ftVars, fpVars, ahVars, urVars,
                       trVars, qsVars>>
     \/ /\ focus = "usage" /\ UR!UsageNext
        /\ UNCHANGED <<upVars, usVars, ccVars, ftVars, fpVars, ahVars, thVars,
                       trVars, qsVars>>
     \/ /\ focus = "reorder" /\ TS!ReorderNext
        /\ UNCHANGED <<upVars, usVars, ccVars, ftVars, fpVars, ahVars, thVars,
                       urVars, qsVars>>
     \/ /\ focus = "switcher" /\ TS!SwitchNext
        /\ UNCHANGED <<upVars, usVars, ccVars, ftVars, fpVars, ahVars, thVars,
                       urVars, trVars>>

PageSpec == PageInit /\ [][PageNext]_<<
  focus, upVars, usVars, ccVars, ftVars, fpVars, ahVars, thVars, urVars,
  trVars, qsVars>>
-----------------------------------------------------------------------------

\* An upload asks for its file to be put together only when every part is
\* there, and in the strip of uploads what is done leaves by itself and what
\* runs is measured (useTreeUpload.ts, uploadTransport.ts,
\* useUploadProgress.ts).
UploadsEndWhole == UP!CompleteAsksForWhole /\ UP!StripSettles

\* The clipboard history stays whole once it is, and what was deleted never
\* comes back (useRemoteClipboard.ts).
WholeStaysWhole == CC!WholeStaysWhole

\* Search results on show are of the query typed, in the place on show; a
\* preview's URL lives as long as its tab, which loads while its request is
\* out (FilesPanel.vue, ResourceDrawer.vue).
FilesShowTheirOwn == FT!SearchShowsItsQuery /\ FP!PreviewsAreHeld

\* A dated turn of an agent interrupts once (useAttentionHud.ts).
TurnInterruptsOnce == AH!TurnInterruptsOnce

\* A selection stays what was meant while pages come and go
\* (useTerminalHistory.ts).
SelectionHolds == TH!SelectionHolds

\* A usage window that is loading is one that is awaited
\* (usageReportLoader.ts).
UsageIsAwaited == UR!UsageIsAwaited

\* What a drag or the sort panel shows is what is stored or given up, and a
\* key of the leader or of the switcher acts on the tab it was meant for
\* (useTabReorder.ts, useTabShortcuts.ts, useTabQuickSwitch.ts).
TabStripObeys == []TS!PreviewIsKept /\ TS!KeysMeanTheirTab
=============================================================================
