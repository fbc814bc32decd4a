------------------------------- MODULE Reader -------------------------------
(***************************************************************************)
(* What reads a document in the file panel: its place while the drawer is  *)
(* hidden and the layout settles, its search (FilePreview.vue), the        *)
(* diagrams drawn into it (markdownEnhance.ts), and the pages of a pdf     *)
(* (PdfPreview.vue).                                                       *)
(*                                                                         *)
(* A place is a number; the text settles once, which moves every line down *)
(* by one.  Markup, colours, sizes, zooming and the outline are left out,  *)
(* and so is what is drawn for a pdf page beyond whose file it is.         *)
(* Mermaid and graphviz answer for one diagram in the order asked.         *)
(***************************************************************************)
EXTENDS Naturals, Sequences, FiniteSets

CONSTANTS
  Lines,          \* lines a link may name
  Diagrams,       \* diagrams of a document, 1 .. Diagrams
  Pages,          \* pages of a pdf
  MaxReads,       \* bound: documents, or contents, shown after the first
  MaxThemes       \* bound: changes of theme

VARIABLES
  reader,         \* the place: see ReaderInit
  find,           \* the search
  frame,          \* the html page: its document, whether it runs, and for which it was asked
  drawn,          \* by diagram: the theme it was asked in, and the one it shows
  passes,         \* renderDiagrams under way, oldest first
  theme, themes,
  pdf, slots, loads, renders

readerVars == <<reader, find, frame, drawn, passes, theme, themes, pdf, slots, loads, renders>>
readingVars == <<reader, find, frame>>
diagramVars == <<drawn, passes, theme, themes>>
pdfVars == <<pdf, slots, loads, renders>>

Nowhere == 99
Min2(a, b) == IF a < b THEN a ELSE b
Bottom(r) == Lines + r.settled
LineTop(r, l) == Min2(l + r.settled, Bottom(r))

ReaderInit ==
  /\ \E s \in {Nowhere, Lines, Lines + 1}, l \in 0 .. Lines :
       reader = [shown |-> FALSE, was |-> FALSE, settled |-> 0, pos |-> 0, stored |-> s, initial |-> s,
                 line |-> l, anchor |-> IF s = Nowhere THEN l ELSE 0, restore |-> s # Nowhere, tick |-> TRUE,
                 event |-> FALSE, left |-> s]
  /\ find = [open |-> FALSE, query |-> "", timer |-> FALSE, tick |-> FALSE, marks |-> "", count |-> "", version |-> 0,
             plain |-> TRUE, inCode |-> FALSE, wiped |-> FALSE]
  /\ frame = [doc |-> 0, rendered |-> FALSE, askedFor |-> 0]
  /\ drawn = [d \in 1 .. Diagrams |-> [asked |-> "none", shows |-> "none"]]
  /\ passes = <<>> /\ theme = "light" /\ themes = 0
  /\ pdf = [seq |-> 0, data |-> 0, doc |-> Nowhere, rendering |-> TRUE, error |-> FALSE, dog |-> FALSE, observed |-> FALSE,
            failed |-> FALSE]
  /\ slots = <<>> /\ loads = {} /\ renders = {}

----------------------------------------------------------------------------
(* The place.  `left` is what the owner knew when the reader was last      *)
(* hidden, until the reader goes elsewhere or does not reach it.           *)

ScrolledTo(r, p) ==
  LET q == Min2(p, Bottom(r)) IN [r EXCEPT !.pos = q, !.event = @ \/ q # r.pos,
                                           !.left = IF q # p THEN Nowhere ELSE @]
(* applyReadingIntent, at a tick or when the layout changed                *)
ApplyReadingIntent ==
  /\ reader.tick
  /\ LET r == [reader EXCEPT !.tick = FALSE, !.was = reader.shown]
     IN reader' = IF ~r.shown THEN r
                  ELSE IF r.anchor # 0 THEN ScrolledTo(r, LineTop(r, r.anchor))
                  ELSE IF r.restore THEN ScrolledTo([r EXCEPT !.restore = FALSE], r.initial)
                  ELSE IF ~reader.was /\ r.stored # Nowhere THEN ScrolledTo(r, r.stored) ELSE r
  /\ UNCHANGED <<find, frame>>
(* Mutant of ScrollEvent: what a hidden reader measures is told as well    *)
ScrollEventAlways ==
  /\ reader.event /\ reader' = [reader EXCEPT !.event = FALSE, !.stored = reader.pos] /\ UNCHANGED <<find, frame>>
(* onScroll: the owner of the document keeps the place                     *)
ScrollEvent ==
  /\ reader.event
  /\ reader' = [reader EXCEPT !.event = FALSE, !.stored = IF reader.shown THEN reader.pos ELSE @]
  /\ UNCHANGED <<find, frame>>
(* releaseSourceAnchor: the wheel, a finger, a key, the outline, to the top *)
ReaderGoes(p) ==
  /\ reader.shown /\ reader' = [ScrolledTo(reader, p) EXCEPT !.anchor = 0, !.left = Nowhere]
  /\ UNCHANGED <<find, frame>>
ReaderHides ==
  /\ reader.shown
  /\ reader' = [reader EXCEPT !.shown = FALSE, !.tick = TRUE,
                  !.left = IF reader.restore THEN @ ELSE IF reader.anchor = 0 /\ ~reader.event THEN reader.stored ELSE Nowhere]
  /\ UNCHANGED <<find, frame>>
(* Laid out with no size, which is after that tick, it loses its place.    *)
BrowserForgets ==
  /\ ~reader.shown /\ ~reader.tick /\ reader.pos # 0
  /\ reader' = [reader EXCEPT !.pos = 0, !.event = TRUE] /\ UNCHANGED <<find, frame>>
ReaderShows == ~reader.shown /\ reader' = [reader EXCEPT !.shown = TRUE, !.tick = TRUE] /\ UNCHANGED <<find, frame>>
(* Fonts, colours, diagrams: sourceLayoutObserver                          *)
Settles ==
  /\ reader.shown /\ reader.settled = 0 /\ reader' = [reader EXCEPT !.settled = 1, !.tick = TRUE]
  /\ UNCHANGED <<find, frame>>
(* The other view of the text has nothing marked yet.                      *)
Viewed(f) == [f EXCEPT !.tick = TRUE, !.marks = "", !.plain = ~@, !.inCode = FALSE]
(* The lines of the source are made anew as another one of them is named,  *)
(* which nobody looks for again.                                           *)
Renamed(f, l) == IF l = reader.line THEN f ELSE [f EXCEPT !.marks = "", !.wiped = TRUE]
(* watch lineStart, jumpVersion: a link names a line of this document      *)
Jump(l) ==
  /\ reader' = [reader EXCEPT !.line = l, !.anchor = l, !.restore = FALSE, !.tick = TRUE, !.left = Nowhere]
  /\ frame' = [frame EXCEPT !.rendered = FALSE] /\ find' = (IF find.plain THEN Renamed(find, l) ELSE Viewed(find))
ToggleMarkdownSource ==
  /\ reader.shown
  /\ reader' = [reader EXCEPT !.anchor = reader.line, !.tick = TRUE,
                  !.left = IF reader.line # 0 THEN Nowhere ELSE @]
  /\ find' = Viewed(find) /\ UNCHANGED frame

----------------------------------------------------------------------------
(* The search: marks are put into the text that is there, which is made    *)
(* anew when the contents or the view change.  Fenced code is coloured     *)
(* later, and what was marked in it is gone then.                          *)

RunFind(f) == [f EXCEPT !.marks = f.query, !.count = f.query, !.inCode = ~f.plain /\ f.query # "", !.wiped = FALSE]
FindStep(f) == find' = f /\ UNCHANGED <<reader, frame>>
(* runFind lets the line go, and shows the first match, wherever it is.    *)
Finds(f) ==
  /\ find' = RunFind(f) /\ UNCHANGED frame
  /\ \E p \in IF reader.shown /\ f.query # "" THEN 0 .. Bottom(reader) ELSE {reader.pos} :
       reader' = [reader EXCEPT !.anchor = 0, !.left = Nowhere, !.pos = p, !.event = @ \/ p # reader.pos]
FindTyped(q) == find.open /\ q # find.query /\ FindStep([find EXCEPT !.query = q, !.timer = TRUE])
FindTimer == find.timer /\ Finds([find EXCEPT !.timer = FALSE])
ToggleFind ==
  IF find.open
  THEN FindStep([find EXCEPT !.open = FALSE, !.query = "", !.marks = "", !.count = "", !.timer = @ \/ find.query # ""])
  ELSE FindStep([find EXCEPT !.open = TRUE])
(* The contents are read again: watch mdHtml, watch codeHtml               *)
Reread ==
  /\ find.version < MaxReads
  /\ FindStep([find EXCEPT !.version = @ + 1, !.marks = "", !.tick = TRUE, !.inCode = FALSE])
FindTick ==
  /\ find.tick /\ LET f == [find EXCEPT !.tick = FALSE]
                  IN IF f.query # "" THEN Finds(f) ELSE FindStep(f)
CodeColoured == find.inCode /\ FindStep([find EXCEPT !.inCode = FALSE])

(* html: run on demand, in a sandbox; another document starts as source    *)
RenderHtml == frame' = [frame EXCEPT !.rendered = ~@, !.askedFor = frame.doc] /\ UNCHANGED <<reader, find>>
AnotherDocument ==
  /\ frame.doc < MaxReads /\ frame' = [frame EXCEPT !.doc = @ + 1, !.rendered = FALSE] /\ UNCHANGED <<reader, find>>

----------------------------------------------------------------------------
(* renderDiagrams: one diagram after the other, waiting for each; several  *)
(* of these loops may run, each in the theme of its beginning.             *)

Needs(d, th) == drawn[d].asked # th
(* A loop goes on from d: at the first diagram that needs it, it waits.    *)
GoesOn(th, d) ==
  LET left == {x \in d .. Diagrams : Needs(x, th)}
      at == CHOOSE x \in left : \A y \in left : x <= y
  IN IF left = {} THEN <<>> ELSE <<[theme |-> th, at |-> at]>>
Asking(ps) == [d \in 1 .. Diagrams |-> IF ps # <<>> /\ ps[1].at = d THEN [drawn[d] EXCEPT !.asked = ps[1].theme] ELSE drawn[d]]
Enhance ==
  /\ LET more == GoesOn(theme, 1) IN passes' = passes \o more /\ drawn' = Asking(more)
  /\ UNCHANGED <<theme, themes>>
ToggleTheme ==
  /\ themes < MaxThemes /\ themes' = themes + 1 /\ theme' = (IF theme = "light" THEN "dark" ELSE "light")
  /\ LET more == GoesOn(theme', 1) IN passes' = passes \o more /\ drawn' = Asking(more)
Rendered(i) ==
  /\ \A j \in 1 .. i - 1 : passes[j].at # passes[i].at
  /\ LET p == passes[i]
         before == SubSeq(passes, 1, i - 1)
         after == SubSeq(passes, i + 1, Len(passes))
         more == GoesOn(p.theme, p.at + 1)
         asks == Asking(more)
     IN /\ drawn' = [asks EXCEPT ![p.at].shows = p.theme]
        /\ passes' = before \o after \o more
  /\ UNCHANGED <<theme, themes>>

----------------------------------------------------------------------------
(* PdfPreview: load, in three steps; a page is a slot of its load.         *)

LoadPdf(data) ==
  /\ pdf' = [pdf EXCEPT !.seq = @ + 1, !.data = data, !.rendering = TRUE, !.error = FALSE, !.dog = TRUE, !.failed = FALSE]
  /\ slots' = <<>> /\ loads' = loads \cup {[seq |-> pdf.seq + 1, data |-> data, got |-> FALSE]} /\ UNCHANGED renders
DataChanges == pdf.seq > 0 /\ pdf.data < MaxReads /\ LoadPdf(pdf.data + 1)
PdfMounts == pdf.seq = 0 /\ LoadPdf(0)
Stale(l) == l.seq # pdf.seq
(* getDocument, then the first page, have arrived                          *)
Opened(l) ==
  /\ l \in loads /\ ~l.got /\ UNCHANGED <<slots, renders>>
  /\ IF Stale(l) THEN loads' = loads \ {l} /\ UNCHANGED pdf
     ELSE loads' = (loads \ {l}) \cup {[l EXCEPT !.got = TRUE]} /\ pdf' = [pdf EXCEPT !.doc = l.data]
FirstPage(l) ==
  /\ l \in loads /\ l.got /\ loads' = loads \ {l} /\ UNCHANGED renders
  /\ IF Stale(l) THEN UNCHANGED <<pdf, slots>>
     ELSE /\ slots' = slots \o [i \in 1 .. Pages |-> [seq |-> l.seq, page |-> i, near |-> FALSE, marked |-> FALSE, shows |-> Nowhere]]
          /\ pdf' = [pdf EXCEPT !.rendering = FALSE, !.observed = TRUE]
(* A load that fails disposes the watchdog there is, whoever's it is.      *)
LoadFails(l) ==
  /\ l \in loads /\ loads' = loads \ {l}
  /\ pdf' = [pdf EXCEPT !.dog = FALSE, !.error = @ \/ ~Stale(l), !.rendering = @ /\ Stale(l)] /\ UNCHANGED <<slots, renders>>
Watchdog ==
  /\ pdf.dog /\ pdf' = [pdf EXCEPT !.dog = FALSE, !.error = TRUE, !.rendering = FALSE, !.observed = FALSE]
  /\ UNCHANGED <<slots, loads, renders>>
(* renderPage up to its await                                              *)
Starts(i) == [seq |-> slots[i].seq, page |-> slots[i].page, doc |-> pdf.doc]
Nears(i) ==
  /\ pdf.observed /\ ~slots[i].near /\ slots' = [slots EXCEPT ![i].near = TRUE, ![i].marked = TRUE]
  /\ renders' = (IF slots[i].marked THEN renders ELSE renders \cup {Starts(i)}) /\ UNCHANGED <<pdf, loads>>
Leaves(i) ==
  /\ pdf.observed /\ slots[i].near
  /\ slots' = [slots EXCEPT ![i].near = FALSE, ![i].marked = FALSE, ![i].shows = IF slots[i].marked THEN Nowhere ELSE @]
  /\ UNCHANGED <<pdf, loads, renders>>
PageDrawn(r, ok) ==
  /\ r \in renders /\ renders' = renders \ {r} /\ UNCHANGED loads
  /\ slots' = [i \in DOMAIN slots |-> IF <<slots[i].seq, slots[i].page>> # <<r.seq, r.page>> THEN slots[i]
                                      ELSE IF ok THEN [slots[i] EXCEPT !.shows = r.doc] ELSE [slots[i] EXCEPT !.marked = FALSE]]
  /\ pdf' = [pdf EXCEPT !.dog = @ /\ ~(ok /\ r.page = 1), !.failed = @ \/ ~ok]
(* rerenderVisible: zoomed, or another width                               *)
Rerender ==
  /\ slots # <<>> /\ slots' = [i \in DOMAIN slots |-> [slots[i] EXCEPT !.marked = slots[i].near]]
  /\ renders' = renders \cup {Starts(i) : i \in {j \in DOMAIN slots : slots[j].near}} /\ UNCHANGED <<pdf, loads>>

----------------------------------------------------------------------------
(* A tick is over before the next event of the page.                       *)
PlaceNext ==
  /\ UNCHANGED <<diagramVars, pdfVars>>
  /\ \/ ApplyReadingIntent \/ FindTick
     \/ /\ ~reader.tick /\ ~find.tick
        /\ \/ ScrollEvent \/ ReaderShows \/ ReaderHides \/ BrowserForgets \/ Settles \/ ToggleMarkdownSource
           \/ (\E p \in 0 .. Bottom(reader) : ReaderGoes(p)) \/ (\E l \in 1 .. Lines : Jump(l))
           \/ FindTimer \/ ToggleFind \/ Reread \/ CodeColoured \/ (\E q \in {"", "a"} : FindTyped(q))
           \/ RenderHtml \/ AnotherDocument
DrawNext ==
  /\ UNCHANGED <<readingVars, pdfVars>>
  /\ (Enhance \/ ToggleTheme \/ \E i \in DOMAIN passes : Rendered(i))
PdfNext ==
  /\ UNCHANGED <<readingVars, diagramVars>>
  /\ \/ PdfMounts \/ DataChanges \/ Watchdog \/ Rerender
     \/ (\E l \in loads : Opened(l) \/ FirstPage(l) \/ LoadFails(l))
     \/ (\E i \in DOMAIN slots : Nears(i) \/ Leaves(i)) \/ (\E r \in renders, ok \in BOOLEAN : PageDrawn(r, ok))
ReaderNext == PlaceNext \/ DrawNext \/ PdfNext
ReaderSpec == ReaderInit /\ [][ReaderNext]_readerVars

----------------------------------------------------------------------------
(* Hidden and shown again, the reader is where its owner knew it to be,    *)
(* and a line that a link named stays in place, as the layout settles,     *)
(* until the user goes elsewhere (FilePreview.vue).                        *)
PlaceIsKept ==
  (reader.shown /\ ~reader.tick) =>
    /\ reader.anchor # 0 => reader.pos = LineTop(reader, reader.anchor)
    /\ reader.left # Nowhere => reader.pos = reader.left

(* The matches shown and counted are those of what is searched for, in the *)
(* text on show, but for fenced code, and but for marks that went when a   *)
(* link named another line; a page runs only for the document it was asked *)
(* for (FilePreview.vue).                                                  *)
FindIsCurrent ==
  /\ ~find.timer /\ ~find.tick =>
       /\ find.count = find.query
       /\ find.marks = find.query \/ (find.wiped /\ find.marks = "")
  /\ frame.rendered => frame.askedFor = frame.doc

(* However often the theme changes while diagrams are drawn, in the end    *)
(* each is drawn in the theme chosen last, if any is (markdownEnhance.ts). *)
DiagramsFollow == (passes = <<>> /\ \E d \in 1 .. Diagrams : drawn[d].asked # "none") => \A d \in 1 .. Diagrams : drawn[d].shows = theme

(* The pages of a pdf on show are those of the file on show, each page     *)
(* near is drawn in the end, and one that is said to load does             *)
(* (PdfPreview.vue).                                                       *)
PdfShowsItsFile ==
  /\ \A i \in DOMAIN slots : slots[i].shows \in {Nowhere, pdf.data}
  /\ (renders = {} /\ ~pdf.failed) => \A i \in DOMAIN slots : slots[i].near => slots[i].shows = pdf.data
  /\ Len(slots) \in {0, Pages}
  /\ (pdf.seq > 0 /\ pdf.rendering) => \E l \in loads : l.seq = pdf.seq
ReaderHolds == PlaceIsKept /\ FindIsCurrent /\ DiagramsFollow /\ PdfShowsItsFile
=============================================================================
