-------------------------- MODULE TerminalHistory --------------------------
(***************************************************************************)
(* Looking back in a terminal: the pages of its history                    *)
(* (useTerminalHistory), the view that scrolls, searches and selects in    *)
(* them (CopyModeView, useHistorySelection, historySelection), and the     *)
(* server's answers (history_tail.go).                                     *)
(*                                                                         *)
(* A line is its number, which only grows; those from `total` on are on    *)
(* the screen, one of them here.  A request is handled when it is sent,    *)
(* its answer is another step, and several may be under way.  One session  *)
(* and one source of its history.                                          *)
(***************************************************************************)
EXTENDS Integers, FiniteSets, FiniteSetsExt
CONSTANTS
  Page,       \* HISTORY_PAGE
  MaxTotal,   \* bound: lines the session scrolls out
  MaxAsked,   \* bound: requests sent
  MaxFlying   \* bound: requests under way
VARIABLES
  kept,       \* the daemon: the oldest line it has, and how many there were
  lines,      \* lines
  known,      \* base, total
  loading,
  flying,     \* requests not answered
  view,       \* CopyModeView is mounted
  found,      \* matches
  sel,        \* selection, and the end it was asked to reach
  asked
thVars == <<kept, lines, known, loading, flying, view, found, sel, asked>>

NoSel == [on |-> FALSE, anchor |-> 0, focus |-> 0, end |-> -1]
Smaller(a, b) == IF a < b THEN a ELSE b
Larger(a, b) == IF a > b THEN a ELSE b
Span(lo, hi) == {n \in 0 .. MaxTotal : lo <= n /\ n < hi}

(* Opened, and at a match far back.                                        *)
ThInit ==
  /\ kept = [base |-> 0, total |-> MaxTotal - 1] /\ known = kept
  /\ view = TRUE /\ found = {0} /\ lines = Span(0, Page)
  /\ loading = FALSE /\ flying = {} /\ sel = NoSel /\ asked = 0

-----------------------------------------------------------------------------
(* The session scrolls; its oldest line is evicted.                        *)
Scrolls ==
  /\ kept.base = 0 /\ kept.total < MaxTotal
  /\ kept' \in {[kept EXCEPT !.total = @ + 1], [kept EXCEPT !.base = 1]}
  /\ UNCHANGED <<lines, known, loading, flying, view, found, sel, asked>>

Screen == {kept.total}
History(from, count) == Span(Larger(from, kept.base), Smaller(from + count, kept.total))
(* tailHistory: the last page and the screen; the screen alone, if a line  *)
(* was evicted between its two reads                                       *)
Tails == {Screen \union History(kept.total - Page, Page)} \union (IF kept.base > 0 THEN {Screen} ELSE {})

Free(fs) == Min((1 .. MaxFlying) \ {f.no : f \in fs})
(* fetchPage: what is asked for, with the answer it will bring.            *)
Asks(kind, got, rest) ==
  /\ asked < MaxAsked /\ asked' = asked + 1 /\ Cardinality(flying) < MaxFlying
  /\ flying' = flying \union
       {[kind |-> kind, got |-> got, kept |-> kept, no |-> Free(flying), for |-> rest]}
Nothing == [n |-> 0, from |-> 0, end |-> 0, screen |-> {}, mine |-> FALSE]

(* Mutant of Watched: the selection stays, whatever lines are dropped.     *)
WatchedNot(s, ls) == s
(* watch(lines): a selection whose anchor is gone is cleared.              *)
Watched(s, ls) == IF s.on /\ s.anchor \notin ls THEN NoSel ELSE s

(* selection is given another anchor, or none: who waits to extend it will not *)
Disowned(fs) == {[f EXCEPT !.for.mine = FALSE] : f \in fs}
Holds(ls) ==
  /\ lines' = ls /\ sel' = Watched(sel, ls)
Lets(ls, fs) == IF Watched(sel, ls) = sel THEN fs ELSE Disowned(fs)

-----------------------------------------------------------------------------
(* The view.                                                               *)
Open ==
  /\ ~view /\ view' = TRUE /\ loading' = TRUE
  /\ \E got \in Tails : Asks("open", got, Nothing)
  /\ UNCHANGED <<kept, lines, known, found, sel>>

Close ==
  /\ view /\ view' = FALSE /\ found' = {} /\ sel' = NoSel /\ flying' = Disowned(flying)
  /\ UNCHANGED <<kept, lines, known, loading, asked>>

(* onScroll near the top, loadOlder.                                       *)
Oldest == IF lines = {} THEN known.total ELSE Min(lines)
LoadOlder ==
  /\ view /\ ~loading /\ Oldest > known.base
  /\ LET from == Larger(known.base, Oldest - Page)
     IN Asks("older", History(from, Oldest - from), Nothing)
  /\ loading' = TRUE
  /\ UNCHANGED <<kept, lines, known, view, found, sel>>

(* ensureVisible: the page around a line, unless it is there.              *)
EnsureVisible(n) ==
  IF n \in lines THEN UNCHANGED <<flying, loading, asked>>
  ELSE /\ Asks("jump", History(Larger(known.base, n - Page \div 2), Page), [Nothing EXCEPT !.n = n])
       /\ loading' = TRUE

(* runSearch: the server searches the history, the page its screen lines.  *)
RunSearch ==
  /\ view
  /\ \E hits \in {{}} \union {{n} : n \in History(0, MaxTotal + 1)} : Asks("search", hits, Nothing)
  /\ UNCHANGED <<kept, lines, known, loading, view, found, sel>>

StepMatch ==
  /\ view /\ \E n \in found : EnsureVisible(n)
  /\ UNCHANGED <<kept, lines, known, view, found, sel>>

CloseSearch ==
  /\ found # {} /\ found' = {}
  /\ UNCHANGED <<kept, lines, known, loading, flying, view, sel, asked>>

(* onMouseDown, captureNative; with shift, or dragging on: extend.         *)
Select(n) ==
  /\ view /\ n \in lines
  /\ \/ sel' = [NoSel EXCEPT !.on = TRUE, !.anchor = n, !.focus = n] /\ flying' = Disowned(flying)
     \/ sel.on /\ sel' = [sel EXCEPT !.focus = n, !.end = -1] /\ UNCHANGED flying
  /\ UNCHANGED <<kept, lines, known, loading, view, found, asked>>

(* selectToEnd: extended to the newest line there is.                      *)
ToEnd(s, ls, end) == [s EXCEPT !.focus = Max(ls), !.end = end]

(* selectThroughEnd, loadToEnd up to its first request.                    *)
SelectThroughEnd ==
  /\ view /\ sel.on /\ ~loading
  /\ \/ /\ Max(lines) >= known.total
        /\ sel' = ToEnd(sel, lines, known.total) /\ UNCHANGED <<flying, loading, asked>>
     \/ /\ Max(lines) < known.total
        /\ Asks("screen", Screen, [Nothing EXCEPT !.mine = TRUE])
        /\ loading' = TRUE /\ UNCHANGED sel
  /\ UNCHANGED <<kept, lines, known, view, found>>

-----------------------------------------------------------------------------
(* Answers.                                                                *)
Told(f) == known' = f.kept
Others(f) == flying \ {f}

(* no answer: what is there stays, and the operation ends                  *)
Fails(f) ==
  /\ flying' = Others(f) /\ loading' = (loading /\ f.kind = "search")
  /\ UNCHANGED <<kept, lines, known, view, found, sel, asked>>

Opened(f) ==
  /\ f.kind = "open" /\ Told(f) /\ loading' = FALSE
  /\ Holds(f.got) /\ flying' = Lets(f.got, Others(f))
  /\ UNCHANGED <<kept, view, found, asked>>

Older(f) ==
  /\ f.kind = "older" /\ Told(f) /\ loading' = FALSE
  /\ Holds(lines \union f.got) /\ flying' = Others(f)
  /\ UNCHANGED <<kept, view, found, asked>>

(* a jump far from what is there replaces it *)
Jumped(f) ==
  LET near == lines # {} /\ f.for.n >= Min(lines) - Page /\ f.for.n <= Max(lines) + Page
      ls   == IF near THEN lines \union f.got ELSE f.got
  IN /\ f.kind = "jump" /\ Told(f) /\ loading' = FALSE
     /\ Holds(ls) /\ flying' = Lets(ls, Others(f))
     /\ UNCHANGED <<kept, view, found, asked>>

(* search: what the server found, and what stands on the screen, which it  *)
(* does not search (searchLoaded, mergeMatches)                            *)
Hits(f) == {f.got} \union (IF f.got = {} THEN {{n} : n \in {n \in lines : n >= known.total}} ELSE {})

(* the matches, the first of which is brought into view; a view closed in  *)
(* between has none                                                        *)
Searched(f) ==
  /\ f.kind = "search"
  /\ \E hits \in Hits(f) :
       /\ found' = IF view THEN hits ELSE found
       /\ IF hits = {} THEN flying' = Others(f) /\ UNCHANGED <<loading, asked>>
          ELSE \E n \in hits :
                 IF n \in lines THEN flying' = Others(f) /\ UNCHANGED <<loading, asked>>
                 ELSE /\ asked < MaxAsked /\ asked' = asked + 1 /\ loading' = TRUE
                      /\ flying' = Others(f) \union
                           {[kind |-> "jump", no |-> f.no, kept |-> kept, for |-> [Nothing EXCEPT !.n = n],
                             got |-> History(Larger(known.base, n - Page \div 2), Page)]}
  /\ UNCHANGED <<kept, lines, known, view, sel>>

(* loadToEnd: page after page up to the screen read first, then the screen *)
Fills(f, ls, r) ==
  IF r.from < r.end
  THEN /\ asked < MaxAsked /\ asked' = asked + 1 /\ UNCHANGED loading
       /\ flying' = Others(f) \union
            {[kind |-> "fill", no |-> f.no, kept |-> kept, for |-> r,
              got |-> History(r.from, Smaller(Page, r.end - r.from))]}
       /\ Holds(ls)
  ELSE LET all == ls \union r.screen
       IN /\ flying' = Others(f) /\ loading' = FALSE /\ lines' = all /\ UNCHANGED asked
          /\ sel' = IF r.mine /\ sel.on THEN ToEnd(sel, all, r.end) ELSE sel

ScreenRead(f) ==
  /\ f.kind = "screen" /\ lines # {} /\ Told(f)
  /\ Fills(f, lines, [f.for EXCEPT !.from = Max(lines) + 1, !.end = Min(f.got), !.screen = f.got])
  /\ UNCHANGED <<kept, view, found>>

(* a page that is not what was asked for: the history changed *)
Filled(f) ==
  /\ f.kind = "fill" /\ Told(f)
  /\ LET count == Smaller(Page, f.for.end - f.for.from)
     IN IF f.got # Span(f.for.from, f.for.from + count)
        THEN /\ flying' = Others(f) /\ loading' = FALSE /\ UNCHANGED <<lines, sel, asked>>
        ELSE Fills(f, lines \union f.got, [f.for EXCEPT !.from = @ + count])
  /\ UNCHANGED <<kept, view, found>>

Answered(f) == Fails(f) \/ Opened(f) \/ Older(f) \/ Jumped(f) \/ Searched(f) \/ ScreenRead(f) \/ Filled(f)

ThNext ==
  \/ Scrolls \/ Open \/ Close \/ LoadOlder \/ RunSearch \/ StepMatch \/ CloseSearch \/ SelectThroughEnd
  \/ \E n \in lines : Select(n)
  \/ \E f \in flying : Answered(f)

ThSpec == ThInit /\ [][ThNext]_thVars
-----------------------------------------------------------------------------
Ends == {sel.anchor, sel.focus}
Between(lo, hi) == {n \in lines : lo <= n /\ n <= hi}
(* historySelectionText: the lines between the ends, or nothing if one of  *)
(* them is not there                                                       *)
Selected ==
  LET s == IF sel.on THEN Between(Min(Ends), Max(Ends)) ELSE {}
  IN IF s # {} /\ Min(s) = Min(Ends) /\ Max(s) = Max(Ends) /\ \A n \in s : n = Min(s) \/ n - 1 \in s
     THEN s ELSE {}

(* What is selected stays what was meant while pages come, are dropped and *)
(* are jumped to: its anchor is on view, the text offered for copying has  *)
(* every line between its ends, and a selection through the end reaches    *)
(* the end that was known when it was asked for (selectThroughEnd).        *)
SelectionHolds ==
  /\ sel.on => sel.anchor \in lines
  /\ Selected # {} => \A n \in Min(Ends) .. Max(Ends) : n \in Selected
  /\ sel.on /\ sel.end # -1 => sel.focus >= sel.end

(* useTerminalHistory.ts:89: the lines loaded, "by n ascending, no hole in *)
(* between".                                                               *)
LinesHaveNoHole == \A n \in lines : n = Min(lines) \/ n - 1 \in lines
=============================================================================
