--------------------------- MODULE TouchSelection ---------------------------
(***************************************************************************)
(* Selecting text on a phone: a ball under the finger steers a cursor, its *)
(* taps and presses place two anchors (VirtualTouchball.vue,               *)
(* useAnchorStateMachine.ts), the anchors set xterm's selection, and a     *)
(* copy ends it (CliTerminalSurface.vue).  Output scrolls meanwhile.       *)
(*                                                                         *)
(* A cell is a row and a column of the window; an anchor also keeps its    *)
(* row in the buffer.  A place in the text is a line, counted from the     *)
(* first ever written, and a column: xterm's selection stays on its text   *)
(* when the oldest line goes.  The ball's cursor may be over any cell by   *)
(* the time it means something: where it is on the glass and how it is     *)
(* kept in view is left out, and so is the alternate screen.               *)
(***************************************************************************)
EXTENDS Naturals, FiniteSets

CONSTANTS
  Rows,          \* rows of the window, at least 2
  Cols,          \* columns, numbered from 0
  MaxLines,      \* lines the buffer holds
  MaxTrimmed,    \* bound: lines that went
  NoAnchor

VARIABLES
  buffer,        \* xterm: lines held, lines gone, first row of the window
  believedY,     \* viewportY, as of the last frame
  state, anchors, lastPlaced, \* useAnchorStateMachine
  placed,        \* where each anchor was placed in the text, and lines gone by then
  selected,      \* xterm's selection: first and last place, or empty
  gesture,       \* VirtualTouchball: fingers, moved, timers, taps
  mounted,       \* the overlay is there: on a phone
  copying        \* onSelectionCopy waits for the clipboard

touchVars == <<buffer, believedY, state, anchors, lastPlaced, placed, selected,
               gesture, mounted, copying>>
anchorVars == <<state, anchors, lastPlaced, placed>>

Cells == [row : 0 .. Rows - 1, col : 0 .. Cols - 1]
Still == [fingers |-> 0, moved |-> FALSE, long |-> FALSE, orphan |-> FALSE,
          held |-> FALSE, taps |-> 0]

TouchInit ==
  /\ buffer = [len |-> Rows, gone |-> 0, y |-> 0] /\ believedY = 0
  /\ state = "IDLE" /\ anchors = [i \in {1, 2} |-> NoAnchor] /\ lastPlaced = 1
  /\ placed = [i \in {1, 2} |-> NoAnchor] /\ selected = {}
  /\ gesture = Still /\ mounted = TRUE /\ copying = FALSE

----------------------------------------------------------------------------
(* The text                                                                *)

Before(p, q) == p.line < q.line \/ (p.line = q.line /\ p.col <= q.col)
(* What xterm selects from one place to the other, as its ends.            *)
Span(p, q) == IF Before(p, q) THEN {<<p, q>>} ELSE {<<q, p>>}
TextAt(row, col) == [line |-> buffer.gone + row, col |-> col]

(* A line of output; the oldest goes when the buffer is full.  The window  *)
(* follows unless it was scrolled back.                                    *)
Output ==
  LET full == buffer.len = MaxLines
      follows == buffer.y = buffer.len - Rows
      len == IF full THEN buffer.len ELSE buffer.len + 1
      gone == IF full THEN buffer.gone + 1 ELSE buffer.gone
  IN /\ full => buffer.gone < MaxTrimmed
     /\ buffer' = [len |-> len, gone |-> gone,
                   y |-> IF follows THEN len - Rows
                         ELSE IF full /\ buffer.y > 0 THEN buffer.y - 1 ELSE buffer.y]
     /\ selected' = {s \in selected : s[2].line >= gone}
     /\ UNCHANGED <<believedY, state, anchors, lastPlaced, placed, gesture, mounted, copying>>
ScrollTo(y) == buffer' = [buffer EXCEPT !.y = y]
Scroll(y) ==
  /\ y \in 0 .. (buffer.len - Rows) /\ y # buffer.y /\ ScrollTo(y)
  /\ UNCHANGED <<believedY, state, anchors, lastPlaced, placed, selected, gesture, mounted, copying>>
Rendered ==
  /\ believedY # buffer.y /\ believedY' = buffer.y
  /\ UNCHANGED <<buffer, state, anchors, lastPlaced, placed, selected, gesture, mounted, copying>>
(* xterm drops the selection when keys are sent or the grid changes.       *)
Unselected ==
  /\ selected # {} /\ selected' = {}
  /\ UNCHANGED <<buffer, believedY, state, anchors, lastPlaced, placed, gesture, mounted, copying>>

----------------------------------------------------------------------------
(* useAnchorStateMachine, over the anchors and where they were placed      *)

Here(row, col) == [at |-> TextAt(row, col), gone |-> buffer.gone]
None == [i \in {1, 2} |-> NoAnchor]
Anchored(a, p, last, st) == anchors' = a /\ placed' = p /\ lastPlaced' = last /\ state' = st
Cancel == Anchored(None, None, lastPlaced, "IDLE")
(* enterSelection, then placeAnchor1                                       *)
FreshAnchor(a, p) == Anchored([None EXCEPT ![1] = a], [None EXCEPT ![1] = p], 1, "HAS_ANCHOR_1")
PlaceAnchor1(a, p) ==
  Anchored([anchors EXCEPT ![1] = a], [placed EXCEPT ![1] = p], 1,
           IF anchors[2] # NoAnchor THEN "HAS_BOTH" ELSE "HAS_ANCHOR_1")
PlaceAnchor2(a, p) ==
  IF state \in {"IDLE", "NO_ANCHOR"} THEN UNCHANGED anchorVars
  ELSE Anchored([anchors EXCEPT ![2] = a], [placed EXCEPT ![2] = p], 2, "HAS_BOTH")
MoveNearestAnchor(a, p) ==
  LET i == IF state = "HAS_ANCHOR_1" THEN 1 ELSE lastPlaced
  IN Anchored([anchors EXCEPT ![i] = a], [placed EXCEPT ![i] = p], lastPlaced, state)
(* selectAll, and enterSelection followed by both anchors                  *)
BothAnchors(a, b, p, q) == Anchored(<<a, b>>, <<p, q>>, 2, "HAS_BOTH")

(* applyXtermSelection: rows of the buffer, as xterm has them now          *)
ApplySelection ==
  selected' = IF NoAnchor \in {anchors'[1], anchors'[2]} THEN selected
              ELSE Span(TextAt(anchors'[1].row, anchors'[1].col), TextAt(anchors'[2].row, anchors'[2].col))

(* The row of the buffer under a cell of the window: xterm's own, not      *)
(* viewportY, which may be a frame behind.                                 *)
(* mutant: the row of the last frame                                       *)
BufferRowBelieved(cell) == believedY + cell.row
BufferRow(cell) == buffer.y + cell.row
AnchorAt(cell) == [row |-> BufferRow(cell), col |-> cell.col]
Aimed(cell) == Here(buffer.y + cell.row, cell.col)

----------------------------------------------------------------------------
(* What a gesture of the ball means                                        *)

NothingPlaced == UNCHANGED <<state, anchors, lastPlaced, placed, selected>>
(* onTouchballTap: in IDLE it opens a file link, or does nothing           *)
Tapped(cell) ==
  LET a == AnchorAt(cell) p == Aimed(cell)
  IN \/ state = "IDLE" /\ NothingPlaced
     \/ state = "NO_ANCHOR" /\ PlaceAnchor1(a, p) /\ ApplySelection
     \/ state = "HAS_ANCHOR_1" /\ PlaceAnchor2(a, p) /\ ApplySelection
     \/ state = "HAS_BOTH" /\ MoveNearestAnchor(a, p) /\ ApplySelection
(* onTouchballDoubleTap: the word or the file name under the cursor        *)
DoubleTapped(cell) ==
  \E from, to \in 0 .. Cols - 1 :
    LET row == buffer.y + cell.row
    IN /\ from <= cell.col /\ cell.col <= to
       /\ BothAnchors([row |-> row, col |-> from], [row |-> row, col |-> to], Here(row, from), Here(row, to))
       /\ selected' = Span(TextAt(row, from), TextAt(row, to))
(* onTouchballTripleTap: the window                                        *)
TripleTapped ==
  LET top == buffer.y bottom == buffer.y + Rows - 1
  IN /\ BothAnchors([row |-> top, col |-> 0], [row |-> bottom, col |-> Cols - 1],
                    Here(top, 0), Here(bottom, Cols - 1))
     /\ selected' = Span(TextAt(top, 0), TextAt(bottom, Cols - 1))
(* onTouchballLongPress: copies and ends a selection, or begins one        *)
LongPressed(cell) ==
  \/ state = "HAS_BOTH" /\ Cancel /\ UNCHANGED selected
  \/ state # "HAS_BOTH" /\ FreshAnchor(AnchorAt(cell), Aimed(cell)) /\ ApplySelection

----------------------------------------------------------------------------
(* VirtualTouchball: what the fingers do                                   *)

(* onTouchStart: a second finger leaves the first one's timer running      *)
TouchStart ==
  /\ mounted /\ gesture.fingers < 2
  /\ gesture' = [gesture EXCEPT !.fingers = @ + 1, !.moved = FALSE, !.held = FALSE, !.long = TRUE,
                                !.orphan = @ \/ gesture.long]
  /\ UNCHANGED <<buffer, believedY, state, anchors, lastPlaced, placed, selected, mounted, copying>>
(* onTouchMove: the ball is where it was taken to when it next means       *)
(* something                                                               *)
TouchMove ==
  /\ mounted /\ gesture.fingers > 0 /\ ~gesture.moved
  /\ gesture' = [gesture EXCEPT !.moved = TRUE, !.long = FALSE]
  /\ UNCHANGED <<buffer, believedY, state, anchors, lastPlaced, placed, selected, mounted, copying>>
(* onTouchEnd: a tap unless the finger moved or stayed for 500 ms          *)
TouchEnd(quick) ==
  /\ gesture.fingers > 0 /\ (quick => ~gesture.held)
  /\ gesture' = IF ~gesture.moved /\ quick
                THEN [gesture EXCEPT !.fingers = @ - 1, !.long = FALSE, !.taps = IF @ < 3 THEN @ + 1 ELSE @]
                ELSE [gesture EXCEPT !.fingers = @ - 1, !.long = FALSE]
  /\ UNCHANGED <<buffer, believedY, state, anchors, lastPlaced, placed, selected, mounted, copying>>
LongTimer(cell) ==
  /\ gesture.long \/ gesture.orphan
  /\ \/ gesture.long /\ gesture' = [gesture EXCEPT !.long = FALSE, !.held = TRUE]
     \/ gesture.orphan /\ gesture' = [gesture EXCEPT !.orphan = FALSE]
  /\ IF gesture.moved THEN NothingPlaced ELSE LongPressed(cell)
  /\ UNCHANGED <<buffer, believedY, mounted, copying>>
MultiTimer(cell) ==
  /\ gesture.taps > 0 /\ gesture' = [gesture EXCEPT !.taps = 0]
  /\ \/ gesture.taps = 1 /\ Tapped(cell)
     \/ gesture.taps = 2 /\ DoubleTapped(cell)
     \/ gesture.taps = 3 /\ TripleTapped
  /\ UNCHANGED <<buffer, believedY, mounted, copying>>
(* cancelGesture, when the page is a phone's no more; a timer that no      *)
(* handle reaches any more finds the gesture moved                         *)
Cancelled == [gesture EXCEPT !.fingers = 0, !.long = FALSE, !.taps = 0, !.moved = TRUE]
Unmounts ==
  /\ mounted /\ mounted' = FALSE /\ gesture' = Cancelled
  /\ UNCHANGED <<buffer, believedY, state, anchors, lastPlaced, placed, selected, copying>>
Mounts ==
  /\ ~mounted /\ mounted' = TRUE /\ gesture' = Still
  /\ UNCHANGED <<buffer, believedY, state, anchors, lastPlaced, placed, selected, copying>>

----------------------------------------------------------------------------
(* The anchors' own handles, and the copy                                  *)

(* onAnchorDrag: the anchor is placed where the finger is; at the edge of  *)
(* the window it scrolls, but not more often than every 120 ms.            *)
AnchorDrag(i, cell) ==
  /\ mounted /\ anchors[i] # NoAnchor
  /\ \/ UNCHANGED buffer
     \/ cell.row = 0 /\ buffer.y > 0 /\ ScrollTo(buffer.y - 1)
     \/ cell.row = Rows - 1 /\ buffer.y < buffer.len - Rows /\ ScrollTo(buffer.y + 1)
  /\ IF i = 1 THEN PlaceAnchor1(AnchorAt(cell), Aimed(cell)) ELSE PlaceAnchor2(AnchorAt(cell), Aimed(cell))
  /\ ApplySelection
  /\ UNCHANGED <<believedY, gesture, mounted, copying>>
(* onSelectionCopy                                                         *)
Copy ==
  /\ mounted /\ state = "HAS_BOTH" /\ ~copying
  /\ \/ selected = {} /\ Cancel /\ UNCHANGED <<selected, copying>>
     \/ selected # {} /\ copying' = TRUE /\ NothingPlaced
  /\ UNCHANGED <<buffer, believedY, gesture, mounted>>
CopyEnds(ok) == IF ok THEN selected' = {} /\ Cancel ELSE NothingPlaced
Copied(ok) ==
  /\ copying /\ copying' = FALSE /\ CopyEnds(ok)
  /\ UNCHANGED <<buffer, believedY, gesture, mounted>>

TouchNext ==
  \/ Output \/ (\E y \in 0 .. MaxLines : Scroll(y)) \/ Rendered \/ Unselected
  \/ TouchStart \/ TouchMove \/ Unmounts \/ Mounts
  \/ (\E cell \in Cells : LongTimer(cell) \/ MultiTimer(cell))
  \/ (\E quick \in BOOLEAN : TouchEnd(quick))
  \/ (\E i \in {1, 2}, cell \in Cells : AnchorDrag(i, cell))
  \/ Copy \/ (\E ok \in BOOLEAN : Copied(ok))
TouchSpec == TouchInit /\ [][TouchNext]_touchVars

----------------------------------------------------------------------------
(* What a copy takes, when no line has gone since the anchors were placed, *)
(* is the text between the places where the fingers put them, whatever     *)
(* scrolled in between (CliTerminalSurface.vue onAnchorDrag, liveViewportY)*)
CopyTakesWhatWasPlaced ==
  [][(~copying /\ copying' /\ \A i \in {1, 2} : placed[i].gone = buffer.gone)
       => selected = Span(placed[1].at, placed[2].at)]_touchVars

(* A gesture ends with the overlay: without it only a copy that was under  *)
(* way touches the anchors (VirtualTouchball.vue cancelGesture).           *)
GesturesEndWithOverlay ==
  [][(~mounted /\ ~copying) => UNCHANGED anchorVars]_touchVars
=============================================================================
