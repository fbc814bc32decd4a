---------------------------- MODULE PanelsProofs -----------------------------
(***************************************************************************)
(* Proofs about parts of a terminal tab's panels: for any window and any   *)
(* number of lines of its buffer, any documents, diagrams and pages of a   *)
(* reader, any compose boxes, entries and machines of the settings, and    *)
(* any surfaces with any panes and drawers.                                *)
(***************************************************************************)
EXTENDS MCPanels, FiniteSetTheorems, SequenceTheorems, WellFoundedInduction, TLAPS

-----------------------------------------------------------------------------
(***************************************************************************)
(* The place of a reader and its search.                                   *)
(*                                                                         *)
(* What the owner knew is where the reader is once it has been put there,  *)
(* and where it will be put until then; and whoever is led by a line knows *)
(* of no other place.  The matches are of what is searched for, or were    *)
(* taken away with the text and are looked for at the next tick.           *)
(***************************************************************************)
Led == reader.anchor # 0
Place == [shown : BOOLEAN, was : BOOLEAN, settled : {0, 1}, pos : Nat, stored : Nat,
          initial : Nat, line : 0 .. Lines, anchor : 0 .. Lines, restore : BOOLEAN,
          tick : BOOLEAN, event : BOOLEAN, left : Nat]
PlaceKnown ==
  /\ reader \in Place
  /\ Led => reader.left = RD!Nowhere /\ ~reader.restore
  /\ ~reader.tick => reader.was = reader.shown
  /\ reader.shown /\ reader.was =>
       ~reader.restore /\ (reader.left # RD!Nowhere => reader.pos = reader.left)
  /\ ~(reader.shown /\ reader.was) =>
       reader.left \in {RD!Nowhere, IF reader.restore THEN reader.initial ELSE reader.stored}
  /\ (reader.shown /\ ~reader.tick /\ Led) => reader.pos = RD!LineTop(reader, reader.anchor)
Sought == {"", "a"}
Search == [open : BOOLEAN, query : Sought, timer : BOOLEAN, tick : BOOLEAN,
           marks : Sought, count : Sought, version : Nat, plain : BOOLEAN, inCode : BOOLEAN,
           wiped : BOOLEAN]
Current(f) ==
  ~f.timer => /\ f.count = f.query
              /\ f.marks = f.query \/ ((f.tick \/ f.wiped) /\ f.marks = "")
FrameAsked ==
  /\ frame \in [doc : Nat, rendered : BOOLEAN, askedFor : Nat]
  /\ frame.rendered => frame.askedFor = frame.doc
FindFollows == find \in Search /\ Current(find) /\ FrameAsked
PlaceInv == PlaceKnown /\ FindFollows

(* What scrolling leaves, and where it ends.                               *)
LEMMA Scrolled ==
  ASSUME NEW r \in Place, NEW p \in Nat
  PROVE  /\ RD!ScrolledTo(r, p) \in Place
         /\ RD!ScrolledTo(r, p).pos = RD!Min2(p, RD!Bottom(r))
         /\ RD!ScrolledTo(r, p).left = r.left \/ RD!ScrolledTo(r, p).left = RD!Nowhere
         /\ RD!ScrolledTo(r, p).left # RD!Nowhere => RD!ScrolledTo(r, p).pos = p
         /\ \A q \in {RD!ScrolledTo(r, p)} :
              /\ q.shown = r.shown /\ q.was = r.was /\ q.settled = r.settled
              /\ q.stored = r.stored /\ q.initial = r.initial /\ q.line = r.line
              /\ q.anchor = r.anchor /\ q.restore = r.restore /\ q.tick = r.tick
<1> DEFINE q == RD!Min2(p, RD!Bottom(r))
           e == r.event \/ q # r.pos
           l == IF q # p THEN RD!Nowhere ELSE r.left
<1>1. q \in Nat /\ e \in BOOLEAN /\ l \in Nat
  BY PanelsAssumption DEF Place, RD!Min2, RD!Bottom, RD!Nowhere
<1>2. RD!ScrolledTo(r, p) = [r EXCEPT !.pos = q, !.event = e, !.left = l]
  BY DEF RD!ScrolledTo
<1>3. (l = r.left \/ l = RD!Nowhere) /\ (l # RD!Nowhere => q = p)
  OBVIOUS
<1> HIDE DEF q, e, l
<1>4. /\ RD!ScrolledTo(r, p) \in Place
      /\ RD!ScrolledTo(r, p).pos = q /\ RD!ScrolledTo(r, p).left = l
      /\ \A x \in {RD!ScrolledTo(r, p)} :
              /\ x.shown = r.shown /\ x.was = r.was /\ x.settled = r.settled
              /\ x.stored = r.stored /\ x.initial = r.initial /\ x.line = r.line
              /\ x.anchor = r.anchor /\ x.restore = r.restore /\ x.tick = r.tick
  BY <1>1, <1>2 DEF Place
<1> QED BY <1>3, <1>4 DEF q

(* Every line is on the page.                                              *)
LEMMA LinesOnPage ==
  ASSUME NEW r \in Place, NEW l \in 0 .. Lines
  PROVE  /\ RD!LineTop(r, l) \in Nat
         /\ RD!Min2(RD!LineTop(r, l), RD!Bottom(r)) = RD!LineTop(r, l)
  BY PanelsAssumption DEF Place, RD!Min2, RD!Bottom, RD!LineTop

(* At a tick the reader goes where it is led, or to what is known.         *)
LEMMA IntentKeeps ==
  ASSUME PlaceKnown, RD!ApplyReadingIntent
  PROVE  PlaceKnown'
<1> DEFINE r == [reader EXCEPT !.tick = FALSE, !.was = reader.shown]
<1>1. /\ r \in Place /\ ~r.tick /\ r.was = reader.shown /\ r.shown = reader.shown
      /\ r.pos = reader.pos /\ r.stored = reader.stored /\ r.initial = reader.initial
      /\ r.anchor = reader.anchor /\ r.restore = reader.restore /\ r.left = reader.left
      /\ r.settled = reader.settled
  BY DEF PlaceKnown, Place
<1>2. reader' = IF ~r.shown THEN r
                ELSE IF r.anchor # 0 THEN RD!ScrolledTo(r, RD!LineTop(r, r.anchor))
                ELSE IF r.restore
                     THEN RD!ScrolledTo([r EXCEPT !.restore = FALSE], r.initial)
                ELSE IF ~reader.was /\ r.stored # RD!Nowhere THEN RD!ScrolledTo(r, r.stored)
                ELSE r
  BY DEF RD!ApplyReadingIntent
<1> HIDE DEF r
<1>3. CASE ~r.shown
  BY <1>1, <1>2, <1>3 DEF PlaceKnown, Led
<1>4. CASE r.shown /\ r.anchor # 0
  <2>1. reader' = RD!ScrolledTo(r, RD!LineTop(r, r.anchor))
    BY <1>2, <1>4
  <2>2. r.anchor \in 0 .. Lines
    BY <1>1 DEF Place
  <2>3. RD!LineTop(r, r.anchor) \in Nat
        /\ RD!Min2(RD!LineTop(r, r.anchor), RD!Bottom(r)) = RD!LineTop(r, r.anchor)
    BY <1>1, <2>2, LinesOnPage
  <2>4. /\ reader' \in Place /\ reader'.pos = RD!LineTop(r, r.anchor)
        /\ reader'.left \in {r.left, RD!Nowhere}
        /\ reader'.anchor = r.anchor /\ reader'.restore = r.restore
        /\ reader'.tick = r.tick /\ reader'.was = r.was /\ reader'.shown = r.shown
        /\ reader'.settled = r.settled
    BY <1>1, <2>1, <2>3, Scrolled
  <2>5. r.left = RD!Nowhere /\ ~r.restore
    BY <1>1, <1>4 DEF PlaceKnown, Led
  <2>6. RD!LineTop(reader', reader'.anchor) = RD!LineTop(r, r.anchor)
    BY <2>4 DEF RD!LineTop, RD!Bottom
  <2> QED BY <1>1, <1>4, <2>4, <2>5, <2>6 DEF PlaceKnown, Led, RD!LineTop, RD!Bottom
<1>5. CASE r.shown /\ r.anchor = 0 /\ r.restore
  <2> DEFINE t == [r EXCEPT !.restore = FALSE]
  <2>1. reader' = RD!ScrolledTo(t, r.initial)
    BY <1>2, <1>5
  <2>2. /\ t \in Place /\ ~t.restore /\ t.left = r.left /\ t.anchor = 0 /\ t.tick = r.tick
        /\ t.was = r.was /\ t.shown = r.shown /\ r.initial \in Nat
    BY <1>1, <1>5 DEF Place
  <2> HIDE DEF t
  <2>3. /\ reader' \in Place /\ reader'.left \in {r.left, RD!Nowhere}
        /\ reader'.left # RD!Nowhere => reader'.pos = r.initial
        /\ reader'.anchor = 0 /\ ~reader'.restore
        /\ reader'.tick = r.tick /\ reader'.was = r.was /\ reader'.shown = r.shown
    BY <2>1, <2>2, Scrolled
  <2>4. r.left \in {RD!Nowhere, r.initial}
    BY <1>1, <1>5 DEF PlaceKnown
  <2> QED BY <1>1, <1>5, <2>3, <2>4 DEF PlaceKnown, Led
<1>6. CASE r.shown /\ r.anchor = 0 /\ ~r.restore /\ ~reader.was /\ r.stored # RD!Nowhere
  <2>1. reader' = RD!ScrolledTo(r, r.stored) /\ r.stored \in Nat
    BY <1>1, <1>2, <1>6 DEF Place
  <2>2. /\ reader' \in Place /\ reader'.left \in {r.left, RD!Nowhere}
        /\ reader'.left # RD!Nowhere => reader'.pos = r.stored
        /\ reader'.anchor = 0 /\ ~reader'.restore
        /\ reader'.tick = r.tick /\ reader'.was = r.was /\ reader'.shown = r.shown
    BY <1>1, <1>6, <2>1, Scrolled
  <2>3. r.left \in {RD!Nowhere, r.stored}
    BY <1>1, <1>6 DEF PlaceKnown
  <2> QED BY <1>1, <1>6, <2>2, <2>3 DEF PlaceKnown, Led
<1>7. CASE /\ r.shown /\ r.anchor = 0 /\ ~r.restore
           /\ reader.was \/ r.stored = RD!Nowhere
  <2>1. reader' = r
    BY <1>2, <1>7
  <2>2. r.left # RD!Nowhere => r.pos = r.left
    BY <1>1, <1>7 DEF PlaceKnown
  <2> QED BY <1>1, <1>7, <2>1, <2>2 DEF PlaceKnown, Led
<1> QED BY <1>3, <1>4, <1>5, <1>6, <1>7

(* The search moves the reader, and nobody leads it or knows of a place.   *)
LEMMA FindsKeeps ==
  ASSUME PlaceKnown, NEW f \in Search, RD!Finds(f)
  PROVE  /\ PlaceKnown' /\ find' = RD!RunFind(f) /\ UNCHANGED frame
<1> DEFINE B == RD!Bottom(reader)
           n == RD!Nowhere
<1>1. reader \in Place
  BY DEF PlaceKnown
<1>2. reader.pos \in Nat /\ reader.event \in BOOLEAN /\ reader.settled \in Nat
  BY <1>1 DEF Place
<1>3. B \in Nat /\ n \in Nat /\ 0 \in 0 .. Lines
  BY <1>2, PanelsAssumption DEF RD!Bottom, RD!Nowhere
<1> HIDE DEF B
<1>4. PICK p : /\ p \in 0 .. B \/ p = reader.pos
               /\ reader' = [reader EXCEPT !.anchor = 0, !.left = n, !.pos = p,
                                        !.event = @ \/ p # reader.pos]
  <2> DEFINE c == reader.shown /\ f.query # ""
  <2>1. \E p \in IF c THEN 0 .. B ELSE {reader.pos} :
           reader' = [reader EXCEPT !.anchor = 0, !.left = n, !.pos = p,
                                    !.event = @ \/ p # reader.pos]
    BY DEF RD!Finds, B
  <2> HIDE DEF c
  <2> QED BY <2>1, Zenon
<1>5. p \in Nat
  BY <1>2, <1>3, <1>4
<1> DEFINE e == reader.event \/ p # reader.pos
<1>6. e \in BOOLEAN
  BY <1>2
<1>7. reader' = [reader EXCEPT !.anchor = 0, !.left = n, !.pos = p, !.event = e]
  BY <1>4
<1>8. /\ ~(reader.shown /\ reader.was /\ reader.restore)
      /\ ~reader.tick => reader.was = reader.shown
      /\ n = RD!Nowhere
  BY DEF PlaceKnown
<1> HIDE DEF e, n
<1>9. reader' \in Place
  BY <1>1, <1>3, <1>5, <1>6, <1>7 DEF Place
<1>10. /\ reader'.anchor = 0 /\ reader'.left = n
       /\ reader'.shown = reader.shown /\ reader'.was = reader.was /\ reader'.tick = reader.tick
       /\ reader'.restore = reader.restore
  BY <1>1, <1>7 DEF Place
<1>11. PlaceKnown'
  BY <1>8, <1>9, <1>10 DEF PlaceKnown, Led
<1> QED BY <1>11 DEF RD!Finds

(* The events that only move or hide the reader.                           *)
LEMMA PlaceStepKeeps ==
  ASSUME PlaceKnown, ~reader.tick,
         \/ RD!ScrollEvent \/ RD!ReaderShows \/ RD!ReaderHides \/ RD!BrowserForgets \/ RD!Settles
         \/ \E p \in 0 .. RD!Bottom(reader) : RD!ReaderGoes(p)
  PROVE  PlaceKnown'
<1> USE DEF PlaceKnown, Place, Led
<1>1. CASE RD!ScrollEvent
  BY <1>1 DEF RD!ScrollEvent, RD!LineTop, RD!Bottom
<1>2. CASE RD!ReaderShows
  BY <1>2 DEF RD!ReaderShows
<1>3. CASE RD!ReaderHides
  <2> DEFINE x == IF reader.restore THEN reader.left
                  ELSE IF reader.anchor = 0 /\ ~reader.event THEN reader.stored ELSE RD!Nowhere
  <2>1. reader' = [reader EXCEPT !.shown = FALSE, !.tick = TRUE, !.left = x]
    BY <1>3 DEF RD!ReaderHides
  <2>2. x \in Nat
    <3>1. RD!Nowhere \in Nat
      BY DEF RD!Nowhere
    <3> QED BY <3>1
  <2>3. /\ reader.restore => x = reader.left
        /\ ~reader.restore => x \in {RD!Nowhere, reader.stored}
        /\ ~reader.restore /\ Led => x = RD!Nowhere
    OBVIOUS
  <2> HIDE DEF x
  <2>4. /\ reader' \in Place /\ ~reader'.shown /\ reader'.tick /\ reader'.left = x
        /\ reader'.restore = reader.restore /\ reader'.anchor = reader.anchor
        /\ reader'.stored = reader.stored /\ reader'.initial = reader.initial
    BY <2>1, <2>2
  <2>5. reader.restore => reader.left \in {RD!Nowhere, reader.initial}
    BY <1>3
  <2>6. PlaceKnown!2' /\ PlaceKnown!3'
    BY <2>3, <2>4
  <2> QED BY <2>3, <2>4, <2>5, <2>6
<1>4. CASE RD!BrowserForgets
  BY <1>4 DEF RD!BrowserForgets
<1>5. CASE RD!Settles
  BY <1>5 DEF RD!Settles
<1>6. ASSUME NEW p \in 0 .. RD!Bottom(reader), RD!ReaderGoes(p) PROVE PlaceKnown'
  <2>1. p \in Nat
    BY PanelsAssumption DEF RD!Bottom
  <2> DEFINE t == RD!ScrolledTo(reader, p)
  <2>2. /\ t \in Place /\ t.shown = reader.shown /\ t.was = reader.was
        /\ t.restore = reader.restore /\ t.tick = reader.tick
    BY <2>1, Scrolled
  <2>3. reader' = [t EXCEPT !.anchor = 0, !.left = RD!Nowhere] /\ reader.shown
    BY <1>6 DEF RD!ReaderGoes
  <2> HIDE DEF t
  <2> DEFINE n == RD!Nowhere
  <2>4. n \in Nat /\ n = RD!Nowhere /\ 0 \in 0 .. Lines
    BY PanelsAssumption DEF RD!Nowhere
  <2>5. reader' = [t EXCEPT !.anchor = 0, !.left = n]
    BY <2>3
  <2> HIDE DEF n
  <2>6. reader' \in Place
    BY <2>2, <2>4, <2>5
  <2>7. /\ reader'.anchor = 0 /\ reader'.left = n
        /\ reader'.shown = reader.shown /\ reader'.was = reader.was
        /\ reader'.restore = reader.restore /\ reader'.tick = reader.tick
    BY <2>2, <2>5
  <2> QED BY <2>3, <2>4, <2>6, <2>7
<1> QED BY <1>1, <1>2, <1>3, <1>4, <1>5, <1>6

(* A link, or the other view of the text, leads the reader to a line.      *)
LEMMA LedKeeps ==
  ASSUME PlaceKnown, ~reader.tick,
         RD!ToggleMarkdownSource \/ \E l \in 1 .. Lines : RD!Jump(l)
  PROVE  PlaceKnown'
<1> USE DEF Place, Led
<1> DEFINE n == RD!Nowhere
<1>1. n \in Nat /\ n = RD!Nowhere
  BY DEF RD!Nowhere
<1> HIDE DEF n
<1>2. reader \in Place
  BY DEF PlaceKnown
<1>3. CASE RD!ToggleMarkdownSource
  <2> DEFINE x == IF reader.line # 0 THEN n ELSE reader.left
             l == reader.line
  <2>1. reader.shown /\ reader' = [reader EXCEPT !.anchor = l, !.tick = TRUE, !.left = x]
    BY <1>1, <1>3 DEF RD!ToggleMarkdownSource
  <2>2. x \in Nat /\ l \in 0 .. Lines
    BY <1>1, <1>2
  <2>3. reader.was /\ ~reader.restore
    BY <2>1 DEF PlaceKnown
  <2>4. (l # 0 => x = n) /\ (x = n \/ x = reader.left)
    OBVIOUS
  <2>5. reader.left # RD!Nowhere => reader.pos = reader.left
    BY <2>1, <2>3 DEF PlaceKnown
  <2> HIDE DEF x, l
  <2>6. reader' \in Place
    BY <1>2, <2>1, <2>2
  <2>7. /\ reader'.anchor = l /\ reader'.tick /\ reader'.left = x /\ reader'.pos = reader.pos
        /\ reader'.shown = reader.shown /\ reader'.was = reader.was
        /\ reader'.restore = reader.restore
    BY <1>2, <2>1
  <2> QED BY <1>1, <2>1, <2>3, <2>4, <2>5, <2>6, <2>7 DEF PlaceKnown
<1>4. ASSUME NEW l \in 1 .. Lines, RD!Jump(l) PROVE PlaceKnown'
  <2>1. reader' = [reader EXCEPT !.line = l, !.anchor = l, !.restore = FALSE, !.tick = TRUE,
                                 !.left = n]
    BY <1>1, <1>4 DEF RD!Jump
  <2>2. l \in 0 .. Lines
    BY PanelsAssumption
  <2>3. reader' \in Place
    BY <1>1, <1>2, <2>1, <2>2
  <2>4. /\ reader'.tick /\ ~reader'.restore /\ reader'.left = n
    BY <1>2, <2>1
  <2> QED BY <1>1, <2>3, <2>4 DEF PlaceKnown
<1> QED BY <1>3, <1>4

(* What is marked and counted is what is searched for, once it was looked  *)
(* for or the text was made anew.                                          *)
LEMMA Marked ==
  ASSUME NEW f \in Search
  PROVE  /\ RD!RunFind(f) \in Search /\ Current(RD!RunFind(f))
         /\ Current(f) => RD!Viewed(f) \in Search /\ Current(RD!Viewed(f))
         /\ \A l \in 1 .. Lines : Current(f) => RD!Renamed(f, l) \in Search /\ Current(RD!Renamed(f, l))
  <1> DEFINE c == ~f.plain /\ f.query # ""
             p == ~f.plain
  <1>1. c \in BOOLEAN /\ p \in BOOLEAN /\ f.query \in Sought /\ "" \in Sought
    BY DEF Search, Sought
  <1>2. /\ RD!RunFind(f) = [f EXCEPT !.marks = f.query, !.count = f.query, !.inCode = c,
                              !.wiped = FALSE]
        /\ RD!Viewed(f) = [f EXCEPT !.tick = TRUE, !.marks = "", !.plain = p, !.inCode = FALSE]
    BY DEF RD!RunFind, RD!Viewed
  <1>5. \A l \in 1 .. Lines : RD!Renamed(f, l) \in {f, [f EXCEPT !.marks = "", !.wiped = TRUE]}
    BY DEF RD!Renamed
  <1> HIDE DEF c, p, Sought
  <1>3. RD!RunFind(f) \in Search /\ Current(RD!RunFind(f))
    BY <1>1, <1>2 DEF Search, Current
  <1>4. ASSUME Current(f) PROVE RD!Viewed(f) \in Search /\ Current(RD!Viewed(f))
    BY <1>1, <1>2, <1>4 DEF Search, Current
  <1>6. ASSUME Current(f)
        PROVE  /\ [f EXCEPT !.marks = "", !.wiped = TRUE] \in Search
               /\ Current([f EXCEPT !.marks = "", !.wiped = TRUE])
    BY <1>1, <1>6 DEF Search, Current
  <1> QED BY <1>3, <1>4, <1>5, <1>6

(* The search follows what happens to it, and a page what happens to its   *)
(* document.                                                               *)
LEMMA FindFollowsKept ==
  ASSUME FindFollows, RD!PlaceNext
  PROVE  FindFollows'
<1>1. find \in Search /\ Current(find) /\ FrameAsked
  BY DEF FindFollows
<1>2. ASSUME UNCHANGED <<find, frame>> PROVE FindFollows'
  BY <1>1, <1>2 DEF FindFollows, Current, FrameAsked
<1>3. ASSUME NEW f \in Search, RD!Finds(f) PROVE FindFollows'
  <2>1. find' = RD!RunFind(f) /\ frame' = frame
    BY <1>3 DEF RD!Finds
  <2>2. find' \in Search /\ Current(find')
    BY <2>1, Marked
  <2> QED BY <1>1, <2>1, <2>2 DEF FindFollows, FrameAsked, Current
<1>4. ASSUME NEW f \in Search, Current(f), RD!FindStep(f) PROVE FindFollows'
  BY <1>1, <1>4 DEF FindFollows, FrameAsked, Current, RD!FindStep
<1>5. CASE RD!FindTick
  <2> DEFINE f == [find EXCEPT !.tick = FALSE]
  <2>1. /\ f \in Search /\ f.query = find.query /\ f.timer = find.timer
        /\ f.count = find.count /\ f.marks = find.marks
    BY <1>1 DEF Search
  <2>2. IF f.query # "" THEN RD!Finds(f) ELSE RD!FindStep(f)
    BY <1>5 DEF RD!FindTick
  <2>3. f.query = "" => Current(f)
    BY <1>1, <2>1 DEF Current
  <2> HIDE DEF f
  <2> QED BY <1>3, <1>4, <2>1, <2>2, <2>3
<1>6. CASE RD!ToggleMarkdownSource
  BY <1>1, <1>6, Marked DEF RD!ToggleMarkdownSource, FindFollows, FrameAsked, Current
<1>7. ASSUME NEW l \in 1 .. Lines, RD!Jump(l) PROVE FindFollows'
  <2>1. find' \in Search /\ Current(find')
    <3>1. find' = RD!Renamed(find, l) \/ find' = RD!Viewed(find)
      BY <1>7 DEF RD!Jump
    <3> QED BY <1>1, <3>1, Marked
  <2>2. FrameAsked'
    BY <1>1, <1>7 DEF RD!Jump, FrameAsked
  <2> QED BY <2>1, <2>2 DEF FindFollows, Current
<1>8. CASE RD!FindTimer
  <2>1. [find EXCEPT !.timer = FALSE] \in Search
    BY <1>1 DEF Search
  <2> QED BY <1>3, <1>8, <2>1 DEF RD!FindTimer
<1>9. CASE RD!ToggleFind
  <2>1. CASE find.open
    <3> DEFINE t == find.timer \/ find.query # ""
    <3>1. t \in BOOLEAN
      BY <1>1 DEF Search
    <3>0. "" \in Sought
      BY DEF Sought
    <3>2. RD!FindStep([find EXCEPT !.open = FALSE, !.query = "", !.marks = "", !.count = "",
                                   !.timer = t])
      BY <1>9, <2>1 DEF RD!ToggleFind
    <3> HIDE DEF t, Sought
    <3> DEFINE f == [find EXCEPT !.open = FALSE, !.query = "", !.marks = "", !.count = "",
                                 !.timer = t]
    <3>3. f \in Search /\ Current(f)
      BY <1>1, <3>0, <3>1 DEF Search, Current
    <3> QED BY <1>4, <3>2, <3>3
  <2>2. CASE ~find.open
    <3> DEFINE f == [find EXCEPT !.open = TRUE]
    <3>1. f \in Search /\ Current(f)
      BY <1>1 DEF Search, Current
    <3>2. RD!FindStep(f)
      BY <1>9, <2>2 DEF RD!ToggleFind
    <3> QED BY <1>4, <3>1, <3>2
  <2> QED BY <2>1, <2>2
<1>10. CASE RD!Reread
  <2> DEFINE v == find.version + 1
  <2>1. v \in Nat
    BY <1>1 DEF Search
  <2>0. "" \in Sought
    BY DEF Sought
  <2>2. RD!FindStep([find EXCEPT !.version = v, !.marks = "", !.tick = TRUE, !.inCode = FALSE])
    BY <1>10 DEF RD!Reread
  <2> HIDE DEF v, Sought
  <2> DEFINE f == [find EXCEPT !.version = v, !.marks = "", !.tick = TRUE, !.inCode = FALSE]
  <2>3. f \in Search /\ Current(f)
    BY <1>1, <2>0, <2>1 DEF Search, Current
  <2> QED BY <1>4, <2>2, <2>3
<1>11. CASE RD!CodeColoured
  <2> DEFINE f == [find EXCEPT !.inCode = FALSE]
  <2>1. f \in Search /\ Current(f)
    BY <1>1 DEF Search, Current
  <2>2. RD!FindStep(f)
    BY <1>11 DEF RD!CodeColoured
  <2> QED BY <1>4, <2>1, <2>2
<1>12. ASSUME NEW q \in Sought, RD!FindTyped(q) PROVE FindFollows'
  <2> DEFINE f == [find EXCEPT !.query = q, !.timer = TRUE]
  <2>1. f \in Search /\ Current(f)
    BY <1>1 DEF Search, Current
  <2>2. RD!FindStep(f)
    BY <1>12 DEF RD!FindTyped
  <2> QED BY <1>4, <2>1, <2>2
<1>13. CASE RD!RenderHtml
  <2> DEFINE e == ~frame.rendered
  <2>1. e \in BOOLEAN /\ frame.doc \in Nat
    BY <1>1 DEF FrameAsked
  <2>2. frame' = [frame EXCEPT !.rendered = e, !.askedFor = frame.doc] /\ find' = find
    BY <1>13 DEF RD!RenderHtml
  <2> HIDE DEF e
  <2>3. FrameAsked'
    BY <1>1, <2>1, <2>2 DEF FrameAsked
  <2> QED BY <1>1, <2>2, <2>3 DEF FindFollows, Current
<1>14. CASE RD!AnotherDocument
  <2> DEFINE e == frame.doc + 1
  <2>1. e \in Nat
    BY <1>1 DEF FrameAsked
  <2>2. frame' = [frame EXCEPT !.doc = e, !.rendered = FALSE] /\ find' = find
    BY <1>14 DEF RD!AnotherDocument
  <2> HIDE DEF e
  <2>3. FrameAsked'
    BY <1>1, <2>1, <2>2 DEF FrameAsked
  <2> QED BY <1>1, <2>2, <2>3 DEF FindFollows, Current
<1>15. CASE \/ RD!ApplyReadingIntent \/ RD!ScrollEvent \/ RD!ReaderShows \/ RD!ReaderHides
            \/ RD!BrowserForgets \/ RD!Settles
            \/ \E p \in 0 .. RD!Bottom(reader) : RD!ReaderGoes(p)
  BY <1>2, <1>15 DEF RD!ApplyReadingIntent, RD!ScrollEvent, RD!ReaderShows, RD!ReaderHides,
    RD!BrowserForgets, RD!Settles, RD!ReaderGoes
<1> QED
  BY <1>5, <1>6, <1>7, <1>8, <1>9, <1>10, <1>11, <1>12, <1>13, <1>14, <1>15
  DEF RD!PlaceNext, Sought

(* A step of the reader keeps what is known of its place.                  *)
LEMMA PlaceInvKept ==
  ASSUME PlaceInv, RD!PlaceNext
  PROVE  PlaceInv'
<1>1. PlaceKnown /\ FindFollows /\ find \in Search
  BY DEF PlaceInv, FindFollows
<1> SUFFICES PlaceKnown'
  BY <1>1, FindFollowsKept DEF PlaceInv
<1>2. ASSUME reader' = reader PROVE PlaceKnown'
  BY <1>1, <1>2 DEF PlaceKnown, Led, RD!LineTop, RD!Bottom
<1>3. CASE RD!ApplyReadingIntent
  BY <1>1, <1>3, IntentKeeps
<1>4. CASE RD!FindTick
  <2> DEFINE f == [find EXCEPT !.tick = FALSE]
  <2>1. f \in Search
    BY <1>1 DEF Search
  <2>2. RD!Finds(f) \/ RD!FindStep(f)
    BY <1>4 DEF RD!FindTick
  <2> QED BY <1>1, <1>2, <2>1, <2>2, FindsKeeps DEF RD!FindStep
<1>5. CASE RD!FindTimer
  <2> DEFINE f == [find EXCEPT !.timer = FALSE]
  <2>1. f \in Search
    BY <1>1 DEF Search
  <2>2. RD!Finds(f)
    BY <1>5 DEF RD!FindTimer
  <2> QED BY <1>1, <2>1, <2>2, FindsKeeps
<1>6. CASE /\ ~reader.tick
           /\ \/ RD!ScrollEvent \/ RD!ReaderShows \/ RD!ReaderHides \/ RD!BrowserForgets
              \/ RD!Settles
              \/ \E p \in 0 .. RD!Bottom(reader) : RD!ReaderGoes(p)
  BY <1>1, <1>6, PlaceStepKeeps
<1>7. CASE ~reader.tick /\ (RD!ToggleMarkdownSource \/ \E l \in 1 .. Lines : RD!Jump(l))
  BY <1>1, <1>7, LedKeeps
<1>8. CASE \/ RD!ToggleFind \/ RD!Reread \/ RD!CodeColoured
           \/ (\E q \in {"", "a"} : RD!FindTyped(q))
           \/ RD!RenderHtml \/ RD!AnotherDocument
  BY <1>2, <1>8 DEF RD!ToggleFind, RD!Reread, RD!CodeColoured, RD!FindTyped, RD!RenderHtml,
    RD!AnotherDocument, RD!FindStep
<1> QED BY <1>3, <1>4, <1>5, <1>6, <1>7, <1>8 DEF RD!PlaceNext

(* A reader whose place is known keeps it, and its search is current.      *)
LEMMA PlaceHolds ==
  ASSUME PlaceInv
  PROVE  RD!PlaceIsKept /\ RD!FindIsCurrent
<1>1. RD!PlaceIsKept
  BY DEF PlaceInv, PlaceKnown, Led, RD!PlaceIsKept
<1>2. ~find.timer /\ ~find.tick =>
        /\ find.count = find.query
        /\ find.marks = find.query \/ (find.wiped /\ find.marks = "")
  BY DEF PlaceInv, FindFollows, Current
<1>3. frame.rendered => frame.askedFor = frame.doc
  BY DEF PlaceInv, FindFollows, FrameAsked
<1> QED BY <1>1, <1>2, <1>3 DEF RD!FindIsCurrent

(* A reader begins where it was left, or at a line.                        *)
LEMMA PlaceBegins ==
  ASSUME RD!ReaderInit
  PROVE  PlaceInv
<1>1. PICK s \in {RD!Nowhere, Lines, Lines + 1}, l \in 0 .. Lines :
        reader = [shown |-> FALSE, was |-> FALSE, settled |-> 0, pos |-> 0, stored |-> s,
                  initial |-> s, line |-> l, anchor |-> IF s = RD!Nowhere THEN l ELSE 0,
                  restore |-> s # RD!Nowhere, tick |-> TRUE, event |-> FALSE, left |-> s]
  BY Zenon DEF RD!ReaderInit
<1>2. /\ s \in Nat /\ (IF s = RD!Nowhere THEN l ELSE 0) \in 0 .. Lines
      /\ (s # RD!Nowhere) \in BOOLEAN
  BY PanelsAssumption DEF RD!Nowhere
<1> DEFINE a == IF s = RD!Nowhere THEN l ELSE 0
           e == s # RD!Nowhere
           n == RD!Nowhere
<1>3. a # 0 => s = n /\ ~e
  OBVIOUS
<1>4. e = (s # n)
  OBVIOUS
<1>5. /\ reader = [shown |-> FALSE, was |-> FALSE, settled |-> 0, pos |-> 0, stored |-> s,
                   initial |-> s, line |-> l, anchor |-> a,
                   restore |-> e, tick |-> TRUE, event |-> FALSE, left |-> s]
      /\ n = RD!Nowhere
  BY <1>1
<1> HIDE DEF a, e, n
<1>6. reader \in Place
  BY <1>2, <1>5 DEF Place, a, e
<1>7. PlaceKnown
  BY <1>3, <1>4, <1>5, <1>6 DEF PlaceKnown, Led
<1>8. find \in Search /\ Current(find)
  BY DEF RD!ReaderInit, Search, Current, Sought
<1>9. FrameAsked
  BY DEF RD!ReaderInit, FrameAsked
<1> QED BY <1>7, <1>8, <1>9 DEF PlaceInv, FindFollows

-----------------------------------------------------------------------------
(***************************************************************************)
(* The diagrams of a document.                                             *)
(*                                                                         *)
(* A diagram was last asked for by the last of those who wait for it, and  *)
(* shows what it was asked in once nobody does.  Whoever draws in an older *)
(* theme is followed by one who draws in the present one: no loop          *)
(* overtakes another at a diagram, and a loop stops at each diagram that   *)
(* was asked in another theme.                                             *)
(***************************************************************************)
Themes == {"light", "dark"}
Pass == [theme : Themes, at : 1 .. Diagrams]
DrawTyped ==
  /\ theme \in Themes /\ passes \in Seq(Pass)
  /\ drawn \in [1 .. Diagrams -> [asked : {"none"} \cup Themes, shows : {"none"} \cup Themes]]
LastAsks ==
  /\ \A i \in DOMAIN passes :
       (\A j \in i + 1 .. Len(passes) : passes[j].at # passes[i].at)
         => drawn[passes[i].at].asked = passes[i].theme
  /\ \A d \in 1 .. Diagrams :
       (\A i \in DOMAIN passes : passes[i].at # d) => drawn[d].shows = drawn[d].asked
Follows(i) ==
  \E j \in DOMAIN passes : /\ passes[j].theme = theme
                           /\ \/ passes[j].at < passes[i].at
                              \/ passes[j].at = passes[i].at /\ i < j
Reached(d) == \E j \in DOMAIN passes : passes[j].theme = theme /\ passes[j].at < d
ThemeFollows ==
  /\ \A i \in DOMAIN passes : passes[i].theme # theme => Follows(i)
  /\ (\E d \in 1 .. Diagrams : drawn[d].asked # "none")
       => \A d \in 1 .. Diagrams : drawn[d].asked = theme \/ Reached(d)
DrawInv == DrawTyped /\ LastAsks /\ ThemeFollows

(* A set of numbers that has one has a least.                              *)
LEMMA LeastOf ==
  ASSUME NEW S, S \subseteq Nat, S # {}
  PROVE  \E m \in S : \A x \in S : m <= x
<1>1. PICK m \in S : \A x \in S : <<x, m>> \notin OpToRel(<, Nat)
  BY NatLessThanWellFounded, WFMin, Zenon
<1>2. \A x \in S : ~(x < m)
  BY <1>1, Zenon DEF OpToRel
<1> QED BY <1>2

(* And a greatest, if it is bounded.                                       *)
LEMMA GreatestOf ==
  ASSUME NEW S, NEW n \in Nat, S \subseteq 0 .. n, S # {}
  PROVE  \E m \in S : \A x \in S : x <= m
<1> DEFINE T == {n - x : x \in S}
<1>1. T \subseteq Nat /\ T # {}
  <2>1. PICK x \in S : TRUE
    OBVIOUS
  <2>2. n - x \in T
    BY <2>1
  <2> QED BY <2>2
<1>2. PICK t \in T : \A y \in T : t <= y
  BY <1>1, LeastOf
<1>3. PICK m \in S : t = n - m
  OBVIOUS
<1>4. ASSUME NEW x \in S PROVE x <= m
  <2>1. t <= n - x
    BY <1>2
  <2> QED BY <1>3, <2>1
<1> QED BY <1>4

(* What is left of those who wait, without the i-th and with t behind.     *)
Without(s, i, t) == SubSeq(s, 1, i - 1) \o SubSeq(s, i + 1, Len(s)) \o t
LEMMA PassRemoved ==
  ASSUME passes \in Seq(Pass), NEW i \in 1 .. Len(passes), NEW t \in Seq(Pass),
         passes' = Without(passes, i, t)
  PROVE  /\ passes' \in Seq(Pass) /\ Len(passes') = Len(passes) - 1 + Len(t)
         /\ \A j \in 1 .. Len(passes) : /\ j < i => passes'[j] = passes[j]
                                        /\ j > i => passes'[j - 1] = passes[j]
         /\ \A j \in 1 .. Len(t) : passes'[Len(passes) - 1 + j] = t[j]
<1> DEFINE r == Without(passes, i, t)
           b == SubSeq(passes, 1, i - 1)
           a == SubSeq(passes, i + 1, Len(passes))
<1>1. Len(passes) \in Nat /\ i \in 1 .. Len(passes)
  BY LenProperties
<1>2. b \in Seq(Pass) /\ Len(b) = i - 1 /\ \A j \in 1 .. i - 1 : b[j] = passes[j]
  <2>1. \A j \in 1 .. i - 1 : passes[j] \in Pass
    BY <1>1, ElementOfSeq
  <2>2. Len(b) = i - 1 /\ \A j \in 1 .. i - 1 : b[j] = passes[1 + j - 1]
    BY <1>1, SubSeqProperties
  <2>3. b \in Seq(Pass)
    BY <1>1, SubSeqProperties
  <2> QED BY <2>2, <2>3
<1>3. /\ a \in Seq(Pass) /\ Len(a) = Len(passes) - i
      /\ \A j \in 1 .. Len(passes) - i : a[j] = passes[i + j]
  <2>1. Len(a) = Len(passes) - i /\ \A j \in 1 .. Len(passes) - i : a[j] = passes[i + 1 + j - 1]
    BY <1>1, SubSeqProperties
  <2>2. a \in Seq(Pass)
    BY <1>1, SubSeqProperties
  <2> QED BY <1>1, <2>1, <2>2
<1> HIDE DEF b, a
<1>4. /\ b \o a \in Seq(Pass) /\ Len(b \o a) = Len(passes) - 1
      /\ \A j \in 1 .. Len(passes) - 1 : (b \o a)[j] = IF j <= i - 1 THEN b[j] ELSE a[j - (i - 1)]
  <2>1. Len(b) + Len(a) = Len(passes) - 1
    BY <1>1, <1>2, <1>3
  <2>2. /\ b \o a \in Seq(Pass) /\ Len(b \o a) = Len(b) + Len(a)
        /\ \A j \in 1 .. Len(b) + Len(a) :
              (b \o a)[j] = IF j <= Len(b) THEN b[j] ELSE a[j - Len(b)]
    BY <1>2, <1>3, ConcatProperties
  <2>3. Len(b) = i - 1
    BY <1>2
  <2> QED BY <2>1, <2>2, <2>3
<1> DEFINE c == b \o a
<1>5. r = c \o t /\ Len(t) \in Nat
  BY LenProperties DEF b, a, Without
<1> HIDE DEF c, r
<1>6. c \in Seq(Pass) /\ Len(c) = Len(passes) - 1
  BY <1>4 DEF c
<1>7. /\ r \in Seq(Pass) /\ Len(r) = Len(passes) - 1 + Len(t)
      /\ \A j \in 1 .. Len(passes) - 1 + Len(t) :
            r[j] = IF j <= Len(passes) - 1 THEN c[j] ELSE t[j - (Len(passes) - 1)]
  <2>1. /\ c \o t \in Seq(Pass) /\ Len(c \o t) = Len(c) + Len(t)
        /\ \A j \in 1 .. Len(c) + Len(t) :
              (c \o t)[j] = IF j <= Len(c) THEN c[j] ELSE t[j - Len(c)]
    BY <1>6, ConcatProperties
  <2>2. Len(c) = Len(passes) - 1
    BY <1>6
  <2> QED BY <1>5, <2>1, <2>2
<1>8. \A j \in 1 .. Len(passes) - 1 : r[j] = IF j <= i - 1 THEN passes[j] ELSE passes[j + 1]
  <2> SUFFICES ASSUME NEW j \in 1 .. Len(passes) - 1
               PROVE  r[j] = IF j <= i - 1 THEN passes[j] ELSE passes[j + 1]
    OBVIOUS
  <2>1. r[j] = c[j]
    <3>1. j \in 1 .. Len(passes) - 1 + Len(t) /\ j <= Len(passes) - 1
      BY <1>1, <1>5
    <3> QED BY <1>7, <3>1
  <2>2. CASE j <= i - 1
    <3>1. c[j] = b[j]
      BY <1>4, <2>2 DEF c
    <3>2. b[j] = passes[j]
      BY <1>1, <1>2, <2>2
    <3> QED BY <2>1, <2>2, <3>1, <3>2
  <2>3. CASE ~(j <= i - 1)
    <3>1. c[j] = a[j - (i - 1)]
      BY <1>4, <2>3 DEF c
    <3>2. j - (i - 1) \in 1 .. Len(passes) - i /\ i + (j - (i - 1)) = j + 1
      BY <1>1, <2>3
    <3>3. a[j - (i - 1)] = passes[j + 1]
      BY <1>3, <3>2
    <3> QED BY <2>1, <2>3, <3>1, <3>3
  <2> QED BY <2>2, <2>3
<1>9. ASSUME NEW j \in 1 .. Len(passes)
      PROVE  (j < i => r[j] = passes[j]) /\ (j > i => r[j - 1] = passes[j])
  <2>1. CASE j < i
    <3>1. j \in 1 .. Len(passes) - 1 /\ j <= i - 1
      BY <1>1, <2>1
    <3>2. r[j] = passes[j]
      BY <1>8, <3>1
    <3>3. ~(j > i)
      BY <1>1, <2>1
    <3> QED BY <3>2, <3>3
  <2>2. CASE j > i
    <3>1. j - 1 \in 1 .. Len(passes) - 1 /\ ~(j - 1 <= i - 1) /\ (j - 1) + 1 = j
      BY <1>1, <2>2
    <3>2. r[j - 1] = passes[j]
      <4> DEFINE k == j - 1
      <4>1. r[k] = IF k <= i - 1 THEN passes[k] ELSE passes[k + 1]
        <5>1. k \in 1 .. Len(passes) - 1
          BY <3>1
        <5> HIDE DEF k
        <5> QED BY <1>8, <5>1
      <4> QED BY <3>1, <4>1
    <3>3. ~(j < i)
      BY <1>1, <2>2
    <3> QED BY <3>2, <3>3
  <2> QED BY <1>1, <2>1, <2>2
<1>10. ASSUME NEW j \in 1 .. Len(t) PROVE r[Len(passes) - 1 + j] = t[j]
  <2> DEFINE k == Len(passes) - 1 + j
  <2>1. k \in 1 .. Len(passes) - 1 + Len(t) /\ ~(k <= Len(passes) - 1) /\ k - (Len(passes) - 1) = j
    BY <1>1, <1>5
  <2> SUFFICES r[k] = t[j]
    OBVIOUS
  <2> HIDE DEF k
  <2>2. r[k] = t[k - (Len(passes) - 1)]
    BY <1>7, <2>1
  <2> QED BY <2>1, <2>2
<1>11. passes' = r
  BY DEF r
<1> QED BY <1>7, <1>9, <1>10, <1>11

(* Of those that wait for a diagram one is the last.                       *)
LEMMA LastThere ==
  ASSUME DrawTyped, LastAsks, NEW i \in DOMAIN passes
  PROVE  \E k \in DOMAIN passes : /\ i <= k /\ passes[k].at = passes[i].at
                                  /\ drawn[passes[i].at].asked = passes[k].theme
<1> DEFINE S == {k \in 1 .. Len(passes) : passes[k].at = passes[i].at}
<1>1. Len(passes) \in Nat /\ DOMAIN passes = 1 .. Len(passes)
  BY LenProperties DEF DrawTyped
<1>2. S \subseteq 0 .. Len(passes) /\ i \in S
  BY <1>1
<1>3. PICK k \in S : \A x \in S : x <= k
  <2> HIDE DEF S
  <2> QED BY <1>1, <1>2, GreatestOf
<1>4. \A j \in k + 1 .. Len(passes) : passes[j].at # passes[k].at
  <2> SUFFICES ASSUME NEW j \in k + 1 .. Len(passes), passes[j].at = passes[k].at PROVE FALSE
    OBVIOUS
  <2>1. j \in S /\ k \in 1 .. Len(passes)
    BY <1>1
  <2>2. j <= k
    BY <1>3, <2>1
  <2> QED BY <1>1, <2>1, <2>2
<1>5. drawn[passes[k].at].asked = passes[k].theme
  BY <1>1, <1>4 DEF LastAsks
<1> QED BY <1>1, <1>2, <1>3, <1>5

(* Where a loop stops, and what it asks for there.                         *)
LEMMA LoopStops ==
  ASSUME DrawTyped, NEW th \in Themes, NEW d \in Nat, 1 <= d
  PROVE  \/ /\ RD!GoesOn(th, d) = <<>> /\ RD!Asking(RD!GoesOn(th, d)) = drawn
            /\ \A x \in d .. Diagrams : drawn[x].asked = th
         \/ \E m \in d .. Diagrams :
              /\ RD!GoesOn(th, d) = <<[theme |-> th, at |-> m]>>
              /\ RD!Asking(RD!GoesOn(th, d))
                   = [x \in 1 .. Diagrams |->
                        IF m = x THEN [drawn[x] EXCEPT !.asked = th] ELSE drawn[x]]
              /\ \A x \in d .. m - 1 : drawn[x].asked = th
<1> DEFINE left == {x \in d .. Diagrams : RD!Needs(x, th)}
           at == CHOOSE x \in left : \A y \in left : x <= y
<1>1. RD!GoesOn(th, d) = IF left = {} THEN <<>> ELSE <<[theme |-> th, at |-> at]>>
  BY DEF RD!GoesOn
<1>2. \A x \in d .. Diagrams : x \in left \/ drawn[x].asked = th
  BY DEF RD!Needs
<1>3. left \subseteq d .. Diagrams
  OBVIOUS
<1>4. CASE left = {}
  <2>1. RD!GoesOn(th, d) = <<>> /\ \A x \in d .. Diagrams : drawn[x].asked = th
    BY <1>1, <1>2, <1>4
  <2>2. RD!Asking(<<>>) = drawn
    <3>1. RD!Asking(<<>>) = [x \in 1 .. Diagrams |-> drawn[x]]
      BY DEF RD!Asking
    <3> QED BY <3>1 DEF DrawTyped
  <2> QED BY <2>1, <2>2
<1>5. CASE left # {}
  <2> HIDE DEF left
  <2>1. \E x \in left : \A y \in left : x <= y
    <3>1. left \subseteq Nat
      BY <1>3, PanelsAssumption
    <3> QED BY <1>5, <3>1, LeastOf
  <2>2. at \in left /\ \A y \in left : at <= y
    BY <2>1
  <2> DEFINE q == [theme |-> th, at |-> at]
  <2>3. RD!GoesOn(th, d) = <<q>>
    BY <1>1, <1>5
  <2> HIDE DEF at
  <2>4. at \in d .. Diagrams
    BY <1>3, <2>2
  <2>5. \A x \in d .. at - 1 : drawn[x].asked = th
    BY <1>2, <2>2, <2>4, PanelsAssumption
  <2>6. <<q>> # <<>> /\ <<q>>[1] = q /\ q.at = at /\ q.theme = th
    OBVIOUS
  <2> HIDE DEF q
  <2>7. RD!Asking(<<q>>)
          = [x \in 1 .. Diagrams |->
               IF at = x THEN [drawn[x] EXCEPT !.asked = th] ELSE drawn[x]]
    BY <2>6 DEF RD!Asking
  <2> QED BY <2>3, <2>4, <2>5, <2>7 DEF q
<1> QED BY <1>4, <1>5

(* What a question changes: the theme the diagram was asked in.            *)
LEMMA AskedOf ==
  ASSUME DrawTyped, NEW m \in 1 .. Diagrams, NEW th \in Themes,
         NEW e, e = [x \in 1 .. Diagrams |->
                       IF m = x THEN [drawn[x] EXCEPT !.asked = th] ELSE drawn[x]]
  PROVE  /\ e \in [1 .. Diagrams -> [asked : {"none"} \cup Themes, shows : {"none"} \cup Themes]]
         /\ \A x \in 1 .. Diagrams : /\ e[x].asked = IF x = m THEN th ELSE drawn[x].asked
                                     /\ e[x].shows = drawn[x].shows
<1> DEFINE W == {"none"} \cup Themes
<1>1. \A x \in 1 .. Diagrams : drawn[x] \in [asked : W, shows : W]
  BY DEF DrawTyped
<1>2. th \in W
  OBVIOUS
<1> HIDE DEF W
<1>3. ASSUME NEW x \in 1 .. Diagrams
      PROVE  /\ e[x] \in [asked : W, shows : W]
             /\ e[x].asked = IF x = m THEN th ELSE drawn[x].asked
             /\ e[x].shows = drawn[x].shows
  <2>1. CASE x = m
    <3>1. e[x] = [drawn[x] EXCEPT !.asked = th]
      BY <2>1
    <3> QED BY <1>1, <1>2, <2>1, <3>1
  <2>2. CASE x # m
    <3>1. e[x] = drawn[x]
      BY <2>2
    <3> QED BY <1>1, <2>2, <3>1
  <2> QED BY <2>1, <2>2
<1>4. e \in [1 .. Diagrams -> [asked : W, shows : W]]
  BY <1>3
<1> QED BY <1>3, <1>4 DEF W

(* A loop begins, in the theme there is then.                              *)
LEMMA LoopBegins ==
  ASSUME DrawInv, NEW th \in Themes, theme' = th, passes' = passes \o RD!GoesOn(th, 1),
         drawn' = RD!Asking(RD!GoesOn(th, 1))
  PROVE  DrawInv'
<1> DEFINE N == Len(passes)
<1>1. DrawTyped /\ LastAsks /\ ThemeFollows
  BY DEF DrawInv
<1>2. /\ N \in Nat /\ DOMAIN passes = 1 .. N
      /\ \A i \in 1 .. N : passes[i].at \in 1 .. Diagrams /\ passes[i].theme \in Themes
  <2>1. N \in Nat /\ DOMAIN passes = 1 .. N
    BY <1>1, LenProperties DEF DrawTyped
  <2>2. \A i \in 1 .. N : passes[i] \in Pass
    BY <1>1, ElementOfSeq DEF DrawTyped
  <2> QED BY <2>1, <2>2 DEF Pass
<1>3. CASE /\ RD!GoesOn(th, 1) = <<>> /\ RD!Asking(RD!GoesOn(th, 1)) = drawn
           /\ \A x \in 1 .. Diagrams : drawn[x].asked = th
  <2>1. passes' = passes /\ drawn' = drawn
    <3>1. passes \o <<>> = passes
      BY <1>1, ConcatEmptySeq DEF DrawTyped
    <3> QED BY <1>3, <3>1
  <2>2. DrawTyped' /\ LastAsks'
    BY <1>1, <2>1 DEF DrawTyped, LastAsks
  <2>3. ASSUME NEW i \in DOMAIN passes, passes[i].theme # th PROVE Follows(i)'
    <3>1. PICK k \in DOMAIN passes : /\ i <= k /\ passes[k].at = passes[i].at
                                     /\ drawn[passes[i].at].asked = passes[k].theme
      BY <1>1, LastThere
    <3>2. passes[k].theme = th
      BY <1>2, <1>3, <3>1
    <3>3. i < k
      BY <1>2, <2>3, <3>1, <3>2
    <3> QED BY <2>1, <3>1, <3>2, <3>3 DEF Follows
  <2>4. ThemeFollows'
    BY <1>3, <2>1, <2>3 DEF ThemeFollows
  <2> QED BY <2>2, <2>4 DEF DrawInv
<1>4. ASSUME NEW m \in 1 .. Diagrams,
             /\ RD!GoesOn(th, 1) = <<[theme |-> th, at |-> m]>>
             /\ RD!Asking(RD!GoesOn(th, 1))
                  = [x \in 1 .. Diagrams |->
                       IF m = x THEN [drawn[x] EXCEPT !.asked = th] ELSE drawn[x]]
             /\ \A x \in 1 .. m - 1 : drawn[x].asked = th
      PROVE  DrawInv'
  <2> DEFINE q == [theme |-> th, at |-> m]
  <2>1. q \in Pass /\ q.theme = th /\ q.at = m
    BY DEF Pass
  <2>2. passes' = passes \o <<q>>
    BY <1>4
  <2> HIDE DEF q
  <2>3. /\ passes' \in Seq(Pass) /\ Len(passes') = N + 1 /\ DOMAIN passes' = 1 .. N + 1
        /\ passes'[N + 1] = q /\ \A i \in 1 .. N : passes'[i] = passes[i]
    <3>1. passes' = Append(passes, q)
      BY <1>1, <2>1, <2>2, AppendIsConcat DEF DrawTyped
    <3>2. passes' \in Seq(Pass) /\ Len(passes') = N + 1
      <4>1. passes \in Seq(Pass)
        BY <1>1 DEF DrawTyped
      <4>2. Append(passes, q) \in Seq(Pass) /\ Len(Append(passes, q)) = N + 1
        BY <2>1, <4>1, AppendProperties, Zenon
      <4> QED BY <3>1, <4>2
    <3>3. passes'[N + 1] = q /\ \A i \in 1 .. N : passes'[i] = passes[i]
      <4>1. passes \in Seq(Pass)
        BY <1>1 DEF DrawTyped
      <4> QED BY <2>1, <3>1, <4>1, AppendProperties
    <3> QED BY <3>2, <3>3, LenProperties
  <2>4. /\ drawn' \in [1 .. Diagrams ->
                         [asked : {"none"} \cup Themes, shows : {"none"} \cup Themes]]
        /\ \A x \in 1 .. Diagrams : /\ drawn'[x].asked = IF x = m THEN th ELSE drawn[x].asked
                                    /\ drawn'[x].shows = drawn[x].shows
    BY <1>1, <1>4, AskedOf
  <2>5. DrawTyped'
    BY <2>3, <2>4 DEF DrawTyped
  <2>6. LastAsks'
    <3>1. ASSUME NEW i \in 1 .. N + 1,
                 \A j \in i + 1 .. N + 1 : passes'[j].at # passes'[i].at
          PROVE  drawn'[passes'[i].at].asked = passes'[i].theme
      <4>1. CASE i = N + 1
        BY <2>1, <2>3, <2>4, <4>1
      <4>2. CASE i # N + 1
        <5>1. i \in 1 .. N /\ N + 1 \in i + 1 .. N + 1
          BY <1>2, <4>2
        <5>2. passes'[i] = passes[i] /\ passes[i].at # m
          BY <2>1, <2>3, <3>1, <5>1
        <5>3. \A j \in i + 1 .. N : passes[j].at # passes[i].at
          <6> SUFFICES ASSUME NEW j \in i + 1 .. N PROVE passes[j].at # passes[i].at
            OBVIOUS
          <6>1. j \in i + 1 .. N + 1 /\ j \in 1 .. N
            BY <1>2, <5>1
          <6> QED BY <2>3, <3>1, <5>2, <6>1
        <5>4. drawn[passes[i].at].asked = passes[i].theme
          BY <1>1, <1>2, <5>1, <5>3 DEF LastAsks
        <5> QED BY <1>2, <2>4, <5>1, <5>2, <5>4
      <4> QED BY <4>1, <4>2
    <3>2. ASSUME NEW d \in 1 .. Diagrams, \A i \in 1 .. N + 1 : passes'[i].at # d
          PROVE  drawn'[d].shows = drawn'[d].asked
      <4>1. d # m
        BY <1>2, <2>1, <2>3, <3>2
      <4>2. \A i \in 1 .. N : passes[i].at # d
        BY <1>2, <2>3, <3>2
      <4>3. drawn[d].shows = drawn[d].asked
        BY <1>1, <1>2, <4>2 DEF LastAsks
      <4> QED BY <2>4, <4>1, <4>3
    <3>3. LastAsks!1'
      BY <2>3, <3>1
    <3>4. LastAsks!2'
      BY <2>3, <3>2
    <3> QED BY <3>3, <3>4 DEF LastAsks
  <2>7. ASSUME NEW i \in 1 .. N + 1, passes'[i].theme # th PROVE Follows(i)'
    <3>1. i \in 1 .. N /\ passes'[i] = passes[i]
      BY <1>2, <2>1, <2>3, <2>7
    <3>2. CASE m <= passes[i].at
      <4>1. \/ passes'[N + 1].at < passes'[i].at
            \/ passes'[N + 1].at = passes'[i].at /\ i < N + 1
        BY <1>2, <2>1, <2>3, <3>1, <3>2
      <4>2. N + 1 \in DOMAIN passes' /\ passes'[N + 1].theme = theme'
        BY <1>2, <2>1, <2>3
      <4> QED BY <4>1, <4>2 DEF Follows
    <3>3. CASE ~(m <= passes[i].at)
      <4>1. PICK k \in 1 .. N : /\ i <= k /\ passes[k].at = passes[i].at
                                /\ drawn[passes[i].at].asked = passes[k].theme
        BY <1>1, <1>2, <3>1, LastThere
      <4>2. passes[k].theme = th
        <5>1. passes[i].at \in 1 .. m - 1
          BY <1>2, <3>1, <3>3
        <5> QED BY <1>4, <4>1, <5>1
      <4>3. i < k
        BY <1>2, <2>7, <3>1, <4>1, <4>2
      <4>4. k \in DOMAIN passes' /\ passes'[k] = passes[k]
        BY <1>2, <2>3
      <4> QED BY <3>1, <4>1, <4>2, <4>3, <4>4 DEF Follows
    <3> QED BY <3>2, <3>3
  <2>8. ASSUME NEW d \in 1 .. Diagrams PROVE drawn'[d].asked = th \/ Reached(d)'
    <3>1. CASE d <= m
      BY <1>4, <2>4, <3>1
    <3>2. CASE ~(d <= m)
      <4>1. passes'[N + 1].at < d /\ passes'[N + 1].theme = theme'
        BY <2>1, <2>3, <3>2
      <4>2. N + 1 \in DOMAIN passes'
        BY <1>2, <2>3
      <4> QED BY <4>1, <4>2 DEF Reached
    <3> QED BY <3>1, <3>2
  <2>9. ThemeFollows'
    BY <2>3, <2>7, <2>8 DEF ThemeFollows
  <2> QED BY <2>5, <2>6, <2>9 DEF DrawInv
<1> QED BY <1>1, <1>3, <1>4, LoopStops

(* A diagram is drawn; the loop goes on to the diagram m, if there is one, *)
(* and is put last: then K is 1.                                           *)
GoneOn(i, K, m) ==
  /\ \A j \in 1 .. i - 1 : passes[j].at # passes[i].at
  /\ theme' = theme /\ (K = 0) = (m = Diagrams + 1)
  /\ passes' \in Seq(Pass) /\ Len(passes') = Len(passes) - 1 + K
  /\ \A j \in 1 .. Len(passes) : /\ j < i => passes'[j] = passes[j]
                                 /\ j > i => passes'[j - 1] = passes[j]
  /\ K = 1 => passes'[Len(passes)].theme = passes[i].theme /\ passes'[Len(passes)].at = m
  /\ \A x \in passes[i].at + 1 .. m - 1 : drawn[x].asked = passes[i].theme
  /\ drawn' \in [1 .. Diagrams ->
                   [asked : {"none"} \cup Themes, shows : {"none"} \cup Themes]]
  /\ \A x \in 1 .. Diagrams :
        /\ drawn'[x].asked = IF x = m THEN passes[i].theme ELSE drawn[x].asked
        /\ drawn'[x].shows = IF x = passes[i].at THEN passes[i].theme ELSE drawn[x].shows
LEMMA PassGoesOn ==
  ASSUME DrawInv, NEW i \in 1 .. Len(passes), NEW K \in {0, 1},
         NEW m \in passes[i].at + 1 .. Diagrams + 1, GoneOn(i, K, m)
  PROVE  DrawInv'
<1> DEFINE p == passes[i]
           N == Len(passes)
           To(j) == IF j < i THEN j ELSE j - 1
<1>1. DrawTyped /\ LastAsks /\ ThemeFollows
  BY DEF DrawInv
<1>0. /\ \A j \in 1 .. i - 1 : passes[j].at # p.at
      /\ theme' = theme /\ (K = 0) = (m = Diagrams + 1)
      /\ passes' \in Seq(Pass) /\ Len(passes') = N - 1 + K
      /\ \A j \in 1 .. N : /\ j < i => passes'[j] = passes[j]
                           /\ j > i => passes'[j - 1] = passes[j]
      /\ K = 1 => passes'[N].theme = p.theme /\ passes'[N].at = m
      /\ \A x \in p.at + 1 .. m - 1 : drawn[x].asked = p.theme
      /\ drawn' \in [1 .. Diagrams ->
                       [asked : {"none"} \cup Themes, shows : {"none"} \cup Themes]]
      /\ \A x \in 1 .. Diagrams :
            /\ drawn'[x].asked = IF x = m THEN p.theme ELSE drawn[x].asked
            /\ drawn'[x].shows = IF x = p.at THEN p.theme ELSE drawn[x].shows
  BY Zenon DEF GoneOn
<1> USE <1>0
<1>2. /\ N \in Nat /\ DOMAIN passes = 1 .. N
      /\ \A j \in 1 .. N : passes[j].at \in 1 .. Diagrams /\ passes[j].theme \in Themes
  <2>1. N \in Nat /\ DOMAIN passes = 1 .. N
    BY <1>1, LenProperties DEF DrawTyped
  <2>2. \A j \in 1 .. N : passes[j] \in Pass
    BY <1>1, ElementOfSeq DEF DrawTyped
  <2> QED BY <2>1, <2>2 DEF Pass
<1>3. p.at \in 1 .. Diagrams /\ p.theme \in Themes /\ m \in Nat /\ p.at < m
  BY <1>2
<1>4. DOMAIN passes' = 1 .. N - 1 + K
  BY LenProperties
<1>5. \A j \in 1 .. N : j # i => To(j) \in 1 .. N - 1 /\ passes'[To(j)] = passes[j]
  BY <1>2
<1>6. ASSUME NEW j \in 1 .. N, NEW k \in 1 .. N, j # i, k # i, j < k PROVE To(j) < To(k)
  <2>1. j \in Nat /\ k \in Nat /\ i \in Nat
    BY <1>2
  <2> QED BY <1>6, <2>1
<1>7. \A j \in 1 .. N - 1 :
         \E o \in 1 .. N : o # i /\ To(o) = j /\ passes'[j] = passes[o]
  <2> SUFFICES ASSUME NEW j \in 1 .. N - 1
               PROVE  \E o \in 1 .. N : o # i /\ To(o) = j /\ passes'[j] = passes[o]
    OBVIOUS
  <2> DEFINE o == IF j < i THEN j ELSE j + 1
  <2>1. o \in 1 .. N /\ o # i /\ To(o) = j
    BY <1>2
  <2> HIDE DEF o, To
  <2> QED BY <1>5, <2>1
<1> HIDE DEF To
<1>8. ASSUME NEW j \in 1 .. N - 1 + K PROVE j \in 1 .. N - 1 \/ (j = N /\ K = 1)
  <2>1. N \in Nat
    BY <1>2
  <2> HIDE DEF N
  <2>2. CASE K = 0
    BY <2>1, <2>2
  <2>3. CASE K = 1
    BY <2>1, <2>3
  <2> QED BY <2>2, <2>3
<1>9. \A j \in 1 .. N - 1 : j \in 1 .. N - 1 + K
  BY <1>2
<1>10. DrawTyped'
  BY <1>1 DEF DrawTyped
(* Who is followed by another than the i-th is so still.                   *)
<1>11. ASSUME NEW c \in 1 .. N, c # i, passes[c].theme # theme
       PROVE  \E w \in 1 .. N - 1 + K :
                 /\ passes'[w].theme = theme
                 /\ \/ passes'[w].at < passes[c].at
                    \/ passes'[w].at = passes[c].at /\ To(c) < w
  <2>1. PICK w \in 1 .. N : /\ passes[w].theme = theme
                            /\ \/ passes[w].at < passes[c].at
                               \/ passes[w].at = passes[c].at /\ c < w
    BY <1>1, <1>2, <1>11 DEF ThemeFollows, Follows
  <2>2. CASE w # i
    BY <1>5, <1>6, <1>9, <1>11, <2>1, <2>2, SMTT(30)
  <2>3. CASE w = i
    <3>1. p.theme = theme /\ p.at < passes[c].at
      BY <1>2, <1>11, <2>1, <2>3
    <3>2. CASE m <= passes[c].at
      <4>1. K = 1 /\ N \in 1 .. N - 1 + K
        <5>1. passes[c].at \in 1 .. Diagrams
          BY <1>2
        <5>2. m # Diagrams + 1
          BY <1>3, <3>2, <5>1, PanelsAssumption
        <5> QED BY <1>2, <5>2
      <4>2. To(c) < N
        BY <1>2, <1>5, <1>11
      <4>3. passes'[N].at = m /\ passes'[N].theme = theme
        BY <3>1, <4>1
      <4>4. m < passes[c].at \/ m = passes[c].at
        BY <1>2, <1>3, <3>2
      <4> QED BY <4>1, <4>2, <4>3, <4>4
    <3>3. CASE ~(m <= passes[c].at)
      <4>1. passes[c].at \in p.at + 1 .. m - 1
        BY <1>2, <1>3, <3>1, <3>3, SMTT(30)
      <4>0. c \in DOMAIN passes
        BY <1>2
      <4>2. PICK k \in DOMAIN passes : /\ c <= k /\ passes[k].at = passes[c].at
                                       /\ drawn[passes[c].at].asked = passes[k].theme
        BY <1>1, <4>0, LastThere, Zenon
      <4>3. passes[k].theme = theme
        BY <3>1, <4>1, <4>2
      <4>4. c < k /\ k # i /\ k \in 1 .. N
        <5>1. k # c
          BY <1>11, <4>3
        <5>2. k # i
          BY <1>2, <1>3, <3>1, <4>2
        <5> QED BY <1>2, <4>2, <5>1, <5>2
      <4>5. To(k) \in 1 .. N - 1 + K /\ passes'[To(k)] = passes[k] /\ To(c) < To(k)
        BY <1>5, <1>6, <1>9, <1>11, <4>4
      <4> QED BY <4>2, <4>3, <4>5
    <3> QED BY <3>2, <3>3
  <2> QED BY <2>2, <2>3
(* Whoever came after the i-th in another theme has one in the present.    *)
<1>12. ASSUME p.theme # theme
       PROVE  \E w \in 1 .. N - 1 : passes'[w].theme = theme /\ passes'[w].at <= p.at
  <2>1. PICK w \in 1 .. N : /\ passes[w].theme = theme
                            /\ \/ passes[w].at < p.at
                               \/ passes[w].at = p.at /\ i < w
    BY <1>1, <1>2, <1>12 DEF ThemeFollows, Follows
  <2>2. w # i /\ passes[w].at <= p.at
    BY <1>2, <1>3, <1>12, <2>1, SMTT(30)
  <2> QED BY <1>5, <2>1, <2>2
<1>13. ThemeFollows!1'
  <2> SUFFICES ASSUME NEW j \in 1 .. N - 1 + K, passes'[j].theme # theme
               PROVE  \E w \in 1 .. N - 1 + K :
                         /\ passes'[w].theme = theme
                         /\ \/ passes'[w].at < passes'[j].at
                            \/ passes'[w].at = passes'[j].at /\ j < w
    BY <1>4 DEF Follows
  <2>1. CASE j \in 1 .. N - 1
    <3>1. PICK c \in 1 .. N : c # i /\ To(c) = j /\ passes'[j] = passes[c]
      BY <1>7, <2>1
    <3> QED BY <1>11, <3>1
  <2>2. CASE j = N /\ K = 1
    <3>1. passes'[j].at = m /\ p.theme # theme
      BY <2>2
    <3>2. PICK w \in 1 .. N - 1 : passes'[w].theme = theme /\ passes'[w].at <= p.at
      BY <1>12, <3>1
    <3>3. passes'[w].at < m
      <4>1. passes'[w].at \in Nat
        <5>1. PICK c \in 1 .. N : passes'[w] = passes[c]
          BY <1>7
        <5> QED BY <1>2, <5>1
      <4> DEFINE x == passes'[w].at y == p.at
      <4>2. x \in Nat /\ x <= y
        BY <3>2, <4>1
      <4>3. y \in Nat /\ m \in Nat /\ y < m
        BY <1>3
      <4> HIDE DEF x, y
      <4>4. x < m
        BY <4>2, <4>3
      <4> QED BY <4>4 DEF x
    <3> QED BY <1>9, <3>1, <3>2, <3>3
  <2> QED BY <1>8, <2>1, <2>2
<1>14. \E d \in 1 .. Diagrams : drawn[d].asked # "none"
  <2>1. PICK k \in 1 .. N : drawn[passes[i].at].asked = passes[k].theme
    BY <1>1, <1>2, LastThere
  <2>2. passes[k].theme \in Themes
    BY <1>2
  <2> QED BY <1>3, <2>1, <2>2 DEF Themes
<1>15. ASSUME NEW d \in 1 .. Diagrams
       PROVE  \/ drawn'[d].asked = theme
              \/ \E w \in 1 .. N - 1 + K : passes'[w].theme = theme /\ passes'[w].at < d
  <2>1. CASE d = m /\ p.theme = theme
    BY <2>1
  <2>2. CASE d = m /\ p.theme # theme
    <3>1. PICK w \in 1 .. N - 1 : passes'[w].theme = theme /\ passes'[w].at <= p.at
      BY <1>12, <2>2
    <3>2. passes'[w].at < m
      <4>1. passes'[w].at \in Nat
        <5>1. PICK c \in 1 .. N : passes'[w] = passes[c]
          BY <1>7
        <5> QED BY <1>2, <5>1
      <4>2. \A a \in Nat : a <= p.at => a < m
        BY <1>3
      <4> QED BY <3>1, <4>1, <4>2, Zenon
    <3> QED BY <1>9, <2>2, <3>1, <3>2
  <2>3. CASE d # m /\ drawn[d].asked = theme
    BY <2>3
  <2>4. CASE d # m /\ drawn[d].asked # theme
    <3>1. PICK w \in 1 .. N : passes[w].theme = theme /\ passes[w].at < d
      BY <1>1, <1>2, <1>14, <2>4 DEF ThemeFollows, Reached
    <3>2. CASE w # i
      BY <1>5, <1>9, <3>1, <3>2
    <3>3. CASE w = i
      <4>1. m < d
        <5>1. SUFFICES ASSUME ~(m < d) PROVE FALSE
          OBVIOUS
        <5>2. d \in p.at + 1 .. m - 1
          BY <1>3, <2>4, <3>1, <3>3, <5>1
        <5>3. drawn[d].asked = p.theme
          BY <5>2
        <5> QED BY <2>4, <3>1, <3>3, <5>3
      <4>2. K = 1 /\ N \in 1 .. N - 1 + K
        <5>1. m # Diagrams + 1
          BY <1>3, <4>1, PanelsAssumption
        <5> QED BY <1>2, <5>1
      <4> QED BY <3>1, <3>3, <4>1, <4>2
    <3> QED BY <3>2, <3>3
  <2> QED BY <2>1, <2>2, <2>3, <2>4
<1>16. ThemeFollows'
  <2>1. ThemeFollows!2'
    BY <1>4, <1>15 DEF Reached
  <2> QED BY <1>13, <2>1 DEF ThemeFollows
<1>17. LastAsks!1'
  <2> SUFFICES ASSUME NEW j \in 1 .. N - 1 + K,
                      \A k \in j + 1 .. N - 1 + K : passes'[k].at # passes'[j].at
               PROVE  drawn'[passes'[j].at].asked = passes'[j].theme
    BY <1>4
  <2>1. CASE j = N /\ K = 1
    <3>1. m \in 1 .. Diagrams /\ passes'[j].at = m /\ passes'[j].theme = p.theme
      BY <1>3, <2>1, PanelsAssumption
    <3> QED BY <3>1
  <2>2. CASE j \in 1 .. N - 1
    <3>1. PICK c \in 1 .. N : c # i /\ To(c) = j /\ passes'[j] = passes[c]
      BY <1>7, <2>2
    <3>2. passes[c].at # m
      <4>1. CASE K = 1
        <5>1. N \in j + 1 .. N - 1 + K
          BY <1>2, <2>2, <4>1
        <5>2. passes'[N].at # passes'[j].at
          BY <5>1
        <5> QED BY <3>1, <4>1, <5>2
      <4>2. CASE K = 0
        <5>1. m = Diagrams + 1 /\ passes[c].at \in 1 .. Diagrams
          BY <1>2, <4>2
        <5> QED BY <5>1, PanelsAssumption
      <4> QED BY <4>1, <4>2
    <3>3. \A k \in c + 1 .. N : passes[k].at # passes[c].at
      <4> SUFFICES ASSUME NEW k \in c + 1 .. N, passes[k].at = passes[c].at PROVE FALSE
        OBVIOUS
      <4>1. k \in 1 .. N /\ c < k
        BY <1>2
      <4>2. CASE k # i
        <5>1. To(k) \in 1 .. N - 1 /\ passes'[To(k)] = passes[k] /\ j < To(k)
          BY <1>5, <1>6, <3>1, <4>1, <4>2
        <5>2. To(k) \in j + 1 .. N - 1 + K
          BY <1>2, <5>1
        <5>3. passes'[To(k)].at # passes'[j].at
          BY <5>2
        <5> QED BY <3>1, <5>1, <5>3
      <4>3. CASE k = i
        <5>1. c \in 1 .. i - 1
          BY <1>2, <4>1, <4>3
        <5>2. passes[c].at # p.at
          BY <5>1
        <5> QED BY <4>3, <5>2
      <4> QED BY <4>2, <4>3
    <3>4. drawn[passes[c].at].asked = passes[c].theme
      BY <1>1, <1>2, <3>3 DEF LastAsks
    <3>5. passes[c].at \in 1 .. Diagrams
      BY <1>2
    <3> QED BY <3>1, <3>2, <3>4, <3>5
  <2> QED BY <1>8, <2>1, <2>2
<1>18. LastAsks!2'
  <2> SUFFICES ASSUME NEW d \in 1 .. Diagrams,
                      \A j \in 1 .. N - 1 + K : passes'[j].at # d
               PROVE  drawn'[d].shows = drawn'[d].asked
    BY <1>4
  <2>1. d # m
    <3>1. CASE K = 1
      <4>1. N \in 1 .. N - 1 + K
        BY <1>2, <3>1
      <4> QED BY <3>1, <4>1
    <3>2. CASE K = 0
      BY <3>2, PanelsAssumption
    <3> QED BY <3>1, <3>2
  <2>2. ASSUME NEW c \in 1 .. N, c # i PROVE passes[c].at # d
    <3>1. To(c) \in 1 .. N - 1 + K /\ passes'[To(c)] = passes[c]
      BY <1>5, <1>9, <2>2
    <3> QED BY <3>1
  <2>3. CASE d = p.at
    <3>1. \A k \in i + 1 .. N : passes[k].at # p.at
      <4> SUFFICES ASSUME NEW k \in i + 1 .. N PROVE passes[k].at # p.at
        OBVIOUS
      <4>1. k \in 1 .. N /\ k # i
        BY <1>2
      <4> QED BY <2>2, <2>3, <4>1
    <3>2. drawn[p.at].asked = p.theme
      BY <1>1, <1>2, <3>1 DEF LastAsks
    <3> QED BY <2>1, <2>3, <3>2
  <2>4. CASE d # p.at
    <3>1. drawn[d].shows = drawn[d].asked
      BY <1>1, <1>2, <2>2, <2>4 DEF LastAsks
    <3> QED BY <2>1, <2>4, <3>1
  <2> QED BY <2>3, <2>4
<1> QED BY <1>10, <1>16, <1>17, <1>18 DEF DrawInv, LastAsks

(* A diagram is drawn.                                                     *)
LEMMA RenderedKeeps ==
  ASSUME DrawInv, NEW i \in DOMAIN passes, RD!Rendered(i)
  PROVE  DrawInv'
<1> DEFINE p == passes[i]
           more == RD!GoesOn(p.theme, p.at + 1)
           asking == RD!Asking(more)
           N == Len(passes)
<1>1. DrawTyped /\ N \in Nat /\ i \in 1 .. N /\ passes \in Seq(Pass)
  BY LenProperties DEF DrawInv, DrawTyped
<1>2. p \in Pass
  BY <1>1, ElementOfSeq
<1>3. p.theme \in Themes /\ p.at \in 1 .. Diagrams
  BY <1>2 DEF Pass
<1>4. /\ \A j \in 1 .. i - 1 : passes[j].at # p.at
      /\ drawn' = [asking EXCEPT ![p.at].shows = p.theme]
      /\ passes' = SubSeq(passes, 1, i - 1) \o SubSeq(passes, i + 1, Len(passes)) \o more
      /\ theme' = theme
  BY DEF RD!Rendered
<1>5. p.at + 1 \in Nat /\ 1 <= p.at + 1
  BY <1>3
<1> DEFINE W == {"none"} \cup Themes
<1>6. ASSUME NEW m, asking \in [1 .. Diagrams -> [asked : W, shows : W]],
             \A x \in 1 .. Diagrams :
                /\ asking[x].asked = IF x = m THEN p.theme ELSE drawn[x].asked
                /\ asking[x].shows = drawn[x].shows
      PROVE  /\ drawn' \in [1 .. Diagrams -> [asked : W, shows : W]]
             /\ \A x \in 1 .. Diagrams :
                   /\ drawn'[x].asked = IF x = m THEN p.theme ELSE drawn[x].asked
                   /\ drawn'[x].shows = IF x = p.at THEN p.theme ELSE drawn[x].shows
  <2> DEFINE v == [asking[p.at] EXCEPT !.shows = p.theme]
             e == [asking EXCEPT ![p.at] = v]
  <2>1. p.theme \in W
    BY <1>3
  <2> HIDE DEF W, asking
  <2>2. drawn' = e
    BY <1>3, <1>4, <1>6
  <2>3. v \in [asked : W, shows : W] /\ v.asked = asking[p.at].asked /\ v.shows = p.theme
    BY <1>3, <1>6, <2>1
  <2> HIDE DEF v
  <2>4. e \in [1 .. Diagrams -> [asked : W, shows : W]]
        /\ e[p.at] = v /\ \A x \in 1 .. Diagrams : x # p.at => e[x] = asking[x]
    BY <1>3, <1>6, <2>3
  <2> HIDE DEF e, p
  <2> QED BY <1>3, <1>6, <2>2, <2>3, <2>4
<1>7. CASE /\ more = <<>> /\ asking = drawn
           /\ \A x \in p.at + 1 .. Diagrams : drawn[x].asked = p.theme
  <2> DEFINE m == Diagrams + 1
             K == 0
  <2>1. /\ passes' \in Seq(Pass) /\ Len(passes') = N - 1 + K
        /\ \A j \in 1 .. N : /\ j < i => passes'[j] = passes[j]
                             /\ j > i => passes'[j - 1] = passes[j]
    <3>1. <<>> \in Seq(Pass) /\ Len(<<>>) = 0
      BY EmptySeq, LenProperties
    <3>2. passes' = Without(passes, i, <<>>)
      BY <1>4, <1>7 DEF Without
    <3>3. /\ passes' \in Seq(Pass) /\ Len(passes') = N - 1 + Len(<<>>)
          /\ \A j \in 1 .. N : /\ j < i => passes'[j] = passes[j]
                               /\ j > i => passes'[j - 1] = passes[j]
      BY <1>1, <3>1, <3>2, PassRemoved
    <3> QED BY <3>1, <3>3
  <2>2. asking \in [1 .. Diagrams -> [asked : W, shows : W]]
    BY <1>1, <1>7 DEF DrawTyped
  <2>3. \A x \in 1 .. Diagrams : x # m
    BY PanelsAssumption
  <2>4. /\ drawn' \in [1 .. Diagrams -> [asked : W, shows : W]]
        /\ \A x \in 1 .. Diagrams :
              /\ drawn'[x].asked = IF x = m THEN p.theme ELSE drawn[x].asked
              /\ drawn'[x].shows = IF x = p.at THEN p.theme ELSE drawn[x].shows
    <3> HIDE DEF asking, W, m, p
    <3>1. \A x \in 1 .. Diagrams :
             /\ asking[x].asked = IF x = m THEN p.theme ELSE drawn[x].asked
             /\ asking[x].shows = drawn[x].shows
      BY <1>7, <2>3
    <3> QED BY <1>6, <2>2, <3>1
  <2>5. m \in p.at + 1 .. Diagrams + 1 /\ \A x \in p.at + 1 .. m - 1 : drawn[x].asked = p.theme
    BY <1>3, <1>7, PanelsAssumption
  <2>6. K \in {0, 1} /\ (K = 0) = (m = Diagrams + 1) /\ K # 1
    OBVIOUS
  <2> HIDE DEF more, asking, m, K
  <2>8. GoneOn(i, K, m)
    BY <1>4, <2>1, <2>4, <2>5, <2>6, Zenon DEF GoneOn
  <2> QED BY <1>1, <2>5, <2>6, <2>8, PassGoesOn
<1>8. ASSUME NEW m \in p.at + 1 .. Diagrams,
             more = <<[theme |-> p.theme, at |-> m]>>,
             asking = [x \in 1 .. Diagrams |->
                       IF m = x THEN [drawn[x] EXCEPT !.asked = p.theme] ELSE drawn[x]],
             \A x \in p.at + 1 .. m - 1 : drawn[x].asked = p.theme
      PROVE  DrawInv'
  <2> DEFINE q == [theme |-> p.theme, at |-> m]
             K == 1
  <2>0. m \in 1 .. Diagrams
    BY <1>3, PanelsAssumption
  <2>1. q \in Pass /\ q.theme = p.theme /\ q.at = m
    BY <1>3, <2>0 DEF Pass
  <2>2. more = <<q>>
    BY <1>8
  <2> HIDE DEF q
  <2>3. /\ passes' \in Seq(Pass) /\ Len(passes') = N - 1 + K
        /\ \A j \in 1 .. N : /\ j < i => passes'[j] = passes[j]
                             /\ j > i => passes'[j - 1] = passes[j]
        /\ passes'[N] = q
    <3>1. <<q>> \in Seq(Pass) /\ Len(<<q>>) = 1 /\ <<q>>[1] = q
      BY <2>1
    <3>2. passes' = Without(passes, i, <<q>>)
      BY <1>4, <2>2 DEF Without
    <3>3. /\ passes' \in Seq(Pass) /\ Len(passes') = N - 1 + Len(<<q>>)
          /\ \A j \in 1 .. N : /\ j < i => passes'[j] = passes[j]
                               /\ j > i => passes'[j - 1] = passes[j]
          /\ \A j \in 1 .. Len(<<q>>) : passes'[N - 1 + j] = <<q>>[j]
      <4> DEFINE t == <<q>>
      <4>1. t \in Seq(Pass)
        BY <3>1
      <4>2. passes' = Without(passes, i, t)
        BY <3>2
      <4> HIDE DEF t
      <4>3. /\ passes' \in Seq(Pass) /\ Len(passes') = N - 1 + Len(t)
            /\ \A j \in 1 .. N : /\ j < i => passes'[j] = passes[j]
                                 /\ j > i => passes'[j - 1] = passes[j]
            /\ \A j \in 1 .. Len(t) : passes'[N - 1 + j] = t[j]
        BY <1>1, <4>1, <4>2, PassRemoved
      <4> QED BY <4>3 DEF t
    <3>4. 1 \in 1 .. Len(<<q>>) /\ N - 1 + 1 = N
      BY <1>1, <3>1
    <3>5. passes'[N - 1 + 1] = <<q>>[1]
      BY <3>3, <3>4, Zenon
    <3> QED BY <3>1, <3>3, <3>4, <3>5
  <2>4. /\ asking \in [1 .. Diagrams -> [asked : W, shows : W]]
        /\ \A x \in 1 .. Diagrams :
              /\ asking[x].asked = IF x = m THEN p.theme ELSE drawn[x].asked
              /\ asking[x].shows = drawn[x].shows
    BY <1>1, <1>3, <1>8, <2>0, AskedOf, SMTT(30)
  <2>5. /\ drawn' \in [1 .. Diagrams -> [asked : W, shows : W]]
        /\ \A x \in 1 .. Diagrams :
              /\ drawn'[x].asked = IF x = m THEN p.theme ELSE drawn[x].asked
              /\ drawn'[x].shows = IF x = p.at THEN p.theme ELSE drawn[x].shows
    <3> HIDE DEF asking, W, p
    <3> QED BY <1>6, <2>4
  <2>6. m \in p.at + 1 .. Diagrams + 1 /\ ~(m = Diagrams + 1)
    BY <1>3, <2>0, PanelsAssumption
  <2>7. passes'[N].theme = p.theme /\ passes'[N].at = m
    BY <2>1, <2>3
  <2>8. K \in {0, 1} /\ (K = 0) = (m = Diagrams + 1)
    BY <2>6
  <2> HIDE DEF more, asking, K
  <2>9. GoneOn(i, K, m)
    BY <1>4, <1>8, <2>3, <2>5, <2>7, <2>8, Zenon DEF GoneOn
  <2> QED BY <1>1, <2>6, <2>8, <2>9, PassGoesOn
<1> QED BY <1>1, <1>3, <1>5, <1>7, <1>8, LoopStops

(* A step of the diagrams keeps what is known of them.                     *)
LEMMA DrawInvKept ==
  ASSUME DrawInv, RD!DrawNext
  PROVE  DrawInv'
<1>1. theme \in Themes
  BY DEF DrawInv, DrawTyped
<1>2. CASE RD!Enhance
  <2>1. /\ passes' = passes \o RD!GoesOn(theme, 1) /\ drawn' = RD!Asking(RD!GoesOn(theme, 1))
        /\ theme' = theme
    BY <1>2 DEF RD!Enhance
  <2> QED BY <1>1, <2>1, LoopBegins
<1>3. CASE RD!ToggleTheme
  <2> DEFINE th == IF theme = "light" THEN "dark" ELSE "light"
  <2>1. /\ passes' = passes \o RD!GoesOn(th, 1) /\ drawn' = RD!Asking(RD!GoesOn(th, 1))
        /\ theme' = th
    BY <1>3 DEF RD!ToggleTheme
  <2>2. th \in Themes
    BY DEF Themes
  <2> HIDE DEF th
  <2> QED BY <2>1, <2>2, LoopBegins
<1>4. ASSUME NEW i \in DOMAIN passes, RD!Rendered(i) PROVE DrawInv'
  BY <1>4, RenderedKeeps
<1> QED BY <1>2, <1>3, <1>4 DEF RD!DrawNext

LEMMA DrawBegins ==
  ASSUME RD!ReaderInit
  PROVE  DrawInv
<1>1. /\ drawn = [d \in 1 .. Diagrams |-> [asked |-> "none", shows |-> "none"]]
      /\ passes = <<>> /\ theme = "light"
  BY Zenon DEF RD!ReaderInit
<1>2. DrawTyped
  BY <1>1, EmptySeq DEF DrawTyped, Themes
<1>3. DOMAIN passes = {}
  BY <1>1, EmptySeq, LenProperties
<1>4. \A d \in 1 .. Diagrams : drawn[d].asked = "none" /\ drawn[d].shows = "none"
  BY <1>1
<1>5. LastAsks /\ ThemeFollows
  BY <1>3, <1>4 DEF LastAsks, ThemeFollows
<1> QED BY <1>2, <1>5 DEF DrawInv

(* With nobody on the way every diagram was asked in the present theme.    *)
LEMMA DrawHolds ==
  ASSUME DrawInv
  PROVE  RD!DiagramsFollow
<1>1. ASSUME passes = <<>>, \E d \in 1 .. Diagrams : drawn[d].asked # "none",
             NEW d \in 1 .. Diagrams
      PROVE  drawn[d].shows = theme
  <2>1. DOMAIN passes = {}
    BY <1>1, EmptySeq, LenProperties
  <2>2. drawn[d].asked = theme
    BY <1>1, <2>1 DEF DrawInv, ThemeFollows, Reached
  <2>3. drawn[d].shows = drawn[d].asked
    BY <2>1 DEF DrawInv, LastAsks
  <2> QED BY <2>2, <2>3
<1> QED BY <1>1 DEF RD!DiagramsFollow

-----------------------------------------------------------------------------
(***************************************************************************)
(* The pages of a pdf.                                                     *)
(*                                                                         *)
(* A load of the present number is of the present file and there is one at *)
(* most, until the pages are made; pages that are there are of the present *)
(* number, and so is the document they are drawn from.                     *)
(***************************************************************************)
Load == [seq : Nat, data : Nat, got : BOOLEAN]
Slot == [seq : Nat, page : 1 .. Pages, near : BOOLEAN, marked : BOOLEAN, shows : Nat]
Render == [seq : Nat, page : 1 .. Pages, doc : Nat]
PdfTyped ==
  /\ pdf \in [seq : Nat, data : Nat, doc : Nat, rendering : BOOLEAN, error : BOOLEAN,
              dog : BOOLEAN, observed : BOOLEAN, failed : BOOLEAN]
  /\ slots \in Seq(Slot) /\ loads \subseteq Load /\ renders \subseteq Render
LoadsKnown ==
  /\ \A l \in loads : /\ l.seq <= pdf.seq
                      /\ l.seq = pdf.seq => l.data = pdf.data /\ slots = <<>>
                      /\ l.seq = pdf.seq /\ l.got => pdf.doc = pdf.data
  /\ \A l, m \in loads : l.seq = m.seq => l = m
  /\ (pdf.seq > 0 /\ pdf.rendering) => \E l \in loads : l.seq = pdf.seq
SlotsKnown ==
  /\ Len(slots) \in {0, Pages}
  /\ slots # <<>> => pdf.doc = pdf.data
  /\ \A r \in renders : r.seq <= pdf.seq /\ (r.seq = pdf.seq => r.doc = pdf.data)
  /\ \A i \in DOMAIN slots :
       /\ slots[i].seq = pdf.seq /\ slots[i].shows \in {RD!Nowhere, pdf.data}
       /\ slots[i].marked => slots[i].near
       /\ slots[i].near => \/ slots[i].shows = pdf.data \/ pdf.failed
                           \/ \E r \in renders : r.seq = slots[i].seq /\ r.page = slots[i].page
PdfInv == PdfTyped /\ LoadsKnown /\ SlotsKnown

(* A function of 1 .. n is a sequence of n.                                *)
LEMMA NumberedIsSeq ==
  ASSUME NEW S, NEW n \in Nat, NEW f \in [1 .. n -> S]
  PROVE  f \in Seq(S) /\ Len(f) = n /\ DOMAIN f = 1 .. n
<1>1. f \in Seq(S) /\ DOMAIN f = 1 .. n
  BY SeqDef
<1> QED BY <1>1, LenProperties

(* A sequence of slots, and what is known of each.                         *)
LEMMA SlotFacts ==
  ASSUME PdfTyped
  PROVE  /\ slots \in [1 .. Len(slots) -> Slot] /\ DOMAIN slots = 1 .. Len(slots)
         /\ Len(slots) \in Nat /\ (slots = <<>>) = (Len(slots) = 0)
  BY LenProperties, EmptySeq DEF PdfTyped

(* Another load begins.                                                    *)
LEMMA LoadBegins ==
  ASSUME PdfInv, NEW d \in Nat, RD!LoadPdf(d)
  PROVE  PdfInv'
<1> USE DEF PdfInv
<1> DEFINE n == pdf.seq + 1
           l == [seq |-> n, data |-> d, got |-> FALSE]
<1>1. pdf.seq \in Nat /\ n \in Nat /\ n > pdf.seq
  BY DEF PdfTyped
<1>2. /\ pdf' = [pdf EXCEPT !.seq = n, !.data = d, !.rendering = TRUE, !.error = FALSE,
                            !.dog = TRUE, !.failed = FALSE]
      /\ slots' = <<>> /\ loads' = loads \cup {l} /\ renders' = renders
  BY DEF RD!LoadPdf
<1>3. l \in Load /\ l.seq = n /\ l.data = d /\ ~l.got
  BY <1>1 DEF Load
<1> HIDE DEF n, l
<1>4. pdf'.seq = n /\ pdf'.data = d /\ pdf'.doc = pdf.doc
  BY <1>2 DEF PdfTyped
<1>5. PdfTyped'
  <2>1. pdf' \in [seq : Nat, data : Nat, doc : Nat, rendering : BOOLEAN, error : BOOLEAN,
                  dog : BOOLEAN, observed : BOOLEAN, failed : BOOLEAN]
    BY <1>1, <1>2 DEF PdfTyped
  <2>2. slots' \in Seq(Slot) /\ loads' \subseteq Load /\ renders' \subseteq Render
    BY <1>2, <1>3, EmptySeq DEF PdfTyped
  <2> QED BY <2>1, <2>2 DEF PdfTyped
<1>6. \A m \in loads : m.seq \in Nat /\ m.seq <= pdf.seq
  BY DEF LoadsKnown, PdfTyped, Load
<1>7. \A r \in renders : r.seq \in Nat /\ r.seq <= pdf.seq
  BY DEF SlotsKnown, PdfTyped, Render
<1>8. LoadsKnown'
  <2>1. \A m \in loads' : /\ m.seq <= n
                          /\ m.seq = n => m = l
    BY <1>1, <1>2, <1>3, <1>6
  <2>2. \A m, k \in loads' : m.seq = k.seq => m = k
    <3> SUFFICES ASSUME NEW m \in loads', NEW k \in loads', m.seq = k.seq
                 PROVE  m = k
      OBVIOUS
    <3>1. CASE m.seq = n
      BY <2>1, <3>1
    <3>2. CASE m.seq # n
      <4>1. m \in loads /\ k \in loads
        BY <1>2, <1>3, <3>2
      <4> QED BY <4>1 DEF LoadsKnown
    <3> QED BY <3>1, <3>2
  <2>3. \E m \in loads' : m.seq = n
    BY <1>2, <1>3
  <2> QED BY <1>2, <1>3, <1>4, <2>1, <2>2, <2>3 DEF LoadsKnown
<1>9. SlotsKnown'
  <2>1. \A r \in renders' : r.seq <= n /\ r.seq # n
    BY <1>1, <1>2, <1>7
  <2>2. Len(slots') = 0 /\ DOMAIN slots' = {} /\ slots' = <<>>
    BY <1>2, EmptySeq, LenProperties
  <2> QED BY <1>4, <2>1, <2>2 DEF SlotsKnown
<1> QED BY <1>5, <1>8, <1>9

(* A load gets its document, or is over because another began.             *)
LEMMA OpenedKeeps ==
  ASSUME PdfInv, NEW l \in loads, RD!Opened(l)
  PROVE  PdfInv'
<1> USE DEF PdfInv
<1> DEFINE g == [l EXCEPT !.got = TRUE]
<1>1. l \in Load /\ g \in Load /\ g.seq = l.seq /\ g.data = l.data
  BY DEF PdfTyped, Load
<1>2. slots' = slots /\ renders' = renders
  BY DEF RD!Opened
<1>3. CASE RD!Stale(l)
  <2>1. loads' = loads \ {l} /\ pdf' = pdf /\ l.seq # pdf.seq
    BY <1>3 DEF RD!Opened, RD!Stale
  <2>2. PdfTyped' /\ SlotsKnown'
    BY <1>2, <2>1 DEF PdfTyped, SlotsKnown
  <2>3. LoadsKnown'
    BY <1>2, <2>1 DEF LoadsKnown
  <2> QED BY <2>2, <2>3
<1>4. CASE ~RD!Stale(l)
  <2> DEFINE d == l.data
  <2>1. loads' = (loads \ {l}) \cup {g} /\ pdf' = [pdf EXCEPT !.doc = d] /\ l.seq = pdf.seq
    BY <1>4 DEF RD!Opened, RD!Stale
  <2>2. d = pdf.data /\ slots = <<>> /\ d \in Nat /\ g.data = d
    BY <1>1, <2>1 DEF LoadsKnown, Load
  <2> HIDE DEF g, d
  <2>3. /\ pdf' \in [seq : Nat, data : Nat, doc : Nat, rendering : BOOLEAN, error : BOOLEAN,
                     dog : BOOLEAN, observed : BOOLEAN, failed : BOOLEAN]
        /\ pdf'.seq = pdf.seq /\ pdf'.data = pdf.data /\ pdf'.doc = d
        /\ pdf'.rendering = pdf.rendering /\ pdf'.failed = pdf.failed
    BY <2>1, <2>2 DEF PdfTyped
  <2>4. PdfTyped'
    BY <1>1, <1>2, <2>1, <2>3 DEF PdfTyped
  <2>5. \A m \in loads' : m = g \/ (m \in loads /\ m.seq # pdf.seq)
    BY <2>1 DEF LoadsKnown
  <2>6. LoadsKnown'
    <3>1. \A m \in loads' : /\ m.seq <= pdf'.seq
                            /\ m.seq = pdf'.seq => m.data = pdf'.data /\ slots' = <<>>
                            /\ m.seq = pdf'.seq /\ m.got => pdf'.doc = pdf'.data
      <4> SUFFICES ASSUME NEW m \in loads'
                   PROVE  /\ m.seq <= pdf'.seq
                          /\ m.seq = pdf'.seq => m.data = pdf'.data /\ slots' = <<>>
                          /\ m.seq = pdf'.seq /\ m.got => pdf'.doc = pdf'.data
        OBVIOUS
      <4>1. l.seq <= pdf.seq
        BY DEF LoadsKnown
      <4>2. CASE m = g
        BY <1>1, <1>2, <2>1, <2>2, <2>3, <4>1, <4>2
      <4>3. CASE m \in loads /\ m.seq # pdf.seq
        BY <2>3, <4>3 DEF LoadsKnown
      <4> QED BY <2>5, <4>2, <4>3
    <3>2. \A m, k \in loads' : m.seq = k.seq => m = k
      <4>1. \A m, k \in loads : m.seq = k.seq => m = k
        BY DEF LoadsKnown
      <4> QED BY <1>1, <2>1, <2>5, <4>1
    <3>3. \E m \in loads' : m.seq = pdf'.seq
      BY <1>1, <2>1, <2>3
    <3> QED BY <3>1, <3>2, <3>3 DEF LoadsKnown
  <2>7. SlotsKnown'
    <3>1. Len(slots') = 0 /\ DOMAIN slots' = {} /\ slots' = <<>>
      BY <1>2, <2>2, EmptySeq, LenProperties
    <3>2. \A r \in renders : r.seq <= pdf.seq /\ (r.seq = pdf.seq => r.doc = pdf.data)
      BY DEF SlotsKnown
    <3> QED BY <1>2, <2>3, <3>1, <3>2 DEF SlotsKnown
  <2> QED BY <2>4, <2>6, <2>7
<1> QED BY <1>3, <1>4

(* A load that has its first page makes the slots, empty.                  *)
LEMMA FirstPageKeeps ==
  ASSUME PdfInv, NEW l \in loads, RD!FirstPage(l)
  PROVE  PdfInv'
<1> USE DEF PdfInv
<1>1. loads' = loads \ {l} /\ renders' = renders /\ l \in Load /\ l.got
  BY DEF RD!FirstPage, PdfTyped
<1>2. CASE RD!Stale(l)
  <2>1. pdf' = pdf /\ slots' = slots /\ l.seq # pdf.seq
    BY <1>2 DEF RD!FirstPage, RD!Stale
  <2>2. PdfTyped' /\ SlotsKnown'
    BY <1>1, <2>1 DEF PdfTyped, SlotsKnown
  <2>3. LoadsKnown'
    BY <1>1, <2>1 DEF LoadsKnown
  <2> QED BY <2>2, <2>3
<1>3. CASE ~RD!Stale(l)
  <2> DEFINE f == [i \in 1 .. Pages |-> [seq |-> l.seq, page |-> i, near |-> FALSE,
                                         marked |-> FALSE, shows |-> RD!Nowhere]]
  <2>1. /\ slots' = slots \o f /\ l.seq = pdf.seq
        /\ pdf' = [pdf EXCEPT !.rendering = FALSE, !.observed = TRUE]
    BY <1>3 DEF RD!FirstPage, RD!Stale
  <2>2. slots = <<>> /\ l.data = pdf.data /\ pdf.doc = pdf.data /\ l.seq \in Nat
    BY <1>1, <2>1 DEF LoadsKnown, Load
  <2>3. /\ f \in [1 .. Pages -> Slot]
        /\ \A i \in 1 .. Pages : /\ f[i].seq = l.seq /\ f[i].shows = RD!Nowhere
                                 /\ ~f[i].marked /\ ~f[i].near
    <3>1. RD!Nowhere \in Nat
      BY DEF RD!Nowhere
    <3> QED BY <2>2, <3>1 DEF Slot
  <2> HIDE DEF f
  <2>4. f \in Seq(Slot) /\ Len(f) = Pages /\ DOMAIN f = 1 .. Pages
    BY <2>3, NumberedIsSeq, PanelsAssumption
  <2>5. slots' = f
    BY <2>1, <2>2, <2>4, ConcatEmptySeq
  <2>6. /\ pdf' \in [seq : Nat, data : Nat, doc : Nat, rendering : BOOLEAN, error : BOOLEAN,
                     dog : BOOLEAN, observed : BOOLEAN, failed : BOOLEAN]
        /\ pdf'.seq = pdf.seq /\ pdf'.data = pdf.data /\ pdf'.doc = pdf.doc /\ ~pdf'.rendering
    BY <2>1 DEF PdfTyped
  <2>7. PdfTyped'
    BY <1>1, <2>4, <2>5, <2>6 DEF PdfTyped
  <2>8. LoadsKnown'
    <3>1. \A m \in loads' : m.seq <= pdf.seq /\ m.seq # pdf.seq
      BY <1>1, <2>1 DEF LoadsKnown
    <3>2. \A m, k \in loads' : m.seq = k.seq => m = k
      BY <1>1 DEF LoadsKnown
    <3> QED BY <2>6, <3>1, <3>2 DEF LoadsKnown
  <2>9. SlotsKnown'
    <3>1. \A r \in renders : r.seq <= pdf.seq /\ (r.seq = pdf.seq => r.doc = pdf.data)
      BY DEF SlotsKnown
    <3> QED BY <1>1, <2>1, <2>2, <2>3, <2>4, <2>5, <2>6, <3>1 DEF SlotsKnown
  <2> QED BY <2>7, <2>8, <2>9
<1> QED BY <1>2, <1>3

(* A load that fails, and the watchdog.                                    *)
LEMMA GivesUpKeeps ==
  ASSUME PdfInv, RD!Watchdog \/ \E l \in loads : RD!LoadFails(l)
  PROVE  PdfInv'
<1> USE DEF PdfInv
<1>1. CASE RD!Watchdog
  <2>1. /\ pdf' = [pdf EXCEPT !.dog = FALSE, !.error = TRUE, !.rendering = FALSE,
                              !.observed = FALSE]
        /\ slots' = slots /\ loads' = loads /\ renders' = renders
    BY <1>1 DEF RD!Watchdog
  <2>2. /\ PdfTyped' /\ pdf'.seq = pdf.seq /\ pdf'.data = pdf.data /\ pdf'.doc = pdf.doc
        /\ ~pdf'.rendering /\ pdf'.failed = pdf.failed
    BY <2>1 DEF PdfTyped
  <2>3. LoadsKnown'
    BY <2>1, <2>2 DEF LoadsKnown
  <2>4. SlotsKnown'
    BY <2>1, <2>2 DEF SlotsKnown
  <2> QED BY <2>2, <2>3, <2>4
<1>2. ASSUME NEW l \in loads, RD!LoadFails(l) PROVE PdfInv'
  <2> DEFINE e == pdf.error \/ ~RD!Stale(l)
             x == pdf.rendering /\ RD!Stale(l)
  <2>1. e \in BOOLEAN /\ x \in BOOLEAN
    BY DEF PdfTyped
  <2>2. /\ pdf' = [pdf EXCEPT !.dog = FALSE, !.error = e, !.rendering = x]
        /\ slots' = slots /\ loads' = loads \ {l} /\ renders' = renders
    BY <1>2 DEF RD!LoadFails
  <2>3. x => pdf.rendering /\ l.seq # pdf.seq
    BY DEF RD!Stale
  <2> HIDE DEF e, x
  <2>4. /\ PdfTyped' /\ pdf'.seq = pdf.seq /\ pdf'.data = pdf.data /\ pdf'.doc = pdf.doc
        /\ pdf'.rendering = x /\ pdf'.failed = pdf.failed
    BY <2>1, <2>2 DEF PdfTyped
  <2>5. (pdf.seq > 0 /\ x) => \E m \in loads' : m.seq = pdf.seq
    BY <2>2, <2>3 DEF LoadsKnown
  <2>6. LoadsKnown'
    BY <2>2, <2>4, <2>5 DEF LoadsKnown
  <2>7. SlotsKnown'
    BY <2>2, <2>4 DEF SlotsKnown
  <2> QED BY <2>4, <2>6, <2>7
<1> QED BY <1>1, <1>2

(* A step that leaves the loads, the file and its number alone, and the    *)
(* number of the slots.                                                    *)
LEMMA SlotStepKeeps ==
  ASSUME PdfInv, loads' = loads,
         pdf' \in [seq : Nat, data : Nat, doc : Nat, rendering : BOOLEAN, error : BOOLEAN,
                   dog : BOOLEAN, observed : BOOLEAN, failed : BOOLEAN],
         pdf'.seq = pdf.seq, pdf'.data = pdf.data, pdf'.doc = pdf.doc,
         pdf'.rendering = pdf.rendering,
         NEW s \in [1 .. Len(slots) -> Slot], slots' = s,
         renders' \subseteq Render,
         \A r \in renders' : r.seq <= pdf.seq /\ (r.seq = pdf.seq => r.doc = pdf.data),
         \A i \in 1 .. Len(slots) :
            /\ s[i].seq = pdf.seq /\ s[i].shows \in {RD!Nowhere, pdf.data}
            /\ s[i].marked => s[i].near
            /\ s[i].near => \/ s[i].shows = pdf.data \/ pdf'.failed
                            \/ \E r \in renders' : r.seq = s[i].seq /\ r.page = s[i].page
  PROVE  PdfInv'
<1> USE DEF PdfInv
<1>1. /\ Len(slots) \in Nat /\ (slots = <<>>) = (Len(slots) = 0)
  BY SlotFacts
<1>2. s \in Seq(Slot) /\ Len(s) = Len(slots) /\ DOMAIN s = 1 .. Len(slots)
  BY <1>1, NumberedIsSeq
<1>3. (s = <<>>) = (slots = <<>>)
  BY <1>1, <1>2, EmptySeq, LenProperties
<1>4. PdfTyped'
  BY <1>2 DEF PdfTyped
<1>5. LoadsKnown'
  BY <1>3 DEF LoadsKnown
<1>6. SlotsKnown'
  BY <1>2, <1>3 DEF SlotsKnown
<1> QED BY <1>4, <1>5, <1>6

(* What a slot draws is of the file on show.                               *)
LEMMA StartsFresh ==
  ASSUME PdfInv, NEW i \in DOMAIN slots
  PROVE  /\ RD!Starts(i) \in Render /\ RD!Starts(i).seq = pdf.seq
         /\ RD!Starts(i).doc = pdf.data /\ RD!Starts(i).page = slots[i].page
         /\ RD!Starts(i).seq = slots[i].seq
<1>1. slots \in [1 .. Len(slots) -> Slot] /\ DOMAIN slots = 1 .. Len(slots) /\ slots # <<>>
  BY SlotFacts DEF PdfInv
<1>2. slots[i] \in Slot /\ slots[i].seq = pdf.seq /\ pdf.doc = pdf.data
  BY <1>1 DEF PdfInv, SlotsKnown
<1> QED BY <1>2 DEF RD!Starts, Render, Slot, PdfInv, PdfTyped

(* A page comes near and is drawn, or goes away and is dropped.            *)
LEMMA PageKeeps ==
  ASSUME PdfInv, NEW i \in DOMAIN slots, RD!Nears(i) \/ RD!Leaves(i)
  PROVE  PdfInv'
<1>1. /\ slots \in [1 .. Len(slots) -> Slot] /\ DOMAIN slots = 1 .. Len(slots)
      /\ PdfTyped /\ SlotsKnown
  BY SlotFacts DEF PdfInv
<1>2. /\ \A j \in 1 .. Len(slots) :
           /\ slots[j] \in Slot
           /\ slots[j].seq = pdf.seq /\ slots[j].shows \in {RD!Nowhere, pdf.data}
           /\ slots[j].marked => slots[j].near
           /\ slots[j].near => \/ slots[j].shows = pdf.data \/ pdf.failed
                               \/ \E r \in renders : r.seq = slots[j].seq /\ r.page = slots[j].page
      /\ \A r \in renders : r.seq <= pdf.seq /\ (r.seq = pdf.seq => r.doc = pdf.data)
      /\ pdf.seq \in Nat
  BY <1>1 DEF SlotsKnown, PdfTyped
<1>3. CASE RD!Nears(i)
  <2> DEFINE t == RD!Starts(i)
             v == [slots[i] EXCEPT !.near = TRUE, !.marked = TRUE]
             s == [slots EXCEPT ![i] = v]
  <2>1. /\ ~slots[i].near /\ pdf' = pdf /\ loads' = loads
        /\ renders' = IF slots[i].marked THEN renders ELSE renders \cup {t}
        /\ slots' = [slots EXCEPT ![i].near = TRUE, ![i].marked = TRUE]
    BY <1>3 DEF RD!Nears
  <2>2. renders' = renders \cup {t}
    BY <1>1, <1>2, <2>1
  <2>3. t \in Render /\ t.seq = pdf.seq /\ t.doc = pdf.data /\ t.page = slots[i].page
    BY StartsFresh
  <2>4. /\ v \in Slot /\ v.seq = pdf.seq /\ v.page = slots[i].page /\ v.near
        /\ v.shows \in {RD!Nowhere, pdf.data}
    BY <1>1, <1>2 DEF Slot
  <2>5. slots' = s
    BY <1>1, <1>2, <2>1 DEF Slot
  <2> HIDE DEF t, v
  <2>6. /\ s \in [1 .. Len(slots) -> Slot]
        /\ s[i] = v /\ \A j \in 1 .. Len(slots) : j # i => s[j] = slots[j]
    BY <1>1, <2>4
  <2> HIDE DEF s
  <2>7. /\ renders' \subseteq Render
        /\ \A r \in renders' : r.seq <= pdf.seq /\ (r.seq = pdf.seq => r.doc = pdf.data)
    BY <1>1, <1>2, <2>2, <2>3 DEF PdfTyped
  <2>8. ASSUME NEW j \in 1 .. Len(slots)
        PROVE  /\ s[j].seq = pdf.seq /\ s[j].shows \in {RD!Nowhere, pdf.data}
               /\ s[j].marked => s[j].near
               /\ s[j].near => \/ s[j].shows = pdf.data \/ pdf'.failed
                               \/ \E r \in renders' : r.seq = s[j].seq /\ r.page = s[j].page
    <3>1. CASE j = i
      BY <2>2, <2>3, <2>4, <2>6, <3>1
    <3>2. CASE j # i
      BY <1>2, <2>1, <2>2, <2>6, <3>2
    <3> QED BY <3>1, <3>2
  <2> QED BY <1>1, <2>1, <2>5, <2>6, <2>7, <2>8, SlotStepKeeps DEF PdfTyped
<1>4. CASE RD!Leaves(i)
  <2> DEFINE w == IF slots[i].marked THEN RD!Nowhere ELSE slots[i].shows
             v == [slots[i] EXCEPT !.near = FALSE, !.marked = FALSE, !.shows = w]
             s == [slots EXCEPT ![i] = v]
  <2>1. /\ pdf' = pdf /\ loads' = loads /\ renders' = renders
        /\ slots' = [slots EXCEPT ![i].near = FALSE, ![i].marked = FALSE, ![i].shows = w]
    BY <1>4 DEF RD!Leaves
  <2>2. w \in Nat /\ w \in {RD!Nowhere, pdf.data}
    <3>1. RD!Nowhere \in Nat
      BY DEF RD!Nowhere
    <3>2. slots[i].shows \in Nat
      BY <1>1 DEF Slot
    <3> QED BY <1>1, <1>2, <3>1, <3>2
  <2> HIDE DEF w
  <2>3. /\ v \in Slot /\ v.seq = pdf.seq /\ ~v.near /\ ~v.marked /\ v.shows = w
    BY <1>1, <1>2, <2>2 DEF Slot
  <2>4. slots' = s
    BY <1>1, <1>2, <2>1 DEF Slot
  <2> HIDE DEF v
  <2>5. /\ s \in [1 .. Len(slots) -> Slot]
        /\ s[i] = v /\ \A j \in 1 .. Len(slots) : j # i => s[j] = slots[j]
    BY <1>1, <2>3
  <2> HIDE DEF s
  <2>6. ASSUME NEW j \in 1 .. Len(slots)
        PROVE  /\ s[j].seq = pdf.seq /\ s[j].shows \in {RD!Nowhere, pdf.data}
               /\ s[j].marked => s[j].near
               /\ s[j].near => \/ s[j].shows = pdf.data \/ pdf'.failed
                               \/ \E r \in renders' : r.seq = s[j].seq /\ r.page = s[j].page
    <3>1. CASE j = i
      BY <2>2, <2>3, <2>5, <3>1
    <3>2. CASE j # i
      BY <1>2, <2>1, <2>5, <3>2
    <3> QED BY <3>1, <3>2
  <2>7. /\ renders' \subseteq Render
        /\ \A r \in renders' : r.seq <= pdf.seq /\ (r.seq = pdf.seq => r.doc = pdf.data)
    BY <1>1, <1>2, <2>1 DEF PdfTyped
  <2> QED BY <1>1, <2>1, <2>4, <2>5, <2>6, <2>7, SlotStepKeeps DEF PdfTyped
<1> QED BY <1>3, <1>4

(* What was drawn for a page is put in its slot, if it is there still.     *)
LEMMA PageDrawnKeeps ==
  ASSUME PdfInv, NEW r \in renders, NEW ok \in BOOLEAN, RD!PageDrawn(r, ok)
  PROVE  PdfInv'
<1>1. /\ slots \in [1 .. Len(slots) -> Slot] /\ DOMAIN slots = 1 .. Len(slots)
      /\ PdfTyped /\ SlotsKnown
  BY SlotFacts DEF PdfInv
<1>2. /\ \A j \in 1 .. Len(slots) :
           /\ slots[j] \in Slot
           /\ slots[j].seq = pdf.seq /\ slots[j].shows \in {RD!Nowhere, pdf.data}
           /\ slots[j].marked => slots[j].near
           /\ slots[j].near => \/ slots[j].shows = pdf.data \/ pdf.failed
                               \/ \E q \in renders : q.seq = slots[j].seq /\ q.page = slots[j].page
      /\ \A q \in renders : q.seq <= pdf.seq /\ (q.seq = pdf.seq => q.doc = pdf.data)
      /\ pdf.seq \in Nat
  BY <1>1 DEF SlotsKnown, PdfTyped
<1> DEFINE Of(j) == slots[j].seq = r.seq /\ slots[j].page = r.page
           s == [j \in 1 .. Len(slots) |->
                   IF ~Of(j) THEN slots[j]
                   ELSE IF ok THEN [slots[j] EXCEPT !.shows = r.doc]
                   ELSE [slots[j] EXCEPT !.marked = FALSE]]
           g == pdf.dog /\ ~(ok /\ r.page = 1)
           f == pdf.failed \/ ~ok
<1>3. /\ renders' = renders \ {r} /\ loads' = loads
      /\ pdf' = [pdf EXCEPT !.dog = g, !.failed = f]
  BY DEF RD!PageDrawn
<1>4. slots' = s
  BY <1>1, Zenon DEF RD!PageDrawn
<1>5. g \in BOOLEAN /\ f \in BOOLEAN /\ (f <=> pdf.failed \/ ~ok)
  BY <1>1 DEF PdfTyped
<1> HIDE DEF g, f
<1>6. /\ pdf' \in [seq : Nat, data : Nat, doc : Nat, rendering : BOOLEAN, error : BOOLEAN,
                   dog : BOOLEAN, observed : BOOLEAN, failed : BOOLEAN]
      /\ pdf'.seq = pdf.seq /\ pdf'.data = pdf.data /\ pdf'.doc = pdf.doc
      /\ pdf'.rendering = pdf.rendering /\ pdf'.failed = f
  BY <1>1, <1>3, <1>5 DEF PdfTyped
<1>7. r \in Render /\ r.doc \in Nat /\ (r.seq = pdf.seq => r.doc = pdf.data)
  BY <1>1, <1>2 DEF PdfTyped, Render
<1>8. ASSUME NEW j \in 1 .. Len(slots)
      PROVE  /\ s[j] \in Slot
             /\ s[j].seq = pdf.seq /\ s[j].shows \in {RD!Nowhere, pdf.data}
             /\ s[j].marked => s[j].near
             /\ s[j].near => \/ s[j].shows = pdf.data \/ pdf'.failed
                             \/ \E q \in renders' : q.seq = s[j].seq /\ q.page = s[j].page
  <2>1. CASE ~Of(j)
    <3>1. s[j] = slots[j]
      BY <2>1
    <3>2. \A q \in renders : q.seq = slots[j].seq /\ q.page = slots[j].page => q \in renders'
      BY <1>3, <2>1
    <3> HIDE DEF s, Of
    <3> QED BY <1>2, <1>5, <1>6, <3>1, <3>2
  <2>2. CASE Of(j) /\ ok
    <3>1. s[j] = [slots[j] EXCEPT !.shows = r.doc] /\ r.doc = pdf.data
      BY <1>2, <1>7, <2>2
    <3> HIDE DEF s, Of
    <3>2. /\ s[j] \in Slot /\ s[j].seq = slots[j].seq /\ s[j].shows = pdf.data
          /\ s[j].marked = slots[j].marked /\ s[j].near = slots[j].near
      BY <1>2, <1>7, <3>1 DEF Slot
    <3> QED BY <1>2, <3>2
  <2>3. CASE Of(j) /\ ~ok
    <3>1. s[j] = [slots[j] EXCEPT !.marked = FALSE] /\ f
      BY <1>5, <2>3
    <3> HIDE DEF s, Of
    <3>2. /\ s[j] \in Slot /\ s[j].seq = slots[j].seq /\ s[j].shows = slots[j].shows
          /\ ~s[j].marked
      BY <1>2, <3>1 DEF Slot
    <3> QED BY <1>2, <1>6, <3>1, <3>2
  <2> QED BY <2>1, <2>2, <2>3
<1>9. s \in [1 .. Len(slots) -> Slot]
  <2>1. \A j \in 1 .. Len(slots) : s[j] \in Slot
    BY <1>8
  <2> QED BY <2>1
<1>10. /\ renders' \subseteq Render
       /\ \A q \in renders' : q.seq <= pdf.seq /\ (q.seq = pdf.seq => q.doc = pdf.data)
  BY <1>1, <1>2, <1>3 DEF PdfTyped
<1> HIDE DEF s
<1> QED BY <1>3, <1>4, <1>6, <1>8, <1>9, <1>10, SlotStepKeeps

(* Zoomed, every page near is drawn again.                                 *)
LEMMA RerenderKeeps ==
  ASSUME PdfInv, RD!Rerender
  PROVE  PdfInv'
<1>1. /\ slots \in [1 .. Len(slots) -> Slot] /\ DOMAIN slots = 1 .. Len(slots)
      /\ PdfTyped /\ SlotsKnown
  BY SlotFacts DEF PdfInv
<1>2. /\ \A j \in 1 .. Len(slots) :
           /\ slots[j] \in Slot
           /\ slots[j].seq = pdf.seq /\ slots[j].shows \in {RD!Nowhere, pdf.data}
      /\ \A q \in renders : q.seq <= pdf.seq /\ (q.seq = pdf.seq => q.doc = pdf.data)
      /\ pdf.seq \in Nat
  BY <1>1 DEF SlotsKnown, PdfTyped
<1> DEFINE s == [j \in 1 .. Len(slots) |-> [slots[j] EXCEPT !.marked = slots[j].near]]
<1>3. /\ slots' = s /\ pdf' = pdf /\ loads' = loads
      /\ renders' = renders \cup {RD!Starts(i) : i \in {j \in DOMAIN slots : slots[j].near}}
  BY <1>1 DEF RD!Rerender
<1>4. \A j \in 1 .. Len(slots) :
         /\ s[j] \in Slot /\ s[j].seq = slots[j].seq /\ s[j].page = slots[j].page
         /\ s[j].shows = slots[j].shows /\ s[j].near = slots[j].near /\ (s[j].marked => s[j].near)
  BY <1>2 DEF Slot
<1>5. s \in [1 .. Len(slots) -> Slot]
  BY <1>4
<1>6. \A j \in DOMAIN slots :
         /\ RD!Starts(j) \in Render /\ RD!Starts(j).seq = pdf.seq
         /\ RD!Starts(j).doc = pdf.data /\ RD!Starts(j).page = slots[j].page
         /\ RD!Starts(j).seq = slots[j].seq
  BY StartsFresh
<1> HIDE DEF s
<1>7. /\ renders' \subseteq Render
      /\ \A q \in renders' : q.seq <= pdf.seq /\ (q.seq = pdf.seq => q.doc = pdf.data)
  BY <1>1, <1>2, <1>3, <1>6 DEF PdfTyped
<1>8. ASSUME NEW j \in 1 .. Len(slots)
      PROVE  /\ s[j].seq = pdf.seq /\ s[j].shows \in {RD!Nowhere, pdf.data}
             /\ s[j].marked => s[j].near
             /\ s[j].near => \E q \in renders' : q.seq = s[j].seq /\ q.page = s[j].page
  <2>1. slots[j].near => RD!Starts(j) \in renders'
    BY <1>1, <1>3
  <2>2. slots[j].near => \E q \in renders' : q.seq = slots[j].seq /\ q.page = slots[j].page
    BY <1>1, <1>6, <2>1
  <2> QED BY <1>2, <1>4, <2>2
<1> QED BY <1>1, <1>3, <1>5, <1>7, <1>8, SlotStepKeeps DEF PdfTyped

(* A step of the pdf view keeps what is known of it.                       *)
LEMMA PdfInvKept ==
  ASSUME PdfInv, RD!PdfNext
  PROVE  PdfInv'
<1>1. ASSUME RD!PdfMounts \/ RD!DataChanges PROVE PdfInv'
  <2>1. pdf.data \in Nat
    BY DEF PdfInv, PdfTyped
  <2>2. 0 \in Nat /\ pdf.data + 1 \in Nat
    BY <2>1
  <2> QED BY <1>1, <2>2, LoadBegins DEF RD!PdfMounts, RD!DataChanges
<1>2. ASSUME NEW l \in loads, RD!Opened(l) \/ RD!FirstPage(l) \/ RD!LoadFails(l) PROVE PdfInv'
  BY <1>2, OpenedKeeps, FirstPageKeeps, GivesUpKeeps
<1>3. ASSUME NEW i \in DOMAIN slots, RD!Nears(i) \/ RD!Leaves(i) PROVE PdfInv'
  BY <1>3, PageKeeps
<1>4. ASSUME NEW r \in renders, NEW ok \in BOOLEAN, RD!PageDrawn(r, ok) PROVE PdfInv'
  BY <1>4, PageDrawnKeeps
<1> QED BY <1>1, <1>2, <1>3, <1>4, GivesUpKeeps, RerenderKeeps DEF RD!PdfNext

LEMMA PdfBegins ==
  ASSUME RD!ReaderInit
  PROVE  PdfInv
<1> DEFINE n == RD!Nowhere
<1>1. /\ pdf = [seq |-> 0, data |-> 0, doc |-> n, rendering |-> TRUE, error |-> FALSE,
                dog |-> FALSE, observed |-> FALSE, failed |-> FALSE]
      /\ slots = <<>> /\ loads = {} /\ renders = {}
  BY Zenon DEF RD!ReaderInit
<1>2. n \in Nat
  BY DEF RD!Nowhere
<1> HIDE DEF n
<1>3. PdfTyped
  BY <1>1, <1>2, EmptySeq DEF PdfTyped
<1>4. Len(slots) = 0 /\ DOMAIN slots = {} /\ slots = <<>>
  BY <1>1, EmptySeq, LenProperties
<1>5. LoadsKnown /\ SlotsKnown
  BY <1>1, <1>4 DEF LoadsKnown, SlotsKnown
<1> QED BY <1>3, <1>5 DEF PdfInv

(* What is on show is of the file on show.                                 *)
LEMMA PdfHolds ==
  ASSUME PdfInv
  PROVE  RD!PdfShowsItsFile
<1>1. /\ \A i \in DOMAIN slots : slots[i].shows \in {RD!Nowhere, pdf.data}
      /\ Len(slots) \in {0, Pages}
      /\ (pdf.seq > 0 /\ pdf.rendering) => \E l \in loads : l.seq = pdf.seq
  BY DEF PdfInv, SlotsKnown, LoadsKnown
<1>2. (renders = {} /\ ~pdf.failed)
        => \A i \in DOMAIN slots : slots[i].near => slots[i].shows = pdf.data
  BY DEF PdfInv, SlotsKnown
<1> QED BY <1>1, <1>2 DEF RD!PdfShowsItsFile

-----------------------------------------------------------------------------
(***************************************************************************)
(* The reader in the run.                                                  *)
(***************************************************************************)
ReaderInv == PlaceInv /\ DrawInv /\ PdfInv

LEMMA ReaderInvInductive == PanelsSpec => []ReaderInv
<1>1. PanelsInit => ReaderInv
  BY PlaceBegins, DrawBegins, PdfBegins DEF PanelsInit, ReaderInv
<1>2. ASSUME ReaderInv, [PanelsNext]_<<focus, tsVars, pdVars, ovVars, ubVars, stVars, rdVars>>
      PROVE  ReaderInv'
  <2>1. PlaceInv /\ DrawInv /\ PdfInv
    BY <1>2 DEF ReaderInv
  <2>2. ASSUME UNCHANGED <<reader, find, frame>> PROVE PlaceInv'
    BY <2>1, <2>2 DEF PlaceInv, PlaceKnown, Led, FindFollows, Current, FrameAsked, RD!LineTop,
      RD!Bottom
  <2>3. ASSUME UNCHANGED <<drawn, passes, theme>> PROVE DrawInv'
    BY <2>1, <2>3 DEF DrawInv, DrawTyped, LastAsks, ThemeFollows, Follows, Reached
  <2>4. ASSUME UNCHANGED <<pdf, slots, loads, renders>> PROVE PdfInv'
    BY <2>1, <2>4 DEF PdfInv, PdfTyped, LoadsKnown, SlotsKnown
  <2>5. CASE UNCHANGED rdVars
    BY <2>2, <2>3, <2>4, <2>5 DEF rdVars, ReaderInv
  <2>6. CASE RD!PlaceNext
    <3>1. UNCHANGED <<drawn, passes, theme>> /\ UNCHANGED <<pdf, slots, loads, renders>>
      BY <2>6 DEF RD!PlaceNext, RD!diagramVars, RD!pdfVars
    <3> QED BY <2>1, <2>3, <2>4, <2>6, <3>1, PlaceInvKept DEF ReaderInv
  <2>7. CASE RD!DrawNext
    <3>1. UNCHANGED <<reader, find, frame>> /\ UNCHANGED <<pdf, slots, loads, renders>>
      BY <2>7 DEF RD!DrawNext, RD!readingVars, RD!pdfVars
    <3> QED BY <2>1, <2>2, <2>4, <2>7, <3>1, DrawInvKept DEF ReaderInv
  <2>8. CASE RD!PdfNext
    <3>1. UNCHANGED <<reader, find, frame>> /\ UNCHANGED <<drawn, passes, theme>>
      BY <2>8 DEF RD!PdfNext, RD!readingVars, RD!diagramVars
    <3> QED BY <2>1, <2>2, <2>3, <2>8, <3>1, PdfInvKept DEF ReaderInv
  <2> QED BY <1>2, <2>5, <2>6, <2>7, <2>8 DEF PanelsNext
<1> QED BY <1>1, <1>2, PTL DEF PanelsSpec

(* Of every document a reader shows: hidden and shown again it is where    *)
(* its owner knew it to be, and a line that a link named stays in place as *)
(* the layout settles; the matches shown are of what is searched for, or   *)
(* gone since a link named another line; once nothing is drawn every       *)
(* diagram is in the theme chosen last; and the pages of a pdf are of the  *)
(* file on show (FilePreview.vue, markdownEnhance.ts, PdfPreview.vue).     *)
THEOREM ReaderKeepsItsPlace == PanelsSpec => []ReaderHolds
<1>1. ReaderInv => ReaderHolds
  BY PlaceHolds, DrawHolds, PdfHolds DEF ReaderInv, ReaderHolds, RD!ReaderHolds
<1> QED BY <1>1, ReaderInvInductive, PTL

-----------------------------------------------------------------------------
(***************************************************************************)
(* The selection of a phone.                                               *)
(*                                                                         *)
(* An anchor is where it was placed in the text, but for the lines gone    *)
(* since; when none is, what is selected is between the two, unless xterm  *)
(* dropped it.  Without the overlay no gesture is under way but a press    *)
(* that nobody can end, and that one has moved.                            *)
(***************************************************************************)
Anchor == [row : Int, col : Int]
States == {"IDLE", "NO_ANCHOR", "HAS_ANCHOR_1", "HAS_BOTH"}
MachineKnown ==
  /\ buffer \in [len : Int, gone : Int, y : Int] /\ state \in States /\ lastPlaced \in {1, 2}
  /\ DOMAIN anchors = {1, 2} /\ DOMAIN placed = {1, 2}
  /\ state \in {"HAS_ANCHOR_1", "HAS_BOTH"} => anchors[1] # NoAnchor
  /\ state = "HAS_BOTH" => anchors[2] # NoAnchor
AimedAt(a, p) == p = [at |-> [line |-> buffer.gone + a.row, col |-> a.col], gone |-> buffer.gone]
AnchorKnown(i) ==
  anchors[i] # NoAnchor =>
    \E g \in Int : /\ g <= buffer.gone /\ anchors[i] \in Anchor
                   /\ placed[i] = [at |-> [line |-> g + anchors[i].row, col |-> anchors[i].col],
                                   gone |-> g]
SelectionFollows ==
  (/\ anchors[1] # NoAnchor /\ anchors[2] # NoAnchor /\ selected # {}
   /\ placed[1].gone = buffer.gone /\ placed[2].gone = buffer.gone)
    => selected = TS!Span(placed[1].at, placed[2].at)
GestureKnown ==
  /\ gesture \in [fingers : Int, moved : BOOLEAN, long : BOOLEAN, orphan : BOOLEAN,
                  held : BOOLEAN, taps : Int]
  /\ overlayMounted \in BOOLEAN
  /\ ~overlayMounted => gesture.fingers = 0 /\ gesture.moved /\ ~gesture.long /\ gesture.taps = 0
AnchorsKnown == MachineKnown /\ AnchorKnown(1) /\ AnchorKnown(2)
TouchInv == AnchorsKnown /\ SelectionFollows /\ GestureKnown

(* Where a cell of the window is in the text.                              *)
LEMMA AimIsTrue ==
  ASSUME MachineKnown, NEW r \in Int, NEW c \in Int
  PROVE  /\ [row |-> r, col |-> c] \in Anchor
         /\ AimedAt([row |-> r, col |-> c], TS!Here(r, c))
         /\ [row |-> r, col |-> c] # NoAnchor
<1>1. [row |-> r, col |-> c] \in Anchor
  BY DEF Anchor
<1> QED BY <1>1, PanelsAssumption DEF AimedAt, TS!Here, TS!TextAt, Anchor

LEMMA CellAimed ==
  ASSUME MachineKnown, NEW cell \in TS!Cells
  PROVE  /\ TS!AnchorAt(cell) \in Anchor /\ AimedAt(TS!AnchorAt(cell), TS!Aimed(cell))
<1>1. cell.row \in Int /\ cell.col \in Int
  BY PanelsAssumption DEF TS!Cells
<1>2. buffer.y + cell.row \in Int
  BY <1>1 DEF MachineKnown
<1> QED BY <1>1, <1>2, AimIsTrue DEF TS!AnchorAt, TS!BufferRow, TS!Aimed

(* An anchor that was placed is known.                                     *)
LEMMA PlacedIsKnown ==
  ASSUME MachineKnown, NEW i \in {1, 2}, NEW a \in Anchor, NEW p, AimedAt(a, p),
         anchors'[i] = a, placed'[i] = p, buffer'.gone = buffer.gone
  PROVE  AnchorKnown(i)'
<1>1. buffer.gone \in Int
  BY DEF MachineKnown
<1> QED BY <1>1 DEF AnchorKnown, AimedAt

LEMMA SameAnchor ==
  ASSUME NEW i \in {1, 2}, AnchorKnown(i), anchors'[i] = anchors[i], placed'[i] = placed[i],
         buffer'.gone = buffer.gone
  PROVE  AnchorKnown(i)'
BY DEF AnchorKnown

LEMMA NotAnAnchor == \A a \in Anchor : a # NoAnchor
BY PanelsAssumption DEF Anchor

(* What may become of the buffer while anchors are placed.                 *)
Scrolls == buffer' \in [len : Int, gone : Int, y : Int] /\ buffer'.gone = buffer.gone

LEMMA OneIsPlaced ==
  ASSUME AnchorsKnown, Scrolls, NEW a \in Anchor, NEW p, AimedAt(a, p), NEW i \in {1, 2},
         NEW last \in {1, 2}, NEW st \in States,
         TS!Anchored([anchors EXCEPT ![i] = a], [placed EXCEPT ![i] = p], last, st),
         st \in {"HAS_ANCHOR_1", "HAS_BOTH"} /\ i # 1 => anchors[1] # NoAnchor,
         st = "HAS_BOTH" /\ i # 2 => anchors[2] # NoAnchor
  PROVE  AnchorsKnown'
<1>1. /\ anchors' = [anchors EXCEPT ![i] = a] /\ placed' = [placed EXCEPT ![i] = p]
      /\ lastPlaced' = last /\ state' = st
  BY DEF TS!Anchored
<1>2. MachineKnown /\ DOMAIN anchors = {1, 2} /\ DOMAIN placed = {1, 2}
  BY DEF AnchorsKnown, MachineKnown
<1>3. /\ DOMAIN anchors' = {1, 2} /\ DOMAIN placed' = {1, 2}
      /\ anchors'[i] = a /\ placed'[i] = p
      /\ \A j \in {1, 2} : j # i => anchors'[j] = anchors[j] /\ placed'[j] = placed[j]
  BY <1>1, <1>2
<1>4. a # NoAnchor
  BY NotAnAnchor
<1>5. MachineKnown'
  <2>1. st \in {"HAS_ANCHOR_1", "HAS_BOTH"} => anchors'[1] # NoAnchor
    BY <1>3, <1>4
  <2>2. st = "HAS_BOTH" => anchors'[2] # NoAnchor
    BY <1>3, <1>4
  <2> QED BY <1>1, <1>3, <2>1, <2>2 DEF MachineKnown, Scrolls
<1>6. ASSUME NEW j \in {1, 2} PROVE AnchorKnown(j)'
  <2>1. CASE j = i
    BY <1>2, <1>3, <2>1, PlacedIsKnown DEF Scrolls
  <2>2. CASE j # i
    <3>1. AnchorKnown(j)
      BY DEF AnchorsKnown
    <3> QED BY <1>3, <2>2, <3>1, SameAnchor DEF Scrolls
  <2> QED BY <2>1, <2>2
<1> QED BY <1>5, <1>6 DEF AnchorsKnown

(* The operations of the anchors.                                          *)
LEMMA AnchorsStay ==
  ASSUME AnchorsKnown, Scrolls, UNCHANGED TS!anchorVars
  PROVE  AnchorsKnown'
<1>1. anchors' = anchors /\ placed' = placed /\ state' = state /\ lastPlaced' = lastPlaced
  BY DEF TS!anchorVars
<1>2. MachineKnown'
  BY <1>1 DEF AnchorsKnown, MachineKnown, Scrolls
<1>3. AnchorKnown(1)' /\ AnchorKnown(2)'
  BY <1>1 DEF AnchorsKnown, AnchorKnown, Scrolls
<1> QED BY <1>2, <1>3 DEF AnchorsKnown

LEMMA FirstPlaced ==
  ASSUME AnchorsKnown, Scrolls, NEW a \in Anchor, NEW p, AimedAt(a, p), TS!PlaceAnchor1(a, p)
  PROVE  AnchorsKnown'
<1> DEFINE st == IF anchors[2] # NoAnchor THEN "HAS_BOTH" ELSE "HAS_ANCHOR_1"
<1>1. TS!Anchored([anchors EXCEPT ![1] = a], [placed EXCEPT ![1] = p], 1, st)
  BY DEF TS!PlaceAnchor1
<1>2. st \in States /\ (st = "HAS_BOTH" => anchors[2] # NoAnchor)
  BY DEF States
<1> HIDE DEF st
<1> QED BY <1>1, <1>2, OneIsPlaced

LEMMA SecondPlaced ==
  ASSUME AnchorsKnown, Scrolls, NEW a \in Anchor, NEW p, AimedAt(a, p), TS!PlaceAnchor2(a, p)
  PROVE  AnchorsKnown'
<1>1. CASE state \in {"IDLE", "NO_ANCHOR"}
  BY <1>1, AnchorsStay DEF TS!PlaceAnchor2
<1>2. CASE state \notin {"IDLE", "NO_ANCHOR"}
  <2>1. TS!Anchored([anchors EXCEPT ![2] = a], [placed EXCEPT ![2] = p], 2, "HAS_BOTH")
    BY <1>2 DEF TS!PlaceAnchor2
  <2>2. anchors[1] # NoAnchor /\ "HAS_BOTH" \in States
    BY <1>2 DEF AnchorsKnown, MachineKnown, States
  <2> QED BY <2>1, <2>2, OneIsPlaced
<1> QED BY <1>1, <1>2

LEMMA NearestMoved ==
  ASSUME AnchorsKnown, Scrolls, NEW a \in Anchor, NEW p, AimedAt(a, p),
         TS!MoveNearestAnchor(a, p)
  PROVE  AnchorsKnown'
<1> DEFINE i == IF state = "HAS_ANCHOR_1" THEN 1 ELSE lastPlaced
<1>1. TS!Anchored([anchors EXCEPT ![i] = a], [placed EXCEPT ![i] = p], lastPlaced, state)
  BY DEF TS!MoveNearestAnchor
<1>2. i \in {1, 2} /\ lastPlaced \in {1, 2} /\ state \in States
  BY DEF AnchorsKnown, MachineKnown
<1>3. /\ state \in {"HAS_ANCHOR_1", "HAS_BOTH"} => anchors[1] # NoAnchor
      /\ state = "HAS_BOTH" => anchors[2] # NoAnchor
  BY DEF AnchorsKnown, MachineKnown
<1> HIDE DEF i
<1> QED BY <1>1, <1>2, <1>3, OneIsPlaced

LEMMA AnchorsGo ==
  ASSUME AnchorsKnown, Scrolls, TS!Cancel
  PROVE  AnchorsKnown' /\ anchors'[1] = NoAnchor
<1>1. /\ anchors' = [i \in {1, 2} |-> NoAnchor] /\ placed' = [i \in {1, 2} |-> NoAnchor]
      /\ lastPlaced' = lastPlaced /\ state' = "IDLE"
  BY DEF TS!Cancel, TS!Anchored, TS!None
<1>2. MachineKnown'
  BY <1>1 DEF AnchorsKnown, MachineKnown, Scrolls, States
<1> QED BY <1>1, <1>2 DEF AnchorsKnown, AnchorKnown

LEMMA Freshly ==
  ASSUME AnchorsKnown, Scrolls, NEW a \in Anchor, NEW p, AimedAt(a, p), TS!FreshAnchor(a, p)
  PROVE  AnchorsKnown'
<1>1. /\ anchors' = [[i \in {1, 2} |-> NoAnchor] EXCEPT ![1] = a]
      /\ placed' = [[i \in {1, 2} |-> NoAnchor] EXCEPT ![1] = p]
      /\ lastPlaced' = 1 /\ state' = "HAS_ANCHOR_1"
  BY DEF TS!FreshAnchor, TS!Anchored, TS!None
<1>2. /\ DOMAIN anchors' = {1, 2} /\ DOMAIN placed' = {1, 2}
      /\ anchors'[1] = a /\ placed'[1] = p /\ anchors'[2] = NoAnchor
  BY <1>1
<1>3. MachineKnown'
  BY <1>1, <1>2, NotAnAnchor DEF MachineKnown, Scrolls, States
<1>4. AnchorKnown(1)'
  BY <1>2, PlacedIsKnown DEF AnchorsKnown, Scrolls
<1>5. AnchorKnown(2)'
  BY <1>2 DEF AnchorKnown
<1> QED BY <1>3, <1>4, <1>5 DEF AnchorsKnown

LEMMA BothPlaced ==
  ASSUME AnchorsKnown, Scrolls, NEW a \in Anchor, NEW b \in Anchor, NEW p, NEW q,
         AimedAt(a, p), AimedAt(b, q), TS!BothAnchors(a, b, p, q)
  PROVE  AnchorsKnown'
<1>1. anchors' = <<a, b>> /\ placed' = <<p, q>> /\ lastPlaced' = 2 /\ state' = "HAS_BOTH"
  BY DEF TS!BothAnchors, TS!Anchored
<1>2. /\ DOMAIN anchors' = {1, 2} /\ DOMAIN placed' = {1, 2}
      /\ anchors'[1] = a /\ anchors'[2] = b /\ placed'[1] = p /\ placed'[2] = q
  BY <1>1
<1>3. MachineKnown'
  BY <1>1, <1>2, NotAnAnchor DEF MachineKnown, Scrolls, States
<1>4. AnchorKnown(1)' /\ AnchorKnown(2)'
  BY <1>2, PlacedIsKnown DEF AnchorsKnown, Scrolls
<1> QED BY <1>3, <1>4 DEF AnchorsKnown

(* What is applied to xterm is what was placed.                            *)
LEMMA AppliedFollows ==
  ASSUME AnchorsKnown', buffer'.gone = buffer.gone, TS!ApplySelection
  PROVE  SelectionFollows'
<1> SUFFICES ASSUME anchors'[1] # NoAnchor, anchors'[2] # NoAnchor,
                    placed'[1].gone = buffer.gone, placed'[2].gone = buffer.gone
             PROVE  selected' = TS!Span(placed'[1].at, placed'[2].at)
  BY DEF SelectionFollows, TS!Span, TS!Before
<1>1. selected' = TS!Span(TS!TextAt(anchors'[1].row, anchors'[1].col),
                          TS!TextAt(anchors'[2].row, anchors'[2].col))
  BY DEF TS!ApplySelection
<1>2. ASSUME NEW i \in {1, 2}
      PROVE  placed'[i].at = TS!TextAt(anchors'[i].row, anchors'[i].col)
  <2>1. AnchorKnown(i)' /\ anchors'[i] # NoAnchor
    BY DEF AnchorsKnown
  <2>2. PICK g \in Int : placed'[i] = [at |-> [line |-> g + anchors'[i].row,
                                               col |-> anchors'[i].col], gone |-> g]
    BY <2>1 DEF AnchorKnown
  <2>3. g = buffer.gone
    BY <2>2
  <2> QED BY <2>2, <2>3 DEF TS!TextAt
<1> QED BY <1>1, <1>2

(* An action that places nothing.                                          *)
LEMMA AnchorsAndSelectionStay ==
  ASSUME AnchorsKnown, SelectionFollows, Scrolls, TS!NothingPlaced
  PROVE  AnchorsKnown' /\ SelectionFollows'
<1>1. UNCHANGED TS!anchorVars /\ selected' = selected
  BY DEF TS!NothingPlaced, TS!anchorVars
<1>2. anchors' = anchors /\ placed' = placed
  BY <1>1 DEF TS!anchorVars
<1> QED BY <1>1, <1>2, AnchorsStay DEF SelectionFollows, Scrolls, TS!Span, TS!Before

(* Output may take the selection, and only ever takes it.                  *)
LEMMA OutputFollows ==
  ASSUME AnchorsKnown, SelectionFollows, TS!Output
  PROVE  AnchorsKnown' /\ SelectionFollows'
<1> USE DEF TS!anchorVars
<1>1. anchors' = anchors /\ placed' = placed /\ state' = state /\ lastPlaced' = lastPlaced
  BY DEF TS!Output
<1>2. buffer \in [len : Int, gone : Int, y : Int] /\ Rows \in Int
  BY PanelsAssumption DEF AnchorsKnown, MachineKnown
<1>3. /\ buffer' \in [len : Int, gone : Int, y : Int]
      /\ buffer'.gone \in {buffer.gone, buffer.gone + 1}
  BY <1>2 DEF TS!Output
<1>4. MachineKnown'
  BY <1>1, <1>3 DEF AnchorsKnown, MachineKnown
<1>5. ASSUME NEW i \in {1, 2}, AnchorKnown(i) PROVE AnchorKnown(i)'
  BY <1>1, <1>2, <1>3, <1>5 DEF AnchorKnown
<1>6. AnchorsKnown'
  BY <1>4, <1>5 DEF AnchorsKnown
<1>7. SelectionFollows'
  <2> SUFFICES ASSUME anchors[1] # NoAnchor, anchors[2] # NoAnchor, selected' # {},
                      placed[1].gone = buffer'.gone, placed[2].gone = buffer'.gone
               PROVE  selected' = TS!Span(placed[1].at, placed[2].at)
    BY <1>1 DEF SelectionFollows, TS!Span, TS!Before
  <2>1. placed[1].gone <= buffer.gone
    <3>1. AnchorKnown(1)
      BY DEF AnchorsKnown
    <3>2. PICK g \in Int : /\ g <= buffer.gone
                           /\ placed[1] = [at |-> [line |-> g + anchors[1].row,
                                                   col |-> anchors[1].col], gone |-> g]
      BY <3>1 DEF AnchorKnown
    <3> QED BY <3>2
  <2>2. buffer'.gone = buffer.gone
    BY <1>2, <1>3, <2>1
  <2>3. selected' \subseteq selected
    BY DEF TS!Output
  <2>4. selected = TS!Span(placed[1].at, placed[2].at)
    BY <2>2, <2>3 DEF SelectionFollows
  <2>5. \E s : selected = {s}
    BY <2>4 DEF TS!Span
  <2> QED BY <2>3, <2>4, <2>5
<1> QED BY <1>6, <1>7

(* What a tap, two, three and a press mean.                                *)
LEMMA TapFollows ==
  ASSUME AnchorsKnown, SelectionFollows, Scrolls, NEW cell \in TS!Cells, TS!Tapped(cell)
  PROVE  AnchorsKnown' /\ SelectionFollows'
<1> DEFINE a == TS!AnchorAt(cell) p == TS!Aimed(cell)
<1>1. a \in Anchor /\ AimedAt(a, p)
  BY CellAimed DEF AnchorsKnown
<1>2. \/ TS!NothingPlaced
      \/ TS!PlaceAnchor1(a, p) /\ TS!ApplySelection
      \/ TS!PlaceAnchor2(a, p) /\ TS!ApplySelection
      \/ TS!MoveNearestAnchor(a, p) /\ TS!ApplySelection
  BY DEF TS!Tapped
<1> HIDE DEF a, p
<1>3. CASE TS!NothingPlaced
  BY <1>3, AnchorsAndSelectionStay
<1>4. CASE TS!PlaceAnchor1(a, p) /\ TS!ApplySelection
  BY <1>1, <1>4, FirstPlaced, AppliedFollows DEF Scrolls
<1>5. CASE TS!PlaceAnchor2(a, p) /\ TS!ApplySelection
  BY <1>1, <1>5, SecondPlaced, AppliedFollows DEF Scrolls
<1>6. CASE TS!MoveNearestAnchor(a, p) /\ TS!ApplySelection
  BY <1>1, <1>6, NearestMoved, AppliedFollows DEF Scrolls
<1> QED BY <1>2, <1>3, <1>4, <1>5, <1>6

LEMMA BothFollow ==
  ASSUME AnchorsKnown, Scrolls, NEW r \in Int, NEW s \in Int, NEW c \in Int, NEW d \in Int,
         TS!BothAnchors([row |-> r, col |-> c], [row |-> s, col |-> d],
                        TS!Here(r, c), TS!Here(s, d)),
         selected' = TS!Span(TS!TextAt(r, c), TS!TextAt(s, d))
  PROVE  AnchorsKnown' /\ SelectionFollows'
<1>1. /\ [row |-> r, col |-> c] \in Anchor /\ [row |-> s, col |-> d] \in Anchor
      /\ AimedAt([row |-> r, col |-> c], TS!Here(r, c))
      /\ AimedAt([row |-> s, col |-> d], TS!Here(s, d))
  BY AimIsTrue DEF AnchorsKnown
<1>2. AnchorsKnown'
  BY <1>1, BothPlaced
<1>3. placed'[1].at = TS!TextAt(r, c) /\ placed'[2].at = TS!TextAt(s, d)
  BY DEF TS!BothAnchors, TS!Anchored, TS!Here
<1> QED BY <1>2, <1>3 DEF SelectionFollows, TS!Span, TS!Before

LEMMA DoubleTapFollows ==
  ASSUME AnchorsKnown, Scrolls, NEW cell \in TS!Cells, TS!DoubleTapped(cell)
  PROVE  AnchorsKnown' /\ SelectionFollows'
<1> DEFINE row == buffer.y + cell.row
<1>1. row \in Int
  BY PanelsAssumption DEF AnchorsKnown, MachineKnown, TS!Cells
<1>2. PICK from, to \in 0 .. Cols - 1 :
        /\ TS!BothAnchors([row |-> row, col |-> from], [row |-> row, col |-> to],
                          TS!Here(row, from), TS!Here(row, to))
        /\ selected' = TS!Span(TS!TextAt(row, from), TS!TextAt(row, to))
  BY DEF TS!DoubleTapped
<1>3. from \in Int /\ to \in Int
  OBVIOUS
<1> HIDE DEF row
<1> QED BY <1>1, <1>2, <1>3, BothFollow

LEMMA TripleTapFollows ==
  ASSUME AnchorsKnown, Scrolls, TS!TripleTapped
  PROVE  AnchorsKnown' /\ SelectionFollows'
<1> DEFINE top == buffer.y bottom == buffer.y + Rows - 1
<1>1. top \in Int /\ bottom \in Int /\ 0 \in Int /\ Cols - 1 \in Int
  BY PanelsAssumption DEF AnchorsKnown, MachineKnown
<1>2. /\ TS!BothAnchors([row |-> top, col |-> 0], [row |-> bottom, col |-> Cols - 1],
                        TS!Here(top, 0), TS!Here(bottom, Cols - 1))
      /\ selected' = TS!Span(TS!TextAt(top, 0), TS!TextAt(bottom, Cols - 1))
  BY DEF TS!TripleTapped
<1> HIDE DEF top, bottom
<1> QED BY <1>1, <1>2, BothFollow

LEMMA NoAnchorFollows ==
  ASSUME AnchorsKnown, Scrolls, TS!Cancel
  PROVE  AnchorsKnown' /\ SelectionFollows'
BY AnchorsGo DEF SelectionFollows

LEMMA PressFollows ==
  ASSUME AnchorsKnown, Scrolls, NEW cell \in TS!Cells, TS!LongPressed(cell)
  PROVE  AnchorsKnown' /\ SelectionFollows'
<1>1. CASE TS!Cancel
  BY <1>1, NoAnchorFollows
<1>2. CASE TS!FreshAnchor(TS!AnchorAt(cell), TS!Aimed(cell)) /\ TS!ApplySelection
  <2>1. TS!AnchorAt(cell) \in Anchor /\ AimedAt(TS!AnchorAt(cell), TS!Aimed(cell))
    BY CellAimed DEF AnchorsKnown
  <2> QED BY <1>2, <2>1, Freshly, AppliedFollows DEF Scrolls
<1> QED BY <1>1, <1>2 DEF TS!LongPressed

(* A press that nobody can end finds the gesture moved.                    *)
LEMMA LongTimerFollows ==
  ASSUME AnchorsKnown, SelectionFollows, Scrolls, NEW cell \in TS!Cells, TS!LongTimer(cell)
  PROVE  AnchorsKnown' /\ SelectionFollows'
BY AnchorsAndSelectionStay, PressFollows DEF TS!LongTimer

LEMMA MultiTimerFollows ==
  ASSUME AnchorsKnown, SelectionFollows, Scrolls, NEW cell \in TS!Cells, TS!MultiTimer(cell)
  PROVE  AnchorsKnown' /\ SelectionFollows'
BY TapFollows, DoubleTapFollows, TripleTapFollows DEF TS!MultiTimer

(* The handle of an anchor is placed by xterm's own rows, which the scroll *)
(* of the same move does not change.                                       *)
LEMMA DragFollows ==
  ASSUME AnchorsKnown, SelectionFollows, NEW i \in {1, 2}, NEW cell \in TS!Cells,
         TS!AnchorDrag(i, cell)
  PROVE  AnchorsKnown' /\ SelectionFollows'
<1> DEFINE a == TS!AnchorAt(cell) p == TS!Aimed(cell)
<1>1. a \in Anchor /\ AimedAt(a, p)
  BY CellAimed DEF AnchorsKnown
<1>2. TS!PlaceAnchor1(a, p) \/ TS!PlaceAnchor2(a, p)
  BY DEF TS!AnchorDrag
<1>3. TS!ApplySelection
  BY DEF TS!AnchorDrag
<1>4. Scrolls
  BY DEF TS!AnchorDrag, TS!ScrollTo, Scrolls, AnchorsKnown, MachineKnown
<1> HIDE DEF a, p
<1> QED BY <1>1, <1>2, <1>3, <1>4, FirstPlaced, SecondPlaced, AppliedFollows DEF Scrolls

LEMMA CopyFollows ==
  ASSUME AnchorsKnown, SelectionFollows, Scrolls, TS!Copy
  PROVE  AnchorsKnown' /\ SelectionFollows'
BY AnchorsAndSelectionStay, NoAnchorFollows DEF TS!Copy

LEMMA CopiedFollows ==
  ASSUME AnchorsKnown, SelectionFollows, Scrolls, NEW ok \in BOOLEAN, TS!Copied(ok)
  PROVE  AnchorsKnown' /\ SelectionFollows'
BY AnchorsAndSelectionStay, NoAnchorFollows DEF TS!Copied, TS!CopyEnds

(* What scrolls, or only counts fingers, leaves the selection.             *)
Steered ==
  \/ \E y \in 0 .. MaxLines : TS!Scroll(y)
  \/ TS!Rendered \/ TS!TouchStart \/ TS!TouchMove \/ TS!Unmounts \/ TS!Mounts
  \/ \E quick \in BOOLEAN : TS!TouchEnd(quick)

LEMMA ScrollsInPlace ==
  ASSUME MachineKnown, TS!TouchNext, ~TS!Output
  PROVE  Scrolls
<1> DEFINE Moved == \E y \in Int : buffer' = [buffer EXCEPT !.y = y]
<1>1. buffer' = buffer \/ Moved
  <2>1. ASSUME NEW y \in 0 .. MaxLines, TS!Scroll(y) PROVE Moved
    <3>1. y \in Int
      BY <2>1 DEF MachineKnown, TS!Scroll
    <3> QED BY <2>1, <3>1 DEF TS!Scroll, TS!ScrollTo
  <2>2. ASSUME NEW i \in {1, 2}, NEW cell \in TS!Cells, TS!AnchorDrag(i, cell)
        PROVE  buffer' = buffer \/ Moved
    <3>1. buffer.y - 1 \in Int /\ buffer.y + 1 \in Int
      BY DEF MachineKnown
    <3> QED BY <2>2, <3>1 DEF TS!AnchorDrag, TS!ScrollTo
  <2>3. ASSUME NEW cell \in TS!Cells, TS!LongTimer(cell) \/ TS!MultiTimer(cell)
        PROVE  buffer' = buffer
    BY <2>3 DEF TS!LongTimer, TS!MultiTimer
  <2>4. ASSUME NEW quick \in BOOLEAN, TS!TouchEnd(quick) PROVE buffer' = buffer
    BY <2>4 DEF TS!TouchEnd
  <2>5. ASSUME NEW ok \in BOOLEAN, TS!Copied(ok) PROVE buffer' = buffer
    BY <2>5 DEF TS!Copied
  <2>6. ASSUME \/ TS!Rendered \/ TS!Unselected \/ TS!TouchStart \/ TS!TouchMove \/ TS!Unmounts
               \/ TS!Mounts \/ TS!Copy
        PROVE  buffer' = buffer
    BY <2>6 DEF TS!Rendered, TS!Unselected, TS!TouchStart, TS!TouchMove, TS!Unmounts,
                TS!Mounts, TS!Copy
  <2> QED BY <2>1, <2>2, <2>3, <2>4, <2>5, <2>6 DEF TS!TouchNext
<1> QED BY <1>1 DEF MachineKnown, Scrolls

LEMMA SteeredFollows ==
  ASSUME AnchorsKnown, SelectionFollows, Scrolls, Steered
  PROVE  AnchorsKnown' /\ SelectionFollows'
<1>1. TS!NothingPlaced
  BY DEF Steered, TS!Scroll, TS!Rendered, TS!TouchStart, TS!TouchMove, TS!Unmounts, TS!Mounts,
         TS!TouchEnd, TS!NothingPlaced
<1> QED BY <1>1, AnchorsAndSelectionStay

LEMMA UnselectedFollows ==
  ASSUME AnchorsKnown, Scrolls, TS!Unselected
  PROVE  AnchorsKnown' /\ SelectionFollows'
<1>1. UNCHANGED TS!anchorVars /\ selected' = {}
  BY DEF TS!Unselected, TS!anchorVars
<1> QED BY <1>1, AnchorsStay DEF SelectionFollows

LEMMA TouchNextFollows ==
  ASSUME AnchorsKnown, SelectionFollows, TS!TouchNext
  PROVE  AnchorsKnown' /\ SelectionFollows'
<1>1. CASE TS!Output
  BY <1>1, OutputFollows
<1>2. CASE ~TS!Output
  <2>1. Scrolls
    BY <1>2, ScrollsInPlace DEF AnchorsKnown
  <2>2. CASE Steered
    BY <2>1, <2>2, SteeredFollows
  <2>3. CASE TS!Unselected
    BY <2>1, <2>3, UnselectedFollows
  <2>4. ASSUME NEW cell \in TS!Cells, TS!LongTimer(cell) \/ TS!MultiTimer(cell)
        PROVE  AnchorsKnown' /\ SelectionFollows'
    BY <2>1, <2>4, LongTimerFollows, MultiTimerFollows
  <2>5. ASSUME NEW i \in {1, 2}, NEW cell \in TS!Cells, TS!AnchorDrag(i, cell)
        PROVE  AnchorsKnown' /\ SelectionFollows'
    BY <2>5, DragFollows
  <2>6. CASE TS!Copy
    BY <2>1, <2>6, CopyFollows
  <2>7. ASSUME NEW ok \in BOOLEAN, TS!Copied(ok)
        PROVE  AnchorsKnown' /\ SelectionFollows'
    BY <2>1, <2>7, CopiedFollows
  <2> QED BY <1>2, <2>2, <2>3, <2>4, <2>5, <2>6, <2>7, Zenon DEF TS!TouchNext, Steered
<1> QED BY <1>1, <1>2

(* The fingers, the timers and the overlay.                                *)
LEMMA GesturesFollow ==
  ASSUME GestureKnown, TS!TouchNext
  PROVE  GestureKnown'
<1> DEFINE Gesture == [fingers : Int, moved : BOOLEAN, long : BOOLEAN, orphan : BOOLEAN,
                       held : BOOLEAN, taps : Int]
<1>1. CASE UNCHANGED <<gesture, overlayMounted>>
  BY <1>1 DEF GestureKnown
<1>2. CASE TS!TouchStart
  <2> DEFINE f == gesture.fingers + 1 o == gesture.orphan \/ gesture.long
  <2>1. f \in Int /\ o \in BOOLEAN
    BY DEF GestureKnown
  <2>2. gesture' = [gesture EXCEPT !.fingers = f, !.moved = FALSE, !.held = FALSE, !.long = TRUE,
                                   !.orphan = o]
    BY <1>2 DEF TS!TouchStart
  <2>3. overlayMounted' = overlayMounted /\ overlayMounted
    BY <1>2 DEF TS!TouchStart
  <2> HIDE DEF f, o
  <2> QED BY <2>1, <2>2, <2>3 DEF GestureKnown
<1>3. CASE TS!TouchMove
  BY <1>3 DEF GestureKnown, TS!TouchMove
<1>4. CASE TS!Unmounts
  <2>1. gesture' = [gesture EXCEPT !.fingers = 0, !.long = FALSE, !.taps = 0, !.moved = TRUE]
    BY <1>4 DEF TS!Unmounts, TS!Cancelled
  <2>2. overlayMounted' = FALSE
    BY <1>4 DEF TS!Unmounts
  <2>3. gesture \in Gesture
    BY DEF GestureKnown
  <2>4. gesture' \in Gesture
    <3> DEFINE none == 0
    <3>1. none \in Int
      OBVIOUS
    <3>2. gesture' = [gesture EXCEPT !.fingers = none, !.long = FALSE, !.taps = none,
                                     !.moved = TRUE]
      BY <2>1
    <3> HIDE DEF none
    <3> QED BY <2>3, <3>1, <3>2
  <2>5. gesture'.fingers = 0 /\ gesture'.moved /\ ~gesture'.long /\ gesture'.taps = 0
    BY <2>1, <2>3
  <2> QED BY <2>2, <2>4, <2>5 DEF GestureKnown
<1>5. CASE TS!Mounts
  BY <1>5 DEF GestureKnown, TS!Mounts, TS!Still
<1>6. ASSUME NEW quick \in BOOLEAN, TS!TouchEnd(quick) PROVE GestureKnown'
  <2> DEFINE f == gesture.fingers - 1
             n == IF gesture.taps < 3 THEN gesture.taps + 1 ELSE gesture.taps
  <2>1. f \in Int /\ n \in Int
    BY DEF GestureKnown
  <2>2. \/ gesture' = [gesture EXCEPT !.fingers = f, !.long = FALSE, !.taps = n]
        \/ gesture' = [gesture EXCEPT !.fingers = f, !.long = FALSE]
    BY <1>6 DEF TS!TouchEnd
  <2>3. overlayMounted' = overlayMounted /\ overlayMounted
    BY <1>6 DEF TS!TouchEnd, GestureKnown
  <2> HIDE DEF f, n
  <2> QED BY <2>1, <2>2, <2>3 DEF GestureKnown
<1>7. ASSUME NEW cell \in TS!Cells, TS!LongTimer(cell) PROVE GestureKnown'
  BY <1>7 DEF GestureKnown, TS!LongTimer
<1>8. ASSUME NEW cell \in TS!Cells, TS!MultiTimer(cell) PROVE GestureKnown'
  BY <1>8 DEF GestureKnown, TS!MultiTimer
<1>9. ASSUME NEW y \in 0 .. MaxLines, TS!Scroll(y) PROVE UNCHANGED <<gesture, overlayMounted>>
  BY <1>9 DEF TS!Scroll
<1>10. ASSUME NEW i \in {1, 2}, NEW cell \in TS!Cells, TS!AnchorDrag(i, cell)
      PROVE  UNCHANGED <<gesture, overlayMounted>>
  BY <1>10 DEF TS!AnchorDrag
<1>11. ASSUME NEW ok \in BOOLEAN, TS!Copied(ok) PROVE UNCHANGED <<gesture, overlayMounted>>
  BY <1>11 DEF TS!Copied
<1>12. ASSUME TS!Output \/ TS!Rendered \/ TS!Unselected \/ TS!Copy
       PROVE  UNCHANGED <<gesture, overlayMounted>>
  BY <1>12 DEF TS!Output, TS!Rendered, TS!Unselected, TS!Copy
<1> QED BY <1>1, <1>2, <1>3, <1>4, <1>5, <1>6, <1>7, <1>8, <1>9, <1>10, <1>11, <1>12
        DEF TS!TouchNext

LEMMA TouchBegins == TS!TouchInit => TouchInv
<1> SUFFICES ASSUME TS!TouchInit PROVE TouchInv
  OBVIOUS
<1>1. MachineKnown
  BY PanelsAssumption DEF TS!TouchInit, MachineKnown, States
<1>2. anchors[1] = NoAnchor /\ anchors[2] = NoAnchor
  BY DEF TS!TouchInit
<1>3. GestureKnown
  BY DEF TS!TouchInit, TS!Still, GestureKnown
<1> QED BY <1>1, <1>2, <1>3 DEF TouchInv, AnchorsKnown, AnchorKnown, SelectionFollows

LEMMA TouchStays ==
  ASSUME TouchInv, UNCHANGED tsVars
  PROVE  TouchInv'
BY DEF TouchInv, tsVars, AnchorsKnown, MachineKnown, AnchorKnown, SelectionFollows, GestureKnown,
       TS!Span, TS!Before

LEMMA TouchInvInductive == PanelsSpec => []TouchInv
<1>1. PanelsInit => TouchInv
  BY TouchBegins DEF PanelsInit
<1>2. TouchInv /\ [PanelsNext]_<<focus, tsVars, pdVars, ovVars, ubVars, stVars, rdVars>>
        => TouchInv'
  <2> SUFFICES ASSUME TouchInv,
                      [PanelsNext]_<<focus, tsVars, pdVars, ovVars, ubVars, stVars, rdVars>>
               PROVE  TouchInv'
    OBVIOUS
  <2>1. TS!TouchNext \/ UNCHANGED tsVars
    BY DEF PanelsNext
  <2>2. CASE TS!TouchNext
    BY <2>2, TouchNextFollows, GesturesFollow DEF TouchInv
  <2> QED BY <2>1, <2>2, TouchStays
<1> QED BY <1>1, <1>2, PTL DEF PanelsSpec

(* A copy that begins takes what was placed.                               *)
LEMMA CopyTakes ==
  ASSUME TouchInv, TS!TouchNext, ~copying, copying',
         \A i \in {1, 2} : placed[i].gone = buffer.gone
  PROVE  selected = TS!Span(placed[1].at, placed[2].at)
<1>1. TS!Copy /\ selected # {}
  BY DEF TS!TouchNext, TS!Output, TS!Scroll, TS!Rendered, TS!Unselected, TS!TouchStart,
         TS!TouchMove, TS!Unmounts, TS!Mounts, TS!LongTimer, TS!MultiTimer, TS!TouchEnd,
         TS!AnchorDrag, TS!Copy, TS!Copied
<1>2. state = "HAS_BOTH"
  BY <1>1 DEF TS!Copy
<1> QED BY <1>1, <1>2 DEF TouchInv, AnchorsKnown, MachineKnown, SelectionFollows

(* Without the overlay nothing is placed.                                  *)
LEMMA NothingWithoutOverlay ==
  ASSUME TouchInv, TS!TouchNext, ~overlayMounted, ~copying
  PROVE  UNCHANGED TS!anchorVars
<1>1. gesture.fingers = 0 /\ gesture.moved /\ ~gesture.long /\ gesture.taps = 0
  BY DEF TouchInv, GestureKnown
<1>2. ASSUME NEW cell \in TS!Cells, TS!LongTimer(cell) \/ TS!MultiTimer(cell)
      PROVE  UNCHANGED TS!anchorVars
  BY <1>1, <1>2 DEF TS!LongTimer, TS!MultiTimer, TS!NothingPlaced, TS!anchorVars
<1>3. ASSUME NEW quick \in BOOLEAN, TS!TouchEnd(quick) PROVE FALSE
  BY <1>1, <1>3 DEF TS!TouchEnd
<1>4. ASSUME NEW i \in {1, 2}, NEW cell \in TS!Cells, TS!AnchorDrag(i, cell) PROVE FALSE
  BY <1>4 DEF TS!AnchorDrag
<1>5. ASSUME NEW ok \in BOOLEAN, TS!Copied(ok) PROVE FALSE
  BY <1>5 DEF TS!Copied
<1>6. ASSUME NEW y \in 0 .. MaxLines, TS!Scroll(y) PROVE UNCHANGED TS!anchorVars
  BY <1>6 DEF TS!Scroll, TS!anchorVars
<1>7. ASSUME TS!Output \/ TS!Rendered \/ TS!Unselected \/ TS!Mounts
      PROVE  UNCHANGED TS!anchorVars
  BY <1>7 DEF TS!Output, TS!Rendered, TS!Unselected, TS!Mounts, TS!anchorVars
<1>8. ~TS!TouchStart /\ ~TS!TouchMove /\ ~TS!Unmounts /\ ~TS!Copy
  BY DEF TS!TouchStart, TS!TouchMove, TS!Unmounts, TS!Copy
<1> QED BY <1>2, <1>3, <1>4, <1>5, <1>6, <1>7, <1>8 DEF TS!TouchNext

(* When no line has gone since the anchors were placed, a copy takes the   *)
(* text between the places where the fingers put them, whatever scrolled   *)
(* in between; and a gesture ends with the overlay it began on: without it *)
(* only a copy that was under way touches the anchors                      *)
(* (useAnchorStateMachine.ts, VirtualTouchball.vue, CliTerminalSurface.vue *)
(* onAnchorDrag, onSelectionCopy).                                         *)
THEOREM CopyTakesWhatIsMarked == PanelsSpec => TouchesHold
<1> DEFINE Begins == ~copying /\ copying' /\ \A i \in {1, 2} : placed[i].gone = buffer.gone
           Unattended == ~overlayMounted /\ ~copying
<1>1. TouchInv /\ [PanelsNext]_<<focus, tsVars, pdVars, ovVars, ubVars, stVars, rdVars>>
        => /\ [Begins => selected = TS!Span(placed[1].at, placed[2].at)]_(TS!touchVars)
           /\ [Unattended => UNCHANGED TS!anchorVars]_(TS!touchVars)
  <2> SUFFICES ASSUME TouchInv,
                      [PanelsNext]_<<focus, tsVars, pdVars, ovVars, ubVars, stVars, rdVars>>
               PROVE  /\ [Begins => selected = TS!Span(placed[1].at, placed[2].at)]_(TS!touchVars)
                      /\ [Unattended => UNCHANGED TS!anchorVars]_(TS!touchVars)
    OBVIOUS
  <2>1. TS!TouchNext \/ UNCHANGED tsVars
    BY DEF PanelsNext
  <2>2. CASE UNCHANGED tsVars
    BY <2>2 DEF tsVars, TS!touchVars
  <2>3. CASE TS!TouchNext
    BY <2>3, CopyTakes, NothingWithoutOverlay
  <2> QED BY <2>1, <2>2, <2>3
<1> QED BY <1>1, TouchInvInductive, PTL
        DEF PanelsSpec, TouchesHold, TS!CopyTakesWhatWasPlaced, TS!GesturesEndWithOverlay

-----------------------------------------------------------------------------
(***************************************************************************)
(* The page's settings.                                                    *)
(*                                                                         *)
(* Nothing is written before the blob was read, and what is written last   *)
(* is what the page has; its lists are one array from the load that found  *)
(* one until somebody replaces it; and no machine is stored, or about to   *)
(* be, that the page neither has nor deleted, unless the registry was      *)
(* edited unread.                                                          *)
(***************************************************************************)
Blobs == [list : {Absent} \cup SUBSET Entries, peers : {Absent} \cup SUBSET Peers]
ArrayNames == 0 .. Len(arrays)
PeersOf(d) == IF d.peers = Absent THEN {} ELSE d.peers
StoreTyped ==
  /\ server \in Blobs /\ server.peers # Absent
  /\ arrays \in Seq(SUBSET Entries)
  /\ data \in [list : ArrayNames, peers : {Absent} \cup SUBSET Peers]
  /\ saves \subseteq Blobs
  /\ box \in [Boxes -> [there : BOOLEAN, waits : BOOLEAN, list : ArrayNames]]
  /\ peers \in SUBSET Peers
  /\ trouble \in [load : Int, save : BOOLEAN, parted : BOOLEAN, blind : BOOLEAN]
WritesKnown ==
  /\ loading => ~hydrated
  /\ ~hydrated => ~saveTimer /\ saves = {}
  /\ (hydrated /\ ~trouble.save /\ ~saveTimer) =>
       \/ saves = {} /\ ST!Merge(server, ST!Blob(data, arrays)) = server
       \/ saves = {ST!Blob(data, arrays)}
ListsKnown ==
  ~trouble.parted =>
    /\ ~hydrated => \A b \in Boxes : box[b].list = 0
    /\ hydrated => data.list # 0 /\ \A b \in Boxes : box[b].list \in {0, data.list}
RegistryKnown ==
  ~trouble.blind =>
    /\ peersRead = "yes" => hydrated /\ peers = PeersOf(data)
    /\ hydrated => /\ server.peers \subseteq PeersOf(data) \cup deleted
                   /\ \A d \in saves : PeersOf(d) \subseteq PeersOf(data) \cup deleted
DraftKnown ==
  /\ draft \in [open : BOOLEAN, text : Texts \cup {Empty}, stored : Texts \cup {Empty},
                undo : Texts \cup {Empty}, host : Texts \cup {Empty}, inserted : BOOLEAN]
  /\ draft.open /\ ~draft.inserted => draft.stored = draft.text
StoreInv == StoreTyped /\ WritesKnown /\ ListsKnown /\ RegistryKnown /\ DraftKnown

(* A blob that was merged once changes nothing any more.                   *)
LEMMA MergeKnown ==
  ASSUME NEW s \in Blobs, NEW d \in Blobs, s.peers # Absent
  PROVE  /\ ST!Merge(s, d) \in Blobs
         /\ ST!Merge(s, d).peers = (IF d.peers = Absent THEN s.peers ELSE d.peers)
         /\ ST!Merge(s, d).peers # Absent
         /\ ST!Merge(ST!Merge(s, d), d) = ST!Merge(s, d)
<1>1. DOMAIN s = {"list", "peers"}
  BY DEF Blobs
<1> DEFINE m == ST!Merge(s, d)
           l == IF d.list = Absent THEN s.list ELSE d.list
           p == IF d.peers = Absent THEN s.peers ELSE d.peers
<1>2. m = [k \in {"list", "peers"} |-> IF d[k] = Absent THEN s[k] ELSE d[k]]
  BY <1>1 DEF ST!Merge
<1>3. m = [list |-> l, peers |-> p]
  BY <1>2
<1>4. l \in {Absent} \cup SUBSET Entries /\ p \in {Absent} \cup SUBSET Peers /\ p # Absent
  BY DEF Blobs
<1>5. ST!Merge(m, d) = [k \in {"list", "peers"} |-> IF d[k] = Absent THEN m[k] ELSE d[k]]
  BY <1>2 DEF ST!Merge
<1>6. ST!Merge(m, d) = m
  BY <1>2, <1>5
<1> HIDE DEF m, l
<1> QED BY <1>3, <1>4, <1>6 DEF Blobs, m

(* What the page would write.                                              *)
LEMMA BlobKnown ==
  ASSUME StoreTyped
  PROVE  ST!Blob(data, arrays) \in Blobs /\ ST!Blob(data, arrays).peers = data.peers
<1>1. data.list \in ArrayNames /\ data.peers \in {Absent} \cup SUBSET Peers
  BY DEF StoreTyped
<1>2. data.list # 0 => arrays[data.list] \in SUBSET Entries
  BY <1>1 DEF StoreTyped, ArrayNames
<1> QED BY <1>1, <1>2 DEF ST!Blob, ST!NoArray, Blobs

(* The arrays made so far stay what they are when others are made.         *)
Grown ==
  /\ arrays' \in Seq(SUBSET Entries) /\ Len(arrays) <= Len(arrays')
  /\ \A i \in 1 .. Len(arrays) : arrays'[i] = arrays[i]

LEMMA SameBlob ==
  ASSUME StoreTyped, Grown, data' = data
  PROVE  ST!Blob(data, arrays)' = ST!Blob(data, arrays)
<1>1. data.list \in ArrayNames
  BY DEF StoreTyped
<1>2. data.list # 0 => arrays'[data.list] = arrays[data.list]
  BY <1>1 DEF Grown, ArrayNames, StoreTyped
<1> QED BY <1>2 DEF ST!Blob, ST!NoArray

LEMMA NamesStay ==
  ASSUME StoreTyped, Grown
  PROVE  ArrayNames \subseteq ArrayNames'
BY DEF Grown, StoreTyped, ArrayNames

LEMMA ArraysStay ==
  ASSUME StoreTyped, arrays' = arrays
  PROVE  Grown
BY DEF StoreTyped, Grown

(* The write that is due.                                                  *)
LEMMA SaveTimerKeeps ==
  ASSUME StoreInv, ST!SaveTimer
  PROVE  StoreInv'
<1> USE DEF StoreInv
<1>1. /\ saveTimer /\ saveTimer' = FALSE /\ saves' = saves \cup {ST!Blob(data, arrays)}
      /\ server' = server /\ data' = data /\ arrays' = arrays /\ hydrated' = hydrated
      /\ loading' = loading /\ box' = box /\ peers' = peers /\ peersRead' = peersRead
      /\ deleted' = deleted /\ draft' = draft
  BY DEF ST!SaveTimer
<1>2. trouble' = [trouble EXCEPT !.save = trouble.save \/ saves # {}]
  BY DEF ST!SaveTimer
<1>3. /\ trouble' \in [load : Int, save : BOOLEAN, parted : BOOLEAN, blind : BOOLEAN]
      /\ trouble'.parted = trouble.parted /\ trouble'.blind = trouble.blind
      /\ saves # {} => trouble'.save
  <2> DEFINE lost == trouble.save \/ saves # {}
  <2>1. trouble \in [load : Int, save : BOOLEAN, parted : BOOLEAN, blind : BOOLEAN]
    BY DEF StoreTyped
  <2>2. lost \in BOOLEAN /\ (saves # {} => lost)
    OBVIOUS
  <2>3. trouble' = [trouble EXCEPT !.save = lost]
    BY <1>2
  <2> HIDE DEF lost
  <2>4. /\ trouble' \in [load : Int, save : BOOLEAN, parted : BOOLEAN, blind : BOOLEAN]
        /\ trouble'.parted = trouble.parted /\ trouble'.blind = trouble.blind
        /\ trouble'.save = lost
    BY <2>1, <2>2, <2>3
  <2> QED BY <2>2, <2>4
<1>4. StoreTyped'
  BY <1>1, <1>3, BlobKnown DEF StoreTyped, ArrayNames, Blobs
<1>5. WritesKnown'
  <2>1. hydrated
    BY <1>1 DEF WritesKnown
  <2>2. ~trouble'.save => saves' = {ST!Blob(data, arrays)}
    BY <1>1, <1>3
  <2>3. ST!Blob(data, arrays)' = ST!Blob(data, arrays)
    BY <1>1, SameBlob, ArraysStay
  <2> QED BY <1>1, <2>1, <2>2, <2>3 DEF WritesKnown
<1>6. ListsKnown'
  BY <1>1, <1>3 DEF ListsKnown
<1>7. RegistryKnown'
  <2> SUFFICES ASSUME ~trouble.blind PROVE RegistryKnown'
    BY <1>3 DEF RegistryKnown
  <2>1. PeersOf(ST!Blob(data, arrays)) = PeersOf(data)
    BY BlobKnown DEF PeersOf
  <2>2. PeersOf(data)' = PeersOf(data)
    BY <1>1 DEF PeersOf
  <2>3. hydrated => \A d \in saves' : PeersOf(d) \subseteq PeersOf(data) \cup deleted
    BY <1>1, <2>1 DEF RegistryKnown
  <2> QED BY <1>1, <2>2, <2>3 DEF RegistryKnown, PeersOf
<1>8. DraftKnown'
  BY <1>1 DEF DraftKnown
<1> QED BY <1>4, <1>5, <1>6, <1>7, <1>8

LEMMA SaveEndsKeeps ==
  ASSUME StoreInv, NEW d \in saves, NEW ok \in BOOLEAN, ST!SaveEnds(d, ok)
  PROVE  StoreInv'
<1> USE DEF StoreInv
<1>1. /\ saveTimer' = saveTimer /\ saves' = saves \ {d}
      /\ server' = (IF ok THEN ST!Merge(server, d) ELSE server)
      /\ data' = data /\ arrays' = arrays /\ hydrated' = hydrated
      /\ loading' = loading /\ box' = box /\ peers' = peers /\ peersRead' = peersRead
      /\ deleted' = deleted /\ draft' = draft
  BY DEF ST!SaveEnds
<1>2. trouble' = [trouble EXCEPT !.save = trouble.save \/ ~ok]
  BY DEF ST!SaveEnds
<1>3. /\ trouble' \in [load : Int, save : BOOLEAN, parted : BOOLEAN, blind : BOOLEAN]
      /\ trouble'.parted = trouble.parted /\ trouble'.blind = trouble.blind
      /\ ~trouble'.save => ~trouble.save /\ ok
  <2> DEFINE lost == trouble.save \/ ~ok
  <2>1. trouble \in [load : Int, save : BOOLEAN, parted : BOOLEAN, blind : BOOLEAN]
    BY DEF StoreTyped
  <2>2. lost \in BOOLEAN /\ (~lost => ~trouble.save /\ ok)
    OBVIOUS
  <2>3. trouble' = [trouble EXCEPT !.save = lost]
    BY <1>2
  <2> HIDE DEF lost
  <2>4. /\ trouble' \in [load : Int, save : BOOLEAN, parted : BOOLEAN, blind : BOOLEAN]
        /\ trouble'.parted = trouble.parted /\ trouble'.blind = trouble.blind
        /\ trouble'.save = lost
    BY <2>1, <2>2, <2>3
  <2> QED BY <2>2, <2>4
<1>4. d \in Blobs /\ server \in Blobs /\ server.peers # Absent
  BY DEF StoreTyped
<1>5. /\ server' \in Blobs /\ server'.peers # Absent
      /\ server'.peers \in {server.peers, d.peers}
      /\ ok => ST!Merge(server', d) = server'
  BY <1>1, <1>4, MergeKnown
<1>6. StoreTyped'
  BY <1>1, <1>3, <1>5 DEF StoreTyped, ArrayNames, Blobs
<1>7. WritesKnown'
  <2>1. ST!Blob(data, arrays)' = ST!Blob(data, arrays)
    BY <1>1, SameBlob, ArraysStay
  <2>2. hydrated
    BY DEF WritesKnown
  <2>3. (~trouble'.save /\ ~saveTimer) => saves' = {} /\ d = ST!Blob(data, arrays) /\ ok
    BY <1>1, <1>3, <2>2 DEF WritesKnown
  <2> QED BY <1>1, <1>5, <2>1, <2>2, <2>3 DEF WritesKnown
<1>8. ListsKnown'
  BY <1>1, <1>3 DEF ListsKnown
<1>9. RegistryKnown'
  <2> SUFFICES ASSUME ~trouble.blind PROVE RegistryKnown'
    BY <1>3 DEF RegistryKnown
  <2>1. PeersOf(data)' = PeersOf(data)
    BY <1>1 DEF PeersOf
  <2>2. hydrated => server'.peers \subseteq PeersOf(data) \cup deleted
    <3>1. CASE server'.peers = server.peers
      BY <3>1 DEF RegistryKnown
    <3>2. CASE server'.peers = d.peers
      BY <1>5, <3>2 DEF RegistryKnown, PeersOf
    <3> QED BY <1>5, <3>1, <3>2
  <2> QED BY <1>1, <2>1, <2>2 DEF RegistryKnown, PeersOf
<1>10. DraftKnown'
  BY <1>1 DEF DraftKnown
<1> QED BY <1>6, <1>7, <1>8, <1>9, <1>10

(* A step that leaves what is stored and what is to be written: at most it *)
(* makes arrays, and boxes begin to show them.                             *)
Kept ==
  /\ Grown /\ data' = data /\ hydrated' = hydrated /\ saveTimer' = saveTimer /\ saves' = saves
  /\ server' = server /\ deleted' = deleted /\ trouble' = trouble /\ draft' = draft

LEMMA WritesAreKept ==
  ASSUME StoreInv, Kept, loading' => loading \/ ~hydrated
  PROVE  WritesKnown'
<1>1. ST!Blob(data, arrays)' = ST!Blob(data, arrays)
  BY SameBlob DEF StoreInv, Kept
<1> QED BY <1>1 DEF StoreInv, Kept, WritesKnown

LEMMA RegistryIsKept ==
  ASSUME StoreInv, Kept, peers' = peers, peersRead' = peersRead
  PROVE  RegistryKnown'
<1>1. PeersOf(data)' = PeersOf(data)
  BY DEF Kept, PeersOf
<1> QED BY <1>1 DEF StoreInv, Kept, RegistryKnown, PeersOf

LEMMA TypesAreKept ==
  ASSUME StoreInv, Kept, peers' \in SUBSET Peers,
         box' \in [Boxes -> [there : BOOLEAN, waits : BOOLEAN, list : ArrayNames']]
  PROVE  StoreTyped'
<1>1. data \in [list : ArrayNames, peers : {Absent} \cup SUBSET Peers]
  BY DEF StoreInv, StoreTyped
<1>2. ArrayNames \subseteq ArrayNames'
  BY NamesStay DEF StoreInv, Kept
<1>3. data' \in [list : ArrayNames', peers : {Absent} \cup SUBSET Peers]
  BY <1>1, <1>2 DEF Kept
<1> QED BY <1>3 DEF StoreInv, StoreTyped, Kept, Grown, Blobs

LEMMA BoxTyped ==
  ASSUME StoreTyped, Grown
  PROVE  box \in [Boxes -> [there : BOOLEAN, waits : BOOLEAN, list : ArrayNames']]
<1>1. ArrayNames \subseteq ArrayNames'
  BY NamesStay
<1>2. box \in [Boxes -> [there : BOOLEAN, waits : BOOLEAN, list : ArrayNames]]
  BY DEF StoreTyped
<1> QED BY <1>1, <1>2

(* A compose box comes; when the blob is there it shows the page's array.  *)
LEMMA MountKeeps ==
  ASSUME StoreInv, NEW b \in Boxes, ST!Mount(b)
  PROVE  StoreInv'
<1>1. StoreTyped /\ DraftKnown /\ ListsKnown
  BY DEF StoreInv
<1>2. /\ data' = data /\ hydrated' = hydrated /\ saveTimer' = saveTimer /\ saves' = saves
      /\ server' = server /\ deleted' = deleted /\ trouble' = trouble /\ draft' = draft
      /\ peers' = peers /\ peersRead' = peersRead
  BY DEF ST!Mount
<1>3. CASE hydrated
  <2> DEFINE made == IF data.list = 0 THEN {} ELSE arrays[data.list]
             id == ST!Reads(data.list, Len(arrays'))
             shown0 == [there |-> TRUE, waits |-> FALSE, list |-> id]
  <2>1. /\ arrays' = Append(arrays, made) /\ loading' = loading
        /\ box' = [box EXCEPT ![b] = shown0]
    BY <1>3 DEF ST!Mount, ST!NoArray
  <2>2. arrays \in Seq(SUBSET Entries) /\ data.list \in 0 .. Len(arrays)
    BY <1>1 DEF StoreTyped, ArrayNames
  <2>3. made \in SUBSET Entries
    BY <2>2
  <2> HIDE DEF made
  <2>4. Grown /\ Len(arrays') = Len(arrays) + 1
    BY <2>1, <2>2, <2>3, AppendProperties DEF Grown
  <2>5. id \in 0 .. Len(arrays') /\ (data.list # 0 => id = data.list)
    BY <2>2, <2>4 DEF ST!Reads, ST!NoArray
  <2> HIDE DEF id
  <2>6. box' \in [Boxes -> [there : BOOLEAN, waits : BOOLEAN, list : ArrayNames']]
    <3>1. shown0 \in [there : BOOLEAN, waits : BOOLEAN, list : ArrayNames']
      BY <2>5 DEF ArrayNames
    <3> HIDE DEF shown0
    <3> QED BY <1>1, <2>1, <2>4, <3>1, BoxTyped
  <2>7. Kept
    BY <1>2, <2>4 DEF Kept
  <2>8. peers' \in SUBSET Peers
    BY <1>1, <1>2 DEF StoreTyped
  <2>9. StoreTyped' /\ WritesKnown' /\ RegistryKnown'
    BY <1>2, <2>1, <2>6, <2>7, <2>8, TypesAreKept, WritesAreKept, RegistryIsKept
  <2>10. ListsKnown'
    <3>1. \A c \in Boxes : box'[c].list = (IF c = b THEN id ELSE box[c].list)
      BY <1>1, <2>1 DEF StoreTyped
    <3> QED BY <1>1, <1>2, <1>3, <2>5, <3>1 DEF ListsKnown
  <2>11. DraftKnown'
    BY <1>1, <1>2 DEF DraftKnown
  <2> QED BY <2>9, <2>10, <2>11 DEF StoreInv
<1>4. CASE ~hydrated
  <2> DEFINE waiting == [there |-> TRUE, waits |-> TRUE, list |-> 0]
  <2>1. arrays' = arrays /\ loading' = TRUE /\ box' = [box EXCEPT ![b] = waiting]
    BY <1>4 DEF ST!Mount, ST!NoArray
  <2>2. waiting \in [there : BOOLEAN, waits : BOOLEAN, list : ArrayNames'] /\ waiting.list = 0
    BY <1>1, <2>1 DEF ArrayNames, StoreTyped
  <2> HIDE DEF waiting
  <2>3. Grown
    BY <1>1, <2>1, ArraysStay
  <2>4. Kept
    BY <1>2, <2>3 DEF Kept
  <2>5. box' \in [Boxes -> [there : BOOLEAN, waits : BOOLEAN, list : ArrayNames']]
    BY <1>1, <2>1, <2>2, <2>3, BoxTyped
  <2>6. peers' \in SUBSET Peers
    BY <1>1, <1>2 DEF StoreTyped
  <2>7. StoreTyped' /\ WritesKnown' /\ RegistryKnown'
    BY <1>2, <1>4, <2>4, <2>5, <2>6, TypesAreKept, WritesAreKept, RegistryIsKept
  <2>8. ListsKnown'
    <3>1. \A c \in Boxes : box'[c].list = (IF c = b THEN 0 ELSE box[c].list)
      BY <1>1, <2>1, <2>2 DEF StoreTyped
    <3> QED BY <1>1, <1>2, <1>4, <3>1 DEF ListsKnown
  <2>9. DraftKnown'
    BY <1>1, <1>2 DEF DraftKnown
  <2> QED BY <2>7, <2>8, <2>9 DEF StoreInv
<1> QED BY <1>3, <1>4

LEMMA UnmountKeeps ==
  ASSUME StoreInv, NEW b \in Boxes, ST!Unmount(b)
  PROVE  StoreInv'
<1>1. StoreTyped /\ DraftKnown /\ ListsKnown
  BY DEF StoreInv
<1>2. /\ data' = data /\ hydrated' = hydrated /\ saveTimer' = saveTimer /\ saves' = saves
      /\ server' = server /\ deleted' = deleted /\ trouble' = trouble /\ draft' = draft
      /\ peers' = peers /\ peersRead' = peersRead /\ arrays' = arrays /\ loading' = loading
      /\ box' = [box EXCEPT ![b] = ST!Box0]
  BY DEF ST!Unmount
<1>3. ST!Box0 \in [there : BOOLEAN, waits : BOOLEAN, list : ArrayNames'] /\ ST!Box0.list = 0
  BY <1>1, <1>2 DEF ST!Box0, ST!NoArray, ArrayNames, StoreTyped
<1>4. Grown
  BY <1>1, <1>2, ArraysStay
<1>5. Kept
  BY <1>2, <1>4 DEF Kept
<1>6. box' \in [Boxes -> [there : BOOLEAN, waits : BOOLEAN, list : ArrayNames']]
  BY <1>1, <1>2, <1>3, <1>4, BoxTyped
<1>7. peers' \in SUBSET Peers
  BY <1>1, <1>2 DEF StoreTyped
<1>8. StoreTyped' /\ WritesKnown' /\ RegistryKnown'
  BY <1>2, <1>5, <1>6, <1>7, TypesAreKept, WritesAreKept, RegistryIsKept
<1>9. ListsKnown'
  <2>1. \A c \in Boxes : box'[c].list = (IF c = b THEN 0 ELSE box[c].list)
    BY <1>1, <1>2, <1>3 DEF StoreTyped
  <2> QED BY <1>1, <1>2, <2>1 DEF ListsKnown
<1>10. DraftKnown'
  BY <1>1, <1>2 DEF DraftKnown
<1> QED BY <1>8, <1>9, <1>10 DEF StoreInv

(* The registry is read when the blob is there already.                    *)
LEMMA LoadPeersKeeps ==
  ASSUME StoreInv, ST!LoadPeers
  PROVE  StoreInv'
<1>1. StoreTyped /\ DraftKnown /\ ListsKnown
  BY DEF StoreInv
<1>2. /\ data' = data /\ hydrated' = hydrated /\ saveTimer' = saveTimer /\ saves' = saves
      /\ server' = server /\ deleted' = deleted /\ trouble' = trouble /\ draft' = draft
      /\ arrays' = arrays /\ box' = box
  BY DEF ST!LoadPeers
<1>3. \/ hydrated /\ peers' = PeersOf(data) /\ loading' = loading
      \/ ~hydrated /\ peersRead' = "asked" /\ peers' = peers
  BY DEF ST!LoadPeers, PeersOf
<1>4. Grown
  BY <1>1, <1>2, ArraysStay
<1>5. Kept
  BY <1>2, <1>4 DEF Kept
<1>6. box' \in [Boxes -> [there : BOOLEAN, waits : BOOLEAN, list : ArrayNames']]
  BY <1>1, <1>2, <1>4, BoxTyped
<1>7. peers' \in SUBSET Peers
  BY <1>1, <1>3 DEF StoreTyped, PeersOf
<1>8. StoreTyped' /\ WritesKnown'
  BY <1>2, <1>3, <1>5, <1>6, <1>7, TypesAreKept, WritesAreKept
<1>9. ListsKnown'
  BY <1>1, <1>2 DEF ListsKnown
<1>10. RegistryKnown'
  <2>1. PeersOf(data)' = PeersOf(data)
    BY <1>2 DEF PeersOf
  <2> QED BY <1>2, <1>3, <2>1 DEF StoreInv, RegistryKnown, PeersOf
<1>11. DraftKnown'
  BY <1>1, <1>2 DEF DraftKnown
<1> QED BY <1>8, <1>9, <1>10, <1>11 DEF StoreInv

(* What is edited is written later, or the blob is read first.             *)
LEMMA SetKeeps ==
  ASSUME StoreInv, ST!Set, saves' = saves
  PROVE  WritesKnown' /\ hydrated' = hydrated
BY DEF ST!Set, StoreInv, WritesKnown

(* The array a box shows is changed, and becomes the page's.               *)
LEMMA ChangedKeeps ==
  ASSUME StoreInv, NEW b \in Boxes, NEW x \in SUBSET Entries, box[b].list # 0,
         arrays' = [arrays EXCEPT ![box[b].list] = x],
         data' = [data EXCEPT !.list = box[b].list], ST!Set, deleted \subseteq deleted',
         UNCHANGED <<server, saves, box, peers, peersRead, trouble, draft>>
  PROVE  StoreInv'
<1> DEFINE i == box[b].list
<1>1. StoreTyped /\ DraftKnown /\ ListsKnown
  BY DEF StoreInv
<1>2. /\ arrays \in Seq(SUBSET Entries) /\ i \in 1 .. Len(arrays)
      /\ data \in [list : ArrayNames, peers : {Absent} \cup SUBSET Peers]
  BY <1>1 DEF StoreTyped, ArrayNames
<1>3. arrays' \in Seq(SUBSET Entries) /\ Len(arrays') = Len(arrays)
  BY <1>2, ExceptSeq
<1>4. data' \in [list : ArrayNames, peers : {Absent} \cup SUBSET Peers]
      /\ data'.list = i /\ data'.peers = data.peers
  BY <1>1, <1>2 DEF ArrayNames
<1>5. ArrayNames' = ArrayNames
  BY <1>3 DEF ArrayNames
<1>6. StoreTyped'
  BY <1>1, <1>3, <1>4, <1>5 DEF StoreTyped, Blobs
<1>7. WritesKnown' /\ hydrated' = hydrated
  BY SetKeeps
<1>8. ListsKnown'
  BY <1>1, <1>4, <1>7 DEF ListsKnown
<1>9. RegistryKnown'
  BY <1>4, <1>7 DEF StoreInv, RegistryKnown, PeersOf
<1>10. DraftKnown'
  BY <1>1 DEF DraftKnown
<1> QED BY <1>6, <1>7, <1>8, <1>9, <1>10 DEF StoreInv

LEMMA PushKeeps ==
  ASSUME StoreInv, NEW b \in Boxes, NEW e \in Entries, ST!Push(b, e)
  PROVE  StoreInv'
<1>1. box[b].list # 0 /\ box[b].list \in 0 .. Len(arrays) /\ arrays \in Seq(SUBSET Entries)
  BY DEF ST!Push, ST!NoArray, StoreInv, StoreTyped, ArrayNames
<1>2. arrays[box[b].list] \cup {e} \in SUBSET Entries
  BY <1>1
<1> QED BY <1>1, <1>2, ChangedKeeps DEF ST!Push

LEMMA DeleteKeeps ==
  ASSUME StoreInv, NEW b \in Boxes, NEW e \in Entries, ST!Delete(b, e)
  PROVE  StoreInv'
<1>1. box[b].list # 0 /\ box[b].list \in 0 .. Len(arrays) /\ arrays \in Seq(SUBSET Entries)
  BY DEF ST!Delete, ST!NoArray, StoreInv, StoreTyped, ArrayNames
<1>2. arrays[box[b].list] \ {e} \in SUBSET Entries
  BY <1>1
<1> QED BY <1>1, <1>2, ChangedKeeps DEF ST!Delete

LEMMA ClearKeeps ==
  ASSUME StoreInv, NEW b \in Boxes, ST!Clear(b)
  PROVE  StoreInv'
<1>1. StoreTyped /\ DraftKnown
  BY DEF StoreInv
<1> DEFINE none == <<{}, {}>> one == Len(arrays) + 1 two == Len(arrays) + 2
<1>2. /\ arrays' = arrays \o none /\ box' = [box EXCEPT ![b].list = one]
      /\ data' = [data EXCEPT !.list = two] /\ deleted' = deleted \cup Entries
      /\ trouble' = [trouble EXCEPT !.parted = TRUE] /\ ST!Set
      /\ server' = server /\ saves' = saves /\ peers' = peers /\ peersRead' = peersRead
      /\ draft' = draft
  BY DEF ST!Clear
<1>3. arrays \in Seq(SUBSET Entries) /\ none \in Seq(SUBSET Entries) /\ Len(none) = 2
  BY <1>1 DEF StoreTyped
<1>4. Grown /\ Len(arrays') = Len(arrays) + 2
  <2> HIDE DEF none
  <2>1. /\ arrays \o none \in Seq(SUBSET Entries) /\ Len(arrays \o none) = Len(arrays) + Len(none)
        /\ \A k \in 1 .. Len(arrays) + Len(none) :
             (arrays \o none)[k] = IF k <= Len(arrays) THEN arrays[k] ELSE none[k - Len(arrays)]
    BY <1>3, ConcatProperties
  <2>2. Len(arrays) \in Nat
    BY <1>3
  <2> QED BY <1>2, <1>3, <2>1, <2>2 DEF Grown
<1>5. one \in ArrayNames' /\ two \in ArrayNames'
  BY <1>3, <1>4 DEF ArrayNames
<1> HIDE DEF none, one, two
<1>6. box' \in [Boxes -> [there : BOOLEAN, waits : BOOLEAN, list : ArrayNames']]
  <2>1. box \in [Boxes -> [there : BOOLEAN, waits : BOOLEAN, list : ArrayNames']]
    BY <1>1, <1>4, BoxTyped
  <2>2. box' = [box EXCEPT ![b] = [box[b] EXCEPT !.list = one]]
    BY <1>2
  <2>3. [box[b] EXCEPT !.list = one] \in [there : BOOLEAN, waits : BOOLEAN, list : ArrayNames']
    BY <2>1, <1>5
  <2> QED BY <2>1, <2>2, <2>3
<1>7. data' \in [list : ArrayNames', peers : {Absent} \cup SUBSET Peers] /\ data'.peers = data.peers
  BY <1>1, <1>2, <1>5 DEF StoreTyped
<1>8. /\ trouble' \in [load : Int, save : BOOLEAN, parted : BOOLEAN, blind : BOOLEAN]
      /\ trouble'.parted /\ trouble'.blind = trouble.blind /\ trouble'.save = trouble.save
  BY <1>1, <1>2 DEF StoreTyped
<1>9. StoreTyped'
  BY <1>1, <1>2, <1>4, <1>6, <1>7, <1>8 DEF StoreTyped, Grown, Blobs
<1>10. WritesKnown' /\ hydrated' = hydrated
  BY <1>2, <1>8 DEF ST!Set, StoreInv, WritesKnown
<1>11. ListsKnown'
  BY <1>8 DEF ListsKnown
<1>12. RegistryKnown'
  BY <1>2, <1>7, <1>8, <1>10 DEF StoreInv, RegistryKnown, PeersOf
<1>13. DraftKnown'
  BY <1>1, <1>2 DEF DraftKnown
<1> QED BY <1>9, <1>10, <1>11, <1>12, <1>13 DEF StoreInv

(* A machine comes or goes: what the page has of the registry is written.  *)
LEMMA PersistKeeps ==
  ASSUME StoreInv, NEW ps \in SUBSET Peers, ST!Persist(ps),
         peers \cup deleted \subseteq ps \cup deleted',
         UNCHANGED <<server, arrays, saves, box, peersRead, draft>>
  PROVE  StoreInv'
<1>1. StoreTyped /\ DraftKnown
  BY DEF StoreInv
<1>2. /\ peers' = ps /\ data' = [data EXCEPT !.peers = ps] /\ ST!Set
      /\ trouble' = [trouble EXCEPT !.blind = trouble.blind \/ peersRead # "yes"]
  BY DEF ST!Persist
<1>3. ps # Absent
  BY PanelsAssumption
<1>4. /\ data' \in [list : ArrayNames', peers : {Absent} \cup SUBSET Peers]
      /\ data'.peers = ps /\ data'.list = data.list
  BY <1>1, <1>2 DEF StoreTyped, ArrayNames
<1>5. /\ trouble' \in [load : Int, save : BOOLEAN, parted : BOOLEAN, blind : BOOLEAN]
      /\ trouble'.parted = trouble.parted /\ trouble'.save = trouble.save
      /\ ~trouble'.blind => ~trouble.blind /\ peersRead = "yes"
  <2> DEFINE blind == trouble.blind \/ peersRead # "yes"
  <2>1. blind \in BOOLEAN /\ (~blind => ~trouble.blind /\ peersRead = "yes")
    OBVIOUS
  <2>2. trouble' = [trouble EXCEPT !.blind = blind]
    BY <1>2
  <2>3. trouble \in [load : Int, save : BOOLEAN, parted : BOOLEAN, blind : BOOLEAN]
    BY <1>1 DEF StoreTyped
  <2> HIDE DEF blind
  <2>4. /\ trouble' \in [load : Int, save : BOOLEAN, parted : BOOLEAN, blind : BOOLEAN]
        /\ trouble'.parted = trouble.parted /\ trouble'.save = trouble.save
        /\ trouble'.blind = blind
    BY <2>1, <2>2, <2>3
  <2> QED BY <2>1, <2>4
<1>6. StoreTyped'
  BY <1>1, <1>2, <1>4, <1>5 DEF StoreTyped, ArrayNames, Blobs
<1>7. WritesKnown' /\ hydrated' = hydrated
  BY <1>2, <1>5 DEF ST!Set, StoreInv, WritesKnown
<1>8. ListsKnown'
  BY <1>4, <1>5, <1>7 DEF StoreInv, ListsKnown
<1>9. RegistryKnown'
  <2> SUFFICES ASSUME ~trouble'.blind PROVE RegistryKnown'
    BY DEF RegistryKnown
  <2>1. ~trouble.blind /\ peersRead = "yes"
    BY <1>5
  <2>2. hydrated /\ peers = PeersOf(data)
    BY <2>1 DEF StoreInv, RegistryKnown
  <2>3. /\ server.peers \subseteq peers \cup deleted
        /\ \A d \in saves : PeersOf(d) \subseteq peers \cup deleted
    BY <2>1, <2>2 DEF StoreInv, RegistryKnown
  <2>4. PeersOf(data)' = ps
    BY <1>3, <1>4 DEF PeersOf
  <2> QED BY <1>2, <1>7, <2>1, <2>2, <2>3, <2>4 DEF RegistryKnown, PeersOf
<1>10. DraftKnown'
  BY <1>1 DEF DraftKnown
<1> QED BY <1>6, <1>7, <1>8, <1>9, <1>10 DEF StoreInv

LEMMA AddPeerKeeps ==
  ASSUME StoreInv, NEW p \in Peers, ST!AddPeer(p)
  PROVE  StoreInv'
<1>1. peers \cup {p} \in SUBSET Peers
  BY DEF StoreInv, StoreTyped
<1>2. peers \cup deleted \subseteq (peers \cup {p}) \cup deleted'
  BY DEF ST!AddPeer
<1> QED BY <1>1, <1>2, PersistKeeps DEF ST!AddPeer

LEMMA RemovePeerKeeps ==
  ASSUME StoreInv, NEW p \in Peers, ST!RemovePeer(p)
  PROVE  StoreInv'
<1>1. peers \ {p} \in SUBSET Peers
  BY DEF StoreInv, StoreTyped
<1>2. peers \cup deleted \subseteq (peers \ {p}) \cup deleted'
  BY DEF ST!RemovePeer
<1> QED BY <1>1, <1>2, PersistKeeps DEF ST!RemovePeer

(* The boxes that wait get an array each.                                  *)
LEMMA StoreCounts == \A S : ST!Cardinality(S) = Cardinality(S)
BY DEF ST!Cardinality, Cardinality

LEMMA OwnGiven ==
  ASSUME NEW R, IsFiniteSet(R), NEW n \in Nat
  PROVE  /\ ST!Cardinality(R) \in Nat
         /\ \A b \in R : ST!Own(R, n)[b] \in n + 1 .. n + ST!Cardinality(R)
<1> DEFINE k == Cardinality(R) Gives == [R -> n + 1 .. n + k]
<1>1. k \in Nat
  BY FS_CardinalityType
<1>2. IsFiniteSet(1 .. k) /\ Cardinality(1 .. k) = k
  BY <1>1, FS_Interval
<1>3. ST!Cardinality(R) = k
  BY StoreCounts
<1> HIDE DEF k
<1>4. ExistsBijection(R, 1 .. k)
  BY <1>2, FS_SameCardinalityBij DEF k
<1>5. PICK g \in [R -> 1 .. k] : \A a, b \in R : g[a] = g[b] => a = b
  BY <1>4 DEF ExistsBijection, Bijection, Injection, IsInjective
<1>6. \E f \in Gives : \A a, b \in R : a # b => f[a] # f[b]
  <2> DEFINE f == [b \in R |-> n + g[b]]
  <2>1. f \in Gives
    BY <1>1, <1>5
  <2>2. ASSUME NEW a \in R, NEW b \in R, a # b PROVE f[a] # f[b]
    BY <1>1, <1>5, <2>2
  <2> HIDE DEF f, Gives
  <2> QED BY <2>1, <2>2
<1>7. ST!Own(R, n) = CHOOSE f \in Gives : \A a, b \in R : a # b => f[a] # f[b]
  BY <1>3 DEF ST!Own
<1>8. ST!Own(R, n) \in Gives
  BY <1>6, <1>7, Zenon
<1> QED BY <1>1, <1>3, <1>8

(* The blob arrives, or does not: what the boxes that waited show then.    *)
BoxesGet(base, id) ==
  box' = [b \in Boxes |-> IF b \in ST!Readers
                          THEN [box[b] EXCEPT !.waits = FALSE,
                                              !.list = ST!Reads(id, ST!Own(ST!Readers, base)[b])]
                          ELSE box[b]]

LEMMA BoxesRead ==
  ASSUME StoreTyped, NEW base \in Nat, NEW id \in Nat, NEW all \in Nat,
         id <= base, base + ST!Cardinality(ST!Readers) <= all, Len(arrays) <= all,
         BoxesGet(base, id)
  PROVE  /\ box' \in [Boxes -> [there : BOOLEAN, waits : BOOLEAN, list : 0 .. all]]
         /\ id # 0 => \A b \in Boxes : box'[b].list \in {id, box[b].list}
<1> DEFINE own == ST!Own(ST!Readers, base)
<1>1. IsFiniteSet(ST!Readers)
  BY PanelsAssumption, FS_Subset DEF ST!Readers
<1>2. /\ ST!Cardinality(ST!Readers) \in Nat
      /\ \A b \in ST!Readers : own[b] \in base + 1 .. base + ST!Cardinality(ST!Readers)
  BY <1>1, OwnGiven
<1> HIDE DEF own
<1>3. box \in [Boxes -> [there : BOOLEAN, waits : BOOLEAN, list : 0 .. Len(arrays)]]
  BY DEF StoreTyped, ArrayNames
<1>4. Len(arrays) \in Nat
  <2>1. arrays \in Seq(SUBSET Entries)
    BY DEF StoreTyped
  <2> QED BY <2>1
<1>5. ASSUME NEW b \in Boxes
      PROVE  /\ box'[b] \in [there : BOOLEAN, waits : BOOLEAN, list : 0 .. all]
             /\ id # 0 => box'[b].list \in {id, box[b].list}
  <2>1. CASE b \in ST!Readers
    <3> DEFINE new == ST!Reads(id, own[b])
    <3>1. new \in 0 .. all /\ (id # 0 => new = id)
      <4> DEFINE mine == own[b] k == ST!Cardinality(ST!Readers)
      <4>1. k \in Nat /\ mine \in base + 1 .. base + k /\ base + k <= all
        BY <1>2, <2>1
      <4>2. new = IF id = 0 THEN mine ELSE id
        BY DEF ST!Reads, ST!NoArray
      <4> HIDE DEF mine, k, new
      <4> QED BY <4>1, <4>2
    <3>2. box'[b] = [box[b] EXCEPT !.waits = FALSE, !.list = new]
      BY <2>1 DEF own, BoxesGet
    <3> HIDE DEF new
    <3>3. box[b] \in [there : BOOLEAN, waits : BOOLEAN, list : 0 .. Len(arrays)]
      BY <1>3
    <3> QED BY <3>1, <3>2, <3>3
  <2>2. CASE b \notin ST!Readers
    <3>1. box'[b] = box[b]
      BY <2>2 DEF BoxesGet
    <3>2. box[b] \in [there : BOOLEAN, waits : BOOLEAN, list : 0 .. Len(arrays)]
      BY <1>3
    <3>3. 0 .. Len(arrays) \subseteq 0 .. all
      BY <1>4
    <3> QED BY <3>1, <3>2, <3>3
  <2> QED BY <2>1, <2>2
<1>6. box' = [b \in Boxes |-> box'[b]]
  BY DEF BoxesGet
<1> QED BY <1>5, <1>6

LEMMA LoadEndsKeeps ==
  ASSUME StoreInv, NEW ok \in BOOLEAN, ST!LoadEnds(ok)
  PROVE  StoreInv'
<1>1. StoreTyped /\ DraftKnown
  BY DEF StoreInv
<1> DEFINE found == ok /\ server.list # Absent
           got == IF found THEN Append(arrays, server.list) ELSE arrays
           d == IF ~ok THEN data
                ELSE [list |-> IF server.list = Absent THEN 0 ELSE Len(got), peers |-> server.peers]
           k == ST!Cardinality(ST!Readers)
           new == IF d.list = 0 THEN {} ELSE got[d.list]
           own == [i \in 1 .. k |-> new]
           parted == trouble.parted \/ ~ok \/ server.list = Absent
           load == IF ok THEN trouble.load ELSE trouble.load + 1
<1>2. loading /\ ~hydrated /\ ~saveTimer /\ saves = {}
  BY DEF ST!LoadEnds, StoreInv, WritesKnown
<1>3. /\ loading' = FALSE /\ server' = server /\ saveTimer' = saveTimer /\ saves' = saves
      /\ deleted' = deleted /\ draft' = draft /\ data' = d /\ hydrated' = (hydrated \/ ok)
      /\ arrays' = got \o own /\ trouble' = [trouble EXCEPT !.load = load, !.parted = parted]
  BY DEF ST!LoadEnds, ST!NoArray
<1>4. BoxesGet(Len(got), d.list)
  BY DEF ST!LoadEnds, ST!NoArray, BoxesGet
<1>5. /\ peersRead # "asked" => peers' = peers /\ peersRead' = peersRead
      /\ (peersRead = "asked" /\ hydrated') => peers' = PeersOf(d) /\ peersRead' = "yes"
      /\ (peersRead = "asked" /\ ~hydrated') => peers' = peers /\ peersRead' = "no"
  BY DEF ST!LoadEnds, ST!NoArray, PeersOf
<1>6. /\ arrays \in Seq(SUBSET Entries) /\ server \in Blobs /\ server.peers # Absent
      /\ data \in [list : 0 .. Len(arrays), peers : {Absent} \cup SUBSET Peers]
  BY <1>1 DEF StoreTyped, ArrayNames
<1>7. k \in Nat
  <2>1. IsFiniteSet(ST!Readers)
    BY PanelsAssumption, FS_Subset DEF ST!Readers
  <2> QED BY <2>1, OwnGiven
<1>8. /\ got \in Seq(SUBSET Entries) /\ Len(arrays) <= Len(got)
      /\ \A i \in 1 .. Len(arrays) : got[i] = arrays[i]
      /\ found => Len(got) = Len(arrays) + 1 /\ got[Len(got)] = server.list
  <2>1. CASE found
    <3>1. server.list \in SUBSET Entries
      BY <1>6, <2>1 DEF Blobs
    <3>2. got = Append(arrays, server.list)
      BY <2>1
    <3> QED BY <1>6, <3>1, <3>2, AppendProperties
  <2>2. CASE ~found
    BY <1>6, <2>2
  <2> QED BY <2>1, <2>2
<1>9. /\ d.list \in 0 .. Len(got) /\ d.peers \in {Absent} \cup SUBSET Peers
      /\ d = [list |-> d.list, peers |-> d.peers]
      /\ ok => d.peers = server.peers /\ (server.list = Absent => d.list = 0)
      /\ found => d.list = Len(got)
  <2> HIDE DEF got
  <2>1. CASE ok
    <3>1. d = [list |-> IF server.list = Absent THEN 0 ELSE Len(got), peers |-> server.peers]
      BY <2>1
    <3>2. server.peers \in SUBSET Peers /\ Len(got) \in Nat
      BY <1>6, <1>8 DEF Blobs
    <3> HIDE DEF d
    <3> QED BY <2>1, <3>1, <3>2
  <2>2. CASE ~ok
    <3>1. d = data
      BY <2>2
    <3>2. Len(arrays) \in Nat /\ Len(got) \in Nat
      BY <1>6, <1>8
    <3> HIDE DEF d
    <3> QED BY <1>6, <1>8, <2>2, <3>1, <3>2
  <2> QED BY <2>1, <2>2
<1>10. new \in SUBSET Entries
  <2> HIDE DEF got, d
  <2> QED BY <1>8, <1>9
<1> HIDE DEF got, d, new
<1>11. /\ own \in Seq(SUBSET Entries) /\ Len(own) = k
  <2> HIDE DEF k
  <2> QED BY <1>7, <1>10
<1> HIDE DEF own, k
<1>12. /\ arrays' \in Seq(SUBSET Entries) /\ Len(arrays') = Len(got) + k
       /\ \A i \in 1 .. Len(got) : arrays'[i] = got[i]
  <2>1. /\ got \o own \in Seq(SUBSET Entries) /\ Len(got \o own) = Len(got) + Len(own)
        /\ \A i \in 1 .. Len(got) + Len(own) :
             (got \o own)[i] = IF i <= Len(got) THEN got[i] ELSE own[i - Len(got)]
    BY <1>8, <1>11, ConcatProperties
  <2>2. Len(got) \in Nat
    BY <1>8
  <2> QED BY <1>3, <1>7, <1>11, <2>1, <2>2
<1>13. Len(got) \in Nat /\ Len(arrays) \in Nat
  BY <1>6, <1>8
<1>14. Grown
  BY <1>8, <1>12, <1>7, <1>13 DEF Grown
<1>15. /\ box' \in [Boxes -> [there : BOOLEAN, waits : BOOLEAN, list : ArrayNames']]
       /\ d.list # 0 => \A b \in Boxes : box'[b].list \in {d.list, box[b].list}
  <2> DEFINE base == Len(got) all == Len(arrays') id == d.list
  <2>1. base \in Nat /\ all \in Nat /\ id \in Nat /\ id <= base /\ Len(arrays) <= all
    BY <1>7, <1>8, <1>9, <1>12, <1>13
  <2>2. base + ST!Cardinality(ST!Readers) <= all
    BY <1>7, <1>12, <1>13 DEF k
  <2>3. BoxesGet(base, id)
    BY <1>4
  <2>4. ArrayNames' = 0 .. all
    BY DEF ArrayNames
  <2> HIDE DEF base, all, id
  <2>5. /\ box' \in [Boxes -> [there : BOOLEAN, waits : BOOLEAN, list : 0 .. all]]
        /\ id # 0 => \A b \in Boxes : box'[b].list \in {id, box[b].list}
    BY <1>1, <2>1, <2>2, <2>3, BoxesRead
  <2> QED BY <2>4, <2>5 DEF id
<1>16. /\ trouble' \in [load : Int, save : BOOLEAN, parted : BOOLEAN, blind : BOOLEAN]
       /\ trouble'.save = trouble.save /\ trouble'.blind = trouble.blind
       /\ ~trouble'.parted => ~trouble.parted /\ found
  <2>1. trouble \in [load : Int, save : BOOLEAN, parted : BOOLEAN, blind : BOOLEAN]
    BY <1>1 DEF StoreTyped
  <2>2. load \in Int
    BY <2>1
  <2>3. parted \in BOOLEAN /\ (~parted => ~trouble.parted /\ found)
    OBVIOUS
  <2> HIDE DEF load, parted
  <2>4. /\ trouble' \in [load : Int, save : BOOLEAN, parted : BOOLEAN, blind : BOOLEAN]
        /\ trouble'.save = trouble.save /\ trouble'.blind = trouble.blind
        /\ trouble'.parted = parted
    BY <1>3, <2>1, <2>2, <2>3
  <2> QED BY <2>3, <2>4
<1>17. StoreTyped'
  <2>1. data' \in [list : ArrayNames', peers : {Absent} \cup SUBSET Peers]
    BY <1>3, <1>7, <1>9, <1>12, <1>13 DEF ArrayNames
  <2>2. peers' \in SUBSET Peers
    <3>1. peers \in SUBSET Peers /\ PeersOf(d) \in SUBSET Peers
      BY <1>1, <1>9 DEF StoreTyped, PeersOf
    <3> QED BY <1>5, <3>1
  <2> QED BY <1>1, <1>3, <1>12, <1>15, <1>16, <2>1, <2>2 DEF StoreTyped, Blobs
<1>18. WritesKnown'
  <2>1. ok => ST!Merge(server, ST!Blob(data, arrays)') = server
    <3> SUFFICES ASSUME ok PROVE ST!Merge(server, ST!Blob(data, arrays)') = server
      OBVIOUS
    <3> DEFINE bl == ST!Blob(data, arrays)'
    <3>1. bl.peers = server.peers
      BY <1>3, <1>9 DEF ST!Blob
    <3>2. bl.list \in {Absent, server.list}
      <4>1. CASE server.list = Absent
        BY <1>3, <1>9, <4>1 DEF ST!Blob, ST!NoArray
      <4>2. CASE server.list # Absent
        <5>1. d.list = Len(got) /\ got[Len(got)] = server.list /\ Len(got) >= 1
          BY <1>8, <1>9, <1>13, <4>2
        <5>2. arrays'[d.list] = server.list /\ d.list # 0
          BY <1>12, <1>13, <5>1
        <5> QED BY <1>3, <5>2 DEF ST!Blob, ST!NoArray
      <4> QED BY <4>1, <4>2
    <3> HIDE DEF bl
    <3>3. server = [list |-> server.list, peers |-> server.peers]
      BY <1>6 DEF Blobs
    <3>4. \A key \in {"list", "peers"} :
            (IF bl[key] = Absent THEN server[key] ELSE bl[key]) = server[key]
      BY <3>1, <3>2
    <3>5. DOMAIN server = {"list", "peers"} /\ server = [key \in {"list", "peers"} |-> server[key]]
      BY <3>3
    <3>6. ST!Merge(server, bl) = server
      BY <3>4, <3>5 DEF ST!Merge
    <3> QED BY <3>6 DEF bl
  <2> QED BY <1>2, <1>3, <2>1 DEF WritesKnown
<1>19. ListsKnown'
  <2> SUFFICES ASSUME ~trouble'.parted PROVE ListsKnown'
    BY DEF ListsKnown
  <2>1. ~trouble.parted /\ found
    BY <1>16
  <2>2. \A b \in Boxes : box[b].list = 0
    BY <1>2, <2>1 DEF StoreInv, ListsKnown
  <2>3. d.list # 0
    BY <1>8, <1>9, <1>13, <2>1
  <2> QED BY <1>3, <1>15, <2>1, <2>2, <2>3 DEF ListsKnown
<1>20. RegistryKnown'
  <2> SUFFICES ASSUME ~trouble.blind PROVE RegistryKnown'
    BY <1>16 DEF RegistryKnown
  <2>1. peersRead # "yes"
    BY <1>2 DEF StoreInv, RegistryKnown
  <2>2. PeersOf(data)' = PeersOf(d)
    BY <1>3 DEF PeersOf
  <2>3. peersRead' = "yes" => hydrated' /\ peers' = PeersOf(data)'
    BY <1>5, <2>1, <2>2
  <2>4. hydrated' => PeersOf(data)' = server.peers
    BY <1>2, <1>3, <1>6, <1>9, <2>2 DEF PeersOf
  <2> QED BY <1>2, <1>3, <2>3, <2>4 DEF RegistryKnown
<1>21. DraftKnown'
  BY <1>1, <1>3 DEF DraftKnown
<1> QED BY <1>17, <1>18, <1>19, <1>20, <1>21 DEF StoreInv

(* A compose box's text and draft.                                         *)
LEMMA DraftKeeps ==
  ASSUME StoreInv, ST!DraftNext
  PROVE  StoreInv'
<1>1. UNCHANGED <<server, data, arrays, hydrated, loading, saveTimer, saves, box, peers, peersRead,
                  deleted, trouble>>
  BY DEF ST!DraftNext, ST!Typed, ST!InsertFromList, ST!Send, ST!ClearAll, ST!UndoClear,
         ST!UndoTimer, ST!Opens, ST!Closes, ST!Resend, ST!Reloaded, ST!DraftStep
<1>2. StoreTyped' /\ WritesKnown' /\ ListsKnown' /\ RegistryKnown'
  BY <1>1 DEF StoreInv, StoreTyped, WritesKnown, ListsKnown, RegistryKnown, ArrayNames, Blobs,
              PeersOf, ST!Merge, ST!Blob
<1>3. DraftKnown'
  <2>1. DraftKnown
    BY DEF StoreInv
  <2> USE DEF DraftKnown, ST!DraftStep, ST!Entered
  <2>2. ASSUME NEW t \in Texts \cup {Empty}, ST!Typed(t) PROVE DraftKnown'
    BY <2>1, <2>2 DEF ST!Typed
  <2>3. ASSUME NEW t \in Texts, ST!InsertFromList(t) PROVE DraftKnown'
    BY <2>1, <2>3 DEF ST!InsertFromList
  <2>4. CASE ST!Send
    BY <2>1, <2>4 DEF ST!Send
  <2>5. CASE ST!ClearAll
    BY <2>1, <2>5 DEF ST!ClearAll
  <2>6. CASE ST!UndoClear
    BY <2>1, <2>6 DEF ST!UndoClear
  <2>7. CASE ST!UndoTimer
    BY <2>1, <2>7 DEF ST!UndoTimer
  <2>8. CASE ST!Opens \/ ST!Closes
    BY <2>1, <2>8 DEF ST!Opens, ST!Opened, ST!Closes, ST!Draft0
  <2>9. CASE ST!Reloaded
    BY <2>1, <2>9 DEF ST!Reloaded, ST!Draft0
  <2>10. ASSUME NEW t \in Texts, ST!Resend(t) PROVE DraftKnown'
    <3>1. CASE draft.open
      BY <2>1, <2>10, <3>1 DEF ST!Resend
    <3>2. CASE ~draft.open
      BY <2>1, <2>10, <3>2 DEF ST!Resend, ST!Opened
    <3> QED BY <3>1, <3>2
  <2> QED BY <2>2, <2>3, <2>4, <2>5, <2>6, <2>7, <2>8, <2>9, <2>10 DEF ST!DraftNext
<1> QED BY <1>2, <1>3 DEF StoreInv

LEMMA StoreBegins == ST!StoreInit => StoreInv
<1> SUFFICES ASSUME ST!StoreInit PROVE StoreInv
  OBVIOUS
<1>1. /\ data = [list |-> 0, peers |-> Absent] /\ arrays = <<>> /\ ~hydrated /\ ~loading
      /\ ~saveTimer /\ saves = {} /\ peers = {} /\ peersRead = "no"
      /\ trouble = [load |-> 0, save |-> FALSE, parted |-> FALSE, blind |-> FALSE]
      /\ draft = [open |-> FALSE, text |-> Empty, stored |-> Empty, undo |-> Empty, host |-> Empty,
                  inserted |-> FALSE]
  BY DEF ST!StoreInit, ST!NoArray, ST!Calm, ST!Draft0
<1>2. box = [b \in Boxes |-> [there |-> FALSE, waits |-> FALSE, list |-> 0]]
  BY DEF ST!StoreInit, ST!NoArray, ST!Box0
<1>3. server \in Blobs /\ server.peers # Absent
  <2>1. Registered \in SUBSET Peers /\ Registered # Absent
    BY PanelsAssumption
  <2>2. server \in [list : {Absent} \cup SUBSET Entries, peers : {Registered}]
    BY DEF ST!StoreInit
  <2> QED BY <2>1, <2>2 DEF Blobs
<1>4. ArrayNames = {0} /\ arrays \in Seq(SUBSET Entries)
  BY <1>1 DEF ArrayNames
<1>5. StoreTyped
  BY <1>1, <1>2, <1>3, <1>4 DEF StoreTyped
<1>6. WritesKnown /\ RegistryKnown
  BY <1>1 DEF WritesKnown, RegistryKnown
<1>7. ListsKnown
  BY <1>1, <1>2 DEF ListsKnown
<1>8. DraftKnown
  BY <1>1 DEF DraftKnown
<1> QED BY <1>5, <1>6, <1>7, <1>8 DEF StoreInv

LEMMA StoreStays ==
  ASSUME StoreInv, UNCHANGED stVars
  PROVE  StoreInv'
BY DEF stVars, StoreInv, StoreTyped, WritesKnown, ListsKnown, RegistryKnown, DraftKnown, ArrayNames,
       Blobs, PeersOf, ST!Merge, ST!Blob

LEMMA StoreNextKeeps ==
  ASSUME StoreInv, ST!StoreNext
  PROVE  StoreInv'
<1>1. ASSUME NEW d \in saves, NEW ok \in BOOLEAN, ST!SaveEnds(d, ok) PROVE StoreInv'
  BY <1>1, SaveEndsKeeps
<1>2. ASSUME NEW ok \in BOOLEAN, ST!LoadEnds(ok) PROVE StoreInv'
  BY <1>2, LoadEndsKeeps
<1>3. ASSUME NEW b \in Boxes, ST!Mount(b) \/ ST!Unmount(b) \/ ST!Clear(b) PROVE StoreInv'
  BY <1>3, MountKeeps, UnmountKeeps, ClearKeeps
<1>4. ASSUME NEW b \in Boxes, NEW e \in Entries, ST!Push(b, e) \/ ST!Delete(b, e) PROVE StoreInv'
  BY <1>4, PushKeeps, DeleteKeeps
<1>5. ASSUME NEW p \in Peers, ST!AddPeer(p) \/ ST!RemovePeer(p) PROVE StoreInv'
  BY <1>5, AddPeerKeeps, RemovePeerKeeps
<1>6. CASE ST!SaveTimer
  BY <1>6, SaveTimerKeeps
<1>7. CASE ST!LoadPeers
  BY <1>7, LoadPeersKeeps
<1> QED BY <1>1, <1>2, <1>3, <1>4, <1>5, <1>6, <1>7, Zenon
        DEF ST!StoreNext, ST!ListsNext, ST!MachinesNext, ST!SharedNext

LEMMA StoreInvInductive == PanelsSpec => []StoreInv
<1>1. PanelsInit => StoreInv
  BY StoreBegins DEF PanelsInit
<1>2. StoreInv /\ [PanelsNext]_<<focus, tsVars, pdVars, ovVars, ubVars, stVars, rdVars>>
        => StoreInv'
  <2> SUFFICES ASSUME StoreInv,
                      [PanelsNext]_<<focus, tsVars, pdVars, ovVars, ubVars, stVars, rdVars>>
               PROVE  StoreInv'
    OBVIOUS
  <2>1. ST!StoreNext \/ ST!DraftNext \/ UNCHANGED stVars
    BY DEF PanelsNext, ST!StoreNext
  <2> QED BY <2>1, StoreNextKeeps, DraftKeeps, StoreStays
<1> QED BY <1>1, <1>2, PTL DEF PanelsSpec

(* At rest, with no write lost or overtaken, the server has what the page  *)
(* has; the compose boxes show one list; a machine is said to be deleted   *)
(* only when it is, unless the registry was edited unread; and a reload of *)
(* the page loses no text of an open compose box but what a list put       *)
(* there, or the host when it opened (useServerStore.ts,                   *)
(* useComposeBox.ts, useRemotePeers.ts).                                   *)
THEOREM RestStoresWhatThePageHas == PanelsSpec => []StoreHolds
<1>1. StoreInv => StoreHolds
  <2> SUFFICES ASSUME StoreInv PROVE StoreHolds
    OBVIOUS
  <2> USE DEF StoreInv
  <2>1. ST!RestIsStored
    <3> SUFFICES ASSUME hydrated, ~saveTimer, saves = {}, ~trouble.save
                 PROVE  ST!Merge(server, ST!Blob(data, arrays)) = server
      BY DEF ST!RestIsStored
    <3> QED BY DEF WritesKnown
  <2>2. ST!ListsAreShared
    BY DEF ListsKnown, ST!ListsAreShared, ST!NoArray, ST!Held
  <2>3. ST!DeletedMeansGone
    BY DEF RegistryKnown, ST!DeletedMeansGone, ST!Resolved
  <2>4. ST!DraftFollows
    BY DEF DraftKnown, ST!DraftFollows
  <2> QED BY <2>1, <2>2, <2>3, <2>4 DEF StoreHolds, ST!StoreHolds
<1> QED BY <1>1, StoreInvInductive, PTL

-----------------------------------------------------------------------------
(***************************************************************************)
(* Counting up: what holds at 0 and is handed on holds as far as one       *)
(* counts, and a function defined by counting up exists.                   *)
(***************************************************************************)
LEMMA CountingUp ==
  ASSUME NEW m \in Nat, NEW S \in SUBSET (0 .. m), 0 \in S,
         \A n \in 0 .. m : n < m /\ n \in S => n + 1 \in S
  PROVE  S = 0 .. m
<1>1. SUFFICES ASSUME (0 .. m) \ S # {} PROVE FALSE
  OBVIOUS
<1> DEFINE T == (0 .. m) \ S
<1>2. T \subseteq Nat /\ T # {}
  BY <1>1
<1>3. PICK x \in T : \A y \in T : <<y, x>> \notin OpToRel(<, Nat)
  BY <1>2, NatLessThanWellFounded, WFMin, Zenon
<1>4. \A y \in T : ~(y < x)
  BY <1>2, <1>3, Zenon DEF OpToRel
<1>5. x # 0 /\ x - 1 \in 0 .. m /\ x - 1 < m /\ x - 1 < x
  BY <1>2
<1>6. x - 1 \in S
  BY <1>4, <1>5
<1>7. x \in S
  BY <1>5, <1>6
<1> QED BY <1>7

(* f is defined by counting up to m: g is the step, e where it starts.     *)
Counts(f, T, e, m, g) ==
  /\ f \in [0 .. m -> T]
  /\ f = [n \in 0 .. m |-> IF n = 0 THEN e ELSE g[<<f[n - 1], n>>]]

LEMMA CountedFunction ==
  ASSUME NEW T, NEW e \in T, NEW m \in Nat, NEW g \in [T \X (1 .. m) -> T]
  PROVE  \E f : Counts(f, T, e, m, g)
<1> DEFINE Done(k, f) == \A n \in 0 .. k : f[n] = IF n = 0 THEN e ELSE g[<<f[n - 1], n>>]
           S == {k \in 0 .. m : \E f \in [0 .. k -> T] : Done(k, f)}
<1>1. 0 \in S
  <2> DEFINE first == [n \in 0 .. 0 |-> e]
  <2>1. first \in [0 .. 0 -> T] /\ Done(0, first)
    OBVIOUS
  <2> HIDE DEF first, Done
  <2> QED BY <2>1
<1>2. ASSUME NEW k \in 0 .. m, k < m, k \in S PROVE k + 1 \in S
  <2>1. PICK f \in [0 .. k -> T] : Done(k, f)
    BY <1>2
  <2> DEFINE h == [n \in 0 .. k + 1 |-> IF n = k + 1 THEN g[<<f[k], k + 1>>] ELSE f[n]]
  <2>2. k + 1 \in 1 .. m /\ f[k] \in T /\ <<f[k], k + 1>> \in T \X (1 .. m)
    BY <1>2
  <2>3. g[<<f[k], k + 1>>] \in T
    BY <2>2
  <2>4. h \in [0 .. k + 1 -> T]
    BY <2>3
  <2>5. ASSUME NEW n \in 0 .. k + 1
        PROVE  h[n] = IF n = 0 THEN e ELSE g[<<h[n - 1], n>>]
    <3>1. CASE n = k + 1
      <4>1. h[n] = g[<<f[k], k + 1>>] /\ h[n - 1] = f[k] /\ n # 0
        BY <3>1, <1>2
      <4> QED BY <4>1, <3>1
    <3>2. CASE n # k + 1
      <4>1. n \in 0 .. k /\ h[n] = f[n] /\ (n # 0 => n - 1 \in 0 .. k /\ h[n - 1] = f[n - 1])
        BY <3>2
      <4> HIDE DEF h
      <4> QED BY <4>1, <2>1
    <3> QED BY <3>1, <3>2
  <2> HIDE DEF h
  <2>6. Done(k + 1, h)
    BY <2>5
  <2> QED BY <1>2, <2>4, <2>6
<1> HIDE DEF S
<1>3. S = 0 .. m
  BY <1>1, <1>2, CountingUp DEF S
<1>4. PICK f \in [0 .. m -> T] : Done(m, f)
  BY <1>3 DEF S
<1>5. f = [n \in 0 .. m |-> IF n = 0 THEN e ELSE g[<<f[n - 1], n>>]]
  BY <1>4
<1> QED BY <1>4, <1>5 DEF Counts

-----------------------------------------------------------------------------
(***************************************************************************)
(* The drawers: one surface at most is shown, as long as no two are shown  *)
(* together, and whoever is docked on show owns the width that is told.    *)
(***************************************************************************)
DockedNow(s) == PD!Docked(s, tmux, drawersOpen, surfacesShown)
SqueezeNow(s) == PD!Squeeze(s, tmux, drawersOpen, drawerMode, wide)
WidthTold ==
  \/ \E s \in Surfaces : DockedNow(s) > 0 /\ cssWidth = DockedNow(s) /\ owner = s
  \/ (\A s \in Surfaces : DockedNow(s) = 0) /\ cssWidth = 0 /\ owner = "nobody"
OneShown ==
  /\ surfacesMounted \subseteq Surfaces /\ surfacesShown \subseteq surfacesMounted
  /\ \A s, t \in surfacesShown : s = t
BySurface ==
  /\ DOMAIN tmux = Surfaces /\ DOMAIN known = Surfaces /\ DOMAIN drawersOpen = Surfaces
  /\ DOMAIN drawerMode = Surfaces /\ DOMAIN reflow = Surfaces /\ DOMAIN fitted = Surfaces
DrawersInv ==
  /\ OneShown /\ BySurface /\ WidthTold
  /\ PD!FittedBesideDrawer /\ PD!CurrentHasItsDrawer

LEMMA DockedIsWide ==
  ASSUME NEW s, NEW t, NEW o, NEW a
  PROVE  /\ PD!Docked(s, t, o, a) \in Nat /\ PD!Width(s) > 0
         /\ PD!Docked(s, t, o, a) > 0 => s \in a /\ PD!Docked(s, t, o, a) = PD!Width(s)
BY DEF PD!Docked, PD!Width

LEMMA DrawerCounts == \A S : PD!Cardinality(S) = Cardinality(S)
BY DEF PD!Cardinality, Cardinality

(* Whatever the order of the watches, the width told in the end is that of *)
(* the surface docked in the end.                                          *)
LEMMA PublishTells ==
  ASSUME OneShown, OneShown', WidthTold, surfacesMounted' = surfacesMounted, PD!Publish
  PROVE  WidthTold'
<1> DEFINE before(s) == PD!Docked(s, tmux, drawersOpen, surfacesShown)
           px(s) == PD!Docked(s, tmux', drawersOpen', surfacesShown')
           changed == {s \in surfacesMounted : px(s) # before(s)}
           css0 == [width |-> cssWidth, owner |-> owner]
<1>1. PICK order \in PD!SetToSeqs(changed) :
        LET css[n \in 0 .. Len(order)] ==
              IF n = 0 THEN css0 ELSE PD!Published(css[n - 1], order[n], px(order[n]))
        IN cssWidth' = css[Len(order)].width /\ owner' = css[Len(order)].owner
  BY DEF PD!Publish
<1> DEFINE N == Len(order)
           css[n \in 0 .. N] ==
             IF n = 0 THEN css0 ELSE PD!Published(css[n - 1], order[n], px(order[n]))
<1>2. cssWidth' = css[N].width /\ owner' = css[N].owner
  BY <1>1
<1>3. css = CHOOSE f : f = [n \in 0 .. N |->
              IF n = 0 THEN css0 ELSE PD!Published(f[n - 1], order[n], px(order[n]))]
  BY DEF css
<1> HIDE DEF css
<1>4. IsFiniteSet(Surfaces) /\ "nobody" \notin Surfaces
  BY PanelsAssumption
<1>5. /\ \A s : before(s) \in Nat /\ px(s) \in Nat
      /\ \A s : before(s) > 0 => s \in surfacesShown
      /\ \A s : px(s) > 0 => s \in surfacesShown'
  BY DockedIsWide
<1>6. WidthTold' <=>
        \/ \E s \in Surfaces : px(s) > 0 /\ cssWidth' = px(s) /\ owner' = s
        \/ (\A s \in Surfaces : px(s) = 0) /\ cssWidth' = 0 /\ owner' = "nobody"
  BY DEF WidthTold, DockedNow
<1>7. \/ \E s \in Surfaces : before(s) > 0 /\ css0 = [width |-> before(s), owner |-> s]
      \/ (\A s \in Surfaces : before(s) = 0) /\ css0 = [width |-> 0, owner |-> "nobody"]
  BY DEF WidthTold, DockedNow
<1> HIDE DEF before, px, css0
<1>8. changed \subseteq Surfaces /\ IsFiniteSet(changed)
  BY <1>4, FS_Subset DEF OneShown
<1>9. /\ N \in Nat /\ order \in [1 .. N -> changed]
      /\ \A i, j \in 1 .. N : i # j => order[i] # order[j]
      /\ \A s \in changed : \E i \in 1 .. N : order[i] = s
  <2> DEFINE C == Cardinality(changed)
  <2>1. C \in Nat
    BY <1>8, FS_CardinalityType
  <2>2. order \in [1 .. C -> changed] /\ \A i, j \in 1 .. C : i # j => order[i] # order[j]
    BY DrawerCounts DEF PD!SetToSeqs
  <2>3. N = C
    <3> HIDE DEF changed, C
    <3>1. order \in Seq(changed) /\ DOMAIN order = 1 .. C
      BY <2>1, <2>2
    <3> QED BY <2>1, <3>1
  <2>4. order \in Injection(1 .. C, changed)
    BY <2>2 DEF Injection, IsInjective
  <2>5. Cardinality(1 .. C) = C
    BY <2>1, FS_Interval
  <2>6. order \in Surjection(1 .. C, changed)
    BY <2>4, <2>5, <1>8, FS_Injection
  <2> QED BY <2>1, <2>2, <2>3, <2>6 DEF Surjection
<1> DEFINE T == [width : Nat, owner : Surfaces \cup {"nobody"}]
           g == [w \in T \X (1 .. N) |-> PD!Published(w[1], order[w[2]], px(order[w[2]]))]
<1>10. css0 \in T
  <2>1. CASE \E s \in Surfaces : before(s) > 0 /\ css0 = [width |-> before(s), owner |-> s]
    BY <2>1, <1>5
  <2>2. CASE css0 = [width |-> 0, owner |-> "nobody"]
    BY <2>2
  <2> QED BY <1>7, <2>1, <2>2
<1>11. ASSUME NEW c \in T, NEW n \in 1 .. N
       PROVE  /\ g[<<c, n>>] = PD!Published(c, order[n], px(order[n]))
              /\ g[<<c, n>>] \in T
  <2>1. g[<<c, n>>] = PD!Published(c, order[n], px(order[n]))
    OBVIOUS
  <2>2. order[n] \in Surfaces /\ px(order[n]) \in Nat
    BY <1>5, <1>8, <1>9
  <2> QED BY <2>1, <2>2 DEF PD!Published, PD!Nobody
<1>12. g \in [T \X (1 .. N) -> T]
  <2>1. \A w \in T \X (1 .. N) : w[1] \in T /\ w[2] \in 1 .. N /\ w = <<w[1], w[2]>>
    OBVIOUS
  <2>2. \A w \in T \X (1 .. N) : g[w] \in T
    <3> HIDE DEF g, T
    <3> QED BY <2>1, <1>11
  <2> QED BY <2>2
<1> HIDE DEF g, T
<1>13. PICK f : Counts(f, T, css0, N, g)
  BY <1>9, <1>10, <1>12, CountedFunction
<1>14. f = [n \in 0 .. N |-> IF n = 0 THEN css0 ELSE PD!Published(f[n - 1], order[n], px(order[n]))]
  <2>1. f \in [0 .. N -> T] /\ f = [n \in 0 .. N |-> IF n = 0 THEN css0 ELSE g[<<f[n - 1], n>>]]
    BY <1>13 DEF Counts
  <2>2. ASSUME NEW n \in 0 .. N, n # 0
        PROVE  g[<<f[n - 1], n>>] = PD!Published(f[n - 1], order[n], px(order[n]))
    <3>1. n \in 1 .. N /\ n - 1 \in 0 .. N
      BY <2>2, <1>9
    <3>2. f[n - 1] \in T
      BY <2>1, <3>1
    <3> QED BY <3>1, <3>2, <1>11
  <2> QED BY <2>1, <2>2
<1>15. css = [n \in 0 .. N |->
             IF n = 0 THEN css0 ELSE PD!Published(css[n - 1], order[n], px(order[n]))]
  BY <1>3, <1>14
<1>16. /\ css[0] = css0
       /\ \A n \in 1 .. N : css[n] = PD!Published(css[n - 1], order[n], px(order[n]))
  BY <1>15, <1>9
<1> DEFINE P(n) == {order[i] : i \in 1 .. n}
           Good(n) ==
             \/ \E e \in P(n) : px(e) > 0 /\ css[n] = [width |-> px(e), owner |-> e]
             \/ /\ \A e \in P(n) : px(e) = 0
                /\ css[n] = IF n = 0 THEN css0 ELSE [width |-> 0, owner |-> "nobody"]
           S == {n \in 0 .. N : Good(n)}
<1>17. 0 \in S
  BY <1>9, <1>16
<1>18. ASSUME NEW n \in 0 .. N, n < N, n \in S PROVE n + 1 \in S
  <2> DEFINE x == order[n + 1]
  <2>1. n + 1 \in 1 .. N /\ (n + 1) - 1 = n /\ n + 1 # 0 /\ n \in Nat
    BY <1>18, <1>9
  <2>2. x \in changed /\ x \in Surfaces /\ px(x) \in Nat /\ before(x) \in Nat /\ px(x) # before(x)
    BY <2>1, <1>5, <1>8, <1>9
  <2>3. css[n + 1] = PD!Published(css[n], x, px(x))
    BY <2>1, <1>16
  <2>4. P(n + 1) = P(n) \cup {x} /\ x \notin P(n)
    <3>1. 1 .. n + 1 = (1 .. n) \cup {n + 1} /\ \A i \in 1 .. n : i \in 1 .. N /\ i # n + 1
      BY <2>1
    <3> QED BY <3>1, <2>1, <1>9
  <2>5. Good(n)
    BY <1>18
  <2> HIDE DEF x, P, changed
  <2>6. CASE px(x) > 0
    <3>1. css[n + 1] = [width |-> px(x), owner |-> x]
      BY <2>3, <2>6 DEF PD!Published
    <3> QED BY <3>1, <2>6, <2>4, <2>1
  <2>7. CASE px(x) = 0
    <3>1. css[n + 1] = IF css[n].owner = x THEN [width |-> 0, owner |-> "nobody"] ELSE css[n]
      BY <2>3, <2>7 DEF PD!Published, PD!Nobody
    <3>2. CASE \E e \in P(n) : px(e) > 0 /\ css[n] = [width |-> px(e), owner |-> e]
      <4>1. PICK e \in P(n) : px(e) > 0 /\ css[n] = [width |-> px(e), owner |-> e]
        BY <3>2
      <4>2. css[n].owner = e /\ e # x
        BY <4>1, <2>4
      <4> QED BY <3>1, <4>1, <4>2, <2>4, <2>1
    <3>3. CASE /\ \A e \in P(n) : px(e) = 0
               /\ css[n] = IF n = 0 THEN css0 ELSE [width |-> 0, owner |-> "nobody"]
      <4>1. css[n + 1] = [width |-> 0, owner |-> "nobody"]
        <5>1. CASE n = 0
          <6>1. before(x) > 0
            BY <2>2, <2>7
          <6>2. PICK s \in Surfaces : before(s) > 0 /\ css0 = [width |-> before(s), owner |-> s]
            BY <6>1, <1>7, <2>2
          <6>3. s = x
            BY <6>1, <6>2, <1>5 DEF OneShown
          <6>4. css[n] = css0 /\ css0.owner = x
            BY <3>3, <5>1, <6>2, <6>3
          <6> QED BY <6>4, <3>1
        <5>2. CASE n # 0
          <6>1. css[n] = [width |-> 0, owner |-> "nobody"]
            BY <3>3, <5>2
          <6> QED BY <6>1, <3>1
        <5> QED BY <5>1, <5>2
      <4> QED BY <4>1, <3>3, <2>4, <2>7, <2>1
    <3> QED BY <3>2, <3>3, <2>5
  <2> QED BY <2>6, <2>7, <2>2
<1> HIDE DEF S
<1>19. S = 0 .. N
  BY <1>9, <1>17, <1>18, CountingUp DEF S
<1>20. Good(N) /\ P(N) = changed
  <2>1. N \in S
    BY <1>9, <1>19
  <2> QED BY <2>1, <1>9 DEF S
<1>21. \A s \in Surfaces \ surfacesMounted : px(s) = 0 /\ before(s) = 0
  BY <1>5 DEF OneShown
<1>22. N # 0 => changed # {}
  BY <1>9
<1>23. CASE \E e \in P(N) : px(e) > 0 /\ css[N] = [width |-> px(e), owner |-> e]
  <2>1. PICK e \in changed : px(e) > 0 /\ css[N] = [width |-> px(e), owner |-> e]
    BY <1>20, <1>23
  <2>2. css[N].width = px(e) /\ css[N].owner = e
    BY <2>1
  <2> QED BY <2>1, <2>2, <1>2, <1>6, <1>8
<1>24. CASE /\ \A e \in P(N) : px(e) = 0
            /\ css[N] = IF N = 0 THEN css0 ELSE [width |-> 0, owner |-> "nobody"]
  <2>1. \A e \in changed : px(e) = 0
    BY <1>20, <1>24
  <2>2. CASE changed = {}
    <3>1. \A s \in Surfaces : px(s) = before(s)
      BY <2>2, <1>21
    <3>2. N = 0 /\ css[N] = css0
      <4>1. N = 0
        BY <2>2, <1>9
      <4> QED BY <4>1, <1>24
    <3>3. cssWidth' = css0.width /\ owner' = css0.owner
      BY <3>2, <1>2
    <3>4. \/ \E s \in Surfaces : px(s) > 0 /\ cssWidth' = px(s) /\ owner' = s
          \/ (\A s \in Surfaces : px(s) = 0) /\ cssWidth' = 0 /\ owner' = "nobody"
      BY <3>1, <3>3, <1>7
    <3> QED BY <3>4, <1>6
  <2>3. CASE changed # {}
    <3>1. PICK d \in changed : TRUE
      BY <2>3
    <3>2. before(d) > 0 /\ px(d) = 0 /\ d \in Surfaces /\ d \in surfacesMounted
      BY <3>1, <2>1, <1>5, <1>8
    <3>3. ASSUME NEW s \in Surfaces PROVE px(s) = 0
      <4>1. CASE s \in changed
        BY <4>1, <2>1
      <4>2. CASE s \notin changed /\ s \in surfacesMounted
        <5>1. px(s) = before(s) /\ s # d
          BY <4>2, <3>1
        <5>2. before(s) = 0
          BY <5>1, <3>2, <1>5 DEF OneShown
        <5> QED BY <5>1, <5>2
      <4>3. CASE s \notin surfacesMounted
        BY <4>3, <1>21
      <4> QED BY <4>1, <4>2, <4>3
    <3>4. N # 0
      BY <2>3, <1>9
    <3>5. cssWidth' = 0 /\ owner' = "nobody"
      BY <3>4, <1>24, <1>2
    <3> QED BY <3>3, <3>5, <1>6
  <2> QED BY <2>2, <2>3
<1> QED BY <1>20, <1>23, <1>24

(* The watch of the squeeze has begun the timer of every surface on show   *)
(* whose squeeze changed.                                                  *)
LEMMA ReflowFits ==
  ASSUME DrawersInv, OneShown', PD!Reflow,
         \A s \in surfacesShown' : \/ fitted'[s] = fitted[s] /\ s \in surfacesShown
                                   \/ fitted'[s] = SqueezeNow(s)
  PROVE  PD!FittedBesideDrawer' /\ DOMAIN reflow' = Surfaces
<1>1. /\ reflow' = [s \in Surfaces |->
           s \in surfacesMounted' /\ (reflow[s] \/ SqueezeNow(s)' # SqueezeNow(s))]
      /\ PD!FittedBesideDrawer' <=>
           \A s \in surfacesShown' : ~reflow'[s] => fitted'[s] = SqueezeNow(s)'
      /\ \A s \in surfacesShown : ~reflow[s] => fitted[s] = SqueezeNow(s)
  BY DEF PD!Reflow, SqueezeNow, PD!FittedBesideDrawer, DrawersInv
<1> HIDE DEF SqueezeNow
<1>2. ASSUME NEW s \in surfacesShown', ~reflow'[s] PROVE fitted'[s] = SqueezeNow(s)'
  <2>1. s \in Surfaces /\ s \in surfacesMounted'
    BY DEF OneShown
  <2>2. ~reflow[s] /\ SqueezeNow(s)' = SqueezeNow(s)
    BY <1>1, <1>2, <2>1
  <2> QED BY <1>1, <2>2
<1> QED BY <1>1, <1>2

LEMMA CurrentIsValid ==
  ASSUME NEW t, NEW o
  PROVE  t.current \in PD!Valid(t, o)
BY DEF PD!Valid

LEMMA TmuxReportedKeeps ==
  ASSUME DrawersInv, NEW s \in Surfaces, PD!TmuxReported(s)
  PROVE  DrawersInv'
<1>1. /\ s \in surfacesMounted
      /\ UNCHANGED <<drawerMode, wide, surfacesShown, surfacesMounted, fitted>>
      /\ PD!Prune(s) /\ PD!Reflow /\ PD!Publish
      /\ \E t : tmux' = [tmux EXCEPT ![s] = t]
  BY DEF PD!TmuxReported, PD!Watches
<1>2. OneShown'
  BY <1>1 DEF DrawersInv, OneShown
<1>3. WidthTold'
  BY <1>1, <1>2, PublishTells DEF DrawersInv
<1>4. PD!FittedBesideDrawer' /\ DOMAIN reflow' = Surfaces
  BY <1>1, <1>2, ReflowFits DEF DrawersInv
<1>5. /\ known' = [known EXCEPT
           ![s] = (@ \cup {tmux'[s].current}) \cap PD!Valid(tmux'[s], drawersOpen[s])]
      /\ drawersOpen' = [drawersOpen EXCEPT ![s] = @ \cap PD!Valid(tmux'[s], drawersOpen[s])]
  BY <1>1 DEF PD!Prune
<1>6. BySurface'
  BY <1>1, <1>4, <1>5 DEF DrawersInv, BySurface
<1>7. PD!CurrentHasItsDrawer'
  <2>1. ASSUME NEW r \in surfacesMounted'
        PROVE  tmux'[r].current \in known'[r] /\ drawersOpen'[r] \subseteq known'[r]
    <3>1. r \in Surfaces /\ r \in surfacesMounted
      BY <1>1 DEF DrawersInv, OneShown
    <3>2. tmux[r].current \in known[r] /\ drawersOpen[r] \subseteq known[r]
      BY <3>1 DEF DrawersInv, PD!CurrentHasItsDrawer
    <3>3. CASE r = s
      <4>1. tmux'[r].current \in PD!Valid(tmux'[r], drawersOpen[r])
        BY CurrentIsValid
      <4>2. /\ known'[r] =
                  (known[r] \cup {tmux'[r].current}) \cap PD!Valid(tmux'[r], drawersOpen[r])
            /\ drawersOpen'[r] = drawersOpen[r] \cap PD!Valid(tmux'[r], drawersOpen[r])
        BY <1>5, <3>1, <3>3 DEF DrawersInv, BySurface
      <4> QED BY <4>1, <4>2, <3>2
    <3>4. CASE r # s
      <4>1. tmux'[r] = tmux[r] /\ known'[r] = known[r] /\ drawersOpen'[r] = drawersOpen[r]
        BY <1>1, <1>5, <3>1, <3>4 DEF DrawersInv, BySurface
      <4> QED BY <4>1, <3>2
    <3> QED BY <3>3, <3>4
  <2> QED BY <2>1 DEF PD!CurrentHasItsDrawer
<1> QED BY <1>2, <1>3, <1>4, <1>6, <1>7 DEF DrawersInv

LEMMA ToggleKeeps ==
  ASSUME DrawersInv, NEW s \in Surfaces, PD!Toggle(s)
  PROVE  DrawersInv'
<1> DEFINE k == tmux[s].current
           o == IF k \in drawersOpen[s] THEN drawersOpen[s] \ {k} ELSE drawersOpen[s] \cup {k}
           valid == PD!Valid(tmux[s], o)
<1>1. /\ UNCHANGED <<tmux, drawerMode, wide, surfacesShown, surfacesMounted, fitted>>
      /\ PD!Reflow /\ PD!Publish
      /\ drawersOpen' = [drawersOpen EXCEPT ![s] = o \cap valid]
      /\ known' = [known EXCEPT ![s] = @ \cap valid]
  BY DEF PD!Toggle, PD!Watches
<1>2. OneShown'
  BY <1>1 DEF DrawersInv, OneShown
<1>3. WidthTold'
  BY <1>1, <1>2, PublishTells DEF DrawersInv
<1>4. PD!FittedBesideDrawer' /\ DOMAIN reflow' = Surfaces
  BY <1>1, <1>2, ReflowFits DEF DrawersInv
<1>5. BySurface'
  BY <1>1, <1>4 DEF DrawersInv, BySurface
<1>6. k \in valid
  BY CurrentIsValid
<1>7. PD!CurrentHasItsDrawer'
  <2> HIDE DEF valid
  <2>1. ASSUME NEW r \in surfacesMounted'
        PROVE  tmux'[r].current \in known'[r] /\ drawersOpen'[r] \subseteq known'[r]
    <3>1. r \in Surfaces /\ r \in surfacesMounted /\ tmux'[r] = tmux[r]
      BY <1>1 DEF DrawersInv, OneShown
    <3>2. tmux[r].current \in known[r] /\ drawersOpen[r] \subseteq known[r]
      BY <3>1 DEF DrawersInv, PD!CurrentHasItsDrawer
    <3>3. CASE r = s
      <4>1. known'[r] = known[r] \cap valid /\ drawersOpen'[r] = o \cap valid
        BY <1>1, <3>1, <3>3 DEF DrawersInv, BySurface
      <4> QED BY <4>1, <3>1, <3>2, <3>3, <1>6
    <3>4. CASE r # s
      <4>1. known'[r] = known[r] /\ drawersOpen'[r] = drawersOpen[r]
        BY <1>1, <3>1, <3>4 DEF DrawersInv, BySurface
      <4> QED BY <4>1, <3>1, <3>2
    <3> QED BY <3>3, <3>4
  <2> QED BY <2>1 DEF PD!CurrentHasItsDrawer
<1> QED BY <1>2, <1>3, <1>4, <1>5, <1>7 DEF DrawersInv

LEMMA LayoutKeeps ==
  ASSUME DrawersInv, (\E s \in Surfaces : PD!SetMode(s)) \/ PD!WindowResized
  PROVE  DrawersInv'
<1>1. /\ UNCHANGED <<tmux, known, drawersOpen, surfacesShown, surfacesMounted, fitted>>
      /\ PD!Reflow /\ PD!Publish /\ DOMAIN drawerMode' = Surfaces
  BY DEF PD!SetMode, PD!WindowResized, PD!Watches, DrawersInv, BySurface
<1>2. OneShown'
  BY <1>1 DEF DrawersInv, OneShown
<1>3. WidthTold'
  BY <1>1, <1>2, PublishTells DEF DrawersInv
<1>4. PD!FittedBesideDrawer' /\ DOMAIN reflow' = Surfaces
  BY <1>1, <1>2, ReflowFits DEF DrawersInv
<1>5. BySurface'
  BY <1>1, <1>4 DEF DrawersInv, BySurface
<1>6. PD!CurrentHasItsDrawer'
  BY <1>1 DEF DrawersInv, PD!CurrentHasItsDrawer
<1> QED BY <1>2, <1>3, <1>4, <1>5, <1>6 DEF DrawersInv

LEMMA ActivateKeeps ==
  ASSUME DrawersInv, ~Together, NEW a \in SUBSET Surfaces, PD!Activate(a)
  PROVE  DrawersInv'
<1>1. /\ UNCHANGED <<tmux, known, drawersOpen, drawerMode, wide, surfacesMounted>>
      /\ surfacesShown' = a /\ a \subseteq surfacesMounted /\ Cardinality(a) <= 1
      /\ PD!Reflow /\ PD!Publish
      /\ fitted' = [s \in Surfaces |-> IF s \in a \ surfacesShown THEN SqueezeNow(s) ELSE fitted[s]]
  BY DrawerCounts DEF PD!Activate, PD!Watches, SqueezeNow
<1>2. \A s, t \in a : s = t
  <2>1. IsFiniteSet(a)
    BY PanelsAssumption, FS_Subset
  <2>2. Cardinality(a) = 0 \/ Cardinality(a) = 1
    BY <2>1, <1>1, FS_CardinalityType
  <2> QED BY <2>1, <2>2, FS_EmptySet, FS_Singleton
<1>3. OneShown'
  BY <1>1, <1>2 DEF DrawersInv, OneShown
<1>4. WidthTold'
  BY <1>1, <1>3, PublishTells DEF DrawersInv
<1>5. PD!FittedBesideDrawer' /\ DOMAIN reflow' = Surfaces
  <2>1. ASSUME NEW s \in surfacesShown'
        PROVE  \/ fitted'[s] = fitted[s] /\ s \in surfacesShown
               \/ fitted'[s] = SqueezeNow(s)
    BY <1>1
  <2> QED BY <2>1, <1>1, <1>3, ReflowFits
<1>6. BySurface'
  BY <1>1, <1>5 DEF DrawersInv, BySurface
<1>7. PD!CurrentHasItsDrawer'
  BY <1>1 DEF DrawersInv, PD!CurrentHasItsDrawer
<1> QED BY <1>3, <1>4, <1>5, <1>6, <1>7 DEF DrawersInv

LEMMA ReflowTimerKeeps ==
  ASSUME DrawersInv, NEW s \in Surfaces, PD!ReflowTimer(s)
  PROVE  DrawersInv'
<1>1. /\ UNCHANGED <<tmux, known, drawersOpen, drawerMode, wide, surfacesShown, surfacesMounted,
                     cssWidth, owner>>
      /\ reflow' = [reflow EXCEPT ![s] = FALSE]
      /\ fitted' = IF s \in surfacesShown THEN [fitted EXCEPT ![s] = SqueezeNow(s)] ELSE fitted
  BY DEF PD!ReflowTimer, SqueezeNow
<1>2. \A r : SqueezeNow(r)' = SqueezeNow(r) /\ DockedNow(r)' = DockedNow(r)
  BY <1>1 DEF SqueezeNow, DockedNow
<1>3. \A r \in surfacesShown : ~reflow[r] => fitted[r] = SqueezeNow(r)
  BY DEF DrawersInv, PD!FittedBesideDrawer, SqueezeNow
<1>4. \A r \in surfacesShown' : ~reflow'[r] => fitted'[r] = SqueezeNow(r)'
  <2> HIDE DEF SqueezeNow
  <2> QED BY <1>1, <1>2, <1>3 DEF DrawersInv, OneShown, BySurface
<1>5. PD!FittedBesideDrawer'
  BY <1>4 DEF PD!FittedBesideDrawer, SqueezeNow
<1>6. OneShown' /\ BySurface'
  BY <1>1 DEF DrawersInv, OneShown, BySurface
<1>7. WidthTold'
  BY <1>1, <1>2 DEF DrawersInv, WidthTold
<1>8. PD!CurrentHasItsDrawer'
  BY <1>1 DEF DrawersInv, PD!CurrentHasItsDrawer
<1> QED BY <1>5, <1>6, <1>7, <1>8 DEF DrawersInv

LEMMA ClosesKeeps ==
  ASSUME DrawersInv, NEW s \in Surfaces, PD!Closes(s)
  PROVE  DrawersInv'
<1>1. /\ UNCHANGED <<tmux, known, drawersOpen, drawerMode, wide, fitted>>
      /\ surfacesMounted' = surfacesMounted \ {s} /\ surfacesShown' = surfacesShown \ {s}
      /\ reflow' = [reflow EXCEPT ![s] = FALSE]
      /\ IF owner = s THEN cssWidth' = 0 /\ owner' = "nobody" ELSE UNCHANGED <<cssWidth, owner>>
  BY DEF PD!Closes, PD!Released, PD!Nobody
<1>2. OneShown' /\ BySurface'
  BY <1>1 DEF DrawersInv, OneShown, BySurface
<1>3. \A r : SqueezeNow(r)' = SqueezeNow(r) /\ DockedNow(r)' = IF r = s THEN 0 ELSE DockedNow(r)
  BY <1>1 DEF SqueezeNow, DockedNow, PD!Docked, PD!Shows
<1>4. \A r : DockedNow(r) \in Nat /\ (DockedNow(r) > 0 => r \in surfacesShown)
  BY DockedIsWide DEF DockedNow
<1>5. PD!FittedBesideDrawer'
  <2>1. \A r \in surfacesShown : ~reflow[r] => fitted[r] = SqueezeNow(r)
    BY DEF DrawersInv, PD!FittedBesideDrawer, SqueezeNow
  <2>2. \A r \in surfacesShown' : ~reflow'[r] => fitted'[r] = SqueezeNow(r)'
    <3> HIDE DEF SqueezeNow
    <3> QED BY <1>1, <1>3, <2>1 DEF DrawersInv, OneShown, BySurface
  <2> QED BY <2>2 DEF PD!FittedBesideDrawer, SqueezeNow
<1>6. WidthTold'
  <2> HIDE DEF DockedNow
  <2>1. CASE owner = s
    <3>1. PICK r \in Surfaces : DockedNow(r) > 0 /\ cssWidth = DockedNow(r) /\ owner = r
      BY <2>1, PanelsAssumption DEF DrawersInv, WidthTold
    <3>2. \A t \in Surfaces : t # s => DockedNow(t) = 0
      BY <3>1, <2>1, <1>4 DEF DrawersInv, OneShown
    <3> QED BY <1>1, <1>3, <3>2, <2>1 DEF WidthTold
  <2>2. CASE owner # s
    BY <2>2, <1>1, <1>3 DEF DrawersInv, WidthTold
  <2> QED BY <2>1, <2>2
<1>7. PD!CurrentHasItsDrawer'
  BY <1>1 DEF DrawersInv, PD!CurrentHasItsDrawer
<1> QED BY <1>2, <1>5, <1>6, <1>7 DEF DrawersInv

LEMMA DrawersBegin ==
  ASSUME PD!DrawersInit
  PROVE  DrawersInv
<1> USE DEF PD!DrawersInit
<1>1. OneShown /\ BySurface /\ PD!FittedBesideDrawer
  BY DEF OneShown, BySurface, PD!FittedBesideDrawer
<1>2. WidthTold
  <2>1. \A s \in Surfaces : DockedNow(s) = 0
    BY DEF DockedNow, PD!Docked
  <2> QED BY <2>1 DEF WidthTold, PD!Nobody
<1>3. PD!CurrentHasItsDrawer
  BY DEF PD!CurrentHasItsDrawer, PD!Detached, PD!NoTmux
<1> QED BY <1>1, <1>2, <1>3 DEF DrawersInv

LEMMA DrawersStay ==
  ASSUME DrawersInv, UNCHANGED pdVars
  PROVE  DrawersInv'
BY DEF pdVars, DrawersInv, OneShown, BySurface, WidthTold, DockedNow, PD!Docked, PD!Shows,
       PD!Width, PD!FittedBesideDrawer, PD!Squeeze, PD!CurrentHasItsDrawer

LEMMA DrawersNextKeeps ==
  ASSUME DrawersInv, ~Together, PD!DrawersNext
  PROVE  DrawersInv'
<1>1. ASSUME NEW s \in Surfaces, PD!TmuxReported(s) \/ PD!Toggle(s) PROVE DrawersInv'
  BY <1>1, TmuxReportedKeeps, ToggleKeeps
<1>2. ASSUME NEW s \in Surfaces, PD!ReflowTimer(s) \/ PD!Closes(s) PROVE DrawersInv'
  BY <1>2, ReflowTimerKeeps, ClosesKeeps
<1>3. ASSUME NEW a \in SUBSET Surfaces, PD!Activate(a) PROVE DrawersInv'
  BY <1>3, ActivateKeeps
<1> QED BY <1>1, <1>2, <1>3, LayoutKeeps DEF PD!DrawersNext

(* The page is told the width of the drawer that is docked on show, the    *)
(* terminal is fitted beside it or about to be, and no drawer is open that *)
(* is not mounted, whatever tmux reports, in whatever order the watches    *)
(* run (CliTerminalSurface.vue).  For surfaces that are not shown          *)
(* together: two halves of a split share the one width.                    *)
THEOREM DrawersAreRight ==
  ASSUME ~Together
  PROVE  PanelsSpec => []DrawersRight
<1>1. PanelsInit => DrawersInv
  BY DrawersBegin DEF PanelsInit
<1>2. DrawersInv /\ [PanelsNext]_<<focus, tsVars, pdVars, ovVars, ubVars, stVars, rdVars>>
        => DrawersInv'
  <2> SUFFICES ASSUME DrawersInv,
                      [PanelsNext]_<<focus, tsVars, pdVars, ovVars, ubVars, stVars, rdVars>>
               PROVE  DrawersInv'
    OBVIOUS
  <2>1. PD!DrawersNext \/ UNCHANGED pdVars
    BY DEF PanelsNext
  <2> QED BY <2>1, DrawersNextKeeps, DrawersStay
<1>3. DrawersInv => DrawersRight
  <2> SUFFICES ASSUME DrawersInv PROVE PD!WidthIsTheActives
    BY DEF DrawersInv, DrawersRight, PD!DrawersRight
  <2>1. \A s \in surfacesShown : s \in Surfaces /\ \A t \in surfacesShown : t = s
    BY DEF DrawersInv, OneShown
  <2>2. \A s : /\ DockedNow(s) \in Nat
               /\ DockedNow(s) > 0 => s \in surfacesShown /\ DockedNow(s) = PD!Width(s)
    BY DockedIsWide DEF DockedNow
  <2>3. PD!WidthIsTheActives <=>
          cssWidth = (IF \E s \in surfacesShown : DockedNow(s) > 0
                      THEN PD!Width(CHOOSE s \in surfacesShown : DockedNow(s) > 0) ELSE 0)
    BY DEF PD!WidthIsTheActives, DockedNow
  <2>4. WidthTold
    BY DEF DrawersInv
  <2> HIDE DEF DockedNow
  <2>5. CASE \E s \in Surfaces : DockedNow(s) > 0 /\ cssWidth = DockedNow(s) /\ owner = s
    <3>1. PICK s \in Surfaces : DockedNow(s) > 0 /\ cssWidth = DockedNow(s)
      BY <2>5
    <3>2. s \in surfacesShown /\ DockedNow(s) = PD!Width(s)
      BY <3>1, <2>2
    <3>3. \A x \in surfacesShown : x = s
      BY <3>2, <2>1
    <3>4. (CHOOSE x \in surfacesShown : DockedNow(x) > 0) = s
      BY <3>1, <3>2, <3>3
    <3> QED BY <3>1, <3>2, <3>4, <2>3
  <2>6. CASE (\A s \in Surfaces : DockedNow(s) = 0) /\ cssWidth = 0
    BY <2>6, <2>1, <2>3
  <2> QED BY <2>4, <2>5, <2>6 DEF WidthTold
<1> QED BY <1>1, <1>2, <1>3, PTL DEF PanelsSpec
=============================================================================
