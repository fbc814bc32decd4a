----------------------------- MODULE TabsProofs -----------------------------
(***************************************************************************)
(* Proofs about Workbench.                                                 *)
(***************************************************************************)
EXTENDS MCTabs, FiniteSetTheorems, SequenceTheorems, WellFoundedInduction, TLAPS

(***************************************************************************)
(* The documents: groups of tabs, no group and no tab twice.               *)
(***************************************************************************)
Owners == Browsers \cup {"g"}
Tab == [id : Tabs, group : Owners, name : Names \cup {""}]
Group == [id : Owners, folded : BOOLEAN, tabs : Seq(Tab)]
Doc == [rev : Nat, groups : Seq(Group), activeTab : Tabs \cup {""},
        activeGroup : Owners \cup {""}]
Distinct(s) == \A i, j \in DOMAIN s : s[i].id = s[j].id => i = j
(* No two members of the sequences share an id.                            *)
Apart(w) ==
  /\ \A i \in DOMAIN w : Distinct(w[i])
  /\ \A i, k \in DOMAIN w : i # k => Ids(w[i]) \cap Ids(w[k]) = {}
Lists(gs) == [i \in DOMAIN gs |-> gs[i].tabs]
IdsIn(gs) == UNION {Ids(gs[i].tabs) : i \in DOMAIN gs}
TabsOnce(gs) == Apart(Lists(gs))
GroupsFit(gs) == gs \in Seq(Group) /\ Distinct(gs) /\ TabsOnce(gs)
Fits(d) == d \in Doc /\ GroupsFit(d.groups)
Sound(d) == Fits(d) /\ d.groups # <<>>
(* Every tab names the group that it is in.                                *)
AtHome(gs) == \A i \in DOMAIN gs : \A t \in ToSet(gs[i].tabs) : t.group = gs[i].id
(* The same groups, and no tab of d that is not at home for want of one    *)
SameGroups(cfg, d) ==
  Ids(d.groups) = Ids(cfg.groups) /\ (AtHome(cfg.groups) => AtHome(d.groups))

-----------------------------------------------------------------------------
(***************************************************************************)
(* Counting up: what holds at 0 and is handed on holds as far as one       *)
(* counts, and a function defined by counting up exists.                   *)
(***************************************************************************)
LEMMA CountingUp ==
  ASSUME NEW m \in Nat, NEW S \in SUBSET (0 .. m), 0 \in S,
         \A n \in 0 .. m : n < m /\ n \in S => n + 1 \in S
  PROVE  S = 0 .. m
<1>1. SUFFICES ASSUME (0 .. m) \ S # {} PROVE FALSE
  OBVIOUS
<1> DEFINE T == (0 .. m) \ S
<1>2. T \subseteq Nat /\ T # {}
  BY <1>1
<1>3. PICK x \in T : \A y \in T : <<y, x>> \notin OpToRel(<, Nat)
  BY <1>2, NatLessThanWellFounded, WFMin, Zenon
<1>4. \A y \in T : ~(y < x)
  BY <1>2, <1>3, Zenon DEF OpToRel
<1>5. x # 0 /\ x - 1 \in 0 .. m /\ x - 1 < m /\ x - 1 < x
  BY <1>2
<1>6. x - 1 \in S
  BY <1>4, <1>5
<1>7. x \in S
  BY <1>5, <1>6
<1> QED BY <1>7

(* f is defined by counting up to m: g is the step, e where it starts.     *)
Counts(f, T, e, m, g) ==
  /\ f \in [0 .. m -> T]
  /\ f = [n \in 0 .. m |-> IF n = 0 THEN e ELSE g[<<f[n - 1], n>>]]

LEMMA CountedFunction ==
  ASSUME NEW T, NEW e \in T, NEW m \in Nat, NEW g \in [T \X (1 .. m) -> T]
  PROVE  \E f : Counts(f, T, e, m, g)
<1> DEFINE Done(k, f) == \A n \in 0 .. k : f[n] = IF n = 0 THEN e ELSE g[<<f[n - 1], n>>]
           S == {k \in 0 .. m : \E f \in [0 .. k -> T] : Done(k, f)}
<1>1. 0 \in S
  <2> DEFINE first == [n \in 0 .. 0 |-> e]
  <2>1. first \in [0 .. 0 -> T] /\ Done(0, first)
    OBVIOUS
  <2> HIDE DEF first, Done
  <2> QED BY <2>1
<1>2. ASSUME NEW k \in 0 .. m, k < m, k \in S PROVE k + 1 \in S
  <2>1. PICK f \in [0 .. k -> T] : Done(k, f)
    BY <1>2
  <2> DEFINE h == [n \in 0 .. k + 1 |-> IF n = k + 1 THEN g[<<f[k], k + 1>>] ELSE f[n]]
  <2>2. k + 1 \in 1 .. m /\ f[k] \in T /\ <<f[k], k + 1>> \in T \X (1 .. m)
    BY <1>2
  <2>3. g[<<f[k], k + 1>>] \in T
    BY <2>2
  <2>4. h \in [0 .. k + 1 -> T]
    BY <2>3
  <2>5. ASSUME NEW n \in 0 .. k + 1
        PROVE  h[n] = IF n = 0 THEN e ELSE g[<<h[n - 1], n>>]
    <3>1. CASE n = k + 1
      <4>1. h[n] = g[<<f[k], k + 1>>] /\ h[n - 1] = f[k] /\ n # 0
        BY <3>1, <1>2
      <4> QED BY <4>1, <3>1
    <3>2. CASE n # k + 1
      <4>1. n \in 0 .. k /\ h[n] = f[n] /\ (n # 0 => n - 1 \in 0 .. k /\ h[n - 1] = f[n - 1])
        BY <3>2
      <4> HIDE DEF h
      <4> QED BY <4>1, <2>1
    <3> QED BY <3>1, <3>2
  <2> HIDE DEF h
  <2>6. Done(k + 1, h)
    BY <2>5
  <2> QED BY <1>2, <2>4, <2>6
<1> HIDE DEF S
<1>3. S = 0 .. m
  BY <1>1, <1>2, CountingUp DEF S
<1>4. PICK f \in [0 .. m -> T] : Done(m, f)
  BY <1>3 DEF S
<1>5. f = [n \in 0 .. m |-> IF n = 0 THEN e ELSE g[<<f[n - 1], n>>]]
  BY <1>4
<1> QED BY <1>4, <1>5 DEF Counts

-----------------------------------------------------------------------------
(***************************************************************************)
(* What the helpers on sequences do.                                       *)
(***************************************************************************)
LEMMA AppendedSet ==
  ASSUME NEW T, NEW s \in Seq(T), NEW x \in T
  PROVE  Append(s, x) \in Seq(T) /\ ToSet(Append(s, x)) = ToSet(s) \cup {x}
<1> DEFINE a == Append(s, x)
<1>1. a \in Seq(T) /\ DOMAIN a = 1 .. Len(s) + 1 /\ DOMAIN s = 1 .. Len(s) /\ Len(s) \in Nat
  OBVIOUS
<1>2. \A i \in 1 .. Len(s) + 1 : a[i] = IF i <= Len(s) THEN s[i] ELSE x
  OBVIOUS
<1> HIDE DEF a
<1>3. \A y : y \in ToSet(a) <=> y \in ToSet(s) \cup {x}
  <2>1. ASSUME NEW i \in DOMAIN a PROVE a[i] \in ToSet(s) \cup {x}
    BY <1>1, <1>2 DEF ToSet
  <2>2. ASSUME NEW i \in DOMAIN s PROVE s[i] \in ToSet(a)
    BY <1>1, <1>2 DEF ToSet
  <2>3. x \in ToSet(a)
    <3>1. Len(s) + 1 \in DOMAIN a /\ a[Len(s) + 1] = x
      BY <1>1, <1>2
    <3> QED BY <3>1 DEF ToSet
  <2> QED BY <2>1, <2>2, <2>3 DEF ToSet
<1> QED BY <1>1, <1>3 DEF a

(* Only, step by step                                                      *)
Steps(f, T, s, S) ==
  /\ f \in [0 .. Len(s) -> Seq(T)]
  /\ Only(s, S) = f[Len(s)] /\ f[0] = <<>>
  /\ \A n \in 0 .. Len(s) : n < Len(s) =>
       f[n + 1] = IF s[n + 1] \in S THEN Append(f[n], s[n + 1]) ELSE f[n]

LEMMA OnlySteps ==
  ASSUME NEW T, NEW s \in Seq(T), NEW S
  PROVE  \E f : Steps(f, T, s, S)
<1> DEFINE m == Len(s)
           only[n \in 0 .. m] ==
             IF n = 0 THEN <<>>
             ELSE IF s[n] \in S THEN Append(only[n - 1], s[n]) ELSE only[n - 1]
           g == [w \in Seq(T) \X (1 .. m) |-> IF s[w[2]] \in S THEN Append(w[1], s[w[2]]) ELSE w[1]]
<1>1. m \in Nat /\ \A n \in 1 .. m : s[n] \in T
  OBVIOUS
<1>2. ASSUME NEW q \in Seq(T), NEW n \in 1 .. m
      PROVE  /\ g[<<q, n>>] = IF s[n] \in S THEN Append(q, s[n]) ELSE q
             /\ g[<<q, n>>] \in Seq(T)
  BY <1>1
<1>3. g \in [Seq(T) \X (1 .. m) -> Seq(T)]
  BY <1>1
<1>4. Only(s, S) = only[m]
  BY DEF Only
<1>5. only = CHOOSE f : f = [n \in 0 .. m |-> IF n = 0 THEN <<>>
               ELSE IF s[n] \in S THEN Append(f[n - 1], s[n]) ELSE f[n - 1]]
  BY DEF only
<1> HIDE DEF g, m, only
<1> DEFINE Q == Seq(T)
           none == <<>>
<1>6. none \in Q /\ g \in [Q \X (1 .. m) -> Q] /\ m \in Nat
  BY <1>1, <1>3
<1> HIDE DEF Q, none
<1>20. \E f : Counts(f, Q, none, m, g)
  BY <1>6, CountedFunction, Zenon
<1>7. PICK f \in [0 .. m -> Q] :
        f = [n \in 0 .. m |-> IF n = 0 THEN none ELSE g[<<f[n - 1], n>>]]
  BY <1>20 DEF Counts
<1>8. ASSUME NEW n \in 0 .. m, n # 0
      PROVE  g[<<f[n - 1], n>>] = IF s[n] \in S THEN Append(f[n - 1], s[n]) ELSE f[n - 1]
  <2>1. n \in 1 .. m /\ n - 1 \in 0 .. m
    BY <1>1, <1>8
  <2>2. f[n - 1] \in Seq(T)
    BY <2>1 DEF Q
  <2> QED BY <1>2, <2>1, <2>2
<1>9. f = [n \in 0 .. m |-> IF n = 0 THEN <<>>
               ELSE IF s[n] \in S THEN Append(f[n - 1], s[n]) ELSE f[n - 1]]
  BY <1>7, <1>8 DEF none
<1>10. only = [n \in 0 .. m |-> IF n = 0 THEN <<>>
               ELSE IF s[n] \in S THEN Append(only[n - 1], s[n]) ELSE only[n - 1]]
  BY <1>5, <1>9
<1>11. ASSUME NEW n \in 0 .. m, n < m
       PROVE  only[n + 1] = IF s[n + 1] \in S THEN Append(only[n], s[n + 1]) ELSE only[n]
  <2>1. n + 1 \in 0 .. m /\ n + 1 # 0 /\ (n + 1) - 1 = n
    BY <1>1, <1>11
  <2> QED BY <1>10, <2>1
<1>12. only[0] = <<>>
  BY <1>1, <1>10
<1>13. only \in [0 .. m -> Seq(T)]
  <2> DEFINE G == {n \in 0 .. m : only[n] \in Q}
  <2>1. 0 \in G
    BY <1>1, <1>6, <1>12 DEF none
  <2>2. ASSUME NEW n \in 0 .. m, n < m, n \in G PROVE n + 1 \in G
    <3>1. n + 1 \in 1 .. m /\ n + 1 \in 0 .. m /\ s[n + 1] \in T /\ only[n] \in Seq(T)
      BY <1>1, <2>2 DEF Q
    <3>2. only[n + 1] = IF s[n + 1] \in S THEN Append(only[n], s[n + 1]) ELSE only[n]
      BY <1>11, <2>2
    <3>3. Append(only[n], s[n + 1]) \in Seq(T)
      BY <3>1, AppendedSet
    <3>4. only[n + 1] \in Seq(T)
      BY <3>1, <3>2, <3>3
    <3> QED BY <3>1, <3>4 DEF Q
  <2> HIDE DEF G
  <2>3. G = 0 .. m
    BY <1>1, <2>1, <2>2, CountingUp DEF G
  <2>4. \A n \in 0 .. m : only[n] \in Q
    BY <2>3 DEF G
  <2>5. only = [n \in 0 .. m |-> only[n]]
    BY <1>10
  <2>6. only \in [0 .. m -> Q]
    BY <2>4, <2>5
  <2> QED BY <2>6 DEF Q
<1>14. Steps(only, T, s, S)
  BY <1>4, <1>11, <1>12, <1>13 DEF Steps, m
<1> QED BY <1>14

LEMMA OnlyFacts ==
  ASSUME NEW T, NEW s \in Seq(T), NEW S
  PROVE  /\ Only(s, S) \in Seq(T)
         /\ ToSet(Only(s, S)) = ToSet(s) \cap S
         /\ Distinct(s) => Distinct(Only(s, S))
         /\ ToSet(s) \subseteq S => Only(s, S) = s
<1> DEFINE m == Len(s)
           first(n) == {s[i] : i \in 1 .. n}
<1>1. m \in Nat /\ DOMAIN s = 1 .. m /\ \A n \in 1 .. m : s[n] \in T
  OBVIOUS
<1>20. PICK f : Steps(f, T, s, S)
  BY OnlySteps, Zenon
<1>2. /\ f \in [0 .. m -> Seq(T)]
      /\ Only(s, S) = f[m] /\ f[0] = <<>>
      /\ \A n \in 0 .. m : n < m =>
           f[n + 1] = IF s[n + 1] \in S THEN Append(f[n], s[n + 1]) ELSE f[n]
  BY <1>20 DEF Steps
<1> DEFINE Good(n) == /\ ToSet(f[n]) = first(n) \cap S
                      /\ Distinct(s) => Distinct(f[n])
                      /\ ToSet(s) \subseteq S => f[n] = SubSeq(s, 1, n)
           G == {n \in 0 .. m : Good(n)}
<1>3. 0 \in G
  <2>1. ToSet(f[0]) = {} /\ first(0) = {} /\ Distinct(f[0]) /\ SubSeq(s, 1, 0) = <<>>
    BY <1>1, <1>2 DEF ToSet, Distinct
  <2> HIDE DEF first
  <2> QED BY <1>1, <1>2, <2>1
<1>4. ASSUME NEW n \in 0 .. m, n < m, Good(n) PROVE Good(n + 1)
  <2>1. n + 1 \in 1 .. m /\ s[n + 1] \in T /\ f[n] \in Seq(T)
    BY <1>1, <1>2, <1>4
  <2>2. first(n + 1) = first(n) \cup {s[n + 1]}
    BY <2>1
  <2>3. SubSeq(s, 1, n + 1) = Append(SubSeq(s, 1, n), s[n + 1])
    BY <1>1, <2>1
  <2>4. s[n + 1] \in ToSet(s)
    BY <1>1, <2>1 DEF ToSet
  <2>5. f[n + 1] = IF s[n + 1] \in S THEN Append(f[n], s[n + 1]) ELSE f[n]
    BY <1>2, <1>4
  <2>6. ToSet(f[n + 1]) = first(n + 1) \cap S
    <3> HIDE DEF first
    <3>1. CASE s[n + 1] \in S
      <4>1. ToSet(f[n + 1]) = ToSet(f[n]) \cup {s[n + 1]}
        BY <2>1, <2>5, <3>1, AppendedSet
      <4> QED BY <1>4, <2>2, <3>1, <4>1
    <3>2. CASE s[n + 1] \notin S
      BY <1>4, <2>2, <2>5, <3>2
    <3> QED BY <3>1, <3>2
  <2>7. Distinct(s) => Distinct(f[n + 1])
    <3>1. CASE s[n + 1] \notin S
      BY <1>4, <2>5, <3>1
    <3>2. SUFFICES ASSUME s[n + 1] \in S, Distinct(s) PROVE Distinct(f[n + 1])
      BY <3>1
    <3> DEFINE q == f[n]
               a == f[n + 1]
    <3>3. a = Append(q, s[n + 1]) /\ q \in Seq(T) /\ Distinct(q)
      BY <1>4, <2>1, <2>5, <3>2
    <3>4. \A i \in 1 .. Len(q) : \E k \in 1 .. n : q[i] = s[k]
      <4>1. \A i \in 1 .. Len(q) : q[i] \in ToSet(q)
        BY <3>3 DEF ToSet
      <4>2. ToSet(q) \subseteq first(n)
        BY <1>4
      <4> QED BY <4>1, <4>2
    <3>5. \A k \in 1 .. n : s[k].id # s[n + 1].id
      BY <1>1, <2>1, <3>2 DEF Distinct
    <3> HIDE DEF q, a
    <3>6. /\ Len(q) \in Nat /\ DOMAIN q = 1 .. Len(q) /\ DOMAIN a = 1 .. Len(q) + 1
          /\ \A i \in 1 .. Len(q) + 1 : a[i] = IF i <= Len(q) THEN q[i] ELSE s[n + 1]
      BY <2>1, <3>3
    <3>7. ASSUME NEW i \in DOMAIN a, NEW j \in DOMAIN a, a[i].id = a[j].id PROVE i = j
      <4>0. \A x \in 1 .. Len(q) : a[x] = q[x]
        BY <3>6
      <4>1. \A x \in 1 .. Len(q) : a[x] = q[x] /\ a[x].id # s[n + 1].id
        BY <3>4, <3>5, <4>0
      <4>2. CASE i \in 1 .. Len(q) /\ j \in 1 .. Len(q)
        BY <3>3, <3>6, <3>7, <4>1, <4>2 DEF Distinct
      <4>3. a[Len(q) + 1] = s[n + 1]
        BY <3>6
      <4>4. CASE i \notin 1 .. Len(q)
        BY <3>6, <3>7, <4>1, <4>3, <4>4
      <4>5. CASE j \notin 1 .. Len(q)
        BY <3>6, <3>7, <4>1, <4>3, <4>5
      <4> QED BY <4>2, <4>4, <4>5
    <3> QED BY <3>7 DEF Distinct, a
  <2>8. ToSet(s) \subseteq S => f[n + 1] = SubSeq(s, 1, n + 1)
    BY <1>4, <2>3, <2>4, <2>5
  <2> HIDE DEF first
  <2> QED BY <2>6, <2>7, <2>8
<1> HIDE DEF Good
<1>5. G = 0 .. m
  <2>1. ASSUME NEW n \in 0 .. m, n < m, n \in G PROVE n + 1 \in G
    BY <1>1, <1>4, <2>1
  <2> QED BY <1>1, <1>3, <2>1, CountingUp
<1>6. Good(m)
  BY <1>1, <1>5
<1>7. first(m) = ToSet(s) /\ SubSeq(s, 1, m) = s
  BY <1>1 DEF ToSet
<1>8. f[m] \in Seq(T)
  BY <1>1, <1>2
<1> HIDE DEF first, m
<1> QED BY <1>2, <1>6, <1>7, <1>8 DEF Good

LEMMA Joined ==
  ASSUME NEW T, NEW s \in Seq(T), NEW t \in Seq(T)
  PROVE  /\ s \o t \in Seq(T)
         /\ ToSet(s \o t) = ToSet(s) \cup ToSet(t)
         /\ Distinct(s) /\ Distinct(t) /\ Ids(s) \cap Ids(t) = {} => Distinct(s \o t)
<1> DEFINE a == s \o t
           m == Len(s)
           n == Len(t)
<1>1. /\ a \in Seq(T) /\ m \in Nat /\ n \in Nat
      /\ DOMAIN s = 1 .. m /\ DOMAIN t = 1 .. n /\ DOMAIN a = 1 .. m + n
      /\ \A i \in 1 .. m : a[i] = s[i]
      /\ \A i \in 1 .. n : a[m + i] = t[i]
  OBVIOUS
<1> HIDE DEF a, m, n
<1>2. ASSUME NEW i \in DOMAIN a
      PROVE  \/ i \in 1 .. m /\ a[i] = s[i]
             \/ i - m \in 1 .. n /\ a[i] = t[i - m]
  <2>1. CASE i \in 1 .. m
    BY <1>1, <2>1
  <2>2. CASE i \notin 1 .. m
    <3>1. i - m \in 1 .. n /\ m + (i - m) = i
      BY <1>1, <2>2
    <3> QED BY <1>1, <3>1
  <2> QED BY <2>1, <2>2
<1>3. \A i \in 1 .. n : m + i \in DOMAIN a
  BY <1>1
<1>4. \A y : y \in ToSet(a) <=> y \in ToSet(s) \cup ToSet(t)
  <2>1. ToSet(s) = {s[i] : i \in 1 .. m} /\ ToSet(t) = {t[i] : i \in 1 .. n}
    BY <1>1 DEF ToSet
  <2>2. ASSUME NEW i \in DOMAIN a PROVE a[i] \in ToSet(s) \cup ToSet(t)
    BY <1>2, <2>1
  <2>3. \A i \in 1 .. m : s[i] = a[i] /\ i \in DOMAIN a
    BY <1>1
  <2>4. \A i \in 1 .. n : t[i] = a[m + i] /\ m + i \in DOMAIN a
    BY <1>1, <1>3
  <2>5. ToSet(a) \subseteq ToSet(s) \cup ToSet(t)
    BY <2>2 DEF ToSet
  <2>6. ToSet(s) \subseteq ToSet(a)
    BY <2>1, <2>3 DEF ToSet
  <2>7. ToSet(t) \subseteq ToSet(a)
    BY <2>1, <2>4 DEF ToSet
  <2> QED BY <2>5, <2>6, <2>7
<1>5. ASSUME Distinct(s), Distinct(t), Ids(s) \cap Ids(t) = {} PROVE Distinct(a)
  <2>1. \A i \in 1 .. m, j \in 1 .. n : s[i].id # t[j].id
    <3>1. \A i \in 1 .. m : s[i].id \in Ids(s)
      BY <1>1 DEF Ids, ToSet
    <3>2. \A i \in 1 .. n : t[i].id \in Ids(t)
      BY <1>1 DEF Ids, ToSet
    <3> QED BY <1>5, <3>1, <3>2
  <2>2. ASSUME NEW i \in DOMAIN a, NEW j \in DOMAIN a, a[i].id = a[j].id PROVE i = j
    <3>1. CASE i \in 1 .. m /\ j \in 1 .. m
      <4>1. s[i].id = s[j].id
        BY <1>1, <2>2, <3>1
      <4> QED BY <1>1, <1>5, <3>1, <4>1 DEF Distinct
    <3>2. CASE i \in 1 .. m /\ j \notin 1 .. m
      BY <1>1, <1>2, <2>1, <2>2, <3>2
    <3>3. CASE i \notin 1 .. m /\ j \in 1 .. m
      BY <1>1, <1>2, <2>1, <2>2, <3>3
    <3>4. CASE i \notin 1 .. m /\ j \notin 1 .. m
      <4> DEFINE k == i - m
                 l == j - m
      <4>1. k \in 1 .. n /\ a[i] = t[k] /\ l \in 1 .. n /\ a[j] = t[l]
        BY <1>2, <3>4
      <4>2. (k = l) => (i = j)
        BY <1>1
      <4> HIDE DEF k, l
      <4>3. k = l
        BY <1>1, <1>5, <2>2, <4>1 DEF Distinct
      <4> QED BY <4>2, <4>3
    <3> QED BY <3>1, <3>2, <3>3, <3>4
  <2> QED BY <2>2 DEF Distinct
<1> QED BY <1>1, <1>4, <1>5 DEF a

LEMMA IdsOf ==
  ASSUME NEW s, NEW t
  PROVE  /\ Ids(s) = {x.id : x \in ToSet(s)}
         /\ ToSet(s) = ToSet(t) => Ids(s) = Ids(t)
         /\ \A i \in DOMAIN s : s[i] \in ToSet(s) /\ s[i].id \in Ids(s)
BY DEF Ids, ToSet

(* The sequences of w one after another                                    *)
Pieces(f, T, w) ==
  /\ f \in [0 .. Len(w) -> Seq(T)]
  /\ FlattenSeq(w) = f[Len(w)] /\ f[0] = <<>>
  /\ \A n \in 0 .. Len(w) : n < Len(w) => f[n + 1] = f[n] \o w[n + 1]

LEMMA FlattenSteps ==
  ASSUME NEW T, NEW w \in Seq(Seq(T))
  PROVE  \E f : Pieces(f, T, w)
<1> DEFINE m == Len(w)
           flatten[i \in 1 .. m] == IF i = 1 THEN w[i] ELSE flatten[i - 1] \o w[i]
           g == [v \in Seq(T) \X (1 .. m) |-> v[1] \o w[v[2]]]
           F == [n \in 0 .. m |-> IF n = 0 THEN <<>> ELSE flatten[n]]
<1>1. m \in Nat /\ \A n \in 1 .. m : w[n] \in Seq(T)
  OBVIOUS
<1>2. ASSUME NEW q \in Seq(T), NEW n \in 1 .. m
      PROVE  g[<<q, n>>] = q \o w[n] /\ q \o w[n] \in Seq(T)
  <2>1. w[n] \in Seq(T)
    BY <1>1
  <2> HIDE DEF m
  <2>2. <<q, n>> \in Seq(T) \X (1 .. m)
    OBVIOUS
  <2>3. q \o w[n] \in Seq(T)
    BY <2>1, Joined
  <2> QED BY <2>2, <2>3
<1>3. g \in [Seq(T) \X (1 .. m) -> Seq(T)]
  <2> HIDE DEF m
  <2>1. \A v \in Seq(T) \X (1 .. m) : v[1] \in Seq(T) /\ v[2] \in 1 .. m
    OBVIOUS
  <2>2. \A v \in Seq(T) \X (1 .. m) : v[1] \o w[v[2]] \in Seq(T)
    BY <1>2, <2>1
  <2> QED BY <2>2
<1>4. FlattenSeq(w) = F[m]
  <2>1. CASE m = 0
    BY <2>1 DEF FlattenSeq
  <2>2. CASE m # 0
    BY <1>1, <2>2 DEF FlattenSeq
  <2> QED BY <2>1, <2>2
<1>5. flatten = CHOOSE h : h = [i \in 1 .. m |-> IF i = 1 THEN w[i] ELSE h[i - 1] \o w[i]]
  BY DEF flatten
<1> HIDE DEF g, m, flatten
<1> DEFINE Q == Seq(T)
           none == <<>>
<1>6. none \in Q /\ g \in [Q \X (1 .. m) -> Q] /\ m \in Nat
  BY <1>1, <1>3
<1> HIDE DEF Q, none
<1>7. \E f : Counts(f, Q, none, m, g)
  BY <1>6, CountedFunction, Zenon
<1>8. PICK f \in [0 .. m -> Q] :
        f = [n \in 0 .. m |-> IF n = 0 THEN none ELSE g[<<f[n - 1], n>>]]
  BY <1>7 DEF Counts
<1>9. ASSUME NEW n \in 1 .. m
      PROVE  n \in 0 .. m /\ n - 1 \in 0 .. m /\ f[n] = f[n - 1] \o w[n]
  <2>1. n \in 0 .. m /\ n - 1 \in 0 .. m /\ n # 0
    BY <1>1
  <2>2. f[n - 1] \in Seq(T)
    BY <2>1 DEF Q
  <2>3. f[n] = g[<<f[n - 1], n>>]
    BY <1>8, <2>1
  <2> QED BY <1>2, <2>1, <2>2, <2>3
<1> DEFINE h == [i \in 1 .. m |-> f[i]]
<1>10. ASSUME NEW i \in 1 .. m PROVE h[i] = IF i = 1 THEN w[i] ELSE h[i - 1] \o w[i]
  <2>1. CASE i = 1
    <3>1. f[0] = <<>>
      BY <1>1, <1>8 DEF none
    <3>2. w[1] \in Seq(T) /\ <<>> \o w[1] = w[1]
      BY <1>1, <2>1
    <3>5. f[i] = f[i - 1] \o w[i]
      BY <1>9, Zenon
    <3>6. i - 1 = 0
      BY <2>1
    <3>3. f[1] = f[0] \o w[1]
      BY <2>1, <3>5, <3>6
    <3>4. f[1] = w[1]
      BY <3>1, <3>2, <3>3
    <3> QED BY <2>1, <3>4
  <2>2. CASE i # 1
    <3>1. i - 1 \in 1 .. m
      BY <1>1, <2>2
    <3> QED BY <1>9, <2>2, <3>1
  <2> QED BY <2>1, <2>2
<1>11. h = [i \in 1 .. m |-> IF i = 1 THEN w[i] ELSE h[i - 1] \o w[i]]
  BY <1>10
<1> HIDE DEF h
<1>12. flatten = [i \in 1 .. m |-> IF i = 1 THEN w[i] ELSE flatten[i - 1] \o w[i]]
  BY <1>5, <1>11
<1>13. F[0] = <<>> /\ DOMAIN F = 0 .. m
  BY <1>1
<1>14. ASSUME NEW n \in 0 .. m, n < m
    PROVE n + 1 \in 0 .. m /\ (F[n] \in Q => F[n + 1] = F[n] \o w[n + 1])
  <2>1. n + 1 \in 1 .. m /\ n + 1 \in 0 .. m /\ n + 1 # 0
    BY <1>1, <1>14
  <2>2. F[n + 1] = flatten[n + 1]
    BY <2>1
  <2>3. CASE n = 0
    <3>1. flatten[1] = w[1]
      BY <1>12, <2>1, <2>3
    <3>2. w[1] \in Seq(T) /\ <<>> \o w[1] = w[1]
      BY <1>1, <2>1, <2>3
    <3> QED BY <1>13, <2>1, <2>2, <2>3, <3>1, <3>2
  <2>4. CASE n # 0
    <3>1. n \in 1 .. m /\ (n + 1) - 1 = n /\ n + 1 # 1
      BY <1>1, <2>4
    <3>2. flatten[n + 1] = flatten[n] \o w[n + 1]
      BY <1>12, <2>1, <3>1
    <3>3. F[n] = flatten[n]
      BY <2>4
    <3> QED BY <2>1, <2>2, <3>2, <3>3
  <2> QED BY <2>3, <2>4
<1> HIDE DEF F
<1> DEFINE G == {n \in 0 .. m : F[n] \in Q}
<1>15. 0 \in G
  BY <1>1, <1>6, <1>13 DEF none
<1>16. ASSUME NEW n \in 0 .. m, n < m, n \in G PROVE n + 1 \in G
  <2>1. n + 1 \in 1 .. m /\ n + 1 \in 0 .. m /\ F[n] \in Seq(T) /\ w[n + 1] \in Seq(T)
    BY <1>1, <1>16 DEF Q
  <2>2. F[n + 1] = F[n] \o w[n + 1]
    BY <1>14, <1>16
  <2>3. F[n] \o w[n + 1] \in Seq(T)
    BY <2>1, Joined
  <2> QED BY <2>1, <2>2, <2>3 DEF Q
<1> HIDE DEF G
<1>17. G = 0 .. m
  <2>1. G \in SUBSET (0 .. m)
    BY DEF G
  <2> QED BY <1>6, <1>15, <1>16, <2>1, CountingUp
<1>18. \A n \in 0 .. m : F[n] \in Seq(T)
  BY <1>17 DEF G, Q
<1>19. F = [n \in 0 .. m |-> F[n]]
  BY DEF F
<1>20. F \in [0 .. m -> Seq(T)]
  BY <1>18, <1>19
<1>21. \A n \in 0 .. m : n < m => F[n + 1] = F[n] \o w[n + 1]
  BY <1>14, <1>18 DEF Q
<1>22. Pieces(F, T, w)
  BY <1>4, <1>13, <1>20, <1>21 DEF Pieces, m
<1> QED BY <1>22

LEMMA FlattenFacts ==
  ASSUME NEW T, NEW w \in Seq(Seq(T))
  PROVE  /\ FlattenSeq(w) \in Seq(T)
         /\ ToSet(FlattenSeq(w)) = UNION {ToSet(w[i]) : i \in DOMAIN w}
         /\ Apart(w) => Distinct(FlattenSeq(w))
<1> DEFINE m == Len(w)
           first(n) == UNION {ToSet(w[i]) : i \in 1 .. n}
<1>1. m \in Nat /\ DOMAIN w = 1 .. m /\ \A n \in 1 .. m : w[n] \in Seq(T)
  OBVIOUS
<1>2. PICK f : Pieces(f, T, w)
  BY FlattenSteps, Zenon
<1>3. /\ f \in [0 .. m -> Seq(T)]
      /\ FlattenSeq(w) = f[m] /\ f[0] = <<>>
      /\ \A n \in 0 .. m : n < m => f[n + 1] = f[n] \o w[n + 1]
  BY <1>2 DEF Pieces
<1> HIDE DEF m
<1> DEFINE G == {n \in 0 .. m : ToSet(f[n]) = first(n) /\ (Apart(w) => Distinct(f[n]))}
<1>4. 0 \in G
  BY <1>1, <1>3 DEF ToSet, Distinct
<1>5. ASSUME NEW n \in 0 .. m, n < m, n \in G PROVE n + 1 \in G
  <2>1. n + 1 \in 1 .. m /\ n + 1 \in 0 .. m /\ f[n] \in Seq(T) /\ w[n + 1] \in Seq(T)
    BY <1>1, <1>3, <1>5
  <2>2. f[n + 1] = f[n] \o w[n + 1]
    BY <1>3, <1>5
  <2>3. first(n + 1) = first(n) \cup ToSet(w[n + 1])
    <3>1. 1 .. n + 1 = (1 .. n) \cup {n + 1}
      BY <1>1, <1>5
    <3> QED BY <3>1
  <2>4. ToSet(f[n + 1]) = first(n + 1)
    <3> HIDE DEF first
    <3>1. ToSet(f[n + 1]) = ToSet(f[n]) \cup ToSet(w[n + 1])
      BY <2>1, <2>2, Joined
    <3>2. ToSet(f[n]) = first(n)
      BY <1>5
    <3> QED BY <2>3, <3>1, <3>2
  <2>5. ASSUME Apart(w) PROVE Distinct(f[n + 1])
    <3>1. Distinct(f[n]) /\ Distinct(w[n + 1])
      BY <1>1, <1>5, <2>1, <2>5 DEF Apart
    <3>2. Ids(f[n]) \cap Ids(w[n + 1]) = {}
      <4>1. SUFFICES ASSUME NEW x \in ToSet(f[n]), x.id \in Ids(w[n + 1]) PROVE FALSE
        BY DEF Ids
      <4>2. PICK i \in 1 .. n : x \in ToSet(w[i])
        BY <1>5, <4>1
      <4>3. i \in DOMAIN w /\ n + 1 \in DOMAIN w /\ i # n + 1
        BY <1>1, <2>1
      <4>4. x.id \in Ids(w[i])
        BY <4>2 DEF Ids
      <4> QED BY <2>5, <4>1, <4>3, <4>4 DEF Apart
    <3> QED BY <2>1, <2>2, <3>1, <3>2, Joined
  <2> QED BY <2>1, <2>4, <2>5
<1>6. G = 0 .. m
  <2> HIDE DEF first
  <2>1. G \in SUBSET (0 .. m)
    OBVIOUS
  <2> HIDE DEF G
  <2> QED BY <1>1, <1>4, <1>5, <2>1, CountingUp
<1>7. ToSet(f[m]) = first(m) /\ (Apart(w) => Distinct(f[m]))
  <2>1. m \in 0 .. m
    BY <1>1
  <2>2. m \in G
    <3> HIDE DEF G
    <3> QED BY <1>6, <2>1
  <2> QED BY <2>2
<1>8. f[m] \in Seq(T)
  BY <1>1, <1>3
<1> QED BY <1>1, <1>3, <1>7, <1>8

LEMMA Renewed ==
  ASSUME NEW T, NEW s \in Seq(T), NEW R, NEW t, t = [i \in DOMAIN s |-> t[i]],
         \A i \in DOMAIN s : t[i] \in R /\ t[i].id = s[i].id
  PROVE  /\ t \in Seq(R) /\ Len(t) = Len(s) /\ DOMAIN t = DOMAIN s
         /\ Ids(t) = Ids(s) /\ (Distinct(s) => Distinct(t))
<1>1. Len(s) \in Nat /\ DOMAIN s = 1 .. Len(s) /\ DOMAIN t = 1 .. Len(s)
  OBVIOUS
<1>2. t \in [1 .. Len(s) -> R]
  BY <1>1
<1>3. t \in Seq(R) /\ Len(t) = Len(s)
  BY <1>1, <1>2
<1>4. Ids(t) = Ids(s)
  <2>1. Ids(t) = {t[i].id : i \in 1 .. Len(s)} /\ Ids(s) = {s[i].id : i \in 1 .. Len(s)}
    BY <1>1 DEF Ids, ToSet
  <2>2. \A i \in 1 .. Len(s) : t[i].id = s[i].id
    BY <1>1
  <2> QED BY <2>1, <2>2
<1>5. Distinct(s) => Distinct(t)
  BY <1>1 DEF Distinct
<1> QED BY <1>1, <1>3, <1>4, <1>5

LEMMA ByIdFacts ==
  ASSUME NEW T, NEW s \in Seq(T), NEW id \in Ids(s)
  PROVE  ById(s, id) \in ToSet(s) /\ ById(s, id) \in T /\ ById(s, id).id = id
<1>1. \E x \in ToSet(s) : x.id = id
  BY DEF Ids
<1>2. ById(s, id) \in ToSet(s) /\ ById(s, id).id = id
  BY <1>1 DEF ById
<1>3. ToSet(s) \subseteq T
  BY DEF ToSet
<1> QED BY <1>2, <1>3

(* What mergeFields makes of items of R is in R, and keeps the id.         *)
Mixes(R, fields) ==
  /\ "id" \notin fields
  /\ \A x, y, z \in R :
       /\ "id" \in DOMAIN z
       /\ [f \in DOMAIN z |-> IF f \in fields /\ y[f] # x[f] THEN y[f] ELSE z[f]] \in R

LEMMA TabsMix == Mixes(Tab, {"group", "name"})
<1> DEFINE F == {"group", "name"}
<1>1. ASSUME NEW x \in Tab, NEW y \in Tab, NEW z \in Tab
      PROVE  /\ "id" \in DOMAIN z
             /\ [f \in DOMAIN z |-> IF f \in F /\ y[f] # x[f] THEN y[f] ELSE z[f]] \in Tab
  <2>1. /\ z = [id |-> z.id, group |-> z.group, name |-> z.name]
        /\ DOMAIN z = {"id", "group", "name"}
        /\ z.id \in Tabs /\ z.group \in Owners /\ z.name \in Names \cup {""}
        /\ y.group \in Owners /\ y.name \in Names \cup {""}
    BY DEF Tab
  <2> DEFINE r == [f \in DOMAIN z |-> IF f \in F /\ y[f] # x[f] THEN y[f] ELSE z[f]]
  <2>2. DOMAIN r = {"id", "group", "name"} /\ r.id = z.id
    BY <2>1
  <2>3. r.group \in Owners /\ r.name \in Names \cup {""}
    BY <2>1
  <2>6. r = [f \in DOMAIN r |-> r[f]]
    OBVIOUS
  <2> HIDE DEF r
  <2>4. r = [id |-> r.id, group |-> r.group, name |-> r.name]
    BY <2>2, <2>6
  <2>5. r \in Tab
    BY <2>1, <2>2, <2>3, <2>4 DEF Tab
  <2> QED BY <2>1, <2>5 DEF r
<1> QED BY <1>1 DEF Mixes

LEMMA GroupsMix == Mixes(Group, {"folded"})
<1> DEFINE F == {"folded"}
<1>1. ASSUME NEW x \in Group, NEW y \in Group, NEW z \in Group
      PROVE  /\ "id" \in DOMAIN z
             /\ [f \in DOMAIN z |-> IF f \in F /\ y[f] # x[f] THEN y[f] ELSE z[f]] \in Group
  <2>1. /\ z = [id |-> z.id, folded |-> z.folded, tabs |-> z.tabs]
        /\ DOMAIN z = {"id", "folded", "tabs"}
        /\ z.id \in Owners /\ z.folded \in BOOLEAN /\ z.tabs \in Seq(Tab)
        /\ y.folded \in BOOLEAN
    BY DEF Group
  <2> DEFINE r == [f \in DOMAIN z |-> IF f \in F /\ y[f] # x[f] THEN y[f] ELSE z[f]]
  <2>2. DOMAIN r = {"id", "folded", "tabs"} /\ r.id = z.id /\ r.tabs = z.tabs
    BY <2>1
  <2>3. r.folded \in BOOLEAN
    BY <2>1
  <2>6. r = [f \in DOMAIN r |-> r[f]]
    OBVIOUS
  <2> HIDE DEF r
  <2>4. r = [id |-> r.id, folded |-> r.folded, tabs |-> r.tabs]
    BY <2>2, <2>6
  <2>5. r \in Group
    BY <2>1, <2>2, <2>3, <2>4 DEF Group
  <2> QED BY <2>1, <2>5 DEF r
<1> QED BY <1>1 DEF Mixes

LEMMA MergedFields ==
  ASSUME NEW R, NEW fields, Mixes(R, fields),
         NEW base \in Seq(R), NEW local \in Seq(R), NEW theirs \in Seq(R),
         NEW id \in Ids(local) \cap Ids(theirs)
  PROVE  /\ MergeFields(base, local, theirs, id, fields) \in R
         /\ MergeFields(base, local, theirs, id, fields).id = id
<1> DEFINE y == ById(local, id)
           z == ById(theirs, id)
           x == ById(base, id)
           r == [f \in DOMAIN z |-> IF f \in fields /\ y[f] # x[f] THEN y[f] ELSE z[f]]
<1>1. y \in R /\ y.id = id /\ z \in R /\ z.id = id
  BY ByIdFacts
<1>2. CASE id \in Ids(base)
  <2>1. x \in R
    BY <1>2, ByIdFacts
  <2>2. MergeFields(base, local, theirs, id, fields) = r
    BY <1>2 DEF MergeFields
  <2> HIDE DEF x, y, z
  <2>3. r \in R /\ "id" \in DOMAIN z /\ "id" \notin fields
    BY <1>1, <2>1 DEF Mixes
  <2>4. r.id = z.id
    BY <2>3
  <2> QED BY <1>1, <2>2, <2>3, <2>4
<1>3. CASE id \notin Ids(base)
  BY <1>1, <1>3 DEF MergeFields
<1> QED BY <1>2, <1>3

(* What a merge keeps of the items of the three, by their ids              *)
Merged(base, local, theirs) ==
  {t \in theirs : t \in local \/ t \notin base} \cup (local \ (theirs \cup base))

LEMMA MergedItems ==
  ASSUME NEW R, NEW fields, Mixes(R, fields),
         NEW base \in Seq(R), NEW local \in Seq(R), NEW theirs \in Seq(R)
  PROVE  /\ MergeItems(base, local, theirs, fields) \in Seq(R)
         /\ Ids(MergeItems(base, local, theirs, fields)) =
              Merged(Ids(base), Ids(local), Ids(theirs))
         /\ Distinct(local) /\ Distinct(theirs) =>
              Distinct(MergeItems(base, local, theirs, fields))
<1> DEFINE K == {x \in ToSet(theirs) : x.id \in Ids(local) \/ x.id \notin Ids(base)}
           O == {x \in ToSet(local) : x.id \notin Ids(theirs) \union Ids(base)}
           kept == Only(theirs, K)
           own == Only(local, O)
           mixed == [i \in DOMAIN kept |->
                       IF kept[i].id \in Ids(local)
                       THEN MergeFields(base, local, theirs, kept[i].id, fields) ELSE kept[i]]
<1>1. /\ kept \in Seq(R) /\ ToSet(kept) = ToSet(theirs) \cap K
      /\ Distinct(theirs) => Distinct(kept)
  BY OnlyFacts
<1>2. /\ own \in Seq(R) /\ ToSet(own) = ToSet(local) \cap O
      /\ Distinct(local) => Distinct(own)
  BY OnlyFacts
<1>3. MergeItems(base, local, theirs, fields) = mixed \o own
  BY DEF MergeItems
<1>4. ASSUME NEW i \in DOMAIN kept PROVE kept[i] \in R /\ kept[i].id \in Ids(theirs)
  <2>1. kept[i] \in ToSet(kept)
    BY DEF ToSet
  <2>2. kept[i] \in ToSet(theirs)
    BY <1>1, <2>1
  <2>3. kept[i] \in R
    BY <1>1
  <2> QED BY <2>2, <2>3 DEF Ids
<1>5. Ids(kept) = {t \in Ids(theirs) : t \in Ids(local) \/ t \notin Ids(base)}
  <2> HIDE DEF kept, own
  <2>1. Ids(kept) = {x.id : x \in ToSet(theirs) \cap K}
    BY <1>1 DEF Ids
  <2>2. Ids(theirs) = {x.id : x \in ToSet(theirs)}
    BY DEF Ids
  <2> QED BY <2>1, <2>2
<1>6. Ids(own) = Ids(local) \ (Ids(theirs) \cup Ids(base))
  <2> HIDE DEF kept, own
  <2>1. Ids(own) = {x.id : x \in ToSet(local) \cap O}
    BY <1>2 DEF Ids
  <2>2. Ids(local) = {x.id : x \in ToSet(local)}
    BY DEF Ids
  <2> QED BY <2>1, <2>2
<1> HIDE DEF kept, own
<1>7. ASSUME NEW i \in DOMAIN kept PROVE mixed[i] \in R /\ mixed[i].id = kept[i].id
  <2>1. CASE kept[i].id \in Ids(local)
    <3>1. mixed[i] = MergeFields(base, local, theirs, kept[i].id, fields)
      BY <2>1
    <3>2. kept[i].id \in Ids(local) \cap Ids(theirs)
      BY <1>4, <2>1
    <3> HIDE DEF mixed
    <3> QED BY <3>1, <3>2, MergedFields
  <2>2. CASE kept[i].id \notin Ids(local)
    BY <1>4, <2>2
  <2> QED BY <2>1, <2>2
<1>8. mixed = [i \in DOMAIN kept |-> mixed[i]]
  OBVIOUS
<1> HIDE DEF mixed
<1>9. mixed \in Seq(R) /\ Ids(mixed) = Ids(kept) /\ (Distinct(kept) => Distinct(mixed))
  BY <1>1, <1>7, <1>8, Renewed
<1>10. /\ mixed \o own \in Seq(R)
       /\ ToSet(mixed \o own) = ToSet(mixed) \cup ToSet(own)
       /\ Distinct(mixed) /\ Distinct(own) /\ Ids(mixed) \cap Ids(own) = {}
             => Distinct(mixed \o own)
  BY <1>2, <1>9, Joined
<1>11. Ids(mixed \o own) = Ids(mixed) \cup Ids(own)
  BY <1>10 DEF Ids
<1>12. Ids(mixed) \cap Ids(own) = {}
  BY <1>5, <1>6, <1>9
<1>13. Ids(mixed \o own) = Merged(Ids(base), Ids(local), Ids(theirs))
  BY <1>5, <1>6, <1>9, <1>11 DEF Merged
<1> QED BY <1>1, <1>2, <1>3, <1>9, <1>10, <1>12, <1>13

LEMMA Parts ==
  ASSUME NEW T, NEW s \in Seq(T), NEW k \in 1 .. Len(s) + 1, NEW l \in k .. Len(s) + 1
  PROVE  /\ SubSeq(s, 1, k - 1) \in Seq(T) /\ SubSeq(s, l, Len(s)) \in Seq(T)
         /\ ToSet(SubSeq(s, 1, k - 1)) = {s[i] : i \in 1 .. k - 1}
         /\ ToSet(SubSeq(s, l, Len(s))) = {s[i] : i \in l .. Len(s)}
         /\ Distinct(s) => /\ Distinct(SubSeq(s, 1, k - 1)) /\ Distinct(SubSeq(s, l, Len(s)))
                           /\ Ids(SubSeq(s, 1, k - 1)) \cap Ids(SubSeq(s, l, Len(s))) = {}
<1> DEFINE a == SubSeq(s, 1, k - 1)
           z == SubSeq(s, l, Len(s))
           m == Len(s)
<1>1. /\ m \in Nat /\ DOMAIN s = 1 .. m /\ \A i \in 1 .. m : s[i] \in T
      /\ k \in Nat /\ l \in Nat /\ 1 <= k /\ k <= l /\ l <= m + 1
  OBVIOUS
<1>2. a = [i \in 1 .. k - 1 |-> s[i]] /\ a \in Seq(T)
  BY <1>1
<1>3. z = [i \in 1 .. m - l + 1 |-> s[i + l - 1]] /\ z \in Seq(T)
  BY <1>1
<1> HIDE DEF a, z, m
<1>4. DOMAIN a = 1 .. k - 1 /\ \A i \in 1 .. k - 1 : a[i] = s[i]
  BY <1>2
<1>5. DOMAIN z = 1 .. m - l + 1 /\ \A i \in 1 .. m - l + 1 : z[i] = s[i + l - 1]
  BY <1>3
<1>6. ToSet(a) = {s[i] : i \in 1 .. k - 1}
  BY <1>4 DEF ToSet
<1>7. ToSet(z) = {s[i] : i \in l .. m}
  <2>1. \A i \in 1 .. m - l + 1 : i + l - 1 \in l .. m
    BY <1>1
  <2>2. \A j \in l .. m : j - l + 1 \in 1 .. m - l + 1 /\ (j - l + 1) + l - 1 = j
    BY <1>1
  <2>3. ToSet(z) \subseteq {s[i] : i \in l .. m}
    BY <1>5, <2>1 DEF ToSet
  <2>4. ASSUME NEW j \in l .. m PROVE s[j] \in ToSet(z)
    <3>1. z[j - l + 1] = s[j]
      BY <1>5, <2>2
    <3> QED BY <1>5, <2>2, <3>1 DEF ToSet
  <2> QED BY <2>3, <2>4
<1>8. ASSUME Distinct(s) PROVE Distinct(a) /\ Distinct(z) /\ Ids(a) \cap Ids(z) = {}
  <2>1. Distinct(a)
    <3>1. \A i \in 1 .. k - 1 : i \in DOMAIN s
      BY <1>1
    <3> QED BY <1>4, <1>8, <3>1 DEF Distinct
  <2>2. Distinct(z)
    <3>1. ASSUME NEW i \in DOMAIN z, NEW j \in DOMAIN z, z[i].id = z[j].id PROVE i = j
      <4>1. /\ i \in 1 .. m - l + 1 /\ j \in 1 .. m - l + 1
            /\ z[i] = s[i + l - 1] /\ z[j] = s[j + l - 1]
        BY <1>5
      <4>2. i + l - 1 \in DOMAIN s /\ j + l - 1 \in DOMAIN s
        BY <1>1, <4>1
      <4>3. i + l - 1 = j + l - 1
        BY <1>8, <3>1, <4>1, <4>2 DEF Distinct
      <4> QED BY <1>1, <4>1, <4>3
    <3> QED BY <3>1 DEF Distinct
  <2>3. Ids(a) = {s[i].id : i \in 1 .. k - 1} /\ Ids(z) = {s[i].id : i \in l .. m}
    BY <1>6, <1>7 DEF Ids
  <2>4. \A i \in 1 .. k - 1, j \in l .. m : i \in DOMAIN s /\ j \in DOMAIN s /\ i # j
    BY <1>1
  <2> QED BY <1>8, <2>1, <2>2, <2>3, <2>4 DEF Distinct
<1> QED BY <1>2, <1>3, <1>6, <1>7, <1>8 DEF a, z, m

LEMMA Inserted ==
  ASSUME NEW T, NEW s \in Seq(T), NEW k \in 1 .. Len(s) + 1, NEW x \in T
  PROVE  /\ InsertAt(s, k, x) \in Seq(T)
         /\ ToSet(InsertAt(s, k, x)) = ToSet(s) \cup {x}
         /\ Distinct(s) /\ x.id \notin Ids(s) => Distinct(InsertAt(s, k, x))
<1> DEFINE a == SubSeq(s, 1, k - 1)
           z == SubSeq(s, k, Len(s))
           o == <<x>>
           m == Len(s)
<1>1. k \in k .. Len(s) + 1 /\ m \in Nat /\ DOMAIN s = 1 .. m
  OBVIOUS
<1>2. /\ a \in Seq(T) /\ z \in Seq(T)
      /\ ToSet(a) = {s[i] : i \in 1 .. k - 1} /\ ToSet(z) = {s[i] : i \in k .. m}
      /\ Distinct(s) => Distinct(a) /\ Distinct(z) /\ Ids(a) \cap Ids(z) = {}
  BY <1>1, Parts
<1>3. o \in Seq(T) /\ ToSet(o) = {x} /\ Distinct(o)
  BY DEF ToSet, Distinct
<1>4. InsertAt(s, k, x) = (a \o o) \o z
  BY DEF InsertAt
<1>5. ToSet(a) \cup ToSet(z) = ToSet(s)
  <2>1. (1 .. k - 1) \cup (k .. m) = 1 .. m
    BY <1>1
  <2>2. ToSet(s) = {s[i] : i \in 1 .. m}
    BY <1>1 DEF ToSet
  <2> HIDE DEF m, a, z
  <2> QED BY <1>2, <2>1, <2>2
<1> HIDE DEF a, z, o, m
<1>6. /\ a \o o \in Seq(T) /\ ToSet(a \o o) = ToSet(a) \cup ToSet(o)
      /\ Distinct(a) /\ Distinct(o) /\ Ids(a) \cap Ids(o) = {} => Distinct(a \o o)
  BY <1>2, <1>3, Joined
<1> DEFINE c == a \o o
<1>11. c \in Seq(T)
  BY <1>6
<1> HIDE DEF c
<1>12. /\ c \o z \in Seq(T) /\ ToSet(c \o z) = ToSet(c) \cup ToSet(z)
       /\ Distinct(c) /\ Distinct(z) /\ Ids(c) \cap Ids(z) = {} => Distinct(c \o z)
  BY <1>2, <1>11, Joined
<1>7. /\ (a \o o) \o z \in Seq(T) /\ ToSet((a \o o) \o z) = ToSet(a \o o) \cup ToSet(z)
      /\ Distinct(a \o o) /\ Distinct(z) /\ Ids(a \o o) \cap Ids(z) = {} => Distinct((a \o o) \o z)
  BY <1>12 DEF c
<1>8. Ids(o) = {x.id} /\ Ids(a \o o) = Ids(a) \cup {x.id} /\ Ids(s) = Ids(a) \cup Ids(z)
  BY <1>3, <1>5, <1>6 DEF Ids
<1>9. ToSet((a \o o) \o z) = ToSet(s) \cup {x}
  BY <1>3, <1>5, <1>6, <1>7
<1>10. ASSUME Distinct(s), x.id \notin Ids(s) PROVE Distinct((a \o o) \o z)
  <2>1. Ids(a) \cap Ids(o) = {} /\ Ids(a \o o) \cap Ids(z) = {}
    BY <1>2, <1>8, <1>10
  <2> QED BY <1>2, <1>3, <1>6, <1>7, <1>10, <2>1
<1> QED BY <1>4, <1>7, <1>9, <1>10

LEMMA Removed ==
  ASSUME NEW T, NEW s \in Seq(T), Distinct(s), NEW k \in DOMAIN s
  PROVE  /\ RemoveAt(s, k) \in Seq(T) /\ Distinct(RemoveAt(s, k))
         /\ Ids(RemoveAt(s, k)) = Ids(s) \ {s[k].id}
         /\ ToSet(RemoveAt(s, k)) \subseteq ToSet(s)
<1> DEFINE a == SubSeq(s, 1, k - 1)
           z == SubSeq(s, k + 1, Len(s))
           m == Len(s)
<1>1. /\ m \in Nat /\ DOMAIN s = 1 .. m
      /\ k \in 1 .. Len(s) + 1 /\ k + 1 \in k .. Len(s) + 1
  OBVIOUS
<1>2. /\ a \in Seq(T) /\ z \in Seq(T)
      /\ ToSet(a) = {s[i] : i \in 1 .. k - 1} /\ ToSet(z) = {s[i] : i \in k + 1 .. m}
      /\ Distinct(a) /\ Distinct(z) /\ Ids(a) \cap Ids(z) = {}
  BY <1>1, Parts
<1>3. RemoveAt(s, k) = a \o z
  BY DEF RemoveAt
<1> HIDE DEF a, z, m
<1>4. /\ a \o z \in Seq(T) /\ ToSet(a \o z) = ToSet(a) \cup ToSet(z)
      /\ Distinct(a \o z)
  BY <1>2, Joined
<1>5. Ids(a \o z) = Ids(s) \ {s[k].id}
  <2>1. (1 .. k - 1) \cup (k + 1 .. m) = (1 .. m) \ {k}
    BY <1>1
  <2>2. ToSet(a \o z) = {s[i] : i \in (1 .. m) \ {k}}
    BY <1>2, <1>4, <2>1
  <2>5. Ids(a \o z) = {s[i].id : i \in (1 .. m) \ {k}}
    BY <2>2 DEF Ids
  <2>3. Ids(s) = {s[i].id : i \in 1 .. m}
    BY <1>1 DEF Ids, ToSet
  <2>4. \A i \in (1 .. m) \ {k} : s[i].id # s[k].id
    BY <1>1 DEF Distinct
  <2> QED BY <1>1, <2>3, <2>4, <2>5
<1>6. ToSet(a \o z) \subseteq ToSet(s)
  <2>1. 1 .. k - 1 \subseteq DOMAIN s /\ k + 1 .. m \subseteq DOMAIN s
    BY <1>1
  <2> QED BY <1>2, <1>4, <2>1 DEF ToSet
<1> QED BY <1>3, <1>4, <1>5, <1>6

(* The first one that passes a test                                        *)
LEMMA Selected ==
  ASSUME NEW T, NEW s \in Seq(T), NEW id \in Ids(s)
  PROVE  LET k == SelectInSeq(s, LAMBDA t : t.id = id)
         IN k \in DOMAIN s /\ s[k].id = id
<1> DEFINE I == {i \in 1 .. Len(s) : s[i].id = id}
           k == SelectInSeq(s, LAMBDA t : t.id = id)
<1>1. DOMAIN s = 1 .. Len(s) /\ Len(s) \in Nat
  OBVIOUS
<1>2. I # {} /\ I \subseteq Nat
  BY <1>1 DEF Ids, ToSet
<1>3. k = Min(I)
  BY <1>2 DEF SelectInSeq
<1>4. PICK i \in I : \A j \in I : <<j, i>> \notin OpToRel(<, Nat)
  BY <1>2, NatLessThanWellFounded, WFMin, Zenon
<1>5. \A j \in I : ~(j < i)
  BY <1>2, <1>4, Zenon DEF OpToRel
<1>6. ASSUME NEW j \in I PROVE i <= j
  <2>1. i \in Nat /\ j \in Nat
    BY <1>2, <1>4
  <2> QED BY <1>5, <2>1
<1>7. Min(I) \in I
  BY <1>4, <1>6 DEF Min
<1> QED BY <1>1, <1>3, <1>7

LEMMA TabIdsIn ==
  ASSUME NEW d
  PROVE  TabIds(d) = IdsIn(d.groups)
BY DEF TabIds, IdsIn

LEMMA GroupWith ==
  ASSUME NEW g \in Group, NEW ts \in Seq(Tab)
  PROVE  /\ [g EXCEPT !.tabs = ts] \in Group
         /\ [g EXCEPT !.tabs = ts].id = g.id /\ [g EXCEPT !.tabs = ts].tabs = ts
BY DEF Group

LEMMA FitGroups ==
  ASSUME NEW gs, GroupsFit(gs)
  PROVE  /\ gs \in Seq(Group) /\ Distinct(gs) /\ Len(gs) \in Nat /\ DOMAIN gs = 1 .. Len(gs)
         /\ \A i \in DOMAIN gs : /\ gs[i] \in Group /\ gs[i].id \in Owners
                                /\ gs[i].tabs \in Seq(Tab) /\ Distinct(gs[i].tabs)
         /\ \A i, k \in DOMAIN gs : i # k => Ids(gs[i].tabs) \cap Ids(gs[k].tabs) = {}
<1>1. /\ gs \in Seq(Group) /\ Distinct(gs) /\ Len(gs) \in Nat /\ DOMAIN gs = 1 .. Len(gs)
      /\ Apart(Lists(gs))
  BY DEF GroupsFit, TabsOnce
<1>2. \A i \in DOMAIN gs : gs[i] \in Group
  BY <1>1
<1>3. \A i \in DOMAIN gs : gs[i].id \in Owners /\ gs[i].tabs \in Seq(Tab)
  BY <1>2 DEF Group
<1> DEFINE v == Lists(gs)
<1>4. DOMAIN v = DOMAIN gs /\ (\A i \in DOMAIN gs : v[i] = gs[i].tabs) /\ Apart(v)
  BY <1>1 DEF Lists
<1> HIDE DEF v
<1>5. \A i \in DOMAIN gs : Distinct(gs[i].tabs)
  BY <1>4 DEF Apart
<1>6. \A i, k \in DOMAIN gs : i # k => Ids(gs[i].tabs) \cap Ids(gs[k].tabs) = {}
  BY <1>4 DEF Apart
<1> QED BY <1>1, <1>2, <1>3, <1>5, <1>6

LEMMA TabsOfFacts ==
  ASSUME NEW d, GroupsFit(d.groups)
  PROVE  /\ TabsOf(d) \in Seq(Tab) /\ Distinct(TabsOf(d))
         /\ Ids(TabsOf(d)) = TabIds(d)
<1> DEFINE gs == d.groups
           w == Lists(gs)
<1>1. gs \in Seq(Group) /\ Len(gs) \in Nat /\ DOMAIN gs = 1 .. Len(gs) /\ Apart(w)
  BY DEF GroupsFit, TabsOnce
<1>2. ASSUME NEW i \in DOMAIN gs PROVE gs[i].tabs \in Seq(Tab)
  <2>1. gs[i] \in Group
    BY <1>1
  <2> HIDE DEF gs
  <2> QED BY <2>1 DEF Group
<1>3. w \in Seq(Seq(Tab)) /\ DOMAIN w = DOMAIN gs /\ \A i \in DOMAIN gs : w[i] = gs[i].tabs
  <2>1. w = [i \in DOMAIN gs |-> gs[i].tabs]
    BY DEF Lists
  <2>2. w \in [1 .. Len(gs) -> Seq(Tab)]
    BY <1>1, <1>2, <2>1
  <2> QED BY <1>1, <2>1, <2>2
<1>4. TabsOf(d) = FlattenSeq(w)
  BY DEF TabsOf, Lists
<1> HIDE DEF w
<1>5. /\ FlattenSeq(w) \in Seq(Tab) /\ Distinct(FlattenSeq(w))
      /\ ToSet(FlattenSeq(w)) = UNION {ToSet(w[i]) : i \in DOMAIN w}
  BY <1>1, <1>3, FlattenFacts
<1>6. Ids(FlattenSeq(w)) = IdsIn(gs)
  <2>1. Ids(FlattenSeq(w)) = {x.id : x \in UNION {ToSet(w[i]) : i \in DOMAIN w}}
    BY <1>5 DEF Ids
  <2>2. IdsIn(gs) = UNION {Ids(w[i]) : i \in DOMAIN w}
    BY <1>3 DEF IdsIn
  <2>3. \A i \in DOMAIN w : Ids(w[i]) = {x.id : x \in ToSet(w[i])}
    BY DEF Ids
  <2> QED BY <2>1, <2>2, <2>3
<1> QED BY <1>4, <1>5, <1>6, TabIdsIn

(* The same groups with other lists of their own tabs                      *)
LEMMA Regrouped ==
  ASSUME NEW gs, GroupsFit(gs), NEW hs, hs = [i \in DOMAIN gs |-> hs[i]],
         \A i \in DOMAIN gs :
           /\ hs[i] \in Group /\ hs[i].id = gs[i].id
           /\ Distinct(hs[i].tabs) /\ Ids(hs[i].tabs) \subseteq Ids(gs[i].tabs)
  PROVE  /\ GroupsFit(hs) /\ Len(hs) = Len(gs) /\ DOMAIN hs = DOMAIN gs /\ Ids(hs) = Ids(gs)
         /\ IdsIn(hs) = UNION {Ids(hs[i].tabs) : i \in DOMAIN gs}
<1>1. gs \in Seq(Group) /\ Distinct(gs) /\ Apart(Lists(gs))
  BY DEF GroupsFit, TabsOnce
<1>2. /\ hs \in Seq(Group) /\ Len(hs) = Len(gs) /\ DOMAIN hs = DOMAIN gs
      /\ Distinct(hs) /\ Ids(hs) = Ids(gs)
  <2>1. \A i \in DOMAIN gs : hs[i] \in Group /\ hs[i].id = gs[i].id
    OBVIOUS
  <2> QED BY <1>1, <2>1, Renewed
<1>3. Apart(Lists(hs))
  <2>1. /\ DOMAIN Lists(gs) = DOMAIN gs /\ \A i \in DOMAIN gs : Lists(gs)[i] = gs[i].tabs
        /\ DOMAIN Lists(hs) = DOMAIN gs /\ \A i \in DOMAIN gs : Lists(hs)[i] = hs[i].tabs
    BY <1>2 DEF Lists
  <2>2. \A i, k \in DOMAIN gs : i # k => Ids(gs[i].tabs) \cap Ids(gs[k].tabs) = {}
    BY <1>1, <2>1 DEF Apart
  <2>3. \A i, k \in DOMAIN gs : i # k => Ids(hs[i].tabs) \cap Ids(hs[k].tabs) = {}
    BY <2>2
  <2> DEFINE v == Lists(hs)
  <2>4. DOMAIN v = DOMAIN gs /\ \A i \in DOMAIN gs : v[i] = hs[i].tabs
    BY <2>1
  <2> HIDE DEF v
  <2>5. \A i \in DOMAIN v : Distinct(v[i])
    BY <2>4
  <2>6. \A i, k \in DOMAIN v : i # k => Ids(v[i]) \cap Ids(v[k]) = {}
    BY <2>3, <2>4
  <2>7. Apart(v)
    BY <2>5, <2>6 DEF Apart
  <2> QED BY <2>7 DEF v
<1> QED BY <1>2, <1>3 DEF GroupsFit, TabsOnce, IdsIn

LEMMA MovedTab ==
  ASSUME NEW tabs \in Seq(Tab), Distinct(tabs), NEW id, NEW before
  PROVE  /\ MoveTabBefore(tabs, id, before) \in Seq(Tab)
         /\ Distinct(MoveTabBefore(tabs, id, before))
         /\ Ids(MoveTabBefore(tabs, id, before)) = Ids(tabs)
         /\ ToSet(MoveTabBefore(tabs, id, before)) \subseteq ToSet(tabs)
<1>1. CASE id \notin Ids(tabs) \/ before = id \/ (before # "" /\ before \notin Ids(tabs))
  BY <1>1 DEF MoveTabBefore
<1>2. CASE id \in Ids(tabs) /\ before # id /\ (before = "" \/ before \in Ids(tabs))
  <2> DEFINE S == {t \in ToSet(tabs) : t.id # id}
             rest == Only(tabs, S)
             k == SelectInSeq(rest, LAMBDA t : t.id = before)
             to == IF before = "" THEN Len(rest) + 1 ELSE k
             x == ById(tabs, id)
  <2>1. rest \in Seq(Tab) /\ ToSet(rest) = ToSet(tabs) \cap S /\ Distinct(rest)
    BY OnlyFacts
  <2>2. x \in ToSet(tabs) /\ x \in Tab /\ x.id = id
    BY <1>2, ByIdFacts
  <2>3. MoveTabBefore(tabs, id, before) = InsertAt(rest, to, x)
    BY <1>2 DEF MoveTabBefore
  <2>4. Ids(rest) = Ids(tabs) \ {id}
    <3> HIDE DEF rest
    <3> QED BY <2>1 DEF Ids
  <2>5. to \in 1 .. Len(rest) + 1
    <3> HIDE DEF rest
    <3>3. DOMAIN rest = 1 .. Len(rest) /\ Len(rest) \in Nat
      BY <2>1
    <3>1. CASE before = ""
      <4>1. to = Len(rest) + 1
        BY <3>1, Zenon
      <4> HIDE DEF to
      <4> QED BY <3>3, <4>1
    <3>2. CASE before # ""
      <4>1. before \in Ids(rest)
        BY <1>2, <2>4, <3>2
      <4>2. k \in DOMAIN rest
        BY <2>1, <4>1, Selected
      <4>3. to = k
        BY <3>2, Zenon
      <4> HIDE DEF k, to
      <4> QED BY <3>3, <4>2, <4>3
    <3> QED BY <3>1, <3>2
  <2> HIDE DEF rest, to, x
  <2>6. /\ InsertAt(rest, to, x) \in Seq(Tab)
        /\ ToSet(InsertAt(rest, to, x)) = ToSet(rest) \cup {x}
        /\ Distinct(InsertAt(rest, to, x))
    BY <2>1, <2>2, <2>4, <2>5, Inserted
  <2>7. Ids(InsertAt(rest, to, x)) = Ids(rest) \cup {x.id}
    BY <2>6 DEF Ids
  <2>8. ToSet(rest) \cup {x} \subseteq ToSet(tabs)
    BY <2>1, <2>2
  <2> QED BY <1>2, <2>2, <2>3, <2>4, <2>6, <2>7, <2>8
<1> QED BY <1>1, <1>2

LEMMA MovedInGroups ==
  ASSUME NEW gs, GroupsFit(gs), NEW move
  PROVE  /\ GroupsFit(MoveInGroups(gs, move)) /\ Len(MoveInGroups(gs, move)) = Len(gs)
         /\ IdsIn(MoveInGroups(gs, move)) = IdsIn(gs)
         /\ Ids(MoveInGroups(gs, move)) = Ids(gs)
         /\ AtHome(gs) => AtHome(MoveInGroups(gs, move))
<1> DEFINE hs == MoveInGroups(gs, move)
<1>1. /\ gs \in Seq(Group)
      /\ \A i \in DOMAIN gs : gs[i] \in Group /\ gs[i].tabs \in Seq(Tab) /\ Distinct(gs[i].tabs)
  BY FitGroups
<1>2. hs = [i \in DOMAIN gs |-> hs[i]]
  BY DEF MoveInGroups
<1>3. ASSUME NEW i \in DOMAIN gs
      PROVE  /\ hs[i] \in Group /\ hs[i].id = gs[i].id
             /\ Distinct(hs[i].tabs) /\ Ids(hs[i].tabs) = Ids(gs[i].tabs)
             /\ ToSet(hs[i].tabs) \subseteq ToSet(gs[i].tabs)
  <2> DEFINE ts == MoveTabBefore(gs[i].tabs, move.tab, move.before)
  <2>1. hs[i] = IF gs[i].id = move.group THEN [gs[i] EXCEPT !.tabs = ts] ELSE gs[i]
    BY DEF MoveInGroups
  <2>2. /\ ts \in Seq(Tab) /\ Distinct(ts) /\ Ids(ts) = Ids(gs[i].tabs)
        /\ ToSet(ts) \subseteq ToSet(gs[i].tabs)
    BY <1>1, MovedTab
  <2> HIDE DEF ts, hs
  <2>3. /\ [gs[i] EXCEPT !.tabs = ts] \in Group
        /\ [gs[i] EXCEPT !.tabs = ts].id = gs[i].id /\ [gs[i] EXCEPT !.tabs = ts].tabs = ts
    BY <1>1, <2>2, GroupWith
  <2> QED BY <1>1, <2>1, <2>2, <2>3
<1> HIDE DEF hs
<1>4. /\ GroupsFit(hs) /\ Len(hs) = Len(gs) /\ Ids(hs) = Ids(gs) /\ DOMAIN hs = DOMAIN gs
      /\ IdsIn(hs) = UNION {Ids(hs[i].tabs) : i \in DOMAIN gs}
  <2>1. \A i \in DOMAIN gs :
           /\ hs[i] \in Group /\ hs[i].id = gs[i].id
           /\ Distinct(hs[i].tabs) /\ Ids(hs[i].tabs) \subseteq Ids(gs[i].tabs)
    BY <1>3
  <2> QED BY <1>2, <2>1, Regrouped
<1>5. IdsIn(hs) = IdsIn(gs)
  BY <1>3, <1>4 DEF IdsIn
<1>6. AtHome(gs) => AtHome(hs)
  BY <1>3, <1>4 DEF AtHome
<1> QED BY <1>4, <1>5, <1>6 DEF hs

(* What every move keeps, the moves that are replayed keep.                *)
LEMMA ReplayedIn ==
  ASSUME NEW Q, NEW gs \in Q, NEW M, NEW moves \in Seq(M),
         \A hs \in Q : \A move : MoveInGroups(hs, move) \in Q
  PROVE  ReplayMoves(gs, moves) \in Q
<1> DEFINE m == Len(moves)
           replayed[n \in 0 .. m] ==
             IF n = 0 THEN gs ELSE MoveInGroups(replayed[n - 1], moves[n])
           g == [v \in Q \X (1 .. m) |-> MoveInGroups(v[1], moves[v[2]])]
<1>1. m \in Nat
  OBVIOUS
<1>2. ReplayMoves(gs, moves) = replayed[m]
  BY DEF ReplayMoves
<1>3. replayed = CHOOSE h : h = [n \in 0 .. m |-> IF n = 0 THEN gs
                                   ELSE MoveInGroups(h[n - 1], moves[n])]
  BY DEF replayed
<1>4. gs \in Q
  OBVIOUS
<1>5. ASSUME NEW hs \in Q, NEW move PROVE MoveInGroups(hs, move) \in Q
  OBVIOUS
<1> HIDE DEF m, replayed
<1>6. g \in [Q \X (1 .. m) -> Q]
  <2>1. \A v \in Q \X (1 .. m) : MoveInGroups(v[1], moves[v[2]]) \in Q
    <3>1. \A v \in Q \X (1 .. m) : v[1] \in Q
      OBVIOUS
    <3> QED BY <1>5, <3>1
  <2> QED BY <2>1
<1>7. ASSUME NEW hs \in Q, NEW n \in 1 .. m PROVE g[<<hs, n>>] = MoveInGroups(hs, moves[n])
  <2>1. <<hs, n>> \in Q \X (1 .. m)
    OBVIOUS
  <2> QED BY <2>1
<1> HIDE DEF g
<1>8. \E f : Counts(f, Q, gs, m, g)
  BY <1>1, <1>4, <1>6, CountedFunction, Zenon
<1>9. PICK f \in [0 .. m -> Q] :
        f = [n \in 0 .. m |-> IF n = 0 THEN gs ELSE g[<<f[n - 1], n>>]]
  BY <1>8 DEF Counts
<1>10. ASSUME NEW n \in 0 .. m, n # 0
       PROVE  g[<<f[n - 1], n>>] = MoveInGroups(f[n - 1], moves[n])
  <2>1. n \in 1 .. m /\ n - 1 \in 0 .. m
    BY <1>1, <1>10
  <2>2. f[n - 1] \in Q
    BY <2>1
  <2> QED BY <1>7, <2>1, <2>2
<1>11. f = [n \in 0 .. m |-> IF n = 0 THEN gs ELSE MoveInGroups(f[n - 1], moves[n])]
  BY <1>9, <1>10
<1>12. replayed = [n \in 0 .. m |-> IF n = 0 THEN gs ELSE MoveInGroups(replayed[n - 1], moves[n])]
  BY <1>3, <1>11
<1> DEFINE G == {n \in 0 .. m : replayed[n] \in Q}
<1>13. 0 \in G
  BY <1>1, <1>4, <1>12
<1>14. ASSUME NEW n \in 0 .. m, n < m, n \in G PROVE n + 1 \in G
  <2>1. n + 1 \in 0 .. m /\ n + 1 # 0 /\ (n + 1) - 1 = n
    BY <1>1, <1>14
  <2>2. replayed[n + 1] = MoveInGroups(replayed[n], moves[n + 1])
    BY <1>12, <2>1
  <2>3. MoveInGroups(replayed[n], moves[n + 1]) \in Q
    BY <1>5, <1>14
  <2> QED BY <2>1, <2>2, <2>3
<1>15. G \in SUBSET (0 .. m)
  OBVIOUS
<1> HIDE DEF G
<1>16. G = 0 .. m
  BY <1>1, <1>13, <1>14, <1>15, CountingUp
<1>17. m \in G
  BY <1>1, <1>16
<1>18. replayed[m] \in Q
  BY <1>17 DEF G
<1> QED BY <1>2, <1>18

LEMMA Replayed ==
  ASSUME NEW gs, GroupsFit(gs), NEW M, NEW moves \in Seq(M)
  PROVE  /\ GroupsFit(ReplayMoves(gs, moves)) /\ Len(ReplayMoves(gs, moves)) = Len(gs)
         /\ IdsIn(ReplayMoves(gs, moves)) = IdsIn(gs)
         /\ Ids(ReplayMoves(gs, moves)) = Ids(gs)
         /\ AtHome(gs) => AtHome(ReplayMoves(gs, moves))
<1> DEFINE Good(hs) == /\ GroupsFit(hs) /\ Len(hs) = Len(gs) /\ IdsIn(hs) = IdsIn(gs)
                       /\ Ids(hs) = Ids(gs) /\ (AtHome(gs) => AtHome(hs))
           Q == {hs \in Seq(Group) : Good(hs)}
<1>1. gs \in Q
  BY DEF GroupsFit
<1>2. ASSUME NEW hs \in Q, NEW move PROVE MoveInGroups(hs, move) \in Q
  <2>1. GroupsFit(hs) /\ Good(hs)
    OBVIOUS
  <2>2. /\ GroupsFit(MoveInGroups(hs, move)) /\ Len(MoveInGroups(hs, move)) = Len(hs)
        /\ IdsIn(MoveInGroups(hs, move)) = IdsIn(hs) /\ Ids(MoveInGroups(hs, move)) = Ids(hs)
        /\ AtHome(hs) => AtHome(MoveInGroups(hs, move))
    BY <2>1, MovedInGroups
  <2>3. MoveInGroups(hs, move) \in Seq(Group)
    BY <2>2 DEF GroupsFit
  <2>4. Good(MoveInGroups(hs, move))
    BY <2>1, <2>2
  <2> HIDE DEF Good
  <2> QED BY <2>3, <2>4
<1> HIDE DEF Q
<1>3. ReplayMoves(gs, moves) \in Q
  BY <1>1, <1>2, ReplayedIn
<1> QED BY <1>3 DEF Q

LEMMA SlotsFacts ==
  ASSUME NEW base, NEW local, NEW theirs,
         GroupsFit(base.groups), GroupsFit(local.groups), GroupsFit(theirs.groups),
         theirs.groups # <<>>
  PROVE  /\ Slots(base, local, theirs) \in Seq(Group)
         /\ Slots(base, local, theirs) # <<>>
         /\ Distinct(Slots(base, local, theirs))
<1> DEFINE merged == MergeItems(base.groups, local.groups, theirs.groups, {"folded"})
           all == local.groups \o theirs.groups
           fallback == SubSeq(all, 1, 1)
           groups == IF merged = <<>> THEN fallback ELSE merged
           slots == [i \in DOMAIN groups |-> [groups[i] EXCEPT !.tabs = <<>>]]
<1>1. /\ base.groups \in Seq(Group) /\ local.groups \in Seq(Group) /\ theirs.groups \in Seq(Group)
      /\ Distinct(local.groups) /\ Distinct(theirs.groups)
  BY DEF GroupsFit
<1>2. merged \in Seq(Group) /\ Distinct(merged)
  BY <1>1, GroupsMix, MergedItems
<1>3. all \in Seq(Group) /\ Len(all) \in Nat /\ Len(all) >= 1
  <2> DEFINE l == local.groups
             t == theirs.groups
  <2>1. l \in Seq(Group) /\ t \in Seq(Group) /\ t # <<>>
    BY <1>1
  <2> HIDE DEF l, t
  <2>2. Len(l) \in Nat /\ Len(t) \in Nat /\ Len(t) # 0
    BY <2>1
  <2>3. l \o t \in Seq(Group) /\ Len(l \o t) = Len(l) + Len(t)
    BY <2>1
  <2>4. Len(l) + Len(t) \in Nat /\ Len(l) + Len(t) >= 1
    BY <2>2
  <2>5. all = l \o t
    BY DEF l, t
  <2> HIDE DEF all
  <2> QED BY <2>3, <2>4, <2>5
<1> HIDE DEF all
<1>4. fallback \in Seq(Group) /\ Len(fallback) = 1
  BY <1>3
<1>5. Distinct(fallback) /\ fallback # <<>>
  <2> HIDE DEF fallback
  <2>1. DOMAIN fallback = 1 .. 1
    BY <1>4
  <2>2. \A i, j \in 1 .. 1 : i = j
    OBVIOUS
  <2>3. fallback # <<>>
    <3>1. Len(<<>>) = 0
      OBVIOUS
    <3>2. Len(fallback) # 0
      BY <1>4
    <3> QED BY <3>1, <3>2
  <2>4. Distinct(fallback)
    BY <2>1, <2>2, Zenon DEF Distinct
  <2> QED BY <2>3, <2>4
<1> HIDE DEF merged, fallback
<1>6. groups \in Seq(Group) /\ Distinct(groups) /\ groups # <<>>
  BY <1>2, <1>4, <1>5
<1>7. Slots(base, local, theirs) = slots
  BY DEF Slots, merged, fallback, all
<1> HIDE DEF groups
<1>8. <<>> \in Seq(Tab)
  OBVIOUS
<1>9. ASSUME NEW i \in DOMAIN groups PROVE slots[i] \in Group /\ slots[i].id = groups[i].id
  <2>1. groups[i] \in Group
    BY <1>6
  <2>2. slots[i] = [groups[i] EXCEPT !.tabs = <<>>]
    OBVIOUS
  <2> QED BY <1>8, <2>1, <2>2, GroupWith
<1>10. slots = [i \in DOMAIN groups |-> slots[i]]
  OBVIOUS
<1> HIDE DEF slots
<1>11. slots \in Seq(Group) /\ Len(slots) = Len(groups) /\ Distinct(slots)
  BY <1>6, <1>9, <1>10, Renewed
<1>12. slots # <<>>
  BY <1>6, <1>11
<1> QED BY <1>7, <1>11, <1>12

(* The tabs put into the slots, each where Home says                       *)
HomeOf(slots, t) == IF t.group \in Ids(slots) THEN t.group ELSE slots[1].id
TabsAt(slots, survivors, i) ==
  LET mine == Only(survivors, {t \in ToSet(survivors) : HomeOf(slots, t) = slots[i].id})
  IN [j \in DOMAIN mine |-> [mine[j] EXCEPT !.group = slots[i].id]]

LEMMA TabsAtFacts ==
  ASSUME NEW slots \in Seq(Group), NEW i \in DOMAIN slots,
         NEW survivors \in Seq(Tab), Distinct(survivors)
  PROVE  /\ TabsAt(slots, survivors, i) \in Seq(Tab) /\ Distinct(TabsAt(slots, survivors, i))
         /\ Ids(TabsAt(slots, survivors, i)) =
              {t.id : t \in {x \in ToSet(survivors) : HomeOf(slots, x) = slots[i].id}}
         /\ \A t \in ToSet(TabsAt(slots, survivors, i)) : t.group = slots[i].id
<1> DEFINE S == {x \in ToSet(survivors) : HomeOf(slots, x) = slots[i].id}
           q == Only(survivors, S)
           o == slots[i].id
           r == [j \in DOMAIN q |-> [q[j] EXCEPT !.group = o]]
<1>1. q \in Seq(Tab) /\ Distinct(q) /\ ToSet(q) = ToSet(survivors) \cap S
  BY OnlyFacts
<1>2. o \in Owners
  <2>1. slots[i] \in Group
    OBVIOUS
  <2> QED BY <2>1 DEF Group
<1>3. TabsAt(slots, survivors, i) = r
  BY DEF TabsAt
<1>4. ToSet(survivors) \cap S = S
  OBVIOUS
<1> HIDE DEF q, o, S
<1>5. ASSUME NEW j \in DOMAIN q PROVE r[j] \in Tab /\ r[j].id = q[j].id /\ r[j].group = o
  <2>1. q[j] \in Tab
    BY <1>1
  <2> QED BY <1>2, <2>1 DEF Tab
<1>6. r = [j \in DOMAIN q |-> r[j]]
  OBVIOUS
<1> HIDE DEF r
<1>7. r \in Seq(Tab) /\ Ids(r) = Ids(q) /\ (Distinct(q) => Distinct(r)) /\ DOMAIN r = DOMAIN q
  <2>1. \A j \in DOMAIN q : r[j] \in Tab /\ r[j].id = q[j].id
    BY <1>5
  <2> QED BY <1>1, <1>6, <2>1, Renewed
<1>8. Ids(q) = {t.id : t \in S}
  BY <1>1, <1>4 DEF Ids
<1>9. \A t \in ToSet(r) : t.group = o
  BY <1>5, <1>7 DEF ToSet
<1> QED BY <1>1, <1>3, <1>7, <1>8, <1>9 DEF S, o

Placing(slots, survivors) ==
  [i \in DOMAIN slots |-> [slots[i] EXCEPT !.tabs = TabsAt(slots, survivors, i)]]

LEMMA Placed ==
  ASSUME NEW slots \in Seq(Group), slots # <<>>, Distinct(slots),
         NEW survivors \in Seq(Tab), Distinct(survivors)
  PROVE  /\ GroupsFit(Placing(slots, survivors))
         /\ Len(Placing(slots, survivors)) = Len(slots)
         /\ IdsIn(Placing(slots, survivors)) = Ids(survivors)
         /\ Ids(Placing(slots, survivors)) = Ids(slots) /\ AtHome(Placing(slots, survivors))
<1> DEFINE placed == Placing(slots, survivors)
           At == [i \in DOMAIN slots |->
                    {t \in ToSet(survivors) : HomeOf(slots, t) = slots[i].id}]
           ts == [i \in DOMAIN slots |-> TabsAt(slots, survivors, i)]
<1>1. /\ DOMAIN slots = 1 .. Len(slots) /\ Len(slots) \in Nat /\ 1 \in DOMAIN slots
      /\ \A i \in DOMAIN slots : slots[i] \in Group
  OBVIOUS
<1>2. \A i \in DOMAIN slots : /\ ts[i] = TabsAt(slots, survivors, i)
                              /\ placed[i] = [slots[i] EXCEPT !.tabs = ts[i]]
  BY DEF Placing
<1>3. ASSUME NEW i \in DOMAIN slots
      PROVE  ts[i] \in Seq(Tab) /\ Ids(ts[i]) = {t.id : t \in At[i]} /\ Distinct(ts[i])
  BY <1>2, TabsAtFacts
<1>14. \A i \in DOMAIN slots : \A t \in ToSet(ts[i]) : t.group = slots[i].id
  BY <1>2, TabsAtFacts
<1> HIDE DEF ts, placed
<1>4. ASSUME NEW i \in DOMAIN slots
      PROVE  placed[i] \in Group /\ placed[i].id = slots[i].id /\ placed[i].tabs = ts[i]
  <2>1. ts[i] \in Seq(Tab) /\ slots[i] \in Group
    BY <1>1, <1>3
  <2>2. placed[i] = [slots[i] EXCEPT !.tabs = ts[i]]
    BY <1>2
  <2> QED BY <2>1, <2>2, GroupWith
<1>5. placed = [i \in DOMAIN slots |-> placed[i]]
  BY DEF placed, Placing
<1>6. placed \in Seq(Group) /\ Len(placed) = Len(slots) /\ DOMAIN placed = DOMAIN slots
      /\ Distinct(placed) /\ Ids(placed) = Ids(slots)
  <2>1. \A i \in DOMAIN slots : placed[i] \in Group /\ placed[i].id = slots[i].id
    BY <1>4
  <2>2. /\ placed \in Seq(Group) /\ Len(placed) = Len(slots) /\ DOMAIN placed = DOMAIN slots
        /\ (Distinct(slots) => Distinct(placed)) /\ Ids(placed) = Ids(slots)
    BY <1>5, <2>1, Renewed
  <2> QED BY <2>2
<1>7. \A t \in ToSet(survivors) : \E i \in DOMAIN slots : t \in At[i]
  <2>1. \A t : HomeOf(slots, t) \in Ids(slots)
    <3>1. slots[1].id \in Ids(slots)
      BY <1>1 DEF Ids, ToSet
    <3> QED BY <3>1 DEF HomeOf
  <2>2. \A x \in Ids(slots) : \E i \in DOMAIN slots : slots[i].id = x
    BY DEF Ids, ToSet
  <2> QED BY <2>1, <2>2
<1>8. \A x, y \in ToSet(survivors) : x.id = y.id => x = y
  BY DEF Distinct, ToSet
<1>9. \A i \in DOMAIN slots : At[i] \subseteq ToSet(survivors)
  OBVIOUS
<1>10. ASSUME NEW i \in DOMAIN slots, NEW k \in DOMAIN slots, i # k
       PROVE  Ids(ts[i]) \cap Ids(ts[k]) = {}
  <2>1. SUFFICES ASSUME NEW z \in Ids(ts[i]), z \in Ids(ts[k]) PROVE FALSE
    OBVIOUS
  <2>4. PICK x \in At[i] : x.id = z
    <3> HIDE DEF At
    <3> QED BY <1>3
  <2>5. PICK y \in At[k] : y.id = z
    <3> HIDE DEF At
    <3> QED BY <1>3, <2>1
  <2>2. x = y
    BY <1>8, <1>9, <2>4, <2>5
  <2>3. slots[i].id = slots[k].id
    BY <2>2
  <2> QED BY <1>10, <2>3 DEF Distinct
<1>11. IdsIn(placed) = Ids(survivors)
  <2>1. IdsIn(placed) = UNION {Ids(ts[i]) : i \in DOMAIN slots}
    <3>1. IdsIn(placed) = UNION {Ids(placed[i].tabs) : i \in DOMAIN slots}
      BY <1>6 DEF IdsIn
    <3>2. \A i \in DOMAIN slots : placed[i].tabs = ts[i]
      BY <1>4
    <3> QED BY <3>1, <3>2
  <2>2. Ids(survivors) = {t.id : t \in ToSet(survivors)}
    BY DEF Ids
  <2> HIDE DEF At
  <2>3. \A i \in DOMAIN slots : Ids(ts[i]) = {t.id : t \in At[i]}
    BY <1>3
  <2>4. ASSUME NEW x \in IdsIn(placed) PROVE x \in Ids(survivors)
    <3>1. PICK i \in DOMAIN slots : x \in Ids(ts[i])
      BY <2>1
    <3>2. PICK t \in At[i] : x = t.id
      BY <2>3, <3>1
    <3> QED BY <1>9, <2>2, <3>2
  <2>5. ASSUME NEW x \in Ids(survivors) PROVE x \in IdsIn(placed)
    <3>1. PICK t \in ToSet(survivors) : x = t.id
      BY <2>2
    <3>2. PICK i \in DOMAIN slots : t \in At[i]
      BY <1>7
    <3>3. x \in Ids(ts[i])
      BY <2>3, <3>1, <3>2
    <3> QED BY <2>1, <3>3
  <2> QED BY <2>4, <2>5
<1>12. Apart(Lists(placed))
  <2> DEFINE v == Lists(placed)
  <2>1. DOMAIN v = DOMAIN slots /\ \A i \in DOMAIN slots : v[i] = ts[i]
    BY <1>4, <1>6 DEF Lists
  <2> HIDE DEF v
  <2>2. Apart(v)
    BY <1>3, <1>10, <2>1 DEF Apart
  <2> QED BY <2>2 DEF v
<1>13. AtHome(placed)
  BY <1>4, <1>6, <1>14 DEF AtHome
<1> QED BY <1>6, <1>11, <1>12, <1>13 DEF GroupsFit, TabsOnce, placed

LEMMA MergedDoc ==
  ASSUME NEW base, Fits(base), NEW local, Fits(local), NEW theirs, Sound(theirs),
         NEW M, NEW moves \in Seq(M)
  PROVE  /\ Sound(MergeWorkbench(base, local, theirs, moves))
         /\ MergeWorkbench(base, local, theirs, moves).rev = theirs.rev
         /\ TabIds(MergeWorkbench(base, local, theirs, moves)) =
              Merged(TabIds(base), TabIds(local), TabIds(theirs))
         /\ AtHome(MergeWorkbench(base, local, theirs, moves).groups)
         /\ Ids(MergeWorkbench(base, local, theirs, moves).groups) =
              Ids(Slots(base, local, theirs))
<1> DEFINE survivors == MergeItems(TabsOf(base), TabsOf(local), TabsOf(theirs), {"group", "name"})
           slots == Slots(base, local, theirs)
           placed == Placing(slots, survivors)
           Else(here, there, all, last) ==
             IF here \in all THEN here ELSE IF there \in all THEN there ELSE last
           tab_ == Else(local.activeTab, theirs.activeTab, Ids(survivors), "")
           group_ == Else(local.activeGroup, theirs.activeGroup, Ids(slots), slots[1].id)
           replayed == ReplayMoves(placed, moves)
           result == [rev |-> theirs.rev, groups |-> replayed,
                      activeTab |-> tab_, activeGroup |-> group_]
<1>1. MergeWorkbench(base, local, theirs, moves) = result
  BY DEF MergeWorkbench, Placing, TabsAt, HomeOf
<1>2. /\ GroupsFit(base.groups) /\ GroupsFit(local.groups) /\ GroupsFit(theirs.groups)
      /\ theirs.groups # <<>>
      /\ local \in Doc /\ theirs \in Doc
  BY DEF Sound, Fits
<1>3. /\ TabsOf(base) \in Seq(Tab) /\ Ids(TabsOf(base)) = TabIds(base)
      /\ TabsOf(local) \in Seq(Tab) /\ Ids(TabsOf(local)) = TabIds(local) /\ Distinct(TabsOf(local))
      /\ TabsOf(theirs) \in Seq(Tab) /\ Ids(TabsOf(theirs)) = TabIds(theirs)
           /\ Distinct(TabsOf(theirs))
  BY <1>2, TabsOfFacts
<1>4. /\ survivors \in Seq(Tab) /\ Distinct(survivors)
      /\ Ids(survivors) = Merged(TabIds(base), TabIds(local), TabIds(theirs))
  BY <1>3, TabsMix, MergedItems
<1>5. slots \in Seq(Group) /\ slots # <<>> /\ Distinct(slots)
  BY <1>2, SlotsFacts
<1> HIDE DEF survivors, slots
<1>6. /\ GroupsFit(placed) /\ Len(placed) = Len(slots) /\ IdsIn(placed) = Ids(survivors)
      /\ Ids(placed) = Ids(slots) /\ AtHome(placed)
  BY <1>4, <1>5, Placed
<1> HIDE DEF placed
<1>7. /\ GroupsFit(replayed) /\ Len(replayed) = Len(placed)
      /\ IdsIn(replayed) = IdsIn(placed) /\ Ids(replayed) = Ids(placed) /\ AtHome(replayed)
  BY <1>6, Replayed
<1> HIDE DEF replayed
<1>8. replayed # <<>>
  BY <1>5, <1>6, <1>7
<1>9. tab_ \in Tabs \cup {""}
  BY <1>2 DEF Doc
<1>10. group_ \in Owners \cup {""}
  <2>1. slots[1] \in Group
    BY <1>5
  <2>2. slots[1].id \in Owners
    BY <2>1 DEF Group
  <2> QED BY <1>2, <2>2 DEF Doc
<1>11. theirs.rev \in Nat
  BY <1>2 DEF Doc
<1>12. replayed \in Seq(Group)
  BY <1>7 DEF GroupsFit
<1> HIDE DEF tab_, group_
<1>13. result \in Doc
  BY <1>9, <1>10, <1>11, <1>12 DEF Doc
<1>14. TabIds(result) = IdsIn(replayed)
  BY TabIdsIn
<1>15. result.rev = theirs.rev /\ result.groups = replayed
  OBVIOUS
<1> HIDE DEF result
<1> QED BY <1>1, <1>4, <1>6, <1>7, <1>8, <1>13, <1>14, <1>15 DEF Sound, Fits, slots

-----------------------------------------------------------------------------
(***************************************************************************)
(* What the merge shows when nothing was changed here.                     *)
(***************************************************************************)
LEMMA OnlyNothing == ASSUME NEW S PROVE Only(<<>>, S) = <<>>
<1>1. PICK f : Steps(f, {}, <<>>, S)
  <2>1. <<>> \in Seq({})
    OBVIOUS
  <2> QED BY <2>1, OnlySteps
<1> QED BY <1>1 DEF Steps

LEMMA AppendedLast ==
  ASSUME NEW T, NEW a \in Seq(T), NEW b \in Seq(T), NEW x \in T
  PROVE  a \o Append(b, x) = Append(a \o b, x)
<1>1. /\ a \o Append(b, x) \in Seq(T) /\ Append(a \o b, x) \in Seq(T)
      /\ Len(a \o Append(b, x)) = Len(a) + Len(b) + 1
      /\ Len(Append(a \o b, x)) = Len(a) + Len(b) + 1
  OBVIOUS
<1>2. ASSUME NEW i \in 1 .. Len(a) + Len(b) + 1
      PROVE  (a \o Append(b, x))[i] = Append(a \o b, x)[i]
  OBVIOUS
<1> QED BY <1>1, <1>2

(* What is kept of two sequences, one after the other                      *)
LEMMA OnlyJoined ==
  ASSUME NEW T, NEW s \in Seq(T), NEW t \in Seq(T), NEW S
  PROVE  Only(s \o t, S) = Only(s, S) \o Only(t, S)
<1> DEFINE a == s \o t
           m == Len(s)
           n == Len(t)
<1>1. /\ a \in Seq(T) /\ Len(a) = m + n /\ m \in Nat /\ n \in Nat
      /\ \A i \in 1 .. m : a[i] = s[i]
      /\ \A i \in 1 .. n : a[m + i] = t[i] /\ t[i] \in T
  OBVIOUS
<1> HIDE DEF a
<1>2. PICK f : Steps(f, T, s, S)
  BY OnlySteps
<1>3. PICK h : Steps(h, T, t, S)
  BY OnlySteps
<1>4. PICK k : Steps(k, T, a, S)
  BY <1>1, OnlySteps
<1>5. /\ f \in [0 .. m -> Seq(T)] /\ Only(s, S) = f[m] /\ f[0] = <<>>
      /\ \A i \in 0 .. m : i < m =>
           f[i + 1] = IF s[i + 1] \in S THEN Append(f[i], s[i + 1]) ELSE f[i]
  BY <1>2 DEF Steps
<1>6. /\ h \in [0 .. n -> Seq(T)] /\ Only(t, S) = h[n] /\ h[0] = <<>>
      /\ \A i \in 0 .. n : i < n =>
           h[i + 1] = IF t[i + 1] \in S THEN Append(h[i], t[i + 1]) ELSE h[i]
  BY <1>3 DEF Steps
<1>7. /\ Only(a, S) = k[m + n] /\ k[0] = <<>>
      /\ \A i \in 0 .. m + n : i < m + n =>
           k[i + 1] = IF a[i + 1] \in S THEN Append(k[i], a[i + 1]) ELSE k[i]
  BY <1>1, <1>4 DEF Steps
<1> HIDE DEF m, n
<1> DEFINE G == {i \in 0 .. m : k[i] = f[i]}
           H == {i \in 0 .. n : k[m + i] = f[m] \o h[i]}
<1>8. m \in G
  <2>1. 0 \in G
    BY <1>1, <1>5, <1>7
  <2>2. ASSUME NEW i \in 0 .. m, i < m, i \in G PROVE i + 1 \in G
    <3>1. i \in 0 .. m + n /\ i < m + n /\ i + 1 \in 1 .. m /\ i + 1 \in 0 .. m
      BY <1>1, <2>2
    <3>2. a[i + 1] = s[i + 1] /\ k[i] = f[i]
      BY <1>1, <2>2, <3>1
    <3>3. k[i + 1] = IF a[i + 1] \in S THEN Append(k[i], a[i + 1]) ELSE k[i]
      BY <1>7, <3>1
    <3>4. f[i + 1] = IF s[i + 1] \in S THEN Append(f[i], s[i + 1]) ELSE f[i]
      BY <1>5, <2>2
    <3> QED BY <3>1, <3>2, <3>3, <3>4
  <2>3. G \in SUBSET (0 .. m)
    OBVIOUS
  <2> HIDE DEF G
  <2>4. G = 0 .. m
    BY <1>1, <2>1, <2>2, <2>3, CountingUp
  <2> QED BY <1>1, <2>4
<1>9. n \in H
  <2>1. 0 \in H
    <3>1. f[m] \in Seq(T) /\ f[m] \o <<>> = f[m] /\ m + 0 = m
      BY <1>1, <1>5
    <3>2. k[m] = f[m] /\ h[0] = <<>> /\ 0 \in 0 .. n
      BY <1>1, <1>6, <1>8
    <3> HIDE DEF G
    <3>3. k[m + 0] = f[m] \o h[0]
      BY <3>1, <3>2
    <3> QED BY <3>2, <3>3
  <2>2. ASSUME NEW i \in 0 .. n, i < n, i \in H PROVE i + 1 \in H
    <3>1. /\ m + i \in 0 .. m + n /\ m + i < m + n /\ i + 1 \in 1 .. n /\ i + 1 \in 0 .. n
          /\ (m + i) + 1 = m + (i + 1)
      BY <1>1, <2>2
    <3>2. a[m + (i + 1)] = t[i + 1] /\ t[i + 1] \in T /\ k[m + i] = f[m] \o h[i]
      BY <1>1, <2>2, <3>1
    <3>3. k[m + (i + 1)] = IF t[i + 1] \in S THEN Append(k[m + i], t[i + 1]) ELSE k[m + i]
      BY <1>7, <3>1, <3>2
    <3>4. h[i + 1] = IF t[i + 1] \in S THEN Append(h[i], t[i + 1]) ELSE h[i]
      BY <1>6, <2>2
    <3>5. f[m] \in Seq(T) /\ h[i] \in Seq(T)
      BY <1>1, <1>5, <1>6
    <3>6. f[m] \o Append(h[i], t[i + 1]) = Append(f[m] \o h[i], t[i + 1])
      <4> DEFINE u == f[m]
                 v == h[i]
                 x == t[i + 1]
      <4>1. u \in Seq(T) /\ v \in Seq(T) /\ x \in T
        BY <3>2, <3>5
      <4> HIDE DEF u, v, x
      <4>2. u \o Append(v, x) = Append(u \o v, x)
        BY <4>1, AppendedLast
      <4> QED BY <4>2 DEF u, v, x
    <3>7. k[m + (i + 1)] = f[m] \o h[i + 1]
      BY <3>2, <3>3, <3>4, <3>6
    <3> QED BY <3>1, <3>7
  <2>3. H \in SUBSET (0 .. n)
    OBVIOUS
  <2> HIDE DEF H
  <2>4. H = 0 .. n
    BY <1>1, <2>1, <2>2, <2>3, CountingUp
  <2> QED BY <1>1, <2>4
<1> QED BY <1>5, <1>6, <1>7, <1>9 DEF a

LEMMA BothKept ==
  ASSUME NEW T, NEW S
  PROVE  \A s, t \in Seq(T) : Only(s \o t, S) = Only(s, S) \o Only(t, S)
BY OnlyJoined, SMT

LEMMA NothingKept ==
  ASSUME NEW T, NEW s \in Seq(T), NEW S, ToSet(s) \cap S = {}
  PROVE  Only(s, S) = <<>>
<1> DEFINE o == Only(s, S)
<1>1. o \in Seq(T) /\ ToSet(o) = {}
  BY OnlyFacts
<1> HIDE DEF o
<1>2. \A i \in DOMAIN o : o[i] \in ToSet(o)
  BY DEF ToSet
<1>3. Len(o) = 0
  <2>1. Len(o) \in Nat /\ DOMAIN o = 1 .. Len(o)
    BY <1>1
  <2>2. ASSUME Len(o) # 0 PROVE FALSE
    <3>1. 1 \in DOMAIN o
      BY <2>1, <2>2
    <3> QED BY <1>1, <1>2, <3>1
  <2> QED BY <2>2
<1> QED BY <1>1, <1>3 DEF o

(* The sequence of w that S holds, when it holds no other                  *)
LEMMA PieceKept ==
  ASSUME NEW T, NEW w \in Seq(Seq(T)), NEW i \in DOMAIN w, NEW S, ToSet(w[i]) \subseteq S,
         \A k \in DOMAIN w : k # i => ToSet(w[k]) \cap S = {}
  PROVE  Only(FlattenSeq(w), S) = w[i]
<1> DEFINE m == Len(w)
<1>1. m \in Nat /\ DOMAIN w = 1 .. m /\ \A k \in 1 .. m : w[k] \in Seq(T)
  OBVIOUS
<1>2. PICK f : Pieces(f, T, w)
  BY FlattenSteps
<1>3. /\ f \in [0 .. m -> Seq(T)] /\ FlattenSeq(w) = f[m] /\ f[0] = <<>>
      /\ \A n \in 0 .. m : n < m => f[n + 1] = f[n] \o w[n + 1]
  BY <1>2 DEF Pieces
<1> HIDE DEF m
<1>20. \A s, t \in Seq(T) : Only(s \o t, S) = Only(s, S) \o Only(t, S)
  BY BothKept
<1>4. i \in 1 .. m
  BY <1>1
<1> DEFINE G == {n \in 0 .. m : Only(f[n], S) = IF n >= i THEN w[i] ELSE <<>>}
<1>5. 0 \in G
  BY <1>1, <1>3, <1>4, OnlyNothing
<1>6. ASSUME NEW n \in 0 .. m, n < m, n \in G PROVE n + 1 \in G
  <2>0. n + 1 \in 1 .. m /\ n + 1 \in 0 .. m
    BY <1>1, <1>6
  <2>1. /\ n + 1 \in 1 .. m /\ n + 1 \in 0 .. m /\ f[n] \in Seq(T) /\ w[n + 1] \in Seq(T)
        /\ w[i] \in Seq(T)
    BY <1>1, <1>3, <1>4, <2>0
  <2>2. f[n + 1] = f[n] \o w[n + 1]
    BY <1>3, <1>6
  <2>3. Only(f[n + 1], S) = Only(f[n], S) \o Only(w[n + 1], S)
    <3> DEFINE u == f[n]
               x == w[n + 1]
    <3>1. u \in Seq(T) /\ x \in Seq(T)
      BY <2>1
    <3> HIDE DEF u, x
    <3>2. Only(u \o x, S) = Only(u, S) \o Only(x, S)
      BY <1>20, <3>1
    <3> QED BY <2>2, <3>2 DEF u, x
  <2>4. Only(f[n], S) = IF n >= i THEN w[i] ELSE <<>>
    BY <1>6
  <2> HIDE DEF G
  <2>5. CASE n + 1 = i
    <3>1. Only(w[n + 1], S) = w[i]
      <4>1. Only(w[i], S) = w[i]
        BY <2>1, OnlyFacts
      <4> QED BY <2>5, <4>1
    <3>2. Only(f[n], S) = <<>> /\ n + 1 >= i
      BY <1>4, <2>4, <2>5
    <3>3. Only(f[n + 1], S) = w[i]
      BY <2>1, <2>3, <3>1, <3>2
    <3> QED BY <2>1, <3>2, <3>3 DEF G
  <2>6. CASE n + 1 # i
    <3>1. Only(w[n + 1], S) = <<>>
      BY <1>1, <2>1, <2>6, NothingKept
    <3>2. (n + 1 >= i) <=> (n >= i)
      BY <1>1, <1>4, <2>6
    <3>3. Only(f[n], S) \in Seq(T)
      BY <2>1, <2>4
    <3>4. Only(f[n + 1], S) = Only(f[n], S)
      BY <2>3, <3>1, <3>3
    <3> QED BY <2>1, <2>4, <3>2, <3>4 DEF G
  <2> QED BY <2>5, <2>6
<1>7. G \in SUBSET (0 .. m)
  OBVIOUS
<1> HIDE DEF G
<1>8. G = 0 .. m
  BY <1>1, <1>5, <1>6, <1>7, CountingUp
<1>9. m \in G /\ m >= i
  BY <1>1, <1>4, <1>8
<1> QED BY <1>3, <1>9 DEF G

(* Empty sequences at the end of w add nothing.                            *)
LEMMA EmptyAtTheEnd ==
  ASSUME NEW T, NEW w \in Seq(Seq(T)), NEW v \in Seq(Seq(T)), Len(w) <= Len(v),
         \A i \in DOMAIN v : v[i] = IF i <= Len(w) THEN w[i] ELSE <<>>
  PROVE  FlattenSeq(v) = FlattenSeq(w)
<1> DEFINE m == Len(w)
           n == Len(v)
<1>1. /\ m \in Nat /\ n \in Nat /\ m <= n /\ \A k \in 1 .. m : w[k] \in Seq(T)
      /\ \A i \in 1 .. n : v[i] = IF i <= m THEN w[i] ELSE <<>>
  OBVIOUS
<1>2. PICK f : Pieces(f, T, w)
  BY FlattenSteps
<1>3. PICK h : Pieces(h, T, v)
  BY FlattenSteps
<1>4. /\ f \in [0 .. m -> Seq(T)] /\ FlattenSeq(w) = f[m] /\ f[0] = <<>>
      /\ \A k \in 0 .. m : k < m => f[k + 1] = f[k] \o w[k + 1]
  BY <1>2 DEF Pieces
<1>5. /\ FlattenSeq(v) = h[n] /\ h[0] = <<>>
      /\ \A k \in 0 .. n : k < n => h[k + 1] = h[k] \o v[k + 1]
  BY <1>3 DEF Pieces
<1> HIDE DEF m, n
<1> DEFINE G == {k \in 0 .. n : h[k] = IF k <= m THEN f[k] ELSE f[m]}
<1>6. 0 \in G
  BY <1>1, <1>4, <1>5
<1>7. ASSUME NEW k \in 0 .. n, k < n, k \in G PROVE k + 1 \in G
  <2>1. k + 1 \in 1 .. n /\ k + 1 \in 0 .. n
    BY <1>1, <1>7
  <2>2. h[k + 1] = h[k] \o v[k + 1] /\ h[k] = IF k <= m THEN f[k] ELSE f[m]
    BY <1>5, <1>7
  <2>3. v[k + 1] = IF k + 1 <= m THEN w[k + 1] ELSE <<>>
    BY <1>1, <2>1
  <2> HIDE DEF G
  <2>4. CASE k + 1 <= m
    <3>1. k \in 0 .. m /\ k < m
      BY <1>1, <2>4
    <3>2. f[k + 1] = f[k] \o w[k + 1]
      BY <1>4, <3>1
    <3>3. h[k] = f[k] /\ v[k + 1] = w[k + 1]
      BY <2>2, <2>3, <2>4, <3>1
    <3>4. h[k + 1] = f[k + 1]
      BY <2>2, <3>2, <3>3
    <3> QED BY <2>1, <2>4, <3>4 DEF G
  <2>5. CASE ~(k + 1 <= m)
    <3>1. h[k] = f[m] /\ f[m] \in Seq(T)
      <4>1. k <= m => k = m
        BY <1>1, <2>5
      <4> QED BY <1>1, <1>4, <2>2, <4>1
    <3>2. h[k + 1] = f[m] \o <<>>
      BY <2>2, <2>3, <2>5, <3>1
    <3>3. h[k + 1] = f[m]
      BY <3>1, <3>2
    <3> QED BY <2>1, <2>5, <3>3 DEF G
  <2> QED BY <2>4, <2>5
<1>8. G \in SUBSET (0 .. n)
  OBVIOUS
<1> HIDE DEF G
<1>9. G = 0 .. n
  BY <1>1, <1>6, <1>7, <1>8, CountingUp
<1>10. n \in G /\ (n <= m => n = m)
  BY <1>1, <1>9
<1> QED BY <1>4, <1>5, <1>10 DEF G

(* A list as it was merges to the list that was read.                      *)
LEMMA MergedAlike ==
  ASSUME NEW mine \in Seq(Tab), NEW theirs \in Seq(Tab), Distinct(theirs)
  PROVE  MergeItems(mine, mine, theirs, {"group", "name"}) = theirs
<1> DEFINE F == {"group", "name"}
           K == {x \in ToSet(theirs) : x.id \in Ids(mine) \/ x.id \notin Ids(mine)}
           O == {x \in ToSet(mine) : x.id \notin Ids(theirs) \union Ids(mine)}
           kept == Only(theirs, K)
           own == Only(mine, O)
           mixed == [i \in DOMAIN kept |->
                       IF kept[i].id \in Ids(mine)
                       THEN MergeFields(mine, mine, theirs, kept[i].id, F) ELSE kept[i]]
<1>1. MergeItems(mine, mine, theirs, F) = mixed \o own
  BY DEF MergeItems
<1>2. kept = theirs
  <2>1. ToSet(theirs) \subseteq K
    OBVIOUS
  <2> HIDE DEF K
  <2> QED BY <2>1, OnlyFacts
<1>3. own = <<>>
  <2>1. O = {}
    BY DEF Ids
  <2>2. ToSet(mine) \cap O = {}
    BY <2>1
  <2> HIDE DEF O
  <2> QED BY <2>2, NothingKept
<1> HIDE DEF kept, own, K, O
<1>4. ASSUME NEW i \in DOMAIN theirs
      PROVE  MergeFields(mine, mine, theirs, theirs[i].id, F) = theirs[i]
             \/ theirs[i].id \notin Ids(mine)
  <2> DEFINE id == theirs[i].id
             z == ById(theirs, id)
             y == ById(mine, id)
  <2>1. id \in Ids(theirs) /\ theirs[i] \in ToSet(theirs)
    BY IdsOf
  <2>2. z \in ToSet(theirs) /\ z.id = id /\ z \in Tab
    BY <2>1, ByIdFacts
  <2>3. z = theirs[i]
    <3>1. PICK k \in DOMAIN theirs : z = theirs[k]
      BY <2>2 DEF ToSet
    <3>2. k = i
      BY <2>2, <3>1 DEF Distinct
    <3> QED BY <3>1, <3>2
  <2>4. CASE id \in Ids(mine)
    <3>1. MergeFields(mine, mine, theirs, id, F) =
            [f \in DOMAIN z |-> IF f \in F /\ y[f] # y[f] THEN y[f] ELSE z[f]]
      BY <2>4 DEF MergeFields
    <3> HIDE DEF z, y
    <3>2. [f \in DOMAIN z |-> IF f \in F /\ y[f] # y[f] THEN y[f] ELSE z[f]] =
            [f \in DOMAIN z |-> z[f]]
      OBVIOUS
    <3>3. z = [f \in DOMAIN z |-> z[f]]
      BY <2>2 DEF Tab
    <3> QED BY <2>3, <3>1, <3>2, <3>3
  <2> QED BY <2>4
<1>5. mixed = [i \in DOMAIN theirs |-> theirs[i]]
  BY <1>2, <1>4
<1> HIDE DEF mixed
<1>6. mixed = theirs
  BY <1>5
<1> QED BY <1>1, <1>3, <1>6

LEMMA JoinedAt ==
  ASSUME NEW T, NEW s \in Seq(T), NEW t \in Seq(T)
  PROVE  /\ s \o t \in Seq(T) /\ Len(s \o t) = Len(s) + Len(t)
         /\ \A i \in 1 .. Len(s) : (s \o t)[i] = s[i]
OBVIOUS

(* The groups of the list that was read keep their places.                 *)
LEMMA SlotsInPlace ==
  ASSUME NEW base, NEW local, NEW theirs,
         GroupsFit(base.groups), GroupsFit(local.groups), GroupsFit(theirs.groups),
         theirs.groups # <<>>, Ids(base.groups) \subseteq Ids(local.groups)
  PROVE  /\ Len(theirs.groups) <= Len(Slots(base, local, theirs))
         /\ \A i \in DOMAIN theirs.groups :
              /\ i \in DOMAIN Slots(base, local, theirs)
              /\ Slots(base, local, theirs)[i].id = theirs.groups[i].id
<1> DEFINE bs == base.groups
           ls == local.groups
           ts == theirs.groups
           F == {"folded"}
           K == {x \in ToSet(ts) : x.id \in Ids(ls) \/ x.id \notin Ids(bs)}
           O == {x \in ToSet(ls) : x.id \notin Ids(ts) \union Ids(bs)}
           kept == Only(ts, K)
           own == Only(ls, O)
           mixed == [i \in DOMAIN kept |->
                       IF kept[i].id \in Ids(ls)
                       THEN MergeFields(bs, ls, ts, kept[i].id, F) ELSE kept[i]]
           merged == mixed \o own
           slots == [i \in DOMAIN merged |-> [merged[i] EXCEPT !.tabs = <<>>]]
<1>1. bs \in Seq(Group) /\ ls \in Seq(Group) /\ ts \in Seq(Group) /\ ts # <<>>
      /\ Ids(bs) \subseteq Ids(ls)
  BY DEF GroupsFit
<1>2. /\ MergeItems(bs, ls, ts, F) = merged
      /\ merged # <<>> => Slots(base, local, theirs) = slots
  <2>1. MergeItems(bs, ls, ts, F) = merged
    BY DEF MergeItems
  <2> HIDE DEF merged
  <2> QED BY <2>1 DEF Slots
<1> HIDE DEF bs, ls, ts
<1>3. kept = ts
  <2>1. ToSet(ts) \subseteq K
    BY <1>1
  <2> HIDE DEF K
  <2> QED BY <1>1, <2>1, OnlyFacts
<1>4. own \in Seq(Group)
  BY <1>1, OnlyFacts
<1> HIDE DEF kept, own, K, O
<1>5. ASSUME NEW i \in DOMAIN ts PROVE mixed[i] \in Group /\ mixed[i].id = ts[i].id
  <2>1. ts[i] \in Group /\ ts[i].id \in Ids(ts)
    BY <1>1, IdsOf
  <2>2. CASE ts[i].id \in Ids(ls)
    <3>1. mixed[i] = MergeFields(bs, ls, ts, ts[i].id, F)
      BY <1>3, <2>2
    <3>2. ts[i].id \in Ids(ls) \cap Ids(ts)
      BY <2>1, <2>2
    <3> HIDE DEF mixed
    <3>3. /\ MergeFields(bs, ls, ts, ts[i].id, F) \in Group
          /\ MergeFields(bs, ls, ts, ts[i].id, F).id = ts[i].id
      BY <1>1, <3>2, GroupsMix, MergedFields
    <3> QED BY <3>1, <3>3
  <2>3. CASE ts[i].id \notin Ids(ls)
    BY <1>3, <2>1, <2>3
  <2> QED BY <2>2, <2>3
<1>6. mixed = [i \in DOMAIN ts |-> mixed[i]]
  BY <1>3
<1> HIDE DEF mixed
<1>7. mixed \in Seq(Group) /\ Len(mixed) = Len(ts)
  BY <1>1, <1>5, <1>6, Renewed
<1>8. /\ merged \in Seq(Group) /\ Len(merged) = Len(ts) + Len(own) /\ Len(own) \in Nat
      /\ Len(ts) \in Nat /\ DOMAIN ts = 1 .. Len(ts)
      /\ \A i \in 1 .. Len(ts) : merged[i] = mixed[i]
  <2>1. /\ mixed \o own \in Seq(Group) /\ Len(mixed \o own) = Len(mixed) + Len(own)
        /\ \A i \in 1 .. Len(mixed) : (mixed \o own)[i] = mixed[i]
    BY <1>4, <1>7, JoinedAt
  <2>2. Len(own) \in Nat /\ Len(ts) \in Nat /\ DOMAIN ts = 1 .. Len(ts)
    BY <1>1, <1>4
  <2> QED BY <1>7, <2>1, <2>2
<1> HIDE DEF merged
<1>9. merged # <<>>
  <2>1. Len(ts) # 0
    BY <1>1
  <2>2. Len(merged) # 0
    BY <1>8, <2>1
  <2> QED BY <2>2
<1>10. /\ Len(slots) = Len(merged) /\ DOMAIN slots = 1 .. Len(merged)
       /\ \A i \in DOMAIN merged : slots[i] \in Group /\ slots[i].id = merged[i].id
  <2>1. DOMAIN merged = 1 .. Len(merged) /\ Len(merged) \in Nat
    BY <1>8
  <2>2. <<>> \in Seq(Tab)
    OBVIOUS
  <2>3. ASSUME NEW i \in DOMAIN merged PROVE slots[i] \in Group /\ slots[i].id = merged[i].id
    <3>1. merged[i] \in Group
      BY <1>8
    <3>2. slots[i] = [merged[i] EXCEPT !.tabs = <<>>]
      OBVIOUS
    <3> QED BY <2>2, <3>1, <3>2, GroupWith
  <2>4. slots = [i \in DOMAIN merged |-> slots[i]]
    OBVIOUS
  <2> HIDE DEF slots
  <2>5. Len(slots) = Len(merged) /\ DOMAIN slots = DOMAIN merged
    BY <1>8, <2>3, <2>4, Renewed
  <2> QED BY <2>1, <2>3, <2>5
<1> HIDE DEF slots
<1>11. Len(ts) <= Len(slots)
  BY <1>8, <1>10
<1>12. \A i \in DOMAIN ts : i \in DOMAIN slots /\ slots[i].id = ts[i].id
  <2>1. SUFFICES ASSUME NEW i \in DOMAIN ts PROVE i \in DOMAIN slots /\ slots[i].id = ts[i].id
    OBVIOUS
  <2>2. i \in 1 .. Len(ts) /\ i \in 1 .. Len(merged)
    BY <1>8
  <2>3. i \in DOMAIN merged
    BY <1>8, <2>2
  <2> QED BY <1>5, <1>8, <1>10, <2>2, <2>3
<1> QED BY <1>2, <1>9, <1>11, <1>12 DEF ts

LEMMA NoMoves ==
  ASSUME NEW gs
  PROVE  ReplayMoves(gs, <<>>) = gs
<1> DEFINE moves == <<>>
           m == 0
           replayed[n \in 0 .. m] ==
             IF n = 0 THEN gs ELSE MoveInGroups(replayed[n - 1], moves[n])
           f == [n \in 0 .. m |-> gs]
<1>1. ReplayMoves(gs, <<>>) = replayed[0]
  BY DEF ReplayMoves
<1>2. replayed = CHOOSE h : h = [n \in 0 .. m |-> IF n = 0 THEN gs
                                   ELSE MoveInGroups(h[n - 1], moves[n])]
  BY DEF replayed
<1>3. 0 .. m = {0}
  OBVIOUS
<1> HIDE DEF replayed, m, moves
<1>4. f = [n \in 0 .. m |-> IF n = 0 THEN gs ELSE MoveInGroups(f[n - 1], moves[n])]
  BY <1>3
<1>5. replayed = [n \in 0 .. m |-> IF n = 0 THEN gs ELSE MoveInGroups(replayed[n - 1], moves[n])]
  BY <1>2, <1>4
<1> QED BY <1>1, <1>3, <1>5

LEMMA ListsOf ==
  ASSUME NEW d, GroupsFit(d.groups)
  PROVE  LET w == Lists(d.groups)
         IN /\ w \in Seq(Seq(Tab)) /\ Len(w) = Len(d.groups) /\ DOMAIN w = DOMAIN d.groups
            /\ \A i \in DOMAIN d.groups : w[i] = d.groups[i].tabs
            /\ TabsOf(d) = FlattenSeq(w)
<1> DEFINE gs == d.groups
           w == Lists(gs)
<1>1. TabsOf(d) = FlattenSeq(w) /\ w = [i \in DOMAIN gs |-> gs[i].tabs]
  BY DEF TabsOf, Lists
<1>2. /\ gs \in Seq(Group) /\ Len(gs) \in Nat /\ DOMAIN gs = 1 .. Len(gs)
      /\ \A i \in DOMAIN gs : gs[i].tabs \in Seq(Tab)
  BY FitGroups
<1> HIDE DEF gs, w
<1>3. w \in [1 .. Len(gs) -> Seq(Tab)]
  BY <1>1, <1>2
<1>4. w \in Seq(Seq(Tab)) /\ Len(w) = Len(gs)
  BY <1>2, <1>3
<1> QED BY <1>1, <1>4 DEF gs, w

(* Tabs that are at home stay where they are.                              *)
LEMMA PlacedAtHome ==
  ASSUME NEW d, GroupsFit(d.groups), AtHome(d.groups),
         NEW slots \in Seq(Group), Distinct(slots), Len(d.groups) <= Len(slots),
         \A i \in DOMAIN d.groups : i \in DOMAIN slots /\ slots[i].id = d.groups[i].id,
         NEW i \in DOMAIN slots
  PROVE  TabsAt(slots, TabsOf(d), i) = IF i <= Len(d.groups) THEN d.groups[i].tabs ELSE <<>>
<1> DEFINE gs == d.groups
           w == Lists(gs)
           F == TabsOf(d)
           S == {t \in ToSet(F) : HomeOf(slots, t) = slots[i].id}
           o == slots[i].id
<1>1. /\ w \in Seq(Seq(Tab)) /\ DOMAIN w = DOMAIN gs /\ F = FlattenSeq(w)
      /\ \A k \in DOMAIN gs : w[k] = gs[k].tabs
  BY ListsOf
<1>2. /\ gs \in Seq(Group) /\ Len(gs) \in Nat /\ DOMAIN gs = 1 .. Len(gs)
  BY FitGroups
<1>3. F \in Seq(Tab)
  BY TabsOfFacts
<1> DEFINE q == Only(F, S)
<1>4. TabsAt(slots, F, i) = [j \in DOMAIN q |-> [q[j] EXCEPT !.group = o]]
  BY DEF TabsAt
<1>11. /\ \A k \in DOMAIN gs : k \in DOMAIN slots /\ slots[k].id = gs[k].id
       /\ \A k \in DOMAIN gs : \A t \in ToSet(gs[k].tabs) : t.group = gs[k].id
  BY DEF AtHome
<1> HIDE DEF gs, w
<1>5. ToSet(F) = UNION {ToSet(w[k]) : k \in DOMAIN w}
  <2>1. ToSet(FlattenSeq(w)) = UNION {ToSet(w[k]) : k \in DOMAIN w}
    BY <1>1, FlattenFacts
  <2> QED BY <1>1, <2>1
<1> HIDE DEF F
<1>6. ASSUME NEW k \in DOMAIN w, NEW t \in ToSet(w[k])
      PROVE  /\ t \in ToSet(F) /\ t.group = slots[k].id /\ k \in DOMAIN slots
             /\ HomeOf(slots, t) = slots[k].id
  <2>1. t \in ToSet(F) /\ t.group = slots[k].id /\ k \in DOMAIN slots
    BY <1>1, <1>5, <1>6, <1>11
  <2>2. slots[k].id \in Ids(slots)
    BY <2>1, IdsOf
  <2> QED BY <2>1, <2>2 DEF HomeOf
<1>7. ASSUME NEW k \in DOMAIN w, k # i PROVE ToSet(w[k]) \cap S = {}
  <2>1. k \in DOMAIN slots
    BY <1>1, <1>11
  <2>2. slots[k].id # slots[i].id
    BY <1>7, <2>1 DEF Distinct
  <2> QED BY <1>6, <2>2
<1>8. CASE i \in DOMAIN gs
  <2>1. ToSet(w[i]) \subseteq S
    BY <1>1, <1>6, <1>8
  <2> HIDE DEF S
  <2>2. i \in DOMAIN w /\ w[i] \in Seq(Tab)
    BY <1>1, <1>8
  <2>3. q = w[i]
    BY <1>1, <1>7, <2>1, <2>2, PieceKept
  <2> HIDE DEF q
  <2>4. ASSUME NEW j \in DOMAIN q PROVE [q[j] EXCEPT !.group = o] = q[j]
    <3>1. q[j] \in ToSet(w[i]) /\ q[j] \in Tab
      BY <2>2, <2>3 DEF ToSet
    <3>2. q[j].group = o
      BY <1>6, <2>2, <3>1
    <3> HIDE DEF o
    <3> DEFINE y == q[j]
    <3>3. y \in Tab /\ y.group = o
      BY <3>1, <3>2
    <3> HIDE DEF y
    <3>4. [y EXCEPT !.group = o] = y
      BY <3>3 DEF Tab
    <3> QED BY <3>4 DEF y
  <2>5. TabsAt(slots, F, i) = [j \in DOMAIN q |-> q[j]]
    BY <1>4, <2>4
  <2>6. q \in Seq(Tab)
    BY <2>2, <2>3
  <2>7. q = [j \in DOMAIN q |-> q[j]]
    BY <2>6
  <2>8. TabsAt(slots, F, i) = gs[i].tabs /\ i <= Len(gs)
    BY <1>1, <1>2, <1>8, <2>3, <2>5, <2>7
  <2> QED BY <2>8 DEF gs, F
<1>9. CASE i \notin DOMAIN gs
  <2>1. ToSet(F) \cap S = {}
    BY <1>1, <1>5, <1>7, <1>9
  <2> HIDE DEF S
  <2>2. q = <<>>
    BY <1>3, <2>1, NothingKept DEF F
  <2> HIDE DEF q
  <2>3. TabsAt(slots, F, i) = <<>>
    BY <1>4, <2>2
  <2>4. ~(i <= Len(gs))
    BY <1>2, <1>9
  <2> QED BY <2>3, <2>4 DEF gs, F
<1> QED BY <1>8, <1>9

(* What a merge shows of a list to which nothing is changed here: the one  *)
(* that was read.                                                          *)
LEMMA MergeShows ==
  ASSUME NEW base, Fits(base), NEW local, Fits(local), NEW theirs, Sound(theirs),
         AtHome(theirs.groups), Ids(base.groups) \subseteq Ids(local.groups),
         TabsOf(local) = TabsOf(base)
  PROVE  TabsOf(MergeWorkbench(base, local, theirs, <<>>)) = TabsOf(theirs)
<1> DEFINE F == TabsOf(theirs)
           gs == theirs.groups
           slots == Slots(base, local, theirs)
           placed == Placing(slots, F)
           m == MergeWorkbench(base, local, theirs, <<>>)
           v == Lists(placed)
           w == Lists(gs)
<1>1. /\ GroupsFit(base.groups) /\ GroupsFit(local.groups) /\ GroupsFit(gs) /\ gs # <<>>
  BY DEF Sound, Fits
<1>2. F \in Seq(Tab) /\ Distinct(F) /\ TabsOf(local) \in Seq(Tab)
  BY <1>1, TabsOfFacts
<1>3. MergeItems(TabsOf(base), TabsOf(local), F, {"group", "name"}) = F
  <2> HIDE DEF F
  <2> QED BY <1>2, MergedAlike
<1>4. m.groups = placed
  <2>1. m.groups = ReplayMoves(placed, <<>>)
    BY <1>3 DEF MergeWorkbench, Placing, TabsAt, HomeOf
  <2> HIDE DEF m, placed
  <2> QED BY <2>1, NoMoves
<1>5. slots \in Seq(Group) /\ slots # <<>> /\ Distinct(slots)
  BY <1>1, SlotsFacts
<1>6. /\ Len(gs) <= Len(slots)
      /\ \A i \in DOMAIN gs : i \in DOMAIN slots /\ slots[i].id = gs[i].id
  BY <1>1, SlotsInPlace
<1>7. GroupsFit(placed) /\ Len(placed) = Len(slots)
  <2> HIDE DEF F, slots
  <2> QED BY <1>2, <1>5, Placed
<1>8. /\ w \in Seq(Seq(Tab)) /\ Len(w) = Len(gs) /\ F = FlattenSeq(w)
      /\ \A i \in DOMAIN gs : w[i] = gs[i].tabs
  BY <1>1, ListsOf
<1>9. /\ v \in Seq(Seq(Tab)) /\ Len(v) = Len(placed) /\ DOMAIN v = DOMAIN placed
      /\ TabsOf(m) = FlattenSeq(v) /\ \A i \in DOMAIN placed : v[i] = placed[i].tabs
  <2>1. GroupsFit(m.groups)
    BY <1>4, <1>7
  <2> HIDE DEF m, placed
  <2> QED BY <1>4, <2>1, ListsOf
<1>10. ASSUME NEW i \in DOMAIN slots
       PROVE  /\ i \in DOMAIN placed
              /\ placed[i].tabs = IF i <= Len(gs) THEN gs[i].tabs ELSE <<>>
  <2>1. i \in DOMAIN placed /\ placed[i] = [slots[i] EXCEPT !.tabs = TabsAt(slots, F, i)]
    BY DEF Placing
  <2>2. slots[i] \in Group
    BY <1>5
  <2>3. placed[i].tabs = TabsAt(slots, F, i)
    <3> HIDE DEF slots, placed, F
    <3> QED BY <2>1, <2>2 DEF Group
  <2>4. TabsAt(slots, F, i) = IF i <= Len(gs) THEN gs[i].tabs ELSE <<>>
    <3> HIDE DEF slots
    <3> QED BY <1>1, <1>5, <1>6, PlacedAtHome
  <2> QED BY <2>1, <2>3, <2>4
<1>11. DOMAIN gs = 1 .. Len(gs) /\ DOMAIN slots = 1 .. Len(slots) /\ Len(gs) \in Nat
       /\ Len(slots) \in Nat /\ DOMAIN v = 1 .. Len(v)
  <2>1. gs \in Seq(Group)
    BY <1>1, FitGroups
  <2> HIDE DEF gs, slots, v
  <2> QED BY <1>5, <1>9, <2>1
<1> HIDE DEF F, gs, slots, placed, m, v, w
<1>12. \A i \in DOMAIN v : v[i] = IF i <= Len(w) THEN w[i] ELSE <<>>
  <2>1. SUFFICES ASSUME NEW i \in DOMAIN v PROVE v[i] = IF i <= Len(w) THEN w[i] ELSE <<>>
    OBVIOUS
  <2>2. i \in DOMAIN slots /\ v[i] = placed[i].tabs
    BY <1>7, <1>9, <1>11
  <2>3. i <= Len(gs) => i \in DOMAIN gs
    BY <1>11, <2>2
  <2> QED BY <1>8, <1>10, <2>2, <2>3
<1>13. FlattenSeq(v) = FlattenSeq(w)
  <2>1. Len(w) <= Len(v)
    BY <1>6, <1>7, <1>8, <1>9
  <2> QED BY <1>8, <1>9, <1>12, <2>1, EmptyAtTheEnd
<1> QED BY <1>8, <1>9, <1>13 DEF m, F

-----------------------------------------------------------------------------
(***************************************************************************)
(* What the edits make of a list.                                          *)
(***************************************************************************)
(* Another active tab                                                      *)
LEMMA Activated ==
  ASSUME NEW d, Sound(d), NEW t \in Tabs \cup {""}, NEW g \in Owners \cup {""}
  PROVE  LET e == [d EXCEPT !.activeTab = t]
             f == [d EXCEPT !.activeGroup = g, !.activeTab = t]
         IN /\ Sound(e) /\ e.rev = d.rev /\ TabIds(e) = TabIds(d) /\ e.groups = d.groups
            /\ Sound(f) /\ f.rev = d.rev /\ TabIds(f) = TabIds(d) /\ f.groups = d.groups
<1> DEFINE e == [d EXCEPT !.activeTab = t]
           f == [d EXCEPT !.activeGroup = g, !.activeTab = t]
<1>1. d \in Doc /\ GroupsFit(d.groups) /\ d.groups # <<>>
  BY DEF Sound, Fits
<1>2. e \in Doc /\ e.groups = d.groups /\ e.rev = d.rev
  BY <1>1 DEF Doc
<1>3. f \in Doc /\ f.groups = d.groups /\ f.rev = d.rev
  BY <1>1 DEF Doc
<1> HIDE DEF e, f
<1>4. Sound(e) /\ TabIds(e) = TabIds(d)
  BY <1>1, <1>2 DEF Sound, Fits, TabIds
<1>5. Sound(f) /\ TabIds(f) = TabIds(d)
  BY <1>1, <1>3 DEF Sound, Fits, TabIds
<1> QED BY <1>2, <1>3, <1>4, <1>5 DEF e, f

(* ... and its group                                                       *)
LEMMA ActivatedTab ==
  ASSUME NEW d, Sound(d), NEW t \in Tabs, NEW g \in Owners
  PROVE  LET h == [d EXCEPT !.activeTab = t, !.activeGroup = g]
         IN Sound(h) /\ h.rev = d.rev /\ TabIds(h) = TabIds(d) /\ h.groups = d.groups
<1> DEFINE h == [d EXCEPT !.activeTab = t, !.activeGroup = g]
<1>1. d \in Doc /\ GroupsFit(d.groups) /\ d.groups # <<>>
  BY DEF Sound, Fits
<1>2. h \in Doc /\ h.groups = d.groups /\ h.rev = d.rev
  BY <1>1 DEF Doc
<1> HIDE DEF h
<1>3. Sound(h) /\ TabIds(h) = TabIds(d)
  BY <1>1, <1>2 DEF Sound, Fits, TabIds
<1> QED BY <1>2, <1>3 DEF h

(* Other groups in the same document                                       *)
LEMMA WithGroups ==
  ASSUME NEW d, Sound(d), NEW gs, GroupsFit(gs), gs # <<>>, NEW e, e = [d EXCEPT !.groups = gs]
  PROVE  Sound(e) /\ e.rev = d.rev /\ TabIds(e) = IdsIn(gs)
<1>1. d \in Doc
  BY DEF Sound, Fits
<1>2. gs \in Seq(Group)
  BY DEF GroupsFit
<1>3. e \in Doc /\ e.groups = gs /\ e.rev = d.rev
  BY <1>1, <1>2 DEF Doc
<1> QED BY <1>3, TabIdsIn DEF Sound, Fits

(* Another list of tabs in a group                                         *)
Relisted(cfg, i, ts) == [cfg EXCEPT !.groups[i].tabs = ts]

LEMMA EditedGroup ==
  ASSUME NEW cfg, Sound(cfg), NEW i \in DOMAIN cfg.groups, NEW ts \in Seq(Tab), Distinct(ts),
         \A k \in DOMAIN cfg.groups : k # i => Ids(ts) \cap Ids(cfg.groups[k].tabs) = {}
  PROVE  /\ Sound(Relisted(cfg, i, ts)) /\ Relisted(cfg, i, ts).rev = cfg.rev
         /\ TabIds(Relisted(cfg, i, ts)) = (TabIds(cfg) \ Ids(cfg.groups[i].tabs)) \cup Ids(ts)
         /\ (AtHome(cfg.groups) => \A t \in ToSet(ts) : t.group = cfg.groups[i].id)
              => SameGroups(cfg, Relisted(cfg, i, ts))
<1> DEFINE d == Relisted(cfg, i, ts)
           gs == cfg.groups
           hs == [k \in DOMAIN gs |-> IF k = i THEN [gs[i] EXCEPT !.tabs = ts] ELSE gs[k]]
<1>1. cfg \in Doc /\ GroupsFit(gs) /\ gs # <<>>
  BY DEF Sound, Fits
<1>2. /\ gs \in Seq(Group) /\ Distinct(gs) /\ Len(gs) \in Nat
      /\ \A k \in DOMAIN gs : /\ gs[k] \in Group /\ gs[k].tabs \in Seq(Tab) /\ Distinct(gs[k].tabs)
      /\ \A k, l \in DOMAIN gs : k # l => Ids(gs[k].tabs) \cap Ids(gs[l].tabs) = {}
  BY <1>1, FitGroups
<1>3. d = [cfg EXCEPT !.groups = hs]
  <2>1. hs = [gs EXCEPT ![i] = [gs[i] EXCEPT !.tabs = ts]]
    OBVIOUS
  <2>2. d = [cfg EXCEPT !.groups = [gs EXCEPT ![i] = [gs[i] EXCEPT !.tabs = ts]]]
    BY DEF Relisted
  <2> HIDE DEF hs
  <2> QED BY <2>1, <2>2
<1>4. /\ [gs[i] EXCEPT !.tabs = ts] \in Group
      /\ [gs[i] EXCEPT !.tabs = ts].id = gs[i].id /\ [gs[i] EXCEPT !.tabs = ts].tabs = ts
  BY <1>2, GroupWith
<1>5. /\ hs = [k \in DOMAIN gs |-> hs[k]] /\ i \in DOMAIN gs
      /\ hs[i] \in Group /\ hs[i].id = gs[i].id /\ hs[i].tabs = ts
      /\ \A k \in DOMAIN gs : k # i => hs[k] = gs[k]
  BY <1>4
<1>6. \A k \in DOMAIN gs : k # i => Ids(ts) \cap Ids(gs[k].tabs) = {}
  OBVIOUS
<1> HIDE DEF gs, hs, d
<1>7. \A k \in DOMAIN gs : hs[k] \in Group /\ hs[k].id = gs[k].id
  BY <1>2, <1>5
<1>8. /\ hs \in Seq(Group) /\ Len(hs) = Len(gs) /\ DOMAIN hs = DOMAIN gs /\ Distinct(hs)
      /\ Ids(hs) = Ids(gs)
  BY <1>2, <1>5, <1>7, Renewed
<1>9. \A k, l \in DOMAIN gs : k # l => Ids(hs[k].tabs) \cap Ids(hs[l].tabs) = {}
  BY <1>2, <1>5, <1>6
<1>10. \A k \in DOMAIN gs : Distinct(hs[k].tabs)
  BY <1>2, <1>5
<1>11. Apart(Lists(hs))
  <2> DEFINE v == Lists(hs)
  <2>1. DOMAIN v = DOMAIN gs /\ \A k \in DOMAIN gs : v[k] = hs[k].tabs
    BY <1>8 DEF Lists
  <2> HIDE DEF v
  <2>2. Apart(v)
    BY <1>9, <1>10, <2>1 DEF Apart
  <2> QED BY <2>2 DEF v
<1>12. GroupsFit(hs) /\ hs # <<>>
  <2>1. hs # <<>>
    <3>1. Len(hs) # 0
      BY <1>1, <1>2, <1>8
    <3>2. Len(<<>>) = 0
      OBVIOUS
    <3> QED BY <3>1, <3>2
  <2> QED BY <1>8, <1>11, <2>1 DEF GroupsFit, TabsOnce
<1>13. Sound(d) /\ d.rev = cfg.rev /\ TabIds(d) = IdsIn(hs)
  BY <1>3, <1>12, WithGroups
<1>18. d.groups = hs
  BY <1>1, <1>3 DEF Doc
<1>16. ASSUME AtHome(gs) => \A t \in ToSet(ts) : t.group = gs[i].id
       PROVE  AtHome(gs) => AtHome(hs)
  <2>1. SUFFICES ASSUME AtHome(gs), NEW k \in DOMAIN gs, NEW t \in ToSet(hs[k].tabs)
                 PROVE  t.group = hs[k].id
    BY <1>8 DEF AtHome
  <2>2. CASE k = i
    BY <1>5, <1>16, <2>1, <2>2
  <2>3. CASE k # i
    BY <1>5, <2>1, <2>3 DEF AtHome
  <2> QED BY <2>2, <2>3
<1>14. IdsIn(hs) = (IdsIn(gs) \ Ids(gs[i].tabs)) \cup Ids(ts)
  <2>1. IdsIn(hs) = UNION {Ids(hs[k].tabs) : k \in DOMAIN gs}
        /\ IdsIn(gs) = UNION {Ids(gs[k].tabs) : k \in DOMAIN gs}
    BY <1>8 DEF IdsIn
  <2>2. ASSUME NEW x \in IdsIn(hs) PROVE x \in (IdsIn(gs) \ Ids(gs[i].tabs)) \cup Ids(ts)
    <3>1. PICK k \in DOMAIN gs : x \in Ids(hs[k].tabs)
      BY <2>1
    <3>2. CASE k = i
      BY <1>5, <3>1, <3>2
    <3>3. CASE k # i
      <4>1. x \in Ids(gs[k].tabs) /\ Ids(gs[k].tabs) \cap Ids(gs[i].tabs) = {}
        BY <1>2, <1>5, <3>1, <3>3
      <4> QED BY <2>1, <4>1
    <3> QED BY <3>2, <3>3
  <2>3. Ids(ts) \subseteq IdsIn(hs)
    BY <1>5, <2>1
  <2>4. ASSUME NEW x \in IdsIn(gs), x \notin Ids(gs[i].tabs) PROVE x \in IdsIn(hs)
    <3>1. PICK k \in DOMAIN gs : x \in Ids(gs[k].tabs)
      BY <2>1
    <3>2. hs[k] = gs[k]
      BY <1>5, <2>4, <3>1
    <3> QED BY <2>1, <3>1, <3>2
  <2> QED BY <2>2, <2>3, <2>4
<1>15. TabIds(cfg) = IdsIn(gs)
  BY TabIdsIn DEF gs
<1>17. (AtHome(gs) => \A t \in ToSet(ts) : t.group = gs[i].id) => SameGroups(cfg, d)
  BY <1>8, <1>16, <1>18 DEF SameGroups, gs
<1> QED BY <1>13, <1>14, <1>15, <1>17 DEF gs, d

LEMMA GroupOfFacts ==
  ASSUME NEW cfg, Sound(cfg), NEW t \in TabIds(cfg)
  PROVE  /\ GroupOf(cfg, t) \in DOMAIN cfg.groups
         /\ t \in Ids(cfg.groups[GroupOf(cfg, t)].tabs)
         /\ cfg.groups[GroupOf(cfg, t)].id \in Owners
<1>1. \E i \in DOMAIN cfg.groups : t \in Ids(cfg.groups[i].tabs)
  BY DEF TabIds
<1>2. GroupOf(cfg, t) \in DOMAIN cfg.groups /\ t \in Ids(cfg.groups[GroupOf(cfg, t)].tabs)
  BY <1>1 DEF GroupOf
<1>3. GroupsFit(cfg.groups)
  BY DEF Sound, Fits
<1> QED BY <1>2, <1>3, FitGroups

LEMMA Appended ==
  ASSUME NEW T, NEW s \in Seq(T), Distinct(s), NEW x \in T, x.id \notin Ids(s)
  PROVE  /\ Append(s, x) \in Seq(T) /\ Distinct(Append(s, x))
         /\ Ids(Append(s, x)) = Ids(s) \cup {x.id}
<1> DEFINE o == <<x>>
<1>1. o \in Seq(T) /\ ToSet(o) = {x} /\ Distinct(o)
  BY DEF ToSet, Distinct
<1>2. Append(s, x) = s \o o
  OBVIOUS
<1>3. Ids(o) = {x.id}
  BY <1>1 DEF Ids
<1> HIDE DEF o
<1>4. /\ s \o o \in Seq(T) /\ ToSet(s \o o) = ToSet(s) \cup ToSet(o)
      /\ Distinct(s) /\ Distinct(o) /\ Ids(s) \cap Ids(o) = {} => Distinct(s \o o)
  BY <1>1, Joined
<1>5. Ids(s \o o) = Ids(s) \cup Ids(o)
  BY <1>4 DEF Ids
<1> QED BY <1>1, <1>2, <1>3, <1>4, <1>5

LEMMA TabAdded ==
  ASSUME NEW cfg, Sound(cfg), NEW i \in DOMAIN cfg.groups, NEW t \in Tabs, t \notin TabIds(cfg)
  PROVE  LET d == Relisted(cfg, i, Append(cfg.groups[i].tabs,
                                          [id |-> t, group |-> cfg.groups[i].id, name |-> ""]))
         IN /\ Sound(d) /\ d.rev = cfg.rev /\ TabIds(d) = TabIds(cfg) \cup {t}
            /\ SameGroups(cfg, d)
<1> DEFINE gs == cfg.groups
           x == [id |-> t, group |-> gs[i].id, name |-> ""]
           s == gs[i].tabs
           ts == Append(s, x)
<1>1. GroupsFit(gs)
  BY DEF Sound, Fits
<1>2. /\ s \in Seq(Tab) /\ Distinct(s) /\ gs[i].id \in Owners
      /\ \A k \in DOMAIN gs : k # i => Ids(s) \cap Ids(gs[k].tabs) = {}
  BY <1>1, FitGroups
<1>3. x \in Tab /\ x.id = t /\ x.group = gs[i].id
  BY <1>2 DEF Tab
<1>4. \A k \in DOMAIN gs : t \notin Ids(gs[k].tabs)
  BY DEF TabIds
<1>5. t \notin Ids(s) /\ Ids(s) \subseteq TabIds(cfg)
  BY <1>4 DEF TabIds
<1> HIDE DEF x, s
<1>6. ts \in Seq(Tab) /\ Ids(ts) = Ids(s) \cup {t} /\ Distinct(ts)
  BY <1>2, <1>3, <1>5, Appended
<1>10. ToSet(ts) = ToSet(s) \cup {x}
  BY <1>2, <1>3, AppendedSet
<1>11. AtHome(gs) => \A y \in ToSet(ts) : y.group = gs[i].id
  <2> HIDE DEF ts
  <2>1. AtHome(gs) => \A y \in ToSet(s) : y.group = gs[i].id
    BY DEF AtHome, s
  <2> QED BY <1>3, <1>10, <2>1
<1> HIDE DEF ts
<1>7. \A k \in DOMAIN gs : k # i => Ids(ts) \cap Ids(gs[k].tabs) = {}
  BY <1>2, <1>4, <1>6
<1>8. /\ Sound(Relisted(cfg, i, ts)) /\ Relisted(cfg, i, ts).rev = cfg.rev
      /\ TabIds(Relisted(cfg, i, ts)) = (TabIds(cfg) \ Ids(gs[i].tabs)) \cup Ids(ts)
      /\ SameGroups(cfg, Relisted(cfg, i, ts))
  BY <1>6, <1>7, <1>11, EditedGroup
<1>9. TabIds(Relisted(cfg, i, ts)) = TabIds(cfg) \cup {t}
  BY <1>5, <1>6, <1>8 DEF s
<1> QED BY <1>8, <1>9 DEF ts, x, s

(* The one before the tab that goes, or the new first                      *)
LEMMA Neighbour ==
  ASSUME NEW s \in Seq(Tab), NEW k \in DOMAIN s
  PROVE  LET rest == RemoveAt(s, k)
         IN (IF rest = <<>> THEN "" ELSE rest[IF k = 1 THEN 1 ELSE k - 1].id) \in Tabs \cup {""}
<1> DEFINE a == SubSeq(s, 1, k - 1)
           z == SubSeq(s, k + 1, Len(s))
           rest == RemoveAt(s, k)
           n == IF k = 1 THEN 1 ELSE k - 1
<1>1. Len(s) \in Nat /\ k \in 1 .. Len(s) /\ DOMAIN s = 1 .. Len(s)
  OBVIOUS
<1>2. /\ a \in Seq(Tab) /\ Len(a) = k - 1
      /\ z \in Seq(Tab) /\ Len(z) = Len(s) - k
  <2>1. \A i \in 1 .. k - 1 : s[i] \in Tab
    BY <1>1
  <2>2. \A i \in k + 1 .. Len(s) : s[i] \in Tab
    BY <1>1
  <2> QED BY <1>1, <2>1, <2>2
<1>3. rest = a \o z
  BY DEF RemoveAt
<1> HIDE DEF a, z, rest
<1>4. rest \in Seq(Tab) /\ Len(rest) = Len(s) - 1
  <2>1. a \o z \in Seq(Tab) /\ Len(a \o z) = Len(a) + Len(z)
    <3>1. a \in Seq(Tab) /\ z \in Seq(Tab)
      BY <1>2
    <3> QED BY <3>1, ConcatProperties, Zenon
  <2>2. Len(a) + Len(z) = Len(s) - 1
    BY <1>1, <1>2
  <2> QED BY <1>3, <2>1, <2>2
<1>5. CASE rest = <<>>
  BY <1>5 DEF rest
<1>6. CASE rest # <<>>
  <2>1. Len(rest) # 0
    BY <1>4, <1>6
  <2>2. n \in 1 .. Len(rest)
    BY <1>1, <1>4, <2>1
  <2> HIDE DEF n
  <2>3. rest[n] \in Tab
    BY <1>4, <2>2
  <2>4. rest[n].id \in Tabs
    BY <2>3 DEF Tab
  <2> QED BY <1>6, <2>4 DEF n, rest
<1> QED BY <1>5, <1>6

(* Where the tab is in its group                                           *)
Place(cfg, t) == SelectInSeq(cfg.groups[GroupOf(cfg, t)].tabs, LAMBDA x : x.id = t)

LEMMA TabRemoved ==
  ASSUME NEW cfg, Sound(cfg), NEW t \in TabIds(cfg)
  PROVE  LET i == GroupOf(cfg, t)
             at == Place(cfg, t)
             rest == RemoveAt(cfg.groups[i].tabs, at)
             d == Relisted(cfg, i, rest)
             next == IF rest = <<>> THEN "" ELSE rest[IF at = 1 THEN 1 ELSE at - 1].id
         IN /\ Sound(d) /\ d.rev = cfg.rev /\ TabIds(d) = TabIds(cfg) \ {t}
            /\ SameGroups(cfg, d) /\ next \in Tabs \cup {""}
<1> DEFINE i == GroupOf(cfg, t)
           gs == cfg.groups
           s == gs[i].tabs
           at == Place(cfg, t)
           rest == RemoveAt(s, at)
           d == Relisted(cfg, i, rest)
           next == IF rest = <<>> THEN "" ELSE rest[IF at = 1 THEN 1 ELSE at - 1].id
<1>1. GroupsFit(gs)
  BY DEF Sound, Fits
<1> HIDE DEF at
<1>2. i \in DOMAIN gs /\ t \in Ids(s)
  BY GroupOfFacts
<1>12. at = SelectInSeq(s, LAMBDA x : x.id = t)
  BY DEF at, Place
<1> HIDE DEF i
<1>3. /\ s \in Seq(Tab) /\ Distinct(s)
      /\ \A k \in DOMAIN gs : k # i => Ids(s) \cap Ids(gs[k].tabs) = {}
  BY <1>1, <1>2, FitGroups
<1>4. Ids(s) \subseteq TabIds(cfg)
  BY <1>2 DEF TabIds
<1> HIDE DEF s
<1>5. at \in DOMAIN s /\ s[at].id = t
  BY <1>2, <1>3, <1>12, Selected
<1>6. /\ rest \in Seq(Tab) /\ Distinct(rest) /\ Ids(rest) = Ids(s) \ {t}
      /\ ToSet(rest) \subseteq ToSet(s)
  <2>1. /\ RemoveAt(s, at) \in Seq(Tab) /\ Distinct(RemoveAt(s, at))
        /\ Ids(RemoveAt(s, at)) = Ids(s) \ {s[at].id}
        /\ ToSet(RemoveAt(s, at)) \subseteq ToSet(s)
    BY <1>3, <1>5, Removed
  <2> QED BY <1>5, <2>1
<1>11. next \in Tabs \cup {""}
  BY <1>3, <1>5, Neighbour
<1> HIDE DEF rest, next
<1>7. \A k \in DOMAIN gs : k # i => Ids(rest) \cap Ids(gs[k].tabs) = {}
  BY <1>3, <1>6
<1>13. AtHome(gs) => \A y \in ToSet(rest) : y.group = gs[i].id
  <2>1. AtHome(gs) => \A y \in ToSet(s) : y.group = gs[i].id
    BY <1>2 DEF AtHome, s
  <2> QED BY <1>6, <2>1
<1>8. /\ Sound(d) /\ d.rev = cfg.rev
      /\ TabIds(d) = (TabIds(cfg) \ Ids(gs[i].tabs)) \cup Ids(rest)
      /\ SameGroups(cfg, d)
  BY <1>2, <1>6, <1>7, <1>13, EditedGroup
<1> HIDE DEF d
<1>9. TabIds(d) = TabIds(cfg) \ {t}
  BY <1>2, <1>4, <1>6, <1>8 DEF s
<1>10. Sound(d) /\ d.rev = cfg.rev /\ TabIds(d) = TabIds(cfg) \ {t} /\ SameGroups(cfg, d)
  BY <1>8, <1>9
<1> QED BY <1>10, <1>11 DEF d, next, rest, at, s, i

LEMMA TabNamed ==
  ASSUME NEW cfg, Sound(cfg), NEW t \in TabIds(cfg), NEW n \in Names
  PROVE  /\ Sound(SetName(cfg, t, n)) /\ SetName(cfg, t, n).rev = cfg.rev
         /\ TabIds(SetName(cfg, t, n)) = TabIds(cfg) /\ SameGroups(cfg, SetName(cfg, t, n))
<1> DEFINE i == GroupOf(cfg, t)
           gs == cfg.groups
           s == gs[i].tabs
           ts == [j \in DOMAIN s |-> IF s[j].id = t THEN [s[j] EXCEPT !.name = n] ELSE s[j]]
<1>1. GroupsFit(gs)
  BY DEF Sound, Fits
<1>2. i \in DOMAIN gs /\ t \in Ids(s)
  BY GroupOfFacts
<1> HIDE DEF i
<1>3. /\ s \in Seq(Tab) /\ Distinct(s)
      /\ \A k \in DOMAIN gs : k # i => Ids(s) \cap Ids(gs[k].tabs) = {}
  BY <1>1, <1>2, FitGroups
<1>4. SetName(cfg, t, n) = Relisted(cfg, i, ts)
  BY DEF SetName, Relisted, i
<1> HIDE DEF s
<1>5. ASSUME NEW j \in DOMAIN s PROVE ts[j] \in Tab /\ ts[j].id = s[j].id
  <2>1. s[j] \in Tab
    BY <1>3
  <2> QED BY <2>1 DEF Tab
<1>11. \A j \in DOMAIN s : ts[j].group = s[j].group
  <2>1. \A j \in DOMAIN s : s[j] \in Tab
    BY <1>3
  <2> QED BY <2>1 DEF Tab
<1>6. ts = [j \in DOMAIN s |-> ts[j]]
  OBVIOUS
<1> HIDE DEF ts
<1>7. /\ ts \in Seq(Tab) /\ Ids(ts) = Ids(s) /\ (Distinct(s) => Distinct(ts))
      /\ DOMAIN ts = DOMAIN s
  BY <1>3, <1>5, <1>6, Renewed
<1>12. AtHome(gs) => \A y \in ToSet(ts) : y.group = gs[i].id
  <2>1. AtHome(gs) => \A y \in ToSet(s) : y.group = gs[i].id
    BY <1>2 DEF AtHome, s
  <2> QED BY <1>7, <1>11, <2>1 DEF ToSet
<1>8. \A k \in DOMAIN gs : k # i => Ids(ts) \cap Ids(gs[k].tabs) = {}
  BY <1>3, <1>7
<1> DEFINE d == SetName(cfg, t, n)
<1>9. /\ Sound(d) /\ d.rev = cfg.rev
      /\ TabIds(d) = (TabIds(cfg) \ Ids(gs[i].tabs)) \cup Ids(ts)
      /\ SameGroups(cfg, d)
  <2> HIDE DEF d
  <2>1. d = Relisted(cfg, i, ts)
    BY <1>4 DEF d
  <2> QED BY <1>2, <1>3, <1>7, <1>8, <1>12, <2>1, EditedGroup
<1>10. Ids(s) \subseteq TabIds(cfg)
  BY <1>2 DEF TabIds, s
<1> QED BY <1>7, <1>9, <1>10 DEF s

LEMMA GroupFolded ==
  ASSUME NEW cfg, Sound(cfg), NEW i \in DOMAIN cfg.groups,
         NEW d, d = [cfg EXCEPT !.groups[i].folded = ~@]
  PROVE  Sound(d) /\ d.rev = cfg.rev /\ TabIds(d) = TabIds(cfg) /\ SameGroups(cfg, d)
<1> DEFINE gs == cfg.groups
           g == [gs[i] EXCEPT !.folded = ~gs[i].folded]
           hs == [k \in DOMAIN gs |-> IF k = i THEN g ELSE gs[k]]
<1>1. cfg \in Doc /\ GroupsFit(gs) /\ gs # <<>>
  BY DEF Sound, Fits
<1>2. \A k \in DOMAIN gs : gs[k] \in Group /\ Distinct(gs[k].tabs)
  BY <1>1, FitGroups
<1>3. d = [cfg EXCEPT !.groups = hs]
  <2>1. hs = [gs EXCEPT ![i] = g]
    OBVIOUS
  <2>2. d = [cfg EXCEPT !.groups = [gs EXCEPT ![i] = g]]
    OBVIOUS
  <2> HIDE DEF hs
  <2> QED BY <2>1, <2>2
<1>4. g \in Group /\ g.id = gs[i].id /\ g.tabs = gs[i].tabs
  <2>1. gs[i] \in Group
    BY <1>2
  <2> QED BY <2>1 DEF Group
<1> HIDE DEF g
<1>5. /\ hs = [k \in DOMAIN gs |-> hs[k]]
      /\ \A k \in DOMAIN gs : /\ hs[k] \in Group /\ hs[k].id = gs[k].id /\ hs[k].tabs = gs[k].tabs
                              /\ Distinct(hs[k].tabs) /\ Ids(hs[k].tabs) \subseteq Ids(gs[k].tabs)
  BY <1>2, <1>4
<1> HIDE DEF gs, hs
<1>6. /\ GroupsFit(hs) /\ Len(hs) = Len(gs) /\ DOMAIN hs = DOMAIN gs /\ Ids(hs) = Ids(gs)
      /\ IdsIn(hs) = UNION {Ids(hs[k].tabs) : k \in DOMAIN gs}
  BY <1>1, <1>5, Regrouped
<1>7. IdsIn(hs) = IdsIn(gs)
  BY <1>5, <1>6 DEF IdsIn
<1>8. hs # <<>>
  <2>1. gs \in Seq(Group)
    BY <1>1 DEF GroupsFit
  <2>2. Len(hs) # 0 /\ Len(<<>>) = 0
    BY <1>1, <1>6, <2>1
  <2> QED BY <2>2
<1>9. Sound(d) /\ d.rev = cfg.rev /\ TabIds(d) = IdsIn(hs)
  BY <1>3, <1>6, <1>8, WithGroups
<1>12. d.groups = hs
  BY <1>1, <1>3 DEF Doc
<1>10. AtHome(gs) => AtHome(hs)
  BY <1>5, <1>6 DEF AtHome
<1>11. SameGroups(cfg, d)
  BY <1>6, <1>10, <1>12 DEF SameGroups, gs
<1> QED BY <1>7, <1>9, <1>11, TabIdsIn DEF gs

LEMMA TabMoved ==
  ASSUME NEW cfg, Sound(cfg), NEW move, NEW d,
         d = [cfg EXCEPT !.groups = MoveInGroups(cfg.groups, move)]
  PROVE  Sound(d) /\ d.rev = cfg.rev /\ TabIds(d) = TabIds(cfg) /\ SameGroups(cfg, d)
<1> DEFINE gs == cfg.groups
           hs == MoveInGroups(gs, move)
<1>1. cfg \in Doc /\ GroupsFit(gs) /\ gs # <<>>
  BY DEF Sound, Fits
<1>2. /\ GroupsFit(hs) /\ Len(hs) = Len(gs) /\ IdsIn(hs) = IdsIn(gs)
      /\ Ids(hs) = Ids(gs) /\ (AtHome(gs) => AtHome(hs))
  BY <1>1, MovedInGroups
<1>3. d = [cfg EXCEPT !.groups = hs]
  OBVIOUS
<1> HIDE DEF hs
<1>4. hs # <<>>
  <2>1. gs \in Seq(Group)
    BY <1>1 DEF GroupsFit
  <2>2. Len(hs) # 0 /\ Len(<<>>) = 0
    BY <1>1, <1>2, <2>1
  <2> QED BY <2>2
<1>5. Sound(d) /\ d.rev = cfg.rev /\ TabIds(d) = IdsIn(hs)
  BY <1>2, <1>3, <1>4, WithGroups
<1>7. d.groups = hs
  BY <1>1, <1>3 DEF Doc
<1>6. SameGroups(cfg, d)
  BY <1>2, <1>7 DEF SameGroups
<1> QED BY <1>2, <1>5, <1>6, TabIdsIn

-----------------------------------------------------------------------------
(***************************************************************************)
(* The first documents                                                     *)
(***************************************************************************)
LEMMA OneGroup ==
  ASSUME NEW g \in Group, Distinct(g.tabs), NEW d, d \in Doc, d.groups = <<g>>
  PROVE  /\ Sound(d) /\ TabIds(d) = Ids(g.tabs)
         /\ (\A t \in ToSet(g.tabs) : t.group = g.id) => AtHome(d.groups)
<1> DEFINE gs == <<g>>
<1>1. gs \in Seq(Group) /\ DOMAIN gs = {1} /\ gs[1] = g /\ gs # <<>>
  OBVIOUS
<1> HIDE DEF gs
<1>2. Distinct(gs)
  BY <1>1 DEF Distinct
<1>3. TabsOnce(gs)
  <2> DEFINE v == Lists(gs)
  <2>1. DOMAIN v = {1} /\ v[1] = g.tabs
    BY <1>1 DEF Lists
  <2> HIDE DEF v
  <2>2. Apart(v)
    BY <2>1 DEF Apart
  <2> QED BY <2>2 DEF TabsOnce, v
<1>4. d.groups = gs
  BY DEF gs
<1>5. TabIds(d) = Ids(g.tabs)
  BY <1>1, <1>4 DEF TabIds
<1>6. (\A t \in ToSet(g.tabs) : t.group = g.id) => AtHome(gs)
  BY <1>1 DEF AtHome
<1> QED BY <1>1, <1>2, <1>3, <1>4, <1>5, <1>6 DEF Sound, Fits, GroupsFit

LEMMA DefaultIsSound ==
  ASSUME NEW b \in Browsers
  PROVE  /\ Sound(DefaultConfig(b)) /\ TabIds(DefaultConfig(b)) = {}
         /\ AtHome(DefaultConfig(b).groups)
<1> DEFINE g == [id |-> b, folded |-> FALSE, tabs |-> <<>>]
           d == DefaultConfig(b)
<1>1. b \in Owners
  BY DEF Owners
<1>2. g \in Group /\ g.tabs = <<>>
  BY <1>1 DEF Group
<1>3. d.groups = <<g>> /\ d \in Doc
  <2>1. <<g>> \in Seq(Group)
    BY <1>2
  <2> QED BY <1>1, <2>1 DEF DefaultConfig, Doc
<1>4. Distinct(<<>>) /\ Ids(<<>>) = {} /\ ToSet(<<>>) = {}
  BY DEF Distinct, Ids, ToSet
<1> HIDE DEF g, d
<1>5. Sound(d) /\ TabIds(d) = Ids(g.tabs) /\ AtHome(d.groups)
  BY <1>2, <1>3, <1>4, OneGroup
<1> QED BY <1>2, <1>4, <1>5 DEF d

(* The tabs of the document that the server starts with                    *)
LEMMA FirstTabsListed ==
  LET T == {[id |-> t, group |-> "g", name |-> ""] : t \in FirstTabs}
      s == SetToSeq(T)
  IN /\ s \in Seq(Tab) /\ Distinct(s) /\ Ids(s) \subseteq FirstTabs
     /\ \A x \in ToSet(s) : x.group = "g"
<1> DEFINE T == {[id |-> t, group |-> "g", name |-> ""] : t \in FirstTabs}
           s == SetToSeq(T)
           n == Cardinality(T)
<1>1. FirstTabs \subseteq Tabs /\ IsFiniteSet(FirstTabs)
  BY WorkbenchAssumption
<1>11. \A x \in T : x.id \in FirstTabs /\ x = [id |-> x.id, group |-> "g", name |-> ""]
  <2>1. SUFFICES ASSUME NEW x \in T
                 PROVE  x.id \in FirstTabs /\ x = [id |-> x.id, group |-> "g", name |-> ""]
    OBVIOUS
  <2>2. PICK t \in FirstTabs : x = [id |-> t, group |-> "g", name |-> ""]
    BY Zenon
  <2>3. x.id = t
    BY <2>2
  <2> QED BY <2>2, <2>3
<1>2. T \subseteq Tab
  <2>1. \A t \in Tabs : [id |-> t, group |-> "g", name |-> ""] \in Tab
    BY DEF Tab, Owners
  <2> HIDE DEF T
  <2> QED BY <1>1, <1>11, <2>1, Zenon
<1>12. \A x \in T : x.group = "g"
  <2>1. \A t : [id |-> t, group |-> "g", name |-> ""].group = "g"
    OBVIOUS
  <2> HIDE DEF T
  <2> QED BY <1>11, <2>1, Zenon
<1>3. \A x, y \in T : x.id = y.id => x = y
  <2> HIDE DEF T
  <2> QED BY <1>11, Zenon
<1>4. \A x \in T : x.id \in FirstTabs
  BY <1>11
<1>5. IsFiniteSet(T)
  <2> DEFINE f == [t \in FirstTabs |-> [id |-> t, group |-> "g", name |-> ""]]
  <2>1. f \in Surjection(FirstTabs, T)
    <3>1. f \in [FirstTabs -> T] /\ \A x \in T : \E t \in FirstTabs : f[t] = x
      OBVIOUS
    <3> HIDE DEF f, T
    <3> QED BY <3>1 DEF Surjection
  <2> HIDE DEF f, T
  <2> QED BY <1>1, <2>1, FS_Surjection
<1> HIDE DEF T
<1>6. n \in Nat /\ \E f \in [1 .. n -> T] : IsInjective(f)
  <2>1. n \in Nat /\ ExistsBijection(1 .. n, T)
    BY <1>5, FS_CardinalityType
  <2>2. PICK f : f \in Bijection(1 .. n, T)
    BY <2>1 DEF ExistsBijection
  <2> HIDE DEF n
  <2>3. f \in [1 .. n -> T] /\ IsInjective(f)
    BY <2>2 DEF Bijection, Injection
  <2> QED BY <2>1, <2>3
<1>7. s \in [1 .. n -> T] /\ IsInjective(s)
  BY <1>6 DEF SetToSeq
<1> HIDE DEF n, s
<1>8. DOMAIN s = 1 .. n /\ (\A i \in 1 .. n : s[i] \in T) /\ s \in Seq(Tab)
  BY <1>2, <1>6, <1>7
<1>9. Distinct(s)
  <2>1. \A i, j \in 1 .. n : s[i] = s[j] => i = j
    BY <1>7, <1>8 DEF IsInjective
  <2> QED BY <1>3, <1>8, <2>1 DEF Distinct
<1>10. Ids(s) \subseteq FirstTabs
  BY <1>4, <1>8 DEF Ids, ToSet
<1>13. \A x \in ToSet(s) : x.group = "g"
  BY <1>8, <1>12 DEF ToSet
<1> QED BY <1>8, <1>9, <1>10, <1>13 DEF s, T
-----------------------------------------------------------------------------
(***************************************************************************)
(* The protocol, by the tabs that the documents of a page hold.  The       *)
(* definitions take the state apart (srv the server's document, rm, op and *)
(* db the tabs removed, opened and doubtful, cl those this page closed),   *)
(* so that the two halves of an action can be taken one after the other.   *)
(***************************************************************************)
Move == [group : Owners, tab : Tabs, before : Tabs \cup {""}]
PageFields == {"config", "baseline", "hydrated", "moves", "timer", "put", "pending",
               "read", "unsaved"}

Now(p) == TabIds(p.config)
Base(p) == TabIds(p.baseline)
Out(p) == IF p.put = NoPut THEN {} ELSE TabIds(p.put.out)
Met(p) == IF p.put = NoPut THEN {} ELSE TabIds(p.put.current)
Got(p) == IF p.read.kind = "resync" THEN TabIds(p.read.got) ELSE {}
Saves(p) == p.put.kind = "saved"
InTime(p) == p.read.kind = "resync" /\ p.read.base = p.baseline

(* What the documents of a page are                                        *)
Holds(p) ==
  /\ DOMAIN p = PageFields /\ p.hydrated \in BOOLEAN /\ p.moves \in Seq(Move)
  /\ p.config = NoDoc \/ Sound(p.config)
  /\ p.hydrated => /\ Sound(p.config) /\ Sound(p.baseline)
                   /\ p.config.rev = p.baseline.rev /\ p.config.rev > 0
  /\ ~p.hydrated => p.baseline = NoDoc /\ p.put = NoPut
  /\ p.read.kind = "load" => p.config = NoDoc
  /\ p.config = NoDoc => p.read.kind = "load" /\ p.moves = <<>>
  /\ p.put # NoPut => /\ Sound(p.put.out) /\ Sound(p.put.current) /\ p.put.rev \in Nat
                      /\ p.put.count \in 0 .. Len(p.moves)
  /\ p.read.kind = "resync" => Sound(p.read.got) /\ Fits(p.read.base) /\ p.read.got.rev > 0

(* A document the server has or had: what it has no more was removed.      *)
Agrees(rev, tabs, srv, rm) ==
  /\ rev <= srv.rev /\ (rev = srv.rev => tabs = TabIds(srv))
  /\ tabs \ TabIds(srv) \subseteq rm

(* No list lost a tab that nobody removed.                                 *)
Follows(p, srv, rm) ==
  /\ p.hydrated => Agrees(p.baseline.rev, Base(p), srv, rm) /\ Base(p) \ Now(p) \subseteq rm
  /\ p.put # NoPut => /\ Agrees(p.put.current.rev, Met(p), srv, rm) /\ Base(p) \ Met(p) \subseteq rm
                      /\ Out(p) \ Now(p) \subseteq rm
  /\ p.put.kind = "conflict" => p.put.current.rev > p.baseline.rev
  /\ Saves(p) => Agrees(p.put.rev, Out(p), srv, rm) /\ p.put.rev > p.baseline.rev
  /\ p.read.kind = "resync" => /\ Agrees(p.read.got.rev, Got(p), srv, rm)
                               /\ p.read.base.rev <= p.baseline.rev
                               /\ TabIds(p.read.base) \ Got(p) \subseteq rm

(* What was closed here is not shown, and where it is still listed, the    *)
(* base has it, so that the merge knows that it went.                      *)
ClosedHere(p, srv, cl, db) ==
  /\ (cl \ db) \cap Now(p) = {}
  /\ (cl \ db) \cap TabIds(srv) \subseteq Base(p) \cup (IF Saves(p) THEN Out(p) ELSE {})
  /\ p.put.kind = "conflict" => (cl \ db) \cap Met(p) \subseteq Base(p)
  /\ InTime(p) => (cl \ db) \cap Got(p) \subseteq Base(p)

(* What the base has and the server still lists is in what the page read   *)
(* or wrote since: it has not gone and come back.                          *)
NoReturn(p, srv, db) ==
  /\ p.put.kind = "conflict" => (Base(p) \cap TabIds(srv)) \ db \subseteq Met(p)
  /\ Saves(p) => (Base(p) \cap TabIds(srv)) \ db \subseteq Out(p)
  /\ InTime(p) => (Base(p) \cap TabIds(srv)) \ db \subseteq Got(p)
  /\ p.put # NoPut => Now(p) \cap Base(p) \subseteq Out(p)

(* A tab opened here and not stored yet is nowhere else.                   *)
Fresh(p, db) == Now(p) \ (Base(p) \cup db)
Unsaved(p, db) == Fresh(p, db) \ (IF Saves(p) THEN Out(p) ELSE {})
FreshIsNew(p, srv, db) ==
  /\ Fresh(p, db) \cap (Got(p) \cup Met(p)) = {}
  /\ Unsaved(p, db) \cap TabIds(srv) = {}

Touched(p, cl) == cl \cup Now(p) \cup Base(p) \cup Out(p) \cup Met(p) \cup Got(p)

Own(p, srv, op, rm, cl, db) ==
  /\ Holds(p) /\ Follows(p, srv, rm) /\ ClosedHere(p, srv, cl, db)
  /\ NoReturn(p, srv, db) /\ FreshIsNew(p, srv, db) /\ Touched(p, cl) \subseteq op

Kept(pg, srv, op, rm, cl, db) ==
  /\ Sound(srv) /\ srv.rev > 0 /\ TabIds(srv) \subseteq op
  /\ pg = [b \in Browsers |-> pg[b]] /\ cl = [b \in Browsers |-> cl[b]]
  /\ \A b \in Browsers : Own(pg[b], srv, op, rm, cl[b], db)
  /\ \A b, c \in Browsers : b # c => Unsaved(pg[b], db) \cap Touched(pg[c], cl[c]) = {}

ListInv == Kept(page, server, opened, removed, closed, doubtful)

(* One page changes, and the server does not.                              *)
LEMMA LocalStep ==
  ASSUME NEW pg, NEW srv, NEW op, NEW rm, NEW cl, NEW db, Kept(pg, srv, op, rm, cl, db),
         NEW b \in Browsers, NEW q, NEW x, NEW op2, NEW rm2,
         op \subseteq op2, rm \subseteq rm2, Own(q, srv, op2, rm2, x, db),
         Unsaved(q, db) \subseteq Unsaved(pg[b], db) \cup (op2 \ op),
         Touched(q, x) \subseteq Touched(pg[b], cl[b]) \cup TabIds(srv) \cup (op2 \ op)
  PROVE  Kept([pg EXCEPT ![b] = q], srv, op2, rm2, [cl EXCEPT ![b] = x], db)
<1> DEFINE pg2 == [pg EXCEPT ![b] = q]
           cl2 == [cl EXCEPT ![b] = x]
<1>1. /\ pg = [c \in Browsers |-> pg[c]] /\ cl = [c \in Browsers |-> cl[c]]
      /\ \A c \in Browsers : Own(pg[c], srv, op, rm, cl[c], db)
      /\ \A c, d \in Browsers : c # d => Unsaved(pg[c], db) \cap Touched(pg[d], cl[d]) = {}
      /\ Sound(srv) /\ srv.rev > 0 /\ TabIds(srv) \subseteq op
  BY DEF Kept
<1>2. /\ pg2 = [c \in Browsers |-> pg2[c]] /\ cl2 = [c \in Browsers |-> cl2[c]]
      /\ pg2[b] = q /\ cl2[b] = x
      /\ \A c \in Browsers : c # b => pg2[c] = pg[c] /\ cl2[c] = cl[c]
  BY <1>1
<1> HIDE DEF pg2, cl2
<1>3. ASSUME NEW c \in Browsers PROVE Own(pg2[c], srv, op2, rm2, cl2[c], db)
  <2>1. CASE c = b
    BY <1>2, <2>1
  <2>2. CASE c # b
    <3> DEFINE p == pg[c]
               y == cl[c]
    <3>1. pg2[c] = p /\ cl2[c] = y /\ Own(p, srv, op, rm, y, db)
      BY <1>1, <1>2, <2>2
    <3> HIDE DEF p, y
    <3>2. Follows(p, srv, rm2)
      BY <3>1 DEF Own, Follows, Agrees
    <3>3. Touched(p, y) \subseteq op2
      BY <3>1 DEF Own
    <3> QED BY <3>1, <3>2, <3>3 DEF Own
  <2> QED BY <2>1, <2>2
<1>4. \A c \in Browsers : Unsaved(pg[c], db) \subseteq Touched(pg[c], cl[c])
  BY DEF Unsaved, Fresh, Touched
<1>5. \A c \in Browsers : Touched(pg[c], cl[c]) \subseteq op
  BY <1>1 DEF Own
<1>6. \A c \in Browsers : Unsaved(pg[c], db) \cap TabIds(srv) = {}
  BY <1>1 DEF Own, FreshIsNew
<1>7. ASSUME NEW c \in Browsers, NEW d \in Browsers, c # d
      PROVE  Unsaved(pg2[c], db) \cap Touched(pg2[d], cl2[d]) = {}
  <2>1. CASE c = b
    <3>1. pg2[c] = q /\ pg2[d] = pg[d] /\ cl2[d] = cl[d]
      BY <1>2, <1>7, <2>1
    <3>2. Unsaved(pg[b], db) \cap Touched(pg[d], cl[d]) = {} /\ Touched(pg[d], cl[d]) \subseteq op
      BY <1>1, <1>5, <1>7, <2>1
    <3> QED BY <3>1, <3>2
  <2>2. CASE d = b
    <3>1. pg2[d] = q /\ cl2[d] = x /\ pg2[c] = pg[c]
      BY <1>2, <1>7, <2>2
    <3>2. /\ Unsaved(pg[c], db) \cap Touched(pg[b], cl[b]) = {}
          /\ Unsaved(pg[c], db) \subseteq op /\ Unsaved(pg[c], db) \cap TabIds(srv) = {}
      BY <1>1, <1>4, <1>5, <1>6, <1>7, <2>2
    <3> QED BY <3>1, <3>2
  <2>3. CASE c # b /\ d # b
    BY <1>1, <1>2, <1>7, <2>3
  <2> QED BY <2>1, <2>2, <2>3
<1>8. TabIds(srv) \subseteq op2
  BY <1>1
<1> QED BY <1>1, <1>2, <1>3, <1>7, <1>8 DEF Kept, pg2, cl2

(* The page's list becomes the server's: it had read the one it replaces.  *)
Rewrites(p, q, srv, srv2, op, rm, cl, db, db2) ==
  /\ db \subseteq db2 /\ p.hydrated /\ p.put = NoPut /\ p.baseline.rev = srv.rev
  /\ Sound(srv2) /\ srv2.rev = srv.rev + 1 /\ TabIds(srv2) = Now(p)
  /\ Own(q, srv2, op, rm, cl, db2) /\ Unsaved(q, db2) = {}
  /\ Touched(q, cl) \subseteq Touched(p, cl) \cup TabIds(srv)

LEMMA WriteStep ==
  ASSUME NEW pg, NEW srv, NEW op, NEW rm, NEW cl, NEW db, Kept(pg, srv, op, rm, cl, db),
         NEW b \in Browsers, NEW q, NEW srv2, NEW db2,
         Rewrites(pg[b], q, srv, srv2, op, rm, cl[b], db, db2)
  PROVE  /\ Kept([pg EXCEPT ![b] = q], srv2, op, rm, cl, db2)
         /\ TabIds(srv) \ TabIds(srv2) \subseteq rm
<1>0. /\ db \subseteq db2 /\ pg[b].hydrated /\ pg[b].put = NoPut /\ pg[b].baseline.rev = srv.rev
      /\ Sound(srv2) /\ srv2.rev = srv.rev + 1 /\ TabIds(srv2) = Now(pg[b])
      /\ Own(q, srv2, op, rm, cl[b], db2) /\ Unsaved(q, db2) = {}
      /\ Touched(q, cl[b]) \subseteq Touched(pg[b], cl[b]) \cup TabIds(srv)
  BY DEF Rewrites
<1> DEFINE pg2 == [pg EXCEPT ![b] = q]
           w == pg[b]
           S == TabIds(srv)
           S2 == TabIds(srv2)
<1>1. /\ pg = [c \in Browsers |-> pg[c]] /\ cl = [c \in Browsers |-> cl[c]]
      /\ \A c \in Browsers : Own(pg[c], srv, op, rm, cl[c], db)
      /\ \A c, d \in Browsers : c # d => Unsaved(pg[c], db) \cap Touched(pg[d], cl[d]) = {}
      /\ Sound(srv) /\ srv.rev > 0 /\ S \subseteq op
  BY DEF Kept
<1>2. /\ pg2 = [c \in Browsers |-> pg2[c]] /\ pg2[b] = q
      /\ \A c \in Browsers : c # b => pg2[c] = pg[c]
  BY <1>1
<1> HIDE DEF pg2
<1>3. Own(w, srv, op, rm, cl[b], db)
  BY <1>1
<1>4. srv.rev \in Nat /\ srv2.rev \in Nat /\ srv2.rev > 0
  <2>1. srv.rev \in Nat
    BY <1>1 DEF Sound, Fits, Doc
  <2> QED BY <1>0, <2>1
<1> HIDE DEF w, S, S2
<1>5. S2 = Now(w) /\ Base(w) = S /\ S \ S2 \subseteq rm /\ ~Saves(w)
  <2>1. w.hydrated /\ w.put = NoPut /\ w.baseline.rev = srv.rev /\ S2 = Now(w)
    BY <1>0 DEF w, S2
  <2>2. Base(w) = S /\ Base(w) \ Now(w) \subseteq rm
    BY <1>3, <2>1 DEF Own, Follows, Agrees, S
  <2>3. ~Saves(w)
    BY <2>1 DEF Saves, NoPut
  <2> QED BY <2>1, <2>2, <2>3
<1>6. S2 \ S \subseteq Unsaved(w, db) \cup db /\ S2 \subseteq op
  <2>1. Touched(w, cl[b]) \subseteq op
    BY <1>3 DEF Own
  <2> QED BY <1>5, <2>1 DEF Unsaved, Fresh, Touched
<1>7. ASSUME NEW c \in Browsers, c # b
      PROVE  /\ Own(pg[c], srv2, op, rm, cl[c], db2)
             /\ Unsaved(pg[c], db2) \cap S2 = {}
  <2> DEFINE p == pg[c]
             y == cl[c]
  <2>1. Own(p, srv, op, rm, y, db) /\ Unsaved(w, db) \cap Touched(p, y) = {}
    BY <1>1, <1>7 DEF w
  <2>2. Unsaved(p, db) \cap Touched(w, cl[b]) = {}
    BY <1>1, <1>7 DEF w
  <2> HIDE DEF p, y
  <2>3. Holds(p) /\ Touched(p, y) \subseteq op
    BY <2>1 DEF Own
  <2>4. /\ p.hydrated => p.baseline.rev \in Nat
        /\ p.put # NoPut => p.put.current.rev \in Nat /\ p.put.rev \in Nat
        /\ p.read.kind = "resync" => p.read.got.rev \in Nat
    BY <2>3 DEF Holds, Sound, Fits, Doc
  <2>5. \A r \in Nat : \A T : Agrees(r, T, srv, rm) => Agrees(r, T, srv2, rm)
    <3>1. SUFFICES ASSUME NEW r \in Nat, NEW T, Agrees(r, T, srv, rm)
                   PROVE  Agrees(r, T, srv2, rm)
      OBVIOUS
    <3>2. r <= srv2.rev /\ r # srv2.rev
      BY <1>0, <1>4, <3>1 DEF Agrees
    <3>3. T \ S2 \subseteq rm
      BY <1>5, <3>1 DEF Agrees, S
    <3> QED BY <3>2, <3>3 DEF Agrees, S2
  <2>6. Follows(p, srv, rm)
    BY <2>1 DEF Own
  <2>7. Follows(p, srv2, rm)
    <3>1. Saves(p) => p.put # NoPut
      BY DEF Saves, NoPut
    <3> HIDE DEF Agrees
    <3> QED BY <2>4, <2>5, <2>6, <3>1 DEF Follows
  <2>8. S2 \cap Touched(p, y) \subseteq S \cup db
    BY <1>6, <2>1
  <2>9. ClosedHere(p, srv2, y, db2)
    <3>1. ClosedHere(p, srv, y, db)
      BY <2>1 DEF Own
    <3>2. y \subseteq Touched(p, y)
      BY DEF Touched
    <3>3. (y \ db2) \cap TabIds(srv2) \subseteq (y \ db) \cap TabIds(srv)
      BY <1>0, <2>8, <3>2 DEF S, S2
    <3> QED BY <1>0, <3>1, <3>3 DEF ClosedHere
  <2>10. NoReturn(p, srv2, db2)
    <3>1. NoReturn(p, srv, db)
      BY <2>1 DEF Own
    <3>2. Base(p) \subseteq Touched(p, y)
      BY DEF Touched
    <3>3. (Base(p) \cap TabIds(srv2)) \ db2 \subseteq (Base(p) \cap TabIds(srv)) \ db
      BY <1>0, <2>8, <3>2 DEF S, S2
    <3> QED BY <1>0, <3>1, <3>3 DEF NoReturn
  <2>11. Unsaved(p, db2) \subseteq Unsaved(p, db) /\ Fresh(p, db2) \subseteq Fresh(p, db)
    BY <1>0 DEF Unsaved, Fresh
  <2>12. Unsaved(p, db2) \cap S2 = {}
    <3>1. S2 \subseteq Touched(w, cl[b])
      BY <1>5 DEF Touched
    <3> QED BY <2>2, <2>11, <3>1
  <2>13. FreshIsNew(p, srv2, db2)
    <3>1. FreshIsNew(p, srv, db)
      BY <2>1 DEF Own
    <3> QED BY <2>11, <2>12, <3>1 DEF FreshIsNew, S2
  <2>14. Own(p, srv2, op, rm, y, db2)
    BY <2>3, <2>7, <2>9, <2>10, <2>13 DEF Own
  <2> QED BY <2>12, <2>14 DEF p, y
<1>8. \A c \in Browsers : Own(pg2[c], srv2, op, rm, cl[c], db2)
  <2>1. Own(q, srv2, op, rm, cl[b], db2)
    BY <1>0
  <2> QED BY <1>2, <1>7, <2>1
<1>9. ASSUME NEW c \in Browsers, NEW d \in Browsers, c # d
      PROVE  Unsaved(pg2[c], db2) \cap Touched(pg2[d], cl[d]) = {}
  <2>1. CASE c = b
    BY <1>0, <1>2, <2>1
  <2>2. CASE c # b
    <3>1. Unsaved(pg[c], db2) \subseteq Unsaved(pg[c], db) /\ pg2[c] = pg[c]
      BY <1>0, <1>2, <2>2 DEF Unsaved, Fresh
    <3>2. Unsaved(pg[c], db) \cap S = {}
      BY <1>1 DEF Own, FreshIsNew, S
    <3>3. CASE d = b
      <4>1. Touched(pg2[d], cl[d]) \subseteq Touched(pg[b], cl[b]) \cup S
        BY <1>0, <1>2, <3>3 DEF S
      <4>2. Unsaved(pg[c], db) \cap Touched(pg[b], cl[b]) = {}
        BY <1>1, <2>2
      <4> QED BY <3>1, <3>2, <4>1, <4>2
    <3>4. CASE d # b
      <4>1. Unsaved(pg[c], db) \cap Touched(pg[d], cl[d]) = {}
        BY <1>1, <1>9
      <4> QED BY <1>2, <3>1, <3>4, <4>1
    <3> QED BY <3>3, <3>4
  <2> QED BY <2>1, <2>2
<1>10. Kept(pg2, srv2, op, rm, cl, db2)
  <2>1. Sound(srv2) /\ TabIds(srv2) \subseteq op
    BY <1>0, <1>6 DEF S2
  <2> QED BY <1>1, <1>2, <1>4, <1>8, <1>9, <2>1 DEF Kept
<1> QED BY <1>5, <1>10 DEF pg2, S, S2

(* What a page may turn into, and the state remain what it should be       *)
Turns(p, q, x, y, srv, op, op2, rm2, db) ==
  /\ Own(q, srv, op2, rm2, y, db)
  /\ Unsaved(q, db) \subseteq Unsaved(p, db) \cup (op2 \ op)
  /\ Touched(q, y) \subseteq Touched(p, x) \cup TabIds(srv) \cup (op2 \ op)

LEMMA Nothing ==
  /\ Fits(NoDoc) /\ TabIds(NoDoc) = {} /\ NoDoc.rev = 0 /\ ~Sound(NoDoc)
  /\ NoPut.kind = "none" /\ NoRead.kind = "none"
<1>1. NoDoc.rev = 0 /\ NoDoc.groups = <<>> /\ NoPut.kind = "none" /\ NoRead.kind = "none"
  BY DEF NoDoc, NoPut, NoRead
<1>2. NoDoc \in Doc
  BY DEF NoDoc, Doc
<1>3. GroupsFit(<<>>)
  <2>1. <<>> \in Seq(Group) /\ DOMAIN <<>> = {}
    OBVIOUS
  <2>2. DOMAIN Lists(<<>>) = {}
    BY <2>1 DEF Lists
  <2> QED BY <2>1, <2>2 DEF GroupsFit, Distinct, TabsOnce, Apart
<1>4. TabIds(NoDoc) = {}
  BY <1>1 DEF TabIds
<1> QED BY <1>1, <1>2, <1>3, <1>4 DEF Fits, Sound

(* The list is read: here and on the server it is the same.                *)
LEMMA PageLoads ==
  ASSUME NEW p, NEW srv, NEW op, NEW rm, NEW cl, NEW db, Own(p, srv, op, rm, cl, db),
         Sound(srv), srv.rev > 0, TabIds(srv) \subseteq op, p.read.kind = "load",
         NEW q, q = [p EXCEPT !.config = srv, !.baseline = srv, !.hydrated = TRUE, !.read = NoRead]
  PROVE  Turns(p, q, cl, cl, srv, op, op, rm, db)
<1>1. Holds(p) /\ ClosedHere(p, srv, cl, db) /\ Touched(p, cl) \subseteq op
  BY DEF Own
<1>2. DOMAIN p = PageFields /\ p.config = NoDoc /\ ~p.hydrated /\ p.put = NoPut
      /\ p.baseline = NoDoc
  BY <1>1, Nothing DEF Holds
<1>3. /\ DOMAIN q = PageFields /\ q.hydrated = TRUE /\ q.moves = p.moves /\ q.config = srv
      /\ q.baseline = srv /\ q.put = NoPut /\ q.read = NoRead
  BY <1>2 DEF PageFields
<1>4. q.put.kind = "none" /\ q.read.kind = "none" /\ ~Saves(p) /\ ~Saves(q) /\ ~InTime(q)
  BY <1>2, <1>3, Nothing DEF Saves, InTime
<1>5. /\ Now(q) = TabIds(srv) /\ Base(q) = TabIds(srv) /\ Base(p) = {}
      /\ Out(q) = {} /\ Met(q) = {} /\ Got(q) = {}
  BY <1>2, <1>3, <1>4, Nothing DEF Now, Base, Out, Met, Got
<1>6. Holds(q)
  BY <1>1, <1>3, <1>4, Nothing DEF Holds
<1>7. Follows(q, srv, rm)
  <2>1. srv.rev \in Nat
    BY DEF Sound, Fits, Doc
  <2> QED BY <1>3, <1>4, <1>5, <2>1 DEF Follows, Agrees
<1>8. (cl \ db) \cap TabIds(srv) = {}
  BY <1>1, <1>4, <1>5 DEF ClosedHere
<1>9. ClosedHere(q, srv, cl, db) /\ NoReturn(q, srv, db) /\ FreshIsNew(q, srv, db)
  BY <1>3, <1>4, <1>5, <1>8 DEF ClosedHere, NoReturn, FreshIsNew, Fresh, Unsaved
<1>10. Touched(q, cl) \subseteq Touched(p, cl) \cup TabIds(srv) /\ Unsaved(q, db) = {}
  BY <1>5 DEF Touched, Unsaved, Fresh
<1> QED BY <1>1, <1>6, <1>7, <1>9, <1>10 DEF Turns, Own

(* A list of its own, which is not written: the read failed, or the page   *)
(* is loaded anew.                                                         *)
LEMMA PageBegins ==
  ASSUME NEW p, NEW srv, NEW op, NEW rm, NEW cl, NEW db, Own(p, srv, op, rm, cl, db),
         NEW q, NEW x, x \subseteq cl, x # cl => x = {},
         DOMAIN q = PageFields, q.hydrated = FALSE, q.moves = <<>>, q.baseline = NoDoc,
         q.put = NoPut, TabIds(q.config) = {},
         x # {} => p.baseline = NoDoc /\ p.put = NoPut,
         \/ Sound(q.config) /\ q.read = NoRead
         \/ q.config = NoDoc /\ q.read.kind = "load"
  PROVE  Turns(p, q, cl, x, srv, op, op, rm, db)
<1>1. ClosedHere(p, srv, cl, db) /\ Touched(p, cl) \subseteq op
  BY DEF Own
<1>2. q.put.kind = "none" /\ ~Saves(q) /\ ~InTime(q) /\ q.read.kind # "resync"
  BY Nothing DEF Saves, InTime
<1>3. Now(q) = {} /\ Base(q) = {} /\ Out(q) = {} /\ Met(q) = {} /\ Got(q) = {}
  BY <1>2, Nothing DEF Now, Base, Out, Met, Got
<1>4. Holds(q)
  <2>1. q.moves \in Seq(Move)
    OBVIOUS
  <2>2. q.config = NoDoc => q.read.kind = "load"
    BY Nothing
  <2>3. q.read.kind = "load" => q.config = NoDoc
    BY Nothing
  <2>4. q.config = NoDoc \/ Sound(q.config)
    OBVIOUS
  <2> QED BY <1>2, <2>1, <2>2, <2>3, <2>4 DEF Holds
<1>5. Follows(q, srv, rm)
  BY <1>2 DEF Follows, Saves
<1>6. (x \ db) \cap TabIds(srv) = {}
  <2>1. CASE x = {}
    BY <2>1
  <2>2. CASE x # {}
    <3>1. p.baseline = NoDoc /\ p.put = NoPut /\ x = cl
      BY <2>2
    <3>2. Base(p) = {} /\ ~Saves(p)
      BY <3>1, Nothing DEF Base, Saves
    <3> QED BY <1>1, <3>1, <3>2 DEF ClosedHere
  <2> QED BY <2>1, <2>2
<1>7. ClosedHere(q, srv, x, db) /\ NoReturn(q, srv, db) /\ FreshIsNew(q, srv, db)
  BY <1>2, <1>3, <1>6 DEF ClosedHere, NoReturn, FreshIsNew, Fresh, Unsaved, Saves
<1>8. Touched(q, x) \subseteq Touched(p, cl) /\ Unsaved(q, db) = {}
  BY <1>3 DEF Touched, Unsaved, Fresh
<1> QED BY <1>1, <1>4, <1>5, <1>7, <1>8 DEF Turns, Own

LEMMA PageAsks ==
  ASSUME NEW p, NEW srv, NEW op, NEW rm, NEW cl, NEW db, Own(p, srv, op, rm, cl, db),
         Sound(srv), srv.rev > 0, TabIds(srv) \subseteq op, p.read = NoRead, p.put = NoPut,
         NEW q, q = [p EXCEPT !.read = [kind |-> "resync", base |-> p.baseline, got |-> srv]]
  PROVE  Turns(p, q, cl, cl, srv, op, op, rm, db)
<1>1. /\ Holds(p) /\ Follows(p, srv, rm) /\ ClosedHere(p, srv, cl, db) /\ NoReturn(p, srv, db)
      /\ FreshIsNew(p, srv, db) /\ Touched(p, cl) \subseteq op
  BY DEF Own
<1>2. /\ DOMAIN q = PageFields /\ q.hydrated = p.hydrated /\ q.moves = p.moves
      /\ q.config = p.config /\ q.baseline = p.baseline /\ q.put = NoPut
      /\ q.read.kind = "resync" /\ q.read.base = p.baseline /\ q.read.got = srv
  BY <1>1 DEF Holds, PageFields
<1>3. p.put.kind = "none" /\ p.read.kind = "none" /\ ~Saves(p) /\ ~Saves(q) /\ InTime(q)
  BY <1>2, Nothing DEF Saves, InTime
<1>4. /\ Now(q) = Now(p) /\ Base(q) = Base(p) /\ Got(q) = TabIds(srv)
      /\ Out(q) = {} /\ Met(q) = {} /\ TabIds(q.read.base) = Base(p)
  BY <1>2 DEF Now, Base, Out, Met, Got
<1>5. Holds(q)
  <2>1. Fits(q.read.base)
    BY <1>1, <1>2, Nothing DEF Holds, Sound
  <2>2. p.config # NoDoc
    BY <1>1, <1>3 DEF Holds
  <2> QED BY <1>1, <1>2, <1>3, <2>1, <2>2 DEF Holds
<1>6. Follows(q, srv, rm)
  <2>1. srv.rev \in Nat
    BY DEF Sound, Fits, Doc
  <2>2. p.baseline.rev \in Nat
    BY <1>1, Nothing DEF Holds, Sound, Fits, Doc
  <2>3. Base(p) \ TabIds(srv) \subseteq rm
    <3>1. CASE p.hydrated
      BY <1>1, <3>1 DEF Follows, Agrees
    <3>2. CASE ~p.hydrated
      BY <1>1, <3>2, Nothing DEF Holds, Base
    <3> QED BY <3>1, <3>2
  <2>4. Agrees(q.read.got.rev, Got(q), srv, rm)
    BY <1>2, <1>4, <2>1 DEF Agrees
  <2>5. q.read.base.rev <= q.baseline.rev
    BY <1>2, <2>2
  <2> QED BY <1>1, <1>2, <1>3, <1>4, <2>3, <2>4, <2>5 DEF Follows
<1>7. ClosedHere(q, srv, cl, db) /\ NoReturn(q, srv, db)
  BY <1>1, <1>2, <1>3, <1>4 DEF ClosedHere, NoReturn
<1>8. Fresh(q, db) = Fresh(p, db) /\ Unsaved(q, db) = Unsaved(p, db)
      /\ Fresh(p, db) = Unsaved(p, db)
  BY <1>3, <1>4 DEF Fresh, Unsaved
<1>9. FreshIsNew(q, srv, db)
  BY <1>1, <1>4, <1>8 DEF FreshIsNew
<1>10. Touched(q, cl) \subseteq Touched(p, cl) \cup TabIds(srv)
  BY <1>4 DEF Touched
<1> QED BY <1>1, <1>5, <1>6, <1>7, <1>8, <1>9, <1>10 DEF Turns, Own

(* The read is over, and changed nothing.                                  *)
LEMMA PageDrops ==
  ASSUME NEW p, NEW srv, NEW op, NEW rm, NEW cl, NEW db, Own(p, srv, op, rm, cl, db),
         p.read.kind = "resync", NEW q, q = [p EXCEPT !.read = NoRead]
  PROVE  Turns(p, q, cl, cl, srv, op, op, rm, db)
<1>1. /\ Holds(p) /\ Follows(p, srv, rm) /\ ClosedHere(p, srv, cl, db) /\ NoReturn(p, srv, db)
      /\ FreshIsNew(p, srv, db) /\ Touched(p, cl) \subseteq op
  BY DEF Own
<1>2. /\ DOMAIN q = PageFields /\ q.hydrated = p.hydrated /\ q.moves = p.moves
      /\ q.config = p.config /\ q.baseline = p.baseline /\ q.put = p.put /\ q.read = NoRead
  BY <1>1 DEF Holds, PageFields
<1>3. q.read.kind = "none" /\ ~InTime(q) /\ (Saves(q) <=> Saves(p))
  BY <1>2, Nothing DEF InTime, Saves
<1>4. /\ Now(q) = Now(p) /\ Base(q) = Base(p) /\ Got(q) = {} /\ Out(q) = Out(p) /\ Met(q) = Met(p)
  BY <1>2, <1>3 DEF Now, Base, Out, Met, Got
<1>5. Holds(q)
  <2>1. p.config # NoDoc
    BY <1>1 DEF Holds
  <2> QED BY <1>1, <1>2, <1>3, <2>1 DEF Holds
<1>6. Follows(q, srv, rm)
  BY <1>1, <1>2, <1>3, <1>4 DEF Follows
<1>7. ClosedHere(q, srv, cl, db) /\ NoReturn(q, srv, db)
  BY <1>1, <1>2, <1>3, <1>4 DEF ClosedHere, NoReturn
<1>8. Fresh(q, db) = Fresh(p, db) /\ Unsaved(q, db) = Unsaved(p, db)
  BY <1>3, <1>4 DEF Fresh, Unsaved
<1>9. FreshIsNew(q, srv, db)
  BY <1>1, <1>4, <1>8 DEF FreshIsNew
<1>10. Touched(q, cl) \subseteq Touched(p, cl)
  BY <1>4 DEF Touched
<1> QED BY <1>1, <1>5, <1>6, <1>7, <1>8, <1>9, <1>10 DEF Turns, Own

(* A document of the server's that the page may merge its own into: what   *)
(* the base has and d has not was removed, and the base has what was       *)
(* closed here and d still has.                                            *)
Mergeable(p, d, srv, rm, cl, db) ==
  /\ ~Saves(p) /\ p.config # NoDoc
  /\ Sound(d) /\ d.rev > 0 /\ Agrees(d.rev, TabIds(d), srv, rm)
  /\ Base(p) \ TabIds(d) \subseteq rm
  /\ (cl \ db) \cap TabIds(d) \subseteq Base(p)
  /\ (Base(p) \cap TabIds(srv)) \ db \subseteq TabIds(d)
  /\ TabIds(d) \subseteq Touched(p, cl)

(* Mine is put onto the server's: d is the new base.                       *)
Merges(p, q, d) ==
  /\ DOMAIN q = PageFields /\ q.hydrated = TRUE /\ q.moves = p.moves /\ q.baseline = d
  /\ q.config = MergeWorkbench(p.baseline, p.config, d, p.moves) /\ q.put = NoPut
  /\ q.read.kind # "load" /\ (q.read # NoRead => q.read = p.read /\ d.rev > p.baseline.rev)

LEMMA PageMerges ==
  ASSUME NEW p, NEW srv, NEW op, NEW rm, NEW cl, NEW db, Own(p, srv, op, rm, cl, db),
         NEW d, NEW q, Mergeable(p, d, srv, rm, cl, db), Merges(p, q, d)
  PROVE  Turns(p, q, cl, cl, srv, op, op, rm, db) /\ Now(p) \ Now(q) \subseteq rm
<1>0. /\ ~Saves(p) /\ p.config # NoDoc
      /\ Sound(d) /\ d.rev > 0 /\ Agrees(d.rev, TabIds(d), srv, rm)
      /\ Base(p) \ TabIds(d) \subseteq rm
      /\ (cl \ db) \cap TabIds(d) \subseteq Base(p)
      /\ (Base(p) \cap TabIds(srv)) \ db \subseteq TabIds(d)
      /\ TabIds(d) \subseteq Touched(p, cl)
      /\ DOMAIN q = PageFields /\ q.hydrated = TRUE /\ q.moves = p.moves /\ q.baseline = d
      /\ q.config = MergeWorkbench(p.baseline, p.config, d, p.moves) /\ q.put = NoPut
      /\ q.read.kind # "load" /\ (q.read # NoRead => q.read = p.read /\ d.rev > p.baseline.rev)
  BY DEF Mergeable, Merges
<1>1. /\ Holds(p) /\ Follows(p, srv, rm) /\ ClosedHere(p, srv, cl, db)
      /\ FreshIsNew(p, srv, db) /\ Touched(p, cl) \subseteq op
  BY DEF Own
<1> DEFINE D == TabIds(d)
           N == Now(p)
           B == Base(p)
<1>2. /\ Sound(q.config) /\ q.config.rev = d.rev /\ Now(q) = Merged(B, N, D)
  <2>1. Fits(p.baseline) /\ Fits(p.config) /\ p.moves \in Seq(Move)
    BY <1>1, Nothing DEF Holds, Sound
  <2> QED BY <1>0, <2>1, MergedDoc DEF Now, Base
<1>3. ~Saves(q) /\ q.put.kind = "none"
  BY <1>0, Nothing DEF Saves
<1>4. Base(q) = D /\ Out(q) = {} /\ Met(q) = {} /\ Got(q) \subseteq Got(p)
  BY <1>0, Nothing DEF Base, Out, Met, Got
<1>5. d.rev \in Nat /\ p.baseline.rev \in Nat
  BY <1>0, <1>1, Nothing DEF Holds, Sound, Fits, Doc
<1>6. q.read.kind = "resync" => /\ q.read = p.read /\ d.rev > p.baseline.rev
                                /\ p.read.base.rev <= p.baseline.rev
  BY <1>0, <1>1, Nothing DEF Follows
<1>7. ~InTime(q)
  <2>1. SUFFICES ASSUME InTime(q) PROVE FALSE
    OBVIOUS
  <2>2. q.read.kind = "resync" /\ p.read.base = d
    BY <1>0, <1>6, <2>1 DEF InTime
  <2> QED BY <1>5, <1>6, <2>2
<1>8. Holds(q)
  <2>1. q.config # NoDoc
    BY <1>2, Nothing
  <2> QED BY <1>0, <1>1, <1>2, <1>6, <2>1 DEF Holds
<1>9. B \ N \subseteq rm
  <2>1. CASE p.hydrated
    BY <1>1, <2>1 DEF Follows
  <2>2. CASE ~p.hydrated
    BY <1>1, <2>2, Nothing DEF Holds, Base
  <2> QED BY <2>1, <2>2
<1>10. Follows(q, srv, rm)
  <2>1. D \ Now(q) \subseteq rm
    BY <1>2, <1>9 DEF Merged
  <2>2. Agrees(q.baseline.rev, Base(q), srv, rm)
    BY <1>0, <1>4
  <2>3. q.read.kind = "resync" => /\ Agrees(q.read.got.rev, Got(q), srv, rm)
                                  /\ q.read.base.rev <= q.baseline.rev
                                  /\ TabIds(q.read.base) \ Got(q) \subseteq rm
    <3>1. SUFFICES ASSUME q.read.kind = "resync"
                   PROVE  /\ Agrees(q.read.got.rev, Got(q), srv, rm)
                          /\ q.read.base.rev <= q.baseline.rev
                          /\ TabIds(q.read.base) \ Got(q) \subseteq rm
      OBVIOUS
    <3>2. Got(q) = Got(p)
      BY <1>6, <3>1 DEF Got
    <3>3. /\ Agrees(q.read.got.rev, Got(q), srv, rm)
          /\ TabIds(q.read.base) \ Got(q) \subseteq rm
      BY <1>1, <1>6, <3>1, <3>2 DEF Follows
    <3>4. p.read.base.rev \in Nat
      BY <1>1, <1>6, <3>1 DEF Holds, Fits, Doc
    <3> QED BY <1>0, <1>5, <1>6, <3>1, <3>3, <3>4
  <2> QED BY <1>0, <1>3, <1>4, <2>1, <2>2, <2>3 DEF Follows
<1>11. ClosedHere(q, srv, cl, db)
  <2>1. (cl \ db) \cap Now(q) = {}
    BY <1>0, <1>1, <1>2 DEF ClosedHere, Merged
  <2>2. (cl \ db) \cap TabIds(srv) \subseteq D
    BY <1>0, <1>1 DEF ClosedHere
  <2> QED BY <1>3, <1>4, <1>7, <2>1, <2>2 DEF ClosedHere
<1>12. NoReturn(q, srv, db)
  BY <1>0, <1>3, <1>7 DEF NoReturn
<1>13. Fresh(q, db) \subseteq Fresh(p, db)
  BY <1>2, <1>4 DEF Fresh, Merged
<1>14. Unsaved(q, db) \subseteq Unsaved(p, db)
  BY <1>0, <1>3, <1>13 DEF Unsaved
<1>15. FreshIsNew(q, srv, db)
  BY <1>1, <1>4, <1>13, <1>14 DEF FreshIsNew
<1>16. Touched(q, cl) \subseteq Touched(p, cl)
  <2>1. Now(q) \subseteq D \cup N
    BY <1>2 DEF Merged
  <2> QED BY <1>0, <1>4, <2>1 DEF Touched
<1>17. N \ Now(q) \subseteq rm
  BY <1>0, <1>2 DEF Merged
<1>18. Own(q, srv, op, rm, cl, db)
  BY <1>1, <1>8, <1>10, <1>11, <1>12, <1>15, <1>16 DEF Own
<1> QED BY <1>14, <1>16, <1>17, <1>18 DEF Turns

(* The write was answered, and stored nothing.                             *)
LEMMA PageEnds ==
  ASSUME NEW p, NEW srv, NEW op, NEW rm, NEW cl, NEW db, Own(p, srv, op, rm, cl, db),
         ~Saves(p), NEW q, DOMAIN q = PageFields, q.config = p.config, q.baseline = p.baseline,
         q.hydrated = p.hydrated, q.moves = p.moves, q.read = p.read,
         q.put = NoPut \/ q.put = p.put
  PROVE  Turns(p, q, cl, cl, srv, op, op, rm, db)
<1>1. /\ Holds(p) /\ Follows(p, srv, rm) /\ ClosedHere(p, srv, cl, db) /\ NoReturn(p, srv, db)
      /\ FreshIsNew(p, srv, db) /\ Touched(p, cl) \subseteq op
  BY DEF Own
<1>2. ~Saves(q) /\ (InTime(q) <=> InTime(p)) /\ (q.put = p.put \/ q.put.kind = "none")
  BY Nothing DEF InTime, Saves
<1>3. /\ Now(q) = Now(p) /\ Base(q) = Base(p) /\ Got(q) = Got(p)
      /\ Out(q) \subseteq Out(p) /\ Met(q) \subseteq Met(p)
      /\ q.put # NoPut => Out(q) = Out(p) /\ Met(q) = Met(p) /\ q.put = p.put
  BY <1>2, Nothing DEF Now, Base, Out, Met, Got
<1>4. Holds(q)
  BY <1>1, <1>3 DEF Holds
<1>5. Follows(q, srv, rm)
  BY <1>1, <1>2, <1>3, Nothing DEF Follows
<1>6. ClosedHere(q, srv, cl, db) /\ NoReturn(q, srv, db)
  BY <1>1, <1>2, <1>3, Nothing DEF ClosedHere, NoReturn
<1>7. Fresh(q, db) = Fresh(p, db) /\ Unsaved(q, db) = Unsaved(p, db)
  BY <1>2, <1>3 DEF Fresh, Unsaved
<1>8. FreshIsNew(q, srv, db)
  BY <1>1, <1>3, <1>7 DEF FreshIsNew
<1>9. Touched(q, cl) \subseteq Touched(p, cl)
  BY <1>3 DEF Touched
<1> QED BY <1>1, <1>4, <1>5, <1>6, <1>7, <1>8, <1>9 DEF Turns, Own

(* The same document under another revision                                *)
LEMMA Renumbered ==
  ASSUME NEW d, Sound(d), NEW r \in Nat
  PROVE  Sound([d EXCEPT !.rev = r]) /\ [d EXCEPT !.rev = r].rev = r
         /\ TabIds([d EXCEPT !.rev = r]) = TabIds(d)
<1> DEFINE e == [d EXCEPT !.rev = r]
<1>1. d \in Doc /\ GroupsFit(d.groups) /\ d.groups # <<>>
  BY DEF Sound, Fits
<1>2. e \in Doc /\ e.groups = d.groups /\ e.rev = r
  BY <1>1 DEF Doc
<1> HIDE DEF e
<1>3. TabIds(e) = TabIds(d)
  BY <1>2 DEF TabIds
<1>4. Sound(e)
  BY <1>1, <1>2 DEF Sound, Fits
<1> QED BY <1>2, <1>3, <1>4 DEF e

(* The write was stored: what it wrote is the new base.                    *)
LEMMA PageSaved ==
  ASSUME NEW p, NEW srv, NEW op, NEW rm, NEW cl, NEW db, Own(p, srv, op, rm, cl, db),
         Saves(p), NEW q, DOMAIN q = PageFields, q.config = [p.config EXCEPT !.rev = p.put.rev],
         q.baseline = [p.put.out EXCEPT !.rev = p.put.rev], q.hydrated = p.hydrated,
         q.moves = SubSeq(p.moves, p.put.count + 1, Len(p.moves)), q.read = p.read, q.put = NoPut
  PROVE  Turns(p, q, cl, cl, srv, op, op, rm, db) /\ Now(q) = Now(p)
<1>1. /\ Holds(p) /\ Follows(p, srv, rm) /\ ClosedHere(p, srv, cl, db) /\ NoReturn(p, srv, db)
      /\ FreshIsNew(p, srv, db) /\ Touched(p, cl) \subseteq op
  BY DEF Own
<1>2. /\ p.put # NoPut /\ p.put.kind = "saved" /\ p.hydrated
      /\ Sound(p.config) /\ Sound(p.baseline) /\ Sound(p.put.out) /\ p.put.rev \in Nat
  BY <1>1, Nothing DEF Holds, Saves
<1>3. \A d : Sound(d) => \A r \in Nat :
        /\ Sound([d EXCEPT !.rev = r]) /\ [d EXCEPT !.rev = r].rev = r
        /\ TabIds([d EXCEPT !.rev = r]) = TabIds(d)
  BY Renumbered, Zenon
<1>4. /\ Sound(q.config) /\ Sound(q.baseline) /\ q.config.rev = p.put.rev
      /\ q.baseline.rev = p.put.rev /\ Now(q) = Now(p) /\ Base(q) = Out(p)
  BY <1>2, <1>3 DEF Now, Base, Out
<1>5. ~Saves(q) /\ q.put.kind = "none" /\ Out(q) = {} /\ Met(q) = {} /\ Got(q) = Got(p)
  BY Nothing DEF Saves, Out, Met, Got
<1>6. p.put.rev > p.baseline.rev /\ p.baseline.rev \in Nat
  BY <1>1, <1>2 DEF Follows, Sound, Fits, Doc, Saves
<1>7. ~InTime(q) /\ (q.read.kind = "resync" => q.read.base.rev <= q.baseline.rev)
  <2>1. CASE q.read.kind = "resync"
    <3>1. p.read.base.rev <= p.baseline.rev /\ p.read.base.rev \in Nat
      BY <1>1, <2>1 DEF Follows, Holds, Fits, Doc
    <3>2. p.put.rev \in Nat /\ p.read.base.rev < p.put.rev
      BY <1>2, <1>6, <3>1
    <3>3. q.read.base.rev < q.baseline.rev /\ q.baseline.rev \in Nat /\ q.read.base.rev \in Nat
      BY <1>2, <1>4, <3>1, <3>2
    <3> DEFINE u == q.read.base.rev
               v == q.baseline.rev
    <3>5. u < v /\ u \in Nat /\ v \in Nat
      BY <3>3
    <3>6. u # v => q.read.base # q.baseline
      BY Zenon
    <3> HIDE DEF u, v
    <3>7. u # v /\ u <= v
      BY <3>5
    <3>4. q.read.base # q.baseline /\ q.read.base.rev <= q.baseline.rev
      BY <3>6, <3>7 DEF u, v
    <3> QED BY <3>4 DEF InTime
  <2>2. CASE q.read.kind # "resync"
    BY <2>2 DEF InTime
  <2> QED BY <2>1, <2>2
<1>8. Holds(q)
  <2>1. q.config # NoDoc /\ p.config # NoDoc
    BY <1>2, <1>4, Nothing
  <2>2. q.moves \in Seq(Move)
    <3> DEFINE n == p.put.count
               s == p.moves
    <3>1. s \in Seq(Move) /\ n \in 0 .. Len(s)
      BY <1>1, <1>2 DEF Holds
    <3>2. q.moves = SubSeq(s, n + 1, Len(s))
      OBVIOUS
    <3> HIDE DEF n, s
    <3>3. n \in Nat /\ Len(s) \in Nat /\ SubSeq(s, n + 1, Len(s)) \in Seq(Move)
      BY <3>1
    <3> QED BY <3>2, <3>3
  <2>3. q.config.rev > 0
    BY <1>2, <1>4, <1>6
  <2> QED BY <1>1, <1>2, <1>4, <2>1, <2>2, <2>3 DEF Holds
<1>9. Follows(q, srv, rm)
  <2>1. Agrees(q.baseline.rev, Base(q), srv, rm) /\ Base(q) \ Now(q) \subseteq rm
    BY <1>1, <1>2, <1>4 DEF Follows, Saves
  <2>2. q.read.kind = "resync" => /\ Agrees(q.read.got.rev, Got(q), srv, rm)
                                  /\ TabIds(q.read.base) \ Got(q) \subseteq rm
    BY <1>1, <1>5 DEF Follows
  <2> QED BY <1>5, <1>7, <2>1, <2>2 DEF Follows
<1>10. ClosedHere(q, srv, cl, db) /\ NoReturn(q, srv, db)
  <2>1. (cl \ db) \cap TabIds(srv) \subseteq Out(p)
    BY <1>1, <1>2 DEF ClosedHere, NoReturn, Saves
  <2> QED BY <1>1, <1>4, <1>5, <1>7, <2>1 DEF ClosedHere, NoReturn
<1>11. Fresh(q, db) \subseteq Unsaved(p, db) /\ Unsaved(p, db) \subseteq Fresh(p, db)
  <2>1. Now(p) \cap Base(p) \subseteq Out(p)
    BY <1>1, <1>2 DEF NoReturn
  <2> QED BY <1>4, <2>1 DEF Fresh, Unsaved
<1>12. Unsaved(q, db) \subseteq Unsaved(p, db)
  BY <1>11 DEF Unsaved
<1>13. FreshIsNew(q, srv, db)
  BY <1>1, <1>5, <1>11, <1>12 DEF FreshIsNew
<1>14. Touched(q, cl) \subseteq Touched(p, cl)
  BY <1>4, <1>5 DEF Touched
<1> QED BY <1>1, <1>4, <1>8, <1>9, <1>10, <1>12, <1>13, <1>14 DEF Turns, Own

(* The page with its list on the way                                       *)
Sends(p, q, srv, k) ==
  /\ DOMAIN q = PageFields /\ q.config = p.config /\ q.baseline = p.baseline
  /\ q.hydrated = p.hydrated /\ q.moves = p.moves /\ q.read = p.read
  /\ q.put.kind = k /\ q.put.out = p.config /\ q.put.current = srv
  /\ q.put.rev = srv.rev + 1 /\ q.put.count = Len(p.moves)

LEMMA PageSends ==
  ASSUME NEW p, NEW srv, NEW op, NEW rm, NEW cl, NEW db, Own(p, srv, op, rm, cl, db),
         Sound(srv), srv.rev > 0, TabIds(srv) \subseteq op, p.hydrated, p.put = NoPut,
         NEW q, NEW k \in {"conflict", "skipped", "failed", "threw"}, Sends(p, q, srv, k),
         k = "conflict" => p.config.rev # srv.rev
  PROVE  Turns(p, q, cl, cl, srv, op, op, rm, db)
<1>1. /\ Holds(p) /\ Follows(p, srv, rm) /\ ClosedHere(p, srv, cl, db) /\ NoReturn(p, srv, db)
      /\ FreshIsNew(p, srv, db) /\ Touched(p, cl) \subseteq op
  BY DEF Own
<1>2. /\ DOMAIN q = PageFields /\ q.config = p.config /\ q.baseline = p.baseline
      /\ q.hydrated = p.hydrated /\ q.moves = p.moves /\ q.read = p.read
      /\ q.put.kind = k /\ q.put.out = p.config /\ q.put.current = srv
      /\ q.put.rev = srv.rev + 1 /\ q.put.count = Len(p.moves)
  BY DEF Sends
<1>3. p.put.kind = "none" /\ ~Saves(p) /\ ~Saves(q) /\ q.put # NoPut /\ (InTime(q) <=> InTime(p))
  BY <1>2, Nothing DEF Saves, InTime
<1>4. /\ Now(q) = Now(p) /\ Base(q) = Base(p) /\ Got(q) = Got(p)
      /\ Out(q) = Now(p) /\ Met(q) = TabIds(srv)
  BY <1>2, <1>3 DEF Now, Base, Out, Met, Got
<1>5. srv.rev \in Nat /\ p.baseline.rev \in Nat /\ p.baseline.rev <= srv.rev
  <2>1. srv.rev \in Nat /\ p.baseline.rev \in Nat
    BY <1>1 DEF Holds, Sound, Fits, Doc
  <2> QED BY <1>1, <2>1 DEF Follows, Agrees
<1>6. Holds(q)
  <2>1. Sound(p.config) /\ Len(p.moves) \in Nat
    BY <1>1 DEF Holds
  <2>2. q.put.rev \in Nat /\ q.put.count \in 0 .. Len(q.moves)
    BY <1>2, <1>5, <2>1
  <2> QED BY <1>1, <1>2, <1>3, <2>1, <2>2 DEF Holds
<1>7. Follows(q, srv, rm)
  <2>1. q.put.kind = "conflict" => q.put.current.rev > q.baseline.rev
    <3>1. SUFFICES ASSUME k = "conflict" PROVE srv.rev > p.baseline.rev
      BY <1>2
    <3>2. p.config.rev = p.baseline.rev
      BY <1>1 DEF Holds
    <3> QED BY <1>5, <3>1, <3>2
  <2>2. Agrees(q.put.current.rev, Met(q), srv, rm)
    BY <1>2, <1>4, <1>5 DEF Agrees
  <2>3. Base(q) \ Met(q) \subseteq rm
    BY <1>1, <1>4 DEF Follows, Agrees
  <2> QED BY <1>1, <1>2, <1>3, <1>4, <2>1, <2>2, <2>3 DEF Follows
<1>8. ClosedHere(q, srv, cl, db) /\ NoReturn(q, srv, db)
  BY <1>1, <1>2, <1>3, <1>4 DEF ClosedHere, NoReturn, InTime
<1>9. Fresh(q, db) = Fresh(p, db) /\ Unsaved(q, db) = Unsaved(p, db)
      /\ Fresh(p, db) = Unsaved(p, db)
  BY <1>3, <1>4 DEF Fresh, Unsaved
<1>10. FreshIsNew(q, srv, db)
  BY <1>1, <1>4, <1>9 DEF FreshIsNew
<1>11. Touched(q, cl) \subseteq Touched(p, cl) \cup TabIds(srv)
  BY <1>4 DEF Touched
<1> QED BY <1>1, <1>6, <1>7, <1>8, <1>9, <1>10, <1>11 DEF Turns, Own

(* ... and stored; the answer may be lost.                                 *)
Stores(p, q, srv, srv2, db, db2, k) ==
  /\ k \in {"saved", "threw"} /\ Sends(p, q, srv, k)
  /\ p.hydrated /\ p.put = NoPut /\ p.config.rev = srv.rev
  /\ srv2 = [p.config EXCEPT !.rev = srv.rev + 1]
  /\ db \subseteq db2 /\ (k = "threw" => Now(p) \ Base(p) \subseteq db2)

LEMMA PageStores ==
  ASSUME NEW p, NEW srv, NEW op, NEW rm, NEW cl, NEW db, Own(p, srv, op, rm, cl, db),
         Sound(srv), TabIds(srv) \subseteq op,
         NEW q, NEW k, NEW srv2, NEW db2, Stores(p, q, srv, srv2, db, db2, k)
  PROVE  Rewrites(p, q, srv, srv2, op, rm, cl, db, db2)
<1>0. /\ k \in {"saved", "threw"} /\ Sends(p, q, srv, k)
      /\ p.hydrated /\ p.put = NoPut /\ p.config.rev = srv.rev
      /\ srv2 = [p.config EXCEPT !.rev = srv.rev + 1]
      /\ db \subseteq db2 /\ (k = "threw" => Now(p) \ Base(p) \subseteq db2)
  BY DEF Stores
<1>1. /\ Holds(p) /\ Follows(p, srv, rm) /\ ClosedHere(p, srv, cl, db) /\ NoReturn(p, srv, db)
      /\ FreshIsNew(p, srv, db) /\ Touched(p, cl) \subseteq op
  BY DEF Own
<1>2. /\ DOMAIN q = PageFields /\ q.config = p.config /\ q.baseline = p.baseline
      /\ q.hydrated = p.hydrated /\ q.moves = p.moves /\ q.read = p.read
      /\ q.put.kind = k /\ q.put.out = p.config /\ q.put.current = srv
      /\ q.put.rev = srv.rev + 1 /\ q.put.count = Len(p.moves)
  BY <1>0 DEF Sends
<1>3. p.put.kind = "none" /\ ~Saves(p) /\ q.put # NoPut /\ (InTime(q) <=> InTime(p))
      /\ (Saves(q) <=> k = "saved")
  BY <1>0, <1>2, Nothing DEF Saves, InTime
<1>4. /\ Now(q) = Now(p) /\ Base(q) = Base(p) /\ Got(q) = Got(p)
      /\ Out(q) = Now(p) /\ Met(q) = TabIds(srv)
  BY <1>2, <1>3 DEF Now, Base, Out, Met, Got
<1>5. srv.rev \in Nat /\ p.baseline.rev = srv.rev /\ Sound(p.config)
  BY <1>0, <1>1 DEF Holds, Sound, Fits, Doc
<1> DEFINE r == srv.rev + 1
<1>6. r \in Nat /\ srv.rev < r /\ srv.rev <= r /\ srv.rev # r /\ r > srv.rev
  BY <1>5
<1>7. Sound(srv2) /\ srv2.rev = r /\ TabIds(srv2) = Now(p)
  <2>1. srv2 = [p.config EXCEPT !.rev = r]
    BY <1>0
  <2> HIDE DEF r
  <2> DEFINE c == p.config
  <2>2. Sound(c) /\ r \in Nat
    BY <1>5, <1>6
  <2> HIDE DEF c
  <2>3. /\ Sound([c EXCEPT !.rev = r]) /\ [c EXCEPT !.rev = r].rev = r
        /\ TabIds([c EXCEPT !.rev = r]) = TabIds(c)
    BY <2>2, Renumbered, Zenon
  <2> QED BY <2>1, <2>3 DEF Now, c
<1>8. Base(p) = TabIds(srv) /\ TabIds(srv) \ Now(p) \subseteq rm
  BY <1>0, <1>1, <1>5 DEF Follows, Agrees
<1> HIDE DEF r
<1>9. Holds(q)
  <2>1. Len(p.moves) \in Nat
    BY <1>1 DEF Holds
  <2>2. q.put.rev \in Nat /\ q.put.count \in 0 .. Len(q.moves)
    BY <1>2, <1>6, <2>1 DEF r
  <2> QED BY <1>0, <1>1, <1>2, <1>3, <1>5, <2>2 DEF Holds
<1>10. \A s \in Nat : \A T : Agrees(s, T, srv, rm) => Agrees(s, T, srv2, rm)
  <2>1. SUFFICES ASSUME NEW s \in Nat, NEW T, Agrees(s, T, srv, rm) PROVE Agrees(s, T, srv2, rm)
    OBVIOUS
  <2>2. s <= r /\ s # r
    BY <1>5, <1>6, <2>1 DEF Agrees
  <2>3. T \ Now(p) \subseteq rm
    BY <1>8, <2>1 DEF Agrees
  <2> QED BY <1>7, <2>2, <2>3 DEF Agrees
<1>11. Follows(q, srv2, rm)
  <2>1. Agrees(q.baseline.rev, Base(q), srv2, rm) /\ Base(q) \ Now(q) \subseteq rm
    <3>1. Agrees(p.baseline.rev, Base(p), srv, rm)
      BY <1>0, <1>1 DEF Follows
    <3> QED BY <1>2, <1>4, <1>5, <1>8, <1>10, <3>1
  <2>2. /\ Agrees(q.put.current.rev, Met(q), srv2, rm) /\ Base(q) \ Met(q) \subseteq rm
        /\ Out(q) \ Now(q) \subseteq rm
    <3>1. Agrees(srv.rev, TabIds(srv), srv, rm)
      BY <1>5 DEF Agrees
    <3> QED BY <1>2, <1>4, <1>5, <1>8, <1>10, <3>1
  <2>3. Saves(q) => Agrees(q.put.rev, Out(q), srv2, rm) /\ q.put.rev > q.baseline.rev
    BY <1>2, <1>4, <1>5, <1>6, <1>7 DEF Agrees, r
  <2>4. q.read.kind = "resync" => /\ Agrees(q.read.got.rev, Got(q), srv2, rm)
                                  /\ q.read.base.rev <= q.baseline.rev
                                  /\ TabIds(q.read.base) \ Got(q) \subseteq rm
    <3>1. SUFFICES ASSUME p.read.kind = "resync"
                   PROVE  /\ Agrees(p.read.got.rev, Got(p), srv2, rm)
                          /\ p.read.base.rev <= p.baseline.rev
                          /\ TabIds(p.read.base) \ Got(p) \subseteq rm
      BY <1>2, <1>4
    <3>2. p.read.got.rev \in Nat
      BY <1>1, <3>1 DEF Holds, Sound, Fits, Doc
    <3>3. /\ Agrees(p.read.got.rev, Got(p), srv, rm) /\ p.read.base.rev <= p.baseline.rev
          /\ TabIds(p.read.base) \ Got(p) \subseteq rm
      BY <1>1, <3>1 DEF Follows
    <3> QED BY <1>10, <3>2, <3>3
  <2>5. q.put.kind # "conflict"
    BY <1>0, <1>2
  <2> QED BY <2>1, <2>2, <2>3, <2>4, <2>5 DEF Follows
<1>12. (cl \ db2) \cap Now(p) = {} /\ (cl \ db2) \subseteq cl \ db
  BY <1>0, <1>1 DEF ClosedHere
<1>13. ClosedHere(q, srv2, cl, db2)
  <2>1. q.put.kind # "conflict"
    BY <1>0, <1>2
  <2>2. InTime(q) => (cl \ db2) \cap Got(q) \subseteq Base(q)
    BY <1>1, <1>3, <1>4, <1>12 DEF ClosedHere
  <2> QED BY <1>4, <1>7, <1>12, <2>1, <2>2 DEF ClosedHere
<1>14. NoReturn(q, srv2, db2)
  <2>1. q.put.kind # "conflict"
    BY <1>0, <1>2
  <2>2. InTime(q) => (Base(q) \cap TabIds(srv2)) \ db2 \subseteq Got(q)
    <3>1. InTime(p) => (Base(p) \cap TabIds(srv)) \ db \subseteq Got(p)
      BY <1>1 DEF NoReturn
    <3>2. (Base(p) \cap TabIds(srv2)) \ db2 \subseteq (Base(p) \cap TabIds(srv)) \ db
      BY <1>0, <1>8
    <3> QED BY <1>3, <1>4, <3>1, <3>2
  <2> QED BY <1>4, <1>7, <2>1, <2>2 DEF NoReturn
<1>15. Unsaved(q, db2) = {}
  <2>1. CASE k = "saved"
    BY <1>3, <1>4, <2>1 DEF Unsaved, Fresh
  <2>2. CASE k = "threw"
    BY <1>0, <1>4, <2>2 DEF Unsaved, Fresh
  <2> QED BY <1>0, <2>1, <2>2
<1>16. FreshIsNew(q, srv2, db2)
  <2>1. Fresh(p, db) \cap (Got(p) \cup Met(p)) = {} /\ Fresh(q, db2) \subseteq Fresh(p, db)
    BY <1>0, <1>1, <1>4 DEF FreshIsNew, Fresh
  <2>2. Fresh(q, db2) \cap Met(q) = {}
    BY <1>4, <1>8 DEF Fresh
  <2> QED BY <1>4, <1>15, <2>1, <2>2 DEF FreshIsNew
<1>17. Touched(q, cl) \subseteq Touched(p, cl) \cup TabIds(srv) /\ Touched(q, cl) \subseteq op
  BY <1>1, <1>4 DEF Touched
<1>18. Own(q, srv2, op, rm, cl, db2)
  BY <1>9, <1>11, <1>13, <1>14, <1>16, <1>17 DEF Own
<1> QED BY <1>0, <1>5, <1>7, <1>15, <1>17, <1>18 DEF r, Rewrites

(* Editing: a tab is added, or removed, or neither.                        *)
LEMMA PageEdits ==
  ASSUME NEW p, NEW srv, NEW op, NEW rm, NEW cl, NEW db, Own(p, srv, op, rm, cl, db),
         TabIds(srv) \subseteq op, p.config # NoDoc,
         NEW q, DOMAIN q = PageFields, q.baseline = p.baseline, q.hydrated = p.hydrated,
         q.read = p.read, q.put = p.put, Sound(q.config), q.config.rev = p.config.rev,
         q.moves \in Seq(Move), Len(q.moves) >= Len(p.moves),
         NEW new, new \cap op = {}, NEW gone, gone \subseteq Now(p),
         Now(q) = (Now(p) \cup new) \ gone
  PROVE  Turns(p, q, cl, cl \cup gone, srv, op, op \cup new, rm \cup gone, db)
         /\ Now(p) \ Now(q) \subseteq gone
<1>1. /\ Holds(p) /\ Follows(p, srv, rm) /\ ClosedHere(p, srv, cl, db) /\ NoReturn(p, srv, db)
      /\ FreshIsNew(p, srv, db) /\ Touched(p, cl) \subseteq op
  BY DEF Own
<1>2. (Saves(q) <=> Saves(p)) /\ (InTime(q) <=> InTime(p))
  BY DEF Saves, InTime
<1>3. Base(q) = Base(p) /\ Got(q) = Got(p) /\ Out(q) = Out(p) /\ Met(q) = Met(p)
  BY DEF Base, Out, Met, Got
<1>4. /\ new \cap Now(p) = {} /\ new \cap Base(p) = {} /\ new \cap Got(p) = {}
      /\ new \cap Out(p) = {} /\ new \cap Met(p) = {} /\ new \cap cl = {}
           /\ new \cap TabIds(srv) = {}
      /\ new \cap gone = {}
  BY <1>1 DEF Touched
<1>5. Holds(q)
  <2>1. p.put # NoPut => p.put.count \in 0 .. Len(q.moves)
    <3>1. SUFFICES ASSUME p.put # NoPut PROVE p.put.count \in 0 .. Len(q.moves)
      OBVIOUS
    <3>2. p.put.count \in 0 .. Len(p.moves)
      BY <1>1, <3>1 DEF Holds
    <3>3. p.moves \in Seq(Move)
      BY <1>1 DEF Holds
    <3>4. Len(p.moves) \in Nat /\ Len(q.moves) \in Nat
      BY <3>3
    <3> QED BY <3>2, <3>4
  <2>2. q.config # NoDoc
    BY Nothing
  <2>3. p.hydrated => Sound(p.baseline) /\ p.config.rev = p.baseline.rev /\ p.config.rev > 0
    BY <1>1 DEF Holds
  <2>4. q.read.kind # "load"
    BY <1>1 DEF Holds
  <2> QED BY <1>1, <2>1, <2>2, <2>3, <2>4 DEF Holds
<1>6. Follows(q, srv, rm \cup gone)
  <2>1. \A s, T : Agrees(s, T, srv, rm) => Agrees(s, T, srv, rm \cup gone)
    BY DEF Agrees
  <2> HIDE DEF Agrees
  <2>2. p.hydrated => Base(q) \ Now(q) \subseteq rm \cup gone
    BY <1>1, <1>3 DEF Follows
  <2>3. p.put # NoPut => Out(q) \ Now(q) \subseteq rm \cup gone
    BY <1>1, <1>3 DEF Follows
  <2> QED BY <1>1, <1>2, <1>3, <2>1, <2>2, <2>3 DEF Follows
<1>7. gone \ (Base(p) \cup db) \subseteq Fresh(p, db)
  BY DEF Fresh
<1>8. ClosedHere(q, srv, cl \cup gone, db)
  <2>1. ((cl \cup gone) \ db) \cap Now(q) = {}
    BY <1>1, <1>4 DEF ClosedHere
  <2>2. ((cl \cup gone) \ db) \cap TabIds(srv)
         \subseteq Base(q) \cup (IF Saves(q) THEN Out(q) ELSE {})
    <3>1. (cl \ db) \cap TabIds(srv) \subseteq Base(q) \cup (IF Saves(q) THEN Out(q) ELSE {})
      BY <1>1, <1>2, <1>3 DEF ClosedHere
    <3>2. Unsaved(p, db) \cap TabIds(srv) = {}
      BY <1>1 DEF FreshIsNew
    <3>3. (gone \ db) \cap TabIds(srv) \subseteq Base(q) \cup (IF Saves(q) THEN Out(q) ELSE {})
      BY <1>2, <1>3, <1>7, <3>2 DEF Unsaved
    <3> QED BY <3>1, <3>3
  <2>3. (gone \ db) \cap (Met(p) \cup Got(p)) \subseteq Base(p)
    BY <1>1, <1>7 DEF FreshIsNew
  <2>4. q.put.kind = "conflict" => ((cl \cup gone) \ db) \cap Met(q) \subseteq Base(q)
    BY <1>1, <1>3, <2>3 DEF ClosedHere
  <2>5. InTime(q) => ((cl \cup gone) \ db) \cap Got(q) \subseteq Base(q)
    BY <1>1, <1>2, <1>3, <2>3 DEF ClosedHere
  <2> QED BY <2>1, <2>2, <2>4, <2>5 DEF ClosedHere
<1>9. NoReturn(q, srv, db)
  BY <1>1, <1>2, <1>3, <1>4 DEF NoReturn
<1>10. Fresh(q, db) \subseteq Fresh(p, db) \cup new
       /\ Unsaved(q, db) \subseteq Unsaved(p, db) \cup new
  BY <1>2, <1>3 DEF Fresh, Unsaved
<1>11. FreshIsNew(q, srv, db)
  BY <1>1, <1>3, <1>4, <1>10 DEF FreshIsNew
<1>12. new \subseteq (op \cup new) \ op
  OBVIOUS
<1>13. Touched(q, cl \cup gone) \subseteq Touched(p, cl) \cup new
  BY <1>3 DEF Touched
<1> QED BY <1>1, <1>5, <1>6, <1>8, <1>9, <1>10, <1>11, <1>12, <1>13 DEF Turns, Own

-----------------------------------------------------------------------------
(***************************************************************************)
(* The steps                                                               *)
(***************************************************************************)
(* What a step keeps: nobody's list, and not the server's, loses a tab     *)
(* that nobody removed.                                                    *)
Shows(p, q, rm) == q.config = NoDoc \/ Now(p) \ Now(q) \subseteq rm
Advances ==
  /\ ListInv' /\ TabIds(server) \ TabIds(server') \subseteq removed
  /\ \A b \in Browsers : Shows(page[b], page'[b], removed')

(* A page that differs in its timer and its flags only                     *)
Alike(p, q) ==
  /\ DOMAIN q = PageFields /\ q.config = p.config /\ q.baseline = p.baseline
  /\ q.hydrated = p.hydrated /\ q.moves = p.moves /\ q.read = p.read /\ q.put = p.put

LEMMA AlikeIsOwn ==
  ASSUME NEW p, NEW q, Alike(p, q), NEW srv, NEW op, NEW rm, NEW cl, NEW db
  PROVE  /\ Own(p, srv, op, rm, cl, db) => Own(q, srv, op, rm, cl, db)
         /\ Unsaved(q, db) = Unsaved(p, db) /\ Touched(q, cl) = Touched(p, cl) /\ Now(q) = Now(p)
<1>1. /\ DOMAIN q = PageFields /\ q.config = p.config /\ q.baseline = p.baseline
      /\ q.hydrated = p.hydrated /\ q.moves = p.moves /\ q.read = p.read /\ q.put = p.put
  BY DEF Alike
<1>2. /\ Now(q) = Now(p) /\ Base(q) = Base(p) /\ Out(q) = Out(p) /\ Met(q) = Met(p)
      /\ Got(q) = Got(p) /\ (Saves(q) <=> Saves(p)) /\ (InTime(q) <=> InTime(p))
  BY <1>1 DEF Now, Base, Out, Met, Got, Saves, InTime
<1>3. Fresh(q, db) = Fresh(p, db) /\ Unsaved(q, db) = Unsaved(p, db)
      /\ Touched(q, cl) = Touched(p, cl)
  BY <1>2 DEF Fresh, Unsaved, Touched
<1>4. Holds(p) => Holds(q)
  BY <1>1 DEF Holds
<1>5. Follows(p, srv, rm) => Follows(q, srv, rm)
  BY <1>1, <1>2 DEF Follows
<1>6. ClosedHere(p, srv, cl, db) => ClosedHere(q, srv, cl, db)
  BY <1>1, <1>2 DEF ClosedHere
<1>7. NoReturn(p, srv, db) => NoReturn(q, srv, db)
  BY <1>1, <1>2 DEF NoReturn
<1>8. FreshIsNew(p, srv, db) => FreshIsNew(q, srv, db)
  BY <1>2, <1>3 DEF FreshIsNew
<1> QED BY <1>2, <1>3, <1>4, <1>5, <1>6, <1>7, <1>8 DEF Own

(* What a page may be in the middle of a step that starts a write          *)
Half(p, q, srv, op, rm, cl, db) ==
  Turns(p, q, cl, cl, srv, op, op, rm, db) /\ (Now(p) \ Now(q)) \subseteq rm

LEMMA HalfAlike ==
  ASSUME NEW p, NEW q, NEW r, NEW srv, NEW op, NEW rm, NEW cl, NEW db,
         Half(p, q, srv, op, rm, cl, db), Alike(q, r)
  PROVE  Half(p, r, srv, op, rm, cl, db)
<1>1. /\ Own(q, srv, op, rm, cl, db) => Own(r, srv, op, rm, cl, db)
      /\ Unsaved(r, db) = Unsaved(q, db) /\ Touched(r, cl) = Touched(q, cl) /\ Now(r) = Now(q)
  BY AlikeIsOwn
<1> QED BY <1>1 DEF Half, Turns

LEMMA HalfItself ==
  ASSUME NEW p, NEW srv, NEW op, NEW rm, NEW cl, NEW db, Own(p, srv, op, rm, cl, db)
  PROVE  Half(p, p, srv, op, rm, cl, db)
BY DEF Half, Turns

(* The pieces of the invariant that the steps start from                   *)
LEMMA FromInv ==
  ASSUME ListInv, NEW b \in Browsers
  PROVE  /\ Own(page[b], server, opened, removed, closed[b], doubtful)
         /\ Sound(server) /\ server.rev > 0 /\ TabIds(server) \subseteq opened
         /\ Holds(page[b]) /\ DOMAIN page[b] = PageFields
         /\ page = [c \in Browsers |-> page[c]] /\ closed = [c \in Browsers |-> closed[c]]
         /\ [closed EXCEPT ![b] = closed[b]] = closed
<1>1. /\ Own(page[b], server, opened, removed, closed[b], doubtful)
      /\ Sound(server) /\ server.rev > 0 /\ TabIds(server) \subseteq opened
      /\ page = [c \in Browsers |-> page[c]] /\ closed = [c \in Browsers |-> closed[c]]
  BY DEF ListInv, Kept
<1>2. Holds(page[b]) /\ DOMAIN page[b] = PageFields
  BY <1>1 DEF Own, Holds
<1>3. [closed EXCEPT ![b] = closed[b]] = closed
  BY <1>1
<1> QED BY <1>1, <1>2, <1>3

(* A step of a page that leaves the server alone                           *)
LEMMA PageStep ==
  ASSUME ListInv, NEW b \in Browsers, NEW q, NEW x,
         page' = [page EXCEPT ![b] = q], closed' = [closed EXCEPT ![b] = x],
         server' = server, doubtful' = doubtful, opened \subseteq opened',
         removed \subseteq removed', Shows(page[b], q, removed'),
         Turns(page[b], q, closed[b], x, server, opened, opened', removed', doubtful)
  PROVE  Advances
<1>1. Kept([page EXCEPT ![b] = q], server, opened', removed', [closed EXCEPT ![b] = x], doubtful)
  <2>1. Kept(page, server, opened, removed, closed, doubtful)
    BY DEF ListInv
  <2>2. /\ Own(q, server, opened', removed', x, doubtful)
        /\ Unsaved(q, doubtful) \subseteq Unsaved(page[b], doubtful) \cup (opened' \ opened)
        /\ Touched(q, x) \subseteq
             Touched(page[b], closed[b]) \cup TabIds(server) \cup (opened' \ opened)
    BY DEF Turns
  <2> QED BY <2>1, <2>2, LocalStep
<1>2. ListInv'
  BY <1>1 DEF ListInv
<1>3. TabIds(server) \ TabIds(server') = {}
  OBVIOUS
<1>4. page'[b] = q /\ \A c \in Browsers : c # b => page'[c] = page[c]
  BY FromInv
<1>5. \A c \in Browsers : Shows(page[c], page'[c], removed')
  <2>1. \A c \in Browsers : Shows(page[c], page[c], removed')
    BY DEF Shows
  <2> QED BY <1>4, <2>1
<1> QED BY <1>2, <1>3, <1>5 DEF Advances

(* ... and closes or opens nothing                                         *)
LEMMA QuietStep ==
  ASSUME ListInv, NEW b \in Browsers, NEW q, Set(b, q),
         UNCHANGED <<server, opened, removed, closed, doubtful>>,
         Shows(page[b], q, removed),
         Turns(page[b], q, closed[b], closed[b], server, opened, opened, removed, doubtful)
  PROVE  Advances
<1>1. /\ page' = [page EXCEPT ![b] = q] /\ server' = server /\ opened' = opened
      /\ removed' = removed /\ closed' = closed /\ doubtful' = doubtful
  BY DEF Set
<1>2. closed' = [closed EXCEPT ![b] = closed[b]]
  BY <1>1, FromInv
<1>3. opened \subseteq opened' /\ removed \subseteq removed' /\ Shows(page[b], q, removed')
  BY <1>1
<1>4. Turns(page[b], q, closed[b], closed[b], server, opened, opened', removed', doubtful)
  BY <1>1
<1> QED BY <1>1, <1>2, <1>3, <1>4, PageStep

(* The page with its list asked for, and the outcome k                     *)
Asked(w, n, k) ==
  [w EXCEPT !.put = [[kind |-> "asked", out |-> w.config, count |-> Len(w.moves), attempt |-> n,
                      rev |-> server.rev + 1, current |-> server] EXCEPT !.kind = k]]

(* A write is sent, by the page w, which is p but for the write before it. *)
LEMMA SendStep ==
  ASSUME ListInv, NEW b \in Browsers, NEW w, DOMAIN w = PageFields, NEW p,
         p = [w EXCEPT !.put = NoPut], p.hydrated,
         Half(page[b], p, server, opened, removed, closed[b], doubtful),
         NEW n, Send(b, w, n), UNCHANGED <<opened, removed, closed>>
  PROVE  Advances
<1> DEFINE mid == [page EXCEPT ![b] = p]
<1>1. /\ Own(page[b], server, opened, removed, closed[b], doubtful)
      /\ Sound(server) /\ server.rev > 0 /\ TabIds(server) \subseteq opened
      /\ page = [c \in Browsers |-> page[c]] /\ [closed EXCEPT ![b] = closed[b]] = closed
  BY FromInv
<1>2. /\ Own(p, server, opened, removed, closed[b], doubtful)
      /\ Unsaved(p, doubtful) \subseteq Unsaved(page[b], doubtful)
      /\ Touched(p, closed[b]) \subseteq Touched(page[b], closed[b]) \cup TabIds(server)
      /\ (Now(page[b]) \ Now(p)) \subseteq removed
  BY DEF Half, Turns
<1>3. /\ DOMAIN p = PageFields /\ p.config = w.config /\ p.baseline = w.baseline
      /\ p.hydrated = w.hydrated /\ p.moves = w.moves /\ p.read = w.read /\ p.put = NoPut
  BY DEF PageFields
<1>4. \A k : /\ Sends(p, Asked(w, n, k), server, k) /\ Now(Asked(w, n, k)) = Now(p)
  <2>1. SUFFICES ASSUME NEW k
      PROVE Sends(p, Asked(w, n, k), server, k) /\ Now(Asked(w, n, k)) = Now(p)
    OBVIOUS
  <2> DEFINE q == Asked(w, n, k)
             req == [kind |-> "asked", out |-> w.config, count |-> Len(w.moves), attempt |-> n,
                     rev |-> server.rev + 1, current |-> server]
  <2>2. /\ q.put = [req EXCEPT !.kind = k] /\ DOMAIN q = PageFields /\ q.config = w.config
        /\ q.baseline = w.baseline /\ q.hydrated = w.hydrated /\ q.moves = w.moves
        /\ q.read = w.read
    BY DEF PageFields, Asked
  <2> HIDE DEF q
  <2> QED BY <1>3, <2>2 DEF Sends, Now, q
<1>5. p.config.rev = w.config.rev /\ p.config.rev > 0 /\ p.config.rev \in Nat
  BY <1>2, <1>3 DEF Own, Holds, Sound, Fits, Doc
<1>6. opened' = opened /\ removed' = removed /\ closed' = closed
  OBVIOUS
<1>7. Kept(mid, server, opened, removed, closed, doubtful)
  <2>1. Kept(page, server, opened, removed, closed, doubtful)
    BY DEF ListInv
  <2>2. Kept(mid, server, opened, removed, [closed EXCEPT ![b] = closed[b]], doubtful)
    <3> HIDE DEF mid
    <3>1. mid = [page EXCEPT ![b] = p]
      BY DEF mid
    <3> QED BY <1>2, <2>1, <3>1, LocalStep
  <2> QED BY <1>1, <2>2
<1>8. mid[b] = p /\ \A q : [page EXCEPT ![b] = q] = [mid EXCEPT ![b] = q]
  BY <1>1
<1> HIDE DEF mid
<1>9. ASSUME NEW k \in {"saved", "threw"}, page' = [page EXCEPT ![b] = Asked(w, n, k)],
             ServerTakes(w.config), server' = [w.config EXCEPT !.rev = server.rev + 1],
             doubtful \subseteq doubtful',
             k = "threw" => Now(p) \ Base(p) \subseteq doubtful'
      PROVE  Advances
  <2> DEFINE q == Asked(w, n, k)
             srv2 == server'
             db2 == doubtful'
  <2>1. Sends(p, q, server, k) /\ Now(q) = Now(p)
    BY <1>4, Zenon
  <2>10. db2 = doubtful' /\ srv2 = server' /\ page' = [page EXCEPT ![b] = q]
    BY <1>9
  <2>11. srv2 = [w.config EXCEPT !.rev = server.rev + 1] /\ doubtful \subseteq db2
         /\ (k = "threw" => Now(p) \ Base(p) \subseteq db2) /\ k \in {"saved", "threw"}
    BY <1>9
  <2> HIDE DEF q, srv2, db2
  <2>2. p.config.rev = server.rev
    BY <1>5, <1>9 DEF ServerTakes
  <2>3. srv2 = [p.config EXCEPT !.rev = server.rev + 1]
    BY <1>3, <2>11
  <2>4. Rewrites(p, q, server, srv2, opened, removed, closed[b], doubtful, db2)
    <3>1. Stores(p, q, server, srv2, doubtful, db2, k)
      BY <1>3, <2>1, <2>2, <2>3, <2>11 DEF Stores
    <3> QED BY <1>1, <1>2, <3>1, PageStores
  <2>5. /\ Kept([mid EXCEPT ![b] = q], srv2, opened, removed, closed, db2)
        /\ TabIds(server) \ TabIds(srv2) \subseteq removed
    BY <1>7, <1>8, <2>4, WriteStep
  <2>6. page' = [mid EXCEPT ![b] = q]
    BY <1>8, <2>10
  <2>7. ListInv'
    BY <1>6, <2>5, <2>6, <2>10 DEF ListInv
  <2>8. page'[b] = q /\ \A c \in Browsers : c # b => page'[c] = page[c]
    BY <1>1, <2>10
  <2>9. \A c \in Browsers : Shows(page[c], page'[c], removed')
    <3>1. Shows(page[b], page'[b], removed')
      BY <1>2, <1>6, <2>1, <2>8 DEF Shows
    <3>2. \A c \in Browsers : Shows(page[c], page[c], removed')
      BY DEF Shows
    <3> QED BY <2>8, <3>1, <3>2
  <2> QED BY <1>6, <2>5, <2>7, <2>9, <2>10 DEF Advances
<1>10. ASSUME NEW k \in {"conflict", "skipped", "failed", "threw"},
              page' = [page EXCEPT ![b] = Asked(w, n, k)], server' = server, doubtful' = doubtful,
              k = "conflict" => ~ServerTakes(w.config)
       PROVE  Advances
  <2> DEFINE q == Asked(w, n, k)
  <2>1. Sends(p, q, server, k) /\ Now(q) = Now(p)
    BY <1>4, Zenon
  <2>2. page' = [page EXCEPT ![b] = q]
    BY <1>10
  <2> HIDE DEF q
  <2>3. k = "conflict" => p.config.rev # server.rev
    BY <1>3, <1>10 DEF ServerTakes
  <2>4. Turns(p, q, closed[b], closed[b], server, opened, opened, removed, doubtful)
    BY <1>1, <1>2, <1>3, <1>10, <2>1, <2>3, PageSends
  <2>5. Turns(page[b], q, closed[b], closed[b], server, opened, opened, removed, doubtful)
    BY <1>2, <2>4 DEF Turns
  <2>6. Shows(page[b], q, removed)
    BY <1>2, <2>1 DEF Shows
  <2> QED BY <1>10, <2>2, <2>5, <2>6, QuietStep DEF Set
<1>11. \/ /\ ServerTakes(w.config) /\ server' = [w.config EXCEPT !.rev = server.rev + 1]
          /\ \/ page' = [page EXCEPT ![b] = Asked(w, n, "saved")] /\ doubtful' = doubtful
             \/ /\ page' = [page EXCEPT ![b] = Asked(w, n, "threw")]
                /\ doubtful' = doubtful \cup (TabIds(w.config) \ TabIds(w.baseline))
       \/ /\ ~ServerTakes(w.config) /\ page' = [page EXCEPT ![b] = Asked(w, n, "conflict")]
          /\ server' = server /\ doubtful' = doubtful
       \/ \E k \in {"skipped", "failed", "threw"} :
            /\ page' = [page EXCEPT ![b] = Asked(w, n, k)] /\ server' = server
                 /\ doubtful' = doubtful
  BY Zenon DEF Send, Set, Asked
<1>12. CASE /\ ServerTakes(w.config) /\ server' = [w.config EXCEPT !.rev = server.rev + 1]
            /\ page' = [page EXCEPT ![b] = Asked(w, n, "saved")] /\ doubtful' = doubtful
  BY <1>9, <1>12
<1>13. CASE /\ ServerTakes(w.config) /\ server' = [w.config EXCEPT !.rev = server.rev + 1]
            /\ page' = [page EXCEPT ![b] = Asked(w, n, "threw")]
            /\ doubtful' = doubtful \cup (TabIds(w.config) \ TabIds(w.baseline))
  <2>1. Now(p) \ Base(p) \subseteq doubtful' /\ doubtful \subseteq doubtful'
    BY <1>3, <1>13 DEF Now, Base
  <2> QED BY <1>9, <1>13, <2>1
<1>14. CASE /\ ~ServerTakes(w.config) /\ page' = [page EXCEPT ![b] = Asked(w, n, "conflict")]
            /\ server' = server /\ doubtful' = doubtful
  BY <1>10, <1>14
<1>15. CASE \E k \in {"skipped", "failed", "threw"} :
            /\ page' = [page EXCEPT ![b] = Asked(w, n, k)] /\ server' = server
                 /\ doubtful' = doubtful
  BY <1>10, <1>15
<1> QED BY <1>11, <1>12, <1>13, <1>14, <1>15

(* kick's loop goes round                                                  *)
LEMMA KickStep ==
  ASSUME ListInv, NEW b \in Browsers, NEW p, DOMAIN p = PageFields,
         Half(page[b], p, server, opened, removed, closed[b], doubtful),
         Kick(b, p), UNCHANGED <<opened, removed, closed>>
  PROVE  Advances
<1>1. ASSUME NEW q, Alike(p, q), Set(b, q), UNCHANGED <<server, doubtful>>
      PROVE  Advances
  <2>1. Half(page[b], q, server, opened, removed, closed[b], doubtful)
    BY <1>1, HalfAlike
  <2>2. /\ Turns(page[b], q, closed[b], closed[b], server, opened, opened, removed, doubtful)
        /\ Shows(page[b], q, removed)
    BY <2>1 DEF Half, Shows
  <2> QED BY <1>1, <2>2, QuietStep
<1>2. CASE p.put # NoPut
  <2> DEFINE q == [p EXCEPT !.pending = TRUE]
  <2>1. Alike(p, q)
    BY DEF Alike, PageFields
  <2>2. Set(b, q) /\ UNCHANGED <<server, doubtful>>
    BY <1>2 DEF Kick
  <2> HIDE DEF q
  <2> QED BY <1>1, <2>1, <2>2
<1>3. CASE p.put = NoPut /\ ~Gate(p)
  <2> DEFINE q == [p EXCEPT !.pending = FALSE, !.unsaved = TRUE]
  <2>1. Alike(p, q)
    BY DEF Alike, PageFields
  <2>2. Set(b, q) /\ UNCHANGED <<server, doubtful>>
    BY <1>3 DEF Kick
  <2> HIDE DEF q
  <2> QED BY <1>1, <2>1, <2>2
<1>4. CASE p.put = NoPut /\ Gate(p)
  <2> DEFINE q == [p EXCEPT !.pending = FALSE]
  <2>1. Alike(p, q) /\ q = [q EXCEPT !.put = NoPut]
    BY <1>4 DEF Alike, PageFields
  <2>2. Send(b, q, 0) /\ q.hydrated
    BY <1>4 DEF Kick, Gate
  <2> HIDE DEF q
  <2>3. Half(page[b], q, server, opened, removed, closed[b], doubtful) /\ DOMAIN q = PageFields
    BY <2>1, HalfAlike DEF Alike
  <2> QED BY <2>1, <2>2, <2>3, SendStep
<1> QED BY <1>2, <1>3, <1>4

(* The write is over, for the page w.                                      *)
LEMMA EndsStep ==
  ASSUME ListInv, NEW b \in Browsers, NEW w, NEW p, p = [w EXCEPT !.put = NoPut],
         DOMAIN w = PageFields, Half(page[b], p, server, opened, removed, closed[b], doubtful),
         Ends(b, w), UNCHANGED <<opened, removed, closed>>
  PROVE  Advances
<1>1. DOMAIN p = PageFields
  OBVIOUS
<1>2. CASE w.pending
  <2>1. Kick(b, p)
    BY <1>2 DEF Ends, FlushEnds
  <2> QED BY <1>1, <2>1, KickStep
<1>3. CASE ~w.pending
  <2>1. Set(b, p) /\ UNCHANGED <<server, doubtful>>
    BY <1>3 DEF Ends
  <2>2. /\ Turns(page[b], p, closed[b], closed[b], server, opened, opened, removed, doubtful)
        /\ Shows(page[b], p, removed)
    BY DEF Half, Shows
  <2> QED BY <2>1, <2>2, QuietStep
<1> QED BY <1>2, <1>3

LEMMA TimerStep ==
  ASSUME ListInv, NEW b \in Browsers, TimerFires(b) \/ RetrySave(b)
  PROVE  Advances
<1> DEFINE p == [page[b] EXCEPT !.timer = FALSE]
<1>1. Kick(b, p) /\ UNCHANGED <<opened, removed, closed>>
  BY DEF TimerFires, RetrySave, Keep
<1>2. Alike(page[b], p) /\ DOMAIN p = PageFields
  <2>1. DOMAIN page[b] = PageFields
    BY FromInv
  <2> QED BY <2>1 DEF Alike, PageFields
<1> HIDE DEF p
<1>3. Half(page[b], p, server, opened, removed, closed[b], doubtful)
  BY <1>2, FromInv, HalfItself, HalfAlike
<1> QED BY <1>1, <1>2, <1>3, KickStep

LEMMA SavedStep ==
  ASSUME ListInv, NEW b \in Browsers, Saved(b)
  PROVE  Advances
<1> DEFINE p == page[b]
           w == [p EXCEPT !.config.rev = p.put.rev,
                          !.baseline = [p.put.out EXCEPT !.rev = p.put.rev],
                          !.moves = SubSeq(@, p.put.count + 1, Len(@)), !.unsaved = FALSE]
           q == [w EXCEPT !.put = NoPut]
<1>1. Saves(p) /\ Ends(b, w) /\ UNCHANGED <<opened, removed, closed>>
  BY DEF Saved, Keep, Saves
<1>2. DOMAIN p = PageFields /\ Own(p, server, opened, removed, closed[b], doubtful)
  BY FromInv
<1> HIDE DEF p
<1>3. /\ DOMAIN w = PageFields /\ DOMAIN q = PageFields
      /\ q.config = [p.config EXCEPT !.rev = p.put.rev]
      /\ q.baseline = [p.put.out EXCEPT !.rev = p.put.rev] /\ q.hydrated = p.hydrated
      /\ q.moves = SubSeq(p.moves, p.put.count + 1, Len(p.moves)) /\ q.read = p.read
           /\ q.put = NoPut
  BY <1>2 DEF PageFields
<1>4. q = [w EXCEPT !.put = NoPut]
  OBVIOUS
<1> HIDE DEF w, q
<1>5. Half(p, q, server, opened, removed, closed[b], doubtful)
  BY <1>1, <1>2, <1>3, PageSaved DEF Half
<1> QED BY <1>1, <1>3, <1>4, <1>5, EndsStep DEF p

(* Nothing was stored, and nothing is sent.                                *)
LEMMA UnstoredEnds ==
  ASSUME ListInv, NEW b \in Browsers, ~Saves(page[b]), NEW w,
         w = [page[b] EXCEPT !.unsaved = TRUE], UNCHANGED <<opened, removed, closed>>,
         Ends(b, w) \/ (Set(b, [w EXCEPT !.put = NoPut]) /\ UNCHANGED <<server, doubtful>>)
  PROVE  Advances
<1> DEFINE p == page[b]
           q == [w EXCEPT !.put = NoPut]
<1>1. DOMAIN p = PageFields /\ Own(p, server, opened, removed, closed[b], doubtful)
  BY FromInv
<1>2. /\ DOMAIN w = PageFields /\ DOMAIN q = PageFields /\ q.config = p.config
      /\ q.baseline = p.baseline /\ q.hydrated = p.hydrated /\ q.moves = p.moves
      /\ q.read = p.read /\ q.put = NoPut
  BY <1>1 DEF PageFields
<1>3. q = [w EXCEPT !.put = NoPut] /\ (Ends(b, w) \/ (Set(b, q) /\ UNCHANGED <<server, doubtful>>))
  OBVIOUS
<1> HIDE DEF p, q
<1>4. Turns(p, q, closed[b], closed[b], server, opened, opened, removed, doubtful)
  BY <1>1, <1>2, PageEnds DEF p
<1>5. Half(p, q, server, opened, removed, closed[b], doubtful) /\ Shows(p, q, removed)
  BY <1>2, <1>4 DEF Half, Now, Shows
<1>6. CASE Ends(b, w)
  BY <1>2, <1>3, <1>5, <1>6, EndsStep DEF p
<1>7. CASE Set(b, q) /\ UNCHANGED <<server, doubtful>>
  BY <1>4, <1>5, <1>7, QuietStep DEF p
<1> QED BY <1>3, <1>6, <1>7

LEMMA NotSavedStep ==
  ASSUME ListInv, NEW b \in Browsers, NotSaved(b)
  PROVE  Advances
<1> DEFINE w == [page[b] EXCEPT !.unsaved = TRUE]
<1>1. page[b].put.kind \in {"skipped", "failed", "threw"} /\ UNCHANGED <<opened, removed, closed>>
  BY DEF NotSaved, Keep
<1>2. ~Saves(page[b])
  BY <1>1 DEF Saves
<1>3. Ends(b, w) \/ (Set(b, [w EXCEPT !.put = NoPut]) /\ UNCHANGED <<server, doubtful>>)
  BY Zenon DEF NotSaved
<1> HIDE DEF w
<1>4. w = [page[b] EXCEPT !.unsaved = TRUE]
  BY DEF w
<1> QED BY <1>1, <1>2, <1>3, <1>4, UnstoredEnds

LEMMA ConflictStep ==
  ASSUME ListInv, NEW b \in Browsers, Conflict(b)
  PROVE  Advances
<1> DEFINE p == page[b]
           d == p.put.current
           m == MergeWorkbench(p.baseline, p.config, d, p.moves)
           w == [p EXCEPT !.baseline = d, !.config = m]
           q == [w EXCEPT !.put = NoPut]
           u == [p EXCEPT !.unsaved = TRUE]
<1>1. p.put.kind = "conflict" /\ UNCHANGED <<opened, removed, closed>>
  BY DEF Conflict, Keep
<1>2. Ends(b, u) \/ Send(b, w, p.put.attempt + 1)
  BY Zenon DEF Conflict
<1>3. /\ DOMAIN p = PageFields /\ Own(p, server, opened, removed, closed[b], doubtful)
      /\ Holds(p)
  BY FromInv
<1>4. ~Saves(p)
  BY <1>1 DEF Saves
<1>5. CASE Ends(b, u)
  <2>1. u = [page[b] EXCEPT !.unsaved = TRUE]
    OBVIOUS
  <2> HIDE DEF u
  <2> QED BY <1>1, <1>4, <1>5, <2>1, UnstoredEnds
<1>6. CASE Send(b, w, p.put.attempt + 1)
  <2> HIDE DEF p, m, u
  <2>1. /\ DOMAIN w = PageFields /\ DOMAIN q = PageFields /\ q.config = m /\ q.baseline = d
        /\ q.hydrated = p.hydrated /\ q.moves = p.moves /\ q.read = p.read /\ q.put = NoPut
    BY <1>3 DEF PageFields
  <2>2. q = [w EXCEPT !.put = NoPut]
    OBVIOUS
  <2> HIDE DEF w, q
  <2>3. p.put # NoPut /\ p.hydrated
    BY <1>1, <1>3, Nothing DEF Holds
  <2>4. /\ Sound(d) /\ p.config # NoDoc /\ p.read.kind # "load" /\ d.rev > p.baseline.rev
        /\ Agrees(d.rev, TabIds(d), server, removed)
        /\ (Base(p) \ TabIds(d)) \subseteq removed
    <3>1. Follows(p, server, removed) /\ Met(p) = TabIds(d)
      BY <1>3, <2>3 DEF Own, Met
    <3> QED BY <1>1, <1>3, <2>3, <3>1, Nothing DEF Follows, Holds
  <2>5. d.rev > 0
    <3>1. d.rev \in Nat /\ p.baseline.rev \in Nat
      BY <1>3, <2>3, <2>4 DEF Holds, Sound, Fits, Doc
    <3> QED BY <2>4, <3>1
  <2>6. /\ ((closed[b] \ doubtful) \cap TabIds(d)) \subseteq Base(p)
        /\ ((Base(p) \cap TabIds(server)) \ doubtful) \subseteq TabIds(d)
        /\ TabIds(d) \subseteq Touched(p, closed[b])
    BY <1>1, <1>3, <2>3 DEF Own, ClosedHere, NoReturn, Met, Touched
  <2> HIDE DEF d
  <2>7. q.hydrated = TRUE
    BY <1>3, <2>1, <2>3 DEF Holds
  <2>8. /\ Turns(p, q, closed[b], closed[b], server, opened, opened, removed, doubtful)
        /\ (Now(p) \ Now(q)) \subseteq removed
    <3>1. Mergeable(p, d, server, removed, closed[b], doubtful)
      BY <1>4, <2>4, <2>5, <2>6 DEF Mergeable
    <3>2. Merges(p, q, d)
      BY <2>1, <2>4, <2>7 DEF Merges, m
    <3> QED BY <1>3, <3>1, <3>2, PageMerges
  <2>9. Half(p, q, server, opened, removed, closed[b], doubtful)
    BY <2>8 DEF Half
  <2> QED BY <1>1, <1>6, <2>1, <2>2, <2>7, <2>9, SendStep DEF p
<1> QED BY <1>2, <1>5, <1>6

LEMMA LoadStep ==
  ASSUME ListInv, NEW b \in Browsers, Load(b)
  PROVE  Advances
<1> DEFINE p == page[b]
           q == [p EXCEPT !.config = server, !.baseline = server, !.hydrated = TRUE,
                          !.read = NoRead]
           z == [p EXCEPT !.config = DefaultConfig(b), !.baseline = NoDoc, !.hydrated = FALSE,
                          !.read = NoRead]
<1>1. p.read.kind = "load" /\ UNCHANGED <<server, opened, removed, closed, doubtful>>
  BY DEF Load, Keep
<1>2. /\ DOMAIN p = PageFields /\ Own(p, server, opened, removed, closed[b], doubtful)
      /\ Holds(p) /\ Sound(server) /\ server.rev > 0 /\ TabIds(server) \subseteq opened
  BY FromInv
<1>3. server # NoDoc
  BY <1>2, Nothing
<1>4. Set(b, q) \/ Set(b, z)
  BY <1>3, Zenon DEF Load, Fetched
<1>5. p.config = NoDoc /\ ~p.hydrated /\ p.put = NoPut /\ p.baseline = NoDoc /\ p.moves = <<>>
  BY <1>1, <1>2, Nothing DEF Holds
<1>6. Now(p) = {}
  BY <1>5, Nothing DEF Now
<1>7. Shows(p, q, removed) /\ Shows(p, z, removed)
  BY <1>6 DEF Shows
<1>8. CASE Set(b, q)
  <2>1. q = [p EXCEPT !.config = server, !.baseline = server, !.hydrated = TRUE, !.read = NoRead]
    OBVIOUS
  <2> HIDE DEF p, q
  <2>2. Turns(p, q, closed[b], closed[b], server, opened, opened, removed, doubtful)
    BY <1>1, <1>2, <2>1, PageLoads
  <2> QED BY <1>1, <1>7, <1>8, <2>2, QuietStep DEF p
<1>9. CASE Set(b, z)
  <2> HIDE DEF p
  <2>1. /\ DOMAIN z = PageFields /\ z.hydrated = FALSE /\ z.moves = <<>> /\ z.baseline = NoDoc
        /\ z.put = NoPut /\ z.config = DefaultConfig(b) /\ z.read = NoRead
    BY <1>2, <1>5 DEF PageFields
  <2> HIDE DEF z
  <2>2. Sound(z.config) /\ TabIds(z.config) = {}
    BY <2>1, DefaultIsSound
  <2>3. Turns(p, z, closed[b], closed[b], server, opened, opened, removed, doubtful)
    BY <1>2, <1>5, <2>1, <2>2, PageBegins
  <2> QED BY <1>1, <1>7, <1>9, <2>3, QuietStep DEF p
<1> QED BY <1>4, <1>8, <1>9

LEMMA ReloadStep ==
  ASSUME ListInv, NEW b \in Browsers, Reload(b)
  PROVE  Advances
<1> DEFINE p == page[b]
           z == NewPage(b)
<1>1. /\ page' = [page EXCEPT ![b] = z] /\ closed' = [closed EXCEPT ![b] = {}]
      /\ server' = server /\ doubtful' = doubtful /\ opened' = opened /\ removed' = removed
  BY DEF Reload, Set
<1>2. Own(p, server, opened, removed, closed[b], doubtful)
  BY FromInv
<1>3. /\ DOMAIN z = PageFields /\ z.hydrated = FALSE /\ z.moves = <<>> /\ z.baseline = NoDoc
      /\ z.put = NoPut /\ z.config = NoDoc /\ z.read.kind = "load"
  BY DEF NewPage, PageFields
<1> HIDE DEF p, z
<1>4. Shows(p, z, removed') /\ TabIds(z.config) = {}
  BY <1>3, Nothing DEF Shows
<1>5. Turns(p, z, closed[b], {}, server, opened, opened, removed, doubtful)
  BY <1>2, <1>3, <1>4, PageBegins
<1>6. /\ opened \subseteq opened' /\ removed \subseteq removed'
      /\ Turns(p, z, closed[b], {}, server, opened, opened', removed', doubtful)
  BY <1>1, <1>5
<1> QED BY <1>1, <1>4, <1>6, PageStep DEF p

LEMMA ResyncStep ==
  ASSUME ListInv, NEW b \in Browsers, ResyncAsks(b) \/ ResyncAnswered(b)
  PROVE  Advances
<1> DEFINE p == page[b]
           d == p.read.got
           a == [p EXCEPT !.read = [kind |-> "resync", base |-> p.baseline, got |-> server]]
           q == [p EXCEPT !.read = NoRead]
           m == MergeWorkbench(q.baseline, q.config, d, q.moves)
           r == [q EXCEPT !.hydrated = TRUE, !.baseline = d, !.config = m]
<1>1. UNCHANGED <<server, opened, removed, closed, doubtful>>
  BY DEF ResyncAsks, ResyncAnswered, Keep
<1>2. /\ DOMAIN p = PageFields /\ Own(p, server, opened, removed, closed[b], doubtful)
      /\ Holds(p) /\ Sound(server) /\ server.rev > 0 /\ TabIds(server) \subseteq opened
  BY FromInv
<1>3. server # NoDoc
  BY <1>2, Nothing
<1>4. \/ p.read = NoRead /\ p.put = NoPut /\ Set(b, a)
      \/ p.read.kind = "resync" /\ Set(b, q)
      \/ p.read.kind = "resync" /\ ~Overtaken(p) /\ Set(b, r)
  <2>1. CASE ResyncAsks(b)
    BY <1>3, <2>1, Zenon DEF ResyncAsks, Fetched
  <2>2. CASE ResyncAnswered(b)
    BY <2>2, Zenon DEF ResyncAnswered
  <2> QED BY <2>1, <2>2
<1>5. CASE p.read = NoRead /\ p.put = NoPut /\ Set(b, a)
  <2>1. /\ a = [p EXCEPT !.read = [kind |-> "resync", base |-> p.baseline, got |-> server]]
        /\ a.config = p.config
    BY <1>2 DEF PageFields
  <2> HIDE DEF p, a
  <2>2. Turns(p, a, closed[b], closed[b], server, opened, opened, removed, doubtful)
    BY <1>2, <1>5, <2>1, PageAsks
  <2>3. Shows(p, a, removed)
    BY <2>1 DEF Shows, Now
  <2> QED BY <1>1, <1>5, <2>2, <2>3, QuietStep DEF p
<1>6. CASE p.read.kind = "resync" /\ Set(b, q)
  <2>1. q = [p EXCEPT !.read = NoRead] /\ q.config = p.config
    BY <1>2 DEF PageFields
  <2> HIDE DEF p, q
  <2>2. Turns(p, q, closed[b], closed[b], server, opened, opened, removed, doubtful)
    BY <1>2, <1>6, <2>1, PageDrops
  <2>3. Shows(p, q, removed)
    BY <2>1 DEF Shows, Now
  <2> QED BY <1>1, <1>6, <2>2, <2>3, QuietStep DEF p
<1>7. CASE p.read.kind = "resync" /\ ~Overtaken(p) /\ Set(b, r)
  <2>1. p.put = NoPut /\ p.read.base = p.baseline
    BY <1>7 DEF Overtaken
  <2>2. InTime(p) /\ ~Saves(p)
    BY <1>7, <2>1, Nothing DEF InTime, Saves
  <2> HIDE DEF p
  <2>10. q.baseline = p.baseline /\ q.config = p.config /\ q.moves = p.moves
    BY <1>2 DEF PageFields
  <2>3. /\ DOMAIN r = PageFields /\ r.config = m /\ r.baseline = d /\ r.hydrated = TRUE
        /\ r.moves = p.moves /\ r.read = NoRead /\ r.put = NoPut
    <3> HIDE DEF m, d
    <3> QED BY <1>2, <2>1 DEF PageFields
  <2>4. m = MergeWorkbench(p.baseline, p.config, d, p.moves)
    <3> HIDE DEF q, d
    <3> QED BY <2>10
  <2> HIDE DEF r, q, m
  <2>5. /\ Sound(d) /\ d.rev > 0 /\ p.config # NoDoc
        /\ Agrees(d.rev, TabIds(d), server, removed)
        /\ (Base(p) \ TabIds(d)) \subseteq removed
    <3>1. Follows(p, server, removed) /\ Got(p) = TabIds(d)
      BY <1>2, <1>7 DEF Own, Got
    <3> QED BY <1>2, <1>7, <2>1, <3>1, Nothing DEF Follows, Holds, Base
  <2>6. /\ ((closed[b] \ doubtful) \cap TabIds(d)) \subseteq Base(p)
        /\ ((Base(p) \cap TabIds(server)) \ doubtful) \subseteq TabIds(d)
        /\ TabIds(d) \subseteq Touched(p, closed[b])
    BY <1>2, <1>7, <2>2 DEF Own, ClosedHere, NoReturn, Got, Touched
  <2> HIDE DEF d
  <2>7. r.read.kind # "load" /\ ~(r.read # NoRead)
    BY <2>3, Nothing
  <2>8. /\ Turns(p, r, closed[b], closed[b], server, opened, opened, removed, doubtful)
        /\ (Now(p) \ Now(r)) \subseteq removed
    <3>1. Mergeable(p, d, server, removed, closed[b], doubtful)
      BY <2>2, <2>5, <2>6 DEF Mergeable
    <3>2. Merges(p, r, d)
      BY <2>3, <2>4, <2>7 DEF Merges
    <3> QED BY <1>2, <3>1, <3>2, PageMerges
  <2>9. Shows(p, r, removed)
    BY <2>8 DEF Shows
  <2> QED BY <1>1, <1>7, <2>8, <2>9, QuietStep DEF p
<1> QED BY <1>4, <1>5, <1>6, <1>7

(* What an edit does to the list: new tabs are opened, others closed.      *)
Edits(p, q, new, gone) ==
  /\ p.config # NoDoc /\ DOMAIN q = PageFields /\ q.baseline = p.baseline
  /\ q.hydrated = p.hydrated /\ q.read = p.read /\ q.put = p.put /\ q.timer
  /\ Sound(q.config) /\ q.config.rev = p.config.rev /\ SameGroups(p.config, q.config)
  /\ q.moves \in Seq(Move) /\ Len(q.moves) >= Len(p.moves)
  /\ gone \subseteq Now(p) /\ Now(q) = (Now(p) \cup new) \ gone

Changes(b, q, new, gone) ==
  /\ Edits(page[b], q, new, gone) /\ new \cap opened = {} /\ Set(b, q)
  /\ UNCHANGED <<server, doubtful>> /\ opened' = opened \cup new /\ removed' = removed \cup gone
  /\ closed' = [closed EXCEPT ![b] = closed[b] \cup gone]
(* An edit does that, one way or another.                                  *)
Alters(b) == \E q, new, gone : Changes(b, q, new, gone)

LEMMA EditStep ==
  ASSUME ListInv, NEW b \in Browsers, Alters(b)
  PROVE  Advances
<1> DEFINE p == page[b]
<1>0. PICK q, new, gone : Changes(b, q, new, gone)
  BY DEF Alters
<1>1. /\ Own(p, server, opened, removed, closed[b], doubtful) /\ TabIds(server) \subseteq opened
  BY FromInv
<1>2. /\ p.config # NoDoc /\ DOMAIN q = PageFields /\ q.baseline = p.baseline
      /\ q.hydrated = p.hydrated /\ q.read = p.read /\ q.put = p.put
      /\ Sound(q.config) /\ q.config.rev = p.config.rev
      /\ q.moves \in Seq(Move) /\ Len(q.moves) >= Len(p.moves)
      /\ gone \subseteq Now(p) /\ Now(q) = (Now(p) \cup new) \ gone
  BY <1>0 DEF Changes, Edits
<1> HIDE DEF p
<1>7. /\ new \cap opened = {} /\ page' = [page EXCEPT ![b] = q] /\ server' = server
      /\ doubtful' = doubtful /\ opened' = opened \cup new /\ removed' = removed \cup gone
      /\ closed' = [closed EXCEPT ![b] = closed[b] \cup gone]
  BY <1>0 DEF Changes, Set
<1>3. /\ Turns(p, q, closed[b], closed[b] \cup gone, server, opened, opened \cup new,
               removed \cup gone, doubtful)
      /\ (Now(p) \ Now(q)) \subseteq gone
  BY <1>1, <1>2, <1>7, PageEdits
<1>4. Shows(p, q, removed') /\ opened \subseteq opened' /\ removed \subseteq removed'
  BY <1>3, <1>7 DEF Shows
<1>5. Turns(p, q, closed[b], closed[b] \cup gone, server, opened, opened', removed', doubtful)
  BY <1>3, <1>7
<1> QED BY <1>4, <1>5, <1>7, PageStep DEF p

(* An edit that opens and closes nothing                                   *)
LEMMA SameTabsChange ==
  ASSUME ListInv, NEW b \in Browsers, NEW q, Edits(page[b], q, {}, {}), Set(b, q),
         UNCHANGED <<server, opened, removed, closed, doubtful>>
  PROVE  Alters(b)
<1>1. closed' = [closed EXCEPT ![b] = closed[b] \cup {}]
  BY FromInv
<1>2. opened' = opened \cup {} /\ removed' = removed \cup {} /\ {} \cap opened = {}
  OBVIOUS
<1> QED BY <1>1, <1>2 DEF Alters, Changes

(* An edit puts another document on the page.                              *)
LEMMA EditsPage ==
  ASSUME ListInv, NEW b \in Browsers, page[b].config # NoDoc, NEW d, Sound(d),
         d.rev = page[b].config.rev, SameGroups(page[b].config, d),
         NEW new, NEW gone, gone \subseteq Now(page[b]),
         TabIds(d) = (Now(page[b]) \cup new) \ gone
  PROVE  Edits(page[b], [page[b] EXCEPT !.config = d, !.timer = TRUE], new, gone)
<1> DEFINE p == page[b]
           q == [p EXCEPT !.config = d, !.timer = TRUE]
<1>1. DOMAIN p = PageFields /\ Holds(p)
  BY FromInv
<1>4. SameGroups(p.config, d)
  OBVIOUS
<1> HIDE DEF p
<1>2. /\ DOMAIN q = PageFields /\ q.baseline = p.baseline /\ q.hydrated = p.hydrated
      /\ q.read = p.read /\ q.put = p.put /\ q.config = d /\ q.moves = p.moves /\ q.timer = TRUE
  BY <1>1 DEF PageFields
<1> HIDE DEF q
<1>3. q.moves \in Seq(Move) /\ Len(q.moves) >= Len(p.moves)
  <2>1. p.moves \in Seq(Move)
    BY <1>1 DEF Holds
  <2>2. Len(p.moves) \in Nat
    BY <2>1
  <2> QED BY <1>2, <2>1, <2>2
<1> QED BY <1>2, <1>3, <1>4 DEF Edits, Now, p, q

(* A list that an edit finds is a sound one, and its tabs are open ones.   *)
LEMMA EditedList ==
  ASSUME ListInv, NEW b \in Browsers, Ready(b)
  PROVE  /\ page[b].config # NoDoc /\ Sound(page[b].config) /\ Holds(page[b])
         /\ Now(page[b]) = TabIds(page[b].config) /\ TabIds(page[b].config) \subseteq opened
<1>1. /\ Own(page[b], server, opened, removed, closed[b], doubtful) /\ Holds(page[b])
      /\ page[b].config # NoDoc
  BY FromInv DEF Ready
<1>2. Touched(page[b], closed[b]) \subseteq opened
  BY <1>1 DEF Own
<1> QED BY <1>1, <1>2 DEF Holds, Now, Touched

LEMMA AddChange ==
  ASSUME ListInv, NEW b \in Browsers, NEW t \in Tabs, NEW i, NEW a \in BOOLEAN, AddTab(b, t, i, a)
  PROVE  Alters(b)
<1> DEFINE cfg == page[b].config
           g == cfg.groups[i].id
           d == [cfg EXCEPT !.groups[i].tabs = Append(@, [id |-> t, group |-> g, name |-> ""])]
           f == [d EXCEPT !.activeGroup = g, !.activeTab = t]
           e == IF a THEN f ELSE d
           q == [page[b] EXCEPT !.config = e, !.timer = TRUE]
<1>1. /\ Ready(b) /\ t \notin opened /\ i \in DOMAIN cfg.groups
      /\ Set(b, q) /\ UNCHANGED <<server, doubtful>>
      /\ opened' = opened \cup {t} /\ UNCHANGED <<removed, closed>>
  BY Zenon DEF AddTab, Edited
<1>2. /\ cfg # NoDoc /\ Sound(cfg) /\ Now(page[b]) = TabIds(cfg) /\ TabIds(cfg) \subseteq opened
  BY <1>1, EditedList
<1>3. /\ Sound(d) /\ d.rev = cfg.rev /\ TabIds(d) = TabIds(cfg) \cup {t}
      /\ SameGroups(cfg, d)
  <2> DEFINE r == Relisted(cfg, i, Append(cfg.groups[i].tabs, [id |-> t, group |-> g, name |-> ""]))
  <2>1. d = r
    BY DEF Relisted
  <2>2. t \notin TabIds(cfg)
    BY <1>1, <1>2
  <2> HIDE DEF d
  <2>3. /\ Sound(r) /\ r.rev = cfg.rev /\ TabIds(r) = TabIds(cfg) \cup {t}
        /\ SameGroups(cfg, r)
    <3> HIDE DEF cfg
    <3> QED BY <1>1, <1>2, <2>2, TabAdded
  <2> QED BY <2>1, <2>3
<1>4. Sound(f) /\ f.rev = cfg.rev /\ TabIds(f) = TabIds(d) /\ f.groups = d.groups
  <2>1. g \in Owners
    <3>1. GroupsFit(cfg.groups)
      BY <1>2 DEF Sound, Fits
    <3> QED BY <1>1, <3>1, FitGroups
  <2> HIDE DEF g, d
  <2>2. t \in Tabs \cup {""} /\ g \in Owners \cup {""}
    BY <2>1
  <2>3. Sound(f) /\ f.rev = d.rev /\ TabIds(f) = TabIds(d) /\ f.groups = d.groups
    BY <1>3, <2>2, Activated
  <2> QED BY <1>3, <2>3
<1> HIDE DEF f, d
<1>5. Sound(e) /\ e.rev = cfg.rev /\ TabIds(e) = (Now(page[b]) \cup {t}) \ {}
  BY <1>2, <1>3, <1>4
<1>8. SameGroups(cfg, e)
  BY <1>3, <1>4 DEF SameGroups
<1> HIDE DEF e
<1>6. Edits(page[b], q, {t}, {})
  BY <1>2, <1>5, <1>8, EditsPage
<1> HIDE DEF q
<1>7. /\ {t} \cap opened = {} /\ removed' = removed \cup {}
      /\ closed' = [closed EXCEPT ![b] = closed[b] \cup {}]
  BY <1>1, FromInv
<1> QED BY <1>1, <1>6, <1>7 DEF Alters, Changes

LEMMA RemoveChange ==
  ASSUME ListInv, NEW b \in Browsers, NEW t \in Tabs, RemoveTab(b, t)
  PROVE  Alters(b)
<1> DEFINE cfg == page[b].config
           i == GroupOf(cfg, t)
           at == Place(cfg, t)
           rest == RemoveAt(cfg.groups[i].tabs, at)
           d == [cfg EXCEPT !.groups[i].tabs = rest]
           next == IF rest = <<>> THEN "" ELSE rest[IF at = 1 THEN 1 ELSE at - 1].id
           f == [d EXCEPT !.activeTab = next]
           e == IF cfg.activeTab = t THEN f ELSE d
           q == [page[b] EXCEPT !.config = e, !.timer = TRUE]
<1>1. /\ Ready(b) /\ t \in TabIds(cfg)
      /\ Set(b, q) /\ UNCHANGED <<server, doubtful>> /\ opened' = opened
      /\ removed' = removed \cup {t} /\ closed' = [closed EXCEPT ![b] = closed[b] \cup {t}]
  BY Zenon DEF RemoveTab, Edited, Place
<1>2. /\ cfg # NoDoc /\ Sound(cfg) /\ Now(page[b]) = TabIds(cfg) /\ TabIds(cfg) \subseteq opened
  BY <1>1, EditedList
<1> HIDE DEF at
<1>3. /\ Sound(d) /\ d.rev = cfg.rev /\ TabIds(d) = TabIds(cfg) \ {t}
      /\ SameGroups(cfg, d) /\ next \in Tabs \cup {""}
  <2> DEFINE r == Relisted(cfg, i, rest)
  <2>1. d = r
    BY DEF Relisted
  <2> HIDE DEF d
  <2>2. /\ Sound(r) /\ r.rev = cfg.rev /\ TabIds(r) = TabIds(cfg) \ {t}
        /\ SameGroups(cfg, r) /\ next \in Tabs \cup {""}
    <3> HIDE DEF cfg
    <3> QED BY <1>1, <1>2, TabRemoved, Zenon DEF at
  <2> QED BY <2>1, <2>2
<1> HIDE DEF next, d
<1>4. Sound(f) /\ f.rev = cfg.rev /\ TabIds(f) = TabIds(d) /\ f.groups = d.groups
  <2>1. "" \in Owners \cup {""}
    OBVIOUS
  <2>2. Sound(f) /\ f.rev = d.rev /\ TabIds(f) = TabIds(d) /\ f.groups = d.groups
    BY <1>3, <2>1, Activated
  <2> QED BY <1>3, <2>2
<1> HIDE DEF f
<1>5. Sound(e) /\ e.rev = cfg.rev /\ TabIds(e) = (Now(page[b]) \cup {}) \ {t}
  BY <1>2, <1>3, <1>4
<1>9. SameGroups(cfg, e)
  BY <1>3, <1>4 DEF SameGroups
<1> HIDE DEF e
<1>6. {t} \subseteq Now(page[b])
  BY <1>1, <1>2
<1>7. Edits(page[b], q, {}, {t})
  BY <1>2, <1>5, <1>6, <1>9, EditsPage
<1> HIDE DEF q
<1>8. {} \cap opened = {} /\ opened' = opened \cup {}
  BY <1>1
<1> QED BY <1>1, <1>7, <1>8 DEF Alters, Changes

(* An edit that puts the document d on the page, with the same tabs        *)
LEMMA SameTabs ==
  ASSUME ListInv, NEW b \in Browsers, Ready(b), NEW d, Sound(d), d.rev = page[b].config.rev,
         TabIds(d) = TabIds(page[b].config), SameGroups(page[b].config, d),
         Edited(b, d), UNCHANGED <<opened, removed, closed>>
  PROVE  Alters(b)
<1> DEFINE q == [page[b] EXCEPT !.config = d, !.timer = TRUE]
<1>1. page[b].config # NoDoc /\ Now(page[b]) = TabIds(page[b].config)
  BY EditedList
<1>2. TabIds(d) = (Now(page[b]) \cup {}) \ {} /\ {} \subseteq Now(page[b])
  BY <1>1
<1>3. Edits(page[b], q, {}, {})
  BY <1>1, <1>2, EditsPage
<1>4. Set(b, q) /\ UNCHANGED <<server, opened, removed, closed, doubtful>>
  BY DEF Edited
<1> HIDE DEF q
<1> QED BY <1>3, <1>4, SameTabsChange

LEMMA NameChange ==
  ASSUME ListInv, NEW b \in Browsers, NEW t \in Tabs, NEW n \in Names,
         RenameTab(b, t, n) \/ AdoptName(b, t, n)
  PROVE  Alters(b)
<1> DEFINE cfg == page[b].config
           d == SetName(cfg, t, n)
<1>1. /\ Ready(b) /\ t \in TabIds(cfg) /\ Edited(b, d) /\ UNCHANGED <<opened, removed, closed>>
  BY DEF RenameTab, AdoptName
<1>2. Sound(cfg)
  BY <1>1, EditedList
<1>3. Sound(d) /\ d.rev = cfg.rev /\ TabIds(d) = TabIds(cfg) /\ SameGroups(cfg, d)
  BY <1>1, <1>2, TabNamed
<1> HIDE DEF d
<1> QED BY <1>1, <1>3, SameTabs

LEMMA ActiveChange ==
  ASSUME ListInv, NEW b \in Browsers, NEW t \in Tabs, SetActiveTab(b, t)
  PROVE  Alters(b)
<1> DEFINE cfg == page[b].config
           g == cfg.groups[GroupOf(cfg, t)].id
           d == [cfg EXCEPT !.activeTab = t, !.activeGroup = g]
<1>1. /\ Ready(b) /\ t \in TabIds(cfg) /\ Edited(b, d) /\ UNCHANGED <<opened, removed, closed>>
  BY DEF SetActiveTab
<1>2. Sound(cfg)
  BY <1>1, EditedList
<1>3. g \in Owners
  BY <1>1, <1>2, GroupOfFacts
<1> HIDE DEF g
<1>4. Sound(d) /\ d.rev = cfg.rev /\ TabIds(d) = TabIds(cfg) /\ SameGroups(cfg, d)
  <2> HIDE DEF cfg
  <2>1. Sound(d) /\ d.rev = cfg.rev /\ TabIds(d) = TabIds(cfg) /\ d.groups = cfg.groups
    BY <1>2, <1>3, ActivatedTab
  <2> QED BY <2>1 DEF SameGroups
<1> HIDE DEF d
<1> QED BY <1>1, <1>4, SameTabs

LEMMA FoldChange ==
  ASSUME ListInv, NEW b \in Browsers, NEW i, ToggleGroupCollapsed(b, i)
  PROVE  Alters(b)
<1> DEFINE cfg == page[b].config
           d == [cfg EXCEPT !.groups[i].folded = ~@]
<1>1. /\ Ready(b) /\ i \in DOMAIN cfg.groups /\ Edited(b, d)
      /\ UNCHANGED <<opened, removed, closed>>
  BY DEF ToggleGroupCollapsed
<1>2. Sound(cfg)
  BY <1>1, EditedList
<1>3. Sound(d) /\ d.rev = cfg.rev /\ TabIds(d) = TabIds(cfg) /\ SameGroups(cfg, d)
  <2> HIDE DEF cfg
  <2> QED BY <1>1, <1>2, GroupFolded
<1> HIDE DEF d
<1> QED BY <1>1, <1>3, SameTabs

LEMMA Remembered ==
  ASSUME NEW s \in Seq(Move), NEW m \in Move
  PROVE  Append(s, m) \in Seq(Move) /\ Len(Append(s, m)) >= Len(s)
<1>1. Append(s, m) \in Seq(Move) /\ Len(Append(s, m)) = Len(s) + 1 /\ Len(s) \in Nat
  OBVIOUS
<1> QED BY <1>1

LEMMA ReorderChange ==
  ASSUME ListInv, NEW b \in Browsers, NEW t \in Tabs, NEW target \in Tabs \cup {""},
         ReorderTabs(b, t, target)
  PROVE  Alters(b)
<1> DEFINE p == page[b]
           cfg == p.config
           move == [group |-> cfg.groups[GroupOf(cfg, t)].id, tab |-> t, before |-> target]
           moved == MoveInGroups(cfg.groups, move)
           d == [cfg EXCEPT !.groups = moved]
           q == [p EXCEPT !.config.groups = moved, !.timer = TRUE, !.moves = Append(@, move)]
<1>1. /\ Ready(b) /\ t \in TabIds(cfg) /\ Set(b, q)
      /\ UNCHANGED <<server, opened, removed, closed, doubtful>>
  BY Zenon DEF ReorderTabs, wbHistory
<1>2. /\ Sound(cfg) /\ cfg # NoDoc /\ Holds(p) /\ Now(p) = TabIds(cfg) /\ DOMAIN p = PageFields
  BY <1>1, EditedList, FromInv
<1>3. Sound(d) /\ d.rev = cfg.rev /\ TabIds(d) = TabIds(cfg) /\ SameGroups(cfg, d)
  <2> HIDE DEF cfg, move
  <2> QED BY <1>2, TabMoved
<1>4. move \in Move
  <2>1. cfg.groups[GroupOf(cfg, t)].id \in Owners
    BY <1>1, <1>2, GroupOfFacts
  <2> QED BY <2>1 DEF Move
<1> HIDE DEF p, move, moved
<1>5. /\ DOMAIN q = PageFields /\ q.baseline = p.baseline /\ q.hydrated = p.hydrated
      /\ q.read = p.read /\ q.put = p.put /\ q.config = d /\ q.moves = Append(p.moves, move)
      /\ q.timer = TRUE
  BY <1>2 DEF PageFields
<1> HIDE DEF q, d
<1>6. q.moves \in Seq(Move) /\ Len(q.moves) >= Len(p.moves)
  <2>1. p.moves \in Seq(Move)
    BY <1>2 DEF Holds
  <2>2. /\ Append(p.moves, move) \in Seq(Move)
        /\ Len(Append(p.moves, move)) >= Len(p.moves)
    BY <1>4, <2>1, Remembered, Zenon
  <2> QED BY <1>5, <2>2
<1>7. Edits(p, q, {}, {})
  BY <1>2, <1>3, <1>5, <1>6 DEF Edits, Now
<1> QED BY <1>1, <1>7, SameTabsChange DEF p

-----------------------------------------------------------------------------
(* The browsers begin with nothing read, and the server with its list.     *)
LEMMA ListBegins ==
  ASSUME Stored, WbInit
  PROVE  ListInv
<1> DEFINE T == {[id |-> t, group |-> "g", name |-> ""] : t \in FirstTabs}
           s == SetToSeq(T)
           g == [id |-> "g", folded |-> FALSE, tabs |-> s]
<1>1. /\ server = [rev |-> 1, activeTab |-> "", activeGroup |-> "g", groups |-> <<g>>]
      /\ page = [b \in Browsers |-> NewPage(b)] /\ closed = [b \in Browsers |-> {}]
      /\ opened = FirstTabs /\ removed = {} /\ doubtful = {}
  BY DEF WbInit
<1>2. s \in Seq(Tab) /\ Distinct(s) /\ Ids(s) \subseteq FirstTabs
  BY FirstTabsListed
<1> HIDE DEF T, s
<1>3. "g" \in Owners /\ g \in Group /\ g.tabs = s
  BY <1>2 DEF Group, Owners
<1>4. server \in Doc /\ server.groups = <<g>> /\ server.rev = 1
  <2>1. <<g>> \in Seq(Group)
    BY <1>3
  <2> QED BY <1>1, <1>3, <2>1 DEF Doc
<1> HIDE DEF g
<1>5. Sound(server) /\ server.rev > 0 /\ TabIds(server) \subseteq opened
  <2>1. Distinct(g.tabs)
    BY <1>2, <1>3
  <2>2. Sound(server) /\ TabIds(server) = Ids(g.tabs)
    BY <1>3, <1>4, <2>1, OneGroup
  <2>3. Ids(g.tabs) \subseteq opened
    BY <1>1, <1>2, <1>3
  <2>4. server.rev > 0
    BY <1>4
  <2> QED BY <2>2, <2>3, <2>4
<1>6. ASSUME NEW b \in Browsers
      PROVE  /\ Own(page[b], server, opened, removed, closed[b], doubtful)
             /\ Unsaved(page[b], doubtful) = {} /\ Touched(page[b], closed[b]) = {}
  <2> DEFINE p == page[b]
  <2>1. p = NewPage(b) /\ closed[b] = {}
    BY <1>1
  <2> HIDE DEF p
  <2>2. /\ DOMAIN p = PageFields /\ p.config = NoDoc /\ p.baseline = NoDoc /\ p.hydrated = FALSE
        /\ p.moves = <<>> /\ p.put = NoPut /\ p.read.kind = "load"
    BY <2>1 DEF NewPage, PageFields
  <2>3. ~Saves(p) /\ ~InTime(p) /\ p.put.kind = "none"
    BY <2>2, Nothing DEF Saves, InTime
  <2>4. Now(p) = {} /\ Base(p) = {} /\ Out(p) = {} /\ Met(p) = {} /\ Got(p) = {}
    BY <2>2, Nothing DEF Now, Base, Out, Met, Got
  <2>5. Touched(p, closed[b]) = {} /\ Unsaved(p, doubtful) = {} /\ Fresh(p, doubtful) = {}
    BY <2>1, <2>4 DEF Touched, Unsaved, Fresh
  <2>6. Holds(p)
    <3>1. p.moves \in Seq(Move)
      BY <2>2
    <3> QED BY <2>2, <3>1 DEF Holds
  <2>7. Follows(p, server, removed)
    BY <2>2, <2>3 DEF Follows
  <2>8. /\ ClosedHere(p, server, closed[b], doubtful) /\ NoReturn(p, server, doubtful)
        /\ FreshIsNew(p, server, doubtful)
    BY <2>1, <2>2, <2>3, <2>4, <2>5 DEF ClosedHere, NoReturn, FreshIsNew
  <2> QED BY <2>5, <2>6, <2>7, <2>8 DEF Own, p
<1>7. page = [b \in Browsers |-> page[b]] /\ closed = [b \in Browsers |-> closed[b]]
  BY <1>1
<1> QED BY <1>5, <1>6, <1>7 DEF ListInv, Kept

(* Every edit                                                              *)
LEMMA EditAlters ==
  ASSUME ListInv, NEW b \in Browsers, Edit(b)
  PROVE  Alters(b)
<1>1. CASE \E t \in Tabs, i \in 1..3, a \in BOOLEAN : AddTab(b, t, i, a)
  BY <1>1, AddChange
<1>2. CASE \E t \in Tabs : RemoveTab(b, t) \/ SetActiveTab(b, t)
  BY <1>2, RemoveChange, ActiveChange
<1>3. CASE \E t \in Tabs, n \in Names : RenameTab(b, t, n) \/ AdoptName(b, t, n)
  BY <1>3, NameChange
<1>4. CASE \E i \in 1..3 : ToggleGroupCollapsed(b, i)
  BY <1>4, FoldChange
<1>5. CASE \E t \in Tabs, x \in Tabs \union {""} : ReorderTabs(b, t, x)
  BY <1>5, ReorderChange
<1> QED BY <1>1, <1>2, <1>3, <1>4, <1>5 DEF Edit

(* Every action                                                            *)
LEMMA ListStep ==
  ASSUME ListInv, WbNext
  PROVE  Advances
<1>1. PICK b \in Browsers : WbStep(b)
  BY DEF WbNext
<1>2. CASE Edit(b)
  BY <1>2, EditAlters, EditStep
<1> QED BY <1>1, <1>2, LoadStep, ResyncStep, TimerStep, SavedStep, ConflictStep, NotSavedStep,
           ReloadStep DEF WbStep

(* ... and what is not one                                                 *)
LEMMA TabsStep ==
  ASSUME ListInv, [TabsNext]_<<focus, wbVars, sessionVars>>
  PROVE  ListInv' /\ (Advances \/ UNCHANGED wbVars)
<1>1. CASE WbNext
  BY <1>1, ListStep DEF Advances
<1>2. CASE UNCHANGED wbVars
  <2>1. /\ server' = server /\ page' = page /\ opened' = opened /\ removed' = removed
        /\ closed' = closed /\ doubtful' = doubtful
    BY <1>2 DEF wbVars
  <2> QED BY <1>2, <2>1 DEF ListInv
<1> QED BY <1>1, <1>2 DEF TabsNext

LEMMA ListHolds ==
  ASSUME Stored
  PROVE  TabsSpec => []ListInv
<1>1. TabsInit => ListInv
  BY ListBegins DEF TabsInit
<1>2. ListInv /\ [TabsNext]_<<focus, wbVars, sessionVars>> => ListInv'
  BY TabsStep
<1> QED BY <1>1, <1>2, PTL DEF TabsSpec

-----------------------------------------------------------------------------
(***************************************************************************)
(* A browser with nothing to say shows what it last saw of the server: no  *)
(* edit, no write under way and no move remembered, the list has the tabs  *)
(* of the base (Quiet); a write with no edit since holds the tabs that are *)
(* shown, and all the moves (Behind).  That the merge keeps to the order   *)
(* it is given needs that every tab names the group it is in, and that the *)
(* list has every group of the base (Carries).                             *)
(***************************************************************************)
Dated(d, rev, srv) == rev \in Nat /\ rev <= srv.rev /\ (rev = srv.rev => d.groups = srv.groups)

Quiet(p) ==
  ~p.timer /\ p.put = NoPut /\ ~p.unsaved => TabsOf(p.config) = TabsOf(p.baseline) /\ p.moves = <<>>

Behind(p) ==
  p.put # NoPut /\ ~p.timer /\ ~p.pending =>
    TabsOf(p.config) = TabsOf(p.put.out) /\ Len(p.moves) = p.put.count

Carries(p, srv) ==
  /\ AtHome(p.config.groups) /\ Ids(p.baseline.groups) \subseteq Ids(p.config.groups)
  /\ Dated(p.baseline, p.baseline.rev, srv)
  /\ p.read.kind = "resync" => AtHome(p.read.got.groups) /\ Dated(p.read.got, p.read.got.rev, srv)

Sending(p, srv) ==
  p.put # NoPut => /\ Ids(p.put.out.groups) \subseteq Ids(p.config.groups)
                   /\ Dated(p.put.current, p.put.current.rev, srv)
                   /\ (Saves(p) => Dated(p.put.out, p.put.rev, srv))

Rests(p, srv) == Quiet(p) /\ Behind(p) /\ Carries(p, srv) /\ Sending(p, srv)
Resting(pg, srv) == AtHome(srv.groups) /\ \A b \in Browsers : Rests(pg[b], srv)
RestInv == Resting(page, server)

LEMMA DatedLater ==
  ASSUME NEW d, NEW rev, NEW srv, Dated(d, rev, srv), NEW srv2, srv.rev \in Nat,
         srv2.rev = srv.rev + 1
  PROVE  Dated(d, rev, srv2)
<1>1. rev \in Nat /\ rev <= srv.rev
  BY DEF Dated
<1>2. rev <= srv2.rev /\ rev # srv2.rev
  BY <1>1
<1> QED BY <1>1, <1>2 DEF Dated

LEMMA RestsLater ==
  ASSUME NEW p, NEW srv, NEW srv2, srv.rev \in Nat, srv2.rev = srv.rev + 1
  PROVE  /\ Carries(p, srv) => Carries(p, srv2)
         /\ Sending(p, srv) => Sending(p, srv2)
         /\ Rests(p, srv) => Rests(p, srv2)
<1>1. \A d, rev : Dated(d, rev, srv) => Dated(d, rev, srv2)
  BY DatedLater
<1>2. Carries(p, srv) => Carries(p, srv2)
  BY <1>1 DEF Carries
<1>3. Sending(p, srv) => Sending(p, srv2)
  BY <1>1 DEF Sending
<1> QED BY <1>2, <1>3 DEF Rests

(* One page changes, and perhaps the server.                               *)
LEMMA RestKept ==
  ASSUME ListInv, RestInv, NEW b \in Browsers, NEW q, Set(b, q), Rests(q, server'),
         server' = server \/ (server'.rev = server.rev + 1 /\ AtHome(server'.groups))
  PROVE  RestInv'
<1> DEFINE srv2 == server'
           pg2 == page'
<1>1. page = [c \in Browsers |-> page[c]] /\ server.rev \in Nat
  BY FromInv DEF Sound, Fits, Doc
<1>2. AtHome(server.groups) /\ \A c \in Browsers : Rests(page[c], server)
  BY DEF RestInv, Resting
<1>3. pg2 = [page EXCEPT ![b] = q] /\ Rests(q, srv2)
  BY DEF Set
<1>4. srv2 = server \/ (srv2.rev = server.rev + 1 /\ AtHome(srv2.groups))
  OBVIOUS
<1>5. RestInv' <=> Resting(pg2, srv2)
  BY DEF RestInv
<1> HIDE DEF srv2, pg2
<1>6. pg2[b] = q /\ \A c \in Browsers : c # b => pg2[c] = page[c]
  BY <1>1, <1>3
<1>7. \A c \in Browsers : Rests(page[c], srv2)
  BY <1>1, <1>2, <1>4, RestsLater
<1>8. AtHome(srv2.groups)
  BY <1>2, <1>4
<1>9. \A c \in Browsers : Rests(pg2[c], srv2)
  BY <1>3, <1>6, <1>7
<1> QED BY <1>5, <1>8, <1>9 DEF Resting

LEMMA FromRest ==
  ASSUME ListInv, RestInv, NEW b \in Browsers
  PROVE  /\ Quiet(page[b]) /\ Behind(page[b]) /\ Carries(page[b], server)
         /\ Sending(page[b], server) /\ AtHome(server.groups) /\ server.rev \in Nat
         /\ Dated(server, server.rev, server)
<1>1. server.rev \in Nat
  BY FromInv DEF Sound, Fits, Doc
<1>2. Dated(server, server.rev, server)
  BY <1>1 DEF Dated
<1>3. Rests(page[b], server) /\ AtHome(server.groups)
  BY DEF RestInv, Resting
<1> QED BY <1>1, <1>2, <1>3 DEF Rests

(* A write is sent.                                                        *)
LEMMA SendRests ==
  ASSUME ListInv, RestInv, NEW b \in Browsers, NEW w, DOMAIN w = PageFields,
         Sound(w.config), Carries(w, server), NEW n, Send(b, w, n)
  PROVE  RestInv'
<1>1. /\ AtHome(server.groups) /\ server.rev \in Nat /\ Dated(server, server.rev, server)
  BY FromRest
<1>2. \A k : LET q == Asked(w, n, k)
             IN /\ q.config = w.config /\ q.baseline = w.baseline /\ q.read = w.read
                /\ q.moves = w.moves /\ q.put # NoPut /\ q.put.kind = k /\ q.put.out = w.config
                /\ q.put.count = Len(w.moves) /\ q.put.rev = server.rev + 1
                /\ q.put.current = server
  <2>1. SUFFICES ASSUME NEW k
                 PROVE  LET q == Asked(w, n, k)
                        IN /\ q.config = w.config /\ q.baseline = w.baseline /\ q.read = w.read
                           /\ q.moves = w.moves /\ q.put # NoPut /\ q.put.kind = k
                           /\ q.put.out = w.config /\ q.put.count = Len(w.moves)
                           /\ q.put.rev = server.rev + 1 /\ q.put.current = server
    OBVIOUS
  <2> DEFINE q == Asked(w, n, k)
             req == [kind |-> "asked", out |-> w.config, count |-> Len(w.moves), attempt |-> n,
                     rev |-> server.rev + 1, current |-> server]
             put == [req EXCEPT !.kind = k]
  <2>2. /\ q.put = put /\ q.config = w.config /\ q.baseline = w.baseline /\ q.moves = w.moves
        /\ q.read = w.read
    BY DEF PageFields, Asked
  <2>3. /\ put.kind = k /\ put.out = w.config /\ put.count = Len(w.moves)
        /\ put.rev = server.rev + 1 /\ put.current = server
        /\ DOMAIN put = {"kind", "out", "count", "attempt", "rev", "current"}
    OBVIOUS
  <2> HIDE DEF q, put
  <2>4. put # NoPut
    <3>1. DOMAIN NoPut = {"kind"}
      BY DEF NoPut
    <3> QED BY <2>3, <3>1
  <2> QED BY <2>2, <2>3, <2>4 DEF q
<1>3. ASSUME NEW k, NEW srv2, Carries(w, srv2), Dated(server, server.rev, srv2),
             k = "saved" => Dated(w.config, server.rev + 1, srv2)
      PROVE  Rests(Asked(w, n, k), srv2)
  <2> DEFINE q == Asked(w, n, k)
  <2>1. /\ q.config = w.config /\ q.baseline = w.baseline /\ q.read = w.read
        /\ q.moves = w.moves /\ q.put # NoPut /\ q.put.kind = k /\ q.put.out = w.config
        /\ q.put.count = Len(w.moves) /\ q.put.rev = server.rev + 1 /\ q.put.current = server
    BY <1>2, Zenon
  <2> HIDE DEF q
  <2>2. Quiet(q) /\ Behind(q)
    BY <2>1 DEF Quiet, Behind
  <2>3. Carries(q, srv2)
    BY <1>3, <2>1 DEF Carries
  <2>4. Sending(q, srv2)
    BY <1>1, <1>3, <2>1 DEF Sending, Saves
  <2> QED BY <2>2, <2>3, <2>4 DEF Rests, q
<1>4. \/ /\ server' = [w.config EXCEPT !.rev = server.rev + 1]
         /\ \E k : page' = [page EXCEPT ![b] = Asked(w, n, k)]
      \/ \E k \in {"conflict", "skipped", "failed", "threw"} :
           page' = [page EXCEPT ![b] = Asked(w, n, k)] /\ server' = server
  BY Zenon DEF Send, Set, Asked
<1>5. CASE /\ server' = [w.config EXCEPT !.rev = server.rev + 1]
           /\ \E k : page' = [page EXCEPT ![b] = Asked(w, n, k)]
  <2>1. PICK k : page' = [page EXCEPT ![b] = Asked(w, n, k)]
    BY <1>5
  <2> DEFINE srv2 == server'
             q == Asked(w, n, k)
  <2>2. srv2 = [w.config EXCEPT !.rev = server.rev + 1]
    BY <1>5
  <2> HIDE DEF srv2
  <2>3. srv2.rev = server.rev + 1 /\ srv2.groups = w.config.groups
    BY <2>2 DEF Sound, Fits, Doc
  <2>4. Carries(w, srv2) /\ Dated(server, server.rev, srv2)
    BY <1>1, <2>3, RestsLater, DatedLater
  <2>5. Dated(w.config, server.rev + 1, srv2)
    BY <1>1, <2>3 DEF Dated
  <2>6. Rests(q, srv2)
    BY <1>3, <2>4, <2>5
  <2>7. AtHome(srv2.groups)
    BY <2>3 DEF Carries
  <2>8. Set(b, q) /\ Rests(q, server')
    BY <2>1, <2>6 DEF Set, srv2
  <2>9. server'.rev = server.rev + 1 /\ AtHome(server'.groups)
    BY <2>3, <2>7 DEF srv2
  <2> HIDE DEF q
  <2> QED BY <2>8, <2>9, RestKept
<1>6. CASE \E k \in {"conflict", "skipped", "failed", "threw"} :
             page' = [page EXCEPT ![b] = Asked(w, n, k)] /\ server' = server
  <2>1. PICK k \in {"conflict", "skipped", "failed", "threw"} :
               page' = [page EXCEPT ![b] = Asked(w, n, k)] /\ server' = server
    BY <1>6
  <2> DEFINE q == Asked(w, n, k)
  <2>2. Rests(q, server)
    BY <1>1, <1>3, <2>1
  <2>3. Set(b, q) /\ Rests(q, server') /\ server' = server
    BY <2>1, <2>2 DEF Set
  <2> HIDE DEF q
  <2> QED BY <2>3, RestKept
<1> QED BY <1>4, <1>5, <1>6

(* kick's loop goes round                                                  *)
LEMMA KickRests ==
  ASSUME ListInv, RestInv, NEW b \in Browsers, NEW p, DOMAIN p = PageFields,
         p.hydrated => Sound(p.config), Carries(p, server), Sending(p, server), Kick(b, p)
  PROVE  RestInv'
<1>1. CASE p.put # NoPut
  <2> DEFINE q == [p EXCEPT !.pending = TRUE]
  <2>1. Set(b, q) /\ server' = server
    BY <1>1 DEF Kick
  <2>2. /\ q.put = p.put /\ q.config = p.config /\ q.baseline = p.baseline /\ q.read = p.read
        /\ q.pending = TRUE
    BY DEF PageFields
  <2> HIDE DEF q
  <2>3. Quiet(q) /\ Behind(q)
    BY <1>1, <2>2 DEF Quiet, Behind
  <2>4. Carries(q, server) /\ Sending(q, server)
    BY <2>2 DEF Carries, Sending, Saves
  <2>5. Rests(q, server')
    BY <2>1, <2>3, <2>4 DEF Rests
  <2> QED BY <2>1, <2>5, RestKept
<1>2. CASE p.put = NoPut /\ ~Gate(p)
  <2> DEFINE q == [p EXCEPT !.pending = FALSE, !.unsaved = TRUE]
  <2>1. Set(b, q) /\ server' = server
    BY <1>2 DEF Kick
  <2>2. /\ q.put = NoPut /\ q.config = p.config /\ q.baseline = p.baseline /\ q.read = p.read
        /\ q.unsaved = TRUE
    BY <1>2 DEF PageFields
  <2> HIDE DEF q
  <2>3. Quiet(q) /\ Behind(q) /\ Sending(q, server)
    BY <2>2 DEF Quiet, Behind, Sending
  <2>4. Carries(q, server)
    BY <2>2 DEF Carries
  <2>5. Rests(q, server')
    BY <2>1, <2>3, <2>4 DEF Rests
  <2> QED BY <2>1, <2>5, RestKept
<1>3. CASE p.put = NoPut /\ Gate(p)
  <2> DEFINE w == [p EXCEPT !.pending = FALSE]
  <2>1. Send(b, w, 0)
    BY <1>3 DEF Kick
  <2>2. /\ w.config = p.config /\ w.baseline = p.baseline /\ w.read = p.read
        /\ DOMAIN w = PageFields /\ Sound(p.config)
    BY <1>3 DEF PageFields, Gate
  <2> HIDE DEF w
  <2>3. Carries(w, server) /\ Sound(w.config)
    BY <2>2 DEF Carries
  <2> QED BY <2>1, <2>2, <2>3, SendRests
<1> QED BY <1>1, <1>2, <1>3

(* The write is over, for the page w.                                      *)
LEMMA EndsRests ==
  ASSUME ListInv, RestInv, NEW b \in Browsers, NEW w, NEW p, p = [w EXCEPT !.put = NoPut],
         DOMAIN w = PageFields, p.hydrated => Sound(p.config), Carries(p, server),
         ~w.pending => Quiet(p), Ends(b, w)
  PROVE  RestInv'
<1>1. DOMAIN p = PageFields /\ p.put = NoPut
  BY DEF PageFields
<1>2. Sending(p, server) /\ Behind(p)
  BY <1>1 DEF Sending, Behind
<1>3. CASE w.pending
  <2>1. Kick(b, p)
    BY <1>3 DEF Ends, FlushEnds
  <2> QED BY <1>1, <1>2, <2>1, KickRests
<1>4. CASE ~w.pending
  <2>1. Set(b, p) /\ server' = server
    BY <1>4 DEF Ends
  <2>2. Quiet(p)
    BY <1>4
  <2>3. Rests(p, server')
    BY <1>2, <2>1, <2>2 DEF Rests
  <2> QED BY <2>1, <2>3, RestKept
<1> QED BY <1>3, <1>4

LEMMA TimerRests ==
  ASSUME ListInv, RestInv, NEW b \in Browsers, TimerFires(b) \/ RetrySave(b)
  PROVE  RestInv'
<1> DEFINE p == page[b]
           q == [p EXCEPT !.timer = FALSE]
<1>1. Kick(b, q)
  BY DEF TimerFires, RetrySave
<1>2. DOMAIN p = PageFields /\ Holds(p) /\ Carries(p, server) /\ Sending(p, server)
  BY FromInv, FromRest
<1> HIDE DEF p
<1>3. /\ DOMAIN q = PageFields /\ q.config = p.config /\ q.baseline = p.baseline
      /\ q.read = p.read /\ q.put = p.put /\ q.hydrated = p.hydrated
  BY <1>2 DEF PageFields
<1> HIDE DEF q
<1>4. Carries(q, server) /\ Sending(q, server)
  BY <1>2, <1>3 DEF Carries, Sending, Saves
<1>5. q.hydrated => Sound(q.config)
  BY <1>2, <1>3 DEF Holds
<1> QED BY <1>1, <1>3, <1>4, <1>5, KickRests

(* Nothing was stored, nothing is sent, and the page knows.                *)
LEMMA UnstoredRests ==
  ASSUME ListInv, RestInv, NEW b \in Browsers, NEW w, w = [page[b] EXCEPT !.unsaved = TRUE],
         Ends(b, w) \/ (Set(b, [w EXCEPT !.put = NoPut]) /\ server' = server)
  PROVE  RestInv'
<1> DEFINE p == page[b]
           q == [w EXCEPT !.put = NoPut]
<1>1. DOMAIN p = PageFields /\ Holds(p) /\ Carries(p, server)
  BY FromInv, FromRest
<1>2. /\ DOMAIN w = PageFields /\ DOMAIN q = PageFields /\ q.config = p.config
      /\ q.baseline = p.baseline /\ q.hydrated = p.hydrated /\ q.read = p.read /\ q.put = NoPut
      /\ q.unsaved = TRUE
  BY <1>1 DEF PageFields
<1>3. q = [w EXCEPT !.put = NoPut] /\ (Ends(b, w) \/ (Set(b, q) /\ server' = server))
  OBVIOUS
<1> HIDE DEF p, q
<1>4. Quiet(q) /\ Behind(q) /\ Sending(q, server)
  BY <1>2 DEF Quiet, Behind, Sending
<1>5. Carries(q, server)
  BY <1>1, <1>2 DEF Carries
<1>6. q.hydrated => Sound(q.config)
  BY <1>1, <1>2 DEF Holds
<1>7. CASE Ends(b, w)
  BY <1>2, <1>3, <1>4, <1>5, <1>6, <1>7, EndsRests
<1>8. CASE Set(b, q) /\ server' = server
  <2>1. Rests(q, server')
    BY <1>4, <1>5, <1>8 DEF Rests
  <2> QED BY <1>8, <2>1, RestKept
<1> QED BY <1>3, <1>7, <1>8

LEMMA NotSavedRests ==
  ASSUME ListInv, RestInv, NEW b \in Browsers, NotSaved(b)
  PROVE  RestInv'
<1> DEFINE w == [page[b] EXCEPT !.unsaved = TRUE]
<1>1. Ends(b, w) \/ (Set(b, [w EXCEPT !.put = NoPut]) /\ server' = server)
  BY Zenon DEF NotSaved
<1>2. w = [page[b] EXCEPT !.unsaved = TRUE]
  OBVIOUS
<1> HIDE DEF w
<1> QED BY <1>1, <1>2, UnstoredRests

(* What was stored is the base now.                                        *)
LEMMA SavedRests ==
  ASSUME ListInv, RestInv, NEW b \in Browsers, Saved(b)
  PROVE  RestInv'
<1> DEFINE p == page[b]
           out == p.put.out
           w == [p EXCEPT !.config.rev = p.put.rev,
                          !.baseline = [p.put.out EXCEPT !.rev = p.put.rev],
                          !.moves = SubSeq(@, p.put.count + 1, Len(@)), !.unsaved = FALSE]
           q == [w EXCEPT !.put = NoPut]
<1>1. Saves(p) /\ Ends(b, w)
  BY DEF Saved, Saves
<1>2. /\ DOMAIN p = PageFields /\ Holds(p) /\ Behind(p) /\ Carries(p, server)
      /\ Sending(p, server)
  BY FromInv, FromRest
<1> HIDE DEF p
<1>3. /\ DOMAIN w = PageFields /\ DOMAIN q = PageFields
      /\ q.config = [p.config EXCEPT !.rev = p.put.rev]
      /\ q.baseline = [p.put.out EXCEPT !.rev = p.put.rev] /\ q.hydrated = p.hydrated
      /\ q.moves = SubSeq(p.moves, p.put.count + 1, Len(p.moves)) /\ q.read = p.read
      /\ q.put = NoPut /\ w.pending = p.pending /\ q.timer = p.timer
  BY <1>2 DEF PageFields
<1>4. q = [w EXCEPT !.put = NoPut]
  OBVIOUS
<1> HIDE DEF w, q
<1>5. p.put # NoPut /\ p.hydrated
  BY <1>1, <1>2, Nothing DEF Saves, Holds
<1>6. /\ Sound(p.config) /\ Sound(out) /\ p.put.rev \in Nat /\ p.moves \in Seq(Move)
      /\ p.put.count \in 0 .. Len(p.moves)
  BY <1>2, <1>5 DEF Holds
<1>7. /\ q.config.groups = p.config.groups /\ q.baseline.groups = out.groups
      /\ q.baseline.rev = p.put.rev
  BY <1>3, <1>6 DEF Sound, Fits, Doc
<1>8. q.hydrated => Sound(q.config)
  <2>1. q.config \in Doc
    BY <1>3, <1>6 DEF Sound, Fits, Doc
  <2> QED BY <1>6, <1>7, <2>1 DEF Sound, Fits
<1>9. Carries(q, server)
  <2>1. Dated(out, p.put.rev, server) /\ Ids(out.groups) \subseteq Ids(p.config.groups)
    BY <1>1, <1>2, <1>5 DEF Sending
  <2>2. Dated(q.baseline, q.baseline.rev, server)
    BY <1>7, <2>1 DEF Dated
  <2> QED BY <1>2, <1>3, <1>7, <2>1, <2>2 DEF Carries
<1>10. ~w.pending => Quiet(q)
  <2>1. SUFFICES ASSUME ~p.pending, ~p.timer
                 PROVE  TabsOf(q.config) = TabsOf(q.baseline) /\ q.moves = <<>>
    BY <1>3 DEF Quiet
  <2>2. TabsOf(p.config) = TabsOf(out) /\ Len(p.moves) = p.put.count
    BY <1>2, <1>5, <2>1 DEF Behind
  <2>3. TabsOf(q.config) = TabsOf(q.baseline)
    BY <1>7, <2>2 DEF TabsOf
  <2>4. q.moves = <<>>
    <3>1. q.moves = SubSeq(p.moves, Len(p.moves) + 1, Len(p.moves))
      BY <1>3, <2>2
    <3>2. \A s \in Seq(Move) : SubSeq(s, Len(s) + 1, Len(s)) = <<>>
      OBVIOUS
    <3> QED BY <1>6, <3>1, <3>2
  <2> QED BY <2>3, <2>4
<1> QED BY <1>1, <1>3, <1>4, <1>8, <1>9, <1>10, EndsRests

(* A merge keeps every group that it finds on the server.                  *)
LEMMA GroupsStay ==
  ASSUME NEW base, Fits(base), NEW local, Sound(local), NEW theirs, Sound(theirs),
         Ids(base.groups) \subseteq Ids(local.groups)
  PROVE  Ids(theirs.groups) \subseteq Ids(Slots(base, local, theirs))
<1> DEFINE s == Slots(base, local, theirs)
           ts == theirs.groups
<1>1. \A i \in DOMAIN ts : i \in DOMAIN s /\ s[i].id = ts[i].id
  <2>1. /\ GroupsFit(base.groups) /\ GroupsFit(local.groups) /\ GroupsFit(ts) /\ ts # <<>>
    BY DEF Sound, Fits
  <2> QED BY <2>1, SlotsInPlace
<1> HIDE DEF s, ts
<1>2. ASSUME NEW x \in Ids(ts) PROVE x \in Ids(s)
  <2>1. PICK i \in DOMAIN ts : x = ts[i].id
    BY DEF Ids, ToSet
  <2>2. i \in DOMAIN s /\ x = s[i].id
    BY <1>1, <2>1
  <2> QED BY <2>2 DEF Ids, ToSet
<1> QED BY <1>2 DEF s, ts

LEMMA DefaultShowsNothing ==
  ASSUME NEW b \in Browsers
  PROVE  TabsOf(DefaultConfig(b)) = TabsOf(NoDoc)
<1>1. \A s \in Seq(Tab) : Ids(s) = {} => s = <<>>
  <2>1. SUFFICES ASSUME NEW s \in Seq(Tab), s # <<>> PROVE Ids(s) # {}
    OBVIOUS
  <2>2. 1 \in DOMAIN s
    BY <2>1
  <2>3. s[1].id \in Ids(s)
    BY <2>2 DEF Ids, ToSet
  <2> QED BY <2>3
<1>2. ASSUME NEW d, Fits(d), TabIds(d) = {} PROVE TabsOf(d) = <<>>
  <2>1. GroupsFit(d.groups)
    BY <1>2 DEF Fits
  <2>2. TabsOf(d) \in Seq(Tab) /\ Ids(TabsOf(d)) = TabIds(d)
    BY <2>1, TabsOfFacts
  <2> QED BY <1>1, <1>2, <2>2
<1>3. TabsOf(NoDoc) = <<>>
  BY <1>2, Nothing
<1>4. Fits(DefaultConfig(b)) /\ TabIds(DefaultConfig(b)) = {}
  BY DefaultIsSound DEF Sound
<1> QED BY <1>2, <1>3, <1>4

LEMMA NothingDated ==
  /\ AtHome(NoDoc.groups) /\ Ids(NoDoc.groups) = {} /\ NoDoc.rev = 0
  /\ \A srv : srv.rev \in Nat /\ srv.rev > 0 => Dated(NoDoc, NoDoc.rev, srv)
<1>1. NoDoc.rev = 0 /\ NoDoc.groups = <<>>
  BY DEF NoDoc
<1>2. DOMAIN <<>> = {}
  OBVIOUS
<1>3. \A gs : DOMAIN gs = {} => AtHome(gs) /\ Ids(gs) = {}
  BY DEF AtHome, Ids, ToSet
<1>4. \A srv : srv.rev \in Nat /\ srv.rev > 0 => Dated(NoDoc, NoDoc.rev, srv)
  BY <1>1 DEF Dated
<1> QED BY <1>1, <1>2, <1>3, <1>4

LEMMA ConflictRests ==
  ASSUME ListInv, RestInv, NEW b \in Browsers, Conflict(b)
  PROVE  RestInv'
<1> DEFINE p == page[b]
           d == p.put.current
           m == MergeWorkbench(p.baseline, p.config, d, p.moves)
           w == [p EXCEPT !.baseline = d, !.config = m]
           u == [p EXCEPT !.unsaved = TRUE]
<1>1. p.put.kind = "conflict" /\ (Ends(b, u) \/ Send(b, w, p.put.attempt + 1))
  BY Zenon DEF Conflict
<1>2. DOMAIN p = PageFields /\ Holds(p) /\ Carries(p, server) /\ Sending(p, server)
  BY FromInv, FromRest
<1>3. CASE Ends(b, u)
  <2>1. u = [page[b] EXCEPT !.unsaved = TRUE]
    OBVIOUS
  <2> HIDE DEF u
  <2> QED BY <1>3, <2>1, UnstoredRests
<1>4. CASE Send(b, w, p.put.attempt + 1)
  <2> HIDE DEF p, m, u
  <2>1. DOMAIN w = PageFields /\ w.config = m /\ w.baseline = d /\ w.read = p.read
    BY <1>2 DEF PageFields
  <2> HIDE DEF w
  <2>2. p.put # NoPut /\ p.hydrated
    BY <1>1, <1>2, Nothing DEF Holds
  <2>3. /\ Sound(p.config) /\ Sound(p.baseline) /\ Sound(d) /\ p.moves \in Seq(Move)
        /\ Ids(p.baseline.groups) \subseteq Ids(p.config.groups)
        /\ Dated(d, d.rev, server)
    BY <1>2, <2>2 DEF Holds, Carries, Sending
  <2> HIDE DEF d
  <2>4. /\ Sound(m) /\ AtHome(m.groups)
        /\ Ids(m.groups) = Ids(Slots(p.baseline, p.config, d))
    <3>1. Fits(p.config) /\ Fits(p.baseline) /\ Sound(d) /\ p.moves \in Seq(Move)
      BY <2>3 DEF Sound
    <3>2. LET r == MergeWorkbench(p.baseline, p.config, d, p.moves)
          IN Sound(r) /\ AtHome(r.groups) /\ Ids(r.groups) = Ids(Slots(p.baseline, p.config, d))
      BY <3>1, MergedDoc
    <3> QED BY <3>2 DEF m
  <2>5. Ids(d.groups) \subseteq Ids(m.groups)
    BY <2>3, <2>4, GroupsStay DEF Sound
  <2>6. Carries(w, server)
    BY <1>2, <2>1, <2>3, <2>4, <2>5 DEF Carries
  <2> QED BY <1>2, <1>4, <2>1, <2>4, <2>6, SendRests
<1> QED BY <1>1, <1>3, <1>4

LEMMA LoadRests ==
  ASSUME ListInv, RestInv, NEW b \in Browsers, Load(b)
  PROVE  RestInv'
<1> DEFINE p == page[b]
           q == [p EXCEPT !.config = server, !.baseline = server, !.hydrated = TRUE,
                          !.read = NoRead]
           z == [p EXCEPT !.config = DefaultConfig(b), !.baseline = NoDoc, !.hydrated = FALSE,
                          !.read = NoRead]
<1>1. /\ DOMAIN p = PageFields /\ Holds(p) /\ Sound(server) /\ AtHome(server.groups)
      /\ Dated(server, server.rev, server) /\ server.rev > 0 /\ server.rev \in Nat
  BY FromInv, FromRest
<1>2. server # NoDoc
  BY <1>1, Nothing
<1>3. p.read.kind = "load" /\ server' = server /\ (Set(b, q) \/ Set(b, z))
  BY <1>2, Zenon DEF Load, Fetched
<1>4. p.put = NoPut /\ p.moves = <<>>
  BY <1>1, <1>3, Nothing DEF Holds
<1>5. CASE Set(b, q)
  <2> HIDE DEF p
  <2>1. /\ q.config = server /\ q.baseline = server /\ q.read = NoRead /\ q.put = NoPut
        /\ q.moves = <<>>
    BY <1>1, <1>4 DEF PageFields
  <2> HIDE DEF q
  <2>2. Quiet(q) /\ Behind(q) /\ Sending(q, server)
    BY <2>1 DEF Quiet, Behind, Sending
  <2>3. Carries(q, server)
    BY <1>1, <2>1, Nothing DEF Carries
  <2>4. Rests(q, server')
    BY <1>3, <2>2, <2>3 DEF Rests
  <2> QED BY <1>3, <1>5, <2>4, RestKept
<1>6. CASE Set(b, z)
  <2> HIDE DEF p
  <2>1. /\ z.config = DefaultConfig(b) /\ z.baseline = NoDoc /\ z.read = NoRead /\ z.put = NoPut
        /\ z.moves = <<>>
    BY <1>1, <1>4 DEF PageFields
  <2> HIDE DEF z
  <2>2. TabsOf(DefaultConfig(b)) = TabsOf(NoDoc) /\ AtHome(DefaultConfig(b).groups)
    BY DefaultIsSound, DefaultShowsNothing
  <2>3. Quiet(z) /\ Behind(z) /\ Sending(z, server)
    BY <2>1, <2>2 DEF Quiet, Behind, Sending
  <2>4. Carries(z, server)
    BY <1>1, <2>1, <2>2, Nothing, NothingDated DEF Carries
  <2>5. Rests(z, server')
    BY <1>3, <2>3, <2>4 DEF Rests
  <2> QED BY <1>3, <1>6, <2>5, RestKept
<1> QED BY <1>3, <1>5, <1>6

(* A new page, that has read nothing                                       *)
LEMMA NewRests ==
  ASSUME NEW b \in Browsers, NEW srv, srv.rev \in Nat, srv.rev > 0
  PROVE  Rests(NewPage(b), srv)
<1> DEFINE z == NewPage(b)
<1>1. /\ z.config = NoDoc /\ z.baseline = NoDoc /\ z.read.kind = "load" /\ z.put = NoPut
      /\ z.moves = <<>>
  BY DEF NewPage
<1> HIDE DEF z
<1>2. Quiet(z) /\ Behind(z) /\ Sending(z, srv)
  BY <1>1 DEF Quiet, Behind, Sending
<1>3. Carries(z, srv)
  BY <1>1, NothingDated DEF Carries
<1> QED BY <1>2, <1>3 DEF Rests, z

LEMMA ReloadRests ==
  ASSUME ListInv, RestInv, NEW b \in Browsers, Reload(b)
  PROVE  RestInv'
<1>1. Set(b, NewPage(b)) /\ server' = server
  BY DEF Reload
<1>2. server.rev \in Nat /\ server.rev > 0
  BY FromInv, FromRest
<1>3. Rests(NewPage(b), server')
  BY <1>1, <1>2, NewRests
<1> DEFINE z == NewPage(b)
<1>4. Set(b, z) /\ Rests(z, server')
  BY <1>1, <1>3
<1> HIDE DEF z
<1> QED BY <1>1, <1>4, RestKept

(* A read answered: with nothing to say, the page shows what it read.      *)
LEMMA ResyncRests ==
  ASSUME ListInv, RestInv, NEW b \in Browsers, ResyncAsks(b) \/ ResyncAnswered(b)
  PROVE  RestInv'
<1> DEFINE p == page[b]
           d == p.read.got
           a == [p EXCEPT !.read = [kind |-> "resync", base |-> p.baseline, got |-> server]]
           q == [p EXCEPT !.read = NoRead]
           m == MergeWorkbench(q.baseline, q.config, d, q.moves)
           r == [q EXCEPT !.hydrated = TRUE, !.baseline = d, !.config = m]
<1>1. /\ DOMAIN p = PageFields /\ Holds(p) /\ Sound(server) /\ Quiet(p) /\ Behind(p)
      /\ Carries(p, server) /\ Sending(p, server) /\ AtHome(server.groups)
      /\ Dated(server, server.rev, server)
  BY FromInv, FromRest
<1>2. server # NoDoc
  BY <1>1, Nothing
<1>3. /\ server' = server
      /\ \/ Set(b, a)
         \/ p.read.kind = "resync" /\ Set(b, q)
         \/ p.read.kind = "resync" /\ ~Overtaken(p) /\ Set(b, r)
  <2>1. CASE ResyncAsks(b)
    BY <1>2, <2>1, Zenon DEF ResyncAsks, Fetched
  <2>2. CASE ResyncAnswered(b)
    BY <2>2, Zenon DEF ResyncAnswered
  <2> QED BY <2>1, <2>2
<1>4. CASE Set(b, a)
  <2> HIDE DEF p
  <2>1. /\ a.config = p.config /\ a.baseline = p.baseline /\ a.put = p.put /\ a.moves = p.moves
        /\ a.timer = p.timer /\ a.unsaved = p.unsaved /\ a.pending = p.pending
        /\ a.read = [kind |-> "resync", base |-> p.baseline, got |-> server]
    BY <1>1 DEF PageFields
  <2> HIDE DEF a
  <2>2. a.read.kind = "resync" /\ a.read.got = server
    BY <2>1
  <2>3. Quiet(a) /\ Behind(a) /\ Sending(a, server)
    BY <1>1, <2>1 DEF Quiet, Behind, Sending, Saves
  <2>4. Carries(a, server)
    BY <1>1, <2>1, <2>2 DEF Carries
  <2>5. Rests(a, server')
    BY <1>3, <2>3, <2>4 DEF Rests
  <2> QED BY <1>3, <1>4, <2>5, RestKept
<1>5. CASE Set(b, q)
  <2> HIDE DEF p
  <2>1. /\ q.config = p.config /\ q.baseline = p.baseline /\ q.put = p.put /\ q.moves = p.moves
        /\ q.timer = p.timer /\ q.unsaved = p.unsaved /\ q.pending = p.pending
        /\ q.read = NoRead
    BY <1>1 DEF PageFields
  <2> HIDE DEF q
  <2>2. Quiet(q) /\ Behind(q) /\ Sending(q, server)
    BY <1>1, <2>1 DEF Quiet, Behind, Sending, Saves
  <2>3. Carries(q, server)
    BY <1>1, <2>1, Nothing DEF Carries
  <2>4. Rests(q, server')
    BY <1>3, <2>2, <2>3 DEF Rests
  <2> QED BY <1>3, <1>5, <2>4, RestKept
<1>6. CASE p.read.kind = "resync" /\ ~Overtaken(p) /\ Set(b, r)
  <2> HIDE DEF p
  <2>1. p.put = NoPut
    BY <1>6 DEF Overtaken
  <2>2. /\ q.baseline = p.baseline /\ q.config = p.config /\ q.moves = p.moves
        /\ r.config = m /\ r.baseline = d /\ r.moves = p.moves /\ r.read = NoRead /\ r.put = NoPut
        /\ r.timer = p.timer /\ r.unsaved = p.unsaved
    <3> HIDE DEF m, d
    <3> QED BY <1>1, <2>1 DEF PageFields
  <2>3. m = MergeWorkbench(p.baseline, p.config, d, p.moves)
    <3> HIDE DEF q, d
    <3> QED BY <2>2
  <2> HIDE DEF r, q, m
  <2>4. /\ Sound(p.config) /\ Fits(p.baseline) /\ Sound(d) /\ p.moves \in Seq(Move)
        /\ Ids(p.baseline.groups) \subseteq Ids(p.config.groups)
        /\ AtHome(d.groups) /\ Dated(d, d.rev, server)
    <3>1. /\ Sound(p.config) /\ Sound(d) /\ p.moves \in Seq(Move)
          /\ (p.hydrated => Sound(p.baseline)) /\ (~p.hydrated => p.baseline = NoDoc)
          /\ p.hydrated \in BOOLEAN
      BY <1>1, <1>6 DEF Holds
    <3>2. Fits(p.baseline)
      BY <3>1, Nothing DEF Sound
    <3> QED BY <1>1, <1>6, <3>1, <3>2 DEF Carries
  <2> HIDE DEF d
  <2>5. Fits(p.config)
    BY <2>4 DEF Sound
  <2>6. AtHome(m.groups) /\ Ids(m.groups) = Ids(Slots(p.baseline, p.config, d))
    <3>1. LET x == MergeWorkbench(p.baseline, p.config, d, p.moves)
          IN AtHome(x.groups) /\ Ids(x.groups) = Ids(Slots(p.baseline, p.config, d))
      BY <2>4, <2>5, MergedDoc
    <3> QED BY <2>3, <3>1
  <2>7. Ids(d.groups) \subseteq Ids(m.groups)
    BY <2>4, <2>6, GroupsStay
  <2>8. Carries(r, server)
    BY <2>2, <2>4, <2>6, <2>7, Nothing DEF Carries
  <2>9. Behind(r) /\ Sending(r, server)
    BY <2>2 DEF Behind, Sending
  <2>10. Quiet(r)
    <3>1. SUFFICES ASSUME ~p.timer, ~p.unsaved
                   PROVE  TabsOf(m) = TabsOf(d) /\ p.moves = <<>>
      BY <2>2 DEF Quiet
    <3>2. TabsOf(p.config) = TabsOf(p.baseline) /\ p.moves = <<>>
      BY <1>1, <2>1, <3>1 DEF Quiet
    <3>3. TabsOf(MergeWorkbench(p.baseline, p.config, d, <<>>)) = TabsOf(d)
      BY <2>4, <2>5, <3>2, MergeShows
    <3> QED BY <2>3, <3>2, <3>3
  <2>11. Rests(r, server')
    BY <1>3, <2>8, <2>9, <2>10 DEF Rests
  <2> QED BY <1>3, <1>6, <2>11, RestKept
<1> QED BY <1>3, <1>4, <1>5, <1>6

(* An edit starts the timer: the page has something to say.                *)
LEMMA EditRests ==
  ASSUME ListInv, RestInv, NEW b \in Browsers, Edit(b)
  PROVE  RestInv'
<1> DEFINE p == page[b]
<1>1. PICK q, new, gone : Changes(b, q, new, gone)
  BY EditAlters DEF Alters
<1>2. /\ q.baseline = p.baseline /\ q.read = p.read /\ q.put = p.put /\ q.timer
      /\ SameGroups(p.config, q.config) /\ Set(b, q) /\ server' = server
  BY <1>1 DEF Changes, Edits
<1>3. Carries(p, server) /\ Sending(p, server)
  BY FromRest
<1> HIDE DEF p
<1>4. Quiet(q) /\ Behind(q)
  BY <1>2 DEF Quiet, Behind
<1>5. Carries(q, server) /\ Sending(q, server)
  BY <1>2, <1>3 DEF Carries, Sending, SameGroups, Saves
<1>6. Rests(q, server')
  BY <1>2, <1>4, <1>5 DEF Rests
<1> QED BY <1>2, <1>6, RestKept

(* The stored list at first: one group, and its tabs name it.              *)
LEMMA RestBegins ==
  ASSUME Stored, WbInit
  PROVE  RestInv
<1> DEFINE T == {[id |-> t, group |-> "g", name |-> ""] : t \in FirstTabs}
           s == SetToSeq(T)
           g == [id |-> "g", folded |-> FALSE, tabs |-> s]
<1>1. /\ server = [rev |-> 1, activeTab |-> "", activeGroup |-> "g", groups |-> <<g>>]
      /\ page = [b \in Browsers |-> NewPage(b)]
  BY DEF WbInit
<1>2. \A x \in ToSet(s) : x.group = "g"
  BY FirstTabsListed
<1> HIDE DEF T, s
<1>3. AtHome(server.groups)
  <2>1. server.groups = <<g>> /\ g.id = "g" /\ g.tabs = s
    BY <1>1
  <2> HIDE DEF g
  <2>2. DOMAIN <<g>> = {1} /\ <<g>>[1] = g
    OBVIOUS
  <2> QED BY <1>2, <2>1, <2>2 DEF AtHome
<1>4. server.rev = 1
  BY <1>1
<1>5. \A b \in Browsers : Rests(page[b], server)
  <2>1. \A b \in Browsers : page[b] = NewPage(b)
    BY <1>1
  <2> QED BY <1>4, <2>1, NewRests
<1> QED BY <1>3, <1>5 DEF RestInv, Resting

LEMMA RestStep ==
  ASSUME ListInv, RestInv, [TabsNext]_<<focus, wbVars, sessionVars>>
  PROVE  RestInv'
<1>1. CASE WbNext
  <2>1. PICK b \in Browsers : WbStep(b)
    BY <1>1 DEF WbNext
  <2> QED BY <2>1, LoadRests, ResyncRests, TimerRests, SavedRests, ConflictRests, NotSavedRests,
             ReloadRests, EditRests DEF WbStep
<1>2. CASE UNCHANGED wbVars
  <2>1. server' = server /\ page' = page
    BY <1>2 DEF wbVars
  <2> QED BY <2>1 DEF RestInv
<1> QED BY <1>1, <1>2 DEF TabsNext

-----------------------------------------------------------------------------
(***************************************************************************)
(* The sessions of the tabs.  What a reconcile that nothing runs into has  *)
(* done so far: with no answer, nothing (SilentSo); else, up to the        *)
(* judgement of the tabs, no shell runs that was not listed, and after it  *)
(* a tab names one that was, one made since, or none (HeardSo).            *)
(***************************************************************************)
MaybeSession == Sessions \cup {TS!None}
TabRec == [open : BOOLEAN, session : MaybeSession, second : MaybeSession, split : BOOLEAN]
Lives == {"live", "detached", "unreachable"}
Shells == {"unborn", "running", "zero", "crash", "gone"}
RecFields == {"pc", "list", "settled", "quiet", "refilled", "held", "at", "session", "peers",
              "todo"}
Early == {"settle", "settling", "refill", "refilling", "peers"}
Later == {"reopen", "reopening", "active", "done"}

OpenHere == TS!Open \cap TS!Local
RunningHere == TS!Running(TS!Here)
Listed == TS!ListedAs(rec.list, {"running"})
InHand == IF rec.pc = "reopening" THEN {rec.session} ELSE {}

TabsTyped ==
  /\ tab \in [TabNames -> TabRec] /\ live \in [TabNames -> Lives]
  /\ shell \in [Sessions -> Shells]

RecTyped ==
  /\ DOMAIN rec = RecFields /\ rec.pc \in Early \cup Later
  /\ rec.quiet \in BOOLEAN /\ rec.refilled \in BOOLEAN
  /\ rec.session \in MaybeSession /\ rec.todo \subseteq TabNames /\ Listed \subseteq Sessions
  /\ rec.pc = "peers" => DOMAIN rec.peers \subseteq PeerTabs

SilentSo ==
  /\ rec.pc \in {"settle", "peers"} \cup (Later \ {"reopening"}) /\ rec.todo = {}
  /\ \A t \in TS!Local : tab[t].session = rec.held[t]
  /\ rec.pc = "peers" => \A t \in OpenHere : live[t] # "detached"

Judged ==
  /\ \A t \in OpenHere : tab[t].session \in Listed \cup RunningHere \cup {TS!None}
  /\ rec.pc = "peers" => \A t \in OpenHere : live[t] = "detached" => tab[t].session = TS!None

Reopens ==
  /\ rec.todo \subseteq OpenHere /\ \A t \in rec.todo : tab[t].session = TS!None
  /\ rec.pc = "reopening" =>
       /\ rec.at \in OpenHere /\ rec.at \notin rec.todo /\ tab[rec.at].session = TS!None
       /\ rec.session \in RunningHere

HeardSo ==
  /\ rec.pc \in Early => RunningHere \subseteq Listed \/ rec.refilled
  /\ rec.pc \in {"peers"} \cup Later => Judged
  /\ rec.pc \in {"reopen", "reopening"} =>
       Reopens /\ (RunningHere \subseteq Listed \cup TS!Bound \cup InHand \/ rec.refilled)
  /\ rec.pc \in {"active", "done"} => RunningHere \subseteq TS!Bound \/ rec.refilled
  /\ rec.pc = "done" /\ TS!Open # {} => active \in TS!Open

Undisturbed == IF rec.list = TS!Silent THEN SilentSo ELSE HeardSo
RecInv == rec = TS!NotRec \/ (RecTyped /\ (rec.quiet => Undisturbed))
SessionsInv == TabsTyped /\ RecInv

LEMMA TabChanges ==
  ASSUME NEW tb \in [TabNames -> TabRec], NEW t, NEW s \in MaybeSession, NEW x \in BOOLEAN
  PROVE  /\ TS!Bind(tb, t, s) \in [TabNames -> TabRec] /\ TS!Unbind(tb, t) \in [TabNames -> TabRec]
         /\ [tb EXCEPT ![t] = TS!Closed] \in [TabNames -> TabRec]
         /\ [tb EXCEPT ![t] = TS!Fresh(s)] \in [TabNames -> TabRec]
         /\ [tb EXCEPT ![t].split = x] \in [TabNames -> TabRec]
         /\ [tb EXCEPT ![t].split = x, ![t].second = s] \in [TabNames -> TabRec]
<1>1. TS!Closed \in TabRec /\ TS!Fresh(s) \in TabRec
  BY DEF TabRec, TS!Closed, TS!Fresh, MaybeSession
<1>2. \A r \in TabRec : /\ [r EXCEPT !.session = s] \in TabRec
                        /\ [r EXCEPT !.session = TS!None] \in TabRec
                        /\ [r EXCEPT !.split = x] \in TabRec
                        /\ [[r EXCEPT !.split = x] EXCEPT !.second = s] \in TabRec
  BY DEF TabRec, MaybeSession
<1>3. \A r : /\ ((t \in TabNames => r \in TabRec) => [tb EXCEPT ![t] = r] \in [TabNames -> TabRec])
  OBVIOUS
<1>4. t \in TabNames => tb[t] \in TabRec
  OBVIOUS
<1>5. /\ [tb EXCEPT ![t] = [tb[t] EXCEPT !.session = s]] \in [TabNames -> TabRec]
      /\ [tb EXCEPT ![t] = [tb[t] EXCEPT !.session = TS!None]] \in [TabNames -> TabRec]
      /\ [tb EXCEPT ![t] = [tb[t] EXCEPT !.split = x]] \in [TabNames -> TabRec]
      /\ [tb EXCEPT ![t] = [[tb[t] EXCEPT !.split = x] EXCEPT !.second = s]]
           \in [TabNames -> TabRec]
  BY <1>2, <1>3, <1>4
<1>6. /\ [tb EXCEPT ![t].session = s] \in [TabNames -> TabRec]
      /\ [tb EXCEPT ![t].session = TS!None] \in [TabNames -> TabRec]
      /\ [tb EXCEPT ![t].split = x] \in [TabNames -> TabRec]
  BY <1>5
<1>7. [tb EXCEPT ![t].split = x, ![t].second = s] \in [TabNames -> TabRec]
  BY <1>5
<1>8. TS!Bind(tb, t, s) \in [TabNames -> TabRec] /\ TS!Unbind(tb, t) \in [TabNames -> TabRec]
  BY <1>6 DEF TS!Bind, TS!Unbind
<1> QED BY <1>1, <1>3, <1>6, <1>7, <1>8

(* What may become of the shells                                           *)
LEMMA ShellsDrop ==
  ASSUME TabsTyped, NEW ss, TS!Drops(ss)
  PROVE  shell' \in [Sessions -> Shells] /\ RunningHere' \subseteq RunningHere
<1>1. shell' \in [Sessions -> Shells] /\ \A s \in Sessions : shell'[s] \in {shell[s], "gone"}
  BY DEF TabsTyped, TS!Drops, TS!Deleted, Shells
<1> QED BY <1>1 DEF RunningHere, TS!Running, TS!Here

LEMMA ShellMade ==
  ASSUME TabsTyped, NEW t, NEW s \in Sessions, TS!Created(t, shell', s)
  PROVE  /\ shell' \in [Sessions -> Shells] /\ s \in TS!Home(t)
         /\ RunningHere \subseteq RunningHere' /\ RunningHere' \subseteq RunningHere \cup {s}
         /\ (s \in TS!Here => s \in RunningHere')
<1>1. shell' = [shell EXCEPT ![s] = "running"] /\ s \in TS!Home(t)
  BY DEF TS!Created, TS!Free
<1>2. shell' \in [Sessions -> Shells]
  BY <1>1 DEF TabsTyped, Shells
<1>3. \A x \in Sessions : shell'[x] = IF x = s THEN "running" ELSE shell[x]
  BY <1>1 DEF TabsTyped
<1> QED BY <1>1, <1>2, <1>3 DEF RunningHere, TS!Running, TS!Here

(* A tab closed, another one shown                                         *)
LEMMA TabGone ==
  ASSUME TabsTyped, NEW t, TS!Removed(t)
  PROVE  tab' \in [TabNames -> TabRec] /\ live' \in [TabNames -> Lives]
<1>1. tab' \in [TabNames -> TabRec]
  <2>1. tab \in [TabNames -> TabRec] /\ TS!None \in MaybeSession /\ TRUE \in BOOLEAN
    BY DEF TabsTyped, MaybeSession
  <2>2. [tab EXCEPT ![t] = TS!Closed] \in [TabNames -> TabRec]
    BY <2>1, TabChanges
  <2> QED BY <2>2 DEF TS!Removed
<1>2. live' \in [TabNames -> Lives]
  BY DEF TabsTyped, TS!Removed, Lives
<1> QED BY <1>1, <1>2

LEMMA SettleTypes ==
  ASSUME TabsTyped, NEW t, NEW code
  PROVE  /\ TS!SettleAsks(t, code) => /\ shell' \in [Sessions -> Shells]
                                      /\ live' \in [TabNames -> Lives]
                                      /\ RunningHere' \subseteq RunningHere
         /\ TS!SettleEnds(t, code) => /\ tab' \in [TabNames -> TabRec]
                                      /\ live' \in [TabNames -> Lives]
<1>1. ASSUME TS!SettleAsks(t, code)
      PROVE  /\ shell' \in [Sessions -> Shells] /\ live' \in [TabNames -> Lives]
             /\ RunningHere' \subseteq RunningHere
  <2>1. \E ss : TS!Drops(ss)
    BY <1>1 DEF TS!SettleAsks
  <2>2. live' \in [TabNames -> Lives]
    BY <1>1 DEF TS!SettleAsks, TabsTyped, Lives
  <2> QED BY <2>1, <2>2, ShellsDrop
<1>2. ASSUME TS!SettleEnds(t, code)
      PROVE  tab' \in [TabNames -> TabRec] /\ live' \in [TabNames -> Lives]
  <2>1. CASE code = "zero"
    BY <1>2, <2>1, TabGone DEF TS!SettleEnds
  <2>2. CASE code # "zero"
    <3>1. tab \in [TabNames -> TabRec] /\ TS!None \in MaybeSession /\ TRUE \in BOOLEAN
      BY DEF TabsTyped, MaybeSession
    <3>2. TS!Unbind(tab, t) \in [TabNames -> TabRec]
      BY <3>1, TabChanges
    <3> QED BY <1>2, <2>2, <3>2 DEF TS!SettleEnds, TabsTyped
  <2> QED BY <2>1, <2>2
<1> QED BY <1>1, <1>2

LEMMA RefillTypes ==
  ASSUME TabsTyped, NEW t, NEW s \in MaybeSession, TS!Refill(t, s)
  PROVE  TabsTyped'
<1>1. tab' = [tab EXCEPT ![t] = TS!Fresh(TS!None)] /\ live' = live
  BY DEF TS!Refill
<1>2. tab \in [TabNames -> TabRec] /\ TS!None \in MaybeSession /\ TRUE \in BOOLEAN
  BY DEF TabsTyped, MaybeSession
<1>3. [tab EXCEPT ![t] = TS!Fresh(TS!None)] \in [TabNames -> TabRec]
  BY <1>2, TabChanges
<1>4. shell' \in [Sessions -> Shells]
  <2>1. CASE shell' = shell
    BY <2>1 DEF TabsTyped
  <2>2. CASE s # TS!None /\ TS!Created(t, shell', s)
    <3>1. s \in Sessions
      BY <2>2 DEF MaybeSession
    <3> QED BY <2>2, <3>1, ShellMade
  <2> QED BY <2>1, <2>2 DEF TS!Refill
<1> QED BY <1>1, <1>3, <1>4 DEF TabsTyped

(* What the user does keeps the types, and runs into a reconcile.          *)
LEMMA UserTypes ==
  ASSUME TabsTyped, TS!User
  PROVE  TabsTyped' /\ TS!Disturb
<1>1. tab \in [TabNames -> TabRec] /\ live \in [TabNames -> Lives] /\ shell \in [Sessions -> Shells]
  BY DEF TabsTyped
<1>2. \A t : [live EXCEPT ![t] = "live"] \in [TabNames -> Lives]
  BY <1>1 DEF Lives
<1>3. TS!None \in MaybeSession /\ TRUE \in BOOLEAN /\ FALSE \in BOOLEAN
  BY DEF MaybeSession
<1>4. ASSUME NEW t \in TabNames, TS!NewTab(t) PROVE TabsTyped'
  <2>1. tab' \in [TabNames -> TabRec]
    BY <1>1, <1>3, <1>4, TabChanges DEF TS!NewTab
  <2>2. shell' \in [Sessions -> Shells]
    BY <1>1, <1>4, ShellMade DEF TS!NewTab
  <2>3. live' = live
    BY <1>4 DEF TS!NewTab
  <2> QED BY <1>1, <2>1, <2>2, <2>3 DEF TabsTyped
<1>5. ASSUME NEW t \in TabNames, TS!Restore(t) PROVE TabsTyped'
  <2>1. shell' \in [Sessions -> Shells]
    BY <1>1, <1>5, ShellMade DEF TS!Restore
  <2>2. tab' = tab /\ live' = live
    BY <1>5 DEF TS!Restore
  <2> QED BY <1>1, <2>1, <2>2 DEF TabsTyped
<1>6. ASSUME NEW t \in TabNames, TS!CloseTab(t) PROVE TabsTyped'
  <2>1. shell' \in [Sessions -> Shells]
    BY <1>6, ShellsDrop DEF TS!CloseTab
  <2>2. tab' = tab /\ live' = live
    BY <1>6 DEF TS!CloseTab
  <2> QED BY <1>1, <2>1, <2>2 DEF TabsTyped
<1>7. ASSUME NEW t \in TabNames, TS!TabClosed(t) PROVE TabsTyped'
  <2>1. shell' = shell /\ TS!Removed(t)
    BY <1>7 DEF TS!TabClosed
  <2> QED BY <1>1, <2>1, TabGone DEF TabsTyped
<1>8. ASSUME NEW t \in TabNames, TS!SplitTab(t) PROVE TabsTyped'
  <2>1. tab' \in [TabNames -> TabRec]
    BY <1>1, <1>3, <1>8, TabChanges DEF TS!SplitTab
  <2>2. shell' \in [Sessions -> Shells]
    BY <1>1, <1>8, ShellMade DEF TS!SplitTab
  <2>3. live' = live
    BY <1>8 DEF TS!SplitTab
  <2> QED BY <1>1, <2>1, <2>2, <2>3 DEF TabsTyped
<1>9. ASSUME NEW t \in TabNames, TS!Unsplit(t), live' = live PROVE TabsTyped'
  <2>1. tab' \in [TabNames -> TabRec]
    BY <1>1, <1>3, <1>9, TabChanges DEF TS!Unsplit
  <2>2. shell' \in [Sessions -> Shells]
    BY <1>9, ShellsDrop DEF TS!Unsplit
  <2> QED BY <1>1, <1>9, <2>1, <2>2 DEF TabsTyped
<1>10. ASSUME NEW t \in TabNames, TS!SwitchTab(t) PROVE TabsTyped'
  BY <1>1, <1>10 DEF TS!SwitchTab, TabsTyped
<1>11. ASSUME NEW t \in TabNames, TS!ExitSeen(t) PROVE TabsTyped'
  <2>1. \E code : TS!SettleAsks(t, code)
    BY <1>11 DEF TS!ExitSeen
  <2>2. tab' = tab
    BY <1>11 DEF TS!ExitSeen
  <2> QED BY <1>1, <2>1, <2>2, SettleTypes DEF TabsTyped
<1>12. ASSUME NEW t \in TabNames, NEW s \in MaybeSession, TS!TabCreated(t, s) PROVE TabsTyped'
  <2>1. shell' = shell
    BY <1>12 DEF TS!TabCreated
  <2>2. tab' \in [TabNames -> TabRec] /\ live' \in [TabNames -> Lives]
    <3>1. CASE s = TS!None
      BY <1>12, <3>1, TabGone DEF TS!TabCreated
    <3>2. CASE s # TS!None
      <4>1. tab' = TS!Bind(tab, t, s) /\ live' = [live EXCEPT ![t] = "live"]
        BY <1>12, <3>2 DEF TS!TabCreated
      <4> QED BY <1>1, <1>2, <1>3, <4>1, TabChanges
    <3> QED BY <3>1, <3>2
  <2> QED BY <1>1, <2>1, <2>2 DEF TabsTyped
<1>13. ASSUME NEW t \in TabNames, NEW s \in MaybeSession, TS!Restored(t, s) PROVE TabsTyped'
  <2>1. shell' = shell
    BY <1>13 DEF TS!Restored
  <2>2. tab' \in {tab, TS!Bind(tab, t, s)} /\ live' \in {live, [live EXCEPT ![t] = "live"]}
    BY <1>13 DEF TS!Restored
  <2>3. TS!Bind(tab, t, s) \in [TabNames -> TabRec]
    BY <1>1, <1>3, TabChanges
  <2> QED BY <1>1, <1>2, <2>1, <2>2, <2>3 DEF TabsTyped
<1>14. ASSUME NEW t \in TabNames, NEW s \in MaybeSession, TS!SplitMade(t, s) PROVE TabsTyped'
  <2>1. shell' = shell /\ live' = live
    BY <1>14 DEF TS!SplitMade
  <2>2. tab' \in {tab, [tab EXCEPT ![t].split = s # TS!None, ![t].second = s]}
    BY <1>14 DEF TS!SplitMade
  <2>3. [tab EXCEPT ![t].split = s # TS!None, ![t].second = s] \in [TabNames -> TabRec]
    <3> DEFINE x == s # TS!None
    <3>1. x \in BOOLEAN
      OBVIOUS
    <3> HIDE DEF x
    <3>2. [tab EXCEPT ![t].split = x, ![t].second = s] \in [TabNames -> TabRec]
      BY <1>1, <3>1, TabChanges
    <3> QED BY <3>2 DEF x
  <2> QED BY <1>1, <2>1, <2>2, <2>3 DEF TabsTyped
<1>15. ASSUME NEW t \in TabNames, NEW s \in MaybeSession, TS!LastSettled(t, s) PROVE TabsTyped'
  BY <1>15, RefillTypes DEF TS!LastSettled
<1>16. ASSUME NEW c, TS!ExitSettled(c) PROVE TabsTyped'
  <2>1. shell' = shell /\ \E t, code : TS!SettleEnds(t, code)
    BY <1>16 DEF TS!ExitSettled
  <2> QED BY <1>1, <2>1, SettleTypes DEF TabsTyped
<1>17. TabsTyped'
  <2>1. \A t \in TabNames : TS!UnsplitTab(t) => TS!Unsplit(t) /\ live' = live
    BY DEF TS!UnsplitTab
  <2>2. CASE \E t \in TabNames : \/ TS!NewTab(t) \/ TS!Restore(t) \/ TS!CloseTab(t)
                                 \/ TS!TabClosed(t) \/ TS!SplitTab(t) \/ TS!UnsplitTab(t)
                                 \/ TS!SwitchTab(t) \/ TS!ExitSeen(t)
    BY <1>4, <1>5, <1>6, <1>7, <1>8, <1>9, <1>10, <1>11, <2>1, <2>2
  <2>3. CASE \E t \in TabNames, s \in MaybeSession :
               TS!TabCreated(t, s) \/ TS!Restored(t, s)
               \/ TS!SplitMade(t, s) \/ TS!LastSettled(t, s)
    BY <1>12, <1>13, <1>14, <1>15, <2>3
  <2> QED BY <1>16, <2>2, <2>3 DEF TS!User, MaybeSession
<1>18. TS!Disturb
  BY DEF TS!User, TS!NewTab, TS!Restore, TS!CloseTab, TS!TabClosed, TS!SplitTab, TS!UnsplitTab,
         TS!SwitchTab, TS!ExitSeen, TS!TabCreated, TS!Restored, TS!SplitMade, TS!LastSettled,
         TS!ExitSettled
<1> QED BY <1>17, <1>18

(* A step of the reconcile leaves its list and what it saw alone.          *)
SameRec ==
  /\ DOMAIN rec' = RecFields /\ rec'.list = rec.list /\ rec'.quiet = rec.quiet
  /\ rec'.held = rec.held

StaysSo == TabsTyped' /\ RecTyped' /\ ((rec.quiet => Undisturbed) => (rec'.quiet => Undisturbed'))

LEMMA NothingListed ==
  ASSUME rec.list = TS!Silent, NEW states PROVE TS!ListedAs(rec.list, states) = {}
BY DEF TS!ListedAs

LEMMA SettleNextKeeps ==
  ASSUME TabsTyped, RecTyped, NEW t \in TabNames, TS!SettleNext(t)
  PROVE  StaysSo
<1>1. \E code : TS!SettleAsks(t, code)
  BY DEF TS!SettleNext
<1>2. /\ rec.pc = "settle" /\ tab' = tab /\ TS!Exited(t)
      /\ rec' = [rec EXCEPT !.pc = "settling", !.at = t, !.session = tab[t].session,
                            !.settled = rec.settled \cup {t}]
  BY DEF TS!SettleNext
<1>3. TabsTyped' /\ RunningHere' \subseteq RunningHere
  BY <1>1, <1>2, SettleTypes DEF TabsTyped
<1>4. /\ SameRec /\ rec'.pc = "settling" /\ rec'.session = tab[t].session
      /\ rec'.refilled = rec.refilled /\ rec'.todo = rec.todo
  BY <1>2 DEF RecTyped, RecFields, SameRec
<1>5. Listed' = Listed
  BY <1>4 DEF Listed, SameRec
<1>6. RecTyped'
  <2>1. tab[t].session \in MaybeSession
    BY DEF TabsTyped, TabRec
  <2> QED BY <1>4, <1>5, <2>1 DEF RecTyped, SameRec, Early
<1>7. rec.list # TS!Silent
  BY <1>2, NothingListed DEF TS!Exited
<1>8. HeardSo => HeardSo'
  BY <1>2, <1>3, <1>4, <1>5 DEF HeardSo, Early, Later
<1> QED BY <1>3, <1>4, <1>6, <1>7, <1>8 DEF StaysSo, Undisturbed, SameRec

LEMMA SettleDoneKeeps ==
  ASSUME TabsTyped, RecTyped, TS!SettleDone
  PROVE  StaysSo
<1>1. /\ rec.pc = "settling" /\ shell' = shell /\ \E t, code : TS!SettleEnds(t, code)
      /\ \E x \in {"refill", "settle"} : rec' = [rec EXCEPT !.pc = x]
  BY DEF TS!SettleDone
<1>2. TabsTyped'
  BY <1>1, SettleTypes DEF TabsTyped
<1>3. PICK x \in {"refill", "settle"} : rec' = [rec EXCEPT !.pc = x]
  BY <1>1
<1>4. /\ SameRec /\ rec'.pc = x /\ rec'.session = rec.session
      /\ rec'.refilled = rec.refilled /\ rec'.todo = rec.todo
  BY <1>3 DEF RecTyped, RecFields, SameRec
<1>5. Listed' = Listed /\ RunningHere' = RunningHere
  BY <1>1, <1>4 DEF Listed, SameRec, RunningHere, TS!Running
<1>6. RecTyped'
  BY <1>4, <1>5 DEF RecTyped, SameRec, Early
<1>7. SilentSo => FALSE
  BY <1>1 DEF SilentSo, Later
<1>8. HeardSo => HeardSo'
  BY <1>1, <1>4, <1>5 DEF HeardSo, Early, Later
<1> QED BY <1>2, <1>4, <1>6, <1>7, <1>8 DEF StaysSo, Undisturbed, SameRec

LEMMA RefillNextKeeps ==
  ASSUME TabsTyped, RecTyped, NEW t \in TabNames, NEW s \in MaybeSession, TS!RefillNext(t, s)
  PROVE  StaysSo
<1>1. /\ rec.pc = "refill" /\ TS!Refill(t, s)
      /\ rec' = [rec EXCEPT !.pc = "refilling", !.at = t, !.session = s, !.refilled = TRUE]
  BY DEF TS!RefillNext
<1>2. TabsTyped'
  BY <1>1, RefillTypes
<1>4. /\ SameRec /\ rec'.pc = "refilling" /\ rec'.session = s
      /\ rec'.refilled = TRUE /\ rec'.todo = rec.todo
  BY <1>1 DEF RecTyped, RecFields, SameRec
<1>5. Listed' = Listed
  BY <1>4 DEF Listed, SameRec
<1>6. RecTyped'
  BY <1>4, <1>5 DEF RecTyped, SameRec, Early
<1>7. SilentSo => FALSE
  BY <1>1 DEF SilentSo, Later
<1>8. HeardSo'
  BY <1>4 DEF HeardSo, Early, Later
<1> QED BY <1>2, <1>4, <1>6, <1>7, <1>8 DEF StaysSo, Undisturbed, SameRec

LEMMA RefillDoneKeeps ==
  ASSUME TabsTyped, RecTyped, TS!RefillDone
  PROVE  StaysSo
<1>1. /\ rec.pc = "refilling" /\ shell' = shell /\ rec' = [rec EXCEPT !.pc = "settle"]
      /\ TS!Removed(rec.at) \/ (tab' = TS!Bind(tab, rec.at, rec.session) /\ live' = live)
  BY DEF TS!RefillDone
<1>2. TabsTyped'
  <2>1. CASE TS!Removed(rec.at)
    BY <1>1, <2>1, TabGone DEF TabsTyped
  <2>2. CASE tab' = TS!Bind(tab, rec.at, rec.session) /\ live' = live
    <3>1. tab \in [TabNames -> TabRec] /\ rec.session \in MaybeSession /\ TRUE \in BOOLEAN
      BY DEF TabsTyped, RecTyped
    <3>2. TS!Bind(tab, rec.at, rec.session) \in [TabNames -> TabRec]
      BY <3>1, TabChanges
    <3> QED BY <1>1, <2>2, <3>2 DEF TabsTyped
  <2> QED BY <1>1, <2>1, <2>2
<1>4. /\ SameRec /\ rec'.pc = "settle" /\ rec'.session = rec.session
      /\ rec'.refilled = rec.refilled /\ rec'.todo = rec.todo
  BY <1>1 DEF RecTyped, RecFields, SameRec
<1>5. Listed' = Listed /\ RunningHere' = RunningHere
  BY <1>1, <1>4 DEF Listed, SameRec, RunningHere, TS!Running
<1>6. RecTyped'
  BY <1>4, <1>5 DEF RecTyped, SameRec, Early
<1>7. SilentSo => FALSE
  BY <1>1 DEF SilentSo, Later
<1>8. HeardSo => HeardSo'
  BY <1>1, <1>4, <1>5 DEF HeardSo, Early, Later
<1> QED BY <1>2, <1>4, <1>6, <1>7, <1>8 DEF StaysSo, Undisturbed, SameRec

LEMMA UnsplitNextKeeps ==
  ASSUME TabsTyped, RecTyped, NEW t \in TabNames, TS!UnsplitNext(t)
  PROVE  StaysSo
<1>1. rec.pc = "settle" /\ TS!Unsplit(t) /\ live' = live /\ rec' = rec /\ TS!SplitGone(t)
  BY DEF TS!UnsplitNext
<1>2. TabsTyped' /\ RunningHere' \subseteq RunningHere
  <2>1. tab \in [TabNames -> TabRec] /\ TS!None \in MaybeSession /\ FALSE \in BOOLEAN
    BY DEF TabsTyped, MaybeSession
  <2>2. [tab EXCEPT ![t].split = FALSE, ![t].second = TS!None] \in [TabNames -> TabRec]
    BY <2>1, TabChanges
  <2>3. tab' \in [TabNames -> TabRec] /\ \E ss : TS!Drops(ss)
    BY <1>1, <2>2 DEF TS!Unsplit
  <2> QED BY <1>1, <2>3, ShellsDrop DEF TabsTyped
<1>3. Listed' = Listed /\ RecTyped'
  BY <1>1 DEF Listed, RecTyped
<1>4. rec.list # TS!Silent
  BY <1>1, NothingListed DEF TS!SplitGone
<1>5. HeardSo => HeardSo'
  BY <1>1, <1>2, <1>3 DEF HeardSo, Early, Later
<1> QED BY <1>1, <1>2, <1>3, <1>4, <1>5 DEF StaysSo, Undisturbed

(* The judgement of the tabs ts, by the list                               *)
LEMMA Applied ==
  ASSUME TabsTyped, NEW ts, NEW had, NEW list, TS!Apply(ts, had, list)
  PROVE  /\ tab' \in [TabNames -> TabRec] /\ live' \in [TabNames -> Lives]
         /\ \A t \in TabNames :
              /\ tab'[t].open = tab[t].open /\ tab'[t].second = tab[t].second
              /\ t \notin ts => tab'[t] = tab[t] /\ live'[t] = live[t]
              /\ t \in ts => /\ live'[t] = TS!TabLivenessFrom(had[t].session, list)
                             /\ tab'[t] = tab[t] \/ tab'[t].session = TS!None
                             /\ live'[t] # "detached" => tab'[t] = tab[t]
                             /\ (live'[t] = "detached" /\ had[t].session # TS!None) =>
                                  tab'[t].session = TS!None
<1>1. tab \in [TabNames -> TabRec] /\ live \in [TabNames -> Lives] /\ TS!None \in MaybeSession
  BY DEF TabsTyped, MaybeSession
<1>2. /\ live' = [t \in TabNames |-> IF t \in ts THEN TS!TabLivenessFrom(had[t].session, list)
                                     ELSE live[t]]
      /\ tab' = [t \in TabNames |->
                   IF t \in ts /\ live'[t] = "detached" /\ had[t].session # TS!None
                   THEN TS!Unbind(tab, t)[t] ELSE tab[t]]
  BY DEF TS!Apply
<1>3. live' \in [TabNames -> Lives]
  BY <1>1, <1>2 DEF Lives, TS!TabLivenessFrom
<1>4. \A t \in TabNames : /\ TS!Unbind(tab, t)[t] \in TabRec
                          /\ TS!Unbind(tab, t)[t].open = tab[t].open
                          /\ TS!Unbind(tab, t)[t].second = tab[t].second
                          /\ TS!Unbind(tab, t)[t].session = TS!None
  BY <1>1 DEF TS!Unbind, TabRec
<1>5. tab' \in [TabNames -> TabRec]
  BY <1>1, <1>2, <1>4
<1>6. \A t \in TabNames :
        /\ live'[t] = IF t \in ts THEN TS!TabLivenessFrom(had[t].session, list) ELSE live[t]
        /\ tab'[t] = IF t \in ts /\ live'[t] = "detached" /\ had[t].session # TS!None
                     THEN TS!Unbind(tab, t)[t] ELSE tab[t]
  BY <1>2
<1> QED BY <1>3, <1>4, <1>5, <1>6

LEMMA JudgeLocalKeeps ==
  ASSUME TabsTyped, RecTyped, TS!JudgeLocal
  PROVE  StaysSo
<1> DEFINE ts == TS!Open \cap TS!Local
           ps == [t \in TS!Open \cap PeerTabs |-> tab[t]]
<1>1. /\ rec.pc = "settle" /\ TS!Apply(ts, tab, rec.list) /\ active' = active /\ shell' = shell
      /\ rec' = [rec EXCEPT !.pc = "peers", !.peers = ps]
  BY DEF TS!JudgeLocal
<1>2. /\ tab' \in [TabNames -> TabRec] /\ live' \in [TabNames -> Lives]
      /\ \A t \in TabNames :
           /\ tab'[t].open = tab[t].open
           /\ t \notin ts => tab'[t] = tab[t]
           /\ t \in ts => /\ live'[t] = TS!TabLivenessFrom(tab[t].session, rec.list)
                          /\ live'[t] # "detached" => tab'[t] = tab[t]
                          /\ (live'[t] = "detached" /\ tab[t].session # TS!None) =>
                               tab'[t].session = TS!None
                          /\ tab'[t] = tab[t] \/ tab'[t].session = TS!None
  <2> HIDE DEF ts
  <2> QED BY <1>1, Applied
<1>3. TabsTyped'
  BY <1>1, <1>2 DEF TabsTyped
<1>4. /\ SameRec /\ rec'.pc = "peers" /\ rec'.session = rec.session /\ rec'.peers = ps
      /\ rec'.refilled = rec.refilled /\ rec'.todo = rec.todo
  <2> HIDE DEF ps
  <2> QED BY <1>1 DEF RecTyped, RecFields, SameRec
<1>5. Listed' = Listed /\ RunningHere' = RunningHere /\ OpenHere' = OpenHere /\ OpenHere = ts
  BY <1>1, <1>2, <1>4 DEF Listed, SameRec, RunningHere, TS!Running, OpenHere, TS!Open
<1>6. RecTyped'
  <2>1. DOMAIN ps \subseteq PeerTabs
    OBVIOUS
  <2> HIDE DEF ps
  <2> QED BY <1>4, <1>5, <2>1 DEF RecTyped, SameRec, Early
<1> HIDE DEF ts
<1>7. OpenHere \subseteq TabNames /\ TS!Local \subseteq TabNames
  BY DEF OpenHere, TS!Local
<1>8. CASE rec.list = TS!Silent
  <2>1. \A t \in OpenHere : live'[t] = "unreachable"
    BY <1>2, <1>5, <1>7, <1>8 DEF TS!TabLivenessFrom
  <2>2. \A t \in TS!Local : tab'[t] = tab[t]
    BY <1>2, <1>5, <1>7, <2>1
  <2>3. SilentSo => SilentSo'
    BY <1>4, <1>5, <2>1, <2>2 DEF SilentSo, SameRec
  <2> QED BY <1>3, <1>4, <1>6, <1>8, <2>3 DEF StaysSo, Undisturbed, SameRec
<1>9. CASE rec.list # TS!Silent
  <2>1. \A t \in OpenHere : live'[t] = IF tab[t].session \in Listed THEN "live" ELSE "detached"
    BY <1>2, <1>5, <1>7, <1>9 DEF TS!TabLivenessFrom, Listed
  <2>2. ASSUME NEW t \in OpenHere
        PROVE  /\ tab'[t].session \in Listed \cup {TS!None}
               /\ live'[t] = "detached" => tab'[t].session = TS!None
    BY <1>2, <1>5, <1>7, <2>1
  <2>3. Judged'
    BY <1>5, <2>2 DEF Judged
  <2>4. HeardSo => HeardSo'
    BY <1>1, <1>4, <1>5, <2>3 DEF HeardSo, Early, Later
  <2> QED BY <1>3, <1>4, <1>6, <1>9, <2>4 DEF StaysSo, Undisturbed, SameRec
<1> QED BY <1>8, <1>9

LEMMA JudgePeersKeeps ==
  ASSUME TabsTyped, RecTyped, TS!JudgePeers
  PROVE  StaysSo
<1> DEFINE ts == DOMAIN rec.peers
           todo == {t \in TS!Local : tab'[t].open /\ t \notin rec.settled /\ live'[t] = "detached"}
<1>1. /\ rec.pc = "peers" /\ active' = active /\ shell' = shell
      /\ \E list : TS!Apply(ts, rec.peers, list)
      /\ rec' = [rec EXCEPT !.pc = "reopen", !.todo = todo]
  BY DEF TS!JudgePeers
<1>2. /\ tab' \in [TabNames -> TabRec] /\ live' \in [TabNames -> Lives]
      /\ \A t \in TabNames : /\ tab'[t].open = tab[t].open
                             /\ t \notin ts => tab'[t] = tab[t] /\ live'[t] = live[t]
  <2> HIDE DEF ts
  <2> QED BY <1>1, Applied
<1>3. TabsTyped'
  BY <1>1, <1>2 DEF TabsTyped
<1>4. /\ SameRec /\ rec'.pc = "reopen" /\ rec'.session = rec.session
      /\ rec'.refilled = rec.refilled /\ rec'.todo = todo
  <2> HIDE DEF todo
  <2> QED BY <1>1 DEF RecTyped, RecFields, SameRec
<1>5. Listed' = Listed /\ RunningHere' = RunningHere /\ OpenHere' = OpenHere
  BY <1>1, <1>2, <1>4 DEF Listed, SameRec, RunningHere, TS!Running, OpenHere, TS!Open
<1>6. \A t \in TS!Local : t \in TabNames /\ tab'[t] = tab[t] /\ live'[t] = live[t]
  BY <1>1, <1>2 DEF TS!Local, RecTyped
<1>7. todo \subseteq OpenHere /\ OpenHere \subseteq TS!Local /\ \A t \in todo : live[t] = "detached"
  BY <1>6 DEF OpenHere, TS!Open
<1> HIDE DEF todo
<1>8. RecTyped'
  BY <1>4, <1>5, <1>6, <1>7 DEF RecTyped, SameRec, Later
<1>9. SilentSo => SilentSo'
  BY <1>1, <1>4, <1>6, <1>7 DEF SilentSo, SameRec, Later
<1>10. HeardSo => HeardSo'
  <2>1. SUFFICES ASSUME HeardSo PROVE HeardSo'
    OBVIOUS
  <2>2. Judged /\ (RunningHere \subseteq Listed \/ rec.refilled)
    BY <1>1, <2>1 DEF HeardSo, Early
  <2>3. Judged' /\ \A t \in todo : tab'[t].session = TS!None
    BY <1>1, <1>4, <1>5, <1>6, <1>7, <2>2 DEF Judged
  <2>4. Reopens'
    BY <1>4, <1>5, <1>7, <2>3 DEF Reopens
  <2> QED BY <1>4, <1>5, <2>2, <2>3, <2>4 DEF HeardSo, Early, Later
<1> QED BY <1>3, <1>4, <1>8, <1>9, <1>10 DEF StaysSo, Undisturbed, SameRec

LEMMA ReopenNextKeeps ==
  ASSUME TabsTyped, RecTyped, NEW t \in TabNames, TS!ReopenNext(t)
  PROVE  StaysSo
<1>1. rec.pc = "reopen" /\ t \in rec.todo /\ tab' = tab /\ live' = live /\ active' = active
  BY DEF TS!ReopenNext
<1>2. SilentSo => FALSE
  BY <1>1 DEF SilentSo
<1>3. OpenHere' = OpenHere /\ TS!Bound' = TS!Bound
  BY <1>1 DEF OpenHere, TS!Open, TS!Bound
<1>4. ASSUME NEW s \in Sessions, TS!Created(t, shell', s),
             rec' = [rec EXCEPT !.pc = "reopening", !.at = t, !.session = s, !.todo = @ \ {t}]
      PROVE  StaysSo
  <2>1. /\ SameRec /\ rec'.pc = "reopening" /\ rec'.at = t /\ rec'.session = s
        /\ rec'.refilled = rec.refilled /\ rec'.todo = rec.todo \ {t}
    BY <1>4 DEF RecTyped, RecFields, SameRec
  <2>2. /\ shell' \in [Sessions -> Shells] /\ s \in TS!Home(t)
        /\ RunningHere \subseteq RunningHere' /\ RunningHere' \subseteq RunningHere \cup {s}
        /\ (s \in TS!Here => s \in RunningHere')
    BY <1>4, ShellMade
  <2>3. Listed' = Listed
    BY <2>1 DEF Listed, SameRec
  <2>4. TabsTyped' /\ RecTyped'
    BY <1>1, <2>1, <2>2, <2>3 DEF TabsTyped, RecTyped, SameRec, Later, MaybeSession
  <2>5. HeardSo => HeardSo'
    <3>1. SUFFICES ASSUME HeardSo PROVE HeardSo'
      OBVIOUS
    <3>2. /\ Judged /\ Reopens
          /\ RunningHere \subseteq Listed \cup TS!Bound \cup InHand \/ rec.refilled
      BY <1>1, <3>1 DEF HeardSo, Later
    <3>3. s \in RunningHere'
      <4>1. t \in OpenHere /\ t \notin PeerTabs
        BY <1>1, <3>2 DEF Reopens, OpenHere, TS!Local
      <4> QED BY <2>2, <4>1 DEF TS!Home, TS!Here
    <3>4. Judged'
      BY <1>1, <1>3, <2>1, <2>2, <2>3, <3>2 DEF Judged
    <3>5. Reopens'
      BY <1>1, <1>3, <2>1, <3>2, <3>3 DEF Reopens
    <3>6. RunningHere' \subseteq Listed' \cup TS!Bound' \cup InHand' \/ rec'.refilled
      <4>1. InHand = {} /\ InHand' = {s}
        BY <1>1, <2>1 DEF InHand
      <4> QED BY <1>3, <2>1, <2>2, <2>3, <3>2, <4>1
    <3> QED BY <2>1, <3>4, <3>5, <3>6 DEF HeardSo, Early, Later
  <2> QED BY <1>2, <2>1, <2>4, <2>5 DEF StaysSo, Undisturbed, SameRec
<1>5. ASSUME rec' = [rec EXCEPT !.todo = @ \ {t}], shell' = shell
      PROVE  StaysSo
  <2>1. /\ SameRec /\ rec'.pc = "reopen" /\ rec'.session = rec.session
        /\ rec'.refilled = rec.refilled /\ rec'.todo = rec.todo \ {t}
    BY <1>1, <1>5 DEF RecTyped, RecFields, SameRec
  <2>2. Listed' = Listed /\ RunningHere' = RunningHere
    BY <1>5, <2>1 DEF Listed, SameRec, RunningHere, TS!Running
  <2>3. TabsTyped' /\ RecTyped'
    BY <1>1, <1>5, <2>1, <2>2 DEF TabsTyped, RecTyped, SameRec, Later
  <2>4. HeardSo => HeardSo'
    <3>1. SUFFICES ASSUME HeardSo PROVE HeardSo'
      OBVIOUS
    <3>2. /\ Judged /\ Reopens
          /\ RunningHere \subseteq Listed \cup TS!Bound \cup InHand \/ rec.refilled
      BY <1>1, <3>1 DEF HeardSo, Later
    <3>3. Judged' /\ Reopens'
      BY <1>1, <1>3, <2>1, <2>2, <3>2 DEF Judged, Reopens
    <3>4. InHand' = InHand
      BY <1>1, <2>1 DEF InHand
    <3> QED BY <1>3, <2>1, <2>2, <3>2, <3>3, <3>4 DEF HeardSo, Early, Later
  <2> QED BY <1>2, <2>1, <2>3, <2>4 DEF StaysSo, Undisturbed, SameRec
<1> QED BY <1>4, <1>5 DEF TS!ReopenNext

LEMMA ReopenDoneKeeps ==
  ASSUME TabsTyped, RecTyped, TS!ReopenDone
  PROVE  StaysSo
<1>1. /\ rec.pc = "reopening" /\ tab' = TS!Bind(tab, rec.at, rec.session) /\ shell' = shell
      /\ live' = [live EXCEPT ![rec.at] = "live"] /\ rec' = [rec EXCEPT !.pc = "reopen"]
  BY DEF TS!ReopenDone
<1>2. TabsTyped'
  <2>1. tab \in [TabNames -> TabRec] /\ rec.session \in MaybeSession /\ TRUE \in BOOLEAN
    BY DEF TabsTyped, RecTyped
  <2>2. TS!Bind(tab, rec.at, rec.session) \in [TabNames -> TabRec]
    BY <2>1, TabChanges
  <2>3. live' \in [TabNames -> Lives]
    BY <1>1 DEF TabsTyped, Lives
  <2> QED BY <1>1, <2>2, <2>3 DEF TabsTyped
<1>3. /\ SameRec /\ rec'.pc = "reopen" /\ rec'.session = rec.session
      /\ rec'.refilled = rec.refilled /\ rec'.todo = rec.todo
  BY <1>1 DEF RecTyped, RecFields, SameRec
<1>4. Listed' = Listed /\ RunningHere' = RunningHere
  BY <1>1, <1>3 DEF Listed, SameRec, RunningHere, TS!Running
<1>5. RecTyped'
  BY <1>3, <1>4 DEF RecTyped, SameRec, Later
<1>6. SilentSo => FALSE
  BY <1>1 DEF SilentSo, Later
<1>7. HeardSo => HeardSo'
  <2>1. SUFFICES ASSUME HeardSo PROVE HeardSo'
    OBVIOUS
  <2>2. /\ Judged /\ Reopens
        /\ RunningHere \subseteq Listed \cup TS!Bound \cup {rec.session} \/ rec.refilled
    BY <1>1, <2>1 DEF HeardSo, Later, InHand
  <2>3. /\ rec.at \in OpenHere /\ rec.at \notin rec.todo /\ tab[rec.at].session = TS!None
        /\ rec.session \in RunningHere
    BY <1>1, <2>2 DEF Reopens
  <2>4. rec.at \in TabNames /\ tab[rec.at].open /\ OpenHere \subseteq TabNames
    BY <2>3 DEF OpenHere, TS!Open
  <2>5. \A t \in TabNames :
          /\ tab'[t].open = tab[t].open /\ tab'[t].second = tab[t].second
          /\ tab'[t].session = IF t = rec.at THEN rec.session ELSE tab[t].session
    BY <1>1, <2>4 DEF TS!Bind, TabsTyped, TabRec
  <2>6. TS!Open' = TS!Open /\ OpenHere' = OpenHere
    BY <2>5 DEF OpenHere, TS!Open
  <2>7. Judged'
    BY <1>3, <1>4, <2>2, <2>3, <2>4, <2>5, <2>6 DEF Judged
  <2>8. Reopens'
    BY <1>3, <1>4, <2>2, <2>3, <2>4, <2>5, <2>6 DEF Reopens
  <2>9. RunningHere \cap (TS!Bound \cup {rec.session}) \subseteq TS!Bound'
    <3>1. SUFFICES ASSUME NEW x \in RunningHere, x \in TS!Bound \cup {rec.session}
                   PROVE  x \in TS!Bound'
      OBVIOUS
    <3>2. x # TS!None
      BY <3>1, TabsAssumption DEF RunningHere, TS!Running, TS!Here
    <3>3. CASE x = rec.session
      <4>1. rec.at \in TS!Open' /\ tab'[rec.at].session = x
        BY <2>3, <2>4, <2>5, <2>6, <3>3 DEF TS!Open
      <4> QED BY <4>1 DEF TS!Bound
    <3>4. CASE \E t \in TS!Open : x = tab[t].session
      <4>1. PICK t \in TS!Open : x = tab[t].session
        BY <3>4
      <4>2. t \in TS!Open' /\ tab'[t].session = x
        BY <2>3, <2>5, <2>6, <3>2, <4>1 DEF TS!Open
      <4> QED BY <4>2 DEF TS!Bound
    <3>5. CASE \E t \in TS!Open : x = tab[t].second
      <4>1. PICK t \in TS!Open : x = tab[t].second
        BY <3>5
      <4>2. t \in TS!Open' /\ tab'[t].second = x
        BY <2>5, <2>6, <4>1 DEF TS!Open
      <4> QED BY <4>2 DEF TS!Bound
    <3> QED BY <3>1, <3>3, <3>4, <3>5 DEF TS!Bound
  <2>10. RunningHere' \subseteq Listed' \cup TS!Bound' \cup InHand' \/ rec'.refilled
    BY <1>3, <1>4, <2>2, <2>9
  <2> QED BY <1>3, <2>7, <2>8, <2>10 DEF HeardSo, Early, Later
<1> QED BY <1>2, <1>3, <1>5, <1>6, <1>7 DEF StaysSo, Undisturbed, SameRec

LEMMA AdoptOrphansKeeps ==
  ASSUME TabsTyped, RecTyped, TS!AdoptOrphans
  PROVE  StaysSo
<1>1. /\ rec.pc = "reopen" /\ rec.todo = {} /\ active' = active /\ shell' = shell
      /\ rec' = [rec EXCEPT !.pc = "active"]
      /\ live' = [t \in TabNames |-> IF tab'[t].open /\ ~tab[t].open THEN "live" ELSE live[t]]
  BY DEF TS!AdoptOrphans
<1>2. PICK new \in [TS!Orphans -> TS!Local \ TS!Open] :
        /\ \A r, s \in TS!Orphans : new[r] = new[s] => r = s
        /\ tab' = [t \in TabNames |->
             IF \E s \in TS!Orphans : new[s] = t
             THEN TS!Fresh(CHOOSE s \in TS!Orphans : new[s] = t) ELSE tab[t]]
  BY DEF TS!AdoptOrphans
<1>3. TS!Orphans \subseteq Listed /\ Listed \subseteq Sessions
      /\ Listed \subseteq TS!Orphans \cup TS!Bound
  BY DEF TS!Orphans, Listed, RecTyped
<1>4. \A s \in TS!Orphans : new[s] \in TS!Local \ TS!Open /\ new[s] \in TabNames
  BY <1>2 DEF TS!Local
<1>5. \A s \in TS!Orphans : tab'[new[s]] = TS!Fresh(s)
  <2>1. SUFFICES ASSUME NEW s \in TS!Orphans PROVE tab'[new[s]] = TS!Fresh(s)
    OBVIOUS
  <2>2. (CHOOSE r \in TS!Orphans : new[r] = new[s]) = s
    <3> DEFINE c == CHOOSE r \in TS!Orphans : new[r] = new[s]
    <3>1. c \in TS!Orphans /\ new[c] = new[s]
      OBVIOUS
    <3> HIDE DEF c
    <3>2. c = s
      BY <1>2, <3>1
    <3> QED BY <3>2 DEF c
  <2>3. tab'[new[s]] = TS!Fresh(CHOOSE r \in TS!Orphans : new[r] = new[s])
    BY <1>2, <1>4
  <2> QED BY <2>2, <2>3
<1>6. \A t \in TabNames : (\A s \in TS!Orphans : new[s] # t) => tab'[t] = tab[t]
  BY <1>2
<1>7. \A t \in TS!Open : t \in TabNames /\ tab'[t] = tab[t]
  BY <1>4, <1>6 DEF TS!Open
<1>8. tab' \in [TabNames -> TabRec]
  <2>1. \A s \in Sessions : TS!Fresh(s) \in TabRec
    BY DEF TS!Fresh, TabRec, MaybeSession
  <2>2. \A t \in TabNames : tab'[t] \in TabRec
    BY <1>3, <1>5, <1>6, <2>1 DEF TabsTyped
  <2>3. tab' = [t \in TabNames |-> tab'[t]]
    BY <1>2
  <2> QED BY <2>2, <2>3
<1>9. TabsTyped'
  BY <1>1, <1>8 DEF TabsTyped, Lives
<1>10. /\ SameRec /\ rec'.pc = "active" /\ rec'.session = rec.session
       /\ rec'.refilled = rec.refilled /\ rec'.todo = {}
  BY <1>1 DEF RecTyped, RecFields, SameRec
<1>11. Listed' = Listed /\ RunningHere' = RunningHere
  BY <1>1, <1>10 DEF Listed, SameRec, RunningHere, TS!Running
<1>12. RecTyped'
  BY <1>10, <1>11 DEF RecTyped, SameRec, Later
<1>13. \A s : TS!Fresh(s).open = TRUE /\ TS!Fresh(s).session = s
  BY DEF TS!Fresh
<1>14. CASE rec.list = TS!Silent
  <2>1. TS!Orphans = {}
    BY <1>3, <1>14, NothingListed DEF Listed
  <2>2. \A t \in TS!Local : tab'[t] = tab[t]
    BY <1>6, <2>1 DEF TS!Local
  <2>3. SilentSo => SilentSo'
    BY <1>10, <2>2 DEF SilentSo, SameRec, Later
  <2> QED BY <1>9, <1>10, <1>12, <1>14, <2>3 DEF StaysSo, Undisturbed, SameRec
<1>15. CASE rec.list # TS!Silent
  <2>1. SUFFICES ASSUME HeardSo PROVE HeardSo'
    BY <1>9, <1>10, <1>12, <1>15 DEF StaysSo, Undisturbed, SameRec
  <2>2. Judged /\ (RunningHere \subseteq Listed \cup TS!Bound \/ rec.refilled)
    BY <1>1, <2>1 DEF HeardSo, Later, InHand
  <2>3. Judged'
    <3>1. SUFFICES ASSUME NEW t \in OpenHere'
                   PROVE  tab'[t].session \in Listed \cup RunningHere \cup {TS!None}
      BY <1>10, <1>11 DEF Judged
    <3>2. t \in TabNames /\ tab'[t].open /\ t \in TS!Local
      BY <3>1 DEF OpenHere, TS!Open, TS!Local
    <3>3. CASE \E s \in TS!Orphans : new[s] = t
      BY <1>3, <1>5, <1>13, <3>3
    <3>4. CASE \A s \in TS!Orphans : new[s] # t
      <4>1. t \in OpenHere /\ tab'[t] = tab[t]
        BY <1>6, <3>2, <3>4 DEF OpenHere, TS!Open
      <4> QED BY <2>2, <4>1 DEF Judged
    <3> QED BY <3>3, <3>4
  <2>4. TS!Bound \subseteq TS!Bound'
    <3>1. TS!Open \subseteq TS!Open'
      BY <1>7 DEF TS!Open
    <3>2. \A t \in TS!Open : tab'[t].session = tab[t].session /\ tab'[t].second = tab[t].second
      BY <1>7
    <3> QED BY <3>1, <3>2 DEF TS!Bound
  <2>5. TS!Orphans \subseteq TS!Bound'
    <3>1. SUFFICES ASSUME NEW s \in TS!Orphans PROVE s \in TS!Bound'
      OBVIOUS
    <3>2. new[s] \in TS!Open' /\ tab'[new[s]].session = s
      BY <1>4, <1>5, <1>13 DEF TS!Open
    <3> QED BY <3>2 DEF TS!Bound
  <2>6. RunningHere' \subseteq TS!Bound' \/ rec'.refilled
    BY <1>3, <1>10, <1>11, <2>2, <2>4, <2>5
  <2> QED BY <1>10, <2>3, <2>6 DEF HeardSo, Early, Later
<1> QED BY <1>14, <1>15

LEMMA EnsureActiveKeeps ==
  ASSUME TabsTyped, RecTyped, TS!EnsureActive
  PROVE  StaysSo
<1>1. /\ rec.pc = "active" /\ tab' = tab /\ live' = live /\ shell' = shell
      /\ active' \in (IF active \in TS!Open \/ TS!Open = {} THEN {active} ELSE TS!Open)
      /\ rec' = [rec EXCEPT !.pc = "done"]
  BY DEF TS!EnsureActive
<1>2. /\ SameRec /\ rec'.pc = "done" /\ rec'.session = rec.session
      /\ rec'.refilled = rec.refilled /\ rec'.todo = rec.todo
  BY <1>1 DEF RecTyped, RecFields, SameRec
<1>3. /\ Listed' = Listed /\ RunningHere' = RunningHere /\ OpenHere' = OpenHere
      /\ TS!Open' = TS!Open /\ TS!Bound' = TS!Bound
  BY <1>1, <1>2 DEF Listed, SameRec, RunningHere, TS!Running, OpenHere, TS!Open, TS!Bound
<1>4. TabsTyped' /\ RecTyped'
  BY <1>1, <1>2, <1>3 DEF TabsTyped, RecTyped, SameRec, Later
<1>5. SilentSo => SilentSo'
  BY <1>1, <1>2 DEF SilentSo, SameRec, Later
<1>6. HeardSo => HeardSo'
  <2>1. SUFFICES ASSUME HeardSo PROVE HeardSo'
    OBVIOUS
  <2>2. Judged /\ (RunningHere \subseteq TS!Bound \/ rec.refilled)
    BY <1>1, <2>1 DEF HeardSo, Later
  <2>3. Judged'
    BY <1>1, <1>2, <1>3, <2>2 DEF Judged
  <2>4. TS!Open # {} => active' \in TS!Open
    BY <1>1
  <2> QED BY <1>2, <1>3, <2>2, <2>3, <2>4 DEF HeardSo, Early, Later
<1> QED BY <1>2, <1>4, <1>5, <1>6 DEF StaysSo, Undisturbed, SameRec

(* A reconcile begins: the list is of the sessions that are here now.      *)
LEMMA ReconcileAsksKeeps ==
  ASSUME TabsTyped, TS!ReconcileAsks
  PROVE  TabsTyped' /\ RecInv'
<1>1. tab' = tab /\ live' = live /\ shell' = shell
  BY DEF TS!ReconcileAsks
<1>2. PICK list \in {TS!Known, TS!Silent} :
        rec' = [pc |-> "settle", list |-> list, settled |-> {}, quiet |-> calls = {},
                refilled |-> FALSE, held |-> [t \in TabNames |-> tab[t].session], at |-> TS!NoTab,
                session |-> TS!None, peers |-> {}, todo |-> {}]
  BY DEF TS!ReconcileAsks
<1> DEFINE held == [t \in TabNames |-> tab[t].session]
           quiet == calls = {}
<1>3. /\ DOMAIN rec' = RecFields /\ rec'.pc = "settle" /\ rec'.list = list /\ rec'.quiet = quiet
      /\ rec'.refilled = FALSE /\ rec'.held = held /\ rec'.session = TS!None /\ rec'.todo = {}
  <2> HIDE DEF held, quiet
  <2> QED BY <1>2 DEF RecFields, held, quiet
<1>4. TabsTyped'
  BY <1>1 DEF TabsTyped
<1>5. Listed' \subseteq Sessions
  <2>1. CASE list = TS!Silent
    BY <1>3, <2>1 DEF Listed, TS!ListedAs
  <2>2. CASE list = TS!Known
    <3>1. \A r \in TS!Known : r.id \in Sessions
      BY DEF TS!Known, TS!Here
    <3> QED BY <1>3, <2>2, <3>1 DEF Listed, TS!ListedAs
  <2> QED BY <2>1, <2>2
<1>6. RecTyped'
  BY <1>3, <1>5 DEF RecTyped, Early, MaybeSession
<1>7. list = TS!Silent => SilentSo'
  <2>1. \A t \in TS!Local : tab'[t].session = rec'.held[t]
    BY <1>1, <1>3 DEF TS!Local
  <2> QED BY <1>3, <2>1 DEF SilentSo
<1>8. list # TS!Silent => HeardSo'
  <2>1. SUFFICES ASSUME list # TS!Silent PROVE HeardSo'
    OBVIOUS
  <2>2. RunningHere' \subseteq Listed'
    <3>1. SUFFICES ASSUME NEW s \in RunningHere PROVE s \in Listed'
      BY <1>1 DEF RunningHere, TS!Running
    <3>2. s \in TS!Here /\ shell[s] = "running"
      BY <3>1 DEF RunningHere, TS!Running
    <3> DEFINE r == [id |-> s, state |-> shell[s]]
    <3>3. r \in TS!Known /\ r.id = s /\ r.state \in {"running"}
      BY <3>2 DEF TS!Known
    <3> HIDE DEF r
    <3> QED BY <1>2, <1>3, <2>1, <3>3 DEF Listed, TS!ListedAs
  <2> QED BY <1>3, <2>2 DEF HeardSo, Later
<1> QED BY <1>3, <1>4, <1>6, <1>7, <1>8 DEF RecInv, Undisturbed

LEMMA ReconcilingKeeps ==
  ASSUME SessionsInv, TS!Reconciling
  PROVE  SessionsInv'
<1>1. TabsTyped /\ (rec = TS!NotRec \/ (RecTyped /\ (rec.quiet => Undisturbed)))
  BY DEF SessionsInv, RecInv
<1>2. rec # TS!NotRec
  <2>1. TS!NotRec.pc = "idle"
    BY DEF TS!NotRec
  <2>2. rec.pc # "idle"
    BY DEF TS!Reconciling, TS!SettleDone, TS!RefillDone, TS!JudgeLocal, TS!JudgePeers,
           TS!ReopenDone, TS!AdoptOrphans, TS!EnsureActive, TS!ReconcileEnds, TS!SettleNext,
           TS!UnsplitNext, TS!ReopenNext, TS!RefillNext
  <2> QED BY <2>1, <2>2
<1>3. CASE TS!ReconcileEnds
  BY <1>1, <1>3 DEF TS!ReconcileEnds, SessionsInv, RecInv, TabsTyped
<1>4. CASE ~TS!ReconcileEnds
  <2>1. StaysSo
    <3>1. CASE \E t \in TabNames : TS!SettleNext(t) \/ TS!UnsplitNext(t) \/ TS!ReopenNext(t)
      BY <1>1, <1>2, <3>1, SettleNextKeeps, UnsplitNextKeeps, ReopenNextKeeps
    <3>2. CASE \E t \in TabNames, s \in MaybeSession : TS!RefillNext(t, s)
      BY <1>1, <1>2, <3>2, RefillNextKeeps
    <3> QED BY <1>1, <1>2, <1>4, <3>1, <3>2, SettleDoneKeeps, RefillDoneKeeps, JudgeLocalKeeps,
               JudgePeersKeeps, ReopenDoneKeeps, AdoptOrphansKeeps, EnsureActiveKeeps
            DEF TS!Reconciling, MaybeSession
  <2> QED BY <1>1, <1>2, <2>1 DEF StaysSo, SessionsInv, RecInv
<1> QED BY <1>3, <1>4

(* Another operation runs into the reconcile.                              *)
LEMMA Disturbed ==
  ASSUME RecInv, TS!Disturb
  PROVE  RecInv'
<1>1. CASE rec' = rec /\ rec = TS!NotRec
  BY <1>1 DEF RecInv
<1>2. CASE RecTyped
  <2>1. rec' = [rec EXCEPT !.quiet = FALSE]
    BY <1>2 DEF TS!Disturb, RecTyped, Early, Later
  <2>2. /\ DOMAIN rec' = RecFields /\ rec'.quiet = FALSE /\ rec'.pc = rec.pc
        /\ rec'.list = rec.list /\ rec'.refilled = rec.refilled /\ rec'.session = rec.session
        /\ rec'.todo = rec.todo /\ rec'.peers = rec.peers
    BY <1>2, <2>1 DEF RecTyped, RecFields
  <2>3. Listed' = Listed
    BY <2>2 DEF Listed
  <2>4. RecTyped'
    BY <1>2, <2>2, <2>3 DEF RecTyped
  <2> QED BY <2>2, <2>4 DEF RecInv
<1>3. rec = TS!NotRec => rec' = rec
  BY DEF TS!Disturb, TS!NotRec
<1> QED BY <1>1, <1>2, <1>3 DEF RecInv

LEMMA SessionsStep ==
  ASSUME SessionsInv, [TabsNext]_<<focus, wbVars, sessionVars>>
  PROVE  SessionsInv'
<1>1. TabsTyped /\ RecInv
  BY DEF SessionsInv
<1>2. CASE UNCHANGED sessionVars
  <2>1. tab' = tab /\ live' = live /\ active' = active /\ shell' = shell /\ rec' = rec
    BY <1>2 DEF sessionVars
  <2>2. /\ Listed' = Listed /\ RunningHere' = RunningHere /\ OpenHere' = OpenHere
        /\ TS!Open' = TS!Open /\ TS!Bound' = TS!Bound /\ InHand' = InHand
    BY <2>1 DEF Listed, RunningHere, TS!Running, OpenHere, TS!Open, TS!Bound, InHand
  <2>3. TabsTyped' /\ (RecTyped => RecTyped')
    BY <1>1, <2>1, <2>2 DEF TabsTyped, RecTyped
  <2>4. (Judged => Judged') /\ (Reopens => Reopens') /\ (SilentSo => SilentSo')
    BY <2>1, <2>2 DEF Judged, Reopens, SilentSo
  <2>5. HeardSo => HeardSo'
    BY <2>1, <2>2, <2>4 DEF HeardSo
  <2> QED BY <1>1, <2>1, <2>3, <2>4, <2>5 DEF SessionsInv, RecInv, Undisturbed
<1>3. CASE TS!User
  BY <1>1, <1>3, UserTypes, Disturbed DEF SessionsInv
<1>4. CASE TS!Machine
  <2>1. tab' = tab /\ live' = live /\ TS!Disturb
    BY <1>4 DEF TS!Machine, TS!ShellLost, TS!ShellExits
  <2>2. shell' \in [Sessions -> Shells]
    BY <1>1, <1>4 DEF TS!Machine, TS!ShellLost, TS!ShellExits, TabsTyped, Shells
  <2> QED BY <1>1, <2>1, <2>2, Disturbed DEF SessionsInv, TabsTyped
<1>5. CASE TS!ReconcileAsks
  BY <1>1, <1>5, ReconcileAsksKeeps DEF SessionsInv
<1>6. CASE TS!Reconciling
  BY <1>6, ReconcilingKeeps
<1> QED BY <1>2, <1>3, <1>4, <1>5, <1>6 DEF TabsNext, TS!TsNext

LEMMA SessionsBegin ==
  ASSUME TS!TsInit
  PROVE  SessionsInv
<1>1. rec = TS!NotRec /\ live = [t \in TabNames |-> "live"]
      /\ shell \in [Sessions -> Shells]
  BY DEF TS!TsInit, Shells
<1>2. tab \in [TabNames -> TabRec]
  <2>1. PICK first \in TabNames, s \in MaybeSession :
          tab = [t \in TabNames |-> IF t = first
                   THEN [TS!Closed EXCEPT !.open = TRUE, !.session = s] ELSE TS!Closed]
    BY DEF TS!TsInit, MaybeSession
  <2>2. /\ TS!Closed \in TabRec
        /\ [TS!Closed EXCEPT !.open = TRUE, !.session = s] \in TabRec
    BY DEF TS!Closed, TabRec, MaybeSession
  <2> QED BY <2>1, <2>2
<1> QED BY <1>1, <1>2 DEF SessionsInv, TabsTyped, RecInv, Lives

-----------------------------------------------------------------------------
(* A tab closed in a browser does not come back to it, neither by a merge  *)
(* after a conflict, nor by a read that is older than the closing, nor by  *)
(* what the other browsers write (useWorkbench, workbenchMerge), unless    *)
(* the answer to the write that stored it was lost.  For a server that has *)
(* a list: before there is one, no write names a revision.                 *)
THEOREM ClosedTabsStayClosed ==
  ASSUME Stored
  PROVE  TabsSpec => []ClosedStaysClosed
<1>1. ListInv => ClosedStaysClosed
  <2>1. SUFFICES ASSUME ListInv, NEW b \in Browsers
                 PROVE  closed[b] \cap TabIds(page[b].config) \subseteq doubtful
    BY DEF ClosedStaysClosed
  <2>2. ClosedHere(page[b], server, closed[b], doubtful)
    BY <2>1, FromInv DEF Own
  <2> QED BY <2>2 DEF ClosedHere, Now
<1>2. TabsSpec => []ListInv
  BY ListHolds
<1> QED BY <1>1, <1>2, PTL

(* A tab leaves the stored list, or a browser's, only if somebody closed   *)
(* it, whatever the writer had read and whatever it is merged with         *)
(* (settings.go, workbenchMerge).  For a server that has a list, as above. *)
THEOREM TabsStay ==
  ASSUME Stored
  PROVE  TabsSpec => TabsAreKept
<1>1. ListInv /\ [TabsNext]_<<focus, wbVars, sessionVars>> =>
        [\A t \in TabIds(server) : t \notin TabIds(server') => t \in removed]_wbVars
  <2>1. SUFFICES ASSUME ListInv, [TabsNext]_<<focus, wbVars, sessionVars>>, ~UNCHANGED wbVars
                 PROVE  TabIds(server) \ TabIds(server') \subseteq removed
    OBVIOUS
  <2>2. Advances
    BY <2>1, TabsStep
  <2> QED BY <2>2 DEF Advances
<1>2. ListInv /\ [TabsNext]_<<focus, wbVars, sessionVars>> =>
        [\A b \in Browsers : page'[b].config # NoDoc =>
           \A t \in TabIds(page[b].config) :
             t \notin TabIds(page'[b].config) => t \in removed']_wbVars
  <2>1. SUFFICES ASSUME ListInv, [TabsNext]_<<focus, wbVars, sessionVars>>, ~UNCHANGED wbVars,
                        NEW b \in Browsers, page'[b].config # NoDoc
                 PROVE  TabIds(page[b].config) \ TabIds(page'[b].config) \subseteq removed'
    OBVIOUS
  <2>2. Advances
    BY <2>1, TabsStep
  <2> QED BY <2>1, <2>2 DEF Advances, Shows, Now
<1>3. TabsSpec => []ListInv
  BY ListHolds
<1> QED BY <1>1, <1>2, <1>3, PTL DEF TabsSpec, TabsAreKept, OnlyClosedTabsGo, OpenTabsStay

(* A browser with no edit waiting, no write under way and none that failed *)
(* and whose list names the stored revision shows the stored tabs, their   *)
(* names and order included, whatever was merged on the way (useWorkbench, *)
(* workbenchMerge).  For a server that has a list, as above.               *)
THEOREM RestIsStored ==
  ASSUME Stored
  PROVE  TabsSpec => []RestShowsStored
<1>1. TabsInit => RestInv
  BY RestBegins DEF TabsInit
<1>2. ListInv /\ RestInv /\ [TabsNext]_<<focus, wbVars, sessionVars>> => RestInv'
  BY RestStep
<1>3. ListInv /\ RestInv => RestShowsStored
  <2>1. SUFFICES ASSUME ListInv, RestInv, NEW b \in Browsers, AtRest(b),
                        page[b].config.rev = server.rev
                 PROVE  TabsOf(page[b].config) = TabsOf(server)
    BY DEF RestShowsStored
  <2> DEFINE p == page[b]
  <2>2. /\ Holds(p) /\ Quiet(p) /\ Carries(p, server)
        /\ p.hydrated /\ ~p.timer /\ p.put = NoPut /\ ~p.unsaved
    BY <2>1, FromInv, FromRest DEF AtRest
  <2>3. p.baseline.rev = server.rev
    BY <2>1, <2>2 DEF Holds
  <2>4. p.baseline.groups = server.groups
    BY <2>2, <2>3 DEF Carries, Dated
  <2>5. TabsOf(p.baseline) = TabsOf(server)
    BY <2>4 DEF TabsOf
  <2> QED BY <2>2, <2>5 DEF Quiet
<1>4. TabsSpec => []ListInv
  BY ListHolds
<1> QED BY <1>1, <1>2, <1>3, <1>4, PTL DEF TabsSpec


(* A reconcile that nothing ran into, and that made no tab in place of the *)
(* last one, leaves tabs and sessions in agreement: every shell that runs  *)
(* here has a tab, every session a tab here names was running when the     *)
(* list was read or was made since, and a tab is shown; one that got no    *)
(* answer takes no session from a tab (reconcileTabs, reopenDetached).     *)
THEOREM ReconcileRepairs == TabsSpec => []QuietReconcileRepairs
<1>1. TabsInit => SessionsInv
  BY SessionsBegin DEF TabsInit
<1>2. SessionsInv /\ [TabsNext]_<<focus, wbVars, sessionVars>> => SessionsInv'
  BY SessionsStep
<1>3. SessionsInv => QuietReconcileRepairs
  <2>1. SUFFICES ASSUME SessionsInv, rec.pc = "done", rec.quiet
                 PROVE  IF rec.list = TS!Silent
                        THEN \A t \in TS!Local : rec.held[t] \in {tab[t].session, TS!None}
                        ELSE /\ RunningHere \subseteq TS!Bound \/ rec.refilled
                             /\ \A t \in OpenHere :
                                  tab[t].session \in Listed \cup RunningHere \cup {TS!None}
                             /\ TS!Open # {} => active \in TS!Open
    BY DEF QuietReconcileRepairs, TS!QuietReconcileRepairs, RunningHere, Listed, OpenHere
  <2>2. Undisturbed
    <3>1. TS!NotRec.pc = "idle"
      BY DEF TS!NotRec
    <3> QED BY <2>1, <3>1 DEF SessionsInv, RecInv
  <2>3. CASE rec.list = TS!Silent
    BY <2>2, <2>3 DEF Undisturbed, SilentSo
  <2>4. CASE rec.list # TS!Silent
    <3>1. Judged /\ (RunningHere \subseteq TS!Bound \/ rec.refilled)
          /\ (TS!Open # {} => active \in TS!Open)
      BY <2>1, <2>2, <2>4 DEF Undisturbed, HeardSo, Later
    <3> QED BY <2>4, <3>1 DEF Judged
  <2> QED BY <2>3, <2>4
<1> QED BY <1>1, <1>2, <1>3, PTL DEF TabsSpec
=============================================================================
