--------------------------- MODULE ConvFtlProofs ---------------------------
(***************************************************************************)
(* Proofs about ConvFtl, for any number of lines, pages and logical pages: *)
(* the victim queue is a heap, each line is in one place, its counters are *)
(* those of its pages and every written page stays where the tables say; with *)
(* the spare lines of Spare, no write pointer is ever without a line.      *)
(*                                                                         *)
(* Order: the heap of PQueue, which is proved about on its own; sequences  *)
(* and counts; the inductive invariant (ConvInv); one lemma for each way a *)
(* page or a line changes; one for each action; the theorems that follow;  *)
(* what the spare lines are for (RoomOK), again by actions.                *)
(***************************************************************************)
EXTENDS ConvFtl, FiniteSetTheorems, WellFoundedInduction, TLAPS

Elems(s)    == {s[i] : i \in DOMAIN s}
Distinct(s) == \A i, j \in DOMAIN s : s[i] = s[j] => i = j

\* Every set of numbers that is not empty has a least one.
LEMMA LeastNumber ==
  ASSUME NEW S \in SUBSET Nat, S # {}
  PROVE  \E i \in S : \A j \in S : i <= j
<1>1. PICK i \in S : \A j \in S : <<j, i>> \notin OpToRel(<, Nat)
  BY NatLessThanWellFounded, WFMin
<1>2. \A j \in S : ~(j < i)
  BY <1>1 DEF OpToRel
<1> QED
  BY <1>2

-----------------------------------------------------------------------------
(* The way through a heap (bubble_up, percolate_down).                     *)

\* Places D, the place after each in step; r falls along the way.
Steps(D, step, r) ==
  /\ DOMAIN step = D /\ 0 \notin D /\ r \in [D -> Nat]
  /\ \A p \in D : step[p] # 0 => step[p] \in D /\ r[step[p]] < r[p]

\* Places that are closed under the way from j on.
Closed(D, step, j) ==
  {T \in SUBSET D : j \in T /\ \A x \in T : step[x] # 0 => step[x] \in T}

IsWay(f, step) ==
  f = [p \in DOMAIN step |-> IF step[p] = 0 THEN {p} ELSE {p} \cup f[step[p]]]

\* The recursion of Way has a solution: the least set closed under the steps.
LEMMA WayExists ==
  ASSUME NEW D, NEW step, NEW r, Steps(D, step, r)
  PROVE  \E f : IsWay(f, step)
<1> DEFINE Least(j) == {p \in D : \A T \in Closed(D, step, j) : p \in T}
<1>1. /\ DOMAIN step = D /\ 0 \notin D
      /\ \A p \in D : step[p] # 0 => step[p] \in D
  BY DEF Steps
<1>2. PICK f : f = [p \in D |-> Least(p)]
  OBVIOUS
<1>3. ASSUME NEW p \in D PROVE Least(p) = IF step[p] = 0 THEN {p} ELSE {p} \cup f[step[p]]
  <2>1. p \in Least(p)
    BY DEF Closed
  <2>2. CASE step[p] = 0
    <3>1. {p} \in Closed(D, step, p)
      BY <2>2 DEF Closed
    <3>2. Least(p) \subseteq {p}
      BY <3>1
    <3> QED
      BY <2>1, <2>2, <3>2
  <2>3. CASE step[p] # 0
    <3> DEFINE n == step[p]
    <3>1. n \in D
      BY <1>1, <2>3
    <3>2. f[n] = Least(n)
      BY <1>2, <3>1
    <3>3. Closed(D, step, p) \subseteq Closed(D, step, n)
      BY <2>3 DEF Closed
    <3>4. Least(n) \subseteq Least(p)
      BY <3>3
    <3>5. ASSUME NEW x \in Least(p), x # p PROVE x \in Least(n)
      <4> SUFFICES ASSUME NEW T \in Closed(D, step, n) PROVE x \in T
        BY <3>5
      <4>1. T \cup {p} \in Closed(D, step, p)
        BY <3>1 DEF Closed
      <4> QED
        BY <3>5, <4>1
    <3> HIDE DEF Least
    <3> QED
      BY <2>1, <2>3, <3>2, <3>4, <3>5
  <2> QED
    BY <2>2, <2>3
<1> HIDE DEF Least
<1>4. \A p \in D : f[p] = IF step[p] = 0 THEN {p} ELSE {p} \cup f[step[p]]
  BY <1>2, <1>3
<1>5. f = [p \in D |-> f[p]]
  BY <1>2
<1>6. [p \in D |-> f[p]] = [p \in D |-> IF step[p] = 0 THEN {p} ELSE {p} \cup f[step[p]]]
  BY <1>4
<1> QED
  BY <1>1, <1>5, <1>6 DEF IsWay

\* A place, and the places on the way from the next one.
LEMMA WayIs ==
  ASSUME NEW D, NEW step, NEW r, Steps(D, step, r)
  PROVE  \A j \in D : Way(j, step) = IF step[j] = 0 THEN {j} ELSE {j} \cup Way(step[j], step)
<1>1. PICK f : f = CHOOSE g : IsWay(g, step)
  OBVIOUS
<1>2. IsWay(f, step)
  BY <1>1, WayExists
<1>3. \A j : Way(j, step) = f[j]
  BY <1>1 DEF Way, IsWay
<1>4. \A j \in D : f[j] = IF step[j] = 0 THEN {j} ELSE {j} \cup f[step[j]]
  BY <1>2 DEF IsWay, Steps
<1> QED
  BY <1>3, <1>4

\* What a way W from j on is like: it ends once, at the lowest r, and goes through
\* each of its places but j from exactly one of them.
WayFrom(D, step, r, j, W) ==
  /\ j \in W /\ W \subseteq D
  /\ \A x \in W : r[x] <= r[j]
  /\ \A x \in W : step[x] # 0 => step[x] \in W
  /\ \A x \in W : x # j => \E y \in W : step[y] = x
  /\ \A x, y \in W : step[x] = step[y] => x = y
  /\ \A x, e \in W : step[e] = 0 => r[e] <= r[x]
  /\ \E e \in W : step[e] = 0

LEMMA WayFacts ==
  ASSUME NEW D, NEW step, NEW r, Steps(D, step, r)
  PROVE  \A j \in D : WayFrom(D, step, r, j, Way(j, step))
<1> DEFINE Wrong == {n \in Nat : \E j \in D : r[j] = n /\ ~WayFrom(D, step, r, j, Way(j, step))}
<1>1. /\ DOMAIN step = D /\ 0 \notin D /\ \A p \in D : r[p] \in Nat
      /\ \A p \in D : step[p] # 0 => step[p] \in D /\ r[step[p]] < r[p]
  BY DEF Steps
<1>2. Wrong = {}
  <2> SUFFICES ASSUME Wrong # {} PROVE FALSE
    OBVIOUS
  <2>1. PICK n \in Wrong : \A m \in Wrong : n <= m
    <3>1. Wrong \in SUBSET Nat
      OBVIOUS
    <3> HIDE DEF Wrong
    <3> QED
      BY <3>1, LeastNumber
  <2>2. PICK j \in D : r[j] = n /\ ~WayFrom(D, step, r, j, Way(j, step))
    BY <2>1
  <2>3. PICK W : W = Way(j, step)
    OBVIOUS
  <2>4. CASE step[j] = 0
    <3>1. W = {j}
      BY <2>3, <2>4, WayIs
    <3>2. WayFrom(D, step, r, j, W)
      BY <1>1, <2>4, <3>1 DEF WayFrom
    <3> QED
      BY <2>2, <2>3, <3>2
  <2>5. CASE step[j] # 0
    <3>1. PICK k : k = step[j]
      OBVIOUS
    <3>2. k \in D /\ r[k] < r[j] /\ k # 0
      BY <1>1, <2>5, <3>1
    <3>3. PICK V : V = Way(k, step)
      OBVIOUS
    <3>4. W = {j} \cup V
      BY <2>3, <2>5, <3>1, <3>3, WayIs
    <3>5. r[k] \notin Wrong
      <4>1. r[k] \in Nat /\ ~(n <= r[k])
        BY <1>1, <2>2, <3>2
      <4> HIDE DEF Wrong
      <4> QED
        BY <2>1, <4>1
    <3>6. WayFrom(D, step, r, k, V)
      BY <1>1, <3>2, <3>3, <3>5
    <3> HIDE DEF Wrong
    <3>7. /\ k \in V /\ V \subseteq D
          /\ \A x \in V : r[x] <= r[k]
          /\ \A x \in V : step[x] # 0 => step[x] \in V
          /\ \A x \in V : x # k => \E y \in V : step[y] = x
          /\ \A x, y \in V : step[x] = step[y] => x = y
          /\ \A x, e \in V : step[e] = 0 => r[e] <= r[x]
          /\ \E e \in V : step[e] = 0
      BY <3>6 DEF WayFrom
    <3>8. \A x \in V : r[x] < r[j] /\ r[x] \in Nat
      BY <1>1, <2>2, <3>2, <3>7
    <3>9. \A x \in V : step[x] # k
      <4> SUFFICES ASSUME NEW x \in V, step[x] = k PROVE FALSE
        OBVIOUS
      <4>1. r[k] < r[x] /\ r[x] <= r[k] /\ r[k] \in Nat /\ r[x] \in Nat
        BY <1>1, <3>2, <3>7
      <4> QED
        BY <4>1
    <3>10. j \in W /\ W \subseteq D /\ \A x \in W : r[x] <= r[j]
      BY <1>1, <2>2, <3>4, <3>7, <3>8
    <3>11. \A x \in W : step[x] # 0 => step[x] \in W
      BY <3>1, <3>4, <3>7
    <3>12. \A x \in W : x # j => \E y \in W : step[y] = x
      <4> SUFFICES ASSUME NEW x \in W, x # j PROVE \E y \in W : step[y] = x
        OBVIOUS
      <4>1. CASE x = k
        BY <3>1, <3>10, <4>1
      <4>2. CASE x # k
        BY <3>4, <3>7, <4>2
      <4> QED
        BY <4>1, <4>2
    <3>13. \A x, y \in W : step[x] = step[y] => x = y
      BY <3>1, <3>4, <3>7, <3>9
    <3>14. \A x, e \in W : step[e] = 0 => r[e] <= r[x]
      <4> SUFFICES ASSUME NEW x \in W, NEW e \in W, step[e] = 0 PROVE r[e] <= r[x]
        OBVIOUS
      <4>1. e \in V
        BY <2>5, <3>4
      <4>2. CASE x = j
        BY <3>8, <4>1, <4>2, <1>1
      <4>3. CASE x # j
        BY <3>4, <3>7, <4>1, <4>3
      <4> QED
        BY <4>2, <4>3
    <3>15. \E e \in W : step[e] = 0
      BY <3>4, <3>7
    <3>16. WayFrom(D, step, r, j, W)
      BY <3>10, <3>11, <3>12, <3>13, <3>14, <3>15 DEF WayFrom
    <3> QED
      BY <2>2, <2>3, <3>16
  <2> QED
    BY <2>4, <2>5
<1>3. ASSUME NEW j \in D PROVE WayFrom(D, step, r, j, Way(j, step))
  <2>1. r[j] \in Nat /\ r[j] \notin Wrong
    BY <1>1, <1>2
  <2> QED
    BY <2>1
<1> QED
  BY <1>3

-----------------------------------------------------------------------------
(* Elements that go such a way leave a heap behind.                        *)

\* Places D of a heap, all below their parents.
LEMMA Parents ==
  ASSUME NEW n \in Nat, NEW c \in 1 .. n, c > 1
  PROVE  parent(c) \in 1 .. n /\ parent(c) < c
BY DEF parent

\* The children of a place.
LEMMA Children ==
  ASSUME NEW c \in Nat, NEW p \in Nat, p > 0
  PROVE  (c > 1 /\ parent(c) = p) <=> c = left(p) \/ c = right(p)
BY DEF parent, left, right

\* What is at place p after the shift, v being what was at each place.
Passed(v, i, step, W, p) ==
  IF p \notin W THEN v[p] ELSE IF step[p] = 0 THEN v[i] ELSE v[step[p]]

\* The element at i may be too good for its place; with this it is the only one.
HeapButAbove(D, v, i) ==
  /\ \A c \in D : c > 1 /\ c # i => v[parent(c)] <= v[c]
  /\ \A c \in D : c > 1 /\ parent(c) = i /\ i > 1 => v[parent(i)] <= v[c]

\* The element at i may be too bad for its place.
HeapButBelow(D, v, i) ==
  /\ \A c \in D : c > 1 /\ parent(c) # i => v[parent(c)] <= v[c]
  /\ \A c \in D : c > 1 /\ parent(c) = i /\ i > 1 => v[parent(i)] <= v[c]

LEMMA RisesInHeap ==
  ASSUME NEW n \in Nat, NEW D, D = 1 .. n, NEW v \in [D -> Nat], NEW i \in D, NEW step, NEW W,
         \A p \in D : step[p] = IF p > 1 /\ v[parent(p)] > v[i] THEN parent(p) ELSE 0,
         NEW r, r = [p \in D |-> p], WayFrom(D, step, r, i, W), HeapButAbove(D, v, i)
  PROVE  \A c \in D : c > 1 => Passed(v, i, step, W, parent(c)) <= Passed(v, i, step, W, c)
<1>1. /\ i \in W /\ W \subseteq D
      /\ \A x \in W : x <= i
      /\ \A x \in W : step[x] # 0 => step[x] \in W
      /\ \A x \in W : x # i => \E y \in W : step[y] = x
      /\ \A x, e \in W : step[e] = 0 => e <= x
  BY DEF WayFrom
<1>2. \A c \in D : c > 1 => parent(c) \in D /\ parent(c) < c
  BY Parents
<1>3. \A x \in W : x # i => v[x] > v[i]
  <2> SUFFICES ASSUME NEW x \in W, x # i PROVE v[x] > v[i]
    OBVIOUS
  <2>1. PICK y \in W : step[y] = x
    BY <1>1
  <2>2. y \in D /\ x # 0
    BY <1>1
  <2> QED
    BY <2>1, <2>2
<1>4. /\ \A c \in D : c > 1 /\ c # i => v[parent(c)] <= v[c]
      /\ \A c \in D : c > 1 /\ parent(c) = i /\ i > 1 => v[parent(i)] <= v[c]
  BY DEF HeapButAbove
<1>5. \A p \in D : v[p] \in Nat
  OBVIOUS
<1> SUFFICES ASSUME NEW c \in D, c > 1
             PROVE  Passed(v, i, step, W, parent(c)) <= Passed(v, i, step, W, c)
  OBVIOUS
<1>6. PICK p \in D : p = parent(c) /\ p < c
  BY <1>2
<1>7. c \in Nat /\ p \in Nat /\ i \in Nat /\ i >= 1 /\ p >= 1
  OBVIOUS
<1>8. CASE c \notin W /\ p \notin W
  <2>1. c # i
    BY <1>1, <1>8
  <2> QED
    BY <1>4, <1>6, <1>8, <2>1 DEF Passed
<1>9. CASE c \in W /\ step[c] # 0
  <2>1. step[c] = p /\ p \in W /\ v[p] > v[i]
    BY <1>1, <1>6, <1>9
  <2>2. p # i
    BY <1>1, <1>6, <1>7, <1>9
  <2>3. Passed(v, i, step, W, c) = v[p]
    BY <1>9, <2>1 DEF Passed
  <2>4. CASE step[p] = 0
    BY <1>5, <1>6, <2>1, <2>3, <2>4 DEF Passed
  <2>5. CASE step[p] # 0
    <3>1. p > 1 /\ step[p] = parent(p) /\ v[parent(p)] <= v[p]
      BY <1>4, <2>2, <2>5
    <3> QED
      BY <1>6, <2>1, <2>3, <2>5, <3>1 DEF Passed
  <2> QED
    BY <2>4, <2>5
<1>10. CASE c \in W /\ step[c] = 0
  <2>1. p \notin W
    BY <1>1, <1>6, <1>7, <1>10
  <2>2. v[p] <= v[i]
    <3>1. v[p] \in Nat /\ v[i] \in Nat
      BY <1>5
    <3>2. ~(v[p] > v[i])
      BY <1>6, <1>7, <1>10
    <3> QED
      BY <3>1, <3>2
  <2> QED
    BY <1>6, <1>10, <2>1, <2>2 DEF Passed
<1>11. CASE c \notin W /\ p \in W
  <2>1. c # i
    BY <1>1, <1>11
  <2>2. v[p] <= v[c] /\ v[p] \in Nat /\ v[c] \in Nat /\ v[i] \in Nat
    BY <1>4, <1>5, <1>6, <2>1
  <2>3. CASE step[p] = 0
    <3>1. v[i] <= v[p]
      BY <1>3, <1>11, <2>2
    <3> QED
      BY <1>6, <1>11, <2>2, <2>3, <3>1 DEF Passed
  <2>4. CASE step[p] # 0
    <3>1. p > 1 /\ step[p] = parent(p) /\ parent(p) \in D
      BY <1>2, <2>4
    <3>2. v[parent(p)] <= v[c]
      <4>1. CASE p = i
        BY <1>4, <1>6, <3>1, <4>1
      <4>2. CASE p # i
        <5>1. v[parent(p)] <= v[p] /\ v[parent(p)] \in Nat
          BY <1>4, <1>5, <3>1, <4>2
        <5> QED
          BY <2>2, <5>1
      <4> QED
        BY <4>1, <4>2
    <3> QED
      BY <1>6, <1>11, <2>4, <3>1, <3>2 DEF Passed
  <2> QED
    BY <2>3, <2>4
<1> QED
  BY <1>8, <1>9, <1>10, <1>11

\* m is the best child of p, 0 if it has none.
BestChild(D, v, p, m) ==
  IF m = 0 THEN \A c \in D : c > 1 => parent(c) # p
           ELSE /\ m \in D /\ m > p /\ parent(m) = p
                /\ \A c \in D : c > 1 /\ parent(c) = p => v[m] <= v[c]

LEMMA SinksInHeap ==
  ASSUME NEW n \in Nat, NEW D, D = 1 .. n, NEW v \in [D -> Nat], NEW i \in D, NEW step, NEW W,
         NEW m, \A p \in D : BestChild(D, v, p, m[p]),
         \A p \in D : step[p] = IF m[p] # 0 /\ v[i] > v[m[p]] THEN m[p] ELSE 0,
         NEW r, r = [p \in D |-> n - p], WayFrom(D, step, r, i, W), HeapButBelow(D, v, i)
  PROVE  \A c \in D : c > 1 => Passed(v, i, step, W, parent(c)) <= Passed(v, i, step, W, c)
<1>1. /\ i \in W /\ W \subseteq D
      /\ \A x \in W : step[x] # 0 => step[x] \in W
      /\ \A x \in W : x # i => \E y \in W : step[y] = x
  BY DEF WayFrom
<1>2. \A c \in D : c > 1 => parent(c) \in D /\ parent(c) < c
  BY Parents
<1>3. \A x \in W : x >= i
  <2> SUFFICES ASSUME NEW x \in W PROVE x >= i
    OBVIOUS
  <2>1. r[x] <= r[i] /\ x \in D
    BY DEF WayFrom
  <2>2. n - x <= n - i
    BY <2>1
  <2> QED
    BY <2>1, <2>2
<1>4. \A x \in W : x # i => x > 1 /\ v[i] > v[x] /\ parent(x) \in W /\ step[parent(x)] = x
  <2> SUFFICES ASSUME NEW x \in W, x # i
               PROVE  x > 1 /\ v[i] > v[x] /\ parent(x) \in W /\ step[parent(x)] = x
    OBVIOUS
  <2>1. PICK y \in W : step[y] = x
    BY <1>1
  <2>2. y \in D /\ x \in D /\ x # 0
    BY <1>1
  <2>3. m[y] = x /\ v[i] > v[x]
    BY <2>1, <2>2
  <2>4. x > y /\ parent(x) = y
    BY <2>2, <2>3 DEF BestChild
  <2> QED
    BY <2>1, <2>2, <2>3, <2>4
<1>5. \A p \in D : v[p] \in Nat
  OBVIOUS
<1>6. /\ \A c \in D : c > 1 /\ parent(c) # i => v[parent(c)] <= v[c]
      /\ \A c \in D : c > 1 /\ parent(c) = i /\ i > 1 => v[parent(i)] <= v[c]
  BY DEF HeapButBelow
<1> SUFFICES ASSUME NEW c \in D, c > 1
             PROVE  Passed(v, i, step, W, parent(c)) <= Passed(v, i, step, W, c)
  OBVIOUS
<1>7. PICK p \in D : p = parent(c) /\ p < c
  BY <1>2
<1>8. c \in Nat /\ p \in Nat /\ i \in Nat /\ i >= 1 /\ p >= 1
  OBVIOUS
<1>9. CASE p \in W
  <2>1. c # i
    BY <1>3, <1>7, <1>8, <1>9
  <2>2. m[p] # 0 /\ m[p] \in D /\ v[m[p]] <= v[c] /\ parent(m[p]) = p /\ m[p] > 1
    <3>1. BestChild(D, v, p, m[p])
      OBVIOUS
    <3>2. m[p] # 0
      BY <1>7, <3>1 DEF BestChild
    <3> QED
      BY <1>7, <1>8, <3>1, <3>2 DEF BestChild
  <2>3. CASE step[p] = 0
    <3>1. c \notin W
      <4> SUFFICES ASSUME c \in W PROVE FALSE
        OBVIOUS
      <4>1. step[parent(c)] = c
        BY <1>4, <2>1
      <4> QED
        BY ONLY <1>7, <2>3, <4>1, c > 1
    <3>2. ~(v[i] > v[m[p]])
      BY <2>2, <2>3
    <3>3. v[i] <= v[c]
      BY <1>5, <2>2, <3>2
    <3> QED
      BY <1>7, <1>9, <2>3, <3>1, <3>3 DEF Passed
  <2>4. CASE step[p] # 0
    <3>1. step[p] = m[p] /\ v[i] > v[m[p]] /\ m[p] \in W
      BY <1>1, <1>9, <2>4
    <3>2. Passed(v, i, step, W, p) = v[m[p]]
      BY <1>9, <2>4, <3>1 DEF Passed
    <3>3. CASE c = m[p]
      <4>1. CASE step[c] = 0
        BY <1>5, <1>7, <2>2, <3>1, <3>2, <3>3, <4>1 DEF Passed
      <4>2. CASE step[c] # 0
        <5>1. step[c] = m[c] /\ m[c] # 0
          BY <4>2
        <5>2. m[c] \in D /\ parent(m[c]) = c /\ m[c] > 1
          <6>1. BestChild(D, v, c, m[c])
            OBVIOUS
          <6> QED
            BY <1>8, <5>1, <6>1 DEF BestChild
        <5>3. v[c] <= v[m[c]]
          BY <1>6, <2>1, <5>2
        <5> QED
          BY <1>7, <3>1, <3>2, <3>3, <4>2, <5>1, <5>3 DEF Passed
      <4> QED
        BY <4>1, <4>2
    <3>4. CASE c # m[p]
      <4>1. c \notin W
        <5> SUFFICES ASSUME c \in W PROVE FALSE
          OBVIOUS
        <5>1. step[parent(c)] = c
          BY <1>4, <2>1
        <5> QED
          BY ONLY <1>7, <3>1, <3>4, <5>1
      <4> QED
        BY <1>7, <2>2, <3>2, <4>1 DEF Passed
    <3> QED
      BY <3>3, <3>4
  <2> QED
    BY <2>3, <2>4
<1>10. CASE p \notin W
  <2>1. CASE c \notin W
    <3>1. p # i
      BY <1>1, <1>10
    <3> QED
      BY <1>6, <1>7, <1>10, <2>1, <3>1 DEF Passed
  <2>2. CASE c \in W
    <3>1. c = i
      BY <1>4, <1>7, <1>10, <2>2
    <3>2. p # i /\ v[p] <= v[i]
      BY <1>1, <1>6, <1>7, <1>10, <3>1
    <3>3. CASE step[c] = 0
      BY <1>7, <1>10, <2>2, <3>2, <3>3 DEF Passed
    <3>4. CASE step[c] # 0
      <4>1. step[c] = m[c] /\ m[c] # 0
        BY <3>4
      <4>2. m[c] \in D /\ parent(m[c]) = i /\ m[c] > 1
        <5>1. BestChild(D, v, c, m[c])
          OBVIOUS
        <5> QED
          BY <1>8, <3>1, <4>1, <5>1 DEF BestChild
      <4>3. v[p] <= v[m[c]]
        BY <1>6, <1>7, <3>1, <4>2
      <4> QED
        BY <1>7, <1>10, <2>2, <3>4, <4>1, <4>3 DEF Passed
    <3> QED
      BY <3>3, <3>4
  <2> QED
    BY <2>1, <2>2
<1> QED
  BY <1>9, <1>10

-----------------------------------------------------------------------------
(* The operations of the queue.                                            *)

Queues(S) == [d : Seq(S), pos : [S -> Nat]]

\* A queue of elements of S, each in it once.
IsQueue(S, q) == q \in Queues(S) /\ Distinct(q.d)

LEMMA QueueFacts ==
  ASSUME NEW S, NEW q, IsQueue(S, q)
  PROVE  /\ q.d \in Seq(S) /\ Len(q.d) \in Nat /\ DOMAIN q.d = 1 .. Len(q.d)
         /\ \A p \in 1 .. Len(q.d) : q.d[p] \in S
         /\ \A p, o \in 1 .. Len(q.d) : q.d[p] = q.d[o] => p = o
         /\ q.pos \in [S -> Nat] /\ DOMAIN q.pos = S
BY DEF IsQueue, Queues, Distinct

\* h is queue q with the elements at other places, which they know.
Rearranged(S, q, h) ==
  /\ IsQueue(S, h) /\ Len(h.d) = Len(q.d) /\ Elems(h.d) = Elems(q.d)
  /\ PositionsRight(h)
  /\ \A e \in S : e \notin Elems(q.d) => h.pos[e] = q.pos[e]

LEMMA PlacedFacts ==
  ASSUME NEW S, NEW q, IsQueue(S, q), NEW seq \in Seq(S), Distinct(seq)
  PROVE  /\ IsQueue(S, Placed(q, seq)) /\ Placed(q, seq).d = seq
         /\ PositionsRight(Placed(q, seq))
         /\ \A e \in S : e \notin Elems(seq) => Placed(q, seq).pos[e] = q.pos[e]
<1>1. PICK h : h = Placed(q, seq)
  OBVIOUS
<1>2. q.pos \in [S -> Nat] /\ DOMAIN q.pos = S
  BY QueueFacts
<1>3. h = [d |-> seq, pos |-> h.pos] /\ h.d = seq
  BY <1>1 DEF Placed
<1>4. h.pos = [e \in S |-> IF \E i \in DOMAIN seq : seq[i] = e
                           THEN CHOOSE i \in DOMAIN seq : seq[i] = e ELSE q.pos[e]]
  BY <1>1, <1>2 DEF Placed
<1>5. DOMAIN seq = 1 .. Len(seq) /\ \A i \in DOMAIN seq : seq[i] \in S /\ i \in Nat
  OBVIOUS
<1>6. ASSUME NEW i \in DOMAIN seq PROVE h.pos[seq[i]] = i
  <2>1. seq[i] \in S /\ \E j \in DOMAIN seq : seq[j] = seq[i]
    BY <1>5
  <2>2. h.pos[seq[i]] = CHOOSE j \in DOMAIN seq : seq[j] = seq[i]
    BY <1>4, <2>1
  <2>3. h.pos[seq[i]] \in DOMAIN seq /\ seq[h.pos[seq[i]]] = seq[i]
    BY <2>1, <2>2
  <2> QED
    BY <2>3 DEF Distinct
<1>7. \A e \in S : e \notin Elems(seq) => h.pos[e] = q.pos[e]
  BY <1>4 DEF Elems
<1>8. h.pos \in [S -> Nat]
  <2>1. \A e \in S : h.pos[e] \in Nat
    <3> SUFFICES ASSUME NEW e \in S PROVE h.pos[e] \in Nat
      OBVIOUS
    <3>1. CASE e \in Elems(seq)
      BY <1>5, <1>6, <3>1 DEF Elems
    <3>2. CASE e \notin Elems(seq)
      BY <1>2, <1>7, <3>2
    <3> QED
      BY <3>1, <3>2
  <2>2. h.pos = [e \in S |-> h.pos[e]]
    BY <1>4
  <2> QED
    BY <2>1, <2>2
<1>9. IsQueue(S, h)
  BY <1>3, <1>8 DEF IsQueue, Queues
<1> QED
  BY <1>1, <1>3, <1>6, <1>7, <1>9 DEF PositionsRight

\* h is what a shift makes of q.
IsShift(S, q, i, step, h) ==
  /\ Rearranged(S, q, h)
  /\ DOMAIN h.d = DOMAIN q.d
  /\ \A p \in DOMAIN q.d : h.d[p] = Shifted(q, i, step, p)

\* The elements on a way have moved, none came or went.
LEMMA ShiftFacts ==
  ASSUME NEW S, NEW q, IsQueue(S, q), NEW i \in DOMAIN q.d, NEW step, NEW r,
         Steps(DOMAIN q.d, step, r)
  PROVE  IsShift(S, q, i, step, Shift(q, i, step))
<1>1. PICK W : W = Way(i, step)
  OBVIOUS
<1>2. PICK D : D = DOMAIN q.d
  OBVIOUS
<1>3. /\ i \in W /\ W \subseteq D /\ 0 \notin D /\ i \in D
      /\ \A x \in W : r[x] <= r[i]
      /\ \A x \in W : step[x] # 0 => step[x] \in W
      /\ \A x \in W : x # i => \E y \in W : step[y] = x
      /\ \A x, y \in W : step[x] = step[y] => x = y
      /\ \E e \in W : step[e] = 0
  <2>1. WayFrom(D, step, r, i, W)
    BY <1>1, <1>2, WayFacts
  <2> QED
    BY <1>2, <2>1 DEF WayFrom, Steps
<1>4. \A x \in W : step[x] # i
  <2> SUFFICES ASSUME NEW x \in W, step[x] = i PROVE FALSE
    OBVIOUS
  <2>1. step[x] # 0 /\ x \in D
    BY <1>3
  <2>2. r[i] < r[x] /\ r[x] <= r[i] /\ r[i] \in Nat /\ r[x] \in Nat
    BY <1>2, <1>3, <2>1 DEF Steps
  <2> QED
    BY <2>2
<1> DEFINE at(p) == IF p \notin W THEN p ELSE IF step[p] = 0 THEN i ELSE step[p]
<1>5. \A p \in D : at(p) \in D /\ Shifted(q, i, step, p) = q.d[at(p)]
  BY <1>1, <1>3 DEF Shifted
<1>6. \A p, o \in D : at(p) = at(o) => p = o
  <2> SUFFICES ASSUME NEW p \in D, NEW o \in D, at(p) = at(o) PROVE p = o
    OBVIOUS
  <2>1. CASE p \notin W \/ o \notin W
    BY <1>3, <2>1
  <2>2. CASE p \in W /\ o \in W
    BY <1>3, <1>4, <2>2
  <2> QED
    BY <2>1, <2>2
<1>7. \A o \in D : \E p \in D : at(p) = o
  <2> SUFFICES ASSUME NEW o \in D PROVE \E p \in D : at(p) = o
    OBVIOUS
  <2>1. CASE o \notin W
    BY <2>1
  <2>2. CASE o = i
    BY <1>3, <2>2
  <2>3. CASE o \in W /\ o # i
    <3>1. PICK y \in W : step[y] = o
      BY <1>3, <2>3
    <3>2. y \in D /\ step[y] # 0
      BY <1>3, <3>1
    <3> QED
      BY <3>1, <3>2
  <2> QED
    BY <2>1, <2>2, <2>3
<1> HIDE DEF at
<1>8. PICK s : s = [p \in D |-> Shifted(q, i, step, p)]
  OBVIOUS
<1>9. PICK n \in Nat : n = Len(q.d) /\ D = 1 .. n
  BY <1>2, QueueFacts
<1>10. /\ \A p \in D : q.d[p] \in S
       /\ \A p, o \in D : q.d[p] = q.d[o] => p = o
  BY <1>9, QueueFacts
<1>11. /\ \A p \in D : s[p] = q.d[at(p)] /\ s[p] \in S
       /\ DOMAIN s = D
  BY <1>5, <1>8, <1>10
<1>12. s \in Seq(S) /\ Len(s) = n
  <2>1. s \in [1 .. n -> S]
    BY <1>8, <1>9, <1>11
  <2> QED
    BY <1>9, <2>1
<1>13. Distinct(s)
  BY <1>5, <1>6, <1>10, <1>11 DEF Distinct
<1>14. Elems(s) = Elems(q.d)
  BY <1>2, <1>5, <1>7, <1>11 DEF Elems
<1>15. Shift(q, i, step) = Placed(q, s)
  BY <1>2, <1>8 DEF Shift
<1>16. /\ IsQueue(S, Placed(q, s)) /\ Placed(q, s).d = s
       /\ PositionsRight(Placed(q, s))
       /\ \A e \in S : e \notin Elems(s) => Placed(q, s).pos[e] = q.pos[e]
  BY <1>12, <1>13, PlacedFacts
<1>17. Rearranged(S, q, Placed(q, s))
  BY <1>9, <1>12, <1>14, <1>16 DEF Rearranged
<1> QED
  BY <1>2, <1>8, <1>11, <1>15, <1>16, <1>17 DEF IsShift

\* Priorities of the elements at the places of a heap.
Pris(q, pri) == [p \in DOMAIN q.d |-> pri[q.d[p]]]

LEMMA PrisFacts ==
  ASSUME NEW S, NEW q, IsQueue(S, q), NEW pri \in [S -> Nat]
  PROVE  /\ Pris(q, pri) \in [DOMAIN q.d -> Nat]
         /\ pqueue_is_valid(q, pri) <=>
              \A c \in DOMAIN q.d : c > 1 => Pris(q, pri)[parent(c)] <= Pris(q, pri)[c]
<1>1. PICK n \in Nat : n = Len(q.d) /\ DOMAIN q.d = 1 .. n
  BY QueueFacts
<1>2. \A p \in 1 .. n : q.d[p] \in S
  BY <1>1, QueueFacts
<1>3. PICK v : v = Pris(q, pri)
  OBVIOUS
<1>4. /\ v = [p \in 1 .. n |-> pri[q.d[p]]]
      /\ \A p \in 1 .. n : v[p] = pri[q.d[p]] /\ v[p] \in Nat
  BY <1>1, <1>2, <1>3 DEF Pris
<1>5. v \in [1 .. n -> Nat]
  BY <1>4
<1>6. \A c \in 1 .. n : c > 1 => parent(c) \in 1 .. n
  BY <1>1, Parents
<1>7. pqueue_is_valid(q, pri) <=> \A c \in 1 .. n : c > 1 => ~(pri[q.d[parent(c)]] > pri[q.d[c]])
  BY <1>1 DEF pqueue_is_valid, cmppri
<1>8. \A c \in 1 .. n : c > 1 => (~(pri[q.d[parent(c)]] > pri[q.d[c]]) <=> v[parent(c)] <= v[c])
  BY <1>4, <1>6
<1> QED
  BY <1>1, <1>3, <1>5, <1>7, <1>8

\* v says what was at each place, w what is there after the shift.
PrisShifted(q, i, step, v, w) ==
  \A p \in DOMAIN q.d : w[p] = Passed(v, i, step, Way(i, step), p)

LEMMA ShiftedPris ==
  ASSUME NEW S, NEW q, IsQueue(S, q), NEW pri \in [S -> Nat], NEW i \in DOMAIN q.d,
         NEW step, NEW r, Steps(DOMAIN q.d, step, r)
  PROVE  PrisShifted(q, i, step, Pris(q, pri), Pris(Shift(q, i, step), pri))
<1>1. PICK W : W = Way(i, step)
  OBVIOUS
<1>2. PICK v : v = Pris(q, pri)
  OBVIOUS
<1>3. \A p \in DOMAIN q.d : v[p] = pri[q.d[p]]
  BY <1>2 DEF Pris
<1>4. PICK h : h = Shift(q, i, step)
  OBVIOUS
<1>5. /\ DOMAIN h.d = DOMAIN q.d
      /\ \A p \in DOMAIN q.d : h.d[p] = Shifted(q, i, step, p)
  <2>1. IsShift(S, q, i, step, h)
    BY <1>4, ShiftFacts
  <2> QED
    BY <2>1 DEF IsShift
<1> SUFFICES ASSUME NEW p \in DOMAIN q.d PROVE Pris(h, pri)[p] = Passed(v, i, step, W, p)
  BY <1>1, <1>2, <1>4 DEF PrisShifted
<1>6. Pris(h, pri)[p] = pri[Shifted(q, i, step, p)]
  BY <1>5 DEF Pris
<1>7. step[p] # 0 => step[p] \in DOMAIN q.d
  BY DEF Steps
<1> QED
  BY <1>1, <1>3, <1>6, <1>7 DEF Shifted, Passed

\* A queue in order: each element once, and the better ones above.
IsHeap(S, q, pri) == IsQueue(S, q) /\ pqueue_is_valid(q, pri)

\* After an operation on q.
HeapOf(S, q, h, pri) == Rearranged(S, q, h) /\ pqueue_is_valid(h, pri)

\* A shift leaves a heap when what has passed is in order.
LEMMA ShiftHeap ==
  ASSUME NEW S, NEW q, IsQueue(S, q), NEW pri \in [S -> Nat], NEW i \in DOMAIN q.d,
         NEW step, NEW r, Steps(DOMAIN q.d, step, r),
         NEW v, v = Pris(q, pri), NEW W, W = Way(i, step),
         \A c \in DOMAIN q.d : c > 1 =>
           Passed(v, i, step, W, parent(c)) <= Passed(v, i, step, W, c)
  PROVE  HeapOf(S, q, Shift(q, i, step), pri)
<1>1. PICK h : h = Shift(q, i, step)
  OBVIOUS
<1>2. IsShift(S, q, i, step, h)
  BY <1>1, ShiftFacts
<1>3. Rearranged(S, q, h) /\ DOMAIN h.d = DOMAIN q.d
  BY <1>2 DEF IsShift
<1>4. \A p \in DOMAIN q.d : Pris(h, pri)[p] = Passed(v, i, step, W, p)
  <2>1. PrisShifted(q, i, step, Pris(q, pri), Pris(Shift(q, i, step), pri))
    BY ShiftedPris
  <2> QED
    BY <1>1, <2>1 DEF PrisShifted
<1>5. PICK n \in Nat : n = Len(q.d) /\ DOMAIN q.d = 1 .. n
  BY QueueFacts
<1>6. \A c \in DOMAIN q.d : c > 1 => parent(c) \in DOMAIN q.d
  BY <1>5, Parents
<1>7. \A c \in DOMAIN h.d : c > 1 => Pris(h, pri)[parent(c)] <= Pris(h, pri)[c]
  BY <1>3, <1>4, <1>6
<1>8. pqueue_is_valid(h, pri)
  <2>1. IsQueue(S, h)
    BY <1>3 DEF Rearranged
  <2> QED
    BY <1>7, <2>1, PrisFacts
<1> QED
  BY <1>1, <1>3, <1>8 DEF HeapOf

LEMMA RiseFacts ==
  ASSUME NEW S, NEW q, IsQueue(S, q), NEW pri \in [S -> Nat], NEW i \in DOMAIN q.d,
         HeapButAbove(DOMAIN q.d, Pris(q, pri), i)
  PROVE  HeapOf(S, q, bubble_up(q, i, pri), pri)
<1>1. PICK n \in Nat : n = Len(q.d) /\ DOMAIN q.d = 1 .. n
  BY QueueFacts
<1>2. PICK D : D = 1 .. n
  OBVIOUS
<1>3. PICK v : v = Pris(q, pri)
  OBVIOUS
<1>4. v \in [D -> Nat] /\ \A p \in D : v[p] = pri[q.d[p]]
  <2>1. v \in [D -> Nat]
    BY <1>1, <1>2, <1>3, PrisFacts
  <2> QED
    BY <1>1, <1>2, <1>3, <2>1 DEF Pris
<1>5. \A p \in D : p > 1 => parent(p) \in D /\ parent(p) < p /\ parent(p) # 0
  <2> SUFFICES ASSUME NEW p \in D, p > 1 PROVE parent(p) \in D /\ parent(p) < p /\ parent(p) # 0
    OBVIOUS
  <2>1. parent(p) \in 1 .. n /\ parent(p) < p
    BY <1>2, Parents
  <2> QED
    BY <1>2, <2>1
<1>6. PICK step : step = [p \in D |-> IF p > 1 /\ cmppri(pri[q.d[parent(p)]], pri[q.d[i]])
                                     THEN parent(p) ELSE 0]
  OBVIOUS
<1>7. bubble_up(q, i, pri) = Shift(q, i, step)
  BY <1>1, <1>2, <1>6 DEF bubble_up
<1>8. \A p \in D : step[p] = IF p > 1 /\ v[parent(p)] > v[i] THEN parent(p) ELSE 0
  BY <1>1, <1>2, <1>4, <1>5, <1>6 DEF cmppri
<1>9. PICK r : r = [p \in D |-> p]
  OBVIOUS
<1>10. Steps(D, step, r)
  <2>1. r \in [D -> Nat] /\ 0 \notin D /\ DOMAIN step = D
    BY <1>2, <1>6, <1>9
  <2>2. \A p \in D : step[p] # 0 => step[p] \in D /\ r[step[p]] < r[p]
    BY <1>5, <1>8, <1>9
  <2> QED
    BY <2>1, <2>2 DEF Steps
<1>11. PICK W : W = Way(i, step)
  OBVIOUS
<1>12. WayFrom(D, step, r, i, W)
  BY <1>1, <1>2, <1>10, <1>11, WayFacts
<1>13. \A c \in D : c > 1 => Passed(v, i, step, W, parent(c)) <= Passed(v, i, step, W, c)
  <2>1. HeapButAbove(D, v, i) /\ i \in D
    BY <1>1, <1>2, <1>3
  <2> QED
    BY <1>2, <1>4, <1>8, <1>9, <1>12, <2>1, RisesInHeap
<1>14. HeapOf(S, q, Shift(q, i, step), pri)
  BY <1>1, <1>2, <1>3, <1>10, <1>11, <1>13, ShiftHeap
<1> QED
  BY <1>7, <1>14

\* maxchild finds the best child.
LEMMA MaxChildIs ==
  ASSUME NEW S, NEW q, IsQueue(S, q), NEW pri \in [S -> Nat], NEW p \in DOMAIN q.d
  PROVE  BestChild(DOMAIN q.d, Pris(q, pri), p, maxchild(q, p, pri))
<1>1. PICK n \in Nat : n = Len(q.d) /\ DOMAIN q.d = 1 .. n
  BY QueueFacts
<1>2. PICK v : v = Pris(q, pri)
  OBVIOUS
<1>3. v \in [1 .. n -> Nat] /\ \A o \in 1 .. n : v[o] = pri[q.d[o]] /\ v[o] \in Nat
  <2>1. v \in [1 .. n -> Nat]
    BY <1>1, <1>2, PrisFacts
  <2> QED
    BY <1>1, <1>2, <2>1 DEF Pris
<1>4. PICK a, b : a = left(p) /\ b = right(p)
  OBVIOUS
<1>5. p \in 1 .. n /\ a \in Nat /\ b \in Nat /\ b = a + 1 /\ a > p /\ a > 1
  BY <1>1, <1>4 DEF left, right
<1>6. \A c \in 1 .. n : (c > 1 /\ parent(c) = p) <=> c = a \/ c = b
  <2> SUFFICES ASSUME NEW c \in 1 .. n PROVE (c > 1 /\ parent(c) = p) <=> c = a \/ c = b
    OBVIOUS
  <2>1. c \in Nat /\ p \in Nat /\ p > 0
    BY <1>1
  <2> QED
    BY <1>4, <2>1, Children
<1>7. PICK m : m = maxchild(q, p, pri)
  OBVIOUS
<1>8. m = IF a > n THEN 0 ELSE IF b <= n /\ pri[q.d[a]] > pri[q.d[b]] THEN b ELSE a
  BY <1>1, <1>4, <1>7 DEF maxchild, cmppri
<1>9. CASE a > n
  <2>1. m = 0 /\ \A c \in 1 .. n : c # a /\ c # b
    BY <1>5, <1>8, <1>9
  <2>2. BestChild(1 .. n, v, p, m)
    BY <1>6, <2>1 DEF BestChild
  <2> QED
    BY <1>1, <1>2, <1>7, <2>2
<1>10. CASE ~(a > n)
  <2>1. a \in 1 .. n
    BY <1>5, <1>10
  <2>2. /\ m = IF b <= n /\ v[a] > v[b] THEN b ELSE a
        /\ m \in 1 .. n /\ m # 0 /\ m > p /\ (m = a \/ m = b)
    <3>1. b <= n => b \in 1 .. n
      BY <1>5
    <3> QED
      BY <1>3, <1>5, <1>8, <1>10, <2>1, <3>1
  <2>3. parent(m) = p
    BY <1>6, <2>2
  <2>4. ASSUME NEW c \in 1 .. n, c > 1, parent(c) = p PROVE v[m] <= v[c]
    <3>1. c = a \/ c = b
      BY <1>6, <2>4
    <3>2. v[c] \in Nat /\ v[a] \in Nat
      BY <1>3, <2>1
    <3>3. b = c => b <= n
      OBVIOUS
    <3> QED
      BY <2>2, <3>1, <3>2, <3>3, <1>3
  <2>5. BestChild(1 .. n, v, p, m)
    BY <2>2, <2>3, <2>4 DEF BestChild
  <2> QED
    BY <1>1, <1>2, <1>7, <2>5
<1> QED
  BY <1>9, <1>10

LEMMA SinkFacts ==
  ASSUME NEW S, NEW q, IsQueue(S, q), NEW pri \in [S -> Nat], NEW i \in DOMAIN q.d,
         HeapButBelow(DOMAIN q.d, Pris(q, pri), i)
  PROVE  HeapOf(S, q, percolate_down(q, i, pri), pri)
<1>1. PICK n \in Nat : n = Len(q.d) /\ DOMAIN q.d = 1 .. n
  BY QueueFacts
<1>2. PICK D : D = 1 .. n
  OBVIOUS
<1>3. PICK v : v = Pris(q, pri)
  OBVIOUS
<1>4. v \in [D -> Nat] /\ \A p \in D : v[p] = pri[q.d[p]]
  <2>1. v \in [D -> Nat]
    BY <1>1, <1>2, <1>3, PrisFacts
  <2> QED
    BY <1>1, <1>2, <1>3, <2>1 DEF Pris
<1>5. PICK m : m = [p \in D |-> maxchild(q, p, pri)]
  OBVIOUS
<1>6. \A p \in D : BestChild(D, v, p, m[p])
  <2> SUFFICES ASSUME NEW p \in D PROVE BestChild(D, v, p, m[p])
    OBVIOUS
  <2>1. BestChild(D, v, p, maxchild(q, p, pri))
    BY <1>1, <1>2, <1>3, MaxChildIs
  <2> QED
    BY <1>5, <2>1
<1>7. PICK step : step = [p \in D |-> LET c == maxchild(q, p, pri)
                                     IN  IF c # 0 /\ cmppri(pri[q.d[i]], pri[q.d[c]]) THEN c ELSE 0]
  OBVIOUS
<1>8. percolate_down(q, i, pri) = Shift(q, i, step)
  BY <1>1, <1>2, <1>7 DEF percolate_down
<1>9. \A p \in D : step[p] = IF m[p] # 0 /\ v[i] > v[m[p]] THEN m[p] ELSE 0
  <2> SUFFICES ASSUME NEW p \in D PROVE step[p] = IF m[p] # 0 /\ v[i] > v[m[p]] THEN m[p] ELSE 0
    OBVIOUS
  <2>1. PICK c : c = maxchild(q, p, pri)
    OBVIOUS
  <2>2. step[p] = IF c # 0 /\ pri[q.d[i]] > pri[q.d[c]] THEN c ELSE 0
    BY <1>7, <2>1 DEF cmppri
  <2>3. m[p] = c
    BY <1>5, <2>1
  <2>4. c # 0 => c \in D
    BY <1>6, <2>3 DEF BestChild
  <2>5. i \in D
    BY <1>1, <1>2
  <2>6. c # 0 => v[c] = pri[q.d[c]] /\ v[i] = pri[q.d[i]]
    BY <1>4, <2>4, <2>5
  <2> QED
    BY <2>2, <2>3, <2>6
<1>10. PICK r : r = [p \in D |-> n - p]
  OBVIOUS
<1>11. Steps(D, step, r)
  <2>1. r \in [D -> Nat] /\ 0 \notin D /\ DOMAIN step = D
    BY <1>2, <1>7, <1>10
  <2>2. ASSUME NEW p \in D, step[p] # 0 PROVE step[p] \in D /\ r[step[p]] < r[p]
    <3>1. step[p] = m[p] /\ m[p] # 0
      BY <1>9, <2>2
    <3>2. m[p] \in D /\ m[p] > p
      BY <1>6, <3>1 DEF BestChild
    <3> QED
      BY <1>2, <1>10, <3>1, <3>2
  <2> QED
    BY <2>1, <2>2 DEF Steps
<1>12. PICK W : W = Way(i, step)
  OBVIOUS
<1>13. WayFrom(D, step, r, i, W)
  BY <1>1, <1>2, <1>11, <1>12, WayFacts
<1>14. \A c \in D : c > 1 => Passed(v, i, step, W, parent(c)) <= Passed(v, i, step, W, c)
  <2>1. HeapButBelow(D, v, i) /\ i \in D
    BY <1>1, <1>2, <1>3
  <2> QED
    BY <1>2, <1>4, <1>6, <1>9, <1>10, <1>13, <2>1, SinksInHeap
<1>15. HeapOf(S, q, Shift(q, i, step), pri)
  BY <1>1, <1>2, <1>3, <1>11, <1>12, <1>14, ShiftHeap
<1> QED
  BY <1>8, <1>15

\* q is a heap whose elements, those of set L, know their places.
Ordered(S, q, pri, L) == IsHeap(S, q, pri) /\ PositionsRight(q) /\ Elems(q.d) = L

\* Elements outside keep the position they had in q.
OthersKeep(S, q, h) == \A x \in S : x \notin Elems(h.d) => h.pos[x] = q.pos[x]

LEMMA HeapOfFacts ==
  ASSUME NEW S, NEW q, NEW h, NEW pri, HeapOf(S, q, h, pri)
  PROVE  Ordered(S, h, pri, Elems(q.d)) /\ OthersKeep(S, q, h)
BY DEF HeapOf, Rearranged, Ordered, IsHeap, OthersKeep

\* pqueue_insert: one element more.
LEMMA InsertHeap ==
  ASSUME NEW S, NEW q, NEW pri \in [S -> Nat], NEW L, Ordered(S, q, pri, L),
         NEW e \in S, e \notin L
  PROVE  /\ Ordered(S, pqueue_insert(q, e, pri), pri, L \cup {e})
         /\ OthersKeep(S, q, pqueue_insert(q, e, pri))
<1>1. IsQueue(S, q) /\ pqueue_is_valid(q, pri) /\ Elems(q.d) = L
  BY DEF Ordered, IsHeap
<1>2. PICK n \in Nat : n = Len(q.d) /\ DOMAIN q.d = 1 .. n
  BY <1>1, QueueFacts
<1>3. q.d \in Seq(S) /\ q.pos \in [S -> Nat] /\ q = [d |-> q.d, pos |-> q.pos]
  BY <1>1 DEF IsQueue, Queues
<1>4. PICK g : g = [q EXCEPT !.d = Append(@, e)]
  OBVIOUS
<1>5. g.d = Append(q.d, e) /\ g.pos = q.pos /\ g = [d |-> Append(q.d, e), pos |-> q.pos]
  BY <1>3, <1>4
<1>6. /\ g.d \in Seq(S) /\ Len(g.d) = n + 1 /\ DOMAIN g.d = 1 .. n + 1
      /\ g.d[n + 1] = e /\ \A p \in 1 .. n : g.d[p] = q.d[p]
  BY <1>2, <1>3, <1>5
<1>7. Distinct(q.d)
  BY <1>1 DEF IsQueue
<1>8. Elems(g.d) = L \cup {e}
  <2>1. ASSUME NEW x \in Elems(g.d) PROVE x \in L \cup {e}
    <3>1. PICK p \in 1 .. n + 1 : x = g.d[p]
      BY <1>6, <2>1 DEF Elems
    <3>2. p = n + 1 \/ p \in 1 .. n
      BY <1>2
    <3> QED
      BY <1>1, <1>2, <1>6, <3>1, <3>2 DEF Elems
  <2>2. ASSUME NEW x \in L PROVE x \in Elems(g.d)
    <3>1. PICK p \in 1 .. n : x = q.d[p]
      BY <1>1, <1>2, <2>2 DEF Elems
    <3>2. p \in 1 .. n + 1
      BY <1>2
    <3> QED
      BY <1>6, <3>1, <3>2 DEF Elems
  <2>3. e \in Elems(g.d)
    <3>1. n + 1 \in 1 .. n + 1
      BY <1>2
    <3> QED
      BY <1>6, <3>1 DEF Elems
  <2> QED
    BY <2>1, <2>2, <2>3
<1>9. Distinct(g.d)
  <2> SUFFICES ASSUME NEW p \in 1 .. n + 1, NEW o \in 1 .. n + 1, g.d[p] = g.d[o] PROVE p = o
    BY <1>6 DEF Distinct
  <2>1. \A x \in 1 .. n : q.d[x] # e
    BY <1>1, <1>2 DEF Elems
  <2>2. (p = n + 1 \/ p \in 1 .. n) /\ (o = n + 1 \/ o \in 1 .. n)
    BY <1>2
  <2>3. \A x, y \in 1 .. n : q.d[x] = q.d[y] => x = y
    BY <1>2, <1>7 DEF Distinct
  <2>4. g.d[n + 1] = e /\ \A x \in 1 .. n : g.d[x] = q.d[x]
    BY <1>6
  <2>5. p \in 1 .. n <=> o \in 1 .. n
    BY <2>1, <2>2, <2>4
  <2>6. CASE p \in 1 .. n
    BY <2>3, <2>4, <2>5, <2>6
  <2>7. CASE p \notin 1 .. n
    BY <2>2, <2>5, <2>7
  <2> QED
    BY <2>6, <2>7
<1>10. IsQueue(S, g)
  <2>1. g.d \in Seq(S) /\ g.pos \in [S -> Nat]
    BY <1>3, <1>5, <1>6
  <2>2. g \in Queues(S)
    BY <1>5, <2>1 DEF Queues
  <2> QED
    BY <1>9, <2>2 DEF IsQueue
<1>11. PICK i : i = n + 1 /\ i \in DOMAIN g.d
  <2>1. n + 1 \in 1 .. n + 1
    BY <1>2
  <2> QED
    BY <1>6, <2>1
<1>12. HeapButAbove(DOMAIN g.d, Pris(g, pri), i)
  <2>1. PICK v, w : v = Pris(q, pri) /\ w = Pris(g, pri)
    OBVIOUS
  <2>2. \A c \in 1 .. n : c > 1 => v[parent(c)] <= v[c]
    BY <1>1, <1>2, <2>1, PrisFacts
  <2>3. \A c \in 1 .. n : c \in 1 .. n + 1 /\ w[c] = v[c]
    <3> SUFFICES ASSUME NEW c \in 1 .. n PROVE c \in 1 .. n + 1 /\ w[c] = v[c]
      OBVIOUS
    <3>1. c \in 1 .. n + 1
      BY <1>2
    <3> QED
      BY <1>2, <1>6, <2>1, <3>1 DEF Pris
  <2>4. ASSUME NEW c \in 1 .. n + 1, c > 1, c # i PROVE w[parent(c)] <= w[c]
    <3>1. c \in 1 .. n
      BY <1>2, <1>11, <2>4
    <3>2. parent(c) \in 1 .. n
      BY <2>4, <3>1, <1>2, Parents
    <3> QED
      BY <2>2, <2>3, <2>4, <3>1, <3>2
  <2>5. ASSUME NEW c \in 1 .. n + 1, c > 1 PROVE parent(c) # i
    <3>1. n + 1 \in Nat
      BY <1>2
    <3>2. parent(c) < c /\ parent(c) \in 1 .. n + 1
      BY <2>5, <3>1, Parents
    <3> QED
      BY <1>2, <1>11, <3>2
  <2> QED
    BY <1>6, <2>1, <2>4, <2>5 DEF HeapButAbove
<1>13. HeapOf(S, g, bubble_up(g, i, pri), pri)
  BY <1>10, <1>11, <1>12, RiseFacts
<1>14. pqueue_insert(q, e, pri) = bubble_up(g, i, pri)
  BY <1>2, <1>4, <1>11 DEF pqueue_insert
<1>15. PICK h : h = pqueue_insert(q, e, pri)
  OBVIOUS
<1>16. Ordered(S, h, pri, Elems(g.d)) /\ OthersKeep(S, g, h)
  <2>1. HeapOf(S, g, h, pri)
    BY <1>13, <1>14, <1>15
  <2> QED
    BY <2>1, HeapOfFacts
<1>17. Ordered(S, h, pri, L \cup {e}) /\ OthersKeep(S, q, h)
  BY <1>5, <1>8, <1>16 DEF OthersKeep
<1> QED
  BY <1>15, <1>17

\* pqueue_change_priority: the priority of e alone has changed.
LEMMA ChangeHeap ==
  ASSUME NEW S, NEW q, NEW old \in [S -> Nat], NEW L, Ordered(S, q, old, L),
         NEW pri \in [S -> Nat], NEW e \in L, \A x \in S : x # e => pri[x] = old[x]
  PROVE  /\ Ordered(S, pqueue_change_priority(q, e, old[e], pri), pri, L)
         /\ OthersKeep(S, q, pqueue_change_priority(q, e, old[e], pri))
<1>1. IsQueue(S, q) /\ pqueue_is_valid(q, old) /\ Elems(q.d) = L /\ PositionsRight(q)
  BY DEF Ordered, IsHeap
<1>2. PICK n \in Nat : n = Len(q.d) /\ DOMAIN q.d = 1 .. n
  BY <1>1, QueueFacts
<1>3. PICK i \in DOMAIN q.d : q.d[i] = e
  BY <1>1 DEF Elems
<1>4. q.pos[e] = i
  BY <1>1, <1>3 DEF PositionsRight
<1>5. /\ \A p \in 1 .. n : q.d[p] \in S
      /\ \A p, o \in 1 .. n : q.d[p] = q.d[o] => p = o
  BY <1>1, <1>2, QueueFacts
<1>6. PICK v, w : v = Pris(q, old) /\ w = Pris(q, pri)
  OBVIOUS
<1>7. \A c \in 1 .. n : c > 1 => v[parent(c)] <= v[c] /\ parent(c) \in 1 .. n
  <2>1. \A c \in 1 .. n : c > 1 => v[parent(c)] <= v[c]
    BY <1>1, <1>2, <1>6, PrisFacts
  <2> QED
    BY <1>2, <2>1, Parents
<1>8. \A c \in 1 .. n : v[c] = old[q.d[c]] /\ v[c] \in Nat /\ w[c] = pri[q.d[c]] /\ w[c] \in Nat
  BY <1>2, <1>5, <1>6 DEF Pris
<1>9. i \in 1 .. n /\ v[i] = old[e] /\ w[i] = pri[e] /\ v[i] \in Nat /\ w[i] \in Nat
  BY <1>2, <1>3, <1>8
<1>10. \A c \in 1 .. n : c # i => w[c] = v[c]
  BY <1>2, <1>3, <1>5, <1>8
<1>11. \A c \in 1 .. n : c > 1 => parent(c) < c
  BY <1>2, Parents
<1>12. \A c \in 1 .. n : c > 1 /\ parent(c) = i /\ i > 1 => w[parent(i)] <= w[c]
  <2> SUFFICES ASSUME NEW c \in 1 .. n, c > 1, parent(c) = i, i > 1 PROVE w[parent(i)] <= w[c]
    OBVIOUS
  <2>1. parent(i) # i /\ c # i
    BY <1>9, <1>11, <1>2
  <2>2. v[parent(i)] <= v[i] /\ v[i] <= v[c] /\ parent(i) \in 1 .. n
    BY <1>7, <1>9
  <2>3. w[parent(i)] = v[parent(i)] /\ w[c] = v[c]
    BY <1>10, <2>1, <2>2
  <2>4. v[parent(i)] \in Nat /\ v[i] \in Nat /\ v[c] \in Nat
    BY <1>8, <2>2, <1>9
  <2> QED
    BY <2>2, <2>3, <2>4
<1>13. CASE old[e] > pri[e]
  <2>1. HeapButAbove(DOMAIN q.d, w, i)
    <3>1. ASSUME NEW c \in 1 .. n, c > 1, c # i PROVE w[parent(c)] <= w[c]
      <4>1. v[parent(c)] <= v[c] /\ w[c] = v[c] /\ v[c] \in Nat
        BY <1>7, <1>8, <1>10, <3>1
      <4>2. CASE parent(c) = i
        BY <1>9, <1>13, <4>1, <4>2
      <4>3. CASE parent(c) # i
        BY <1>7, <1>10, <3>1, <4>1, <4>3
      <4> QED
        BY <4>2, <4>3
    <3> QED
      BY <1>2, <1>12, <3>1 DEF HeapButAbove
  <2>2. HeapOf(S, q, bubble_up(q, i, pri), pri)
    BY <1>1, <1>6, <2>1, RiseFacts
  <2>3. pqueue_change_priority(q, e, old[e], pri) = bubble_up(q, i, pri)
    BY <1>4, <1>13 DEF pqueue_change_priority, cmppri
  <2> QED
    BY <1>1, <2>2, <2>3, HeapOfFacts
<1>14. CASE ~(old[e] > pri[e])
  <2>1. HeapButBelow(DOMAIN q.d, w, i)
    <3>1. ASSUME NEW c \in 1 .. n, c > 1, parent(c) # i PROVE w[parent(c)] <= w[c]
      <4>1. v[parent(c)] <= v[c] /\ w[parent(c)] = v[parent(c)] /\ v[parent(c)] \in Nat
        BY <1>7, <1>8, <1>10, <3>1
      <4>2. CASE c = i
        BY <1>9, <1>14, <4>1, <4>2
      <4>3. CASE c # i
        BY <1>10, <4>1, <4>3
      <4> QED
        BY <4>2, <4>3
    <3> QED
      BY <1>2, <1>12, <3>1 DEF HeapButBelow
  <2>2. HeapOf(S, q, percolate_down(q, i, pri), pri)
    BY <1>1, <1>6, <2>1, SinkFacts
  <2>3. pqueue_change_priority(q, e, old[e], pri) = percolate_down(q, i, pri)
    BY <1>4, <1>14 DEF pqueue_change_priority, cmppri
  <2> QED
    BY <1>1, <2>2, <2>3, HeapOfFacts
<1> QED
  BY <1>13, <1>14

\* pqueue_pop: the first element is gone.
LEMMA PopHeap ==
  ASSUME NEW S, NEW q, NEW pri \in [S -> Nat], NEW L, Ordered(S, q, pri, L), q.d # <<>>
  PROVE  /\ pqueue_peek(q) \in L
         /\ Ordered(S, pqueue_pop(q, pri), pri, L \ {pqueue_peek(q)})
         /\ OthersKeep(S, q, pqueue_pop(q, pri))
<1>1. IsQueue(S, q) /\ pqueue_is_valid(q, pri) /\ Elems(q.d) = L /\ PositionsRight(q)
  BY DEF Ordered, IsHeap
<1>2. PICK n \in Nat : n = Len(q.d) /\ DOMAIN q.d = 1 .. n /\ n >= 1
  <2>1. q.d \in Seq(S)
    BY <1>1, QueueFacts
  <2> QED
    BY <2>1
<1>3. q.d \in Seq(S) /\ q.pos \in [S -> Nat] /\ q = [d |-> q.d, pos |-> q.pos]
  BY <1>1 DEF IsQueue, Queues
<1>4. PICK e : e = q.d[1] /\ e = pqueue_peek(q)
  BY <1>2, <1>3 DEF pqueue_peek
<1>5. PICK s : s = [p \in 1 .. n - 1 |-> IF p = 1 THEN q.d[n] ELSE q.d[p]]
  OBVIOUS
<1>6. PICK g : g = [d |-> s, pos |-> q.pos]
  OBVIOUS
<1>7. LastTo(q, 1) = g
  <2>1. LastTo(q, 1) = [q EXCEPT !.d = s]
    BY <1>2, <1>5 DEF LastTo
  <2>2. PICK a, b : a = q.d /\ b = q.pos
    OBVIOUS
  <2>3. q = [d |-> a, pos |-> b]
    BY <1>3, <2>2
  <2>4. [q EXCEPT !.d = s] = [d |-> s, pos |-> b]
    BY <2>3
  <2> QED
    BY <1>6, <2>1, <2>2, <2>4
<1>8. /\ \A p \in 1 .. n : q.d[p] \in S
      /\ \A p, o \in 1 .. n : q.d[p] = q.d[o] => p = o
  BY <1>1, <1>2, QueueFacts
<1>9. 1 \in 1 .. n /\ n \in 1 .. n /\ 1 .. n - 1 \subseteq 1 .. n /\ n - 1 \in Nat
      /\ \A p \in 1 .. n : p \in 1 .. n - 1 \/ p = n
  BY <1>2
<1>10. s \in Seq(S) /\ Len(s) = n - 1 /\ DOMAIN s = 1 .. n - 1
  <2>1. s \in [1 .. n - 1 -> S]
    BY <1>5, <1>8, <1>9
  <2>2. DOMAIN s = 1 .. n - 1
    BY <1>5
  <2>3. PICK k \in Nat : k = n - 1
    BY <1>9
  <2>4. s \in [1 .. k -> S]
    BY <2>1, <2>3
  <2>5. s \in Seq(S) /\ Len(s) = k
    BY <2>4
  <2> QED
    BY <2>2, <2>3, <2>5
<1>11. Distinct(s)
  <2> SUFFICES ASSUME NEW p \in 1 .. n - 1, NEW o \in 1 .. n - 1, s[p] = s[o] PROVE p = o
    BY <1>10 DEF Distinct
  <2>1. p \in 1 .. n /\ o \in 1 .. n /\ p # n /\ o # n
    BY <1>2
  <2>2. /\ s[p] = (IF p = 1 THEN q.d[n] ELSE q.d[p])
        /\ s[o] = (IF o = 1 THEN q.d[n] ELSE q.d[o])
    BY <1>5
  <2>3. CASE p = 1 /\ o # 1
    BY <1>8, <1>9, <2>1, <2>2, <2>3
  <2>4. CASE p # 1 /\ o = 1
    BY <1>8, <1>9, <2>1, <2>2, <2>4
  <2>5. CASE p # 1 /\ o # 1
    BY <1>8, <2>1, <2>2, <2>5
  <2> QED
    BY <2>3, <2>4, <2>5
<1>12. Elems(s) = L \ {e}
  <2>1. ASSUME NEW x \in Elems(s) PROVE x \in L \ {e}
    <3>1. PICK p \in 1 .. n - 1 : x = s[p]
      BY <1>10, <2>1 DEF Elems
    <3>2. PICK o \in 1 .. n : x = q.d[o] /\ o # 1
      <4>1. CASE p = 1
        <5>1. x = q.d[n]
          BY <1>5, <3>1, <4>1
        <5>2. n # 1
          <6>1. p \in Int /\ 1 <= p /\ p <= n - 1
            OBVIOUS
          <6> QED
            BY ONLY <6>1
        <5> QED
          BY <1>9, <5>1, <5>2
      <4>2. CASE p # 1
        BY <1>5, <1>9, <3>1, <4>2
      <4> QED
        BY <4>1, <4>2
    <3>3. x # e
      BY <1>4, <1>8, <1>9, <3>2
    <3> QED
      BY <1>1, <1>2, <3>2, <3>3 DEF Elems
  <2>2. ASSUME NEW x \in L \ {e} PROVE x \in Elems(s)
    <3>1. PICK o \in 1 .. n : x = q.d[o]
      BY <1>1, <1>2, <2>2 DEF Elems
    <3>2. o # 1
      BY <1>4, <2>2, <3>1
    <3>3. CASE o = n
      <4>1. 1 \in 1 .. n - 1
        <5>1. n >= 1 /\ n # 1 /\ n \in Nat
          BY <1>2, <3>2, <3>3
        <5> QED
          BY ONLY <5>1
      <4>2. s[1] = x
        BY <1>5, <3>1, <3>3, <4>1
      <4> QED
        BY <1>10, <4>1, <4>2 DEF Elems
    <3>4. CASE o # n
      <4>1. o \in 1 .. n - 1
        BY <1>9, <3>4
      <4>2. s[o] = x
        BY <1>5, <3>1, <3>2, <4>1
      <4> QED
        BY <1>10, <4>1, <4>2 DEF Elems
    <3> QED
      BY <3>3, <3>4
  <2> QED
    BY <2>1, <2>2
<1>13. g.d = s /\ g.pos = q.pos
  BY <1>6
<1>14. IsQueue(S, g)
  <2>1. g \in Queues(S)
    BY <1>3, <1>6, <1>10 DEF Queues
  <2> QED
    BY <1>11, <1>13, <2>1 DEF IsQueue
<1>15. e \in L
  BY <1>1, <1>2, <1>4, <1>9 DEF Elems
<1>16. PICK h : h = pqueue_pop(q, pri)
  OBVIOUS
<1>17. CASE n = 1
  <2>1. h = g
    BY <1>2, <1>7, <1>16, <1>17 DEF pqueue_pop
  <2>2. DOMAIN s = {}
    BY <1>10, <1>17
  <2>3. pqueue_is_valid(g, pri) /\ PositionsRight(g)
    BY <1>13, <2>2 DEF pqueue_is_valid, PositionsRight
  <2>4. Ordered(S, h, pri, L \ {e}) /\ OthersKeep(S, q, h)
    BY <1>12, <1>13, <1>14, <2>1, <2>3 DEF Ordered, IsHeap, OthersKeep
  <2> QED
    BY <1>4, <1>15, <1>16, <2>4
<1>18. CASE n # 1
  <2>1. h = percolate_down(g, 1, pri)
    BY <1>2, <1>7, <1>16, <1>18 DEF pqueue_pop
  <2>2. DOMAIN g.d = 1 .. n - 1 /\ 1 \in DOMAIN g.d
    <3>1. n >= 1 /\ n # 1 /\ n \in Nat
      BY <1>2, <1>18
    <3>2. 1 \in 1 .. n - 1
      BY ONLY <3>1
    <3> QED
      BY <1>10, <1>13, <3>2
  <2>3. PICK v, w : v = Pris(q, pri) /\ w = Pris(g, pri)
    OBVIOUS
  <2>4. \A c \in 1 .. n : c > 1 => v[parent(c)] <= v[c]
    BY <1>1, <1>2, <2>3, PrisFacts
  <2>5. \A c \in 1 .. n - 1 : c # 1 => w[c] = v[c]
    <3> SUFFICES ASSUME NEW c \in 1 .. n - 1, c # 1 PROVE w[c] = v[c]
      OBVIOUS
    <3>1. c \in 1 .. n /\ s[c] = q.d[c]
      BY <1>5, <1>9
    <3>2. w[c] = pri[g.d[c]] /\ v[c] = pri[q.d[c]]
      BY <1>2, <2>2, <2>3, <3>1 DEF Pris
    <3> QED
      BY <1>13, <3>1, <3>2
  <2>6. ASSUME NEW c \in 1 .. n - 1, c > 1, parent(c) # 1 PROVE w[parent(c)] <= w[c]
    <3>1. c \in 1 .. n /\ parent(c) \in 1 .. n - 1
      BY <1>9, <2>6, Parents
    <3>2. c # 1
      BY <2>6
    <3>3. w[c] = v[c] /\ w[parent(c)] = v[parent(c)]
      BY <2>5, <2>6, <3>1, <3>2
    <3> QED
      BY <2>4, <2>6, <3>1, <3>3
  <2>7. HeapButBelow(DOMAIN g.d, w, 1)
    <3>1. ~(1 > 1)
      OBVIOUS
    <3> QED
      BY <2>2, <2>6, <3>1 DEF HeapButBelow
  <2>8. HeapOf(S, g, percolate_down(g, 1, pri), pri)
    BY <1>14, <2>2, <2>3, <2>7, SinkFacts
  <2>9. Ordered(S, h, pri, Elems(g.d)) /\ OthersKeep(S, g, h)
    <3>1. HeapOf(S, g, h, pri)
      BY <2>1, <2>8
    <3> QED
      BY <3>1, HeapOfFacts
  <2>10. Ordered(S, h, pri, L \ {e}) /\ OthersKeep(S, q, h)
    BY <1>12, <1>13, <2>9 DEF OthersKeep
  <2> QED
    BY <1>4, <1>15, <1>16, <2>10
<1> QED
  BY <1>17, <1>18

-----------------------------------------------------------------------------
(* Sequences and counts.                                                   *)

Statuses == {"FREE", "VALID", "INVALID"}

\* Pages of a line, at offsets O, that have status s.
Count(O, st, l, s) == Cardinality({i \in O : st[<<l, i>>] = s})

LEMMA TailElems ==
  ASSUME NEW S, NEW s \in Seq(S), s # <<>>, Distinct(s)
  PROVE  /\ Tail(s) \in Seq(S) /\ Head(s) \in S
         /\ Head(s) \in Elems(s)
         /\ Elems(Tail(s)) = Elems(s) \ {Head(s)}
         /\ Distinct(Tail(s))
<1>1. Len(s) \in Nat \ {0} /\ DOMAIN s = 1 .. Len(s)
  OBVIOUS
<1>2. /\ Tail(s) \in Seq(S) /\ Len(Tail(s)) = Len(s) - 1
      /\ DOMAIN Tail(s) = 1 .. Len(s) - 1
      /\ \A i \in 1 .. Len(s) - 1 : Tail(s)[i] = s[i + 1]
      /\ Head(s) = s[1]
  BY <1>1
<1>3. Head(s) \in S /\ Head(s) \in Elems(s)
  BY <1>1, <1>2 DEF Elems
<1>4. Distinct(Tail(s))
  BY <1>1, <1>2 DEF Distinct
<1>5. ASSUME NEW x \in Elems(Tail(s)) PROVE x \in Elems(s) \ {Head(s)}
  <2>1. PICK i \in 1 .. Len(s) - 1 : x = s[i + 1]
    BY <1>2, <1>5 DEF Elems
  <2> QED
    BY <2>1, <1>1, <1>2 DEF Elems, Distinct
<1>6. ASSUME NEW x \in Elems(s), x # Head(s) PROVE x \in Elems(Tail(s))
  <2>1. PICK i \in 1 .. Len(s) : x = s[i]
    BY <1>1 DEF Elems
  <2>2. i - 1 \in 1 .. Len(s) - 1 /\ Tail(s)[i - 1] = x
    BY <2>1, <1>1, <1>2, <1>6
  <2> QED
    BY <2>2, <1>2 DEF Elems
<1> QED
  BY <1>2, <1>3, <1>4, <1>5, <1>6

LEMMA AppendElems ==
  ASSUME NEW S, NEW s \in Seq(S), NEW x \in S, x \notin Elems(s), Distinct(s)
  PROVE  /\ Append(s, x) \in Seq(S)
         /\ Elems(Append(s, x)) = Elems(s) \cup {x}
         /\ Distinct(Append(s, x))
<1>1. /\ Len(s) \in Nat /\ DOMAIN s = 1 .. Len(s)
      /\ Append(s, x) \in Seq(S) /\ DOMAIN Append(s, x) = 1 .. Len(s) + 1
      /\ \A i \in 1 .. Len(s) : Append(s, x)[i] = s[i]
      /\ Append(s, x)[Len(s) + 1] = x
  OBVIOUS
<1>2. Distinct(Append(s, x))
  BY <1>1 DEF Distinct, Elems
<1>3. ASSUME NEW y \in Elems(Append(s, x)) PROVE y \in Elems(s) \cup {x}
  <2>1. PICK i \in 1 .. Len(s) + 1 : y = Append(s, x)[i]
    BY <1>1, <1>3 DEF Elems
  <2> QED
    BY <2>1, <1>1 DEF Elems
<1>4. ASSUME NEW y \in Elems(s) \cup {x} PROVE y \in Elems(Append(s, x))
  <2>1. CASE y = x
    BY <2>1, <1>1 DEF Elems
  <2>2. CASE y # x
    <3>1. PICK i \in 1 .. Len(s) : y = s[i]
      BY <2>2, <1>1, <1>4 DEF Elems
    <3> QED
      BY <3>1, <1>1 DEF Elems
  <2> QED
    BY <2>1, <2>2
<1> QED
  BY <1>1, <1>2, <1>3, <1>4

LEMMA CountType ==
  ASSUME NEW P \in Nat, NEW O, O = 0 .. P - 1, NEW st, NEW l, NEW s
  PROVE  Count(O, st, l, s) \in 0 .. P
<1> DEFINE T == {i \in O : st[<<l, i>>] = s}
<1>1. IsFiniteSet(O) /\ Cardinality(O) = P
  BY FS_Interval
<1>2. T \in SUBSET O
  OBVIOUS
<1>3. IsFiniteSet(T) /\ Cardinality(T) <= P
  BY <1>1, <1>2, FS_Subset
<1>4. Cardinality(T) \in Nat
  BY <1>3, FS_CardinalityType
<1> QED
  BY <1>3, <1>4 DEF Count

\* None or all of the pages of a line.
LEMMA CountExtremes ==
  ASSUME NEW P \in Nat, NEW O, O = 0 .. P - 1, NEW st, NEW l, NEW s
  PROVE  /\ Count(O, st, l, s) = 0 <=> \A i \in O : st[<<l, i>>] # s
         /\ Count(O, st, l, s) = P <=> \A i \in O : st[<<l, i>>] = s
<1> DEFINE T == {i \in O : st[<<l, i>>] = s}
<1>1. IsFiniteSet(O) /\ Cardinality(O) = P
  BY FS_Interval
<1>2. T \in SUBSET O /\ IsFiniteSet(T)
  <2>1. T \in SUBSET O
    OBVIOUS
  <2> HIDE DEF T
  <2> QED
    BY <2>1, <1>1, FS_Subset
<1>3. Cardinality(T) = 0 <=> T = {}
  BY <1>2, FS_EmptySet
<1>4. Cardinality(T) = P => T = O
  <2> HIDE DEF T
  <2> QED
    BY <1>1, <1>2, FS_Subset
<1>5. (\A i \in O : st[<<l, i>>] = s) => T = O
  OBVIOUS
<1>6. T = O => Cardinality(T) = P
  BY <1>1
<1>7. T = O => \A i \in O : st[<<l, i>>] = s
  OBVIOUS
<1>8. T = {} <=> \A i \in O : st[<<l, i>>] # s
  OBVIOUS
<1> QED
  BY <1>3, <1>4, <1>5, <1>6, <1>7, <1>8 DEF Count

\* Every page has one of three states.
LEMMA CountSum ==
  ASSUME NEW P \in Nat, NEW O, O = 0 .. P - 1, NEW st, NEW l,
         \A i \in O : st[<<l, i>>] \in Statuses
  PROVE  Count(O, st, l, "FREE") + Count(O, st, l, "VALID") + Count(O, st, l, "INVALID") = P
<1> DEFINE T(s) == {i \in O : st[<<l, i>>] = s}
<1>1. IsFiniteSet(O) /\ Cardinality(O) = P
  BY FS_Interval
<1>2. \A s : IsFiniteSet(T(s)) /\ Cardinality(T(s)) \in Nat
  <2>1. \A s : T(s) \in SUBSET O
    OBVIOUS
  <2> HIDE DEF T
  <2> QED
    BY <2>1, <1>1, FS_Subset, FS_CardinalityType
<1>3. O = T("FREE") \cup (T("VALID") \cup T("INVALID"))
  BY DEF Statuses
<1>4. /\ T("VALID") \cap T("INVALID") = {}
      /\ T("FREE") \cap (T("VALID") \cup T("INVALID")) = {}
  OBVIOUS
<1> DEFINE A == T("FREE")
           B == T("VALID")
           C == T("INVALID")
<1>5. Cardinality(A) + Cardinality(B) + Cardinality(C) = Cardinality(O)
  <2> HIDE DEF T
  <2>1. /\ IsFiniteSet(B \cup C)
        /\ Cardinality(B \cup C) = Cardinality(B) + Cardinality(C) - Cardinality(B \cap C)
    BY <1>2, FS_Union
  <2>2. Cardinality(A \cup (B \cup C))
          = Cardinality(A) + Cardinality(B \cup C) - Cardinality(A \cap (B \cup C))
    BY <1>2, <2>1, FS_Union DEF A
  <2>3. Cardinality({}) = 0
    BY FS_EmptySet
  <2> HIDE DEF A, B, C
  <2>4. A \cap (B \cup C) = {} /\ B \cap C = {} /\ O = A \cup (B \cup C)
    BY <1>3, <1>4 DEF A, B, C
  <2>5. Cardinality(A) \in Nat /\ Cardinality(B) \in Nat /\ Cardinality(C) \in Nat
    BY <1>2 DEF A, B, C
  <2>6. Cardinality(B \cap C) = 0 /\ Cardinality(A \cap (B \cup C)) = 0
    BY <2>3, <2>4, Zenon
  <2>7. Cardinality(A \cup (B \cup C)) = Cardinality(O)
    BY <2>4, Zenon
  <2> QED
    BY <2>1, <2>2, <2>5, <2>6, <2>7
<1> QED
  BY <1>1, <1>5 DEF Count

\* Only the pages of a line count for it.
LEMMA CountSame ==
  ASSUME NEW O, NEW st, NEW st2, NEW l, NEW s, \A i \in O : st2[<<l, i>>] = st[<<l, i>>]
  PROVE  Count(O, st2, l, s) = Count(O, st, l, s)
<1>1. {i \in O : st2[<<l, i>>] = s} = {i \in O : st[<<l, i>>] = s}
  OBVIOUS
<1> QED
  BY <1>1 DEF Count

\* Of the pages of line l at offsets O, the one at o alone goes to state v.
Moves(O, st, st2, l, o, v) ==
  /\ o \in O /\ st[<<l, o>>] # v /\ st2[<<l, o>>] = v
  /\ \A i \in O \ {o} : st2[<<l, i>>] = st[<<l, i>>]

LEMMA CountMoves ==
  ASSUME NEW P \in Nat, NEW O, O = 0 .. P - 1, NEW st, NEW st2, NEW l, NEW o, NEW v,
         Moves(O, st, st2, l, o, v)
  PROVE  /\ Count(O, st2, l, v) = Count(O, st, l, v) + 1
         /\ Count(O, st2, l, st[<<l, o>>]) = Count(O, st, l, st[<<l, o>>]) - 1
         /\ \A s : s # v /\ s # st[<<l, o>>] => Count(O, st2, l, s) = Count(O, st, l, s)
<1> DEFINE r == st[<<l, o>>]
           T(s) == {i \in O : st[<<l, i>>] = s}
           U(s) == {i \in O : st2[<<l, i>>] = s}
<1>1. \A s : IsFiniteSet(T(s)) /\ Cardinality(T(s)) \in Nat
  <2>1. \A s : T(s) \in SUBSET O
    OBVIOUS
  <2>2. IsFiniteSet(O)
    BY FS_Interval
  <2> HIDE DEF T
  <2> QED
    BY <2>1, <2>2, FS_Subset, FS_CardinalityType
<1>2. U(v) = T(v) \cup {o} /\ o \notin T(v)
  BY DEF Moves
<1>3. U(r) = T(r) \ {o} /\ o \in T(r)
  BY DEF Moves
<1>4. \A s : s # v /\ s # r => U(s) = T(s)
  BY DEF Moves
<1> HIDE DEF T, U
<1>5. Cardinality(U(v)) = Cardinality(T(v)) + 1
  BY <1>1, <1>2, FS_AddElement
<1>6. Cardinality(U(r)) = Cardinality(T(r)) - 1
  BY <1>1, <1>3, FS_RemoveElement
<1>7. \A s : Count(O, st, l, s) = Cardinality(T(s)) /\ Count(O, st2, l, s) = Cardinality(U(s))
  BY DEF Count, T, U
<1> QED
  BY <1>4, <1>5, <1>6, <1>7

\* What is used of the sizes.
Geometry ==
  /\ PgsPerLine \in Nat \ {0} /\ Offs = 0 .. PgsPerLine - 1 /\ 0 \in Offs
  /\ NrLines \in Nat /\ Lines = 0 .. NrLines - 1 /\ Lines \subseteq Nat
  /\ 0 \in Lines /\ 1 \in Lines
  /\ \A p \in Pages : p[1] \in Lines /\ p[2] \in Offs /\ p = <<p[1], p[2]>>
  /\ \A l \in Lines, o \in Offs : <<l, o>> \in Pages
  /\ UNMAPPED_PPA \notin Pages /\ NoPage = UNMAPPED_PPA /\ NoPage \notin Pages
  /\ INVALID_LPN \notin Lpns

LEMMA GeometryHolds == Geometry
<1>1. PgsPerLine \in Nat \ {0} /\ NrLines \in Nat \ {0, 1} /\ INVALID_LPN \notin Lpns
  BY GeometryAssumption
<1>2. Offs = 0 .. PgsPerLine - 1 /\ 0 \in Offs /\ Lines = 0 .. NrLines - 1 /\ Lines \subseteq Nat
      /\ 0 \in Lines /\ 1 \in Lines
  BY <1>1 DEF Offs, Lines
<1>3. \A p \in Pages : p[1] \in Lines /\ p[2] \in Offs /\ p = <<p[1], p[2]>>
  BY DEF Pages
<1>4. \A l \in Lines, o \in Offs : <<l, o>> \in Pages
  BY DEF Pages
<1>5. UNMAPPED_PPA \notin Pages
  <2> SUFFICES ASSUME UNMAPPED_PPA \in Pages PROVE FALSE
    OBVIOUS
  <2>1. UNMAPPED_PPA[1] \in Lines /\ UNMAPPED_PPA[1] = -1
    BY <1>3 DEF UNMAPPED_PPA
  <2> QED
    BY <1>2, <2>1
<1> QED
  BY <1>1, <1>2, <1>3, <1>4, <1>5 DEF Geometry, NoPage

\* Of all pages, p goes to another state v.
Turns(st, st2, p, v) == st[p] # v /\ st2 = [st EXCEPT ![p] = v]

\* The counts of its line change, of no other.
LEMMA CountPage ==
  ASSUME Geometry, NEW st \in [Pages -> Statuses], NEW p \in Pages, NEW v \in Statuses,
         NEW st2, Turns(st, st2, p, v), NEW l \in Lines
  PROVE  /\ l # p[1] => \A s : Count(Offs, st2, l, s) = Count(Offs, st, l, s)
         /\ l = p[1] => /\ Count(Offs, st2, l, v) = Count(Offs, st, l, v) + 1
                        /\ Count(Offs, st2, l, st[p]) = Count(Offs, st, l, st[p]) - 1
                        /\ \A s : s # v /\ s # st[p] =>
                             Count(Offs, st2, l, s) = Count(Offs, st, l, s)
<1>1. /\ PgsPerLine \in Nat /\ Offs = 0 .. PgsPerLine - 1
      /\ p[1] \in Lines /\ p[2] \in Offs /\ p = <<p[1], p[2]>>
      /\ \A i \in Offs : <<l, i>> \in Pages
  BY DEF Geometry
<1>2. st[p] # v /\ st2[p] = v /\ \A q \in Pages : q # p => st2[q] = st[q]
  BY DEF Turns
<1>3. CASE l # p[1]
  <2>1. \A i \in Offs : st2[<<l, i>>] = st[<<l, i>>]
    <3> SUFFICES ASSUME NEW i \in Offs PROVE st2[<<l, i>>] = st[<<l, i>>]
      OBVIOUS
    <3>1. <<l, i>> # p
      BY <1>1, <1>3
    <3> QED
      BY <1>1, <1>2, <3>1
  <2> QED
    BY <1>3, <2>1, CountSame
<1>4. CASE l = p[1]
  <2> DEFINE o == p[2]
  <2>1. o \in Offs /\ st[<<l, o>>] = st[p] /\ st2[<<l, o>>] = v /\ st[<<l, o>>] # v
    BY <1>1, <1>2, <1>4
  <2>2. \A i \in Offs \ {o} : st2[<<l, i>>] = st[<<l, i>>]
    <3> SUFFICES ASSUME NEW i \in Offs \ {o} PROVE st2[<<l, i>>] = st[<<l, i>>]
      OBVIOUS
    <3>1. <<l, i>> # p
      BY <1>1
    <3> QED
      BY <1>1, <1>2, <3>1
  <2> HIDE DEF o
  <2>3. Moves(Offs, st, st2, l, o, v)
    BY <2>1, <2>2 DEF Moves
  <2>4. /\ Count(Offs, st2, l, v) = Count(Offs, st, l, v) + 1
        /\ Count(Offs, st2, l, st[<<l, o>>]) = Count(Offs, st, l, st[<<l, o>>]) - 1
        /\ \A s : s # v /\ s # st[<<l, o>>] => Count(Offs, st2, l, s) = Count(Offs, st, l, s)
    BY <1>1, <2>3, CountMoves
  <2> QED
    BY <1>4, <2>1, <2>4
<1> QED
  BY <1>3, <1>4

\* What counts say of a line.
LEMMA CountFacts ==
  ASSUME Geometry, NEW st \in [Pages -> Statuses], NEW l \in Lines
  PROVE  /\ Count(Offs, st, l, "FREE") + Count(Offs, st, l, "VALID")
              + Count(Offs, st, l, "INVALID") = PgsPerLine
         /\ \A s : /\ Count(Offs, st, l, s) \in 0 .. PgsPerLine
                   /\ Count(Offs, st, l, s) = 0 <=> \A o \in Offs : st[<<l, o>>] # s
                   /\ Count(Offs, st, l, s) = PgsPerLine <=> \A o \in Offs : st[<<l, o>>] = s
<1>1. /\ PgsPerLine \in Nat /\ Offs = 0 .. PgsPerLine - 1
      /\ \A i \in Offs : st[<<l, i>>] \in Statuses
  BY DEF Geometry
<1>2. Count(Offs, st, l, "FREE") + Count(Offs, st, l, "VALID")
        + Count(Offs, st, l, "INVALID") = PgsPerLine
  BY <1>1, CountSum
<1>3. \A s : /\ Count(Offs, st, l, s) \in 0 .. PgsPerLine
             /\ Count(Offs, st, l, s) = 0 <=> \A o \in Offs : st[<<l, o>>] # s
             /\ Count(Offs, st, l, s) = PgsPerLine <=> \A o \in Offs : st[<<l, o>>] = s
  BY <1>1, CountType, CountExtremes
<1> QED
  BY <1>2, <1>3

-----------------------------------------------------------------------------
(* The inductive invariant.                                                *)
(*                                                                         *)
(* A write changes tables, counts and lists in two parts, the old page and *)
(* the new one (After, PutPage).  What is said of the lines is therefore   *)
(* said of counts vp and ip, lists fr and fu, queue q, write pointers wps, *)
(* lines gc being collected and page states st, whatever they are.         *)

Spots == {"free", "full", "queue", "collected", "USER", "GC"}

\* Line l is at spot at[l] and nowhere else.
Sited(at, fr, fu, q, wps, gc) ==
  /\ at \in [Lines -> Spots]
  /\ Distinct(fr)
  /\ \A l \in Lines : /\ l \in Elems(fr) <=> at[l] = "free"
                      /\ l \in fu <=> at[l] = "full"
                      /\ l \in Elems(q.d) <=> at[l] = "queue"
                      /\ l \in gc <=> at[l] = "collected"
                      /\ \A w \in Writers : (wps[w] # NoPage /\ wps[w][1] = l) <=> at[l] = w

\* What its place says of the pages of a line: write pointers go through their
\* lines in order, and a line they have left has lost a page or has not.
PagesOK(at, st, wps) ==
  \A l \in Lines, o \in Offs :
    /\ at[l] = "free" => st[<<l, o>>] = "FREE"
    /\ at[l] \in Writers => (st[<<l, o>>] = "FREE" <=> o >= wps[at[l]][2])
    /\ at[l] = "full" => st[<<l, o>>] = "VALID"
    /\ at[l] \in {"queue", "collected"} => st[<<l, o>>] # "FREE"

LostPages(at, st) ==
  \A l \in Lines : at[l] \in {"queue", "collected"} => \E o \in Offs : st[<<l, o>>] = "INVALID"

\* The counters are those of the pages.
Counted(st, vp, ip) ==
  /\ vp = [l \in Lines |-> Count(Offs, st, l, "VALID")]
  /\ ip = [l \in Lines |-> Count(Offs, st, l, "INVALID")]

\* The queue is a heap by valid pages, and pos says who is in it.
QueueOK(q, vp) ==
  /\ Ordered(Lines, q, vp, Elems(q.d))
  /\ \A l \in Lines : l \notin Elems(q.d) => q.pos[l] = 0

LayoutTypes(st, fr, fu, wps, gc) ==
  /\ st \in [Pages -> Statuses] /\ fr \in Seq(Lines) /\ fu \subseteq Lines
  /\ wps \in [Writers -> Pages \cup {NoPage}] /\ gc \subseteq Lines

Layout(at, st, vp, ip, fr, fu, q, wps, gc) ==
  /\ LayoutTypes(st, fr, fu, wps, gc)
  /\ Sited(at, fr, fu, q, wps, gc)
  /\ PagesOK(at, st, wps) /\ LostPages(at, st)
  /\ Counted(st, vp, ip) /\ QueueOK(q, vp)

LaidOut(st, vp, ip, fr, fu, q, wps, gc) ==
  \E at : Layout(at, st, vp, ip, fr, fu, q, wps, gc)

GcLines == IF job.kind = "gc" THEN {job.at[1]} ELSE {}

LinesOK == LaidOut(status, vpc, ipc, free, full, victim_pq, wp, GcLines)

\* Where a logical page is mapped is valid and not yet moved, and a valid page
\* that was not moved is mapped there.
Agree(mt, rm, st, moved) ==
  /\ \A lpn \in Lpns : mt[lpn] \in Pages =>
       st[mt[lpn]] = "VALID" /\ rm[mt[lpn]] = lpn /\ mt[lpn] \notin moved
  /\ \A p \in Pages : st[p] = "VALID" /\ p \notin moved => rm[p] \in Lpns /\ mt[rm[p]] = p

MovedPages == {p \in Pages : Moved(p)}

TablesOK ==
  /\ maptbl \in [Lpns -> Pages \cup {UNMAPPED_PPA}]
  /\ rmap \in [Pages -> Lpns \cup {INVALID_LPN}]
  /\ Agree(maptbl, rmap, status, MovedPages)

\* Credits are out exactly while a collection is due or going on.
FlowOK ==
  /\ credits \in 0 .. PgsPerLine /\ refill \in 1 .. PgsPerLine
  /\ credits = 0 <=> job.kind # "idle"
  /\ halted \in BOOLEAN
  /\ job \in [kind : {"idle", "collect", "gc"}, at : Lines \X (0 .. PgsPerLine) \cup {NoPage}]
  /\ job.kind = "gc" => job.at \in Lines \X (0 .. PgsPerLine)
  /\ ~halted => \A w \in Writers : wp[w] # NoPage

ConvInv == LinesOK /\ TablesOK /\ FlowOK

-----------------------------------------------------------------------------
(* Counts and the queue when a page of a line turns.                       *)

\* The counters stay in range.
LEMMA CountedTypes ==
  ASSUME NEW st \in [Pages -> Statuses], NEW vp, NEW ip, Counted(st, vp, ip)
  PROVE  /\ vp \in [Lines -> 0 .. PgsPerLine] /\ ip \in [Lines -> 0 .. PgsPerLine]
         /\ vp \in [Lines -> Nat] /\ ip \in [Lines -> Nat]
<1>1. \A l \in Lines : \A s : Count(Offs, st, l, s) \in 0 .. PgsPerLine
  BY GeometryHolds, CountFacts
<1>2. PgsPerLine \in Nat
  BY GeometryHolds DEF Geometry
<1>3. \A n \in 0 .. PgsPerLine : n \in Nat
  BY <1>2
<1> QED
  BY <1>1, <1>3 DEF Counted

LEMMA CountedLine ==
  ASSUME NEW st \in [Pages -> Statuses], NEW vp, NEW ip, Counted(st, vp, ip), NEW l \in Lines
  PROVE  /\ vp[l] = 0 <=> \A o \in Offs : st[<<l, o>>] # "VALID"
         /\ vp[l] = PgsPerLine <=> \A o \in Offs : st[<<l, o>>] = "VALID"
         /\ ip[l] = 0 <=> \A o \in Offs : st[<<l, o>>] # "INVALID"
         /\ vp[l] + ip[l] <= PgsPerLine
         /\ (\A o \in Offs : st[<<l, o>>] # "FREE") => vp[l] + ip[l] = PgsPerLine
         /\ vp[l] \in Nat /\ ip[l] \in Nat
<1> DEFINE C(s) == Count(Offs, st, l, s)
<1>1. /\ C("FREE") + C("VALID") + C("INVALID") = PgsPerLine
      /\ \A s : /\ C(s) \in 0 .. PgsPerLine
                /\ C(s) = 0 <=> \A o \in Offs : st[<<l, o>>] # s
                /\ C(s) = PgsPerLine <=> \A o \in Offs : st[<<l, o>>] = s
  BY GeometryHolds, CountFacts
<1>2. vp[l] = C("VALID") /\ ip[l] = C("INVALID")
  BY DEF Counted
<1>3. PgsPerLine \in Nat
  BY GeometryHolds DEF Geometry
<1> HIDE DEF C
<1>4. C("FREE") \in 0 .. PgsPerLine /\ C("VALID") \in 0 .. PgsPerLine /\ C("INVALID") \in 0 .. PgsPerLine
  BY <1>1
<1>5. C("FREE") \in Nat /\ C("VALID") \in Nat /\ C("INVALID") \in Nat
  BY <1>3, <1>4
<1>6. vp[l] + ip[l] <= PgsPerLine /\ vp[l] \in Nat /\ ip[l] \in Nat
  BY <1>1, <1>2, <1>3, <1>5
<1>7. C("FREE") = 0 => vp[l] + ip[l] = PgsPerLine
  BY <1>1, <1>2, <1>3, <1>5
<1>8. C("FREE") = 0 <=> \A o \in Offs : st[<<l, o>>] # "FREE"
  BY <1>1
<1>9. /\ vp[l] = 0 <=> \A o \in Offs : st[<<l, o>>] # "VALID"
      /\ vp[l] = PgsPerLine <=> \A o \in Offs : st[<<l, o>>] = "VALID"
      /\ ip[l] = 0 <=> \A o \in Offs : st[<<l, o>>] # "INVALID"
  BY <1>1, <1>2
<1> QED
  BY <1>6, <1>7, <1>8, <1>9

\* mark_page_invalid, on counters.
LEMMA CountInvalid ==
  ASSUME NEW st \in [Pages -> Statuses], NEW vp, NEW ip, Counted(st, vp, ip),
         NEW p \in Pages, st[p] = "VALID"
  PROVE  Counted([st EXCEPT ![p] = "INVALID"], [vp EXCEPT ![p[1]] = @ - 1], [ip EXCEPT ![p[1]] = @ + 1])
<1>1. PICK st2, vp2, ip2 : /\ st2 = [st EXCEPT ![p] = "INVALID"]
                           /\ vp2 = [vp EXCEPT ![p[1]] = @ - 1]
                           /\ ip2 = [ip EXCEPT ![p[1]] = @ + 1]
  OBVIOUS
<1>2. p[1] \in Lines /\ Turns(st, st2, p, "INVALID")
  BY <1>1, GeometryHolds DEF Geometry, Turns
<1>3. /\ vp = [l \in Lines |-> Count(Offs, st, l, "VALID")]
      /\ ip = [l \in Lines |-> Count(Offs, st, l, "INVALID")]
  BY DEF Counted
<1>4. ASSUME NEW l \in Lines
      PROVE  vp2[l] = Count(Offs, st2, l, "VALID") /\ ip2[l] = Count(Offs, st2, l, "INVALID")
  <2>1. "INVALID" \in Statuses
    BY DEF Statuses
  <2>2. /\ l # p[1] => \A s : Count(Offs, st2, l, s) = Count(Offs, st, l, s)
        /\ l = p[1] => /\ Count(Offs, st2, l, "INVALID") = Count(Offs, st, l, "INVALID") + 1
                       /\ Count(Offs, st2, l, st[p]) = Count(Offs, st, l, st[p]) - 1
    BY <1>2, <2>1, GeometryHolds, CountPage
  <2>3. CASE l = p[1]
    BY <1>1, <1>3, <2>2, <2>3
  <2>4. CASE l # p[1]
    BY <1>1, <1>3, <2>2, <2>4
  <2> QED
    BY <2>3, <2>4
<1>5. vp2 = [l \in Lines |-> vp2[l]] /\ ip2 = [l \in Lines |-> ip2[l]]
  BY <1>1, <1>3
<1>6. /\ [l \in Lines |-> vp2[l]] = [l \in Lines |-> Count(Offs, st2, l, "VALID")]
      /\ [l \in Lines |-> ip2[l]] = [l \in Lines |-> Count(Offs, st2, l, "INVALID")]
  BY <1>4
<1> QED
  BY <1>1, <1>5, <1>6 DEF Counted

\* mark_page_valid, on counters.
LEMMA CountValid ==
  ASSUME NEW st \in [Pages -> Statuses], NEW vp, NEW ip, Counted(st, vp, ip),
         NEW p \in Pages, st[p] = "FREE"
  PROVE  Counted([st EXCEPT ![p] = "VALID"], [vp EXCEPT ![p[1]] = @ + 1], ip)
<1>1. PICK st2, vp2 : /\ st2 = [st EXCEPT ![p] = "VALID"]
                      /\ vp2 = [vp EXCEPT ![p[1]] = @ + 1]
  OBVIOUS
<1>2. p[1] \in Lines /\ Turns(st, st2, p, "VALID")
  BY <1>1, GeometryHolds DEF Geometry, Turns
<1>3. /\ vp = [l \in Lines |-> Count(Offs, st, l, "VALID")]
      /\ ip = [l \in Lines |-> Count(Offs, st, l, "INVALID")]
  BY DEF Counted
<1>4. ASSUME NEW l \in Lines
      PROVE  vp2[l] = Count(Offs, st2, l, "VALID") /\ ip[l] = Count(Offs, st2, l, "INVALID")
  <2>1. "VALID" \in Statuses /\ "INVALID" # "VALID" /\ "INVALID" # st[p]
    BY DEF Statuses
  <2>2. /\ l # p[1] => \A s : Count(Offs, st2, l, s) = Count(Offs, st, l, s)
        /\ l = p[1] => /\ Count(Offs, st2, l, "VALID") = Count(Offs, st, l, "VALID") + 1
                       /\ \A s : s # "VALID" /\ s # st[p] =>
                            Count(Offs, st2, l, s) = Count(Offs, st, l, s)
    BY <1>2, <2>1, GeometryHolds, CountPage
  <2>3. CASE l = p[1]
    BY <1>1, <1>3, <2>1, <2>2, <2>3
  <2>4. CASE l # p[1]
    BY <1>1, <1>3, <2>2, <2>4
  <2> QED
    BY <2>3, <2>4
<1>5. vp2 = [l \in Lines |-> vp2[l]] /\ ip = [l \in Lines |-> ip[l]]
  BY <1>1, <1>3
<1>6. /\ [l \in Lines |-> vp2[l]] = [l \in Lines |-> Count(Offs, st2, l, "VALID")]
      /\ [l \in Lines |-> ip[l]] = [l \in Lines |-> Count(Offs, st2, l, "INVALID")]
  BY <1>4
<1> QED
  BY <1>1, <1>5, <1>6 DEF Counted

\* Only the priorities of the lines in the queue matter for it.
SamePris(q, vp, vp2) == \A l \in Lines : l \in Elems(q.d) => vp2[l] = vp[l]

LEMMA SameQueue ==
  ASSUME NEW q, NEW vp, NEW vp2, QueueOK(q, vp), SamePris(q, vp, vp2)
  PROVE  QueueOK(q, vp2)
<1>1. IsQueue(Lines, q) /\ pqueue_is_valid(q, vp) /\ PositionsRight(q)
  BY DEF QueueOK, Ordered, IsHeap
<1>2. PICK n \in Nat : n = Len(q.d) /\ DOMAIN q.d = 1 .. n
  BY <1>1, QueueFacts
<1>3. \A p \in 1 .. n : vp2[q.d[p]] = vp[q.d[p]]
  BY <1>1, <1>2, QueueFacts DEF Elems, SamePris
<1>4. \A c \in 1 .. n : c > 1 => parent(c) \in 1 .. n
  BY <1>2, Parents
<1>5. pqueue_is_valid(q, vp2)
  BY <1>1, <1>2, <1>3, <1>4 DEF pqueue_is_valid
<1> QED
  BY <1>1, <1>5 DEF QueueOK, Ordered, IsHeap

\* In the queue, with a position; outside, with none.
LEMMA PosIs ==
  ASSUME NEW q, NEW vp, QueueOK(q, vp), NEW l \in Lines
  PROVE  q.pos[l] # 0 <=> l \in Elems(q.d)
<1>1. IsQueue(Lines, q) /\ PositionsRight(q)
  BY DEF QueueOK, Ordered, IsHeap
<1>2. PICK n \in Nat : n = Len(q.d) /\ DOMAIN q.d = 1 .. n
  BY <1>1, QueueFacts
<1>3. ASSUME l \in Elems(q.d) PROVE q.pos[l] # 0
  <2>1. PICK p \in 1 .. n : q.d[p] = l
    BY <1>2, <1>3 DEF Elems
  <2> QED
    BY <1>1, <1>2, <2>1 DEF PositionsRight
<1> QED
  BY <1>3 DEF QueueOK

\* A line enters the queue.
LEMMA QueueInsert ==
  ASSUME NEW q, NEW vp \in [Lines -> Nat], QueueOK(q, vp), NEW l \in Lines, l \notin Elems(q.d)
  PROVE  /\ QueueOK(pqueue_insert(q, l, vp), vp)
         /\ Elems(pqueue_insert(q, l, vp).d) = Elems(q.d) \cup {l}
<1>1. PICK h : h = pqueue_insert(q, l, vp)
  OBVIOUS
<1>2. Ordered(Lines, q, vp, Elems(q.d)) /\ \A x \in Lines : x \notin Elems(q.d) => q.pos[x] = 0
  BY DEF QueueOK
<1>3. PICK L : L = Elems(q.d)
  OBVIOUS
<1>4. Ordered(Lines, h, vp, L \cup {l}) /\ OthersKeep(Lines, q, h)
  BY <1>1, <1>2, <1>3, InsertHeap
<1>5. Elems(h.d) = L \cup {l} /\ Ordered(Lines, h, vp, Elems(h.d))
  BY <1>4 DEF Ordered
<1>6. \A x \in Lines : x \notin Elems(h.d) => h.pos[x] = 0
  BY <1>2, <1>3, <1>4, <1>5 DEF OthersKeep
<1> QED
  BY <1>1, <1>3, <1>5, <1>6 DEF QueueOK

\* But for line l the counts are the same.
OnlyLine(l, vp, vp2) == \A x \in Lines : x # l => vp2[x] = vp[x]

\* A line of the queue loses a page.
LEMMA QueueChange ==
  ASSUME NEW q, NEW vp \in [Lines -> Nat], QueueOK(q, vp), NEW l \in Elems(q.d), l \in Lines,
         NEW vp2 \in [Lines -> Nat], OnlyLine(l, vp, vp2)
  PROVE  /\ QueueOK(pqueue_change_priority(q, l, vp[l], vp2), vp2)
         /\ Elems(pqueue_change_priority(q, l, vp[l], vp2).d) = Elems(q.d)
<1>1. PICK h : h = pqueue_change_priority(q, l, vp[l], vp2)
  OBVIOUS
<1>2. Ordered(Lines, q, vp, Elems(q.d)) /\ \A x \in Lines : x \notin Elems(q.d) => q.pos[x] = 0
  BY DEF QueueOK
<1>3. PICK L : L = Elems(q.d)
  OBVIOUS
<1>4. Ordered(Lines, h, vp2, L) /\ OthersKeep(Lines, q, h)
  BY <1>1, <1>2, <1>3, ChangeHeap DEF OnlyLine
<1>5. Elems(h.d) = L /\ Ordered(Lines, h, vp2, Elems(h.d))
  BY <1>4 DEF Ordered
<1>6. \A x \in Lines : x \notin Elems(h.d) => h.pos[x] = 0
  BY <1>2, <1>3, <1>4, <1>5 DEF OthersKeep
<1> QED
  BY <1>1, <1>3, <1>5, <1>6 DEF QueueOK

\* The victim leaves the queue and forgets its position.
Popped(q, vp, v, h) == v = pqueue_peek(q) /\ h = [pqueue_pop(q, vp) EXCEPT !.pos[v] = 0]

LEMMA QueuePop ==
  ASSUME NEW q, NEW vp \in [Lines -> Nat], QueueOK(q, vp), q.d # <<>>,
         NEW v, NEW h, Popped(q, vp, v, h)
  PROVE  /\ v \in Elems(q.d) /\ v \in Lines
         /\ QueueOK(h, vp) /\ Elems(h.d) = Elems(q.d) \ {v}
<1>1. PICK g : g = pqueue_pop(q, vp)
  OBVIOUS
<1>2. Ordered(Lines, q, vp, Elems(q.d)) /\ \A x \in Lines : x \notin Elems(q.d) => q.pos[x] = 0
  BY DEF QueueOK
<1>3. PICK L : L = Elems(q.d)
  OBVIOUS
<1>4. v \in L /\ Ordered(Lines, g, vp, L \ {v}) /\ OthersKeep(Lines, q, g)
  BY <1>1, <1>2, <1>3, PopHeap DEF Popped
<1>5. /\ IsQueue(Lines, g) /\ pqueue_is_valid(g, vp) /\ PositionsRight(g) /\ Elems(g.d) = L \ {v}
  BY <1>4 DEF Ordered, IsHeap
<1>6. /\ g.pos \in [Lines -> Nat] /\ g = [d |-> g.d, pos |-> g.pos] /\ Distinct(g.d)
      /\ g.d \in Seq(Lines)
  BY <1>5 DEF IsQueue, Queues
<1>7. PICK a, b : a = g.d /\ b = g.pos
  OBVIOUS
<1>8. h = [d |-> a, pos |-> [b EXCEPT ![v] = 0]]
  BY <1>1, <1>6, <1>7 DEF Popped
<1>9. v \in Lines
  <2>1. IsQueue(Lines, q)
    BY <1>2 DEF Ordered, IsHeap
  <2>2. PICK n \in Nat : n = Len(q.d) /\ DOMAIN q.d = 1 .. n
    BY <2>1, QueueFacts
  <2>3. \A p \in 1 .. n : q.d[p] \in Lines
    BY <2>1, <2>2, QueueFacts
  <2> QED
    BY <1>3, <1>4, <2>2, <2>3 DEF Elems
<1>10. h.d = g.d /\ h.pos = [b EXCEPT ![v] = 0] /\ h.pos \in [Lines -> Nat]
  <2>1. h.d = a /\ h.pos = [b EXCEPT ![v] = 0]
    <3>1. PICK c : c = [b EXCEPT ![v] = 0]
      OBVIOUS
    <3>2. h = [d |-> a, pos |-> c]
      BY <1>8, <3>1
    <3>3. h.d = a /\ h.pos = c
      BY ONLY <3>2
    <3> QED
      BY <3>1, <3>3
  <2>2. [b EXCEPT ![v] = 0] \in [Lines -> Nat]
    BY <1>6, <1>7
  <2> QED
    BY <1>7, <2>1, <2>2
<1>11. IsQueue(Lines, h)
  <2>1. h \in Queues(Lines)
    <3>1. PICK c : c = [b EXCEPT ![v] = 0] /\ c \in [Lines -> Nat]
      BY <1>10
    <3>2. h = [d |-> a, pos |-> c]
      BY <1>8, <3>1
    <3>3. a \in Seq(Lines)
      BY <1>6, <1>7
    <3> QED
      BY ONLY <3>1, <3>2, <3>3 DEF Queues
  <2> QED
    BY <1>6, <1>10, <2>1 DEF IsQueue
<1>12. pqueue_is_valid(h, vp)
  BY <1>5, <1>10 DEF pqueue_is_valid
<1>13. \A i \in DOMAIN g.d : g.d[i] # v /\ g.d[i] \in Lines
  <2>1. \A i \in DOMAIN g.d : g.d[i] \in Lines
    BY <1>6
  <2> QED
    BY <1>5, <2>1 DEF Elems
<1>14. PositionsRight(h)
  <2> SUFFICES ASSUME NEW i \in DOMAIN g.d PROVE h.pos[g.d[i]] = i
    BY <1>10 DEF PositionsRight
  <2>1. g.pos[g.d[i]] = i
    BY <1>5 DEF PositionsRight
  <2>2. g.d[i] # v /\ g.d[i] \in Lines
    BY <1>13
  <2> QED
    BY <1>6, <1>7, <1>10, <2>1, <2>2
<1>15. \A x \in Lines : x \notin Elems(h.d) => h.pos[x] = 0
  <2> SUFFICES ASSUME NEW x \in Lines, x \notin Elems(g.d) PROVE h.pos[x] = 0
    BY <1>10
  <2>1. CASE x = v
    BY <1>6, <1>7, <1>9, <1>10, <2>1
  <2>2. CASE x # v
    <3>1. g.pos[x] = 0
      BY <1>2, <1>3, <1>4, <1>5, <2>2 DEF OthersKeep
    <3> QED
      BY <1>6, <1>7, <1>10, <2>2, <3>1
  <2> QED
    BY <2>1, <2>2
<1>16. Elems(h.d) = Elems(q.d) \ {v}
  BY <1>3, <1>5, <1>10
<1> QED
  BY <1>3, <1>4, <1>9, <1>11, <1>12, <1>14, <1>15, <1>16 DEF QueueOK, Ordered, IsHeap

-----------------------------------------------------------------------------
(* How a page or a line changes its place.                                 *)

\* mark_page_invalid of page p of line l.
Invalidated(st, st2, vp, vp2, ip, ip2, fu, fu2, q, q2, p, l) ==
  /\ st2 = [st EXCEPT ![p] = "INVALID"]
  /\ vp2 = [vp EXCEPT ![l] = @ - 1] /\ ip2 = [ip EXCEPT ![l] = @ + 1]
  /\ fu2 = fu \ {l}
  /\ q2 = IF q.pos[l] # 0 THEN pqueue_change_priority(q, l, vp[l], vp2)
          ELSE IF vp[l] = PgsPerLine THEN pqueue_insert(q, l, vp2) ELSE q

\* The old page of a logical page is given up (After, QueueAfterInvalid).
LEMMA InvalidateKeeps ==
  ASSUME NEW at, NEW st, NEW vp, NEW ip, NEW fr, NEW fu, NEW q, NEW wps,
         Layout(at, st, vp, ip, fr, fu, q, wps, {}),
         NEW p \in Pages, st[p] = "VALID", NEW l, l = p[1],
         NEW st2, NEW vp2, NEW ip2, NEW fu2, NEW q2,
         Invalidated(st, st2, vp, vp2, ip, ip2, fu, fu2, q, q2, p, l)
  PROVE  LaidOut(st2, vp2, ip2, fr, fu2, q2, wps, {})
<1>0. /\ st2 = [st EXCEPT ![p] = "INVALID"]
      /\ vp2 = [vp EXCEPT ![l] = @ - 1] /\ ip2 = [ip EXCEPT ![l] = @ + 1]
      /\ fu2 = fu \ {l}
      /\ q2 = IF q.pos[l] # 0 THEN pqueue_change_priority(q, l, vp[l], vp2)
              ELSE IF vp[l] = PgsPerLine THEN pqueue_insert(q, l, vp2) ELSE q
  BY DEF Invalidated
<1>1. /\ LayoutTypes(st, fr, fu, wps, {}) /\ Sited(at, fr, fu, q, wps, {})
      /\ PagesOK(at, st, wps) /\ LostPages(at, st)
      /\ Counted(st, vp, ip) /\ QueueOK(q, vp)
  BY DEF Layout
<1>2. Geometry
  BY GeometryHolds
<1>3. l \in Lines /\ p[2] \in Offs /\ p = <<l, p[2]>>
  BY <1>2 DEF Geometry
<1>4. /\ st2 = [st EXCEPT ![p] = "INVALID"] /\ ip2 = [ip EXCEPT ![l] = @ + 1]
      /\ vp2 = [vp EXCEPT ![l] = @ - 1]
  BY <1>0
<1>5. st \in [Pages -> Statuses] /\ fr \in Seq(Lines) /\ fu \subseteq Lines
      /\ wps \in [Writers -> Pages \cup {NoPage}]
  BY <1>1 DEF LayoutTypes
<1>6. st2 \in [Pages -> Statuses] /\ st2[p] = "INVALID" /\ \A r \in Pages : r # p => st2[r] = st[r]
  BY <1>4, <1>5 DEF Statuses
<1>7. Counted(st2, vp2, ip2)
  BY <1>1, <1>4, <1>5, CountInvalid
<1>8. /\ vp \in [Lines -> Nat] /\ vp2 \in [Lines -> Nat]
      /\ \A x \in Lines : x # l => vp2[x] = vp[x]
  <2>1. vp \in [Lines -> Nat] /\ vp2 \in [Lines -> Nat]
    BY <1>1, <1>5, <1>6, <1>7, CountedTypes
  <2> QED
    BY <1>0, <2>1
<1>9. at \in [Lines -> Spots] /\ Distinct(fr)
      /\ \A x \in Lines : /\ x \in Elems(fr) <=> at[x] = "free"
                          /\ x \in fu <=> at[x] = "full"
                          /\ x \in Elems(q.d) <=> at[x] = "queue"
                          /\ at[x] # "collected"
                          /\ \A w \in Writers : (wps[w] # NoPage /\ wps[w][1] = x) <=> at[x] = w
  BY <1>1 DEF Sited
<1>10. \A x \in Lines, o \in Offs :
         /\ at[x] = "free" => st[<<x, o>>] = "FREE"
         /\ at[x] \in Writers => (st[<<x, o>>] = "FREE" <=> o >= wps[at[x]][2])
         /\ at[x] = "full" => st[<<x, o>>] = "VALID"
         /\ at[x] \in {"queue", "collected"} => st[<<x, o>>] # "FREE"
  BY <1>1 DEF PagesOK
<1>11. /\ \A x \in Lines, o \in Offs : <<x, o>> \in Pages
       /\ \A x \in Lines, o \in Offs : <<x, o>> # p => st2[<<x, o>>] = st[<<x, o>>]
       /\ \A x \in Lines, o \in Offs : x # l => <<x, o>> # p
       /\ \A x \in Lines, o \in Offs : st2[<<x, o>>] = "FREE" <=> st[<<x, o>>] = "FREE"
       /\ \A x \in Lines, o \in Offs : st[<<x, o>>] = "INVALID" => st2[<<x, o>>] = "INVALID"
  <2>1. \A x \in Lines, o \in Offs : <<x, o>> \in Pages
    BY <1>2 DEF Geometry
  <2>2. \A x \in Lines, o \in Offs : x # l => <<x, o>> # p
    BY <1>3
  <2>3. \A x \in Lines, o \in Offs : <<x, o>> # p => st2[<<x, o>>] = st[<<x, o>>]
    BY <1>6, <2>1
  <2>4. \A x \in Lines, o \in Offs : <<x, o>> = p => st2[<<x, o>>] = "INVALID" /\ st[<<x, o>>] = "VALID"
    BY <1>6
  <2> QED
    BY <2>1, <2>2, <2>3, <2>4
<1>12. at[l] # "free"
  BY <1>3, <1>10
<1>13. \E o \in Offs : st2[<<l, o>>] = "INVALID"
  BY <1>3, <1>6
<1>14. LayoutTypes(st2, fr, fu \ {l}, wps, {})
  BY <1>5, <1>6 DEF LayoutTypes
<1>15. q.pos[l] # 0 <=> at[l] = "queue"
  BY <1>1, <1>3, <1>9, PosIs
<1>16. at[l] # "full" => PagesOK(at, st2, wps) /\ LostPages(at, st2)
  <2> SUFFICES ASSUME at[l] # "full" PROVE PagesOK(at, st2, wps) /\ LostPages(at, st2)
    OBVIOUS
  <2>1. PagesOK(at, st2, wps)
    <3> SUFFICES ASSUME NEW x \in Lines, NEW o \in Offs
                 PROVE  /\ at[x] = "free" => st2[<<x, o>>] = "FREE"
                        /\ at[x] \in Writers => (st2[<<x, o>>] = "FREE" <=> o >= wps[at[x]][2])
                        /\ at[x] = "full" => st2[<<x, o>>] = "VALID"
                        /\ at[x] \in {"queue", "collected"} => st2[<<x, o>>] # "FREE"
      BY DEF PagesOK
    <3>1. st2[<<x, o>>] = "FREE" <=> st[<<x, o>>] = "FREE"
      BY <1>11
    <3>2. at[x] = "full" => st2[<<x, o>>] = st[<<x, o>>]
      BY <1>11
    <3> QED
      BY <1>10, <3>1, <3>2
  <2>2. LostPages(at, st2)
    <3> SUFFICES ASSUME NEW x \in Lines, at[x] \in {"queue", "collected"}
                 PROVE  \E o \in Offs : st2[<<x, o>>] = "INVALID"
      BY DEF LostPages
    <3>1. PICK o \in Offs : st[<<x, o>>] = "INVALID"
      BY <1>1 DEF LostPages
    <3> QED
      BY <1>11, <3>1
  <2> QED
    BY <2>1, <2>2
<1>17. CASE at[l] = "queue"
  <2>1. q2 = pqueue_change_priority(q, l, vp[l], vp2)
    BY <1>0, <1>15, <1>17
  <2>2. l \in Elems(q.d)
    BY <1>3, <1>9, <1>17
  <2>3. QueueOK(q2, vp2) /\ Elems(q2.d) = Elems(q.d)
    <3>1. /\ vp \in [Lines -> Nat] /\ vp2 \in [Lines -> Nat] /\ OnlyLine(l, vp, vp2)
          /\ QueueOK(q, vp) /\ l \in Lines
      BY <1>1, <1>3, <1>8 DEF OnlyLine
    <3>2. /\ QueueOK(pqueue_change_priority(q, l, vp[l], vp2), vp2)
          /\ Elems(pqueue_change_priority(q, l, vp[l], vp2).d) = Elems(q.d)
      BY ONLY <2>2, <3>1, QueueChange
    <3> QED
      BY <2>1, <3>2
  <2>4. fu \ {l} = fu
    BY <1>3, <1>9, <1>17
  <2>5. Sited(at, fr, fu \ {l}, q2, wps, {})
    BY <1>1, <2>3, <2>4 DEF Sited
  <2>6. Layout(at, st2, vp2, ip2, fr, fu \ {l}, q2, wps, {})
    BY <1>7, <1>14, <1>16, <1>17, <2>3, <2>5 DEF Layout
  <2> QED
    BY <1>0, <2>6 DEF LaidOut
<1>18. CASE at[l] = "full"
  <2>1. PICK at2 : at2 = [at EXCEPT ![l] = "queue"]
    OBVIOUS
  <2>2. /\ at2 \in [Lines -> Spots] /\ at2[l] = "queue"
        /\ \A x \in Lines : x # l => at2[x] = at[x]
    BY <1>3, <1>9, <2>1 DEF Spots
  <2>3. \A o \in Offs : st[<<l, o>>] = "VALID"
    BY <1>3, <1>10, <1>18
  <2>4. vp[l] = PgsPerLine
    BY <1>1, <1>3, <1>5, <2>3, CountedLine
  <2>5. q2 = pqueue_insert(q, l, vp2)
    BY <1>0, <1>15, <1>18, <2>4
  <2>6. l \notin Elems(q.d)
    BY <1>3, <1>9, <1>18
  <2>7. QueueOK(q, vp2)
    <3>1. SamePris(q, vp, vp2)
      BY <1>8, <2>6 DEF SamePris
    <3>2. QueueOK(q, vp)
      BY <1>1
    <3> QED
      BY ONLY <3>1, <3>2, SameQueue
  <2>8. QueueOK(q2, vp2) /\ Elems(q2.d) = Elems(q.d) \cup {l}
    <3>1. vp2 \in [Lines -> Nat]
      BY <1>8
    <3>2. /\ QueueOK(pqueue_insert(q, l, vp2), vp2)
          /\ Elems(pqueue_insert(q, l, vp2).d) = Elems(q.d) \cup {l}
      BY ONLY <1>3, <2>6, <2>7, <3>1, QueueInsert
    <3> QED
      BY <2>5, <3>2
  <2>9. Sited(at2, fr, fu \ {l}, q2, wps, {})
    <3> SUFFICES ASSUME NEW x \in Lines
                 PROVE  /\ x \in Elems(fr) <=> at2[x] = "free"
                        /\ x \in fu \ {l} <=> at2[x] = "full"
                        /\ x \in Elems(q2.d) <=> at2[x] = "queue"
                        /\ x \in {} <=> at2[x] = "collected"
                        /\ \A w \in Writers : (wps[w] # NoPage /\ wps[w][1] = x) <=> at2[x] = w
      BY <1>9, <2>2 DEF Sited
    <3>1. CASE x = l
      <4>1. at[x] = "full" /\ at2[x] = "queue" /\ x \notin fu \ {l} /\ x \in Elems(q2.d)
        BY <1>18, <2>2, <2>8, <3>1
      <4>2. x \notin Elems(fr)
        BY <1>9, <4>1
      <4>3. \A w \in Writers : w # at[x] /\ w # at2[x]
        BY <4>1 DEF Writers
      <4>4. \A w \in Writers : ~(wps[w] # NoPage /\ wps[w][1] = x)
        BY <1>9, <4>3
      <4> QED
        BY <4>1, <4>2, <4>3, <4>4
    <3>2. CASE x # l
      <4>1. at2[x] = at[x] /\ (x \in fu \ {l} <=> x \in fu) /\ (x \in Elems(q2.d) <=> x \in Elems(q.d))
        BY <2>2, <2>8, <3>2
      <4> QED
        BY <1>9, <4>1
    <3> QED
      BY <3>1, <3>2
  <2>10. PagesOK(at2, st2, wps)
    <3> SUFFICES ASSUME NEW x \in Lines, NEW o \in Offs
                 PROVE  /\ at2[x] = "free" => st2[<<x, o>>] = "FREE"
                        /\ at2[x] \in Writers => (st2[<<x, o>>] = "FREE" <=> o >= wps[at2[x]][2])
                        /\ at2[x] = "full" => st2[<<x, o>>] = "VALID"
                        /\ at2[x] \in {"queue", "collected"} => st2[<<x, o>>] # "FREE"
      BY DEF PagesOK
    <3>1. CASE x = l
      <4>1. at2[x] = "queue" /\ at2[x] \notin Writers
        BY <2>2, <3>1 DEF Writers
      <4>2. st2[<<x, o>>] # "FREE"
        BY <1>11, <2>3, <3>1
      <4> QED
        BY <4>1, <4>2
    <3>2. CASE x # l
      <4>1. at2[x] = at[x] /\ st2[<<x, o>>] = st[<<x, o>>]
        BY <1>11, <2>2, <3>2
      <4> QED
        BY <1>10, <4>1
    <3> QED
      BY <3>1, <3>2
  <2>11. LostPages(at2, st2)
    <3> SUFFICES ASSUME NEW x \in Lines, at2[x] \in {"queue", "collected"}
                 PROVE  \E o \in Offs : st2[<<x, o>>] = "INVALID"
      BY DEF LostPages
    <3>1. CASE x = l
      BY <1>13, <3>1
    <3>2. CASE x # l
      <4>1. PICK o \in Offs : st[<<x, o>>] = "INVALID"
        BY <1>1, <2>2, <3>2 DEF LostPages
      <4> QED
        BY <1>11, <4>1
    <3> QED
      BY <3>1, <3>2
  <2>12. Layout(at2, st2, vp2, ip2, fr, fu \ {l}, q2, wps, {})
    BY <1>7, <1>14, <2>8, <2>9, <2>10, <2>11 DEF Layout
  <2> QED
    BY <1>0, <2>12 DEF LaidOut
<1>19. CASE at[l] # "queue" /\ at[l] # "full"
  <2>1. PICK w \in Writers : at[l] = w
    <3>1. at[l] \in Spots /\ at[l] # "free" /\ at[l] # "collected"
      BY <1>3, <1>9, <1>12
    <3> QED
      BY <1>19, <3>1 DEF Spots, Writers
  <2>2. wps[w] # NoPage /\ wps[w][1] = l /\ wps[w] \in Pages
    BY <1>3, <1>5, <1>9, <2>1
  <2>3. wps[w][2] \in Offs /\ wps[w][2] \in Nat
    <3>1. wps[w][2] \in Offs
      BY <1>2, <2>2 DEF Geometry
    <3> QED
      BY <1>2, <3>1 DEF Geometry
  <2>4. st[<<l, wps[w][2]>>] = "FREE"
    <3>1. wps[w][2] >= wps[w][2]
      BY <2>3
    <3> QED
      BY <1>3, <1>10, <2>1, <2>3, <3>1
  <2>5. vp[l] # PgsPerLine
    BY <1>1, <1>3, <1>5, <2>3, <2>4, CountedLine
  <2>6. q2 = q
    BY <1>0, <1>15, <1>19, <2>5
  <2>7. l \notin Elems(q.d) /\ fu \ {l} = fu
    BY <1>3, <1>9, <1>19
  <2>8. QueueOK(q, vp2)
    <3>1. SamePris(q, vp, vp2)
      BY <1>8, <2>7 DEF SamePris
    <3>2. QueueOK(q, vp)
      BY <1>1
    <3> QED
      BY ONLY <3>1, <3>2, SameQueue
  <2>9. Layout(at, st2, vp2, ip2, fr, fu \ {l}, q2, wps, {})
    BY <1>1, <1>7, <1>14, <1>16, <1>19, <2>6, <2>7, <2>8 DEF Layout
  <2> QED
    BY <1>0, <2>9 DEF LaidOut
<1> QED
  BY <1>17, <1>18, <1>19

\* What a layout says, without the definitions.
LEMMA LayoutFacts ==
  ASSUME NEW at, NEW st, NEW vp, NEW ip, NEW fr, NEW fu, NEW q, NEW wps, NEW gc,
         Layout(at, st, vp, ip, fr, fu, q, wps, gc)
  PROVE  /\ st \in [Pages -> Statuses] /\ fr \in Seq(Lines) /\ fu \subseteq Lines
         /\ wps \in [Writers -> Pages \cup {NoPage}] /\ gc \subseteq Lines
         /\ Counted(st, vp, ip) /\ QueueOK(q, vp)
         /\ at \in [Lines -> Spots] /\ Distinct(fr)
         /\ \A x \in Lines : /\ x \in Elems(fr) <=> at[x] = "free"
                             /\ x \in fu <=> at[x] = "full"
                             /\ x \in Elems(q.d) <=> at[x] = "queue"
                             /\ x \in gc <=> at[x] = "collected"
                             /\ \A w \in Writers : (wps[w] # NoPage /\ wps[w][1] = x) <=> at[x] = w
         /\ \A x \in Lines, o \in Offs :
              /\ at[x] = "free" => st[<<x, o>>] = "FREE"
              /\ at[x] \in Writers => (st[<<x, o>>] = "FREE" <=> o >= wps[at[x]][2])
              /\ at[x] = "full" => st[<<x, o>>] = "VALID"
              /\ at[x] \in {"queue", "collected"} => st[<<x, o>>] # "FREE"
         /\ \A x \in Lines : at[x] \in {"queue", "collected"} => \E o \in Offs : st[<<x, o>>] = "INVALID"
BY DEF Layout, LayoutTypes, Sited, PagesOK, LostPages

\* Page p of line l was ahead of write pointer w and has been written.
Written(at, st, st2, vp2, ip, q, w, p, l) ==
  /\ p \in Pages /\ l \in Lines /\ p[2] \in Offs /\ p = <<l, p[2]>>
  /\ at[l] = w /\ st[p] = "FREE"
  /\ st2 \in [Pages -> Statuses] /\ st2[p] = "VALID"
  /\ \A x \in Lines, o \in Offs : x # l \/ o # p[2] => st2[<<x, o>>] = st[<<x, o>>]
  /\ Counted(st2, vp2, ip) /\ vp2 \in [Lines -> Nat] /\ QueueOK(q, vp2)
  /\ \A x \in Lines : x # l => at[x] # w

\* mark_page_valid of page p of line l.
Validated(st, st2, vp, vp2, p, l) ==
  st2 = [st EXCEPT ![p] = "VALID"] /\ vp2 = [vp EXCEPT ![l] = @ + 1]

\* Write pointer w goes to page x.
Pointed(wps, wps2, w, x) == wps2 = [wps EXCEPT ![w] = x]

\* The page at a write pointer, and what it is when it has been written.
LEMMA PageAhead ==
  ASSUME NEW at, NEW st, NEW vp, NEW ip, NEW fr, NEW fu, NEW q, NEW wps, NEW gc,
         Layout(at, st, vp, ip, fr, fu, q, wps, gc),
         NEW w \in Writers, wps[w] # NoPage, NEW p, p = wps[w], NEW l, l = p[1],
         NEW st2, NEW vp2, Validated(st, st2, vp, vp2, p, l)
  PROVE  Written(at, st, st2, vp2, ip, q, w, p, l)
<1>1. Geometry
  BY GeometryHolds
<1> USE DEF Validated
<1>2. p \in Pages
  BY LayoutFacts
<1>3. l \in Lines /\ p[2] \in Offs /\ p = <<l, p[2]>> /\ p[2] \in Nat
  <2>1. l \in Lines /\ p[2] \in Offs /\ p = <<l, p[2]>>
    BY <1>1, <1>2 DEF Geometry
  <2> QED
    BY <1>1, <2>1 DEF Geometry
<1>4. at[l] = w
  BY <1>3, LayoutFacts
<1>5. st[p] = "FREE"
  <2>1. \A x \in Lines, o \in Offs : at[x] \in Writers => (st[<<x, o>>] = "FREE" <=> o >= wps[at[x]][2])
    BY LayoutFacts
  <2>2. st[<<l, p[2]>>] = "FREE" <=> p[2] >= wps[w][2]
    BY <1>3, <1>4, <2>1
  <2>3. p[2] >= wps[w][2]
    BY <1>3
  <2> QED
    BY <1>3, <2>2, <2>3
<1>6. st \in [Pages -> Statuses] /\ Counted(st, vp, ip) /\ QueueOK(q, vp)
  BY LayoutFacts
<1>7. st2 \in [Pages -> Statuses] /\ st2[p] = "VALID" /\ \A r \in Pages : r # p => st2[r] = st[r]
  BY <1>2, <1>6 DEF Statuses
<1>8. \A x \in Lines, o \in Offs : x # l \/ o # p[2] => st2[<<x, o>>] = st[<<x, o>>]
  <2> SUFFICES ASSUME NEW x \in Lines, NEW o \in Offs, x # l \/ o # p[2]
               PROVE  st2[<<x, o>>] = st[<<x, o>>]
    OBVIOUS
  <2>1. <<x, o>> # p /\ <<x, o>> \in Pages
    BY <1>1, <1>3 DEF Geometry
  <2> QED
    BY <1>7, <2>1
<1>9. Counted(st2, vp2, ip)
  BY <1>2, <1>5, <1>6, CountValid
<1>10. vp2 \in [Lines -> Nat] /\ vp \in [Lines -> Nat]
  BY <1>6, <1>7, <1>9, CountedTypes
<1>11. \A x \in Lines : x # l => vp2[x] = vp[x]
  BY <1>10
<1>12. l \notin Elems(q.d)
  <2>1. l \in Elems(q.d) <=> at[l] = "queue"
    BY <1>3, LayoutFacts
  <2> QED
    BY <1>4, <2>1 DEF Writers
<1>13. QueueOK(q, vp2)
  <2>1. SamePris(q, vp, vp2)
    BY <1>11, <1>12 DEF SamePris
  <2> QED
    BY ONLY <1>6, <2>1, SameQueue
<1>14. \A x \in Lines : x # l => at[x] # w
  BY LayoutFacts
<1> QED
  BY <1>2, <1>3, <1>4, <1>5, <1>7, <1>8, <1>9, <1>10, <1>13, <1>14 DEF Written

\* A page is written and there are more in its line.
LEMMA PutMiddle ==
  ASSUME NEW at, NEW st, NEW vp, NEW ip, NEW fr, NEW fu, NEW q, NEW wps, NEW gc,
         Layout(at, st, vp, ip, fr, fu, q, wps, gc),
         NEW w \in Writers, wps[w] # NoPage, NEW p, p = wps[w], NEW l, l = p[1],
         p[2] < PgsPerLine - 1,
         NEW st2, NEW vp2, Validated(st, st2, vp, vp2, p, l),
         NEW wps2, Pointed(wps, wps2, w, <<l, p[2] + 1>>)
  PROVE  /\ Layout(at, st2, vp2, ip, fr, fu, q, wps2, gc)
         /\ wps2[w] # NoPage /\ \A v \in Writers \ {w} : wps2[v] = wps[v]
<1>1. Geometry
  BY GeometryHolds
<1>2. /\ p \in Pages /\ l \in Lines /\ p[2] \in Offs /\ p = <<l, p[2]>>
      /\ at[l] = w /\ st[p] = "FREE"
      /\ st2 \in [Pages -> Statuses] /\ st2[p] = "VALID"
      /\ \A x \in Lines, o \in Offs : x # l \/ o # p[2] => st2[<<x, o>>] = st[<<x, o>>]
      /\ Counted(st2, vp2, ip) /\ vp2 \in [Lines -> Nat] /\ QueueOK(q, vp2)
      /\ \A x \in Lines : x # l => at[x] # w
  <2>1. Written(at, st, st2, vp2, ip, q, w, p, l)
    BY PageAhead
  <2> QED
    BY <2>1 DEF Written
<1>3. PICK k : k = p[2] /\ k \in Nat /\ k + 1 \in Offs
  <2>1. p[2] \in Nat /\ p[2] + 1 \in Offs
    BY <1>1, <1>2 DEF Geometry
  <2> QED
    BY <2>1
<1>4. <<l, k + 1>> \in Pages /\ <<l, k + 1>> # NoPage
  BY <1>1, <1>2, <1>3 DEF Geometry
<1>5. wps \in [Writers -> Pages \cup {NoPage}]
  BY LayoutFacts
<1>6. /\ wps2 \in [Writers -> Pages \cup {NoPage}] /\ wps2[w] = <<l, k + 1>>
      /\ \A v \in Writers \ {w} : wps2[v] = wps[v]
  BY <1>3, <1>4, <1>5 DEF Pointed
<1>7. LayoutTypes(st2, fr, fu, wps2, gc)
  BY <1>2, <1>6, LayoutFacts DEF LayoutTypes
<1>8. \A v \in Writers : wps2[v] # NoPage <=> wps[v] # NoPage
  BY <1>4, <1>6
<1>9. \A v \in Writers : wps[v] # NoPage => wps2[v][1] = wps[v][1]
  BY <1>2, <1>6
<1>10. Sited(at, fr, fu, q, wps2, gc)
  <2>1. \A x \in Lines : \A v \in Writers :
          (wps2[v] # NoPage /\ wps2[v][1] = x) <=> (wps[v] # NoPage /\ wps[v][1] = x)
    BY <1>8, <1>9
  <2>2. Sited(at, fr, fu, q, wps, gc)
    BY DEF Layout
  <2> QED
    BY <2>1, <2>2 DEF Sited
<1>11. PagesOK(at, st2, wps2)
  <2> SUFFICES ASSUME NEW x \in Lines, NEW o \in Offs
               PROVE  /\ at[x] = "free" => st2[<<x, o>>] = "FREE"
                      /\ at[x] \in Writers => (st2[<<x, o>>] = "FREE" <=> o >= wps2[at[x]][2])
                      /\ at[x] = "full" => st2[<<x, o>>] = "VALID"
                      /\ at[x] \in {"queue", "collected"} => st2[<<x, o>>] # "FREE"
    BY DEF PagesOK
  <2>1. /\ at[x] = "free" => st[<<x, o>>] = "FREE"
        /\ at[x] \in Writers => (st[<<x, o>>] = "FREE" <=> o >= wps[at[x]][2])
        /\ at[x] = "full" => st[<<x, o>>] = "VALID"
        /\ at[x] \in {"queue", "collected"} => st[<<x, o>>] # "FREE"
    BY LayoutFacts
  <2>2. CASE x # l
    <3>1. st2[<<x, o>>] = st[<<x, o>>] /\ at[x] # w
      BY <1>2, <2>2
    <3>2. at[x] \in Writers => wps2[at[x]] = wps[at[x]]
      BY <1>6, <3>1
    <3> QED
      BY <2>1, <3>1, <3>2
  <2>3. CASE x = l
    <3>1. at[x] = w /\ wps2[w][2] = k + 1 /\ wps[w][2] = k /\ o \in Nat
      <4>1. o \in Nat
        BY <1>1 DEF Geometry
      <4> QED
        BY <1>2, <1>3, <1>6, <2>3, <4>1
    <3>2. st2[<<x, o>>] = "FREE" <=> o >= k + 1
      <4>1. CASE o = k
        <5>1. st2[<<x, o>>] = "VALID"
          BY <1>2, <1>3, <2>3, <4>1
        <5> QED
          BY <1>3, <4>1, <5>1
      <4>2. CASE o # k
        <5>1. st2[<<x, o>>] = st[<<x, o>>]
          BY <1>2, <1>3, <4>2
        <5>2. st[<<x, o>>] = "FREE" <=> o >= k
          BY <2>1, <3>1
        <5> QED
          BY <1>3, <3>1, <4>2, <5>1, <5>2
      <4> QED
        BY <4>1, <4>2
    <3>3. at[x] # "free" /\ at[x] # "full" /\ at[x] \notin {"queue", "collected"}
      BY <3>1 DEF Writers
    <3> QED
      BY <3>1, <3>2, <3>3
  <2> QED
    BY <2>2, <2>3
<1>12. LostPages(at, st2)
  <2> SUFFICES ASSUME NEW x \in Lines, at[x] \in {"queue", "collected"}
               PROVE  \E o \in Offs : st2[<<x, o>>] = "INVALID"
    BY DEF LostPages
  <2>1. PICK o \in Offs : st[<<x, o>>] = "INVALID"
    BY LayoutFacts
  <2>2. x # l
    BY <1>2 DEF Writers
  <2> QED
    BY <1>2, <2>1, <2>2
<1>13. Layout(at, st2, vp2, ip, fr, fu, q, wps2, gc)
  BY <1>2, <1>7, <1>10, <1>11, <1>12 DEF Layout
<1> QED
  BY <1>4, <1>6, <1>13


\* Line l, used up, goes to the full lines or into the queue.
Retired(fu, fu2, q, q2, l, vp2) ==
  /\ fu2 = IF AllValid(l, vp2) THEN fu \cup {l} ELSE fu
  /\ q2 = IF AllValid(l, vp2) THEN q ELSE pqueue_insert(q, l, vp2)

\* The last page of a line is written: the write pointer leaves it.
LEMMA LeaveKeeps ==
  ASSUME NEW at, NEW st, NEW vp, NEW ip, NEW fr, NEW fu, NEW q, NEW wps, NEW gc,
         Layout(at, st, vp, ip, fr, fu, q, wps, gc),
         NEW w \in Writers, wps[w] # NoPage, NEW p, p = wps[w], NEW l, l = p[1],
         ~(p[2] < PgsPerLine - 1),
         NEW st2, NEW vp2, Validated(st, st2, vp, vp2, p, l),
         NEW fu2, NEW q2, Retired(fu, fu2, q, q2, l, vp2),
         NEW wps2, Pointed(wps, wps2, w, NoPage)
  PROVE  /\ LaidOut(st2, vp2, ip, fr, fu2, q2, wps2, gc)
         /\ AllValid(l, vp2) \/ ip[l] # 0
<1>1. Geometry
  BY GeometryHolds
<1>2. /\ p \in Pages /\ l \in Lines /\ p[2] \in Offs /\ p = <<l, p[2]>>
      /\ at[l] = w /\ st[p] = "FREE"
      /\ st2 \in [Pages -> Statuses] /\ st2[p] = "VALID"
      /\ \A x \in Lines, o \in Offs : x # l \/ o # p[2] => st2[<<x, o>>] = st[<<x, o>>]
      /\ Counted(st2, vp2, ip) /\ vp2 \in [Lines -> Nat] /\ QueueOK(q, vp2)
      /\ \A x \in Lines : x # l => at[x] # w
  <2>1. Written(at, st, st2, vp2, ip, q, w, p, l)
    BY PageAhead
  <2> QED
    BY <2>1 DEF Written
<1>3. \A o \in Offs : o # p[2] => ~(o >= p[2])
  <2>1. \A o \in Offs : o \in Nat /\ o <= PgsPerLine - 1
    BY <1>1 DEF Geometry
  <2>2. p[2] \in Nat /\ p[2] <= PgsPerLine - 1 /\ PgsPerLine \in Nat
    BY <1>1, <1>2, <2>1 DEF Geometry
  <2> QED
    BY <2>1, <2>2
<1>4. /\ fr \in Seq(Lines) /\ fu \subseteq Lines /\ gc \subseteq Lines
      /\ wps \in [Writers -> Pages \cup {NoPage}]
      /\ at \in [Lines -> Spots] /\ Distinct(fr)
      /\ \A x \in Lines : /\ x \in Elems(fr) <=> at[x] = "free"
                          /\ x \in fu <=> at[x] = "full"
                          /\ x \in Elems(q.d) <=> at[x] = "queue"
                          /\ x \in gc <=> at[x] = "collected"
                          /\ \A v \in Writers : (wps[v] # NoPage /\ wps[v][1] = x) <=> at[x] = v
      /\ \A x \in Lines, o \in Offs :
           /\ at[x] = "free" => st[<<x, o>>] = "FREE"
           /\ at[x] \in Writers => (st[<<x, o>>] = "FREE" <=> o >= wps[at[x]][2])
           /\ at[x] = "full" => st[<<x, o>>] = "VALID"
           /\ at[x] \in {"queue", "collected"} => st[<<x, o>>] # "FREE"
      /\ \A x \in Lines : at[x] \in {"queue", "collected"} => \E o \in Offs : st[<<x, o>>] = "INVALID"
  BY LayoutFacts
<1>5. \A o \in Offs : st2[<<l, o>>] # "FREE"
  <2> SUFFICES ASSUME NEW o \in Offs PROVE st2[<<l, o>>] # "FREE"
    OBVIOUS
  <2>1. CASE o = p[2]
    <3>1. <<l, o>> = p
      BY <1>2, <2>1
    <3> QED
      BY <1>2, <3>1
  <2>2. CASE o # p[2]
    <3>1. st2[<<l, o>>] = st[<<l, o>>]
      BY <1>2, <2>2
    <3>2. st[<<l, o>>] = "FREE" <=> o >= wps[w][2]
      BY <1>2, <1>4
    <3> QED
      BY <1>3, <2>2, <3>1, <3>2
  <2> QED
    BY <2>1, <2>2
<1>6. /\ vp2[l] + ip[l] = PgsPerLine /\ vp2[l] \in Nat /\ ip[l] \in Nat
      /\ vp2[l] = PgsPerLine <=> \A o \in Offs : st2[<<l, o>>] = "VALID"
      /\ ip[l] = 0 <=> \A o \in Offs : st2[<<l, o>>] # "INVALID"
  <2>1. st2 \in [Pages -> Statuses] /\ Counted(st2, vp2, ip) /\ l \in Lines
    BY <1>2
  <2>2. /\ vp2[l] = PgsPerLine <=> \A o \in Offs : st2[<<l, o>>] = "VALID"
        /\ ip[l] = 0 <=> \A o \in Offs : st2[<<l, o>>] # "INVALID"
        /\ (\A o \in Offs : st2[<<l, o>>] # "FREE") => vp2[l] + ip[l] = PgsPerLine
        /\ vp2[l] \in Nat /\ ip[l] \in Nat
    BY ONLY <2>1, CountedLine
  <2> QED
    BY <1>5, <2>2
<1>7. AllValid(l, vp2) \/ ip[l] # 0
  BY <1>1, <1>6 DEF AllValid, Geometry
<1>8. PICK k : k = (IF AllValid(l, vp2) THEN "full" ELSE "queue")
  OBVIOUS
<1>9. /\ k \in {"full", "queue"} /\ k # w /\ k \notin Writers
      /\ k = "full" => AllValid(l, vp2) /\ fu2 = fu \cup {l} /\ q2 = q
      /\ k = "queue" => ~AllValid(l, vp2) /\ fu2 = fu /\ q2 = pqueue_insert(q, l, vp2)
  BY <1>8 DEF Writers, Retired
<1>10. l \notin Elems(q.d) /\ l \notin fu /\ l \notin Elems(fr) /\ l \notin gc
  BY <1>2, <1>4 DEF Writers
<1>11. /\ QueueOK(q2, vp2)
       /\ \A x \in Lines : x \in Elems(q2.d) <=> x \in Elems(q.d) \/ (x = l /\ k = "queue")
  <2>1. CASE k = "full"
    BY <1>2, <1>9, <2>1
  <2>2. CASE k = "queue"
    <3>1. q2 = pqueue_insert(q, l, vp2)
      BY <1>9, <2>2
    <3>2. vp2 \in [Lines -> Nat] /\ QueueOK(q, vp2) /\ l \in Lines
      BY <1>2
    <3>3. QueueOK(q2, vp2) /\ Elems(q2.d) = Elems(q.d) \cup {l}
      BY ONLY <1>10, <3>1, <3>2, QueueInsert
    <3> QED
      BY <2>2, <3>3
  <2> QED
    BY <1>9, <2>1, <2>2
<1>12. fu2 \subseteq Lines /\ \A x \in Lines : x \in fu2 <=> x \in fu \/ (x = l /\ k = "full")
  BY <1>2, <1>4, <1>9
<1>13. PICK at2 : at2 = [at EXCEPT ![l] = k]
  OBVIOUS
<1>14. at2 \in [Lines -> Spots] /\ at2[l] = k /\ \A x \in Lines : x # l => at2[x] = at[x]
  BY <1>2, <1>4, <1>9, <1>13 DEF Spots
<1>15. /\ wps2 \in [Writers -> Pages \cup {NoPage}] /\ wps2[w] = NoPage
       /\ \A v \in Writers : v # w => wps2[v] = wps[v]
  BY <1>4 DEF Pointed
<1>16. LayoutTypes(st2, fr, fu2, wps2, gc)
  BY <1>2, <1>4, <1>12, <1>15 DEF LayoutTypes
<1>17. Sited(at2, fr, fu2, q2, wps2, gc)
  <2> SUFFICES ASSUME NEW x \in Lines
               PROVE  /\ x \in Elems(fr) <=> at2[x] = "free"
                      /\ x \in fu2 <=> at2[x] = "full"
                      /\ x \in Elems(q2.d) <=> at2[x] = "queue"
                      /\ x \in gc <=> at2[x] = "collected"
                      /\ \A v \in Writers : (wps2[v] # NoPage /\ wps2[v][1] = x) <=> at2[x] = v
    BY <1>4, <1>14 DEF Sited
  <2>1. CASE x = l
    <3>1. at2[x] = k
      BY <1>14, <2>1
    <3>2. \A v \in Writers : ~(wps2[v] # NoPage /\ wps2[v][1] = x)
      <4> SUFFICES ASSUME NEW v \in Writers PROVE ~(wps2[v] # NoPage /\ wps2[v][1] = x)
        OBVIOUS
      <4>1. CASE v = w
        BY <1>15, <4>1
      <4>2. CASE v # w
        <5>1. wps2[v] = wps[v] /\ at[l] # v
          BY <1>2, <1>15, <4>2
        <5> QED
          BY <1>2, <1>4, <2>1, <5>1
      <4> QED
        BY <4>1, <4>2
    <3>3. x \in Elems(fr) <=> at2[x] = "free"
      BY <1>9, <1>10, <2>1, <3>1
    <3>4. x \in gc <=> at2[x] = "collected"
      BY <1>9, <1>10, <2>1, <3>1
    <3>5. x \in fu2 <=> at2[x] = "full"
      BY <1>10, <1>12, <2>1, <3>1
    <3>6. x \in Elems(q2.d) <=> at2[x] = "queue"
      BY <1>10, <1>11, <2>1, <3>1
    <3>7. \A v \in Writers : at2[x] # v
      BY <1>9, <3>1
    <3> QED
      BY <3>2, <3>3, <3>4, <3>5, <3>6, <3>7
  <2>2. CASE x # l
    <3>1. at2[x] = at[x] /\ at[x] # w
      BY <1>2, <1>14, <2>2
    <3>2. x \in fu2 <=> x \in fu
      BY <1>12, <2>2
    <3>3. x \in Elems(q2.d) <=> x \in Elems(q.d)
      BY <1>11, <2>2
    <3>4. \A v \in Writers : (wps2[v] # NoPage /\ wps2[v][1] = x) <=> at[x] = v
      <4> SUFFICES ASSUME NEW v \in Writers
                   PROVE  (wps2[v] # NoPage /\ wps2[v][1] = x) <=> at[x] = v
        OBVIOUS
      <4>1. CASE v = w
        BY <1>15, <3>1, <4>1
      <4>2. CASE v # w
        <5>1. wps2[v] = wps[v]
          BY <1>15, <4>2
        <5> QED
          BY <1>4, <5>1
      <4> QED
        BY <4>1, <4>2
    <3> QED
      BY <1>4, <3>1, <3>2, <3>3, <3>4
  <2> QED
    BY <2>1, <2>2
<1>18. PagesOK(at2, st2, wps2)
  <2> SUFFICES ASSUME NEW x \in Lines, NEW o \in Offs
               PROVE  /\ at2[x] = "free" => st2[<<x, o>>] = "FREE"
                      /\ at2[x] \in Writers => (st2[<<x, o>>] = "FREE" <=> o >= wps2[at2[x]][2])
                      /\ at2[x] = "full" => st2[<<x, o>>] = "VALID"
                      /\ at2[x] \in {"queue", "collected"} => st2[<<x, o>>] # "FREE"
    BY DEF PagesOK
  <2>1. CASE x = l
    <3>1. at2[x] = k
      BY <1>14, <2>1
    <3>2. k = "full" => st2[<<x, o>>] = "VALID"
      BY <1>6, <1>9, <2>1 DEF AllValid
    <3>3. st2[<<x, o>>] # "FREE"
      BY <1>5, <2>1
    <3> QED
      BY <1>9, <3>1, <3>2, <3>3
  <2>2. CASE x # l
    <3>1. at2[x] = at[x] /\ st2[<<x, o>>] = st[<<x, o>>] /\ at[x] # w
      BY <1>2, <1>14, <2>2
    <3>2. at[x] \in Writers => wps2[at[x]] = wps[at[x]]
      BY <1>15, <3>1
    <3> QED
      BY <1>4, <3>1, <3>2
  <2> QED
    BY <2>1, <2>2
<1>19. LostPages(at2, st2)
  <2> SUFFICES ASSUME NEW x \in Lines, at2[x] \in {"queue", "collected"}
               PROVE  \E o \in Offs : st2[<<x, o>>] = "INVALID"
    BY DEF LostPages
  <2>1. CASE x = l
    <3>1. ~AllValid(l, vp2)
      BY <1>9, <1>14, <2>1
    <3>2. ip[l] # 0
      BY <1>7, <3>1
    <3> QED
      BY <1>6, <2>1, <3>2
  <2>2. CASE x # l
    <3>1. at[x] \in {"queue", "collected"}
      BY <1>14, <2>2
    <3>2. PICK o \in Offs : st[<<x, o>>] = "INVALID"
      BY <1>4, <3>1
    <3> QED
      BY <1>2, <2>2, <3>2
  <2> QED
    BY <2>1, <2>2
<1>20. Layout(at2, st2, vp2, ip, fr, fu2, q2, wps2, gc)
  BY <1>2, <1>11, <1>16, <1>17, <1>18, <1>19 DEF Layout
<1> QED
  BY <1>7, <1>20 DEF LaidOut

\* A write pointer without a line takes the first free one.
LEMMA OpenKeeps ==
  ASSUME NEW at, NEW st, NEW vp, NEW ip, NEW fr, NEW fu, NEW q, NEW wps, NEW gc,
         Layout(at, st, vp, ip, fr, fu, q, wps, gc),
         NEW w \in Writers, wps[w] = NoPage, fr # <<>>,
         NEW wps2, Pointed(wps, wps2, w, <<Head(fr), 0>>)
  PROVE  /\ LaidOut(st, vp, ip, Tail(fr), fu, q, wps2, gc)
         /\ wps2[w] # NoPage
<1>1. Geometry
  BY GeometryHolds
<1>2. /\ st \in [Pages -> Statuses]
      /\ fr \in Seq(Lines) /\ fu \subseteq Lines /\ gc \subseteq Lines
      /\ wps \in [Writers -> Pages \cup {NoPage}]
      /\ at \in [Lines -> Spots] /\ Distinct(fr)
      /\ \A x \in Lines : /\ x \in Elems(fr) <=> at[x] = "free"
                          /\ x \in fu <=> at[x] = "full"
                          /\ x \in Elems(q.d) <=> at[x] = "queue"
                          /\ x \in gc <=> at[x] = "collected"
                          /\ \A v \in Writers : (wps[v] # NoPage /\ wps[v][1] = x) <=> at[x] = v
      /\ \A x \in Lines, o \in Offs :
           /\ at[x] = "free" => st[<<x, o>>] = "FREE"
           /\ at[x] \in Writers => (st[<<x, o>>] = "FREE" <=> o >= wps[at[x]][2])
           /\ at[x] = "full" => st[<<x, o>>] = "VALID"
           /\ at[x] \in {"queue", "collected"} => st[<<x, o>>] # "FREE"
      /\ \A x \in Lines : at[x] \in {"queue", "collected"} => \E o \in Offs : st[<<x, o>>] = "INVALID"
  BY LayoutFacts
<1>3. PICK l, fr2 : l = Head(fr) /\ fr2 = Tail(fr)
  OBVIOUS
<1>4. /\ fr2 \in Seq(Lines) /\ l \in Lines /\ l \in Elems(fr)
      /\ Elems(fr2) = Elems(fr) \ {l} /\ Distinct(fr2)
  BY <1>2, <1>3, TailElems
<1>5. PICK p : p = <<l, 0>>
  OBVIOUS
<1>6. p \in Pages /\ p # NoPage /\ p[1] = l /\ p[2] = 0
  BY <1>1, <1>4, <1>5 DEF Geometry
<1>7. /\ wps2 \in [Writers -> Pages \cup {NoPage}] /\ wps2[w] = p
      /\ \A v \in Writers : v # w => wps2[v] = wps[v]
  BY <1>2, <1>3, <1>5, <1>6 DEF Pointed
<1>8. PICK at2 : at2 = [at EXCEPT ![l] = w]
  OBVIOUS
<1>9. /\ at2 \in [Lines -> Spots] /\ at2[l] = w
      /\ \A x \in Lines : x # l => at2[x] = at[x]
      /\ at[l] = "free" /\ w \notin {"free", "full", "queue", "collected"}
  <2>1. w \in Spots /\ w \notin {"free", "full", "queue", "collected"}
    BY DEF Spots, Writers
  <2>2. at[l] = "free"
    BY <1>2, <1>4
  <2> QED
    BY <1>2, <1>4, <1>8, <2>1, <2>2
<1>10. \A x \in Lines : at[x] # w
  BY <1>2
<1>11. LayoutTypes(st, fr2, fu, wps2, gc)
  BY <1>2, <1>4, <1>7 DEF LayoutTypes
<1>12. Sited(at2, fr2, fu, q, wps2, gc)
  <2> SUFFICES ASSUME NEW x \in Lines
               PROVE  /\ x \in Elems(fr2) <=> at2[x] = "free"
                      /\ x \in fu <=> at2[x] = "full"
                      /\ x \in Elems(q.d) <=> at2[x] = "queue"
                      /\ x \in gc <=> at2[x] = "collected"
                      /\ \A v \in Writers : (wps2[v] # NoPage /\ wps2[v][1] = x) <=> at2[x] = v
    BY <1>4, <1>9 DEF Sited
  <2>1. \A v \in Writers : (wps2[v] # NoPage /\ wps2[v][1] = x) <=> at2[x] = v
    <3> SUFFICES ASSUME NEW v \in Writers
                 PROVE  (wps2[v] # NoPage /\ wps2[v][1] = x) <=> at2[x] = v
      OBVIOUS
    <3>1. CASE v = w
      <4>1. (wps2[v] # NoPage /\ wps2[v][1] = x) <=> x = l
        BY <1>6, <1>7, <3>1
      <4>2. at2[x] = v <=> x = l
        BY <1>9, <1>10, <3>1
      <4> QED
        BY <4>1, <4>2
    <3>2. CASE v # w
      <4>1. (wps2[v] # NoPage /\ wps2[v][1] = x) <=> at[x] = v
        BY <1>2, <1>7, <3>2
      <4>2. at2[x] = v <=> at[x] = v
        <5>1. v # "free"
          BY DEF Writers
        <5> QED
          BY <1>9, <3>2, <5>1
      <4> QED
        BY <4>1, <4>2
    <3> QED
      BY <3>1, <3>2
  <2>2. CASE x = l
    <3>1. at2[x] = w /\ at[x] = "free"
      BY <1>9, <2>2
    <3>2. x \notin fu /\ x \notin Elems(q.d) /\ x \notin gc
      BY <1>2, <3>1
    <3>3. x \notin Elems(fr2)
      BY <1>4, <2>2
    <3> QED
      BY <1>9, <2>1, <3>1, <3>2, <3>3
  <2>3. CASE x # l
    <3>1. at2[x] = at[x] /\ (x \in Elems(fr2) <=> x \in Elems(fr))
      BY <1>4, <1>9, <2>3
    <3> QED
      BY <1>2, <2>1, <3>1
  <2> QED
    BY <2>2, <2>3
<1>13. PagesOK(at2, st, wps2)
  <2> SUFFICES ASSUME NEW x \in Lines, NEW o \in Offs
               PROVE  /\ at2[x] = "free" => st[<<x, o>>] = "FREE"
                      /\ at2[x] \in Writers => (st[<<x, o>>] = "FREE" <=> o >= wps2[at2[x]][2])
                      /\ at2[x] = "full" => st[<<x, o>>] = "VALID"
                      /\ at2[x] \in {"queue", "collected"} => st[<<x, o>>] # "FREE"
    BY DEF PagesOK
  <2>1. CASE x = l
    <3>1. at2[x] = w /\ st[<<x, o>>] = "FREE"
      BY <1>2, <1>9, <2>1
    <3>2. o >= wps2[w][2]
      <4>1. o \in Nat
        BY <1>1 DEF Geometry
      <4> QED
        BY <1>6, <1>7, <4>1
    <3> QED
      BY <1>9, <3>1, <3>2
  <2>2. CASE x # l
    <3>1. at2[x] = at[x] /\ at[x] # w
      BY <1>9, <1>10, <2>2
    <3>2. at[x] \in Writers => wps2[at[x]] = wps[at[x]]
      BY <1>7, <3>1
    <3> QED
      BY <1>2, <3>1, <3>2
  <2> QED
    BY <2>1, <2>2
<1>14. LostPages(at2, st)
  <2> SUFFICES ASSUME NEW x \in Lines, at2[x] \in {"queue", "collected"}
               PROVE  \E o \in Offs : st[<<x, o>>] = "INVALID"
    BY DEF LostPages
  <2>1. x # l
    BY <1>9
  <2>2. at[x] \in {"queue", "collected"}
    BY <1>9, <2>1
  <2> QED
    BY <1>2, <2>2
<1>15. Counted(st, vp, ip) /\ QueueOK(q, vp)
  BY LayoutFacts
<1>16. Layout(at2, st, vp, ip, fr2, fu, q, wps2, gc)
  BY <1>11, <1>12, <1>13, <1>14, <1>15 DEF Layout
<1> QED
  BY <1>3, <1>6, <1>7, <1>16 DEF LaidOut

\* A page is written at a write pointer (PutPage), which may stay without a line.
LEMMA PutKeeps ==
  ASSUME NEW at, NEW s, NEW w \in Writers, NEW lpn, NEW gc,
         Layout(at, s.status, s.vpc, s.ipc, free, s.full, s.pq, wp, gc),
         wp[w] # NoPage, ~halted, halted \in BOOLEAN, PutPage(w, lpn, s)
  PROVE  /\ LaidOut(status', vpc', ipc', free', full', victim_pq', wp', gc)
         /\ halted' \in BOOLEAN
         /\ halted' => free = <<>>
         /\ ~halted' => wp'[w] # NoPage
         /\ \A v \in Writers : v # w => wp'[v] = wp[v]
         /\ wp[w] \in Pages /\ s.status[wp[w]] = "FREE"
<1>1. PICK st, vp, ip, fu, q : /\ st = s.status /\ vp = s.vpc /\ ip = s.ipc
                               /\ fu = s.full /\ q = s.pq
  OBVIOUS
<1>2. PICK p, l : p = wp[w] /\ l = p[1]
  OBVIOUS
<1>3. Layout(at, st, vp, ip, free, fu, q, wp, gc)
  BY <1>1
<1>4. PICK st2, vp2 : Validated(st, st2, vp, vp2, p, l)
  BY DEF Validated
<1>5. status' = st2 /\ vpc' = vp2 /\ ipc' = ip /\ Advance(w, p, s, vp2)
  BY <1>1, <1>2, <1>4 DEF PutPage, Validated
<1>6. wp \in [Writers -> Pages \cup {NoPage}] /\ free \in Seq(Lines)
  BY <1>3, LayoutFacts
<1>7. p \in Pages /\ st[p] = "FREE"
  <2>1. Written(at, st, st2, vp2, ip, q, w, p, l)
    BY <1>2, <1>3, <1>4, PageAhead
  <2> QED
    BY <2>1 DEF Written
<1>8. CASE p[2] < PgsPerLine - 1
  <2>1. /\ wp' = [wp EXCEPT ![w] = <<l, p[2] + 1>>]
        /\ full' = fu /\ victim_pq' = q /\ free' = free /\ halted' = halted
    BY <1>1, <1>2, <1>5, <1>8 DEF Advance
  <2>2. PICK wps2 : Pointed(wp, wps2, w, <<l, p[2] + 1>>)
    BY DEF Pointed
  <2>3. /\ Layout(at, st2, vp2, ip, free, fu, q, wps2, gc)
        /\ wps2[w] # NoPage /\ \A v \in Writers \ {w} : wps2[v] = wp[v]
    BY <1>2, <1>3, <1>4, <1>8, <2>2, PutMiddle
  <2>4. wp' = wps2
    BY <2>1, <2>2 DEF Pointed
  <2>5. LaidOut(status', vpc', ipc', free', full', victim_pq', wp', gc)
    BY <1>5, <2>1, <2>3, <2>4 DEF LaidOut
  <2> QED
    BY <1>1, <1>2, <1>7, <2>1, <2>3, <2>4, <2>5
<1>9. CASE ~(p[2] < PgsPerLine - 1)
  <2>1. PICK fu2, q2, wps1 :
          Retired(fu, fu2, q, q2, l, vp2) /\ Pointed(wp, wps1, w, NoPage)
    BY DEF Retired, Pointed
  <2>2. /\ LaidOut(st2, vp2, ip, free, fu2, q2, wps1, gc)
        /\ AllValid(l, vp2) \/ ip[l] # 0
    BY <1>2, <1>3, <1>4, <1>9, <2>1, LeaveKeeps
  <2>3. full' = fu2 /\ victim_pq' = q2
    <3>1. IF AllValid(p[1], vp2)
            THEN full' = s.full \cup {p[1]} /\ victim_pq' = s.pq
            ELSE full' = s.full /\ victim_pq' = pqueue_insert(s.pq, p[1], vp2)
      BY <1>5, <1>9 DEF Advance
    <3> QED
      BY <1>1, <1>2, <2>1, <3>1 DEF Retired
  <2>4. /\ free' = IF free = <<>> THEN free ELSE Tail(free)
        /\ wp' = [wp EXCEPT ![w] = IF free = <<>> THEN NoPage ELSE <<Head(free), 0>>]
        /\ halted' = (free = <<>> \/ (~AllValid(p[1], vp2) /\ s.ipc[p[1]] = 0))
    BY <1>5, <1>9 DEF Advance
  <2>5. halted' = (free = <<>>)
    BY <1>1, <1>2, <2>2, <2>4
  <2>6. wps1[w] = NoPage /\ wps1 \in [Writers -> Pages \cup {NoPage}]
        /\ \A v \in Writers : v # w => wps1[v] = wp[v]
    BY <1>6, <2>1 DEF Pointed
  <2>7. CASE free = <<>>
    <3>1. wp' = wps1 /\ free' = free
      BY <2>1, <2>4, <2>7 DEF Pointed
    <3>2. LaidOut(status', vpc', ipc', free', full', victim_pq', wp', gc)
      BY <1>5, <2>2, <2>3, <3>1
    <3> QED
      BY <1>1, <1>2, <1>7, <2>5, <2>6, <2>7, <3>1, <3>2
  <2>8. CASE free # <<>>
    <3>1. PICK wps2 : Pointed(wps1, wps2, w, <<Head(free), 0>>)
      BY DEF Pointed
    <3>2. PICK at2 : Layout(at2, st2, vp2, ip, free, fu2, q2, wps1, gc)
      BY <2>2 DEF LaidOut
    <3>3. LaidOut(st2, vp2, ip, Tail(free), fu2, q2, wps2, gc) /\ wps2[w] # NoPage
      BY <2>6, <2>8, <3>1, <3>2, OpenKeeps
    <3>4. wp' = wps2 /\ free' = Tail(free)
      <4>1. PICK x : x = <<Head(free), 0>>
        OBVIOUS
      <4>2. wp' = [wp EXCEPT ![w] = x] /\ free' = Tail(free)
        BY <2>4, <2>8, <4>1
      <4>3. wps2 = [[wp EXCEPT ![w] = NoPage] EXCEPT ![w] = x]
        BY <2>1, <3>1, <4>1 DEF Pointed
      <4>4. [[wp EXCEPT ![w] = NoPage] EXCEPT ![w] = x] = [wp EXCEPT ![w] = x]
        BY <1>6
      <4> QED
        BY <4>2, <4>3, <4>4
    <3>5. LaidOut(status', vpc', ipc', free', full', victim_pq', wp', gc)
      BY <1>5, <2>3, <3>3, <3>4
    <3>6. \A v \in Writers : v # w => wp'[v] = wp[v]
      BY <2>6, <3>1, <3>4 DEF Pointed
    <3> QED
      BY <1>1, <1>2, <1>7, <2>5, <2>8, <3>3, <3>4, <3>5, <3>6
  <2> QED
    BY <2>7, <2>8
<1> QED
  BY <1>8, <1>9

\* A victim leaves the queue to be collected.
LEMMA CollectKeeps ==
  ASSUME NEW at, NEW st, NEW vp, NEW ip, NEW fr, NEW fu, NEW q, NEW wps,
         Layout(at, st, vp, ip, fr, fu, q, wps, {}),
         q.d # <<>>, NEW v, NEW h, Popped(q, vp, v, h)
  PROVE  /\ LaidOut(st, vp, ip, fr, fu, h, wps, {v})
         /\ v \in Lines /\ ip[v] \in 1 .. PgsPerLine
<1>1. /\ st \in [Pages -> Statuses]
      /\ fr \in Seq(Lines) /\ fu \subseteq Lines
      /\ wps \in [Writers -> Pages \cup {NoPage}]
      /\ Counted(st, vp, ip) /\ QueueOK(q, vp)
      /\ at \in [Lines -> Spots] /\ Distinct(fr)
      /\ \A x \in Lines : /\ x \in Elems(fr) <=> at[x] = "free"
                          /\ x \in fu <=> at[x] = "full"
                          /\ x \in Elems(q.d) <=> at[x] = "queue"
                          /\ x \in {} <=> at[x] = "collected"
                          /\ \A w \in Writers : (wps[w] # NoPage /\ wps[w][1] = x) <=> at[x] = w
      /\ \A x \in Lines, o \in Offs :
           /\ at[x] = "free" => st[<<x, o>>] = "FREE"
           /\ at[x] \in Writers => (st[<<x, o>>] = "FREE" <=> o >= wps[at[x]][2])
           /\ at[x] = "full" => st[<<x, o>>] = "VALID"
           /\ at[x] \in {"queue", "collected"} => st[<<x, o>>] # "FREE"
      /\ \A x \in Lines : at[x] \in {"queue", "collected"} => \E o \in Offs : st[<<x, o>>] = "INVALID"
  BY LayoutFacts
<1>2. vp \in [Lines -> Nat] /\ ip \in [Lines -> 0 .. PgsPerLine]
  BY <1>1, CountedTypes
<1>3. v \in Elems(q.d) /\ v \in Lines /\ QueueOK(h, vp) /\ Elems(h.d) = Elems(q.d) \ {v}
  <2>1. QueueOK(q, vp) /\ vp \in [Lines -> Nat]
    BY <1>1, <1>2
  <2> QED
    BY <2>1, QueuePop
<1>4. at[v] = "queue"
  BY <1>1, <1>3
<1>5. PICK at2 : at2 = [at EXCEPT ![v] = "collected"]
  OBVIOUS
<1>6. at2 \in [Lines -> Spots] /\ at2[v] = "collected" /\ \A x \in Lines : x # v => at2[x] = at[x]
  BY <1>1, <1>3, <1>5 DEF Spots
<1>7. LayoutTypes(st, fr, fu, wps, {v})
  BY <1>1, <1>3 DEF LayoutTypes
<1>8. Sited(at2, fr, fu, h, wps, {v})
  <2> SUFFICES ASSUME NEW x \in Lines
               PROVE  /\ x \in Elems(fr) <=> at2[x] = "free"
                      /\ x \in fu <=> at2[x] = "full"
                      /\ x \in Elems(h.d) <=> at2[x] = "queue"
                      /\ x \in {v} <=> at2[x] = "collected"
                      /\ \A w \in Writers : (wps[w] # NoPage /\ wps[w][1] = x) <=> at2[x] = w
    BY <1>1, <1>6 DEF Sited
  <2>1. CASE x = v
    <3>1. at2[x] = "collected" /\ at[x] = "queue"
      BY <1>4, <1>6, <2>1
    <3>2. x \notin Elems(fr) /\ x \notin fu /\ x \notin Elems(h.d)
      BY <1>1, <1>3, <2>1, <3>1
    <3>3. \A w \in Writers : w # at[x] /\ w # at2[x]
      BY <3>1 DEF Writers
    <3> QED
      BY <1>1, <2>1, <3>1, <3>2, <3>3
  <2>2. CASE x # v
    <3>1. at2[x] = at[x] /\ (x \in Elems(h.d) <=> x \in Elems(q.d)) /\ at[x] # "collected"
      BY <1>1, <1>3, <1>6, <2>2
    <3> QED
      BY <1>1, <2>2, <3>1
  <2> QED
    BY <2>1, <2>2
<1>9. PagesOK(at2, st, wps)
  <2> SUFFICES ASSUME NEW x \in Lines, NEW o \in Offs
               PROVE  /\ at2[x] = "free" => st[<<x, o>>] = "FREE"
                      /\ at2[x] \in Writers => (st[<<x, o>>] = "FREE" <=> o >= wps[at2[x]][2])
                      /\ at2[x] = "full" => st[<<x, o>>] = "VALID"
                      /\ at2[x] \in {"queue", "collected"} => st[<<x, o>>] # "FREE"
    BY DEF PagesOK
  <2>1. CASE x = v
    <3>1. at2[x] = "collected" /\ at2[x] \notin Writers /\ at[x] = "queue"
      BY <1>4, <1>6, <2>1 DEF Writers
    <3> QED
      BY <1>1, <3>1
  <2>2. CASE x # v
    <3>1. at2[x] = at[x]
      BY <1>6, <2>2
    <3> QED
      BY <1>1, <3>1
  <2> QED
    BY <2>1, <2>2
<1>10. LostPages(at2, st)
  <2> SUFFICES ASSUME NEW x \in Lines, at2[x] \in {"queue", "collected"}
               PROVE  \E o \in Offs : st[<<x, o>>] = "INVALID"
    BY DEF LostPages
  <2>1. at[x] \in {"queue", "collected"}
    BY <1>4, <1>6
  <2> QED
    BY <1>1, <2>1
<1>11. Layout(at2, st, vp, ip, fr, fu, h, wps, {v})
  BY <1>1, <1>3, <1>7, <1>8, <1>9, <1>10 DEF Layout
<1>12. ip[v] \in 1 .. PgsPerLine
  <2>1. \E o \in Offs : st[<<v, o>>] = "INVALID"
    BY <1>1, <1>3, <1>4
  <2>2. ip[v] = 0 <=> \A o \in Offs : st[<<v, o>>] # "INVALID"
    BY <1>1, <1>3, CountedLine
  <2>3. ip[v] \in 0 .. PgsPerLine /\ ip[v] # 0
    BY <1>2, <1>3, <2>1, <2>2
  <2>4. PgsPerLine \in Nat
    BY GeometryHolds DEF Geometry
  <2> QED
    BY <2>3, <2>4
<1> QED
  BY <1>3, <1>11, <1>12 DEF LaidOut

\* mark_block_free and mark_line_free of line v.
Erased(st, st2, vp, vp2, ip, ip2, v) ==
  /\ st2 = [p \in Pages |-> IF p[1] = v THEN "FREE" ELSE st[p]]
  /\ vp2 = [vp EXCEPT ![v] = 0]
  /\ ip2 = [ip EXCEPT ![v] = 0]

\* The collected line is free again.
LEMMA FreeKeeps ==
  ASSUME NEW at, NEW st, NEW vp, NEW ip, NEW fr, NEW fu, NEW q, NEW wps, NEW v \in Lines,
         Layout(at, st, vp, ip, fr, fu, q, wps, {v}),
         NEW st2, NEW vp2, NEW ip2, Erased(st, st2, vp, vp2, ip, ip2, v)
  PROVE  LaidOut(st2, vp2, ip2, Append(fr, v), fu, q, wps, {})
<1>1. /\ st \in [Pages -> Statuses]
      /\ fr \in Seq(Lines) /\ fu \subseteq Lines
      /\ wps \in [Writers -> Pages \cup {NoPage}]
      /\ Counted(st, vp, ip) /\ QueueOK(q, vp)
      /\ at \in [Lines -> Spots] /\ Distinct(fr)
      /\ \A x \in Lines : /\ x \in Elems(fr) <=> at[x] = "free"
                          /\ x \in fu <=> at[x] = "full"
                          /\ x \in Elems(q.d) <=> at[x] = "queue"
                          /\ x \in {v} <=> at[x] = "collected"
                          /\ \A w \in Writers : (wps[w] # NoPage /\ wps[w][1] = x) <=> at[x] = w
      /\ \A x \in Lines, o \in Offs :
           /\ at[x] = "free" => st[<<x, o>>] = "FREE"
           /\ at[x] \in Writers => (st[<<x, o>>] = "FREE" <=> o >= wps[at[x]][2])
           /\ at[x] = "full" => st[<<x, o>>] = "VALID"
           /\ at[x] \in {"queue", "collected"} => st[<<x, o>>] # "FREE"
      /\ \A x \in Lines : at[x] \in {"queue", "collected"} => \E o \in Offs : st[<<x, o>>] = "INVALID"
  BY DEF Layout, LayoutTypes, Sited, PagesOK, LostPages
<1>2. Geometry
  BY GeometryHolds
<1>3. at[v] = "collected" /\ v \notin Elems(fr) /\ v \notin fu /\ v \notin Elems(q.d)
      /\ \A x \in Lines : x # v => at[x] # "collected"
  BY <1>1
<1>4. /\ st2 \in [Pages -> Statuses]
      /\ \A o \in Offs : st2[<<v, o>>] = "FREE"
      /\ \A x \in Lines, o \in Offs : x # v => st2[<<x, o>>] = st[<<x, o>>]
  <2>1. /\ \A x \in Lines, o \in Offs : <<x, o>> \in Pages
        /\ st2 = [p \in Pages |-> IF p[1] = v THEN "FREE" ELSE st[p]]
    BY <1>2 DEF Geometry, Erased
  <2>2. \A p \in Pages : st2[p] = IF p[1] = v THEN "FREE" ELSE st[p]
    BY <2>1
  <2>3. \A x \in Lines, o \in Offs : st2[<<x, o>>] = IF x = v THEN "FREE" ELSE st[<<x, o>>]
    BY <2>1, <2>2
  <2>4. st2 \in [Pages -> Statuses]
    BY <1>1, <2>1 DEF Statuses
  <2> QED
    BY <2>3, <2>4
<1>5. PICK fr2 : fr2 = Append(fr, v)
  OBVIOUS
<1>6. fr2 \in Seq(Lines) /\ Elems(fr2) = Elems(fr) \cup {v} /\ Distinct(fr2)
  BY <1>1, <1>3, <1>5, AppendElems
<1>7. Counted(st2, vp2, ip2)
  <2>1. /\ vp = [l \in Lines |-> Count(Offs, st, l, "VALID")]
        /\ ip = [l \in Lines |-> Count(Offs, st, l, "INVALID")]
    BY <1>1 DEF Counted
  <2>2. ASSUME NEW l \in Lines
        PROVE  vp2[l] = Count(Offs, st2, l, "VALID") /\ ip2[l] = Count(Offs, st2, l, "INVALID")
    <3>1. CASE l = v
      <4>1. \A s : Count(Offs, st2, l, s) = 0 <=> \A o \in Offs : st2[<<l, o>>] # s
        BY <1>2, <1>4, CountFacts
      <4>2. Count(Offs, st2, l, "VALID") = 0 /\ Count(Offs, st2, l, "INVALID") = 0
        BY <1>4, <3>1, <4>1
      <4>3. vp2[l] = 0 /\ ip2[l] = 0
        BY <2>1, <3>1 DEF Erased
      <4> QED
        BY <4>2, <4>3
    <3>2. CASE l # v
      <4>1. \A o \in Offs : st2[<<l, o>>] = st[<<l, o>>]
        BY <1>4, <3>2
      <4>2. \A s : Count(Offs, st2, l, s) = Count(Offs, st, l, s)
        BY <4>1, CountSame
      <4>3. vp2[l] = vp[l] /\ ip2[l] = ip[l]
        BY <2>1, <3>2 DEF Erased
      <4> QED
        BY <2>1, <4>2, <4>3
    <3> QED
      BY <3>1, <3>2
  <2>3. vp2 = [l \in Lines |-> vp2[l]] /\ ip2 = [l \in Lines |-> ip2[l]]
    BY <2>1 DEF Erased
  <2>4. /\ [l \in Lines |-> vp2[l]] = [l \in Lines |-> Count(Offs, st2, l, "VALID")]
        /\ [l \in Lines |-> ip2[l]] = [l \in Lines |-> Count(Offs, st2, l, "INVALID")]
    BY <2>2
  <2> QED
    BY <2>3, <2>4 DEF Counted
<1>8. QueueOK(q, vp2)
  <2>1. \A x \in Lines : x # v => vp2[x] = vp[x]
    <3>1. vp \in [Lines -> Nat]
      BY <1>1, CountedTypes
    <3> QED
      BY <3>1 DEF Erased
  <2>2. SamePris(q, vp, vp2)
    BY <1>3, <2>1 DEF SamePris
  <2>3. QueueOK(q, vp)
    BY <1>1
  <2> QED
    BY ONLY <2>2, <2>3, SameQueue
<1>9. PICK at2 : at2 = [at EXCEPT ![v] = "free"]
  OBVIOUS
<1>10. at2 \in [Lines -> Spots] /\ at2[v] = "free" /\ \A x \in Lines : x # v => at2[x] = at[x]
  BY <1>1, <1>9 DEF Spots
<1>11. LayoutTypes(st2, fr2, fu, wps, {})
  BY <1>1, <1>4, <1>6 DEF LayoutTypes
<1>12. Sited(at2, fr2, fu, q, wps, {})
  <2> SUFFICES ASSUME NEW x \in Lines
               PROVE  /\ x \in Elems(fr2) <=> at2[x] = "free"
                      /\ x \in fu <=> at2[x] = "full"
                      /\ x \in Elems(q.d) <=> at2[x] = "queue"
                      /\ x \in {} <=> at2[x] = "collected"
                      /\ \A w \in Writers : (wps[w] # NoPage /\ wps[w][1] = x) <=> at2[x] = w
    BY <1>6, <1>10 DEF Sited
  <2>1. CASE x = v
    <3>1. at2[x] = "free" /\ x \in Elems(fr2)
      BY <1>6, <1>10, <2>1
    <3>2. x \notin fu /\ x \notin Elems(q.d)
      BY <1>3, <2>1
    <3>3. \A w \in Writers : w # "collected" /\ w # "free"
      BY DEF Writers
    <3> QED
      BY <1>1, <1>3, <2>1, <3>1, <3>2, <3>3
  <2>2. CASE x # v
    <3>1. at2[x] = at[x] /\ (x \in Elems(fr2) <=> x \in Elems(fr)) /\ at[x] # "collected"
      BY <1>3, <1>6, <1>10, <2>2
    <3> QED
      BY <1>1, <3>1
  <2> QED
    BY <2>1, <2>2
<1>13. PagesOK(at2, st2, wps)
  <2> SUFFICES ASSUME NEW x \in Lines, NEW o \in Offs
               PROVE  /\ at2[x] = "free" => st2[<<x, o>>] = "FREE"
                      /\ at2[x] \in Writers => (st2[<<x, o>>] = "FREE" <=> o >= wps[at2[x]][2])
                      /\ at2[x] = "full" => st2[<<x, o>>] = "VALID"
                      /\ at2[x] \in {"queue", "collected"} => st2[<<x, o>>] # "FREE"
    BY DEF PagesOK
  <2>1. CASE x = v
    <3>1. at2[x] = "free" /\ at2[x] \notin Writers /\ st2[<<x, o>>] = "FREE"
      BY <1>4, <1>10, <2>1 DEF Writers
    <3> QED
      BY <3>1
  <2>2. CASE x # v
    <3>1. at2[x] = at[x] /\ st2[<<x, o>>] = st[<<x, o>>]
      BY <1>4, <1>10, <2>2
    <3> QED
      BY <1>1, <3>1
  <2> QED
    BY <2>1, <2>2
<1>14. LostPages(at2, st2)
  <2> SUFFICES ASSUME NEW x \in Lines, at2[x] \in {"queue", "collected"}
               PROVE  \E o \in Offs : st2[<<x, o>>] = "INVALID"
    BY DEF LostPages
  <2>1. x # v /\ at[x] \in {"queue", "collected"}
    BY <1>10
  <2>2. PICK o \in Offs : st[<<x, o>>] = "INVALID"
    BY <1>1, <2>1
  <2> QED
    BY <1>4, <2>1, <2>2
<1>15. Layout(at2, st2, vp2, ip2, fr2, fu, q, wps, {})
  BY <1>7, <1>8, <1>11, <1>12, <1>13, <1>14 DEF Layout
<1> QED
  BY <1>5, <1>15 DEF LaidOut

-----------------------------------------------------------------------------
(* The tables.                                                             *)

\* What tables that agree say, without the definition.
LEMMA AgreeFacts ==
  ASSUME NEW mt, NEW rm, NEW st, NEW moved, Agree(mt, rm, st, moved)
  PROVE  /\ \A lpn \in Lpns : mt[lpn] \in Pages =>
              st[mt[lpn]] = "VALID" /\ rm[mt[lpn]] = lpn /\ mt[lpn] \notin moved
         /\ \A p \in Pages : st[p] = "VALID" /\ p \notin moved => rm[p] \in Lpns /\ mt[rm[p]] = p
BY DEF Agree

\* The old page of a logical page is given up, or moved out of the victim:
\* the tables agree but for this logical page.
AgreeBut(l, mt, rm, st, moved) ==
  /\ \A lpn \in Lpns : lpn # l /\ mt[lpn] \in Pages =>
       st[mt[lpn]] = "VALID" /\ rm[mt[lpn]] = lpn /\ mt[lpn] \notin moved
  /\ \A p \in Pages : st[p] = "VALID" /\ p \notin moved => rm[p] \in Lpns \ {l} /\ mt[rm[p]] = p

\* Logical page l is written to page p (PutPage).
Put(mt, mt2, rm, rm2, st, st2, l, p) ==
  /\ mt2 = [mt EXCEPT ![l] = p]
  /\ rm2 = [rm EXCEPT ![p] = l]
  /\ st2 = [st EXCEPT ![p] = "VALID"]

LEMMA PutAgrees ==
  ASSUME NEW l \in Lpns, NEW mt \in [Lpns -> Pages \cup {UNMAPPED_PPA}],
         NEW rm \in [Pages -> Lpns \cup {INVALID_LPN}],
         NEW st \in [Pages -> Statuses], NEW moved, AgreeBut(l, mt, rm, st, moved),
         NEW p \in Pages, st[p] = "FREE", p \notin moved,
         NEW mt2, NEW rm2, NEW st2, Put(mt, mt2, rm, rm2, st, st2, l, p)
  PROVE  /\ mt2 \in [Lpns -> Pages \cup {UNMAPPED_PPA}]
         /\ rm2 \in [Pages -> Lpns \cup {INVALID_LPN}]
         /\ Agree(mt2, rm2, st2, moved)
<1>1. mt2 \in [Lpns -> Pages \cup {UNMAPPED_PPA}] /\ mt2[l] = p
      /\ \A x \in Lpns : x # l => mt2[x] = mt[x]
  BY DEF Put
<1>2. rm2 \in [Pages -> Lpns \cup {INVALID_LPN}] /\ rm2[p] = l
      /\ \A x \in Pages : x # p => rm2[x] = rm[x]
  BY DEF Put
<1>3. st2[p] = "VALID" /\ \A x \in Pages : x # p => st2[x] = st[x]
  BY DEF Put
<1>4. /\ \A lpn \in Lpns : lpn # l /\ mt[lpn] \in Pages =>
           st[mt[lpn]] = "VALID" /\ rm[mt[lpn]] = lpn /\ mt[lpn] \notin moved
      /\ \A x \in Pages : st[x] = "VALID" /\ x \notin moved => rm[x] \in Lpns \ {l} /\ mt[rm[x]] = x
  BY DEF AgreeBut
<1>5. ASSUME NEW x \in Lpns, mt2[x] \in Pages
      PROVE  st2[mt2[x]] = "VALID" /\ rm2[mt2[x]] = x /\ mt2[x] \notin moved
  <2>1. CASE x = l
    BY <1>1, <1>2, <1>3, <2>1
  <2>2. CASE x # l
    <3>1. PICK r : r = mt[x]
      OBVIOUS
    <3>2. mt2[x] = r /\ r \in Pages
      BY <1>1, <1>5, <2>2, <3>1
    <3>3. st[r] = "VALID" /\ rm[r] = x /\ r \notin moved
      BY <1>4, <2>2, <3>1, <3>2
    <3>4. r # p
      BY <3>3
    <3> QED
      BY <1>2, <1>3, <3>2, <3>3, <3>4
  <2> QED
    BY <2>1, <2>2
<1>6. ASSUME NEW x \in Pages, st2[x] = "VALID", x \notin moved
      PROVE  rm2[x] \in Lpns /\ mt2[rm2[x]] = x
  <2>1. CASE x = p
    BY <1>1, <1>2, <2>1
  <2>2. CASE x # p
    <3>1. PICK y : y = rm[x]
      OBVIOUS
    <3>2. rm2[x] = y /\ st[x] = "VALID"
      BY <1>2, <1>3, <1>6, <2>2, <3>1
    <3>3. y \in Lpns \ {l} /\ mt[y] = x
      BY <1>4, <1>6, <3>1, <3>2
    <3> QED
      BY <1>1, <3>2, <3>3
  <2> QED
    BY <2>1, <2>2
<1> QED
  BY <1>1, <1>2, <1>5, <1>6 DEF Agree

-----------------------------------------------------------------------------
(* The steps.                                                              *)

\* What a write finds when the old page has been given up (After).
LEMMA AfterKeeps ==
  ASSUME NEW at, Layout(at, status, vpc, ipc, free, full, victim_pq, wp, {}), TablesOK,
         MovedPages = {}, NEW lpn \in Lpns, NEW s, s = After(lpn)
  PROVE  /\ LaidOut(s.status, s.vpc, s.ipc, free, s.full, s.pq, wp, {})
         /\ s.rmap \in [Pages -> Lpns \cup {INVALID_LPN}] /\ s.status \in [Pages -> Statuses]
         /\ AgreeBut(lpn, maptbl, s.rmap, s.status, {})
<1>1. /\ maptbl \in [Lpns -> Pages \cup {UNMAPPED_PPA}]
      /\ rmap \in [Pages -> Lpns \cup {INVALID_LPN}]
      /\ Agree(maptbl, rmap, status, {})
  BY DEF TablesOK
<1>2. /\ \A x \in Lpns : maptbl[x] \in Pages => status[maptbl[x]] = "VALID" /\ rmap[maptbl[x]] = x
      /\ \A x \in Pages : status[x] = "VALID" => rmap[x] \in Lpns /\ maptbl[rmap[x]] = x
  BY <1>1 DEF Agree
<1>3. status \in [Pages -> Statuses]
  BY LayoutFacts
<1>4. PICK p, l : p = maptbl[lpn] /\ l = p[1]
  OBVIOUS
<1>5. CASE NoOld(lpn)
  <2>1. s = [rmap |-> rmap, status |-> status, vpc |-> vpc, ipc |-> ipc, full |-> full, pq |-> victim_pq]
    BY <1>5 DEF After
  <2>2. /\ s.rmap = rmap /\ s.status = status /\ s.vpc = vpc /\ s.ipc = ipc
        /\ s.full = full /\ s.pq = victim_pq
    BY ONLY <2>1
  <2>3. p = UNMAPPED_PPA
    BY <1>4, <1>5 DEF NoOld, mapped_ppa
  <2>4. UNMAPPED_PPA \notin Pages
    BY GeometryHolds DEF Geometry
  <2>5. AgreeBut(lpn, maptbl, rmap, status, {})
    BY <1>2, <1>4, <2>3, <2>4 DEF AgreeBut
  <2> QED
    BY <1>1, <1>3, <2>2, <2>5 DEF LaidOut
<1>6. CASE ~NoOld(lpn)
  <2>1. p \in Pages /\ status[p] = "VALID" /\ rmap[p] = lpn
    BY <1>1, <1>2, <1>4, <1>6 DEF NoOld, mapped_ppa
  <2>2. PICK st2, vp2, ip2, fu2, q2 :
          Invalidated(status, st2, vpc, vp2, ipc, ip2, full, fu2, victim_pq, q2, p, l)
    BY DEF Invalidated
  <2>3. LaidOut(st2, vp2, ip2, free, fu2, q2, wp, {})
    BY <1>4, <2>1, <2>2, InvalidateKeeps
  <2>4. /\ st2 = [status EXCEPT ![p] = "INVALID"]
        /\ vp2 = [vpc EXCEPT ![l] = @ - 1] /\ ip2 = [ipc EXCEPT ![l] = @ + 1]
        /\ fu2 = full \ {l}
        /\ q2 = QueueAfterInvalid(l, vp2)
    BY <2>2 DEF Invalidated, QueueAfterInvalid
  <2>5. PICK rm2 : rm2 = [rmap EXCEPT ![p] = INVALID_LPN]
    OBVIOUS
  <2>6. s = [rmap |-> rm2, status |-> st2, vpc |-> vp2, ipc |-> ip2, full |-> fu2, pq |-> q2]
    BY <1>4, <1>6, <2>4, <2>5 DEF After
  <2>7. /\ s.rmap = rm2 /\ s.status = st2 /\ s.vpc = vp2 /\ s.ipc = ip2
        /\ s.full = fu2 /\ s.pq = q2
    BY ONLY <2>6
  <2>8. rm2 \in [Pages -> Lpns \cup {INVALID_LPN}] /\ \A x \in Pages : x # p => rm2[x] = rmap[x]
    BY <1>1, <2>5
  <2>9. st2 \in [Pages -> Statuses] /\ st2[p] = "INVALID" /\ \A x \in Pages : x # p => st2[x] = status[x]
    BY <1>3, <2>1, <2>4 DEF Statuses
  <2>10. ASSUME NEW x \in Lpns, x # lpn, maptbl[x] \in Pages
         PROVE  st2[maptbl[x]] = "VALID" /\ rm2[maptbl[x]] = x
    <3>1. status[maptbl[x]] = "VALID" /\ rmap[maptbl[x]] = x
      BY <1>2, <2>10
    <3>2. maptbl[x] # p
      BY <2>1, <2>10, <3>1
    <3> QED
      BY <2>8, <2>9, <2>10, <3>1, <3>2
  <2>11. ASSUME NEW x \in Pages, st2[x] = "VALID"
         PROVE  rm2[x] \in Lpns \ {lpn} /\ maptbl[rm2[x]] = x
    <3>1. x # p
      BY <2>9, <2>11
    <3>2. rmap[x] \in Lpns /\ maptbl[rmap[x]] = x /\ rm2[x] = rmap[x]
      BY <1>2, <2>8, <2>9, <2>11, <3>1
    <3>3. rmap[x] # lpn
      BY <1>4, <3>1, <3>2
    <3> QED
      BY <3>2, <3>3
  <2>12. AgreeBut(lpn, maptbl, rm2, st2, {})
    BY <2>10, <2>11 DEF AgreeBut
  <2> QED
    BY <2>3, <2>7, <2>8, <2>9, <2>12
<1> QED
  BY <1>5, <1>6

\* No page is moved but by a collection.
LEMMA NoneMoved ==
  ASSUME job.kind # "gc"
  PROVE  MovedPages = {} /\ GcLines = {}
BY DEF MovedPages, Moved, GcLines

LEMMA WriteKeeps ==
  ASSUME ConvInv, NEW lpn \in Lpns, WritePage(lpn)
  PROVE  ConvInv' /\ (halted' => free = <<>>)
<1>1. LinesOK /\ TablesOK /\ FlowOK
  BY DEF ConvInv
<1>2. /\ job = Idle /\ ~halted /\ PutPage("USER", lpn, After(lpn))
      /\ credits' = credits - 1
      /\ job' = (IF credits' <= 0 THEN [Idle EXCEPT !.kind = "collect"] ELSE Idle)
      /\ refill' = refill
  BY DEF WritePage
<1>3. job.kind = "idle"
  BY <1>2 DEF Idle
<1>4. MovedPages = {} /\ GcLines = {}
  BY <1>3, NoneMoved
<1>5. PICK at : Layout(at, status, vpc, ipc, free, full, victim_pq, wp, {})
  BY <1>1, <1>4 DEF LinesOK, LaidOut
<1>6. PICK s : s = After(lpn)
  OBVIOUS
<1>7. /\ LaidOut(s.status, s.vpc, s.ipc, free, s.full, s.pq, wp, {})
      /\ s.rmap \in [Pages -> Lpns \cup {INVALID_LPN}] /\ s.status \in [Pages -> Statuses]
      /\ AgreeBut(lpn, maptbl, s.rmap, s.status, {})
  BY <1>1, <1>4, <1>5, <1>6, AfterKeeps
<1>8. PICK at2 : Layout(at2, s.status, s.vpc, s.ipc, free, s.full, s.pq, wp, {})
  BY <1>7 DEF LaidOut
<1>9. "USER" \in Writers /\ wp["USER"] # NoPage /\ halted \in BOOLEAN /\ PutPage("USER", lpn, s)
  BY <1>1, <1>2, <1>6 DEF FlowOK, Writers
<1>10. /\ LaidOut(status', vpc', ipc', free', full', victim_pq', wp', {})
       /\ halted' \in BOOLEAN
       /\ halted' => free = <<>>
       /\ ~halted' => wp'["USER"] # NoPage
       /\ \A v \in Writers : v # "USER" => wp'[v] = wp[v]
       /\ wp["USER"] \in Pages /\ s.status[wp["USER"]] = "FREE"
  BY <1>2, <1>8, <1>9, PutKeeps
<1>11. /\ job'.kind \in {"idle", "collect"} /\ job'.at = NoPage
       /\ job' = [kind |-> job'.kind, at |-> NoPage]
       /\ job'.kind = "collect" <=> credits' <= 0
  BY <1>2 DEF Idle
<1>12. MovedPages' = {} /\ GcLines' = {}
  BY <1>11 DEF MovedPages, Moved, GcLines
<1>13. LinesOK'
  BY <1>10, <1>12 DEF LinesOK
<1>14. TablesOK'
  <2>1. PICK p : p = wp["USER"]
    OBVIOUS
  <2>2. /\ maptbl' = [maptbl EXCEPT ![lpn] = p]
        /\ rmap' = [s.rmap EXCEPT ![p] = lpn]
        /\ status' = [s.status EXCEPT ![p] = "VALID"]
    BY <1>9, <2>1 DEF PutPage
  <2>3. maptbl \in [Lpns -> Pages \cup {UNMAPPED_PPA}]
    BY <1>1 DEF TablesOK
  <2>4. PICK rm, st : rm = s.rmap /\ st = s.status
    OBVIOUS
  <2>5. /\ rm \in [Pages -> Lpns \cup {INVALID_LPN}] /\ st \in [Pages -> Statuses]
        /\ AgreeBut(lpn, maptbl, rm, st, {}) /\ p \in Pages /\ st[p] = "FREE" /\ p \notin {}
    BY <1>7, <1>10, <2>1, <2>4
  <2>6. PICK mt2, rm2, st2 : Put(maptbl, mt2, rm, rm2, st, st2, lpn, p)
    BY DEF Put
  <2>7. /\ mt2 \in [Lpns -> Pages \cup {UNMAPPED_PPA}]
        /\ rm2 \in [Pages -> Lpns \cup {INVALID_LPN}]
        /\ Agree(mt2, rm2, st2, {})
    BY <2>3, <2>5, <2>6, PutAgrees
  <2>8. maptbl' = mt2 /\ rmap' = rm2 /\ status' = st2
    BY <2>2, <2>4, <2>6 DEF Put
  <2> QED
    BY <1>12, <2>7, <2>8 DEF TablesOK
<1>15. FlowOK'
  <2>1. /\ credits \in 0 .. PgsPerLine /\ refill \in 1 .. PgsPerLine
        /\ credits = 0 <=> job.kind # "idle"
        /\ ~halted => \A w \in Writers : wp[w] # NoPage
    BY <1>1 DEF FlowOK
  <2>2. PgsPerLine \in Nat
    BY GeometryHolds DEF Geometry
  <2>3. credits' \in 0 .. PgsPerLine /\ (credits' <= 0 <=> credits' = 0)
    BY <1>2, <1>3, <2>1, <2>2
  <2>4. ~halted' => \A w \in Writers : wp'[w] # NoPage
    BY <1>2, <1>10, <2>1
  <2>5. job' \in [kind : {"idle", "collect", "gc"}, at : Lines \X (0 .. PgsPerLine) \cup {NoPage}]
    BY <1>11
  <2> QED
    BY <1>2, <1>10, <1>11, <2>1, <2>3, <2>4, <2>5 DEF FlowOK
<1> QED
  BY <1>13, <1>14, <1>15, <1>10 DEF ConvInv

\* The collection in progress: the next page a of victim v, at offset k.
GcAt(v, k) ==
  /\ v \in Lines /\ k \in 0 .. PgsPerLine /\ k \in Nat
  /\ job = [kind |-> "gc", at |-> <<v, k>>]
  /\ GcLines = {v} /\ MovedPages = {p \in Pages : p[1] = v /\ p[2] < k}

LEMMA GcIs ==
  ASSUME FlowOK, job.kind = "gc"
  PROVE  \E v, k : GcAt(v, k) /\ job.at = <<v, k>> /\ v = job.at[1] /\ k = job.at[2]
<1>1. PICK a : a = job.at
  OBVIOUS
<1>2. a \in Lines \X (0 .. PgsPerLine)
  BY <1>1 DEF FlowOK
<1>3. PICK v, k : v = a[1] /\ k = a[2]
  OBVIOUS
<1>4. v \in Lines /\ k \in 0 .. PgsPerLine /\ a = <<v, k>>
  BY <1>2, <1>3
<1>5. PgsPerLine \in Nat
  BY GeometryHolds DEF Geometry
<1>6. k \in Nat
  BY <1>4, <1>5
<1>7. job = [kind |-> "gc", at |-> <<v, k>>]
  <2>1. job = [kind |-> job.kind, at |-> job.at]
    BY DEF FlowOK
  <2> QED
    BY <1>1, <1>4, <2>1
<1>8. GcLines = {v} /\ MovedPages = {p \in Pages : p[1] = v /\ p[2] < k}
  BY <1>1, <1>3 DEF GcLines, MovedPages, Moved
<1> QED
  BY <1>1, <1>3, <1>4, <1>6, <1>7, <1>8 DEF GcAt

\* The next page of the victim is passed.
LEMMA NextIs ==
  ASSUME NEW v, NEW k, GcAt(v, k), k < PgsPerLine, NextInVictim, NEW a, a = <<v, k>>
  PROVE  /\ GcLines' = {v} /\ MovedPages' = MovedPages \cup {a}
         /\ a \in Pages /\ a \notin MovedPages
         /\ job' = [kind |-> "gc", at |-> <<v, k + 1>>]
         /\ job'.kind = "gc" /\ job'.at \in Lines \X (0 .. PgsPerLine)
<1>1. v \in Lines /\ k \in Nat /\ k + 1 \in 0 .. PgsPerLine /\ PgsPerLine \in Nat
  BY GeometryHolds DEF GcAt, Geometry
<1>2. job = [kind |-> "gc", at |-> <<v, k>>]
  BY DEF GcAt
<1>3. job' = [kind |-> "gc", at |-> <<v, k + 1>>]
  <2>1. job' = [job EXCEPT !.at[2] = @ + 1]
    BY DEF NextInVictim
  <2>2. [job EXCEPT !.at[2] = @ + 1] = [job EXCEPT !.at = [<<v, k>> EXCEPT ![2] = k + 1]]
    BY <1>2
  <2>3. [<<v, k>> EXCEPT ![2] = k + 1] = <<v, k + 1>>
    OBVIOUS
  <2>4. PICK b : b = <<v, k + 1>>
    OBVIOUS
  <2>5. job' = [job EXCEPT !.at = b]
    BY <2>1, <2>2, <2>3, <2>4
  <2> QED
    BY <1>2, <2>4, <2>5
<1>4. job'.kind = "gc" /\ job'.at = <<v, k + 1>> /\ job'.at[1] = v /\ job'.at[2] = k + 1
  BY <1>3
<1>5. job'.at \in Lines \X (0 .. PgsPerLine)
  BY <1>1, <1>4
<1>6. k \in Offs /\ a \in Pages /\ a[1] = v /\ a[2] = k
  BY <1>1, GeometryHolds DEF Geometry
<1>7. MovedPages = {p \in Pages : p[1] = v /\ p[2] < k}
  BY DEF GcAt
<1>8. a \notin MovedPages
  BY <1>1, <1>6, <1>7
<1>9. MovedPages' = {p \in Pages : p[1] = v /\ p[2] < k + 1}
  BY <1>4 DEF MovedPages, Moved
<1>10. \A p \in Pages : (p[1] = v /\ p[2] < k + 1) <=> ((p[1] = v /\ p[2] < k) \/ p = a)
  <2> SUFFICES ASSUME NEW p \in Pages
               PROVE  (p[1] = v /\ p[2] < k + 1) <=> ((p[1] = v /\ p[2] < k) \/ p = a)
    OBVIOUS
  <2>1. p[2] \in Nat /\ p = <<p[1], p[2]>>
    BY GeometryHolds DEF Geometry
  <2>2. p = a <=> (p[1] = v /\ p[2] = k)
    BY <1>6, <2>1
  <2>3. p[2] < k + 1 <=> (p[2] < k \/ p[2] = k)
    BY <1>1, <2>1
  <2> QED
    BY <2>2, <2>3
<1>11. MovedPages' = MovedPages \cup {a}
  <2>1. \A p \in Pages : p \in MovedPages' <=> (p \in MovedPages \/ p = a)
    BY <1>7, <1>9, <1>10
  <2>2. MovedPages' \subseteq Pages /\ MovedPages \subseteq Pages
    BY <1>7, <1>9
  <2> QED
    BY <1>6, <2>1, <2>2
<1>12. GcLines' = {v}
  BY <1>4 DEF GcLines
<1> QED
  BY <1>3, <1>4, <1>5, <1>6, <1>8, <1>11, <1>12

LEMMA RefillKeeps ==
  ASSUME ConvInv, RefillCredits
  PROVE  ConvInv'
<1>1. LinesOK /\ TablesOK /\ FlowOK
  BY DEF ConvInv
<1>2. /\ job.kind = "collect" /\ credits' = credits + refill /\ job' = Idle
      /\ maptbl' = maptbl /\ rmap' = rmap /\ status' = status /\ vpc' = vpc /\ ipc' = ipc
      /\ free' = free /\ full' = full /\ victim_pq' = victim_pq /\ wp' = wp
      /\ refill' = refill /\ halted' = halted
  BY DEF RefillCredits, tables, counts
<1>3. MovedPages = {} /\ GcLines = {}
  BY <1>2, NoneMoved
<1>4. job'.kind = "idle" /\ job'.at = NoPage /\ job' = [kind |-> "idle", at |-> NoPage]
  BY <1>2 DEF Idle
<1>5. MovedPages' = {} /\ GcLines' = {}
  BY <1>4 DEF MovedPages, Moved, GcLines
<1>6. LinesOK'
  BY <1>1, <1>2, <1>3, <1>5 DEF LinesOK
<1>7. TablesOK'
  BY <1>1, <1>2, <1>3, <1>5 DEF TablesOK
<1>8. FlowOK'
  <2>1. /\ credits \in 0 .. PgsPerLine /\ refill \in 1 .. PgsPerLine
        /\ credits = 0 <=> job.kind # "idle"
        /\ halted \in BOOLEAN
        /\ ~halted => \A w \in Writers : wp[w] # NoPage
    BY <1>1 DEF FlowOK
  <2>2. PgsPerLine \in Nat
    BY GeometryHolds DEF Geometry
  <2>3. credits' \in 0 .. PgsPerLine /\ credits' # 0
    BY <1>2, <2>1, <2>2
  <2>4. job' \in [kind : {"idle", "collect", "gc"}, at : Lines \X (0 .. PgsPerLine) \cup {NoPage}]
    BY <1>4
  <2> QED
    BY <1>2, <1>4, <2>1, <2>3, <2>4 DEF FlowOK
<1> QED
  BY <1>6, <1>7, <1>8 DEF ConvInv

LEMMA SelectKeeps ==
  ASSUME ConvInv, SelectVictim
  PROVE  ConvInv'
<1>1. LinesOK /\ TablesOK /\ FlowOK
  BY DEF ConvInv
<1>2. PICK v : v = pqueue_peek(victim_pq)
  OBVIOUS
<1>3. /\ job.kind = "collect" /\ pqueue_size(victim_pq) > 0
      /\ victim_pq' = [pqueue_pop(victim_pq, vpc) EXCEPT !.pos[v] = 0]
      /\ refill' = ipc[v] /\ job' = [kind |-> "gc", at |-> <<v, 0>>]
      /\ maptbl' = maptbl /\ rmap' = rmap /\ status' = status /\ vpc' = vpc /\ ipc' = ipc
      /\ free' = free /\ full' = full /\ wp' = wp
      /\ credits' = credits /\ halted' = halted
  BY <1>2 DEF SelectVictim, tables, counts, Gain
<1>4. MovedPages = {} /\ GcLines = {}
  BY <1>3, NoneMoved
<1>5. PICK at : Layout(at, status, vpc, ipc, free, full, victim_pq, wp, {})
  BY <1>1, <1>4 DEF LinesOK, LaidOut
<1>6. victim_pq.d # <<>>
  BY <1>3 DEF pqueue_size
<1>7. Popped(victim_pq, vpc, v, victim_pq')
  BY <1>2, <1>3 DEF Popped
<1>8. /\ LaidOut(status, vpc, ipc, free, full, victim_pq', wp, {v})
      /\ v \in Lines /\ ipc[v] \in 1 .. PgsPerLine
  BY <1>5, <1>6, <1>7, CollectKeeps
<1>9. /\ job'.kind = "gc" /\ job'.at = <<v, 0>> /\ job'.at[1] = v /\ job'.at[2] = 0
  BY <1>3
<1>10. PgsPerLine \in Nat /\ \A p \in Pages : ~(p[2] < 0)
  BY GeometryHolds DEF Geometry
<1>11. GcLines' = {v} /\ MovedPages' = {}
  BY <1>9, <1>10 DEF MovedPages, Moved, GcLines
<1>12. LinesOK'
  BY <1>3, <1>8, <1>11 DEF LinesOK
<1>13. TablesOK'
  BY <1>1, <1>3, <1>4, <1>11 DEF TablesOK
<1>14. FlowOK'
  <2>1. /\ credits \in 0 .. PgsPerLine /\ credits = 0
        /\ halted \in BOOLEAN
        /\ ~halted => \A w \in Writers : wp[w] # NoPage
    BY <1>1, <1>3 DEF FlowOK
  <2>2. job'.at \in Lines \X (0 .. PgsPerLine)
    BY <1>8, <1>9, <1>10
  <2>3. job' \in [kind : {"idle", "collect", "gc"}, at : Lines \X (0 .. PgsPerLine) \cup {NoPage}]
    BY <1>3, <1>9, <2>2
  <2> QED
    BY <1>3, <1>8, <1>9, <2>1, <2>2, <2>3 DEF FlowOK
<1> QED
  BY <1>12, <1>13, <1>14 DEF ConvInv

LEMMA SkipKeeps ==
  ASSUME ConvInv, SkipPage
  PROVE  ConvInv'
<1>1. LinesOK /\ TablesOK /\ FlowOK
  BY DEF ConvInv
<1>2. /\ job.kind = "gc" /\ job.at[2] < PgsPerLine /\ status[job.at] # "VALID" /\ NextInVictim
      /\ maptbl' = maptbl /\ rmap' = rmap /\ status' = status /\ vpc' = vpc /\ ipc' = ipc
      /\ free' = free /\ full' = full /\ wp' = wp /\ victim_pq' = victim_pq
      /\ credits' = credits /\ refill' = refill /\ halted' = halted
  BY DEF SkipPage, InVictim, tables, counts, flow
<1>3. PICK v, k : GcAt(v, k) /\ job.at = <<v, k>> /\ v = job.at[1] /\ k = job.at[2]
  BY <1>1, <1>2, GcIs
<1>4. PICK a : a = <<v, k>>
  OBVIOUS
<1>5. /\ GcLines' = {v} /\ MovedPages' = MovedPages \cup {a}
      /\ a \in Pages /\ a \notin MovedPages
      /\ job' = [kind |-> "gc", at |-> <<v, k + 1>>]
      /\ job'.kind = "gc" /\ job'.at \in Lines \X (0 .. PgsPerLine)
  BY <1>2, <1>3, <1>4, NextIs
<1>6. GcLines = {v}
  BY <1>3 DEF GcAt
<1>7. LinesOK'
  BY <1>1, <1>2, <1>5, <1>6 DEF LinesOK
<1>8. TablesOK'
  <2>1. Agree(maptbl, rmap, status, MovedPages)
    BY <1>1 DEF TablesOK
  <2>2. status[a] # "VALID"
    BY <1>2, <1>3, <1>4
  <2>3. PICK m : m = MovedPages \cup {a}
    OBVIOUS
  <2>4. Agree(maptbl, rmap, status, m)
    <3>1. \A lpn \in Lpns : maptbl[lpn] \in Pages =>
            status[maptbl[lpn]] = "VALID" /\ rmap[maptbl[lpn]] = lpn /\ maptbl[lpn] \notin MovedPages
      BY <2>1 DEF Agree
    <3>2. \A lpn \in Lpns : maptbl[lpn] \in Pages => maptbl[lpn] # a
      BY <2>2, <3>1
    <3>3. \A p \in Pages : status[p] = "VALID" /\ p \notin m => rmap[p] \in Lpns /\ maptbl[rmap[p]] = p
      BY <2>1, <2>3 DEF Agree
    <3> QED
      BY <2>3, <3>1, <3>2, <3>3 DEF Agree
  <2> QED
    BY <1>1, <1>2, <1>5, <2>3, <2>4 DEF TablesOK
<1>9. FlowOK'
  <2>1. job' \in [kind : {"idle", "collect", "gc"}, at : Lines \X (0 .. PgsPerLine) \cup {NoPage}]
    <3>1. PICK b : b = <<v, k + 1>>
      OBVIOUS
    <3>2. job' = [kind |-> "gc", at |-> b] /\ b \in Lines \X (0 .. PgsPerLine)
      BY <1>5, <3>1
    <3> QED
      BY <3>2
  <2> QED
    BY <1>1, <1>2, <1>5, <2>1 DEF FlowOK
<1> QED
  BY <1>7, <1>8, <1>9 DEF ConvInv

\* The moved page is left behind: the tables agree but for its logical page.
LEMMA MovedAgrees ==
  ASSUME NEW mt, NEW rm, NEW st, NEW moved, Agree(mt, rm, st, moved),
         NEW a \in Pages, st[a] = "VALID", a \notin moved, NEW m, m = moved \cup {a}
  PROVE  rm[a] \in Lpns /\ AgreeBut(rm[a], mt, rm, st, m)
<1>1. /\ \A lpn \in Lpns : mt[lpn] \in Pages =>
           st[mt[lpn]] = "VALID" /\ rm[mt[lpn]] = lpn /\ mt[lpn] \notin moved
      /\ \A p \in Pages : st[p] = "VALID" /\ p \notin moved => rm[p] \in Lpns /\ mt[rm[p]] = p
  BY AgreeFacts
<1>2. PICK l : l = rm[a]
  OBVIOUS
<1>3. l \in Lpns /\ mt[l] = a
  BY <1>1, <1>2
<1>4. ASSUME NEW x \in Lpns, x # l, mt[x] \in Pages
      PROVE  st[mt[x]] = "VALID" /\ rm[mt[x]] = x /\ mt[x] \notin m
  <2>1. st[mt[x]] = "VALID" /\ rm[mt[x]] = x /\ mt[x] \notin moved
    BY <1>1, <1>4
  <2>2. mt[x] # a
    BY <1>2, <1>4, <2>1
  <2> QED
    BY <2>1, <2>2
<1>5. ASSUME NEW p \in Pages, st[p] = "VALID", p \notin m
      PROVE  rm[p] \in Lpns \ {l} /\ mt[rm[p]] = p
  <2>1. rm[p] \in Lpns /\ mt[rm[p]] = p /\ p # a
    BY <1>1, <1>5
  <2>2. rm[p] # l
    BY <1>3, <2>1
  <2> QED
    BY <2>1, <2>2
<1>6. AgreeBut(l, mt, rm, st, m)
  BY <1>4, <1>5 DEF AgreeBut
<1> QED
  BY <1>2, <1>3, <1>6

LEMMA MoveKeeps ==
  ASSUME ConvInv, MovePage
  PROVE  ConvInv' /\ (halted' => free = <<>>)
<1>1. LinesOK /\ TablesOK /\ FlowOK
  BY DEF ConvInv
<1>2. PICK s : s = [rmap |-> rmap, status |-> status, vpc |-> vpc, ipc |-> ipc,
                    full |-> full, pq |-> victim_pq]
  OBVIOUS
<1>3. /\ s.rmap = rmap /\ s.status = status /\ s.vpc = vpc /\ s.ipc = ipc
      /\ s.full = full /\ s.pq = victim_pq
  BY ONLY <1>2
<1>4. /\ job.kind = "gc" /\ job.at[2] < PgsPerLine /\ ~halted /\ status[job.at] = "VALID"
      /\ NextInVictim /\ PutPage("GC", rmap[job.at], s)
      /\ credits' = credits /\ refill' = refill
  BY <1>2 DEF MovePage, InVictim, flow
<1>5. PICK v, k : GcAt(v, k) /\ job.at = <<v, k>> /\ v = job.at[1] /\ k = job.at[2]
  BY <1>1, <1>4, GcIs
<1>6. PICK a : a = <<v, k>>
  OBVIOUS
<1>7. /\ GcLines' = {v} /\ MovedPages' = MovedPages \cup {a}
      /\ a \in Pages /\ a \notin MovedPages
      /\ job' = [kind |-> "gc", at |-> <<v, k + 1>>]
      /\ job'.kind = "gc" /\ job'.at \in Lines \X (0 .. PgsPerLine)
  BY <1>4, <1>5, <1>6, NextIs
<1>8. GcLines = {v} /\ v \in Lines /\ MovedPages = {p \in Pages : p[1] = v /\ p[2] < k}
  BY <1>5 DEF GcAt
<1>9. PICK at : Layout(at, status, vpc, ipc, free, full, victim_pq, wp, {v})
  BY <1>1, <1>8 DEF LinesOK, LaidOut
<1>10. PICK l : l = rmap[a]
  OBVIOUS
<1>11. PutPage("GC", l, s)
  BY <1>4, <1>5, <1>6, <1>10
<1>12. "GC" \in Writers /\ wp["GC"] # NoPage /\ halted \in BOOLEAN
  BY <1>1, <1>4 DEF FlowOK, Writers
<1>13. Layout(at, s.status, s.vpc, s.ipc, free, s.full, s.pq, wp, {v})
  BY <1>3, <1>9
<1>14. /\ LaidOut(status', vpc', ipc', free', full', victim_pq', wp', {v})
       /\ halted' \in BOOLEAN
       /\ halted' => free = <<>>
       /\ ~halted' => wp'["GC"] # NoPage
       /\ \A w \in Writers : w # "GC" => wp'[w] = wp[w]
       /\ wp["GC"] \in Pages /\ s.status[wp["GC"]] = "FREE"
  <2>1. PICK gc : gc = {v}
    OBVIOUS
  <2>2. Layout(at, s.status, s.vpc, s.ipc, free, s.full, s.pq, wp, gc)
    BY <1>13, <2>1
  <2>3. /\ LaidOut(status', vpc', ipc', free', full', victim_pq', wp', gc)
        /\ halted' \in BOOLEAN
        /\ halted' => free = <<>>
        /\ ~halted' => wp'["GC"] # NoPage
        /\ \A w \in Writers : w # "GC" => wp'[w] = wp[w]
        /\ wp["GC"] \in Pages /\ s.status[wp["GC"]] = "FREE"
    BY <1>4, <1>11, <1>12, <2>2, PutKeeps
  <2> QED
    BY <2>1, <2>3
<1>15. LinesOK'
  BY <1>7, <1>14 DEF LinesOK
<1>16. TablesOK'
  <2>1. /\ maptbl \in [Lpns -> Pages \cup {UNMAPPED_PPA}]
        /\ rmap \in [Pages -> Lpns \cup {INVALID_LPN}]
        /\ Agree(maptbl, rmap, status, MovedPages)
    BY <1>1 DEF TablesOK
  <2>2. PICK m : m = MovedPages \cup {a}
    OBVIOUS
  <2>3. status[a] = "VALID"
    BY <1>4, <1>5, <1>6
  <2>4. l \in Lpns /\ AgreeBut(l, maptbl, rmap, status, m)
    BY <1>7, <1>10, <2>1, <2>2, <2>3, MovedAgrees
  <2>5. PICK p : p = wp["GC"]
    OBVIOUS
  <2>6. p \in Pages /\ status[p] = "FREE" /\ status \in [Pages -> Statuses]
    <3>1. status \in [Pages -> Statuses]
      BY <1>9 DEF Layout, LayoutTypes
    <3> QED
      BY <1>3, <1>14, <2>5, <3>1
  <2>7. p \notin m
    <3>1. p # a
      BY <2>3, <2>6
    <3>2. p[1] # v
      <4>1. \A x \in Lines, o \in Offs : x = v => status[<<x, o>>] # "FREE"
        BY <1>9 DEF Layout, Sited, PagesOK
      <4>2. p[1] \in Lines /\ p[2] \in Offs /\ p = <<p[1], p[2]>>
        BY <2>6, GeometryHolds DEF Geometry
      <4> QED
        BY <2>6, <4>1, <4>2
    <3> QED
      BY <1>8, <2>2, <3>1, <3>2
  <2>8. PICK mt2, rm2, st2 : Put(maptbl, mt2, rmap, rm2, status, st2, l, p)
    BY DEF Put
  <2>9. /\ mt2 \in [Lpns -> Pages \cup {UNMAPPED_PPA}]
        /\ rm2 \in [Pages -> Lpns \cup {INVALID_LPN}]
        /\ Agree(mt2, rm2, st2, m)
    BY <2>1, <2>4, <2>6, <2>7, <2>8, PutAgrees
  <2>10. maptbl' = mt2 /\ rmap' = rm2 /\ status' = st2
    BY <1>3, <1>11, <2>5, <2>8 DEF Put, PutPage
  <2> QED
    BY <1>7, <2>2, <2>9, <2>10 DEF TablesOK
<1>17. FlowOK'
  <2>1. job' \in [kind : {"idle", "collect", "gc"}, at : Lines \X (0 .. PgsPerLine) \cup {NoPage}]
    <3>1. PICK b : b = <<v, k + 1>>
      OBVIOUS
    <3>2. job' = [kind |-> "gc", at |-> b] /\ b \in Lines \X (0 .. PgsPerLine)
      BY <1>7, <3>1
    <3> QED
      BY <3>2
  <2>2. /\ credits \in 0 .. PgsPerLine /\ refill \in 1 .. PgsPerLine /\ credits = 0
        /\ \A w \in Writers : wp[w] # NoPage
    BY <1>1, <1>4 DEF FlowOK
  <2>3. ~halted' => \A w \in Writers : wp'[w] # NoPage
    BY <1>14, <2>2
  <2> QED
    BY <1>4, <1>7, <1>14, <2>1, <2>2, <2>3 DEF FlowOK
<1> QED
  BY <1>15, <1>16, <1>17, <1>14 DEF ConvInv

LEMMA FinishKeeps ==
  ASSUME ConvInv, FinishGc
  PROVE  ConvInv'
<1>1. LinesOK /\ TablesOK /\ FlowOK
  BY DEF ConvInv
<1>2. PICK v : v = job.at[1]
  OBVIOUS
<1>3. /\ job.kind = "gc" /\ job.at[2] = PgsPerLine
      /\ status' = [p \in Pages |-> IF p[1] = v THEN "FREE" ELSE status[p]]
      /\ vpc' = [vpc EXCEPT ![v] = 0] /\ ipc' = [ipc EXCEPT ![v] = 0]
      /\ free' = Append(free, v)
      /\ credits' = credits + refill /\ job' = Idle
      /\ maptbl' = maptbl /\ rmap' = rmap /\ full' = full /\ victim_pq' = victim_pq
      /\ wp' = wp /\ refill' = refill /\ halted' = halted
  BY <1>2 DEF FinishGc
<1>4. PICK k : GcAt(v, k) /\ k = PgsPerLine
  BY <1>1, <1>2, <1>3, GcIs
<1>5. v \in Lines /\ GcLines = {v} /\ MovedPages = {p \in Pages : p[1] = v /\ p[2] < PgsPerLine}
  BY <1>4 DEF GcAt
<1>6. \A p \in Pages : p \in MovedPages <=> p[1] = v
  <2>1. \A o \in Offs : o < PgsPerLine
    BY GeometryHolds DEF Geometry
  <2>2. \A p \in Pages : p[2] < PgsPerLine
    BY <2>1, GeometryHolds DEF Geometry
  <2> QED
    BY <1>5, <2>2
<1>7. job'.kind = "idle" /\ job'.at = NoPage /\ job' = [kind |-> "idle", at |-> NoPage]
  BY <1>3 DEF Idle
<1>8. MovedPages' = {} /\ GcLines' = {}
  BY <1>7 DEF MovedPages, Moved, GcLines
<1>9. PICK at : Layout(at, status, vpc, ipc, free, full, victim_pq, wp, {v})
  BY <1>1, <1>5 DEF LinesOK, LaidOut
<1>10. LinesOK'
  <2>1. Erased(status, status', vpc, vpc', ipc, ipc', v)
    BY <1>3 DEF Erased
  <2>2. LaidOut(status', vpc', ipc', Append(free, v), full, victim_pq, wp, {})
    BY <1>5, <1>9, <2>1, FreeKeeps
  <2> QED
    BY <1>3, <1>8, <2>2 DEF LinesOK
<1>11. TablesOK'
  <2>1. /\ maptbl \in [Lpns -> Pages \cup {UNMAPPED_PPA}]
        /\ rmap \in [Pages -> Lpns \cup {INVALID_LPN}]
        /\ Agree(maptbl, rmap, status, MovedPages)
    BY <1>1 DEF TablesOK
  <2>2. /\ \A lpn \in Lpns : maptbl[lpn] \in Pages =>
             status[maptbl[lpn]] = "VALID" /\ rmap[maptbl[lpn]] = lpn /\ maptbl[lpn] \notin MovedPages
        /\ \A p \in Pages : status[p] = "VALID" /\ p \notin MovedPages =>
             rmap[p] \in Lpns /\ maptbl[rmap[p]] = p
    BY <2>1, AgreeFacts
  <2>3. PICK st2 : st2 = status'
    OBVIOUS
  <2>4. \A p \in Pages : st2[p] = IF p[1] = v THEN "FREE" ELSE status[p]
    BY <1>3, <2>3
  <2>5. ASSUME NEW x \in Lpns, maptbl[x] \in Pages
        PROVE  st2[maptbl[x]] = "VALID" /\ rmap[maptbl[x]] = x /\ maptbl[x] \notin {}
    <3>1. status[maptbl[x]] = "VALID" /\ rmap[maptbl[x]] = x /\ maptbl[x] \notin MovedPages
      BY <2>2, <2>5
    <3>2. maptbl[x][1] # v
      BY <1>6, <2>5, <3>1
    <3> QED
      BY <2>4, <2>5, <3>1, <3>2
  <2>6. ASSUME NEW p \in Pages, st2[p] = "VALID", p \notin {}
        PROVE  rmap[p] \in Lpns /\ maptbl[rmap[p]] = p
    BY <1>6, <2>2, <2>4, <2>6
  <2>7. Agree(maptbl, rmap, st2, {})
    BY <2>5, <2>6 DEF Agree
  <2> QED
    BY <1>3, <1>8, <2>1, <2>3, <2>7 DEF TablesOK
<1>12. FlowOK'
  <2>1. /\ credits \in 0 .. PgsPerLine /\ refill \in 1 .. PgsPerLine
        /\ credits = 0 <=> job.kind # "idle"
        /\ halted \in BOOLEAN
        /\ ~halted => \A w \in Writers : wp[w] # NoPage
    BY <1>1 DEF FlowOK
  <2>2. PgsPerLine \in Nat
    BY GeometryHolds DEF Geometry
  <2>3. credits' \in 0 .. PgsPerLine /\ credits' # 0
    BY <1>3, <2>1, <2>2
  <2>4. job' \in [kind : {"idle", "collect", "gc"}, at : Lines \X (0 .. PgsPerLine) \cup {NoPage}]
    BY <1>7
  <2> QED
    BY <1>3, <1>7, <2>1, <2>3, <2>4 DEF FlowOK
<1> QED
  BY <1>10, <1>11, <1>12 DEF ConvInv

\* The two write pointers take the first two lines.
LEMMA InitKeeps ==
  ASSUME Init
  PROVE  ConvInv
<1>1. /\ maptbl = [lpn \in Lpns |-> UNMAPPED_PPA] /\ rmap = [p \in Pages |-> INVALID_LPN]
      /\ status = [p \in Pages |-> "FREE"]
      /\ vpc = [l \in Lines |-> 0] /\ ipc = [l \in Lines |-> 0]
      /\ free = [i \in 1 .. NrLines - 2 |-> i + 1] /\ full = {}
      /\ victim_pq = [d |-> <<>>, pos |-> [l \in Lines |-> 0]]
      /\ wp = [w \in Writers |-> IF w = "USER" THEN <<0, 0>> ELSE <<1, 0>>]
      /\ credits = PgsPerLine /\ refill = PgsPerLine /\ job = Idle /\ halted = FALSE
  BY DEF Init
<1>2. Geometry
  BY GeometryHolds
<1>3. NrLines \in Nat \ {0, 1} /\ Lines = 0 .. NrLines - 1 /\ 0 \in Lines /\ 1 \in Lines
  BY <1>2, GeometryAssumption DEF Geometry
<1>4. job = [kind |-> "idle", at |-> NoPage] /\ job.kind = "idle"
  BY <1>1 DEF Idle
<1>5. MovedPages = {} /\ GcLines = {}
  BY <1>4, NoneMoved
<1>6. status \in [Pages -> Statuses] /\ \A x \in Lines, o \in Offs : status[<<x, o>>] = "FREE"
  <2>1. \A x \in Lines, o \in Offs : <<x, o>> \in Pages
    BY <1>2 DEF Geometry
  <2> QED
    BY <1>1, <2>1 DEF Statuses
<1>7. Counted(status, vpc, ipc)
  <2>1. ASSUME NEW l \in Lines
        PROVE  Count(Offs, status, l, "VALID") = 0 /\ Count(Offs, status, l, "INVALID") = 0
    <3>1. \A s : Count(Offs, status, l, s) = 0 <=> \A o \in Offs : status[<<l, o>>] # s
      BY <1>2, <1>6, CountFacts
    <3> QED
      BY <1>6, <3>1
  <2>2. /\ [l \in Lines |-> 0] = [l \in Lines |-> Count(Offs, status, l, "VALID")]
        /\ [l \in Lines |-> 0] = [l \in Lines |-> Count(Offs, status, l, "INVALID")]
    BY <2>1
  <2> QED
    BY <1>1, <2>2 DEF Counted
<1>8. Elems(victim_pq.d) = {} /\ QueueOK(victim_pq, vpc)
  <2>1. PICK a, b : a = <<>> /\ b = [l \in Lines |-> 0]
    OBVIOUS
  <2>2. a \in Seq(Lines) /\ DOMAIN a = {} /\ b \in [Lines -> Nat]
    BY <2>1
  <2>3. victim_pq = [d |-> a, pos |-> b]
    BY <1>1, <2>1
  <2>4. victim_pq.d = a /\ victim_pq.pos = b
    BY <2>3
  <2>5. victim_pq \in Queues(Lines)
    BY <2>2, <2>3 DEF Queues
  <2>6. IsQueue(Lines, victim_pq) /\ pqueue_is_valid(victim_pq, vpc) /\ PositionsRight(victim_pq)
    BY <2>2, <2>4, <2>5 DEF IsQueue, Distinct, pqueue_is_valid, PositionsRight
  <2>7. Elems(victim_pq.d) = {}
    BY <2>2, <2>4 DEF Elems
  <2>8. \A l \in Lines : victim_pq.pos[l] = 0
    BY <2>1, <2>4
  <2> QED
    BY <2>6, <2>7, <2>8 DEF QueueOK, Ordered, IsHeap
<1>9. /\ free \in Seq(Lines) /\ Distinct(free)
      /\ \A x \in Lines : x \in Elems(free) <=> x > 1
  <2>1. PICK n : n = NrLines - 2 /\ n \in Nat
    BY <1>3
  <2>2. free = [i \in 1 .. n |-> i + 1] /\ \A i \in 1 .. n : i + 1 \in Lines
    BY <1>1, <1>3, <2>1
  <2>3. free \in Seq(Lines)
    BY <2>1, <2>2
  <2>4. DOMAIN free = 1 .. n /\ \A i \in 1 .. n : free[i] = i + 1
    BY <2>2
  <2>5. Distinct(free)
    BY <2>1, <2>4 DEF Distinct
  <2>6. ASSUME NEW x \in Lines, x > 1 PROVE x \in Elems(free)
    <3>1. PICK i : i = x - 1 /\ i \in 1 .. n /\ i + 1 = x
      BY <1>3, <2>1, <2>6
    <3> QED
      BY <2>4, <3>1 DEF Elems
  <2>7. ASSUME NEW x \in Elems(free) PROVE x > 1
    <3>1. PICK i \in 1 .. n : x = i + 1
      BY <2>4 DEF Elems
    <3> QED
      BY <2>1, <3>1
  <2> QED
    BY <2>3, <2>5, <2>6, <2>7
<1>10. PICK at : at = [x \in Lines |-> IF x = 0 THEN "USER" ELSE IF x = 1 THEN "GC" ELSE "free"]
  OBVIOUS
<1>11. at \in [Lines -> Spots]
  BY <1>10 DEF Spots
<1>12. <<0, 0>> \in Pages /\ <<1, 0>> \in Pages
  BY <1>2, <1>3 DEF Geometry
<1>13. /\ wp \in [Writers -> Pages \cup {NoPage}] /\ wp["USER"] = <<0, 0>> /\ wp["GC"] = <<1, 0>>
       /\ \A w \in Writers : wp[w] # NoPage
       /\ Writers = {"USER", "GC"}
  BY <1>1, <1>2, <1>12 DEF Writers, Geometry
<1>14. Sited(at, free, full, victim_pq, wp, {})
  <2> SUFFICES ASSUME NEW x \in Lines
               PROVE  /\ x \in Elems(free) <=> at[x] = "free"
                      /\ x \in full <=> at[x] = "full"
                      /\ x \in Elems(victim_pq.d) <=> at[x] = "queue"
                      /\ x \in {} <=> at[x] = "collected"
                      /\ \A w \in Writers : (wp[w] # NoPage /\ wp[w][1] = x) <=> at[x] = w
    BY <1>9, <1>11 DEF Sited
  <2>1. at[x] = IF x = 0 THEN "USER" ELSE IF x = 1 THEN "GC" ELSE "free"
    BY <1>10
  <2>2. x \in Nat
    BY <1>3
  <2>3. wp["USER"][1] = 0 /\ wp["GC"][1] = 1
    BY <1>13
  <2>4. x \in Elems(free) <=> at[x] = "free"
    BY <1>9, <2>1, <2>2
  <2>5. x \notin full /\ x \notin Elems(victim_pq.d) /\ at[x] \notin {"full", "queue", "collected"}
    BY <1>1, <1>8, <2>1
  <2>6. \A w \in Writers : wp[w][1] = x <=> at[x] = w
    BY <1>13, <2>1, <2>2, <2>3
  <2> QED
    BY <1>13, <2>4, <2>5, <2>6
<1>15. PagesOK(at, status, wp)
  <2> SUFFICES ASSUME NEW x \in Lines, NEW o \in Offs
               PROVE  /\ at[x] = "free" => status[<<x, o>>] = "FREE"
                      /\ at[x] \in Writers => (status[<<x, o>>] = "FREE" <=> o >= wp[at[x]][2])
                      /\ at[x] = "full" => status[<<x, o>>] = "VALID"
                      /\ at[x] \in {"queue", "collected"} => status[<<x, o>>] # "FREE"
    BY DEF PagesOK
  <2>1. status[<<x, o>>] = "FREE" /\ o \in Nat
    BY <1>2, <1>6 DEF Geometry
  <2>2. at[x] \notin {"full", "queue", "collected"}
    BY <1>10
  <2>3. wp["USER"][2] = 0 /\ wp["GC"][2] = 0
    BY <1>13
  <2>4. at[x] \in Writers => o >= wp[at[x]][2]
    BY <1>13, <2>1, <2>3
  <2> QED
    BY <2>1, <2>2, <2>4
<1>16. LostPages(at, status)
  BY <1>10 DEF LostPages
<1>17. LayoutTypes(status, free, full, wp, {})
  BY <1>1, <1>6, <1>9, <1>13 DEF LayoutTypes
<1>18. LinesOK
  BY <1>5, <1>7, <1>8, <1>14, <1>15, <1>16, <1>17 DEF LinesOK, LaidOut, Layout
<1>19. TablesOK
  <2>1. \A x \in Lpns : maptbl[x] \notin Pages
    BY <1>1, <1>2 DEF Geometry
  <2>2. \A p \in Pages : status[p] # "VALID"
    BY <1>1
  <2>3. Agree(maptbl, rmap, status, MovedPages)
    BY <2>1, <2>2 DEF Agree
  <2> QED
    BY <1>1, <2>3 DEF TablesOK
<1>20. FlowOK
  <2>1. PgsPerLine \in Nat \ {0}
    BY <1>2 DEF Geometry
  <2>2. credits \in 0 .. PgsPerLine /\ refill \in 1 .. PgsPerLine /\ credits # 0
    BY <1>1, <2>1
  <2>3. job \in [kind : {"idle", "collect", "gc"}, at : Lines \X (0 .. PgsPerLine) \cup {NoPage}]
    BY <1>4
  <2> QED
    BY <1>1, <1>4, <1>13, <2>2, <2>3 DEF FlowOK
<1> QED
  BY <1>18, <1>19, <1>20 DEF ConvInv

LEMMA StepKeeps ==
  ASSUME ConvInv, [Next]_vars
  PROVE  ConvInv'
<1>1. CASE \E lpn \in Lpns : WritePage(lpn)
  BY <1>1, WriteKeeps
<1>2. CASE RefillCredits
  BY <1>2, RefillKeeps
<1>3. CASE SelectVictim
  BY <1>3, SelectKeeps
<1>4. CASE SkipPage
  BY <1>4, SkipKeeps
<1>5. CASE MovePage
  BY <1>5, MoveKeeps
<1>6. CASE FinishGc
  BY <1>6, FinishKeeps
<1>7. CASE UNCHANGED vars
  <2>1. /\ maptbl' = maptbl /\ rmap' = rmap /\ status' = status /\ vpc' = vpc /\ ipc' = ipc
        /\ free' = free /\ full' = full /\ victim_pq' = victim_pq /\ wp' = wp
        /\ credits' = credits /\ refill' = refill /\ job' = job /\ halted' = halted
    BY <1>7 DEF vars, tables, counts, flow
  <2>2. GcLines' = GcLines /\ MovedPages' = MovedPages
    BY <2>1 DEF GcLines, MovedPages, Moved
  <2> QED
    BY <2>1, <2>2 DEF ConvInv, LinesOK, TablesOK, FlowOK
<1> QED
  BY <1>1, <1>2, <1>3, <1>4, <1>5, <1>6, <1>7 DEF Next

-----------------------------------------------------------------------------
(* The theorems.                                                           *)

\* The invariant that the others follow from, kept by every step of the
\* conventional FTL (conv_ftl.c).
THEOREM ConvInvariant == Spec => []ConvInv
<1>1. Init => ConvInv
  BY InitKeeps
<1>2. ConvInv /\ [Next]_vars => ConvInv'
  BY StepKeeps
<1> QED
  BY <1>1, <1>2, PTL DEF Spec

\* A sequence without repetitions is as long as it has elements.
LEMMA LenDistinct ==
  ASSUME NEW S, NEW s \in Seq(S), Distinct(s)
  PROVE  IsFiniteSet(Elems(s)) /\ Cardinality(Elems(s)) = Len(s)
<1>1. Len(s) \in Nat /\ DOMAIN s = 1 .. Len(s)
  OBVIOUS
<1> DEFINE f == [i \in 1 .. Len(s) |-> s[i]]
<1>2. f \in Bijection(1 .. Len(s), Elems(s))
  <2>1. f \in [1 .. Len(s) -> Elems(s)]
    BY <1>1 DEF Elems
  <2>2. \A i, j \in 1 .. Len(s) : f[i] = f[j] => i = j
    BY <1>1 DEF Distinct
  <2>3. \A e \in Elems(s) : \E i \in 1 .. Len(s) : f[i] = e
    BY <1>1 DEF Elems
  <2> HIDE DEF f
  <2> QED
    BY <2>1, <2>2, <2>3 DEF Bijection, Injection, Surjection, IsInjective
<1>3. IsFiniteSet(1 .. Len(s)) /\ Cardinality(1 .. Len(s)) = Len(s)
  <2> DEFINE n == Len(s)
  <2>1. n \in Nat /\ n - 1 + 1 = n
    BY <1>1
  <2> HIDE DEF n
  <2>2. IsFiniteSet(1 .. n) /\ Cardinality(1 .. n) = n
    BY <2>1, FS_Interval
  <2> QED
    BY <2>2 DEF n
<1> QED
  BY <1>2, <1>3, FS_Bijection DEF ExistsBijection

LEMMA AtMostOne ==
  ASSUME NEW S, \A x, y \in S : x = y
  PROVE  Cardinality(S) = IF S = {} THEN 0 ELSE 1
<1>1. CASE S = {}
  BY <1>1, FS_EmptySet
<1>2. CASE S # {}
  <2>1. PICK x : x \in S
    BY <1>2
  <2>2. S = {x}
    BY <2>1
  <2> QED
    BY <1>2, <2>2, FS_Singleton
<1> QED
  BY <1>1, <1>2

\* A queue is no longer than there are lines.
LEMMA PositionsBound ==
  ASSUME NEW q, NEW vp, QueueOK(q, vp)
  PROVE  q \in [d : Seq(Lines), pos : [Lines -> 0 .. NrLines]]
<1>1. IsQueue(Lines, q) /\ PositionsRight(q) /\ \A l \in Lines : l \notin Elems(q.d) => q.pos[l] = 0
  BY DEF QueueOK, Ordered, IsHeap
<1>2. q = [d |-> q.d, pos |-> q.pos] /\ q.d \in Seq(Lines) /\ q.pos \in [Lines -> Nat] /\ Distinct(q.d)
  BY <1>1 DEF IsQueue, Queues
<1>3. PICK n \in Nat : n = Len(q.d) /\ DOMAIN q.d = 1 .. n
  BY <1>1, QueueFacts
<1>4. NrLines \in Nat /\ Lines = 0 .. NrLines - 1
  BY GeometryHolds DEF Geometry
<1>5. n <= NrLines
  <2>1. IsFiniteSet(Lines) /\ Cardinality(Lines) = NrLines
    BY <1>4, FS_Interval
  <2>2. Cardinality(Elems(q.d)) = n
    BY <1>2, <1>3, LenDistinct
  <2>3. Elems(q.d) \in SUBSET Lines
    BY <1>2, <1>3 DEF Elems
  <2> QED
    BY <2>1, <2>2, <2>3, FS_Subset
<1>6. \A l \in Lines : q.pos[l] \in 0 .. NrLines
  <2> SUFFICES ASSUME NEW l \in Lines PROVE q.pos[l] \in 0 .. NrLines
    OBVIOUS
  <2>1. CASE l \in Elems(q.d)
    <3>1. PICK i \in 1 .. n : q.d[i] = l
      BY <1>3, <2>1 DEF Elems
    <3>2. q.pos[l] = i
      BY <1>1, <1>3, <3>1 DEF PositionsRight
    <3> QED
      BY <1>3, <1>4, <1>5, <3>2
  <2>2. CASE l \notin Elems(q.d)
    BY <1>1, <1>4, <2>2
  <2> QED
    BY <2>1, <2>2
<1>7. q.pos \in [Lines -> 0 .. NrLines]
  BY <1>2, <1>6
<1>8. PICK a, b : a = q.d /\ b = q.pos
  OBVIOUS
<1>9. q = [d |-> a, pos |-> b] /\ a \in Seq(Lines) /\ b \in [Lines -> 0 .. NrLines]
  BY <1>2, <1>7, <1>8
<1> QED
  BY ONLY <1>9

LEMMA InvImpliesTypeOK ==
  ASSUME ConvInv
  PROVE  TypeOK
<1>1. LinesOK /\ TablesOK /\ FlowOK
  BY DEF ConvInv
<1>2. PICK at : Layout(at, status, vpc, ipc, free, full, victim_pq, wp, GcLines)
  BY <1>1 DEF LinesOK, LaidOut
<1>3. /\ status \in [Pages -> {"FREE", "VALID", "INVALID"}]
      /\ free \in Seq(Lines) /\ full \subseteq Lines
      /\ wp \in [Writers -> Pages \cup {NoPage}]
      /\ Counted(status, vpc, ipc) /\ QueueOK(victim_pq, vpc)
  BY <1>2 DEF Layout, LayoutTypes, Statuses
<1>4. vpc \in [Lines -> 0 .. PgsPerLine] /\ ipc \in [Lines -> 0 .. PgsPerLine]
  BY <1>3, CountedTypes DEF Statuses
<1>5. victim_pq \in [d : Seq(Lines), pos : [Lines -> 0 .. NrLines]]
  BY <1>3, PositionsBound
<1>6. credits \in 0 .. NrLines * PgsPerLine /\ refill \in 0 .. PgsPerLine
  <2>1. /\ credits \in 0 .. PgsPerLine /\ refill \in 1 .. PgsPerLine
    BY <1>1 DEF FlowOK
  <2>2. PgsPerLine \in Nat /\ NrLines \in Nat \ {0, 1}
    BY GeometryAssumption
  <2>3. PICK n : n = NrLines - 1 /\ n \in Nat /\ n + 1 = NrLines
    BY <2>2
  <2>4. PICK m : m = n * PgsPerLine /\ m \in Nat
    BY <2>2, <2>3
  <2>5. NrLines * PgsPerLine = m + PgsPerLine
    BY <2>2, <2>3, <2>4
  <2> QED
    BY <2>1, <2>2, <2>4, <2>5
<1> QED
  BY <1>1, <1>3, <1>4, <1>5, <1>6 DEF TypeOK, TablesOK, FlowOK

LEMMA InvImpliesHeap ==
  ASSUME ConvInv
  PROVE  QueueIsHeap
<1>1. PICK at : Layout(at, status, vpc, ipc, free, full, victim_pq, wp, GcLines)
  BY DEF ConvInv, LinesOK, LaidOut
<1>2. QueueOK(victim_pq, vpc)
  BY <1>1 DEF Layout
<1>3. pqueue_is_valid(victim_pq, vpc) /\ PositionsRight(victim_pq)
      /\ \A l \in Lines : l \notin Elems(victim_pq.d) => victim_pq.pos[l] = 0
  BY <1>2 DEF QueueOK, Ordered, IsHeap
<1> QED
  BY <1>3, InvImpliesTypeOK DEF QueueIsHeap, Elems

LEMMA InvImpliesAccounted ==
  ASSUME ConvInv
  PROVE  LinesAccounted
<1>1. PICK at : Layout(at, status, vpc, ipc, free, full, victim_pq, wp, GcLines)
  BY DEF ConvInv, LinesOK, LaidOut
<1>2. PICK gc : gc = GcLines
  OBVIOUS
<1>3. Layout(at, status, vpc, ipc, free, full, victim_pq, wp, gc)
  BY <1>1, <1>2
<1>4. /\ at \in [Lines -> Spots] /\ Distinct(free)
      /\ \A x \in Lines : /\ x \in Elems(free) <=> at[x] = "free"
                          /\ x \in full <=> at[x] = "full"
                          /\ x \in Elems(victim_pq.d) <=> at[x] = "queue"
                          /\ x \in gc <=> at[x] = "collected"
                          /\ \A w \in Writers : (wp[w] # NoPage /\ wp[w][1] = x) <=> at[x] = w
  BY <1>3 DEF Layout, Sited
<1>5. Distinct(victim_pq.d)
  BY <1>3 DEF Layout, QueueOK, Ordered, IsHeap, IsQueue
<1>6. status \in [Pages -> Statuses] /\ Counted(status, vpc, ipc)
      /\ \A x \in Lines, o \in Offs : at[x] = "full" => status[<<x, o>>] = "VALID"
  BY <1>3 DEF Layout, LayoutTypes, PagesOK
<1> SUFFICES ASSUME NEW l \in Lines
             PROVE  LET Having(s) == Cardinality({i \in Offs : status[<<l, i>>] = s})
                    IN  /\ Places(l) = 1
                        /\ vpc[l] = Having("VALID") /\ ipc[l] = Having("INVALID")
                        /\ l \in full => vpc[l] = PgsPerLine
  BY DEF LinesAccounted
<1> DEFINE A == {i \in DOMAIN free : free[i] = l}
           B == {i \in DOMAIN victim_pq.d : victim_pq.d[i] = l}
           C == {l} \cap full
           D == {w \in Writers : wp[w] # NoPage /\ wp[w][1] = l}
           E == {n \in {"gc"} : job.kind = "gc" /\ job.at[1] = l}
<1>7. Cardinality(A) = IF at[l] = "free" THEN 1 ELSE 0
  <2>1. (\A x, y \in A : x = y) /\ (A = {} <=> l \notin Elems(free))
    BY <1>4 DEF Distinct, Elems
  <2>2. l \in Elems(free) <=> at[l] = "free"
    BY <1>4
  <2> HIDE DEF A
  <2> QED
    BY <2>1, <2>2, AtMostOne
<1>8. Cardinality(B) = IF at[l] = "queue" THEN 1 ELSE 0
  <2>1. (\A x, y \in B : x = y) /\ (B = {} <=> l \notin Elems(victim_pq.d))
    BY <1>5 DEF Distinct, Elems
  <2>2. l \in Elems(victim_pq.d) <=> at[l] = "queue"
    BY <1>4
  <2> HIDE DEF B
  <2> QED
    BY <2>1, <2>2, AtMostOne
<1>9. Cardinality(C) = IF at[l] = "full" THEN 1 ELSE 0
  <2>1. (\A x, y \in C : x = y) /\ (C = {} <=> l \notin full)
    OBVIOUS
  <2>2. l \in full <=> at[l] = "full"
    BY <1>4
  <2> HIDE DEF C
  <2> QED
    BY <2>1, <2>2, AtMostOne
<1>10. Cardinality(D) = IF at[l] \in Writers THEN 1 ELSE 0
  <2>1. \A w \in Writers : w \in D <=> at[l] = w
    BY <1>4
  <2>2. D \subseteq Writers
    OBVIOUS
  <2> HIDE DEF D
  <2>3. (\A x, y \in D : x = y) /\ (D = {} <=> at[l] \notin Writers)
    BY <2>1, <2>2
  <2> QED
    BY <2>3, AtMostOne
<1>11. Cardinality(E) = IF at[l] = "collected" THEN 1 ELSE 0
  <2>1. (\A x, y \in E : x = y) /\ (E = {} <=> l \notin gc)
    BY <1>2 DEF GcLines
  <2>2. l \in gc <=> at[l] = "collected"
    BY <1>4
  <2> HIDE DEF E
  <2> QED
    BY <2>1, <2>2, AtMostOne
<1>12. Places(l) = Cardinality(A) + Cardinality(B) + Cardinality(C) + Cardinality(D) + Cardinality(E)
  BY DEF Places
<1> HIDE DEF A, B, C, D, E
<1>13. Places(l) = 1
  <2>1. at[l] \in {"free", "full", "queue", "collected"} \/ at[l] \in Writers
    BY <1>4 DEF Spots, Writers
  <2>2. at[l] \in Writers => at[l] \notin {"free", "full", "queue", "collected"}
    BY DEF Writers
  <2> QED
    BY <1>7, <1>8, <1>9, <1>10, <1>11, <1>12, <2>1, <2>2
<1>14. l \in full => vpc[l] = PgsPerLine
  <2> SUFFICES ASSUME l \in full PROVE vpc[l] = PgsPerLine
    OBVIOUS
  <2>1. \A o \in Offs : status[<<l, o>>] = "VALID"
    BY <1>4, <1>6
  <2> QED
    BY <1>6, <2>1, CountedLine
<1>15. /\ vpc[l] = Cardinality({i \in Offs : status[<<l, i>>] = "VALID"})
       /\ ipc[l] = Cardinality({i \in Offs : status[<<l, i>>] = "INVALID"})
  BY <1>6 DEF Counted, Count
<1> QED
  BY <1>13, <1>14, <1>15

LEMMA InvImpliesLive ==
  ASSUME ConvInv
  PROVE  MappedPagesLive
<1>1. Agree(maptbl, rmap, status, MovedPages) /\ maptbl \in [Lpns -> Pages \cup {UNMAPPED_PPA}]
  BY DEF ConvInv, TablesOK
<1>2. /\ \A lpn \in Lpns : maptbl[lpn] \in Pages =>
           status[maptbl[lpn]] = "VALID" /\ rmap[maptbl[lpn]] = lpn /\ maptbl[lpn] \notin MovedPages
      /\ \A p \in Pages : status[p] = "VALID" /\ p \notin MovedPages =>
           rmap[p] \in Lpns /\ maptbl[rmap[p]] = p
  BY <1>1, AgreeFacts
<1>3. \A lpn \in Lpns : mapped_ppa(maptbl[lpn]) => maptbl[lpn] \in Pages
  BY <1>1 DEF mapped_ppa
<1>4. \A p \in Pages : p \in MovedPages <=> Moved(p)
  BY DEF MovedPages
<1> QED
  BY <1>2, <1>3, <1>4 DEF MappedPagesLive, Current

\* The victim queue (pqueue.c, mark_page_invalid, select_victim_line) is a heap
\* by valid pages whose lines know their places, and every variable of
\* conv_ftl.c stays in its range.
THEOREM VictimsAreHeap == Spec => []QueueIsHeap
BY ConvInvariant, InvImpliesHeap, PTL

\* A line is free, full, a victim, being collected or under a write pointer,
\* exactly one of them, and its counters are those of its pages
\* (mark_page_valid, mark_page_invalid, advance_write_pointer, mark_line_free).
THEOREM EveryLineAccounted == Spec => []LinesAccounted
BY ConvInvariant, InvImpliesAccounted, PTL

\* A written page is where maptbl says, valid, and the reverse map gives it
\* back; other valid pages are those gc_write_page has just moved.
THEOREM WrittenPagesLive == Spec => []MappedPagesLive
BY ConvInvariant, InvImpliesLive, PTL

-----------------------------------------------------------------------------
(* What the spare lines are for.                                           *)

\* What the write pointer at page p has left of its line.
LeftOf(p) == PgsPerLine - p[2]

\* The pages that can be written before a line is erased.
Room == Len(free) * PgsPerLine + LeftOf(wp["USER"]) + LeftOf(wp["GC"])

\* The pages of victim v that are yet to be moved, from offset k on.
ToMove(v, k) == {o \in Offs : o >= k /\ status[<<v, o>>] = "VALID"}
Unmoved == Cardinality(ToMove(job.at[1], job.at[2]))

\* Beyond the pages there are credits for, there is room for two lines.  While
\* a line is collected, the pages yet to be moved come out of the line it frees.
RoomOK ==
  /\ ~halted
  /\ job.kind # "gc" => 2 * PgsPerLine + credits <= Room
  /\ job.kind = "gc" => PgsPerLine + refill + Unmoved <= Room

LEMMA Successor ==
  ASSUME NEW n \in Nat, NEW P \in Nat
  PROVE  n * P \in Nat /\ (n + 1) * P = n * P + P
OBVIOUS

LEMMA ProductMonotone ==
  ASSUME NEW a \in Nat, NEW b \in Nat, NEW c \in Nat, a <= b
  PROVE  a * c <= b * c /\ a * c \in Nat
OBVIOUS

\* The terms of the room.
LEMMA RoomTerms ==
  ASSUME ConvInv, ~halted
  PROVE  /\ PgsPerLine \in Nat \ {0}
         /\ free \in Seq(Lines) /\ Len(free) \in Nat /\ Len(free) * PgsPerLine \in Nat
         /\ wp \in [Writers -> Pages \cup {NoPage}]
         /\ \A w \in Writers : /\ wp[w] \in Pages /\ wp[w] # NoPage
                               /\ wp[w][2] \in Offs /\ LeftOf(wp[w]) \in 1 .. PgsPerLine
         /\ credits \in Nat /\ refill \in 1 .. PgsPerLine
         /\ credits = 0 <=> job.kind # "idle"
<1>1. LinesOK /\ FlowOK /\ Geometry
  BY GeometryHolds DEF ConvInv
<1>2. PgsPerLine \in Nat \ {0} /\ Offs = 0 .. PgsPerLine - 1
  BY <1>1 DEF Geometry
<1>3. PICK at, gc : Layout(at, status, vpc, ipc, free, full, victim_pq, wp, gc)
  BY <1>1 DEF LinesOK, LaidOut
<1>4. free \in Seq(Lines) /\ wp \in [Writers -> Pages \cup {NoPage}]
  BY <1>3, LayoutFacts
<1>5. Len(free) \in Nat /\ Len(free) * PgsPerLine \in Nat
  <2>1. Len(free) \in Nat
    BY <1>4
  <2> QED
    BY <1>2, <2>1, Successor
<1>6. ASSUME NEW w \in Writers
      PROVE  /\ wp[w] \in Pages /\ wp[w] # NoPage
             /\ wp[w][2] \in Offs /\ LeftOf(wp[w]) \in 1 .. PgsPerLine
  <2>1. wp[w] # NoPage
    BY <1>1 DEF FlowOK
  <2>2. wp[w] \in Pages
    BY <1>4, <2>1
  <2>3. wp[w][2] \in Offs
    BY <1>1, <2>2 DEF Geometry
  <2>4. LeftOf(wp[w]) \in 1 .. PgsPerLine
    BY <1>2, <2>3 DEF LeftOf
  <2> QED
    BY <2>1, <2>2, <2>3, <2>4
<1>7. credits \in Nat /\ refill \in 1 .. PgsPerLine /\ (credits = 0 <=> job.kind # "idle")
  BY <1>1, <1>2 DEF FlowOK
<1> QED
  BY <1>2, <1>4, <1>5, <1>6, <1>7

\* The sum, with its terms named.
LEMMA RoomSum ==
  ASSUME ConvInv, ~halted
  PROVE  \E m \in Nat, u, g \in 1 .. PgsPerLine :
           /\ m = Len(free) * PgsPerLine /\ u = LeftOf(wp["USER"]) /\ g = LeftOf(wp["GC"])
           /\ Room = m + u + g /\ Room \in Nat
<1>1. /\ Len(free) * PgsPerLine \in Nat /\ PgsPerLine \in Nat
      /\ LeftOf(wp["USER"]) \in 1 .. PgsPerLine /\ LeftOf(wp["GC"]) \in 1 .. PgsPerLine
  BY RoomTerms DEF Writers
<1>2. PICK m, u, g : m = Len(free) * PgsPerLine /\ u = LeftOf(wp["USER"]) /\ g = LeftOf(wp["GC"])
  OBVIOUS
<1>3. m \in Nat /\ u \in 1 .. PgsPerLine /\ g \in 1 .. PgsPerLine /\ Room = m + u + g
  BY <1>1, <1>2 DEF Room
<1>4. Room \in Nat
  BY <1>1, <1>3
<1> QED
  BY <1>2, <1>3, <1>4

\* One page less in the line of one write pointer, or in the lines and it.
LEMMA OnePageLess ==
  ASSUME NEW m \in Int, NEW m2 \in Int, NEW a \in Int, NEW b \in Int, NEW c \in Int,
         m2 + b = m + a - 1
  PROVE  m2 + b + c = m + a + c - 1 /\ m2 + c + b = m + c + a - 1
OBVIOUS

\* How the room changes with one write pointer and the free lines.
LEMMA RoomChange ==
  ASSUME NEW w \in Writers, NEW x, wp \in [Writers -> Pages \cup {NoPage}],
         wp' = [wp EXCEPT ![w] = x],
         NEW m \in Int, NEW m2 \in Int, NEW a \in Int, NEW b \in Int,
         Len(free) * PgsPerLine = m, Len(free') * PgsPerLine = m2,
         LeftOf(wp[w]) = a, LeftOf(x) = b, m2 + b = m + a - 1,
         \A v \in Writers : LeftOf(wp[v]) \in Int
  PROVE  Room' = Room - 1
<1>1. wp'[w] = x /\ \A v \in Writers : v # w => wp'[v] = wp[v]
  OBVIOUS
<1>2. Room' = m2 + LeftOf(wp'["USER"]) + LeftOf(wp'["GC"])
  BY DEF Room, LeftOf
<1>3. Room = m + LeftOf(wp["USER"]) + LeftOf(wp["GC"])
  BY DEF Room
<1>4. CASE w = "USER"
  <2>1. wp'["USER"] = x /\ wp'["GC"] = wp["GC"]
    BY <1>1, <1>4 DEF Writers
  <2>2. PICK c : c = LeftOf(wp["GC"])
    OBVIOUS
  <2>3. c \in Int
    BY <2>2 DEF Writers
  <2>4. Room' = m2 + b + c
    BY <1>2, <2>1, <2>2
  <2>5. Room = m + a + c
    BY <1>3, <1>4, <2>2
  <2> QED
    BY ONLY <2>3, <2>4, <2>5, OnePageLess, m \in Int, m2 \in Int, a \in Int, b \in Int,
            m2 + b = m + a - 1
<1>5. CASE w = "GC"
  <2>1. wp'["GC"] = x /\ wp'["USER"] = wp["USER"]
    BY <1>1, <1>5 DEF Writers
  <2>2. PICK c : c = LeftOf(wp["USER"])
    OBVIOUS
  <2>3. c \in Int
    BY <2>2 DEF Writers
  <2>4. Room' = m2 + c + b
    BY <1>2, <2>1, <2>2
  <2>5. Room = m + c + a
    BY <1>3, <1>5, <2>2
  <2> QED
    BY ONLY <2>3, <2>4, <2>5, OnePageLess, m \in Int, m2 \in Int, a \in Int, b \in Int,
            m2 + b = m + a - 1
<1> QED
  BY <1>4, <1>5 DEF Writers

\* A page written takes one page of room, and with more than a line of room
\* there is a line for the write pointer to go on with.
LEMMA PutRoom ==
  ASSUME ConvInv, ~halted, NEW w \in Writers, NEW lpn, NEW s, PutPage(w, lpn, s),
         halted' => free = <<>>, halted' \in BOOLEAN, PgsPerLine + 2 <= Room
  PROVE  ~halted' /\ Room' = Room - 1
<1> DEFINE P == PgsPerLine
<1>1. PICK m \in Nat, u \in 1 .. P, g \in 1 .. P :
        /\ m = Len(free) * P /\ u = LeftOf(wp["USER"]) /\ g = LeftOf(wp["GC"])
        /\ Room = m + u + g /\ Room \in Nat
  BY RoomSum
<1>2. /\ P \in Nat \ {0} /\ free \in Seq(Lines) /\ Len(free) \in Nat
      /\ wp \in [Writers -> Pages \cup {NoPage}]
      /\ wp[w][2] \in 0 .. P - 1
      /\ \A v \in Writers : LeftOf(wp[v]) \in Int
  BY RoomTerms, GeometryHolds DEF Geometry
<1>3. PICK p : p = wp[w]
  OBVIOUS
<1>4. PICK vp : Advance(w, p, s, vp)
  BY <1>3 DEF PutPage
<1>5. p[2] \in 0 .. P - 1 /\ LeftOf(p) = P - p[2]
  BY <1>2, <1>3 DEF LeftOf
<1>6. LeftOf(p) = IF w = "USER" THEN u ELSE g
  BY <1>1, <1>3 DEF Writers
<1>8. CASE p[2] < P - 1
  <2>1. /\ wp' = [wp EXCEPT ![w] = <<p[1], p[2] + 1>>]
        /\ free' = free /\ halted' = halted
    BY <1>4, <1>8 DEF Advance
  <2>2. PICK x : x = <<p[1], p[2] + 1>>
    OBVIOUS
  <2>3. x[2] = p[2] + 1 /\ wp' = [wp EXCEPT ![w] = x]
    BY <2>1, <2>2
  <2>4. LeftOf(x) = LeftOf(p) - 1 /\ LeftOf(x) \in Int
    BY <1>2, <1>5, <2>3 DEF LeftOf
  <2>5. m + LeftOf(x) = m + LeftOf(p) - 1
    BY <1>1, <1>2, <1>5, <2>4
  <2>6. Room' = Room - 1
    <3>1. /\ m \in Int /\ LeftOf(wp[w]) \in Int /\ LeftOf(p) = LeftOf(wp[w])
          /\ Len(free') * P = m
      BY <1>1, <1>2, <1>3, <2>1
    <3> QED
      BY <1>1, <1>2, <2>3, <2>4, <2>5, <3>1, RoomChange
  <2> QED
    BY <2>1, <2>6
<1>9. CASE ~(p[2] < P - 1)
  <2>1. /\ free' = IF free = <<>> THEN free ELSE Tail(free)
        /\ wp' = [wp EXCEPT ![w] = IF free = <<>> THEN NoPage ELSE <<Head(free), 0>>]
    BY <1>4, <1>9 DEF Advance
  <2>2. LeftOf(p) = 1
    BY <1>2, <1>5, <1>9
  <2>3. free # <<>>
    <3> SUFFICES ASSUME free = <<>> PROVE FALSE
      OBVIOUS
    <3>1. Len(free) = 0
      OBVIOUS
    <3>2. m = 0
      BY <1>1, <1>2, <3>1
    <3>3. Room <= P + 1
      BY <1>1, <1>2, <1>6, <2>2, <3>2
    <3> QED
      BY <1>1, <1>2, <3>3
  <2>4. PICK x : x = <<Head(free), 0>>
    OBVIOUS
  <2>5. free' = Tail(free) /\ wp' = [wp EXCEPT ![w] = x] /\ x[2] = 0
    BY <2>1, <2>3, <2>4
  <2>6. PICK n : n = Len(free')
    OBVIOUS
  <2>7. n \in Nat /\ Len(free) = n + 1
    BY <1>2, <2>3, <2>5, <2>6
  <2>8. PICK m2 : m2 = n * P
    OBVIOUS
  <2>9. m2 \in Nat /\ m = m2 + P
    BY <1>1, <1>2, <2>7, <2>8, Successor
  <2>10. LeftOf(x) = P
    BY <1>2, <2>5 DEF LeftOf
  <2>11. m2 + LeftOf(x) = m + LeftOf(p) - 1
    BY <1>2, <2>2, <2>9, <2>10
  <2>12. Room' = Room - 1
    <3>1. PICK a, b : a = LeftOf(wp[w]) /\ b = LeftOf(x)
      OBVIOUS
    <3>2. /\ m \in Int /\ m2 \in Int /\ a \in Int /\ b \in Int
          /\ Len(free) * P = m /\ Len(free') * P = m2 /\ m2 + b = m + a - 1
      BY <1>1, <1>2, <1>3, <2>6, <2>8, <2>9, <2>10, <2>11, <3>1
    <3>3. wp \in [Writers -> Pages \cup {NoPage}] /\ \A v \in Writers : LeftOf(wp[v]) \in Int
      BY <1>2
    <3>4. wp' = [wp EXCEPT ![w] = x] /\ LeftOf(wp[w]) = a /\ LeftOf(x) = b
      BY <2>5, <3>1
    <3> QED
      BY ONLY w \in Writers, <3>2, <3>3, <3>4, RoomChange
  <2> QED
    BY <2>3, <2>12
<1> QED
  BY <1>8, <1>9

LEMMA WriteRoom ==
  ASSUME ConvInv, RoomOK, NEW lpn \in Lpns, WritePage(lpn)
  PROVE  RoomOK'
<1>1. ConvInv' /\ (halted' => free = <<>>)
  BY WriteKeeps
<1>2. /\ job = Idle /\ ~halted /\ PutPage("USER", lpn, After(lpn))
      /\ credits' = credits - 1
      /\ job' = (IF credits' <= 0 THEN [Idle EXCEPT !.kind = "collect"] ELSE Idle)
  BY DEF WritePage
<1>3. job.kind = "idle" /\ job'.kind # "gc"
  BY <1>2 DEF Idle
<1>4. PICK r : r = Room
  OBVIOUS
<1>5. /\ PgsPerLine \in Nat \ {0} /\ credits \in Nat \ {0} /\ r \in Nat
      /\ 2 * PgsPerLine + credits <= r
  BY <1>2, <1>3, <1>4, RoomTerms, RoomSum DEF RoomOK
<1>6. PgsPerLine + 2 <= Room
  BY <1>4, <1>5
<1>7. "USER" \in Writers /\ halted' \in BOOLEAN
  BY <1>1 DEF Writers, ConvInv, FlowOK
<1>8. ~halted' /\ Room' = Room - 1
  BY <1>1, <1>2, <1>6, <1>7, PutRoom
<1>9. 2 * PgsPerLine + credits' <= Room'
  BY <1>2, <1>4, <1>5, <1>8
<1> QED
  BY <1>3, <1>8, <1>9 DEF RoomOK


LEMMA FinishRoom ==
  ASSUME ConvInv, RoomOK, FinishGc
  PROVE  RoomOK'
<1>1. /\ job.kind = "gc" /\ job.at[2] = PgsPerLine /\ ~halted /\ free' = Append(free, job.at[1])
      /\ credits' = credits + refill /\ job' = Idle /\ wp' = wp /\ halted' = halted
  BY DEF FinishGc
<1>2. PICK v, k : GcAt(v, k) /\ v = job.at[1] /\ k = job.at[2]
  BY <1>1, GcIs DEF ConvInv
<1>3. v \in Lines
  BY <1>2 DEF GcAt
<1>4. PICK m, u, g : /\ m = Len(free) * PgsPerLine /\ u = LeftOf(wp["USER"]) /\ g = LeftOf(wp["GC"])
                     /\ m \in Nat /\ u \in 1 .. PgsPerLine /\ g \in 1 .. PgsPerLine
                     /\ Room = m + u + g
  BY <1>1, RoomSum
<1>5. /\ PgsPerLine \in Nat \ {0} /\ free \in Seq(Lines) /\ Len(free) \in Nat
      /\ credits = 0 /\ refill \in 1 .. PgsPerLine
  BY <1>1, RoomTerms
<1>6. ToMove(v, k) = {}
  <2>1. \A o \in Offs : ~(o >= k)
    BY <1>1, <1>2, GeometryHolds DEF Geometry
  <2> QED
    BY <2>1 DEF ToMove
<1>7. Unmoved = 0
  BY <1>2, <1>6, FS_EmptySet DEF Unmoved
<1>8. Room' = m + PgsPerLine + u + g
  <2>1. Len(free') = Len(free) + 1
    BY <1>1, <1>2, <1>3, <1>5
  <2>2. PICK n \in Nat : n = Len(free)
    BY <1>5
  <2>3. (n + 1) * PgsPerLine = n * PgsPerLine + PgsPerLine
    BY <1>5, Successor
  <2>4. Len(free') * PgsPerLine = m + PgsPerLine
    BY <1>4, <2>1, <2>2, <2>3
  <2> QED
    BY <1>1, <1>4, <2>4 DEF Room, LeftOf
<1>9. 2 * PgsPerLine + credits' <= Room'
  <2>1. PgsPerLine + refill + Unmoved <= Room
    BY <1>1 DEF RoomOK
  <2>2. PgsPerLine + refill <= m + u + g
    BY <1>4, <1>5, <1>7, <2>1
  <2>3. m \in Nat /\ u \in Nat /\ g \in Nat /\ refill \in Nat /\ PgsPerLine \in Nat
    BY <1>4, <1>5
  <2>4. 2 * PgsPerLine + refill <= m + PgsPerLine + u + g
    BY <2>2, <2>3
  <2>5. credits' = refill
    BY <1>1, <1>5
  <2> QED
    BY <1>8, <2>4, <2>5
<1>10. job'.kind = "idle"
  BY <1>1 DEF Idle
<1> QED
  BY <1>1, <1>9, <1>10 DEF RoomOK

LEMMA SkipRoom ==
  ASSUME ConvInv, RoomOK, SkipPage
  PROVE  RoomOK'
<1>1. /\ job.kind = "gc" /\ job.at[2] < PgsPerLine /\ status[job.at] # "VALID" /\ NextInVictim
      /\ status' = status /\ free' = free /\ wp' = wp /\ refill' = refill /\ halted' = halted
  BY DEF SkipPage, InVictim, tables, counts, flow
<1>2. PICK v, k : GcAt(v, k) /\ job.at = <<v, k>> /\ v = job.at[1] /\ k = job.at[2]
  BY <1>1, GcIs DEF ConvInv
<1>3. PICK a : a = <<v, k>>
  OBVIOUS
<1>4. job' = [kind |-> "gc", at |-> <<v, k + 1>>]
  BY <1>1, <1>2, <1>3, NextIs
<1>5. job'.kind = "gc" /\ job'.at[1] = v /\ job'.at[2] = k + 1
  BY <1>4
<1>6. ToMove(v, k + 1) = ToMove(v, k)
  <2>1. status[<<v, k>>] # "VALID"
    BY <1>1, <1>2
  <2>2. k \in Nat /\ \A o \in Offs : o \in Nat
    BY <1>2, GeometryHolds DEF GcAt, Geometry
  <2>3. \A o \in Offs : o >= k + 1 <=> (o >= k /\ o # k)
    BY <2>2
  <2>4. \A o \in Offs : (o >= k + 1 /\ status[<<v, o>>] = "VALID")
                        <=> (o >= k /\ status[<<v, o>>] = "VALID")
    BY <2>1, <2>3
  <2> QED
    BY <2>4 DEF ToMove
<1>7. Unmoved' = Unmoved
  <2>1. Unmoved' = Cardinality(ToMove(v, k + 1))
    BY <1>1, <1>5 DEF Unmoved, ToMove
  <2>2. Unmoved = Cardinality(ToMove(v, k))
    BY <1>2 DEF Unmoved
  <2> QED
    BY <1>6, <2>1, <2>2
<1>8. Room' = Room
  BY <1>1 DEF Room, LeftOf
<1> QED
  BY <1>1, <1>5, <1>7, <1>8 DEF RoomOK

\* A victim's pages are all valid or invalid: what is to be moved and what the
\* collection brings make up the line.
LEMMA SelectRoom ==
  ASSUME ConvInv, RoomOK, SelectVictim
  PROVE  RoomOK'
<1>1. LinesOK /\ FlowOK
  BY DEF ConvInv
<1>2. PICK v : v = pqueue_peek(victim_pq)
  OBVIOUS
<1>3. /\ job.kind = "collect" /\ pqueue_size(victim_pq) > 0
      /\ victim_pq' = [pqueue_pop(victim_pq, vpc) EXCEPT !.pos[v] = 0]
      /\ refill' = ipc[v] /\ job' = [kind |-> "gc", at |-> <<v, 0>>]
      /\ status' = status /\ free' = free /\ wp' = wp /\ halted' = halted /\ ~halted
  BY <1>2 DEF SelectVictim, tables, counts, Gain
<1>4. GcLines = {}
  BY <1>3, NoneMoved
<1>5. PICK at : Layout(at, status, vpc, ipc, free, full, victim_pq, wp, {})
  BY <1>1, <1>4 DEF LinesOK, LaidOut
<1>6. PICK q : q = victim_pq'
  OBVIOUS
<1>7. LaidOut(status, vpc, ipc, free, full, q, wp, {v}) /\ v \in Lines
  <2>1. victim_pq.d # <<>>
    BY <1>3 DEF pqueue_size
  <2>2. Popped(victim_pq, vpc, v, q)
    BY <1>2, <1>3, <1>6 DEF Popped
  <2> QED
    BY <1>5, <2>1, <2>2, CollectKeeps
<1>8. PICK gc : gc = {v}
  OBVIOUS
<1>9. PICK at2 : Layout(at2, status, vpc, ipc, free, full, q, wp, gc)
  BY <1>7, <1>8 DEF LaidOut
<1>10. vpc[v] + ipc[v] = PgsPerLine /\ vpc[v] \in Nat /\ ipc[v] \in Nat
       /\ vpc[v] = Count(Offs, status, v, "VALID")
  <2>1. /\ status \in [Pages -> Statuses] /\ Counted(status, vpc, ipc)
        /\ \A x \in Lines : x \in gc <=> at2[x] = "collected"
        /\ \A x \in Lines, o \in Offs : at2[x] \in {"queue", "collected"} => status[<<x, o>>] # "FREE"
    BY <1>9, LayoutFacts
  <2>2. \A o \in Offs : status[<<v, o>>] # "FREE"
    BY <1>7, <1>8, <2>1
  <2> QED
    BY <1>7, <2>1, <2>2, CountedLine DEF Counted
<1>11. job'.kind = "gc" /\ job'.at[1] = v /\ job'.at[2] = 0
  BY <1>3
<1>12. Unmoved' = vpc[v]
  <2>1. \A o \in Offs : o >= 0
    BY GeometryHolds DEF Geometry
  <2>2. ToMove(v, 0) = {o \in Offs : status[<<v, o>>] = "VALID"}
    BY <2>1 DEF ToMove
  <2>3. Unmoved' = Cardinality(ToMove(v, 0))
    BY <1>3, <1>11 DEF Unmoved, ToMove
  <2> QED
    BY <1>10, <2>2, <2>3 DEF Count
<1>13. Room' = Room
  BY <1>3 DEF Room, LeftOf
<1>14. PICK r : r = Room
  OBVIOUS
<1>15. r \in Nat /\ PgsPerLine \in Nat /\ credits = 0 /\ 2 * PgsPerLine + credits <= r
  BY <1>3, <1>14, RoomTerms, RoomSum DEF RoomOK
<1>16. PgsPerLine + refill' + Unmoved' <= Room'
  BY <1>3, <1>10, <1>12, <1>13, <1>14, <1>15
<1> QED
  BY <1>3, <1>11, <1>16 DEF RoomOK

\* A page moved out of the victim takes the room that was counted for it.
LEMMA MoveRoom ==
  ASSUME ConvInv, RoomOK, MovePage
  PROVE  RoomOK'
<1>1. FlowOK /\ LinesOK /\ ConvInv' /\ (halted' => free = <<>>)
  BY MoveKeeps DEF ConvInv
<1>2. PICK s : s = [rmap |-> rmap, status |-> status, vpc |-> vpc, ipc |-> ipc,
                    full |-> full, pq |-> victim_pq]
  OBVIOUS
<1>3. s.status = status
  BY ONLY <1>2
<1>4. /\ job.kind = "gc" /\ job.at[2] < PgsPerLine /\ ~halted /\ status[job.at] = "VALID"
      /\ NextInVictim /\ PutPage("GC", rmap[job.at], s)
      /\ credits' = credits /\ refill' = refill
  BY <1>2 DEF MovePage, InVictim, flow
<1>5. PICK v, k : GcAt(v, k) /\ job.at = <<v, k>> /\ v = job.at[1] /\ k = job.at[2]
  BY <1>1, <1>4, GcIs
<1>6. PICK a : a = <<v, k>>
  OBVIOUS
<1>7. job' = [kind |-> "gc", at |-> <<v, k + 1>>]
  BY <1>4, <1>5, <1>6, NextIs
<1>8. job'.kind = "gc" /\ job'.at[1] = v /\ job'.at[2] = k + 1
  BY <1>7
<1>9. v \in Lines /\ k \in Nat /\ k \in Offs
  BY <1>4, <1>5, GeometryHolds DEF GcAt, Geometry
<1>10. PICK gc : gc = GcLines
  OBVIOUS
<1>11. PICK at : Layout(at, status, vpc, ipc, free, full, victim_pq, wp, gc)
  BY <1>1, <1>10 DEF LinesOK, LaidOut
<1>12. /\ status \in [Pages -> Statuses]
       /\ \A x \in Lines : /\ x \in gc <=> at[x] = "collected"
                           /\ \A w \in Writers : (wp[w] # NoPage /\ wp[w][1] = x) <=> at[x] = w
  BY <1>11, LayoutFacts
<1>13. wp["GC"] \in Pages /\ wp["GC"][1] # v
  <2>1. "GC" \in Writers /\ wp["GC"] \in Pages /\ wp["GC"] # NoPage
    BY <1>1, <1>4, RoomTerms DEF Writers, ConvInv
  <2>2. at[v] = "collected"
    BY <1>5, <1>9, <1>10, <1>12 DEF GcAt
  <2>3. ~(wp["GC"] # NoPage /\ wp["GC"][1] = v)
    BY <1>9, <1>12, <2>1, <2>2
  <2> QED
    BY <2>1, <2>3
<1>14. \A o \in Offs : status'[<<v, o>>] = status[<<v, o>>]
  <2>1. PICK p : p = wp["GC"]
    OBVIOUS
  <2>2. status' = [status EXCEPT ![p] = "VALID"]
    BY <1>3, <1>4, <2>1 DEF PutPage
  <2>3. \A o \in Offs : <<v, o>> \in Pages /\ <<v, o>> # p
    BY <1>9, <1>13, <2>1, GeometryHolds DEF Geometry
  <2> QED
    BY <1>12, <2>2, <2>3
<1>15. PICK T, U : T = ToMove(v, k) /\ U = ToMove(v, k + 1)
  OBVIOUS
<1>16. U = T \ {k} /\ k \in T
  <2>1. status[<<v, k>>] = "VALID"
    BY <1>4, <1>5
  <2>2. \A o \in Offs : o \in Nat
    BY GeometryHolds DEF Geometry
  <2>3. \A o \in Offs : o >= k + 1 <=> (o >= k /\ o # k)
    BY <1>9, <2>2
  <2>4. k >= k
    BY <1>9
  <2> QED
    BY <1>9, <1>15, <2>1, <2>3, <2>4 DEF ToMove
<1>17. IsFiniteSet(T) /\ Cardinality(T) \in Nat
  <2>1. T \in SUBSET Offs
    BY <1>15 DEF ToMove
  <2>2. IsFiniteSet(Offs)
    <3>1. PgsPerLine \in Nat \ {0} /\ Offs = 0 .. PgsPerLine - 1
      BY GeometryHolds DEF Geometry
    <3> QED
      BY <3>1, FS_Interval
  <2> QED
    BY <2>1, <2>2, FS_Subset, FS_CardinalityType
<1>18. Cardinality(U) = Cardinality(T) - 1 /\ Cardinality(U) \in Nat
  BY <1>16, <1>17, FS_RemoveElement, FS_CardinalityType
<1>19. Unmoved = Cardinality(T)
  BY <1>5, <1>15 DEF Unmoved
<1>20. Unmoved' = Cardinality(U)
  <2>1. Unmoved' = Cardinality({o \in Offs : o >= k + 1 /\ status'[<<v, o>>] = "VALID"})
    BY <1>8 DEF Unmoved, ToMove
  <2>2. {o \in Offs : o >= k + 1 /\ status'[<<v, o>>] = "VALID"} = U
    BY <1>14, <1>15 DEF ToMove
  <2> QED
    BY <2>1, <2>2
<1>21. PICK r, n : r = Room /\ n = Cardinality(T)
  OBVIOUS
<1>22. /\ PgsPerLine \in Nat \ {0} /\ refill \in Nat \ {0} /\ r \in Nat /\ n \in Nat \ {0}
       /\ PgsPerLine + refill + n <= r
  <2>1. PgsPerLine \in Nat \ {0} /\ refill \in 1 .. PgsPerLine /\ r \in Nat
    BY <1>4, <1>21, RoomTerms, RoomSum
  <2>2. n \in Nat /\ n - 1 \in Nat
    BY <1>17, <1>18, <1>21
  <2>3. PgsPerLine + refill + n <= r
    BY <1>4, <1>19, <1>21 DEF RoomOK
  <2> QED
    BY <2>1, <2>2, <2>3
<1>23. PgsPerLine + 2 <= Room
  BY <1>21, <1>22
<1>24. ~halted' /\ Room' = Room - 1
  <2>1. "GC" \in Writers /\ halted' \in BOOLEAN
    BY <1>1 DEF Writers, ConvInv, FlowOK
  <2> QED
    BY <1>1, <1>4, <1>23, <2>1, PutRoom
<1>25. PgsPerLine + refill' + Unmoved' <= Room'
  <2>1. Unmoved' = n - 1 /\ Room' = r - 1 /\ refill' = refill
    BY <1>4, <1>18, <1>20, <1>21, <1>24
  <2> QED
    BY <1>22, <2>1
<1> QED
  BY <1>8, <1>24, <1>25 DEF RoomOK

-----------------------------------------------------------------------------
(* What is free when there is nothing to collect.                          *)

\* Every page of a full line holds a logical page of its own.
LEMMA FullPages ==
  ASSUME ConvInv, job.kind # "gc", IsFiniteSet(Lpns)
  PROVE  /\ IsFiniteSet(full) /\ Cardinality(full) \in Nat
         /\ Cardinality(full) * PgsPerLine <= Cardinality(Lpns)
<1>1. /\ LinesOK /\ MovedPages = {} /\ GcLines = {}
      /\ Agree(maptbl, rmap, status, {}) /\ rmap \in [Pages -> Lpns \cup {INVALID_LPN}]
  BY NoneMoved DEF ConvInv, TablesOK
<1>2. PICK at, gc : Layout(at, status, vpc, ipc, free, full, victim_pq, wp, gc)
  BY <1>1 DEF LinesOK, LaidOut
<1>3. /\ full \subseteq Lines
      /\ \A x \in full, o \in Offs : status[<<x, o>>] = "VALID"
  BY <1>2, LayoutFacts
<1>4. PICK F : F = full \X Offs
  OBVIOUS
<1>5. \A p \in F : p \in Pages /\ status[p] = "VALID"
  <2> SUFFICES ASSUME NEW p \in F PROVE p \in Pages /\ status[p] = "VALID"
    OBVIOUS
  <2>1. p[1] \in full /\ p[2] \in Offs /\ p = <<p[1], p[2]>>
    BY <1>4
  <2> QED
    BY <1>3, <2>1, GeometryHolds DEF Geometry
<1>6. \A p \in F : rmap[p] \in Lpns /\ maptbl[rmap[p]] = p
  BY <1>1, <1>5, AgreeFacts
<1>7. PICK f : f = [p \in F |-> rmap[p]]
  OBVIOUS
<1>8. f \in Injection(F, Lpns)
  <2>1. f \in [F -> Lpns]
    BY <1>6, <1>7
  <2>2. \A p, q \in F : f[p] = f[q] => p = q
    BY <1>6, <1>7
  <2> QED
    BY <2>1, <2>2 DEF Injection, IsInjective
<1>9. IsFiniteSet(F) /\ Cardinality(F) <= Cardinality(Lpns)
  BY <1>8, FS_Injection
<1>10. PgsPerLine \in Nat \ {0} /\ Offs = 0 .. PgsPerLine - 1 /\ NrLines \in Nat \ {0}
       /\ Lines = 0 .. NrLines - 1
  BY GeometryHolds, GeometryAssumption DEF Geometry
<1>11. IsFiniteSet(Offs) /\ Cardinality(Offs) = PgsPerLine
  BY <1>10, FS_Interval
<1>12. IsFiniteSet(full) /\ Cardinality(full) \in Nat
  <2>1. IsFiniteSet(Lines)
    BY <1>10, FS_Interval
  <2> QED
    BY <1>3, <2>1, FS_Subset, FS_CardinalityType
<1>13. Cardinality(F) = Cardinality(full) * PgsPerLine
  BY <1>4, <1>11, <1>12, FS_Product
<1> QED
  BY <1>9, <1>12, <1>13

LEMMA UnionBound ==
  ASSUME NEW S, NEW T, IsFiniteSet(S), IsFiniteSet(T),
         NEW m \in Nat, NEW n \in Nat, Cardinality(S) <= m, Cardinality(T) <= n
  PROVE  IsFiniteSet(S \cup T) /\ Cardinality(S \cup T) <= m + n
<1>1. PICK a, b, c, d : /\ a = Cardinality(S) /\ b = Cardinality(T)
                        /\ c = Cardinality(S \cap T) /\ d = Cardinality(S \cup T)
  OBVIOUS
<1>2. IsFiniteSet(S \cap T)
  BY FS_Intersection
<1>3. IsFiniteSet(S \cup T) /\ d = a + b - c
  BY <1>1, FS_Union
<1>4. a \in Nat /\ b \in Nat /\ c \in Nat
  BY <1>1, <1>2, FS_CardinalityType
<1>5. a <= m /\ b <= n
  BY <1>1
<1>6. d <= m + n
  BY <1>3, <1>4, <1>5
<1> QED
  BY <1>1, <1>3, <1>6

\* With no line to collect, a line that is not free is full or one of the two
\* that are written.
LEMMA LinesCovered ==
  ASSUME ConvInv, ~halted, job.kind # "gc", victim_pq.d = <<>>, IsFiniteSet(full)
  PROVE  NrLines <= Len(free) + Cardinality(full) + 2
<1>1. LinesOK /\ GcLines = {}
  BY NoneMoved DEF ConvInv
<1>2. PICK at, gc : Layout(at, status, vpc, ipc, free, full, victim_pq, wp, gc) /\ gc = {}
  BY <1>1 DEF LinesOK, LaidOut
<1>3. /\ free \in Seq(Lines) /\ Distinct(free)
      /\ at \in [Lines -> Spots]
      /\ \A x \in Lines : /\ x \in Elems(free) <=> at[x] = "free"
                          /\ x \in full <=> at[x] = "full"
                          /\ x \in Elems(victim_pq.d) <=> at[x] = "queue"
                          /\ x \in gc <=> at[x] = "collected"
                          /\ \A w \in Writers : (wp[w] # NoPage /\ wp[w][1] = x) <=> at[x] = w
  BY <1>2, LayoutFacts
<1>4. PICK u, g : u = wp["USER"][1] /\ g = wp["GC"][1]
  OBVIOUS
<1>5. PICK A, B, U, G : A = Elems(free) /\ B = full /\ U = {u} /\ G = {g}
  OBVIOUS
<1>6. \A x \in Lines : x \in A \cup (B \cup (U \cup G))
  <2> SUFFICES ASSUME NEW x \in Lines PROVE x \in A \/ x \in B \/ x = u \/ x = g
    BY <1>5
  <2>1. x \notin Elems(victim_pq.d)
    BY DEF Elems
  <2>2. at[x] \in {"free", "full", "USER", "GC"}
    BY <1>2, <1>3, <2>1 DEF Spots
  <2>3. at[x] = "USER" => x = u
    BY <1>3, <1>4 DEF Writers
  <2>4. at[x] = "GC" => x = g
    BY <1>3, <1>4 DEF Writers
  <2> QED
    BY <1>3, <1>5, <2>2, <2>3, <2>4
<1>7. IsFiniteSet(A) /\ Cardinality(A) = Len(free) /\ Len(free) \in Nat
  BY <1>3, <1>5, LenDistinct
<1>8. PICK n, F : n = Len(free) /\ F = Cardinality(full) /\ n \in Nat /\ F \in Nat
  BY <1>7, FS_CardinalityType
<1>9. PICK V : V = U \cup G
  OBVIOUS
<1>10. PICK W : W = B \cup V
  OBVIOUS
<1>11. IsFiniteSet(A \cup W) /\ Cardinality(A \cup W) <= n + (F + 2)
  <2>1. IsFiniteSet(V) /\ Cardinality(V) <= 2
    <3>1. IsFiniteSet(U) /\ IsFiniteSet(G) /\ Cardinality(U) = 1 /\ Cardinality(G) = 1
      BY <1>5, FS_Singleton
    <3>2. PICK i \in Nat : i = 1
      OBVIOUS
    <3>3. Cardinality(U) <= i /\ Cardinality(G) <= i
      BY <3>1, <3>2
    <3>4. IsFiniteSet(V) /\ Cardinality(V) <= i + i
      BY ONLY <1>9, <3>1, <3>3, i \in Nat, UnionBound
    <3> QED
      BY <3>2, <3>4
  <2>2. IsFiniteSet(W) /\ Cardinality(W) <= F + 2
    <3>1. IsFiniteSet(B) /\ Cardinality(B) <= F
      BY <1>5, <1>8
    <3> QED
      BY <1>8, <1>10, <2>1, <3>1, UnionBound
  <2>3. IsFiniteSet(A) /\ Cardinality(A) <= n /\ F + 2 \in Nat
    BY <1>7, <1>8
  <2> QED
    BY <1>8, <2>2, <2>3, UnionBound
<1>12. IsFiniteSet(Lines) /\ Cardinality(Lines) = NrLines /\ NrLines \in Nat
  <2>1. NrLines \in Nat \ {0} /\ Lines = 0 .. NrLines - 1
    BY GeometryHolds, GeometryAssumption DEF Geometry
  <2> QED
    BY <2>1, FS_Interval
<1>13. NrLines <= Cardinality(A \cup W) /\ Cardinality(A \cup W) \in Nat
  <2>1. Lines \in SUBSET (A \cup W)
    BY <1>6, <1>9, <1>10
  <2> QED
    BY <1>11, <1>12, <2>1, FS_Subset, FS_CardinalityType
<1>14. PICK c : c = Cardinality(A \cup W)
  OBVIOUS
<1>15. NrLines <= n + F + 2
  BY <1>8, <1>11, <1>12, <1>13, <1>14
<1> QED
  BY <1>8, <1>15

\* What the spare lines leave: F lines are full, n are free.
LEMMA SpareLeaves ==
  ASSUME NEW N \in Nat, NEW n \in Nat, NEW F \in Nat, NEW P \in Nat,
         N <= n + F + 2, (F + 5) * P <= N * P + 2
  PROVE  3 * P <= n * P + 2
<1>1. PICK a, b, c, d : a = N * P /\ b = n * P /\ c = F * P /\ d = n + F + 2
  OBVIOUS
<1>2. a \in Nat /\ b \in Nat /\ c \in Nat /\ d \in Nat
  BY <1>1, Successor
<1>3. a <= d * P
  BY <1>1, <1>2, ProductMonotone
<1>4. d * P = b + c + 2 * P
  BY <1>1
<1>5. (F + 5) * P = c + 5 * P
  BY <1>1
<1>6. c + 5 * P <= a + 2
  BY <1>1, <1>5
<1>7. 3 * P <= b + 2
  BY <1>2, <1>3, <1>4, <1>6
<1> QED
  BY <1>1, <1>7

\* Without a line to collect, three lines can be written.
LEMMA NothingToCollect ==
  ASSUME Spare, ConvInv, ~halted, job.kind = "collect", victim_pq.d = <<>>
  PROVE  3 * PgsPerLine <= Room
<1>1. PICK n, F, L : n = Len(free) /\ F = Cardinality(full) /\ L = Cardinality(Lpns)
  OBVIOUS
<1>2. PICK m, u, g : /\ m = Len(free) * PgsPerLine /\ u = LeftOf(wp["USER"]) /\ g = LeftOf(wp["GC"])
                     /\ m \in Nat /\ u \in 1 .. PgsPerLine /\ g \in 1 .. PgsPerLine
                     /\ Room = m + u + g
  BY RoomSum
<1>3. PgsPerLine \in Nat \ {0} /\ n \in Nat /\ NrLines \in Nat
  BY <1>1, RoomTerms, GeometryHolds DEF Geometry
<1>4. IsFiniteSet(Lpns) /\ L \in Nat
  BY <1>1, FS_CardinalityType DEF Spare
<1>5. IsFiniteSet(full) /\ F \in Nat /\ F * PgsPerLine <= L
  BY <1>1, <1>4, FullPages
<1>6. NrLines <= n + F + 2
  BY <1>1, <1>5, LinesCovered
<1>7. F \in 0 .. L
  <2>1. F * 1 <= F * PgsPerLine
    <3>1. 1 * F <= PgsPerLine * F
      BY <1>3, <1>5, ProductMonotone
    <3> QED
      BY <1>3, <1>5, <3>1
  <2>2. PICK c : c = F * PgsPerLine
    OBVIOUS
  <2>3. c <= L /\ F <= c /\ c \in Nat
    BY <1>3, <1>5, <2>1, <2>2, Successor
  <2> QED
    BY <1>4, <1>5, <2>3
<1>8. (F + 5) * PgsPerLine <= NrLines * PgsPerLine + 2
  BY <1>1, <1>5, <1>7 DEF Spare
<1>9. 3 * PgsPerLine <= n * PgsPerLine + 2
  BY <1>3, <1>5, <1>6, <1>8, SpareLeaves
<1>10. 3 * PgsPerLine <= m + 2
  BY <1>1, <1>2, <1>9
<1>11. u \in Nat \ {0} /\ g \in Nat \ {0}
  BY <1>2, <1>3
<1> QED
  BY <1>2, <1>3, <1>10, <1>11

LEMMA RefillRoom ==
  ASSUME Spare, ConvInv, RoomOK, RefillCredits
  PROVE  RoomOK'
<1>1. /\ job.kind = "collect" /\ ~halted /\ credits' = credits + refill /\ job' = Idle
      /\ ~should_gc_high \/ pqueue_size(victim_pq) = 0
      /\ free' = free /\ wp' = wp /\ halted' = halted
  BY DEF RefillCredits
<1>2. PICK m, u, g : /\ m = Len(free) * PgsPerLine /\ u = LeftOf(wp["USER"]) /\ g = LeftOf(wp["GC"])
                     /\ m \in Nat /\ u \in 1 .. PgsPerLine /\ g \in 1 .. PgsPerLine
                     /\ Room = m + u + g
  BY <1>1, RoomSum
<1>3. /\ PgsPerLine \in Nat \ {0} /\ Len(free) \in Nat /\ credits = 0
      /\ refill \in 1 .. PgsPerLine
  BY <1>1, RoomTerms
<1>4. 3 * PgsPerLine <= Room
  <2>1. CASE ~should_gc_high
    <3>1. GcThresLinesHigh \in Nat /\ GcThresLinesHigh >= 2
      BY GeometryAssumption DEF Spare
    <3>2. 3 <= Len(free)
      BY <1>3, <2>1, <3>1 DEF should_gc_high
    <3>3. 3 * PgsPerLine <= m
      BY <1>2, <1>3, <3>2, ProductMonotone
    <3>4. u \in Nat /\ g \in Nat
      BY <1>2, <1>3
    <3> QED
      BY <1>2, <1>3, <3>3, <3>4
  <2>2. CASE pqueue_size(victim_pq) = 0
    <3>1. PICK at, gc : Layout(at, status, vpc, ipc, free, full, victim_pq, wp, gc)
      BY DEF ConvInv, LinesOK, LaidOut
    <3>2. QueueOK(victim_pq, vpc)
      BY <3>1, LayoutFacts
    <3>3. victim_pq.d \in Seq(Lines)
      BY <3>2 DEF QueueOK, Ordered, IsHeap, IsQueue, Queues
    <3>4. victim_pq.d = <<>>
      BY <2>2, <3>3 DEF pqueue_size
    <3> QED
      BY <1>1, <3>4, NothingToCollect
  <2> QED
    BY <1>1, <2>1, <2>2
<1>5. PICK r : r = Room
  OBVIOUS
<1>6. r \in Nat /\ refill \in Nat /\ refill <= PgsPerLine /\ 3 * PgsPerLine <= r
  BY <1>1, <1>3, <1>4, <1>5, RoomSum
<1>7. Room' = r
  BY <1>1, <1>5 DEF Room, LeftOf
<1>8. 2 * PgsPerLine + credits' <= Room'
  BY <1>1, <1>3, <1>6, <1>7
<1>9. job'.kind = "idle"
  BY <1>1 DEF Idle
<1> QED
  BY <1>1, <1>8, <1>9 DEF RoomOK

\* At first all lines are free but two, and these are not written yet.
LEMMA InitRoom ==
  ASSUME Spare, Init
  PROVE  RoomOK
<1>1. /\ free = [i \in 1 .. NrLines - 2 |-> i + 1]
      /\ wp = [w \in Writers |-> IF w = "USER" THEN <<0, 0>> ELSE <<1, 0>>]
      /\ credits = PgsPerLine /\ job = Idle /\ halted = FALSE
  BY DEF Init
<1>2. NrLines \in Nat \ {0, 1} /\ PgsPerLine \in Nat \ {0}
  BY GeometryAssumption
<1>3. PICK n \in Nat : n = NrLines - 2 /\ NrLines = n + 2
  BY <1>2
<1>4. Len(free) = n
  <2>1. free \in Seq(Lines)
    BY InitKeeps, <1>1, RoomTerms
  <2>2. DOMAIN free = 1 .. n /\ DOMAIN free = 1 .. Len(free) /\ Len(free) \in Nat
    BY <1>1, <1>3, <2>1
  <2> QED
    BY <1>3, <2>2
<1>5. LeftOf(wp["USER"]) = PgsPerLine /\ LeftOf(wp["GC"]) = PgsPerLine
  BY <1>1, <1>2 DEF LeftOf, Writers
<1>6. PICK m : m = n * PgsPerLine
  OBVIOUS
<1>7. m \in Nat
  BY <1>2, <1>6, Successor
<1>8. Room = m + PgsPerLine + PgsPerLine
  BY <1>4, <1>5, <1>6 DEF Room
<1>9. 3 * PgsPerLine <= m + 2
  <2>1. IsFiniteSet(Lpns) /\ Cardinality(Lpns) \in Nat
    BY FS_CardinalityType DEF Spare
  <2>2. 0 \in 0 .. Cardinality(Lpns) /\ 0 * PgsPerLine <= Cardinality(Lpns)
    BY <1>2, <2>1
  <2>3. (0 + 5) * PgsPerLine <= NrLines * PgsPerLine + 2
    BY <2>2 DEF Spare
  <2>4. NrLines <= n + 0 + 2 /\ NrLines \in Nat /\ 0 \in Nat
    BY <1>3
  <2> QED
    BY <1>2, <1>6, <2>3, <2>4, SpareLeaves
<1>10. 2 * PgsPerLine + credits <= Room
  BY <1>1, <1>2, <1>7, <1>8, <1>9
<1>11. job.kind = "idle"
  BY <1>1 DEF Idle
<1> QED
  BY <1>1, <1>10, <1>11 DEF RoomOK

LEMMA RoomStep ==
  ASSUME Spare, ConvInv, RoomOK, [Next]_vars
  PROVE  RoomOK'
<1>1. CASE \E lpn \in Lpns : WritePage(lpn)
  BY <1>1, WriteRoom
<1>2. CASE RefillCredits
  BY <1>2, RefillRoom
<1>3. CASE SelectVictim
  BY <1>3, SelectRoom
<1>4. CASE SkipPage
  BY <1>4, SkipRoom
<1>5. CASE MovePage
  BY <1>5, MoveRoom
<1>6. CASE FinishGc
  BY <1>6, FinishRoom
<1>7. CASE UNCHANGED vars
  BY <1>7 DEF vars, tables, counts, flow, RoomOK, Room, LeftOf, Unmoved, ToMove
<1> QED
  BY <1>1, <1>2, <1>3, <1>4, <1>5, <1>6, <1>7 DEF Next

\* With the spare lines that Spare asks for, advance_write_pointer never finds
\* the free list empty and no assertion about a line used up fails: what
\* foreground_gc hands out as write credits is always there to be written.
THEOREM SpareLinesSuffice == Spare => (Spec => []NeverOutOfLines)
<1> SUFFICES ASSUME Spare
             PROVE  Spec => []NeverOutOfLines
  OBVIOUS
<1>1. Init => RoomOK
  BY InitRoom
<1>2. RoomOK /\ ConvInv /\ [Next]_vars => RoomOK'
  BY RoomStep
<1>3. RoomOK => NeverOutOfLines
  BY DEF RoomOK, NeverOutOfLines
<1> QED
  BY <1>1, <1>2, <1>3, ConvInvariant, PTL DEF Spec
=============================================================================
