------------------------------- MODULE PQueue -------------------------------
(***************************************************************************)
(* The binary heap of victim lines (pqueue/pqueue.c): a sequence d of      *)
(* elements, the smallest priority first, and the position of each element *)
(* kept in the element itself (setpos).  A queue is [d, pos]; priorities   *)
(* are a function pri of the elements.                                     *)
(*                                                                         *)
(* The loops of the source shift the elements on a path by one place and   *)
(* put the moving one at the end of the path: here the path is found first *)
(* (Way), and the shift is stated as a whole (Shift).                      *)
(***************************************************************************)
EXTENDS Naturals, Sequences

parent(i) == i \div 2
left(i)   == 2 * i
right(i)  == 2 * i + 1

\* victim_line_cmp_pri: whether next gives way to curr.
cmppri(next, curr) == next > curr

pqueue_size(q) == Len(q.d)

\* The places passed from place i on: step[p] is the place after p, 0 after the
\* last one.
Way(i, step) ==
  LET way[p \in DOMAIN step] == IF step[p] = 0 THEN {p} ELSE {p} \cup way[step[p]]
  IN  way[i]

\* Elements are at the places seq says, and know it.
Placed(q, seq) ==
  [d   |-> seq,
   pos |-> [e \in DOMAIN q.pos |->
              IF \E i \in DOMAIN seq : seq[i] = e
                THEN CHOOSE i \in DOMAIN seq : seq[i] = e ELSE q.pos[e]]]

\* What is at place p when the element at i has gone that way: the elements on
\* it have shifted by one place.
Shifted(q, i, step, p) ==
  IF p \notin Way(i, step) THEN q.d[p]
  ELSE IF step[p] = 0 THEN q.d[i] ELSE q.d[step[p]]

Shift(q, i, step) == Placed(q, [p \in DOMAIN q.d |-> Shifted(q, i, step, p)])

\* The element at place i rises above the worse ones.
bubble_up(q, i, pri) ==
  Shift(q, i, [p \in DOMAIN q.d |->
    IF p > 1 /\ cmppri(pri[q.d[parent(p)]], pri[q.d[i]]) THEN parent(p) ELSE 0])

\* The child to compare with: the right one if it is better.
maxchild(q, i, pri) ==
  IF left(i) > Len(q.d) THEN 0
  ELSE IF right(i) <= Len(q.d) /\ cmppri(pri[q.d[left(i)]], pri[q.d[right(i)]])
    THEN right(i)
    ELSE left(i)

\* The element at place i sinks below its betters.
percolate_down(q, i, pri) ==
  Shift(q, i, [p \in DOMAIN q.d |->
    LET c == maxchild(q, p, pri)
    IN  IF c # 0 /\ cmppri(pri[q.d[i]], pri[q.d[c]]) THEN c ELSE 0])

pqueue_insert(q, e, pri) ==
  bubble_up([q EXCEPT !.d = Append(@, e)], Len(q.d) + 1, pri)

\* The caller's priority changes from old to pri[e].
pqueue_change_priority(q, e, old, pri) ==
  IF cmppri(old, pri[e]) THEN bubble_up(q, q.pos[e], pri)
                         ELSE percolate_down(q, q.pos[e], pri)

\* The last element is taken to place p.
LastTo(q, p) ==
  LET n == Len(q.d)
  IN  [q EXCEPT !.d = [i \in 1 .. n - 1 |-> IF i = p THEN q.d[n] ELSE q.d[i]]]

\* The last element takes the place of e.  When e is the last one the source
\* moves it onto itself, outside the queue: it keeps its position.
pqueue_remove(q, e, pri) ==
  LET n    == Len(q.d)
      posn == q.pos[e]
      rest == LastTo(q, posn)
  IN  IF posn = n THEN rest
      ELSE IF cmppri(pri[e], pri[q.d[n]]) THEN bubble_up(rest, posn, pri)
      ELSE percolate_down(rest, posn, pri)

pqueue_peek(q) == Head(q.d)

\* The last element takes the root's place and sinks.  The one popped keeps
\* the position it had.
pqueue_pop(q, pri) ==
  LET n    == Len(q.d)
      rest == LastTo(q, 1)
  IN  IF n = 1 THEN rest ELSE percolate_down(rest, 1, pri)

-----------------------------------------------------------------------------
\* pqueue_is_valid: no child is better than its parent.
pqueue_is_valid(q, pri) ==
  \A i \in DOMAIN q.d : i > 1 => ~cmppri(pri[q.d[parent(i)]], pri[q.d[i]])

\* Every element of the queue is in it once and knows its place.
PositionsRight(q) == \A i \in DOMAIN q.d : q.pos[q.d[i]] = i

=============================================================================
