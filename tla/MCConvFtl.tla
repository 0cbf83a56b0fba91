----------------------------- MODULE MCConvFtl -----------------------------
(* ConvFtl on five lines of two pages, three logical pages.                *)
EXTENDS ConvFtl, TLC

LpnSymmetry == Permutations(Lpns)

\* The run has the spare lines that SpareLinesSuffice (ConvFtlProofs) asks for.
ASSUME SpareLeft == Spare

\* The lines of the run fill small heaps only.  Here every operation is
\* compared with what it is for on all heaps of up to seven elements, element
\* i at place i; n + 1 is an element outside.
Heaps(n) ==
  {pri \in [1 .. n + 1 -> 0 .. 2] :
     pqueue_is_valid([d |-> [i \in 1 .. n |-> i]], pri)}
Queue(n) == [d |-> [i \in 1 .. n |-> i], pos |-> [i \in 1 .. n + 1 |-> IF i > n THEN 0 ELSE i]]
IsHeapOf(q, S, pri) ==
  /\ pqueue_is_valid(q, pri)
  /\ PositionsRight(q)
  /\ {q.d[i] : i \in DOMAIN q.d} = S
  /\ Len(q.d) = Cardinality(S)

ASSUME HeapOperations ==
  \A n \in 1 .. 6 : \A pri \in Heaps(n) :
    /\ IsHeapOf(pqueue_insert(Queue(n), n + 1, pri), 1 .. n + 1, pri)
    /\ \A i \in 1 .. n : pri[pqueue_peek(Queue(n))] <= pri[i]
    /\ IsHeapOf(pqueue_pop(Queue(n), pri), 2 .. n, pri)
    /\ \A e \in 1 .. n :
         /\ IsHeapOf(pqueue_remove(Queue(n), e, pri), (1 .. n) \ {e}, pri)
         /\ \A new \in 0 .. 2 :
              LET changed == [pri EXCEPT ![e] = new]
              IN  IsHeapOf(pqueue_change_priority(Queue(n), e, pri[e], changed), 1 .. n, changed)
===========================================================================
