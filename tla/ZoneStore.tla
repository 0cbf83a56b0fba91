----------------------------- MODULE ZoneStore -----------------------------
(***************************************************************************)
(* What the translation layer of a zoned namespace promises to the         *)
(* commands above it: every zone holds a prefix of its pages, a flushed    *)
(* page extends the prefix by one, a reset empties the zone at once, and   *)
(* nothing else (a collection, above all) changes what any zone holds.     *)
(* The promise ends with a failure, which never goes away.                 *)
(***************************************************************************)
EXTENDS Naturals, FiniteSets

CONSTANT Zones

VARIABLES
  held,     \* held[z]: the offsets of zone z that can be read back
  failed    \* nothing is promised any more

Prefix(n) == 0 .. n - 1

Init == held = [z \in Zones |-> {}] /\ failed = FALSE

Append(z) ==
  LET n == Cardinality(held[z])
  IN  /\ ~failed
      /\ held[z] = Prefix(n)
      /\ held' = [held EXCEPT ![z] = Prefix(n + 1)]
      /\ UNCHANGED failed

Clear(z) ==
  /\ ~failed
  /\ held' = [held EXCEPT ![z] = {}]
  /\ UNCHANGED failed

\* What zones hold from here on is arbitrary.
Fail == failed' = TRUE

Next == (\E z \in Zones : Append(z) \/ Clear(z)) \/ Fail

Spec == Init /\ [][Next]_<<held, failed>>

============================================================================
