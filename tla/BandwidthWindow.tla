--------------------------- MODULE BandwidthWindow ---------------------------
(***************************************************************************)
(* What a channel model promises: from now on there are Width intervals,   *)
(* each with the credits nobody has taken yet.  Time moves on and new      *)
(* intervals come into view untouched; a transfer takes the earliest       *)
(* credits from its interval on.  No interval gives more than it has.      *)
(***************************************************************************)
EXTENDS Integers

CONSTANTS Width, Credits

VARIABLES
  now,     \* the first interval of the window
  free     \* free[i]: credits left in interval now + i

Offsets == 0 .. Width - 1

Init == now = 0 /\ free = [i \in Offsets |-> Credits]

Moved(k) == [i \in Offsets |-> IF i + k \in Offsets THEN free[i + k] ELSE Credits]

\* Of the window w, what a transfer leaves that begins in interval first and ends in
\* interval last: it goes on to the next interval only when one has nothing left.
Taken(w, first, last, rest) ==
  [i \in Offsets |-> IF first <= i /\ i < last THEN 0 ELSE IF i = last THEN rest ELSE w[i]]

\* Time passes, and a transfer takes its credits, or none.
Next ==
  /\ now' >= now
  /\ \E first, last \in Offsets :
       LET w == Moved(now' - now)
       IN  /\ first <= last
           /\ \E rest \in 0 .. w[last] : free' = Taken(w, first, last, rest)

Spec == Init /\ [][Next]_<<now, free>>

==============================================================================
