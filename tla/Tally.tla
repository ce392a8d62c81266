------------------------------- MODULE Tally -------------------------------
(***************************************************************************)
(* What the Strikes of a trap promise (a total that only increases): it    *)
(* counts kills the trap has made, each of them once, at some later time   *)
(* than they happen and several at once if need be.  It is a promise for   *)
(* as long as trap and gateway are sound.                                  *)
(***************************************************************************)
EXTENDS Naturals, FiniteSets

VARIABLES kills,    \* the kills made
          counted,  \* those in the total
          total,    \* the published number
          sound     \* nothing has happened to trap or gateway

Init == counted = {} /\ total = 0

Happen == kills \subseteq kills' /\ UNCHANGED <<counted, total>>

Count ==
  /\ counted \subseteq counted' /\ counted' \subseteq kills
  /\ total' = Cardinality(counted')
  /\ UNCHANGED kills

Spec == Init /\ [][sound' => Happen \/ Count]_<<kills, counted, total>>
=============================================================================
