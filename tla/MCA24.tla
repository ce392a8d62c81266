-------------------------------- MODULE MCA24 --------------------------------
\* Instances of A24 for TLC: two kills, and once each event that they allow.
EXTENDS A24

Only(fires, E) ==
  [e \in Events |-> IF e = "fire" THEN fires ELSE IF e \in E THEN 1 ELSE 0]

Alerts   == Only(2, {"app", "restart", "shake", "unread"})
Canister == Only(2, {"extra", "power", "reset"})
=============================================================================
