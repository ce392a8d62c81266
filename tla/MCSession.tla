----------------------------- MODULE MCSession -----------------------------
\* Instances of Session for TLC: m1 is a Mouse Trap, a1 and a2 are A24s.
EXTENDS Session

CONSTANTS m1, a1, a2

ModelOfTrap == [d \in Devices |-> IF d = m1 THEN "C20" ELSE "A24"]
=============================================================================
