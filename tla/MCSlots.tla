------------------------------ MODULE MCSlots -------------------------------
\* Instances of Slots for TLC: how often each event may happen.
EXTENDS Slots

Once == [e \in Events |-> 1]
=============================================================================
