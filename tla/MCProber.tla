------------------------------ MODULE MCProber ------------------------------
EXTENDS Prober

Wrapping == {6}
Limits == {[count |-> 0, timed |-> FALSE], [count |-> 2, timed |-> TRUE]}
=============================================================================
