---------------------------- MODULE MCCostLedger ----------------------------
\* Small instances of CostLedger.
EXTENDS CostLedger

CONSTANTS r1, r2, r3

MCIds == {r1, r2}
MCThreeIds == {r1, r2, r3}

\* One storage error of each kind and one restart.
MCFaults == [write |-> 1, recover |-> 1, open |-> 1, stop |-> 1]
=============================================================================
