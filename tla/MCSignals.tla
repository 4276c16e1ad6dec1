------------------------------ MODULE MCSignals ------------------------------
\* One receiver of each kind.
EXTENDS Signals

CONSTANTS r1, r2

MCReceiver == {r1, r2}
MCListens == [r \in MCReceiver |-> IF r = r2 THEN usr2 ELSE usr1]
MCtids == <<Reporter, r1, r2>>
=============================================================================
