---------------------------- MODULE MCMultiplexer ----------------------------
EXTENDS Multiplexer
MCProtocols == <<0, 1, 2>>
MCLengths == [p \in {0, 1, 2} |-> IF p = 0 THEN {1} ELSE {1, 9, 19}]
=============================================================================
