--------------------------- MODULE MCF3Lifecycle ---------------------------
EXTENDS F3Lifecycle, TLC

MCPower == [e \in 0..MaxHead |-> (e * e) % 5]
=============================================================================
