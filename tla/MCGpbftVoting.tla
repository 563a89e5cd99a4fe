--------------------------- MODULE MCGpbftVoting ---------------------------
(***************************************************************************)
(* Two honest members of power 3 and 2 and a faulty member of power 2: a   *)
(* strong quorum is 5 of 7, so the heavier honest member needs one of the  *)
(* others and the other two cannot do without it.                          *)
(***************************************************************************)
EXTENDS GpbftVoting, FiniteSets

CONSTANTS h1, h2, b1, g, x, y

MCHonest == {h1, h2}
MCByz == {b1}
MCPowerOf ==
    [S \in SUBSET {h1, h2, b1} |->
        2 * Cardinality(S) + (IF h1 \in S THEN 1 ELSE 0)]

\* Two forks of the base.
MCChains == {<<g>>, <<g, x>>, <<g, y>>}

=============================================================================
