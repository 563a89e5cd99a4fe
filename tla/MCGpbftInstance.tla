-------------------------- MODULE MCGpbftInstance --------------------------
(***************************************************************************)
(* Self (power 2), one honest peer (3) and one faulty peer (2) of total 7: *)
(* a strong quorum is 5, a weak quorum more than 3.                        *)
(***************************************************************************)
EXTENDS GpbftInstance, Functions

CONSTANTS s, h, b, g, x, y

MCHonest == {s, h}
MCByz == {b}
MCPower == (s :> 2) @@ (h :> 3) @@ (b :> 2)
MCPowerOf == [S \in SUBSET {s, h, b} |-> SumFunctionOnSet(MCPower, S)]

\* Self proposes the extension, its peer either chain.
MCInit == Init /\ Len(input[s]) > 1
MCSpec == MCInit /\ [][Next]_vars

\* The base and one extension.
MCShort == {<<g>>, <<g, x>>}

\* The base and two extensions, one of the other.
MCLong == {<<g>>, <<g, x>>, <<g, x, y>>}

=============================================================================
