--------------------------- MODULE GpbftConsensus ---------------------------
(***************************************************************************)
(* What one gpbft instance promises its host: it hands out at most one     *)
(* decision, a decision is never taken back, and the decided chain is one  *)
(* the participants had reason to vote for.                                *)
(***************************************************************************)
CONSTANT Decidable   \* chains an honest member may vote for

VARIABLE decided     \* the set of chains decided so far

Init == decided = {}

Decide(v) ==
    /\ decided = {}
    /\ v \in Decidable
    /\ decided' = {v}

Next == \E v \in Decidable : Decide(v)

Spec == Init /\ [][Next]_decided

=============================================================================
