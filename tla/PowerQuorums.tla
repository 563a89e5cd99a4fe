---------------------------- MODULE PowerQuorums ----------------------------
(***************************************************************************)
(* The quorum arithmetic of gpbft: how much scaled power makes a strong    *)
(* quorum, a weak quorum, and a quorum that may still be reached.          *)
(*                                                                         *)
(* Power is given as a measure on sets of committee members (the sums of   *)
(* PowerTable.ScaledPower that quorumState accumulates), so the only fact  *)
(* the proofs need about summation is that it adds up on disjoint sets.    *)
(***************************************************************************)
EXTENDS QuorumArithmetic

CONSTANTS
    Honest,   \* members of the committee that run this code
    Byz,      \* members that may send any message whose signatures verify
    PowerOf   \* scaled power of each set of members

Participants == Honest \cup Byz

ASSUME MembersAssumption == Honest \cap Byz = {}

ASSUME PowerAssumption ==
    /\ PowerOf \in [SUBSET Participants -> Nat]
    /\ \A S, T \in SUBSET Participants :
          S \cap T = {} => PowerOf[S \cup T] = PowerOf[S] + PowerOf[T]

\* PowerTable.ScaledTotal
ScaledTotal == PowerOf[Participants]

\* The fault assumption of the protocol: less than a third of the power.
ASSUME FaultAssumption == 3 * PowerOf[Byz] < ScaledTotal

-----------------------------------------------------------------------------
Strong(S) == IsStrongQuorum(PowerOf[S], ScaledTotal)

Weak(S) == hasWeakQuorum(PowerOf[S], ScaledTotal)

(***************************************************************************)
(* CouldReachStrongQuorumFor, given the members that support the value and *)
(* all the members a vote was received from.  With an equivocating         *)
(* adversary a third of the power may vote once more, capped at the total. *)
(***************************************************************************)
CouldReachStrong(supporters, senders, withAdversary) ==
    LET possible == PowerOf[supporters] + (ScaledTotal - PowerOf[senders])
                    + (IF withAdversary THEN ScaledTotal \div 3 ELSE 0)
    IN  IsStrongQuorum(IF possible < ScaledTotal THEN possible ELSE ScaledTotal,
                       ScaledTotal)

=============================================================================
