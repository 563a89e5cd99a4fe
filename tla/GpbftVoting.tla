---------------------------- MODULE GpbftVoting ----------------------------
(***************************************************************************)
(* One gpbft instance seen through the votes its members sign.             *)
(*                                                                         *)
(* The only state is the inputs and the set of votes signed by honest      *)
(* members.  Members in Byz have no state: a message is accepted from them *)
(* whenever its justification verifies, so every aggregate may count all   *)
(* of their power.  An action is one RequestBroadcast of a PREPARE, COMMIT *)
(* or DECIDE; its guard is what the code has established on the path to    *)
(* that broadcast, read as evidence that exists somewhere in the network.  *)
(* CONVERGE and QUALITY votes carry no power in an aggregate and are left  *)
(* to GpbftInstance, which models one member message by message.           *)
(*                                                                         *)
(* A restarted process begins the instance again in round 0, with a fresh  *)
(* proposal.  All it keeps is the write-ahead log, through which the       *)
(* self-equivocation filter lets at most one message out per phase and     *)
(* round (SelfBroadcast); whatever else it did before is forgotten.        *)
(***************************************************************************)
EXTENDS PowerQuorums, ECChain, FiniteSets

CONSTANTS
    Chains,     \* the non-zero chains members may propose or vote for
    BaseTipset, \* the common base of all of them
    MaxRound,   \* bound on rounds
    Restarts    \* honest members whose process may be restarted

ASSUME RoundAssumption == MaxRound \in Nat

ASSUME ChainAssumption == Bottom \notin Chains

ASSUME RestartAssumption == Restarts \subseteq Honest

Rounds == 0..MaxRound

Values == Chains \cup {Bottom}

Vote == [sender : Honest, phase : {"PREPARE", "COMMIT", "DECIDE"},
         round : Rounds, value : Values]

VARIABLES
    input,   \* instance.input of each honest member
    votes    \* every PREPARE, COMMIT and DECIDE vote an honest member signed

vars == <<input, votes>>

-----------------------------------------------------------------------------
(***************************************************************************)
(* Evidence.                                                               *)
(***************************************************************************)
MkVote(p, ph, r, v) == [sender |-> p, phase |-> ph, round |-> r, value |-> v]

Signers(ph, r, v) == {p \in Honest : MkVote(p, ph, r, v) \in votes}

\* Enough signatures exist, or can be produced, for an aggregate that
\* validateJustification accepts.
HasQuorum(ph, r, v) == Strong(Signers(ph, r, v) \cup Byz)

\* A strong quorum of QUALITY messages extends v: quality.ReceiveEachPrefix
\* counts each proper prefix of every input, the base alone excepted.
QualityQuorum(v) ==
    /\ Len(v) > 1
    /\ Strong({p \in Honest : HasPrefix(input[p], v)} \cup Byz)

\* Mutant: the justification of a CONVERGE or PREPARE is not checked.
MutantJustified(r, v) == TRUE

\* What validateJustification demands of a CONVERGE or PREPARE for v in round r.
Justified(r, v) ==
    \/ r = 0
    \/ HasQuorum("PREPARE", r - 1, v)
    \/ HasQuorum("COMMIT", r - 1, Bottom)

\* Some member's PREPARE for w in round r would pass validation.
ReceivablePrepare(r, w) ==
    \/ Signers("PREPARE", r, w) # {}
    \/ Byz # {} /\ Justified(r, w)

\* Mutant: a CONVERGE value is adopted without asking whether it is a candidate.
MutantCandidate(p, r, v) == TRUE

\* v may have entered p's candidates by round r: the base, a prefix of its
\* input (after a restart another one) with a QUALITY quorum, or a chain it was swayed to by evidence of a
\* PREPARE quorum in an earlier round.
Candidate(p, r, v) ==
    \/ v = BaseChain(input[p])
    \/ (p \in Restarts \/ HasPrefix(input[p], v)) /\ QualityQuorum(v)
    \/ \E s \in Rounds : s < r /\ HasQuorum("PREPARE", s, v)

VotedIn(p, ph, r) == \E v \in Values : MkVote(p, ph, r, v) \in votes

Cast(p, ph, r, v) == /\ votes' = votes \cup {MkVote(p, ph, r, v)}
                     /\ UNCHANGED input

\* A phase is entered once in a round, and what a restarted process signs for
\* a phase and round it had voted in before does not pass its filter.
SlotFree(p, ph, r) == ~VotedIn(p, ph, r)

\* current.Round only grows while the process lives, and DECIDE ends the
\* rounds.
RoundOpen(p, r) ==
    \/ p \in Restarts
    \/ /\ ~VotedIn(p, "DECIDE", 0)
       /\ \A s \in Rounds : VotedIn(p, "PREPARE", s) => s <= r

-----------------------------------------------------------------------------
(***************************************************************************)
(* Actions.                                                                *)
(***************************************************************************)
Init ==
    /\ input \in [Honest -> {c \in Chains : HasBase(c, BaseTipset)}]
    /\ votes = {}

\* tryQuality in round 0, tryConverge in later rounds, then beginPrepare.
BeginPrepare(p, r, v) ==
    /\ RoundOpen(p, r) /\ SlotFree(p, "PREPARE", r)
    /\ v \in Chains
    /\ Candidate(p, r, v)
    /\ Justified(r, v)
    /\ Cast(p, "PREPARE", r, v)

\* tryPrepare gives up on its proposal v when a strong quorum for it is out
\* of reach, or when a strong quorum of members answered without agreeing:
\* either way it has received a PREPARE for something else.
CommitBottomEvidence(r, v) == \E w \in Values \ {v} : ReceivablePrepare(r, w)

\* u is the proposal p is in PREPARE with.  A restarted process may have been
\* kept from sending its PREPARE for it.
Prepared(p, r, u) ==
    \/ MkVote(p, "PREPARE", r, u) \in votes
    \/ p \in Restarts /\ Candidate(p, r, u) /\ Justified(r, u)

\* tryPrepare, then beginCommit: the proposal it prepared, or bottom.
BeginCommit(p, r, v) ==
    /\ RoundOpen(p, r) /\ SlotFree(p, "COMMIT", r)
    /\ \E u \in Chains :
          /\ Prepared(p, r, u)
          /\ \/ v = u /\ HasQuorum("PREPARE", r, u)
             \/ v = Bottom /\ CommitBottomEvidence(r, u)
    /\ Cast(p, "COMMIT", r, v)

\* tryCommit and beginDecide, or skipToDecide on a DECIDE that carries the
\* same evidence: a strong quorum of COMMITs for v in any round.
BeginDecide(p, v) ==
    /\ SlotFree(p, "DECIDE", 0)
    /\ v \in Chains
    /\ \E r \in Rounds : HasQuorum("COMMIT", r, v)
    /\ Cast(p, "DECIDE", 0, v)

Next ==
    \E p \in Honest, v \in Values :
        \/ \E r \in Rounds : BeginPrepare(p, r, v)
        \/ \E r \in Rounds : BeginCommit(p, r, v)
        \/ BeginDecide(p, v)

Spec == Init /\ [][Next]_vars

-----------------------------------------------------------------------------
(***************************************************************************)
(* Properties.                                                             *)
(***************************************************************************)
\* Votes are well formed and inputs share the base of the instance.
TypeOK ==
    /\ input \in [Honest -> Chains]
    /\ votes \subseteq Vote

\* terminate: a chain can be decided once DECIDE votes for it reach a strong
\* quorum in some member's i.decision.
Decided(v) == HasQuorum("DECIDE", 0, v)

\* The panic of FindStrongQuorumValue ("multiple chains with strong quorum")
\* is unreachable and all decisions are the same: over all rounds at most one
\* chain can gather a strong quorum of COMMITs, so no two honest members ever
\* send DECIDE for different chains and no two decisions differ.
Agreement ==
    /\ \A v, w \in Chains : \A r, s \in Rounds :
          HasQuorum("COMMIT", r, v) /\ HasQuorum("COMMIT", s, w) => v = w
    /\ \A v, w \in Chains : Decided(v) /\ Decided(w) => v = w

\* In one round at most one chain can be justified by PREPAREs, which is why
\* tryCommit may take the first non-bottom value ListAllValues returns ("There
\* can only be one such value since it must be justified by a strong quorum of
\* PREPAREs").
OneJustifiedCommit ==
    \A r \in Rounds : \A v, w \in Values :
        HasQuorum("PREPARE", r, v) /\ HasQuorum("PREPARE", r, w) => v = w

\* Chains that candidates may legitimately hold: the base, or a prefix of an
\* honest input that a strong quorum of QUALITY messages extended.
Acceptable(v) ==
    \E p \in Honest : \/ v = BaseChain(input[p])
                      \/ HasPrefix(input[p], v) /\ QualityQuorum(v)

\* A decided chain is the base, or was extended by the QUALITY messages of a
\* strong quorum and by the input of some honest member: being swayed, in
\* tryConverge, tryCommit or skipToRound, never brings in a chain that only
\* faulty members proposed.
Validity == \A v \in Chains : Decided(v) => Acceptable(v)

\* Round r can no longer produce a strong quorum of COMMITs for v: a strong
\* quorum committed to bottom or prepared something else.
Blocked(v, r) ==
    \/ HasQuorum("COMMIT", r, Bottom)
    \/ \E u \in Values \ {v} : HasQuorum("PREPARE", r, u)

\* Why justifications make deciding safe: as soon as something other than v
\* can be prepared in a later round, v can no longer be committed in round r.
\* This is what beginConverge's justification carries from round to round.
SafeRounds ==
    \A r, s \in Rounds : \A v \in Chains : \A w \in Values :
        r < s /\ v # w /\ Justified(s, w) => Blocked(v, r)

\* The promise to the host: decisions are taken once and never change.
Consensus == INSTANCE GpbftConsensus
    WITH Decidable <- Chains, decided <- {v \in Chains : Decided(v)}

ImplementsConsensus == Consensus!Spec

=============================================================================
