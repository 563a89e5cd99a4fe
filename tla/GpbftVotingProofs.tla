------------------------- MODULE GpbftVotingProofs -------------------------
(***************************************************************************)
(* Proofs about GpbftVoting, for every committee, every distribution of    *)
(* power in which the faulty members hold less than a third, every set of  *)
(* chains and every number of rounds.                                      *)
(***************************************************************************)
EXTENDS GpbftVoting, TLAPS

-----------------------------------------------------------------------------
(***************************************************************************)
(* Quorum arithmetic.                                                      *)
(***************************************************************************)

\* IsStrongQuorum rounds its threshold up, so it is exactly "at least two
\* thirds".
LEMMA StrongIsTwoThirds ==
    ASSUME NEW part \in Nat, NEW whole \in Nat
    PROVE  IsStrongQuorum(part, whole) <=> 3 * part >= 2 * whole
BY SMT DEF IsStrongQuorum, divCeil

\* The power of disjoint sets of members adds up.
LEMMA PowerAdds ==
    ASSUME NEW S \in SUBSET Participants, NEW T \in SUBSET Participants,
           S \cap T = {}
    PROVE  /\ PowerOf[S] \in Nat /\ PowerOf[T] \in Nat
           /\ PowerOf[S \cup T] = PowerOf[S] + PowerOf[T]
BY PowerAssumption

\* Two strong quorums that both count all faulty members share an honest one.
LEMMA QuorumsIntersect ==
    ASSUME NEW S \in SUBSET Honest, NEW T \in SUBSET Honest,
           Strong(S \cup Byz), Strong(T \cup Byz)
    PROVE  \E p \in Honest : p \in S /\ p \in T
<1> SUFFICES ASSUME S \cap T = {} PROVE FALSE
  OBVIOUS
<1> DEFINE R == Honest \ (S \cup T)
<1>1. /\ S \in SUBSET Participants /\ T \in SUBSET Participants
      /\ R \in SUBSET Participants /\ Byz \in SUBSET Participants
      /\ S \cup T \in SUBSET Participants /\ Honest \in SUBSET Participants
  BY DEF Participants
<1>2. /\ S \cap Byz = {} /\ T \cap Byz = {} /\ Honest \cap Byz = {}
      /\ (S \cup T) \cap R = {}
  BY MembersAssumption
<1>3. /\ (S \cup T) \cup R = Honest
      /\ Honest \cup Byz = Participants
  BY DEF Participants
<1> DEFINE s == PowerOf[S]  t == PowerOf[T]  b == PowerOf[Byz]  q == PowerOf[R]
<1>4. /\ s \in Nat /\ t \in Nat /\ b \in Nat /\ q \in Nat
  BY <1>1, PowerAssumption
<1>5. PowerOf[S \cup Byz] = s + b /\ PowerOf[T \cup Byz] = t + b
  BY <1>1, <1>2, PowerAdds
<1>6. PowerOf[S \cup T] = s + t
  BY <1>1, PowerAdds
<1>7. PowerOf[Honest] = s + t + q
  BY <1>1, <1>2, <1>3, <1>6, PowerAdds
<1>8. ScaledTotal = s + t + q + b
  BY <1>1, <1>2, <1>3, <1>7, PowerAdds DEF ScaledTotal
<1>9. 3 * (s + b) >= 2 * (s + t + q + b) /\ 3 * (t + b) >= 2 * (s + t + q + b)
  <2>1. s + b \in Nat /\ t + b \in Nat /\ s + t + q + b \in Nat
    BY <1>4
  <2>2. IsStrongQuorum(s + b, s + t + q + b) /\ IsStrongQuorum(t + b, s + t + q + b)
    BY <1>5, <1>8 DEF Strong
  <2> QED BY <2>1, <2>2, StrongIsTwoThirds
<1>10. 3 * b < s + t + q + b
  BY <1>8, FaultAssumption
<1> HIDE DEF s, t, b, q
<1> QED BY <1>4, <1>9, <1>10

\* The faulty members are not a strong quorum on their own.
LEMMA QuorumHasHonest ==
    ASSUME NEW S \in SUBSET Honest, Strong(S \cup Byz)
    PROVE  \E p \in Honest : p \in S
BY QuorumsIntersect

\* More signatures never undo a quorum.
LEMMA QuorumGrows ==
    ASSUME NEW S \in SUBSET Honest, NEW T \in SUBSET Honest, S \subseteq T,
           Strong(S \cup Byz)
    PROVE  Strong(T \cup Byz)
<1> DEFINE A == S \cup Byz  D == T \ S
<1>1. /\ A \in SUBSET Participants /\ D \in SUBSET Participants
      /\ Participants \in SUBSET Participants
      /\ A \cap D = {} /\ A \cup D = T \cup Byz
  BY MembersAssumption DEF Participants
<1>2. PowerOf[A] \in Nat /\ PowerOf[D] \in Nat /\ ScaledTotal \in Nat
  BY <1>1, PowerAssumption DEF ScaledTotal
<1>3. PowerOf[T \cup Byz] = PowerOf[A] + PowerOf[D]
  BY <1>1, PowerAdds
<1>4. 3 * PowerOf[A] >= 2 * ScaledTotal
  BY <1>2, StrongIsTwoThirds DEF Strong
<1>5. 3 * (PowerOf[A] + PowerOf[D]) >= 2 * ScaledTotal
  BY <1>2, <1>4
<1>6. PowerOf[A] + PowerOf[D] \in Nat
  BY <1>2
<1> QED BY <1>2, <1>3, <1>5, <1>6, StrongIsTwoThirds DEF Strong

-----------------------------------------------------------------------------
(***************************************************************************)
(* The inductive invariant: every vote in the history still has the        *)
(* evidence it was cast on, votes are unique, and SafeRounds.              *)
(***************************************************************************)
OneVotePerPhase ==
    \A p \in Honest : \A ph \in {"PREPARE", "COMMIT"} : \A r \in Rounds :
        \A v, w \in Values :
            MkVote(p, ph, r, v) \in votes /\ MkVote(p, ph, r, w) \in votes => v = w

PreparesJustified ==
    \A p \in Honest : \A r \in Rounds : \A v \in Values :
        MkVote(p, "PREPARE", r, v) \in votes => v \in Chains /\ Justified(r, v)

CommitsJustified ==
    \A p \in Honest : \A r \in Rounds : \A v \in Values :
        MkVote(p, "COMMIT", r, v) \in votes =>
            IF v = Bottom
            THEN \E u, w \in Values : u # w /\ Justified(r, u) /\ Justified(r, w)
            ELSE HasQuorum("PREPARE", r, v)

DecidesJustified ==
    \A p \in Honest : \A v \in Values :
        MkVote(p, "DECIDE", 0, v) \in votes =>
            v \in Chains /\ \E r \in Rounds : HasQuorum("COMMIT", r, v)

PreparesAcceptable ==
    \A p \in Honest : \A r \in Rounds : \A v \in Values :
        MkVote(p, "PREPARE", r, v) \in votes => Acceptable(v)

IInv ==
    /\ TypeOK
    /\ OneVotePerPhase
    /\ PreparesJustified
    /\ CommitsJustified
    /\ DecidesJustified
    /\ PreparesAcceptable
    /\ SafeRounds

-----------------------------------------------------------------------------
\* Signers of a quorum are honest members.
LEMMA SignersHonest ==
    ASSUME NEW ph, NEW r, NEW v
    PROVE  /\ Signers(ph, r, v) \in SUBSET Honest
           /\ Signers(ph, r, v)' \in SUBSET Honest
BY DEF Signers

\* A quorum holds the vote of some honest member.
LEMMA QuorumWitness ==
    ASSUME NEW ph, NEW r, NEW v, HasQuorum(ph, r, v)
    PROVE  \E p \in Honest : MkVote(p, ph, r, v) \in votes
<1>1. \E p \in Honest : p \in Signers(ph, r, v)
  BY SignersHonest, QuorumHasHonest DEF HasQuorum
<1> QED BY <1>1 DEF Signers

\* A chain with a QUALITY quorum is a prefix of some honest input.
LEMMA QualityHasHonest ==
    ASSUME NEW v, QualityQuorum(v)
    PROVE  \E p \in Honest : HasPrefix(input[p], v)
<1> DEFINE S == {p \in Honest : HasPrefix(input[p], v)}
<1>1. Strong(S \cup Byz) /\ S \in SUBSET Honest
  BY DEF QualityQuorum
<1> HIDE DEF S
<1>2. \E p \in Honest : p \in S
  BY <1>1, QuorumHasHonest
<1> QED BY <1>2 DEF S

\* Two quorums share the votes of some honest member.
LEMMA CommonWitness ==
    ASSUME NEW ph, NEW r, NEW v, NEW ph2, NEW r2, NEW w,
           HasQuorum(ph, r, v), HasQuorum(ph2, r2, w)
    PROVE  \E p \in Honest : /\ MkVote(p, ph, r, v) \in votes
                             /\ MkVote(p, ph2, r2, w) \in votes
<1>1. \E p \in Honest : p \in Signers(ph, r, v) /\ p \in Signers(ph2, r2, w)
  BY SignersHonest, QuorumsIntersect DEF HasQuorum
<1> QED BY <1>1 DEF Signers

\* Evidence is never lost while votes only accumulate.
LEMMA EvidenceGrows ==
    ASSUME votes \subseteq votes'
    PROVE  /\ \A ph, r, v : HasQuorum(ph, r, v) => HasQuorum(ph, r, v)'
           /\ \A r, v : Justified(r, v) => Justified(r, v)'
           /\ \A v, r : Blocked(v, r) => Blocked(v, r)'
<1>1. ASSUME NEW ph, NEW r, NEW v, HasQuorum(ph, r, v) PROVE HasQuorum(ph, r, v)'
  <2>1. Signers(ph, r, v) \subseteq Signers(ph, r, v)'
    BY DEF Signers, MkVote
  <2>2. Strong(Signers(ph, r, v)' \cup Byz)
    BY <1>1, <2>1, SignersHonest, QuorumGrows DEF HasQuorum
  <2> QED BY <2>2 DEF HasQuorum, Strong
<1>2. ASSUME NEW r, NEW v, Justified(r, v) PROVE Justified(r, v)'
  BY <1>1, <1>2 DEF Justified
<1>3. ASSUME NEW v, NEW r, Blocked(v, r) PROVE Blocked(v, r)'
  BY <1>1, <1>3 DEF Blocked
<1> QED BY <1>1, <1>2, <1>3

\* QuorumWitness in the state after a step.
LEMMA QuorumWitnessNext ==
    ASSUME NEW ph, NEW r, NEW v, HasQuorum(ph, r, v)'
    PROVE  \E p \in Honest : MkVote(p, ph, r, v) \in votes'
<1>1. Strong(Signers(ph, r, v)' \cup Byz)
  BY DEF HasQuorum, Strong
<1>2. \E p \in Honest : p \in Signers(ph, r, v)'
  BY <1>1, SignersHonest, QuorumHasHonest
<1> QED BY <1>2 DEF Signers, MkVote

(***************************************************************************)
(* What a step guarantees about the votes after it, in terms of evidence   *)
(* that existed before it.                                                 *)
(***************************************************************************)
PreparesFromEvidence ==
    \A p \in Honest : \A r \in Rounds : \A v \in Values :
        MkVote(p, "PREPARE", r, v) \in votes' =>
            v \in Chains /\ Justified(r, v) /\ Acceptable(v)

CommitsFromEvidence ==
    \A p \in Honest : \A r \in Rounds : \A v \in Values :
        MkVote(p, "COMMIT", r, v) \in votes' =>
            IF v = Bottom
            THEN \E u, w \in Values : u # w /\ Justified(r, u) /\ Justified(r, w)
            ELSE HasQuorum("PREPARE", r, v)

DecidesFromEvidence ==
    \A p \in Honest : \A v \in Values :
        MkVote(p, "DECIDE", 0, v) \in votes' =>
            v \in Chains /\ \E r \in Rounds : HasQuorum("COMMIT", r, v)

StepFacts ==
    /\ votes \subseteq votes'
    /\ input' = input
    /\ TypeOK'
    /\ OneVotePerPhase'
    /\ PreparesFromEvidence
    /\ CommitsFromEvidence
    /\ DecidesFromEvidence

\* Casting a vote adds that vote and no other.
LEMMA CastAddsOne ==
    ASSUME NEW p, NEW ph, NEW r, NEW v, Cast(p, ph, r, v)
    PROVE  /\ votes \subseteq votes' /\ input' = input
           /\ \A q, ph2, r2, w : MkVote(q, ph2, r2, w) \in votes' =>
                 \/ MkVote(q, ph2, r2, w) \in votes
                 \/ q = p /\ ph2 = ph /\ r2 = r /\ w = v
BY DEF Cast, MkVote

\* tryQuality, tryConverge and beginPrepare.
LEMMA PrepareStep ==
    ASSUME IInv, NEW p \in Honest, NEW r \in Rounds, NEW v \in Values,
           BeginPrepare(p, r, v)
    PROVE  StepFacts
<1>1. /\ v \in Chains /\ Candidate(p, r, v) /\ Justified(r, v)
      /\ Cast(p, "PREPARE", r, v)
      /\ ~VotedIn(p, "PREPARE", r)
  BY DEF BeginPrepare, SlotFree
<1>2. Acceptable(v)
  <2>1. ASSUME NEW s \in Rounds, HasQuorum("PREPARE", s, v) PROVE Acceptable(v)
    BY <2>1, QuorumWitness DEF IInv, PreparesAcceptable
  <2>2. ASSUME QualityQuorum(v) PROVE Acceptable(v)
    BY <2>2, QualityHasHonest DEF Acceptable
  <2> QED BY <1>1, <2>1, <2>2 DEF Candidate, Acceptable
<1>3. votes \subseteq votes' /\ input' = input
  BY <1>1, CastAddsOne
<1>4. \A q, ph2, r2, w : MkVote(q, ph2, r2, w) \in votes' =>
          \/ MkVote(q, ph2, r2, w) \in votes
          \/ q = p /\ ph2 = "PREPARE" /\ r2 = r /\ w = v
  BY <1>1, CastAddsOne
<1>5. TypeOK'
  BY <1>1, <1>3 DEF IInv, TypeOK, Cast, MkVote, Vote
<1>6. OneVotePerPhase'
  <2> SUFFICES ASSUME NEW q \in Honest, NEW ph \in {"PREPARE", "COMMIT"},
                      NEW s \in Rounds, NEW u \in Values, NEW w \in Values,
                      MkVote(q, ph, s, u) \in votes', MkVote(q, ph, s, w) \in votes'
               PROVE  u = w
    BY DEF OneVotePerPhase, MkVote
  <2> QED BY <1>1, <1>4 DEF IInv, OneVotePerPhase, VotedIn
<1>7. PreparesFromEvidence
  BY <1>1, <1>2, <1>4 DEF IInv, PreparesJustified, PreparesAcceptable, PreparesFromEvidence
<1>8. CommitsFromEvidence
  BY <1>4 DEF IInv, CommitsJustified, CommitsFromEvidence
<1>9. DecidesFromEvidence
  BY <1>4 DEF IInv, DecidesJustified, DecidesFromEvidence
<1> QED BY <1>3, <1>5, <1>6, <1>7, <1>8, <1>9 DEF StepFacts

\* tryPrepare and beginCommit.
LEMMA CommitStep ==
    ASSUME IInv, NEW p \in Honest, NEW r \in Rounds, NEW v \in Values,
           BeginCommit(p, r, v)
    PROVE  StepFacts
<1>1. /\ Cast(p, "COMMIT", r, v) /\ ~VotedIn(p, "COMMIT", r)
  BY DEF BeginCommit, SlotFree
<1>2. PICK u \in Chains : /\ Prepared(p, r, u)
                          /\ \/ v = u /\ HasQuorum("PREPARE", r, u)
                             \/ v = Bottom /\ CommitBottomEvidence(r, u)
  BY DEF BeginCommit
<1>3. votes \subseteq votes' /\ input' = input
  BY <1>1, CastAddsOne
<1>4. \A q, ph2, r2, w : MkVote(q, ph2, r2, w) \in votes' =>
          \/ MkVote(q, ph2, r2, w) \in votes
          \/ q = p /\ ph2 = "COMMIT" /\ r2 = r /\ w = v
  BY <1>1, CastAddsOne
<1>5. TypeOK'
  BY <1>1, <1>3 DEF IInv, TypeOK, Cast, MkVote, Vote
<1>6. OneVotePerPhase'
  <2> SUFFICES ASSUME NEW q \in Honest, NEW ph \in {"PREPARE", "COMMIT"},
                      NEW s \in Rounds, NEW x \in Values, NEW w \in Values,
                      MkVote(q, ph, s, x) \in votes', MkVote(q, ph, s, w) \in votes'
               PROVE  x = w
    BY DEF OneVotePerPhase, MkVote
  <2> QED BY <1>1, <1>4 DEF IInv, OneVotePerPhase, VotedIn
<1>7. PreparesFromEvidence
  BY <1>4 DEF IInv, PreparesJustified, PreparesAcceptable, PreparesFromEvidence
<1>8. IF v = Bottom
      THEN \E x, w \in Values : x # w /\ Justified(r, x) /\ Justified(r, w)
      ELSE HasQuorum("PREPARE", r, v)
  <2>1. CASE v = u /\ HasQuorum("PREPARE", r, u)
    BY <2>1, ChainAssumption
  <2>2. CASE v = Bottom /\ CommitBottomEvidence(r, u)
    <3>1. PICK w \in Values \ {u} : ReceivablePrepare(r, w)
      BY <2>2 DEF CommitBottomEvidence
    <3>2. Justified(r, w)
      BY <3>1 DEF ReceivablePrepare, Signers, IInv, PreparesJustified
    <3>3. u \in Values /\ Justified(r, u)
      BY <1>2 DEF IInv, PreparesJustified, Values, Prepared
    <3> QED BY <2>2, <3>1, <3>2, <3>3
  <2> QED BY <1>2, <2>1, <2>2
<1>9. CommitsFromEvidence
  BY <1>4, <1>8 DEF IInv, CommitsJustified, CommitsFromEvidence
<1>10. DecidesFromEvidence
  BY <1>4 DEF IInv, DecidesJustified, DecidesFromEvidence
<1> QED BY <1>3, <1>5, <1>6, <1>7, <1>9, <1>10 DEF StepFacts

\* tryCommit and beginDecide, or skipToDecide.
LEMMA DecideStep ==
    ASSUME IInv, NEW p \in Honest, NEW v \in Values, BeginDecide(p, v)
    PROVE  StepFacts
<1>1. /\ v \in Chains /\ \E r \in Rounds : HasQuorum("COMMIT", r, v)
      /\ Cast(p, "DECIDE", 0, v)
  BY DEF BeginDecide
<1>2. votes \subseteq votes' /\ input' = input
  BY <1>1, CastAddsOne
<1>3. \A q, ph2, r2, w : MkVote(q, ph2, r2, w) \in votes' =>
          \/ MkVote(q, ph2, r2, w) \in votes
          \/ q = p /\ ph2 = "DECIDE" /\ r2 = 0 /\ w = v
  BY <1>1, CastAddsOne
<1>4. TypeOK'
  BY <1>1, <1>2, RoundAssumption DEF IInv, TypeOK, Cast, MkVote, Vote, Rounds
<1>5. OneVotePerPhase'
  BY <1>3 DEF IInv, OneVotePerPhase, MkVote
<1>6. PreparesFromEvidence
  BY <1>3 DEF IInv, PreparesJustified, PreparesAcceptable, PreparesFromEvidence
<1>7. CommitsFromEvidence
  BY <1>3 DEF IInv, CommitsJustified, CommitsFromEvidence
<1>8. DecidesFromEvidence
  BY <1>1, <1>3 DEF IInv, DecidesJustified, DecidesFromEvidence
<1> QED BY <1>2, <1>4, <1>5, <1>6, <1>7, <1>8 DEF StepFacts

-----------------------------------------------------------------------------
\* Every step, stuttering included, gives StepFacts.
LEMMA NextGivesStepFacts ==
    IInv /\ [Next]_vars => StepFacts
<1> SUFFICES ASSUME IInv, [Next]_vars PROVE StepFacts
  OBVIOUS
<1>1. ASSUME NEW p \in Honest, NEW v \in Values, NEW r \in Rounds,
             BeginPrepare(p, r, v)
      PROVE  StepFacts
  BY <1>1, PrepareStep
<1>2. ASSUME NEW p \in Honest, NEW v \in Values, NEW r \in Rounds,
             BeginCommit(p, r, v)
      PROVE  StepFacts
  BY <1>2, CommitStep
<1>3. ASSUME NEW p \in Honest, NEW v \in Values, BeginDecide(p, v)
      PROVE  StepFacts
  BY <1>3, DecideStep
<1>4. CASE UNCHANGED vars
  <2>1. votes' = votes /\ input' = input
    BY <1>4 DEF vars
  <2> QED BY <2>1 DEF StepFacts, IInv, TypeOK, OneVotePerPhase, PreparesJustified,
             CommitsJustified, DecidesJustified, PreparesAcceptable,
             PreparesFromEvidence, CommitsFromEvidence, DecidesFromEvidence, MkVote
<1> QED BY <1>1, <1>2, <1>3, <1>4 DEF Next

\* The invariant survives a step: evidence grows, and a later round can only
\* come to prepare something other than v on evidence that already blocked v.
LEMMA InvariantIsInductive ==
    IInv /\ StepFacts => IInv'
<1> SUFFICES ASSUME IInv, StepFacts PROVE IInv'
  OBVIOUS
<1>1. /\ votes \subseteq votes' /\ input' = input
      /\ TypeOK' /\ OneVotePerPhase'
      /\ PreparesFromEvidence /\ CommitsFromEvidence /\ DecidesFromEvidence
  BY DEF StepFacts
<1>2. /\ \A ph, r, v : HasQuorum(ph, r, v) => HasQuorum(ph, r, v)'
      /\ \A r, v : Justified(r, v) => Justified(r, v)'
      /\ \A v, r : Blocked(v, r) => Blocked(v, r)'
  BY <1>1, EvidenceGrows
<1>3. \A v : Acceptable(v)' <=> Acceptable(v)
  BY <1>1 DEF Acceptable, QualityQuorum, Strong
<1>4. PreparesJustified'
  BY <1>1, <1>2 DEF PreparesJustified, PreparesFromEvidence, MkVote
<1>5. CommitsJustified'
  <2> SUFFICES ASSUME NEW p \in Honest, NEW r \in Rounds, NEW v \in Values,
                      MkVote(p, "COMMIT", r, v) \in votes'
               PROVE  IF v = Bottom
                      THEN \E u, w \in Values :
                              u # w /\ Justified(r, u)' /\ Justified(r, w)'
                      ELSE HasQuorum("PREPARE", r, v)'
    BY DEF CommitsJustified, MkVote
  <2> QED BY <1>1, <1>2 DEF CommitsFromEvidence
<1>6. DecidesJustified'
  BY <1>1, <1>2 DEF DecidesJustified, DecidesFromEvidence, MkVote
<1>7. PreparesAcceptable'
  BY <1>1, <1>3 DEF PreparesAcceptable, PreparesFromEvidence, MkVote
<1>8. SafeRounds'
  <2> SUFFICES ASSUME NEW r \in Rounds, NEW s \in Rounds, NEW v \in Chains,
                      NEW w \in Values, r < s, v # w, Justified(s, w)'
               PROVE  Blocked(v, r)'
    BY DEF SafeRounds
  <2>1. /\ r \in Nat /\ s \in Nat /\ s # 0 /\ s - 1 \in Rounds
        /\ (r = s - 1 \/ r < s - 1)
    BY RoundAssumption DEF Rounds
  <2>2. ASSUME NEW u \in Values, u # v, r < s - 1, Justified(s - 1, u)
        PROVE  Blocked(v, r)'
    BY <1>2, <2>1, <2>2 DEF IInv, SafeRounds
  <2>3. CASE HasQuorum("PREPARE", s - 1, w)'
    <3>1. CASE r = s - 1
      BY <2>3, <3>1 DEF Blocked
    <3>2. CASE r < s - 1
      <4>1. PICK p \in Honest : MkVote(p, "PREPARE", s - 1, w) \in votes'
        BY <2>3, QuorumWitnessNext
      <4>2. Justified(s - 1, w)
        BY <1>1, <2>1, <4>1 DEF PreparesFromEvidence
      <4> QED BY <2>2, <3>2, <4>2
    <3> QED BY <2>1, <3>1, <3>2
  <2>4. CASE HasQuorum("COMMIT", s - 1, Bottom)'
    <3>1. CASE r = s - 1
      BY <2>4, <3>1 DEF Blocked
    <3>2. CASE r < s - 1
      <4>1. PICK p \in Honest : MkVote(p, "COMMIT", s - 1, Bottom) \in votes'
        BY <2>4, QuorumWitnessNext
      <4>2. Bottom \in Values
        BY DEF Values
      <4>3. PICK u, x \in Values : u # x /\ Justified(s - 1, u) /\ Justified(s - 1, x)
        BY <1>1, <2>1, <4>1, <4>2 DEF CommitsFromEvidence
      <4> QED BY <2>2, <3>2, <4>3
    <3> QED BY <2>1, <3>1, <3>2
  <2> QED BY <2>1, <2>3, <2>4 DEF Justified
<1> QED BY <1>1, <1>4, <1>5, <1>6, <1>7, <1>8 DEF IInv

\* The invariant holds before any vote is cast.
LEMMA InitEstablishes ==
    Init => IInv
<1> SUFFICES ASSUME Init PROVE IInv
  OBVIOUS
<1>1. \A p, ph, r, v : MkVote(p, ph, r, v) \notin votes
  BY DEF Init
<1>2. \A ph, r, v : ~HasQuorum(ph, r, v)
  BY <1>1, QuorumWitness
<1>3. TypeOK
  BY DEF Init, TypeOK
<1>4. /\ OneVotePerPhase /\ PreparesJustified /\ CommitsJustified
      /\ DecidesJustified /\ PreparesAcceptable
  BY <1>1 DEF OneVotePerPhase, PreparesJustified, CommitsJustified,
              DecidesJustified, PreparesAcceptable
<1>5. SafeRounds
  <2> SUFFICES ASSUME NEW r \in Rounds, NEW s \in Rounds, NEW v \in Chains,
                      NEW w \in Values, r < s, Justified(s, w)
               PROVE  FALSE
    BY DEF SafeRounds
  <2>1. s # 0
    BY RoundAssumption DEF Rounds
  <2> QED BY <1>2, <2>1 DEF Justified
<1> QED BY <1>3, <1>4, <1>5 DEF IInv

\* The inductive invariant holds in every reachable state.
THEOREM InvariantHolds == Spec => []IInv
<1>1. Init => IInv
  BY InitEstablishes
<1>2. IInv /\ [Next]_vars => IInv'
  BY NextGivesStepFacts, InvariantIsInductive
<1> QED BY <1>1, <1>2, PTL DEF Spec

-----------------------------------------------------------------------------
(***************************************************************************)
(* Consequences.                                                           *)
(***************************************************************************)

\* A strong quorum of COMMITs for a chain rests on one of PREPAREs for it in
\* the same round, which rests on the justification of that round.
LEMMA CommitQuorumIsPrepared ==
    ASSUME IInv, NEW r \in Rounds, NEW v \in Chains, HasQuorum("COMMIT", r, v)
    PROVE  HasQuorum("PREPARE", r, v) /\ Justified(r, v) /\ Acceptable(v)
<1>1. v \in Values /\ v # Bottom
  BY ChainAssumption DEF Values
<1>2. PICK p \in Honest : MkVote(p, "COMMIT", r, v) \in votes
  BY QuorumWitness
<1>3. HasQuorum("PREPARE", r, v)
  BY <1>1, <1>2 DEF IInv, CommitsJustified
<1>4. PICK q \in Honest : MkVote(q, "PREPARE", r, v) \in votes
  BY <1>3, QuorumWitness
<1> QED BY <1>1, <1>3, <1>4 DEF IInv, PreparesJustified, PreparesAcceptable

\* A round that is blocked for v has no strong quorum of COMMITs for v.
LEMMA BlockedExcludesCommit ==
    ASSUME IInv, NEW r \in Rounds, NEW v \in Chains, HasQuorum("COMMIT", r, v)
    PROVE  ~Blocked(v, r)
<1>1. v \in Values /\ v # Bottom /\ Bottom \in Values
  BY ChainAssumption DEF Values
<1>2. ~HasQuorum("COMMIT", r, Bottom)
  <2> SUFFICES ASSUME HasQuorum("COMMIT", r, Bottom) PROVE FALSE
    OBVIOUS
  <2>1. PICK p \in Honest : /\ MkVote(p, "COMMIT", r, v) \in votes
                            /\ MkVote(p, "COMMIT", r, Bottom) \in votes
    BY CommonWitness
  <2> QED BY <1>1, <2>1 DEF IInv, OneVotePerPhase
<1>3. ASSUME NEW u \in Values \ {v}, HasQuorum("PREPARE", r, u) PROVE FALSE
  <2>1. HasQuorum("PREPARE", r, v)
    BY CommitQuorumIsPrepared
  <2>2. PICK p \in Honest : /\ MkVote(p, "PREPARE", r, v) \in votes
                            /\ MkVote(p, "PREPARE", r, u) \in votes
    BY <1>3, <2>1, CommonWitness
  <2> QED BY <1>1, <2>2 DEF IInv, OneVotePerPhase
<1> QED BY <1>2, <1>3 DEF Blocked

\* Two strong quorums of COMMITs, in any two rounds, are for the same chain.
LEMMA CommitQuorumsAgree ==
    ASSUME IInv, NEW r \in Rounds, NEW s \in Rounds, NEW v \in Chains, NEW w \in Chains,
           HasQuorum("COMMIT", r, v), HasQuorum("COMMIT", s, w)
    PROVE  v = w
<1>1. v \in Values /\ w \in Values
  BY DEF Values
<1>2. ASSUME NEW a \in Rounds, NEW b \in Rounds, NEW x \in Chains, NEW y \in Chains,
             HasQuorum("COMMIT", a, x), HasQuorum("COMMIT", b, y), a < b
      PROVE  x = y
  <2> SUFFICES ASSUME x # y PROVE FALSE
    OBVIOUS
  <2>1. Justified(b, y)
    BY <1>2, CommitQuorumIsPrepared
  <2>2. Blocked(x, a)
    BY <1>2, <2>1 DEF IInv, SafeRounds, Values
  <2> QED BY <1>2, <2>2, BlockedExcludesCommit
<1>3. CASE r = s
  <2>1. PICK p \in Honest : /\ MkVote(p, "COMMIT", r, v) \in votes
                            /\ MkVote(p, "COMMIT", r, w) \in votes
    BY <1>3, CommonWitness
  <2> QED BY <1>1, <2>1 DEF IInv, OneVotePerPhase
<1>4. r = s \/ r < s \/ s < r
  BY RoundAssumption DEF Rounds
<1> QED BY <1>2, <1>3, <1>4

\* A decided chain has a strong quorum of COMMITs in some round.
LEMMA DecidedIsCommitted ==
    ASSUME IInv, NEW v \in Chains, Decided(v)
    PROVE  \E r \in Rounds : HasQuorum("COMMIT", r, v)
<1>1. PICK p \in Honest : MkVote(p, "DECIDE", 0, v) \in votes
  BY QuorumWitness DEF Decided
<1> QED BY <1>1 DEF IInv, DecidesJustified, Values

\* What the invariant says of COMMITs and DECIDEs is Agreement.
LEMMA InvariantGivesAgreement ==
    IInv => Agreement
<1> SUFFICES ASSUME IInv PROVE Agreement
  OBVIOUS
<1>1. \A v, w \in Chains : \A r, s \in Rounds :
          HasQuorum("COMMIT", r, v) /\ HasQuorum("COMMIT", s, w) => v = w
  BY CommitQuorumsAgree
<1>2. \A v, w \in Chains : Decided(v) /\ Decided(w) => v = w
  BY <1>1, DecidedIsCommitted
<1> QED BY <1>1, <1>2 DEF Agreement

\* Votes are well formed.
THEOREM TypeCorrect == Spec => []TypeOK
<1>1. IInv => TypeOK
  BY DEF IInv
<1> QED BY <1>1, InvariantHolds, PTL

\* gpbft never lets two chains be committed or decided, in whatever rounds:
\* the "multiple chains with strong quorum" panic of FindStrongQuorumValue
\* cannot happen while faulty members hold less than a third of the power.
THEOREM AgreementHolds == Spec => []Agreement
BY InvariantHolds, InvariantGivesAgreement, PTL

\* Evidence for preparing anything but v in a later round blocks v.
THEOREM SafeRoundsHolds == Spec => []SafeRounds
<1>1. IInv => SafeRounds
  BY DEF IInv
<1> QED BY <1>1, InvariantHolds, PTL

\* At most one value per round is justified by a strong quorum of PREPAREs,
\* which is what tryCommit relies on when it sways.
THEOREM OneJustifiedCommitHolds == Spec => []OneJustifiedCommit
<1>1. ASSUME IInv PROVE OneJustifiedCommit
  <2> SUFFICES ASSUME NEW r \in Rounds, NEW v \in Values, NEW w \in Values,
                      HasQuorum("PREPARE", r, v), HasQuorum("PREPARE", r, w)
               PROVE  v = w
    BY DEF OneJustifiedCommit
  <2>1. PICK p \in Honest : /\ MkVote(p, "PREPARE", r, v) \in votes
                            /\ MkVote(p, "PREPARE", r, w) \in votes
    BY CommonWitness
  <2> QED BY <1>1, <2>1 DEF IInv, OneVotePerPhase
<1> QED BY <1>1, InvariantHolds, PTL

\* A decision is the base or was supported in QUALITY by a strong quorum and
\* by an honest input, however members were swayed.
THEOREM ValidityHolds == Spec => []Validity
<1>1. ASSUME IInv PROVE Validity
  <2> SUFFICES ASSUME NEW v \in Chains, Decided(v) PROVE Acceptable(v)
    BY DEF Validity
  <2>1. PICK r \in Rounds : HasQuorum("COMMIT", r, v)
    BY <1>1, DecidedIsCommitted
  <2> QED BY <1>1, <2>1, CommitQuorumIsPrepared
<1> QED BY <1>1, InvariantHolds, PTL

\* The votes of an instance implement the promise to the host: at most one
\* decision, which never changes.
THEOREM Refinement == Spec => ImplementsConsensus
<1> DEFINE D == {v \in Chains : Decided(v)}
<1>1. Init => Consensus!Init
  <2> SUFFICES ASSUME Init, NEW v \in Chains, Decided(v) PROVE FALSE
    BY DEF Consensus!Init
  <2>1. votes = {}
    BY DEF Init
  <2> QED BY <2>1, QuorumWitness DEF Decided
<1>2. IInv /\ IInv' /\ [Next]_vars => [Consensus!Next]_D
  <2> SUFFICES ASSUME IInv, IInv', [Next]_vars, D' # D PROVE Consensus!Next
    OBVIOUS
  <2>1. votes \subseteq votes'
    BY NextGivesStepFacts DEF StepFacts
  <2>2. \A v : Decided(v) => Decided(v)'
    BY <2>1, EvidenceGrows DEF Decided
  <2>3. D \subseteq D'
    BY <2>2
  <2>4. PICK v \in Chains : Decided(v)' /\ ~Decided(v)
    BY <2>3
  <2>5. \A x, y \in D' : x = y
    <3>1. Agreement'
      BY InvariantGivesAgreement, PTL
    <3> QED BY <3>1 DEF Agreement
  <2>6. D = {} /\ D' = {v}
    BY <2>3, <2>4, <2>5
  <2> QED BY <2>4, <2>6 DEF Consensus!Next, Consensus!Decide
<1> QED BY <1>1, <1>2, InvariantHolds, PTL DEF Spec, ImplementsConsensus, Consensus!Spec

=============================================================================
