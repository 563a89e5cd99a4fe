------------------------- MODULE ParticipantProofs -------------------------
(***************************************************************************)
(* Where a participant is and which committees it knows, for every         *)
(* lookback of at least two, any number of instances, messages and         *)
(* crashes.  The invariant relates the participant to the store: it is     *)
(* never ahead of it, and the certificate waiting for the event loop is    *)
(* stored.  What the store and the committee cache hold is the network's;  *)
(* the two need each other, because a certificate is made from committees  *)
(* and committees from certificates.                                       *)
(***************************************************************************)
EXTENDS Participant, SequenceTheorems, TLAPS

CommitteesOK(cached) ==
    /\ DOMAIN cached \subseteq Instances
    /\ \A i \in DOMAIN cached : cached[i] = NetworkTable(i)

ParticipantInv ==
    /\ stored \in Seq(Tables)
    /\ current \in Nat /\ InitialInstance <= current
    /\ current <= NextInstance /\ NextInstance <= MaxInstance
    /\ certCh = None \/ (certCh \in Instances /\ certCh < NextInstance)
    /\ \A i \in InitialInstance..NextInstance : StoreTable(i) = NetworkTable(i)
    /\ CommitteesOK(committees)

\* What a step does to the store, the position and the committees.
AppendsNext ==
    /\ NextInstance < MaxInstance
    /\ stored' = Append(stored, NetworkTable(NextInstance + 1))

Moves ==
    /\ \/ stored' = stored /\ certCh' \in {certCh, None}
       \/ AppendsNext /\ certCh' = NextInstance
    /\ current' \in Nat /\ current <= current' /\ current' <= NextInstance'
    /\ CommitteesOK(committees')

LEMMA NextInstanceType ==
    ASSUME ParticipantInv
    PROVE  NextInstance \in Nat /\ NextInstance \in Instances
BY InstanceAssumption, LenProperties DEF ParticipantInv, NextInstance, Instances

LEMMA NetworkTableType ==
    ASSUME NEW i \in Instances
    PROVE  NetworkTable(i) \in Tables
<1>1. CASE i < InitialInstance + CommitteeLookback
  BY <1>1, TableAssumption DEF NetworkTable
<1>2. CASE ~(i < InitialInstance + CommitteeLookback)
  <2>1. i - CommitteeLookback \in Instances
    BY <1>2, InstanceAssumption, LookbackAssumption DEF Instances
  <2> QED BY <1>2, <2>1, TableAssumption DEF NetworkTable
<1> QED BY <1>1, <1>2

\* GetCommittee: the store's table or the EC's, it is the network's.
LEMMA GetCommitteeOK ==
    ASSUME ParticipantInv, NEW i \in Instances
    PROVE  CommitteesOK(GetCommittee(i))
<1>1. CommitteeTable(i) = NetworkTable(i)
  <2>1. CASE i < InitialInstance + CommitteeLookback
    BY <2>1 DEF CommitteeTable, NetworkTable
  <2>2. CASE ~(i < InitialInstance + CommitteeLookback) /\ i <= NextInstance
    <3>1. i \in InitialInstance..NextInstance
      BY <2>2, NextInstanceType, InstanceAssumption DEF Instances
    <3>2. StoreTable(i) = NetworkTable(i)
      BY <3>1 DEF ParticipantInv
    <3> QED BY <2>2, <3>2 DEF CommitteeTable
  <2>3. CASE ~(i < InitialInstance + CommitteeLookback) /\ ~(i <= NextInstance)
    BY <2>3 DEF CommitteeTable, NetworkTable
  <2> QED BY <2>1, <2>2, <2>3
<1>2. CommitteesOK(committees)
  BY DEF ParticipantInv
<1>3. CASE i \in DOMAIN committees
  BY <1>2, <1>3 DEF GetCommittee
<1>4. CASE i \notin DOMAIN committees
  BY <1>1, <1>2, <1>4 DEF GetCommittee, CommitteesOK
<1> QED BY <1>3, <1>4

LEMMA EvictOK ==
    ASSUME NEW cached, CommitteesOK(cached), NEW i
    PROVE  CommitteesOK(Evict(cached, i))
BY DEF CommitteesOK, Evict

\* What a step is said to do keeps the invariant.
LEMMA MovesKeep ==
    ASSUME ParticipantInv, Moves
    PROVE  ParticipantInv'
<1>1. CASE stored' = stored /\ certCh' \in {certCh, None}
  <2>1. NextInstance' = NextInstance
    BY <1>1 DEF NextInstance
  <2>2. \A i : StoreTable(i)' = StoreTable(i)
    BY <1>1 DEF StoreTable
  <2>3. \A i \in InitialInstance..NextInstance' : StoreTable(i)' = NetworkTable(i)
    BY <2>1, <2>2 DEF ParticipantInv
  <2>4. current' \in Nat /\ InitialInstance <= current' /\ current' <= NextInstance'
    BY InstanceAssumption DEF Moves, ParticipantInv
  <2>5. certCh' = None \/ (certCh' \in Instances /\ certCh' < NextInstance')
    BY <1>1, <2>1 DEF ParticipantInv
  <2> QED BY <1>1, <2>1, <2>3, <2>4, <2>5 DEF ParticipantInv, Moves
<1>2. CASE AppendsNext /\ certCh' = NextInstance
  <2> DEFINE x == NetworkTable(NextInstance + 1)
  <2>1. stored \in Seq(Tables) /\ Len(stored) \in Nat /\ NextInstance \in Nat
        /\ NextInstance = InitialInstance + Len(stored)
    BY NextInstanceType, LenProperties DEF ParticipantInv, NextInstance
  <2>2. x \in Tables
    <3>1. NextInstance + 1 \in Instances
      BY <1>2, <2>1, InstanceAssumption DEF AppendsNext, Instances
    <3> QED BY <3>1, NetworkTableType
  <2> HIDE DEF x
  <2>3. stored' = Append(stored, x)
    BY <1>2 DEF AppendsNext, x
  <2>4. /\ stored' \in Seq(Tables) /\ Len(stored') = Len(stored) + 1
        /\ \A n \in 1..Len(stored) : stored'[n] = stored[n]
        /\ stored'[Len(stored) + 1] = x
    BY <2>1, <2>2, <2>3, AppendProperties
  <2>5. NextInstance' = NextInstance + 1
    BY <2>1, <2>4, InstanceAssumption DEF NextInstance
  <2>6. ASSUME NEW i \in InitialInstance..NextInstance' PROVE StoreTable(i)' = NetworkTable(i)
    <3>1. CASE i = InitialInstance
      <4>1. InitialInstance \in InitialInstance..NextInstance
        BY <2>1, InstanceAssumption
      <4>2. StoreTable(InitialInstance) = NetworkTable(InitialInstance)
        BY <4>1 DEF ParticipantInv
      <4> QED BY <3>1, <4>2 DEF StoreTable
    <3>2. CASE i # InitialInstance /\ i <= NextInstance
      <4>1. i \in InitialInstance..NextInstance /\ i - InitialInstance \in 1..Len(stored)
        BY <3>2, <2>1, <2>5, <2>6, InstanceAssumption
      <4>2. StoreTable(i) = NetworkTable(i)
        BY <4>1 DEF ParticipantInv
      <4> QED BY <3>2, <4>1, <4>2, <2>4 DEF StoreTable
    <3>3. CASE i # InitialInstance /\ i = NextInstance + 1
      <4>1. i - InitialInstance = Len(stored) + 1
        BY <3>3, <2>1, InstanceAssumption
      <4> QED BY <3>3, <4>1, <2>4 DEF StoreTable, x
    <3> QED BY <3>1, <3>2, <3>3, <2>1, <2>5, <2>6, InstanceAssumption
  <2>7. current' \in Nat /\ InitialInstance <= current' /\ current' <= NextInstance'
    BY InstanceAssumption DEF Moves, ParticipantInv
  <2>8. NextInstance' <= MaxInstance
    BY <1>2, <2>1, <2>5, InstanceAssumption DEF AppendsNext
  <2>9. certCh' \in Instances /\ certCh' < NextInstance'
    BY <1>2, <2>1, <2>5, NextInstanceType
  <2> QED BY <2>4, <2>6, <2>7, <2>8, <2>9 DEF ParticipantInv, Moves
<1> QED BY <1>1, <1>2 DEF Moves

-----------------------------------------------------------------------------
\* Steps that leave the store and the position alone.
LEMMA Stays ==
    ASSUME ParticipantInv, stored' = stored, certCh' \in {certCh, None}, current' = current,
           CommitteesOK(committees')
    PROVE  Moves
<1>1. NextInstance' = NextInstance
  BY DEF NextInstance
<1> QED BY <1>1, NextInstanceType DEF Moves, ParticipantInv

\* saveDecision and beginning the next instance.
LEMMA DecisionMoves ==
    ASSUME ParticipantInv, NEW queue, NEW cached, CommitteesOK(cached), HandleDecision(queue, cached)
    PROVE  Moves
<1>1. CASE UNCHANGED <<stored, certCh, current>> /\ committees' = cached
  BY <1>1, Stays
<1>2. CASE /\ current < MaxInstance /\ Save(current)
           /\ BeginNextInstance(current + 1, queue, cached)
  <2>1. current \in Nat /\ NextInstance \in Nat /\ current <= NextInstance
    BY NextInstanceType DEF ParticipantInv
  <2>2. current' = current + 1 /\ CommitteesOK(committees')
    BY <1>2, EvictOK DEF BeginNextInstance
  <2>3. CASE /\ current = NextInstance /\ stored' = Append(stored, CommitteeTable(current + 1))
             /\ certCh' = current
    <3>1. AppendsNext /\ certCh' = NextInstance
      BY <1>2, <2>3 DEF AppendsNext, Save
    <3>2. Len(stored) \in Nat /\ Len(stored') = Len(stored) + 1
      <4>1. NextInstance + 1 \in Instances
        BY <3>1, <2>1, InstanceAssumption, NextInstanceType DEF AppendsNext, Instances
      <4> QED BY <3>1, <4>1, NetworkTableType, AppendProperties, LenProperties DEF AppendsNext, ParticipantInv
    <3>3. NextInstance' = NextInstance + 1
      BY <3>2, InstanceAssumption DEF NextInstance
    <3> QED BY <2>1, <2>2, <2>3, <3>1, <3>3 DEF Moves
  <2>4. CASE current < NextInstance /\ UNCHANGED <<stored, certCh>>
    <3>1. NextInstance' = NextInstance
      BY <2>4 DEF NextInstance
    <3> QED BY <2>1, <2>2, <2>4, <3>1 DEF Moves
  <2> QED BY <1>2, <2>3, <2>4 DEF Save
<1> QED BY <1>1, <1>2 DEF HandleDecision

\* startInstanceAt of an instance the store has got to.
LEMMA StartMoves ==
    ASSUME ParticipantInv, NEW i \in Instances, current <= i, i <= NextInstance,
           StartInstanceAt(i), stored' = stored, certCh' \in {certCh, None}
    PROVE  Moves
<1>1. NextInstance' = NextInstance
  BY DEF NextInstance
<1>2. current' = i
  BY DEF StartInstanceAt, Reset
<1>3. CommitteesOK(committees')
  <2>1. CommitteesOK(Evict(committees, Previous(i)))
    BY EvictOK DEF ParticipantInv
  <2>2. CommitteesOK(Evict(GetCommittee(i), Previous(i)))
    BY EvictOK, GetCommitteeOK
  <2> QED BY <2>1, <2>2 DEF StartInstanceAt, Reset
<1>4. i \in Nat
  BY InstanceAssumption DEF Instances
<1> QED BY <1>1, <1>2, <1>3, <1>4 DEF Moves

LEMMA AlarmMoves ==
    ASSUME ParticipantInv, ReceiveAlarm
    PROVE  Moves
<1>1. current \in Instances
  BY NextInstanceType, InstanceAssumption DEF ParticipantInv, Instances
<1>2. CommitteesOK(committees) /\ CommitteesOK(GetCommittee(current))
  BY <1>1, GetCommitteeOK DEF ParticipantInv
<1>3. CASE BeginInstance
  <2>1. CASE Continue /\ committees' = GetCommittee(current)
    BY <2>1, <1>2, Stays DEF Continue
  <2>2. CASE HandleDecision(mqueue \ Queued(mqueue, current), GetCommittee(current))
    BY <2>2, <1>2, DecisionMoves
  <2> QED BY <1>3, <2>1, <2>2 DEF BeginInstance
<1>4. CASE BeginFails
  BY <1>4, <1>2, Stays DEF BeginFails
<1>5. CASE Continue /\ UNCHANGED <<mqueue, delivered, committees>>
  BY <1>5, <1>2, Stays DEF Continue
<1>6. CASE HandleDecision(mqueue, committees)
  BY <1>6, <1>2, DecisionMoves
<1> QED BY <1>3, <1>4, <1>5, <1>6 DEF ReceiveAlarm

LEMMA MessageMoves ==
    ASSUME ParticipantInv, NEW m \in Messages, Validate(m) \/ ReceiveMessage(m) \/ BroadcastMessage(m)
    PROVE  Moves
<1>1. CommitteesOK(committees)
  BY DEF ParticipantInv
<1>2. CASE Validate(m)
  <2>1. m.instance \in Instances
    BY DEF Messages
  <2>2. CommitteesOK(committees')
    BY <1>2, <2>1, GetCommitteeOK DEF Validate
  <2> QED BY <1>2, <2>2, Stays DEF Validate
<1>3. CASE ReceiveMessage(m)
  <2>1. CASE HandleDecision(mqueue, committees)
    BY <2>1, <1>1, DecisionMoves
  <2>2. CASE UNCHANGED <<stored, certCh, current, committees>>
    BY <2>2, <1>1, Stays
  <2> QED BY <1>3, <2>1, <2>2 DEF ReceiveMessage, volatile
<1>4. CASE BroadcastMessage(m)
  BY <1>4, <1>1, Stays DEF BroadcastMessage, volatile
<1> QED BY <1>2, <1>3, <1>4

LEMMA CertificateMoves ==
    ASSUME ParticipantInv, ReceiveCertificate \/ PollCertificate
    PROVE  Moves
<1>1. CASE ReceiveCertificate
  <2>1. certCh \in Instances /\ certCh < NextInstance
    BY <1>1 DEF ReceiveCertificate, ParticipantInv
  <2>2. stored' = stored /\ certCh' = None
    BY <1>1 DEF ReceiveCertificate
  <2>3. CASE Behind(certCh)
    <3>1. SkipTo(certCh) \in Instances /\ current <= SkipTo(certCh) /\ SkipTo(certCh) <= NextInstance
      BY <2>1, <2>3, NextInstanceType, InstanceAssumption DEF Behind, SkipTo, Instances, ParticipantInv
    <3>2. StartInstanceAt(SkipTo(certCh))
      BY <1>1, <2>3 DEF ReceiveCertificate
    <3> QED BY <2>2, <3>1, <3>2, StartMoves
  <2>4. CASE ~Behind(certCh)
    BY <1>1, <2>2, <2>4, Stays DEF ReceiveCertificate, volatile, ParticipantInv
  <2> QED BY <2>3, <2>4
<1>2. CASE PollCertificate
  <2>1. AppendsNext /\ certCh' = NextInstance /\ UNCHANGED <<current, committees>>
    BY <1>2 DEF PollCertificate, AppendsNext, volatile
  <2>2. NextInstance' = NextInstance + 1
    <3>1. NextInstance + 1 \in Instances
      BY <2>1, InstanceAssumption, NextInstanceType DEF AppendsNext, Instances
    <3>2. Len(stored) \in Nat /\ Len(stored') = Len(stored) + 1
      BY <2>1, <3>1, NetworkTableType, AppendProperties, LenProperties DEF AppendsNext, ParticipantInv
    <3> QED BY <3>2, InstanceAssumption DEF NextInstance
  <2> QED BY <2>1, <2>2, NextInstanceType DEF Moves, ParticipantInv
<1> QED BY <1>1, <1>2

LEMMA ProcessMoves ==
    ASSUME ParticipantInv, Start \/ Crash
    PROVE  Moves
<1>1. CASE Start
  <2>1. NextInstance \in Instances /\ current <= NextInstance /\ NextInstance <= NextInstance
    BY NextInstanceType DEF ParticipantInv
  <2> QED BY <1>1, <2>1, StartMoves DEF Start, Resume
<1>2. CASE Crash
  <2>1. CommitteesOK(committees')
    BY <1>2 DEF Crash, CommitteesOK
  <2> QED BY <1>2, <2>1, Stays DEF Crash
<1> QED BY <1>1, <1>2

\* Every step moves as described.
LEMMA NextMoves ==
    ASSUME ParticipantInv, Next
    PROVE  Moves
BY AlarmMoves, MessageMoves, CertificateMoves, ProcessMoves DEF Next

LEMMA InvariantHolds == Spec => []ParticipantInv
<1>1. Init => ParticipantInv
  <2> SUFFICES ASSUME Init PROVE ParticipantInv
    OBVIOUS
  <2>1. stored \in Seq(Tables) /\ NextInstance = InitialInstance
    BY InstanceAssumption, EmptySeq DEF Init, NextInstance
  <2>2. \A i \in InitialInstance..NextInstance : StoreTable(i) = NetworkTable(i)
    BY <2>1, InstanceAssumption, LookbackAssumption DEF StoreTable, NetworkTable
  <2>3. CommitteesOK(committees)
    BY DEF Init, CommitteesOK
  <2> QED BY <2>1, <2>2, <2>3, InstanceAssumption DEF Init, ParticipantInv
<1>2. ParticipantInv /\ [Next]_vars => ParticipantInv'
  <2> SUFFICES ASSUME ParticipantInv, [Next]_vars PROVE ParticipantInv'
    OBVIOUS
  <2>1. CASE Next
    BY <2>1, NextMoves, MovesKeep
  <2>2. CASE UNCHANGED vars
    <3>1. CommitteesOK(committees')
      BY <2>2 DEF vars, volatile, ParticipantInv
    <3> QED BY <2>2, <3>1, Stays, MovesKeep DEF vars
  <2> QED BY <2>1, <2>2
<1> QED BY <1>1, <1>2, PTL DEF Spec

(***************************************************************************)
(* The participant is never ahead of the store, so that the proposal of    *)
(* its instance and the committees of all instances whose messages it      *)
(* validates can be had, for every lookback of at least two.               *)
(***************************************************************************)
THEOREM NeverAheadOfStoreThm == Spec => []NeverAheadOfStore
<1>1. ParticipantInv => NeverAheadOfStore
  BY NextInstanceType, InstanceAssumption, LookbackAssumption
  DEF ParticipantInv, NeverAheadOfStore, ProposalKnown, CommitteeKnown, Instances
<1> QED BY <1>1, InvariantHolds, PTL

(***************************************************************************)
(* The committees in the cache and the tables that the certificates in the *)
(* store lead to are the network's, wherever they were computed from.      *)
(***************************************************************************)
THEOREM CommitteesThm == Spec => []CommitteesAreTheNetworks
<1>1. ParticipantInv => CommitteesAreTheNetworks
  BY NextInstanceType, InstanceAssumption
  DEF ParticipantInv, CommitteesAreTheNetworks, CommitteesOK, Instances
<1> QED BY <1>1, InvariantHolds, PTL

(***************************************************************************)
(* The participant never returns to an earlier instance.                   *)
(***************************************************************************)
THEOREM ProgressNeverBackThm == Spec => ProgressNeverBack
<1>1. ParticipantInv /\ [Next]_vars => [current' >= current]_vars
  <2> SUFFICES ASSUME ParticipantInv, Next PROVE current' >= current
    OBVIOUS
  <2>1. current \in Nat /\ current' \in Nat /\ current <= current'
    BY NextMoves DEF Moves, ParticipantInv
  <2> QED BY <2>1
<1> QED BY <1>1, InvariantHolds, PTL DEF Spec, ProgressNeverBack

=============================================================================
