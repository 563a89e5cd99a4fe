---------------------------- MODULE Participant ----------------------------
(***************************************************************************)
(* One node moving from instance to instance: the participant              *)
(* (gpbft/participant.go), the event loop that feeds it (host.go) and the  *)
(* inputs it asks for (consensus_inputs.go, committee.go).                 *)
(*                                                                         *)
(* The instance itself is GpbftInstance; here it may, at every alarm or    *)
(* message, continue, fail or decide.  The certificate store is CertStore: *)
(* here the sequence of tables its certificates lead to and, for the       *)
(* subscription of the event loop, a channel holding the last certificate. *)
(* Certificates also come from other nodes (polling).  Messages are        *)
(* validated by other goroutines against the progress of that moment and   *)
(* received later.                                                         *)
(***************************************************************************)
EXTENDS Naturals, Sequences, FiniteSets

CONSTANTS InitialInstance, CommitteeLookback,
          Slots,        \* (sender, round, phase) of a vote
          OwnSlots,     \* the slots of this node
          DecideSlots,  \* the slots of phase DECIDE
          FarSlots,     \* unjustified votes of rounds beyond maxLookaheadRounds
          Values, Tables, InitialTable,
          Heads,        \* the tipset each instance finalizes
          ECPower,      \* the power table of a tipset
          None,
          MaxInstance, MaxCrashes   \* bounds

\* A lookback of at least two: the proposal of an instance holds the power
\* table of the next one, which must follow from certificates already there.
ASSUME LookbackAssumption == CommitteeLookback \in Nat /\ CommitteeLookback >= 2
ASSUME InstanceAssumption ==
  InitialInstance \in Nat /\ MaxInstance \in Nat /\ InitialInstance <= MaxInstance

Instances == InitialInstance..MaxInstance

ASSUME TableAssumption ==
  InitialTable \in Tables /\ \A i \in Instances : ECPower[Heads[i]] \in Tables

Messages == [instance : Instances, slot : Slots, value : Values]

VARIABLES
  stored,     \* the table after each certificate of the store, in order
  certCh,     \* instance of the certificate waiting in the subscription
  up,         \* the node runs
  current,    \* Participant.progression: the instance
  gpbft,      \* whether there is an instance (p.gpbft # nil)
  alarm,      \* whether the alarm is set
  mqueue,     \* messages queued for later
  committees, \* cachedCommitteeProvider.committees: the table of each
  inbox,      \* validated messages not received yet
  self,       \* own messages, as the write-ahead log keeps them
  delivered,  \* what the current instance has been given
  accepted,   \* messages received for the current or later instances
  failed,     \* an operation failed since the last start was scheduled
  crashes

volatile == <<gpbft, alarm, mqueue, committees, delivered, accepted, failed>>
vars == <<stored, certCh, up, current, volatile, inbox, self, crashes>>

NextInstance == InitialInstance + Len(stored)
Base(i) == IF i = InitialInstance THEN 0 ELSE Heads[i - 1]

\* The table of an instance as the network defines it: the initial one while
\* there is no certificate far enough back, then that of the tipset finalized
\* CommitteeLookback instances before.
NetworkTable(i) ==
  IF i < InitialInstance + CommitteeLookback THEN InitialTable
  ELSE ECPower[Heads[i - CommitteeLookback]]

\* certstore.GetPowerTable: known up to the instance after the last certificate.
StoreTable(i) ==
  IF i = InitialInstance THEN InitialTable ELSE stored[i - InitialInstance]

----------------------------------------------------------------------------
(* Inputs *)

\* GetCommittee has what it needs: the certificate CommitteeLookback before.
CommitteeKnown(i) ==
  i < InitialInstance + CommitteeLookback \/ i - CommitteeLookback < NextInstance

MutantCommitteeTable(i) ==
  IF i < InitialInstance + CommitteeLookback THEN InitialTable
  ELSE IF i <= NextInstance THEN StoreTable(i)
  ELSE ECPower[Base(i - CommitteeLookback)]

\* gpbftInputs.GetCommittee: the store's table, or the EC's when the store has
\* not got that far.
CommitteeTable(i) ==
  IF i < InitialInstance + CommitteeLookback THEN InitialTable
  ELSE IF i <= NextInstance THEN StoreTable(i)
  ELSE ECPower[Heads[i - CommitteeLookback]]

\* cachedCommitteeProvider.GetCommittee: an entry is never fetched again.
GetCommittee(i) ==
  IF i \in DOMAIN committees THEN committees
  ELSE [j \in DOMAIN committees \cup {i} |-> IF j = i THEN CommitteeTable(i) ELSE committees[j]]

\* GetProposal needs the previous certificate and the next committee.
ProposalKnown(i) ==
  /\ i = InitialInstance \/ i - 1 < NextInstance
  /\ CommitteeKnown(i + 1)

Evict(cached, i) == [j \in {k \in DOMAIN cached : k >= i} |-> cached[j]]

Previous(i) == IF i > 0 THEN i - 1 ELSE 0

----------------------------------------------------------------------------
(* Validation and the queue *)

\* validateByProgress as far as it depends on the instance; what is relevant
\* within the current instance is left to GpbftInstance.
Relevant(m) ==
  /\ m.instance < current + CommitteeLookback
  /\ m.instance >= current \/ (m.instance + 1 = current /\ m.slot \in DecideSlots)

SameSlot(m, n) == m.instance = n.instance /\ m.slot = n.slot

\* messageQueue.Add: no unjustified votes of far rounds, and the first of the
\* messages in one slot.
Added(queue, m) ==
  IF m.slot \in FarSlots \/ \E n \in queue : SameSlot(m, n) THEN queue ELSE queue \cup {m}

Queued(queue, i) == {m \in queue : m.instance = i}
From(messages, i) == {m \in messages : m.instance >= i}

\* The messages that count as received: what the queue would keep.
Accept(messages, new) ==
  messages \cup {m \in new : m.slot \notin FarSlots /\ \A n \in messages : ~SameSlot(m, n)}

----------------------------------------------------------------------------

Init ==
  /\ stored = <<>>
  /\ certCh = None
  /\ up = FALSE
  /\ current = InitialInstance
  /\ gpbft = FALSE
  /\ alarm = FALSE
  /\ mqueue = {}
  /\ committees = <<>>
  /\ inbox = {}
  /\ self = {}
  /\ delivered = {}
  /\ accepted = {}
  /\ failed = FALSE
  /\ crashes = 0

\* beginNextInstance: drop what is older, and keep the previous committee.
BeginNextInstance(i, queue, cached) ==
  /\ current' = i
  /\ mqueue' = From(queue, i)
  /\ committees' = Evict(cached, Previous(i))

\* The instance is abandoned and what belongs to instances before i dropped;
\* the messages in replay are queued.
Reset(i, replay) ==
  /\ gpbft' = FALSE
  /\ delivered' = {}
  /\ current' = i
  /\ failed' = FALSE
  /\ mqueue' = From(mqueue, i) \cup replay
  /\ accepted' = Accept(From(accepted, i), Queued(self, i))
  /\ committees' = IF replay = {} THEN Evict(committees, Previous(i))
                   ELSE Evict(GetCommittee(i), Previous(i))

\* The own messages of instance i that the queue takes.
Replay(i) == {m \in Queued(self, i) : Added(mqueue, m) # mqueue}

MutantForgetful(i) == Reset(i, {}) /\ alarm' = TRUE
MutantUnscheduled(i) == Reset(i, Replay(i)) /\ alarm' = alarm

\* startInstanceAt: abandon the instance, schedule the next and receive the own
\* messages of that one again: there is no instance, so they are queued.
StartInstanceAt(i) == Reset(i, Replay(i)) /\ alarm' = TRUE

\* saveDecision puts the certificate of instance i, made from the committees of
\* i and i + 1, unless the store already has one.  The table it leads to must
\* be the one the decision names.
Save(i) ==
  /\ CommitteeKnown(i + 1)
  /\ CommitteeTable(i + 1) = NetworkTable(i + 1)
  /\ \/ /\ i = NextInstance
        /\ stored' = Append(stored, CommitteeTable(i + 1))
        /\ certCh' = i
     \/ /\ i < NextInstance
        /\ UNCHANGED <<stored, certCh>>

\* handleDecision for an instance that has terminated: it is discarded first.
\* When the decision cannot be saved the alarm is cancelled and nothing is
\* scheduled.
HandleDecision(queue, cached) ==
  /\ gpbft' = FALSE
  /\ delivered' = {}
  /\ accepted' = From(accepted, current + 1)
  /\ \/ /\ current < MaxInstance
        /\ Save(current)
        /\ BeginNextInstance(current + 1, queue, cached)
        /\ alarm' = TRUE
        /\ UNCHANGED failed
     \/ /\ alarm' = FALSE
        /\ failed' = TRUE
        /\ mqueue' = queue
        /\ committees' = cached
        /\ UNCHANGED <<stored, certCh, current>>

\* The instance has handled an alarm or messages and goes on; it may have
\* changed the alarm, and may have reported an error.
Continue ==
  /\ gpbft' = TRUE
  /\ alarm' \in BOOLEAN
  /\ UNCHANGED <<stored, certCh, current, accepted, failed>>

\* Participant.ReceiveAlarm without an instance: fetch the proposal and the
\* committee, create the instance and give it the queued messages.  It may
\* decide at once.
BeginInstance ==
  LET rest == mqueue \ Queued(mqueue, current) IN
  /\ ProposalKnown(current)
  /\ \/ /\ Continue
        /\ mqueue' = rest
        /\ delivered' = Queued(mqueue, current)
        /\ committees' = GetCommittee(current)
     \/ HandleDecision(rest, GetCommittee(current))

\* The proposal or the committee cannot be had: an error, and no alarm.
BeginFails ==
  /\ alarm' = FALSE
  /\ failed' = TRUE
  /\ UNCHANGED <<stored, certCh, current, gpbft, mqueue, committees, delivered, accepted>>

ReceiveAlarm ==
  /\ up
  /\ alarm
  /\ \/ ~gpbft /\ BeginInstance
     \/ ~gpbft /\ BeginFails
     \/ gpbft /\ Continue /\ UNCHANGED <<mqueue, delivered, committees>>
     \/ gpbft /\ HandleDecision(mqueue, committees)
  /\ UNCHANGED <<up, inbox, self, crashes>>

\* A validation goroutine accepts a message: relevant now, and with a committee.
Validate(m) ==
  /\ up
  /\ inbox = {}
  /\ Relevant(m)
  /\ CommitteeKnown(m.instance)
  /\ m.slot \in OwnSlots => m \in self
  /\ inbox' = {m}
  /\ committees' = GetCommittee(m.instance)
  /\ UNCHANGED <<stored, certCh, up, current, gpbft, alarm, mqueue, self, delivered,
                 accepted, failed, crashes>>

\* Participant.ReceiveMessage: drop it, hand it to the instance or queue it.
ReceiveMessage(m) ==
  /\ up
  /\ m \in inbox
  /\ inbox' = {}
  /\ \/ /\ m.instance < current
        /\ UNCHANGED <<stored, certCh, current, volatile>>
     \/ /\ gpbft /\ m.instance = current
        /\ \/ /\ gpbft' = TRUE
              /\ alarm' \in BOOLEAN
              /\ delivered' = delivered \cup {m}
              /\ accepted' = Accept(accepted, {m})
              /\ UNCHANGED <<stored, certCh, current, mqueue, committees, failed>>
           \/ HandleDecision(mqueue, committees)
     \/ /\ m.instance >= current /\ ~(gpbft /\ m.instance = current)
        /\ mqueue' = Added(mqueue, m)
        /\ accepted' = Accept(accepted, {m})
        /\ UNCHANGED <<stored, certCh, current, gpbft, alarm, committees, delivered, failed>>
  /\ UNCHANGED <<up, self, crashes>>

\* The instance after a certificate's.
SkipTo(c) == c + 1

MutantBehind(c) == current < c

Behind(c) == current < SkipTo(c)

\* gpbftRunner.receiveCertificate: skip forward, never back.
ReceiveCertificate ==
  /\ up
  /\ certCh # None
  /\ certCh' = None
  /\ IF Behind(certCh) THEN StartInstanceAt(SkipTo(certCh))
     ELSE UNCHANGED <<current, volatile>>
  /\ UNCHANGED <<stored, up, inbox, self, crashes>>

\* BroadcastMessage of a vote of the running instance: at most one for a slot
\* (SelfBroadcast); the log keeps it.
BroadcastMessage(m) ==
  /\ up /\ gpbft
  /\ m.instance = current
  /\ m.slot \in OwnSlots
  /\ \A n \in self : ~SameSlot(m, n)
  /\ self' = self \cup {m}
  /\ UNCHANGED <<stored, certCh, up, current, volatile, inbox, crashes>>

\* A certificate of the network arrives by polling.
PollCertificate ==
  /\ up
  /\ NextInstance < MaxInstance
  /\ stored' = Append(stored, NetworkTable(NextInstance + 1))
  /\ certCh' = NextInstance
  /\ UNCHANGED <<up, current, volatile, inbox, self, crashes>>

\* The certificate a new subscription begins with, or the initial instance.
Resume == NextInstance

\* gpbftRunner.Start: from the latest certificate, or the initial instance.
Start ==
  /\ ~up
  /\ up' = TRUE
  /\ StartInstanceAt(Resume)
  /\ UNCHANGED <<stored, certCh, inbox, self, crashes>>

\* The process stops; what is in memory is gone.
Crash ==
  /\ up
  /\ crashes < MaxCrashes
  /\ crashes' = crashes + 1
  /\ up' = FALSE
  /\ certCh' = None
  /\ gpbft' = FALSE
  /\ alarm' = FALSE
  /\ mqueue' = {}
  /\ committees' = <<>>
  /\ inbox' = {}
  /\ self' = {m \in self : \A n \in self : n.instance <= m.instance}
  /\ delivered' = {}
  /\ accepted' = {}
  /\ failed' = FALSE
  /\ UNCHANGED <<stored, current>>

Next ==
  \/ Start \/ Crash
  \/ ReceiveCertificate \/ ReceiveAlarm
  \/ PollCertificate
  \/ \E m \in Messages : Validate(m) \/ ReceiveMessage(m) \/ BroadcastMessage(m)

\* The process is restarted, and the event loop prefers certificates and alarms
\* and chooses between them at random.
Fairness == WF_vars(Start) /\ WF_vars(ReceiveCertificate)

Spec == Init /\ [][Next]_vars /\ Fairness

----------------------------------------------------------------------------
(* Properties *)

\* The participant works on the first instance without a certificate or on an
\* earlier one, never ahead: a decision is saved before the next instance
\* begins, and every instance whose messages pass validation, and the next one,
\* have a committee.
NeverAheadOfStore ==
  /\ current <= NextInstance
  /\ ProposalKnown(current)
  /\ \A i \in Instances : i >= current /\ i < current + CommitteeLookback => CommitteeKnown(i)

\* Whenever a committee is computed, from the store or the EC, before or after
\* certificates arrive, and however long it is kept, it is the network's; so
\* the tables the own certificates lead to are too.
CommitteesAreTheNetworks ==
  /\ \A i \in DOMAIN committees : committees[i] = NetworkTable(i)
  /\ \A i \in Instances : i <= NextInstance => StoreTable(i) = NetworkTable(i)

\* Without an instance the participant has an alarm to begin one, unless
\* fetching the inputs or saving a decision has failed.
WakeUpBetweenInstances == up /\ ~gpbft => alarm \/ failed

\* The first message received in a slot of the current or a later instance,
\* its own logged votes included, is in the queue until the instance begins and
\* is given to it then; nothing older is kept.
EarlyMessagesKept ==
  /\ \A m \in mqueue : m.instance >= current /\ (gpbft => m.instance > current)
  /\ \A m \in accepted : m \in mqueue \/ (gpbft /\ m \in delivered)

\* The participant never returns to an earlier instance, not even over a
\* restart: only the store tells a new process where to begin.
ProgressNeverBack == [][current' >= current]_vars

\* Whatever has failed, once the store has the certificates the participant
\* catches up.
CatchesUp == \A i \in Instances : NextInstance >= i ~> current >= i
=============================================================================
