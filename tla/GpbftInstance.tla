--------------------------- MODULE GpbftInstance ---------------------------
(***************************************************************************)
(* One member of the committee, Self, executing gpbft.instance handler by  *)
(* handler, among members that vote as GpbftVoting allows.                 *)
(*                                                                         *)
(* The network may deliver any message that was sent, and any message of a *)
(* faulty member that passes validation, in any order and any number of    *)
(* times.  The clock is abstracted to whether the phase timeout has        *)
(* elapsed; which alarm is pending when is the subject of GpbftTimers.     *)
(* Rebroadcasting sends no new message, so it changes nothing here.        *)
(*                                                                         *)
(* A handler is written as an operator from an instance to the set of      *)
(* instances it may leave behind.                                          *)
(***************************************************************************)
EXTENDS QuorumState, FiniteSets

CONSTANTS
    Chains, BaseTipset, MaxRound,  \* as in GpbftVoting
    Self,                \* the honest member modelled in detail
    maxLookaheadRounds,  \* option: rounds ahead for unjustified messages
    OwnPhases,           \* bound: phases whose messages come back to Self,
    PeerPhases,          \*   reach it from honest members,
    FaultyPhases,        \*   and from faulty members
    MaxFaulty            \* bound on messages delivered from faulty members

VARIABLES
    input,   \* input chain of each honest member
    votes,   \* votes signed by honest members, as in GpbftVoting
    inst,    \* the instance of Self
    faulty   \* messages of faulty members delivered to Self so far

vars == <<input, votes, inst, faulty>>

Voting == INSTANCE GpbftVoting WITH Restarts <- {}

Rounds == 0..MaxRound

NoJust == Justification("none", 0, Bottom)

Msg(s, ph, r, v, j) ==
    [sender |-> s, phase |-> ph, round |-> r, value |-> v, just |-> j]

newRoundState == [converged |-> newConvergeState,
                  prepared  |-> newQuorumState,
                  committed |-> newQuorumState]

newInstance(chain) ==
    [round |-> 0, phase |-> "INITIAL", elapsed |-> FALSE,
     input |-> chain, proposal |-> chain, value |-> Bottom,
     candidates |-> {BaseChain(chain)}, terminationValue |-> Bottom,
     quality |-> newQuorumState, decision |-> newQuorumState,
     rounds |-> [r \in 0..(MaxRound + 1) |-> newRoundState],
     sent |-> {}, panicked |-> FALSE]

panic(i) == [i EXCEPT !.panicked = TRUE]

broadcast(i, r, ph, v, j) == [i EXCEPT !.sent = @ \cup {Msg(Self, ph, r, v, j)}]

-----------------------------------------------------------------------------
(***************************************************************************)
(* Candidates.                                                             *)
(***************************************************************************)

\* The loop runs from the longest prefix down, and stops at the first one
\* that was not yet a candidate.
addCandidatePrefixes(i, c) ==
    LET fresh == {l \in 1..(Len(c) - 1) : Prefix(c, l) \notin i.candidates}
    IN  IF fresh = {} THEN i
        ELSE [i EXCEPT !.candidates =
                @ \cup {Prefix(c, CHOOSE l \in fresh : \A k \in fresh : k <= l)}]

updateCandidatesFromQuality(i) ==
    addCandidatePrefixes(i, FindStrongQuorumValueForLongestPrefixOf(i.quality, i.input))

-----------------------------------------------------------------------------
(***************************************************************************)
(* Phases.                                                                 *)
(***************************************************************************)
beginQuality(i) ==
    broadcast([i EXCEPT !.phase = "QUALITY", !.elapsed = FALSE],
              i.round, "QUALITY", i.proposal, NoJust)

beginPrepare(i, just) ==
    broadcast([i EXCEPT !.phase = "PREPARE", !.elapsed = FALSE],
              i.round, "PREPARE", i.value, just)

tryQuality(i) ==
    IF HasStrongQuorumFor(i.quality, i.proposal) \/ i.elapsed
    THEN LET p == FindStrongQuorumValueForLongestPrefixOf(i.quality, i.input)
         IN  {beginPrepare(addCandidatePrefixes([i EXCEPT !.proposal = p, !.value = p], p),
                           NoJust)}
    ELSE {i}

\* Self's own value is recorded directly; its broadcast may come back late.
beginConverge(i, just) ==
    IF just.round # i.round - 1 THEN panic(i)
    ELSE broadcast([i EXCEPT !.phase = "CONVERGE", !.elapsed = FALSE,
                             !.rounds[i.round].converged = SetSelfValue(@, i.proposal, just)],
                   i.round, "CONVERGE", i.proposal, just)

\* The winners tryConverge may pick: candidates, and chains that some other
\* member could have decided in the last round.
ConvergeChoices(i) ==
    LET c == i.rounds[i.round].converged
        possibleDecision(v) ==
            /\ c.values[v].just.phase = "PREPARE"
            /\ CouldReachStrongQuorumFor(i.rounds[i.round - 1].committed, v, TRUE)
    IN  BestTicketProposals(c, {v \in DOMAIN c.values :
                                  v \in i.candidates \/ possibleDecision(v)})

\* tryConverge returns the error "no values at CONVERGE".
ConvergeFails(i) == i.phase = "CONVERGE" /\ i.elapsed /\ ConvergeChoices(i) = {}

tryConverge(i) ==
    IF ~i.elapsed \/ ConvergeFails(i) THEN {i}
    ELSE {beginPrepare([i EXCEPT !.candidates = @ \cup {v}, !.proposal = v, !.value = v],
                       i.rounds[i.round].converged.values[v].just) :
            v \in ConvergeChoices(i)}

\* Evidence that PREPAREs for v reached a quorum in the current round, in the
\* order beginCommit looks for it after its own votes.
PrepareJustifications(i, v) ==
    JustificationsOf(i.rounds[i.round].committed, "PREPARE", v)
    \cup JustificationsOf(i.rounds[i.round + 1].prepared, "PREPARE", v)
    \cup ConvergeJustificationsOf(i.rounds[i.round + 1].converged, "PREPARE", v)

beginCommit(i) ==
    LET j == [i EXCEPT !.phase = "COMMIT", !.elapsed = FALSE]
        justs == PrepareJustifications(i, i.value)
    IN  IF IsZero(i.value) THEN broadcast(j, i.round, "COMMIT", Bottom, NoJust)
        ELSE IF HasStrongQuorumFor(i.rounds[i.round].prepared, i.value)
        THEN broadcast(j, i.round, "COMMIT", i.value,
                       Justification("PREPARE", i.round, i.value))
        ELSE IF justs # {}
        THEN broadcast(j, i.round, "COMMIT", i.value, CHOOSE x \in justs : TRUE)
        ELSE panic(j)

\* Mutant: the timeout alone ends the PREPARE phase.
MutantPrepareComplete(i) == i.elapsed

\* phaseComplete of tryPrepare.
PrepareComplete(i) ==
    i.elapsed /\ ReceivedFromStrongQuorum(i.rounds[i.round].prepared)

tryPrepare(i) ==
    LET prepared == i.rounds[i.round].prepared
        found == \/ HasStrongQuorumFor(prepared, i.proposal)
                 \/ PrepareJustifications(i, i.proposal) # {}
        quorumNotPossible == ~CouldReachStrongQuorumFor(prepared, i.proposal, FALSE)
    IN  IF found THEN {beginCommit([i EXCEPT !.value = i.proposal])}
        ELSE IF quorumNotPossible \/ PrepareComplete(i)
        THEN {beginCommit([i EXCEPT !.value = Bottom])}
        ELSE {i}

\* Evidence that COMMITs for bottom reached a quorum in round r - 1.
BottomJustifications(i, r) ==
    JustificationsOf(i.rounds[r].prepared, "COMMIT", Bottom)
    \cup ConvergeJustificationsOf(i.rounds[r].converged, "COMMIT", Bottom)

beginNextRound(i) ==
    LET j == [i EXCEPT !.round = @ + 1]
        committed == i.rounds[i.round].committed
        bottoms == BottomJustifications(i, j.round)
    IN  IF HasStrongQuorumFor(committed, Bottom)
        THEN beginConverge(j, Justification("COMMIT", i.round, Bottom))
        ELSE IF bottoms # {} THEN beginConverge(j, CHOOSE x \in bottoms : TRUE)
        ELSE IF i.proposal \in DOMAIN committed.justs
        THEN beginConverge(j, committed.justs[i.proposal])
        ELSE panic(j)

beginDecide(i, r, v) ==
    broadcast([i EXCEPT !.phase = "DECIDE", !.value = v],
              0, "DECIDE", v, Justification("COMMIT", r, v))

\* The value tryCommit takes over from a COMMIT phase that ended without a
\* quorum: the first non-bottom one in ListAllValues, in undefined order.
SwayChoices(committed) == ListAllValues(committed) \ {Bottom}

\* tryCommit(round), for the current round or a message's round.
tryCommit(i, r) ==
    LET committed == i.rounds[r].committed
        quorums == StrongQuorumValues(committed)
    IN  IF Cardinality(quorums) > 1 THEN {panic(i)}
        ELSE IF quorums \ {Bottom} # {}
        THEN {beginDecide(i, r, v) : v \in quorums}
        ELSE IF i.round # r \/ i.phase # "COMMIT" THEN {i}
        ELSE IF quorums # {} \/ BottomJustifications(i, r + 1) # {}
        THEN {beginNextRound(i)}
        ELSE IF i.elapsed /\ ReceivedFromStrongQuorum(committed)
        THEN IF SwayChoices(committed) = {} THEN {beginNextRound(i)}
             ELSE {beginNextRound([i EXCEPT !.candidates = @ \cup {v}, !.proposal = v]) :
                      v \in SwayChoices(committed)}
        ELSE {i}

skipToDecide(i, v, just) ==
    broadcast([i EXCEPT !.phase = "DECIDE", !.proposal = v, !.value = v],
              0, "DECIDE", v, just)

tryDecide(i) ==
    LET quorums == StrongQuorumValues(i.decision)
    IN  IF Cardinality(quorums) > 1 THEN {panic(i)}
        ELSE IF quorums = {} THEN {i}
        ELSE {[i EXCEPT !.phase = "TERMINATED", !.value = v, !.terminationValue = v] :
                v \in quorums}

tryCurrentPhase(i) ==
    CASE i.phase = "QUALITY"  -> tryQuality(i)
      [] i.phase = "CONVERGE" -> tryConverge(i)
      [] i.phase = "PREPARE"  -> tryPrepare(i)
      [] i.phase = "COMMIT"   -> tryCommit(i, i.round)
      [] i.phase = "DECIDE"   -> tryDecide(i)
      [] OTHER                -> {i}

-----------------------------------------------------------------------------
(***************************************************************************)
(* Skipping to a later round.                                              *)
(***************************************************************************)
skipToRound(i, r, v, just) ==
    LET j == [i EXCEPT !.round = r]
    IN  IF just.phase = "PREPARE"
        THEN beginConverge([j EXCEPT !.candidates = @ \cup {v}, !.proposal = v], just)
        ELSE beginConverge(j, just)

shouldSkipToRound(i, r) ==
    /\ r > i.round /\ i.phase # "DECIDE"
    /\ ReceivedFromWeakQuorum(i.rounds[r].prepared)
    /\ DOMAIN i.rounds[r].converged.values # {}

postReceive(i, r) ==
    IF shouldSkipToRound(i, r)
    THEN LET c == i.rounds[r].converged
         IN  {skipToRound(i, r, v, c.values[v].just) :
                v \in BestTicketProposals(c, DOMAIN c.values)}
    ELSE {i}

-----------------------------------------------------------------------------
(***************************************************************************)
(* Receiving a message.                                                    *)
(***************************************************************************)

\* isSpammable: only a COMMIT for bottom lacks a justification after round 0.
isSpammable(m) == m.just = NoJust /\ m.round > 0

\* The messages receiveOne drops before it looks at the phase.
Ignored(i, m) ==
    \/ ~IsZero(m.value) /\ ~HasBase(m.value, i.input[1])
    \/ i.phase = "TERMINATED"
    \/ m.round < i.round /\ m.phase \in {"CONVERGE", "PREPARE"}
    \/ m.round > i.round + maxLookaheadRounds /\ isSpammable(m)

\* Counting the message in the quorum state of its phase and round.
Counted(i, m) ==
    CASE m.phase = "QUALITY" ->
            [i EXCEPT !.quality = ReceiveEachPrefix(@, m.sender, m.value)]
      [] m.phase = "CONVERGE" ->
            [i EXCEPT !.rounds[m.round].converged =
                ReceiveConverge(@, m.sender, m.value, m.just)]
      [] m.phase = "PREPARE" ->
            [i EXCEPT !.rounds[m.round].prepared =
                LET q == Receive(@, m.sender, m.value)
                IN  IF m.just = NoJust THEN q ELSE ReceiveJustification(q, m.value, m.just)]
      [] m.phase = "COMMIT" ->
            [i EXCEPT !.rounds[m.round].committed =
                LET q == Receive(@, m.sender, m.value)
                IN  IF IsZero(m.value) THEN q ELSE ReceiveJustification(q, m.value, m.just)]
      [] m.phase = "DECIDE" ->
            [i EXCEPT !.decision = Receive(@, m.sender, m.value)]

\* A COMMIT is tried in its own round, and then as evidence for the PREPARE
\* of the current round if Self is still there.
ReceiveCommit(i, m) ==
    UNION {IF j.phase = "PREPARE" /\ j.round = m.round /\ ~IsZero(m.value)
           THEN tryCurrentPhase(j) ELSE {j} : j \in tryCommit(i, m.round)}

\* Mutant: the QUALITY phase is tried again whatever the current phase.
MutantReceiveLateQuality(i) == tryQuality(i)

\* A QUALITY message after the QUALITY phase only extends the candidates.
ReceiveLateQuality(i) == {updateCandidatesFromQuality(i)}

\* The error of tryConverge is returned before postReceive.
Result(i) == [after : tryCurrentPhase(i), post : {~ConvergeFails(i)}]

receiveOne(i, m) ==
    LET c == Counted(i, m)
    IN  IF Ignored(i, m) THEN [after : {i}, post : {FALSE}]
        ELSE IF m.phase = "QUALITY" /\ i.phase # "QUALITY"
        THEN [after : ReceiveLateQuality(c), post : {TRUE}]
        ELSE IF m.phase = "COMMIT" /\ i.phase # "DECIDE"
        THEN [after : ReceiveCommit(c, m), post : {TRUE}]
        ELSE IF m.phase = "DECIDE" /\ i.phase # "DECIDE"
        THEN Result(skipToDecide(c, m.value, m.just))
        ELSE Result(c)

\* instance.Receive.
Received(i, m) ==
    UNION {IF res.post THEN postReceive(res.after, m.round) ELSE {res.after} :
              res \in receiveOne(i, m)}

-----------------------------------------------------------------------------
(***************************************************************************)
(* The network.                                                            *)
(***************************************************************************)

\* The justifications validateMessage accepts with a message.
ValidJusts(ph, r, v) ==
    LET existing(js) == {j \in js : Voting!HasQuorum(j.phase, j.round, j.value)}
        none(b) == IF b THEN {NoJust} ELSE {}
    IN  CASE ph = "QUALITY" -> none(r = 0 /\ ~IsZero(v))
          [] ph \in {"CONVERGE", "PREPARE"} ->
                IF r = 0 THEN none(ph = "PREPARE")
                ELSE IF ph = "CONVERGE" /\ IsZero(v) THEN {}
                ELSE existing({Justification("PREPARE", r - 1, v),
                               Justification("COMMIT", r - 1, Bottom)})
          [] ph = "COMMIT" -> IF IsZero(v) THEN {NoJust}
                              ELSE existing({Justification("PREPARE", r, v)})
          [] ph = "DECIDE" -> IF r # 0 \/ IsZero(v) THEN {}
                              ELSE existing({Justification("COMMIT", s, v) : s \in Rounds})

\* What another honest member has sent.  The CONVERGE votes of others are not
\* recorded: one carries the last value the member prepared, its input if it
\* skipped there from QUALITY, or a chain it was swayed to.
SentByOther(p, ph, r, v) ==
    LET prepared == {t \in Rounds : t < r /\ Voting!VotedIn(p, "PREPARE", t)}
    IN  CASE ph = "QUALITY"  -> v = input[p]
          [] ph = "CONVERGE" ->
                \/ prepared = {} /\ v = input[p]
                \/ \E t \in prepared :
                      /\ \A u \in prepared : u <= t
                      /\ Voting!MkVote(p, "PREPARE", t, v) \in votes
                \/ \E t \in Rounds : t < r /\ Voting!HasQuorum("PREPARE", t, v)
          [] OTHER           -> Voting!MkVote(p, ph, r, v) \in votes

OwnVotes(i) ==
    {Voting!MkVote(Self, m.phase, m.round, m.value) :
        m \in {x \in i.sent : x.phase \in {"PREPARE", "COMMIT", "DECIDE"}}}

\* The outcome of a handler of Self.  Rounds beyond MaxRound are cut off.
Handled(outcomes) ==
    \E i \in outcomes :
        /\ i.round \in Rounds
        /\ inst' = i
        /\ votes' = votes \cup OwnVotes(i)
        /\ UNCHANGED input

Running == inst.phase \notin {"INITIAL", "TERMINATED"} /\ ~inst.panicked

-----------------------------------------------------------------------------
Init ==
    /\ Voting!Init
    /\ inst = newInstance(input[Self])
    /\ faulty = 0

Start ==
    /\ inst.phase = "INITIAL"
    /\ Handled({beginQuality(inst)})
    /\ UNCHANGED faulty

ReceiveOwn ==
    /\ Running
    /\ \E m \in inst.sent : m.phase \in OwnPhases /\ Handled(Received(inst, m))
    /\ UNCHANGED faulty

ReceiveHonest ==
    /\ Running
    /\ \E p \in Honest \ {Self}, r \in Rounds, v \in Voting!Values,
          ph \in PeerPhases :
          /\ SentByOther(p, ph, r, v)
          /\ \E j \in ValidJusts(ph, r, v) : Handled(Received(inst, Msg(p, ph, r, v, j)))
    /\ UNCHANGED faulty

ReceiveFaulty ==
    /\ Running
    /\ faulty < MaxFaulty
    /\ \E p \in Byz, r \in Rounds, v \in Voting!Values,
          ph \in FaultyPhases :
          \E j \in ValidJusts(ph, r, v) : Handled(Received(inst, Msg(p, ph, r, v, j)))
    /\ faulty' = faulty + 1

\* The host's clock passes phaseTimeout.
TimeoutElapses ==
    /\ Running
    /\ ~inst.elapsed
    /\ inst' = [inst EXCEPT !.elapsed = TRUE]
    /\ UNCHANGED <<input, votes, faulty>>

ReceiveAlarm ==
    /\ Running
    /\ Handled(tryCurrentPhase(inst))
    /\ UNCHANGED faulty

OtherVotes ==
    /\ ~inst.panicked /\ inst.phase # "TERMINATED"
    /\ \E p \in Honest \ {Self}, v \in Voting!Values :
          \/ \E r \in Rounds : Voting!BeginPrepare(p, r, v)
          \/ \E r \in Rounds : Voting!BeginCommit(p, r, v)
          \/ Voting!BeginDecide(p, v)
    /\ UNCHANGED <<inst, faulty>>

Next ==
    \/ Start
    \/ ReceiveOwn
    \/ ReceiveHonest
    \/ ReceiveFaulty
    \/ TimeoutElapses
    \/ ReceiveAlarm
    \/ OtherVotes

Spec == Init /\ [][Next]_vars

-----------------------------------------------------------------------------
(***************************************************************************)
(* Properties.                                                             *)
(***************************************************************************)
PhaseNumber == [INITIAL |-> 0, QUALITY |-> 1, CONVERGE |-> 2, PREPARE |-> 3,
                COMMIT |-> 4, DECIDE |-> 5, TERMINATED |-> 6]

\* None of the panics of gpbft.go is reached, whatever is delivered in
\* whatever order: beginConverge with a justification of the wrong round,
\* beginCommit and beginNextRound without evidence for their value, and
\* FindStrongQuorumValue with two chains.
NoPanic == ~inst.panicked

\* Self is one of GpbftVoting's members: each PREPARE, COMMIT and DECIDE it
\* broadcasts is one the voting rules allow, with evidence that exists, at
\* most once per phase and round, and none after DECIDE.
ImplementsVoting ==
    Voting!Init /\ [][votes' # votes => Voting!Next]_<<input, votes>>

\* Progress, as NotifyProgress reports it to validators, never goes back:
\* rounds grow, phases advance within a round, DECIDE is only left to
\* TERMINATED, and TERMINATED is never left.
ProgressMonotone ==
    [][LET before == PhaseNumber[inst.phase]
           after == PhaseNumber[inst'.phase]
       IN  /\ inst'.round >= inst.round
           /\ inst'.round = inst.round => after >= before
           /\ before >= PhaseNumber["DECIDE"] =>
                 after >= before /\ inst'.round = inst.round]_vars

\* Swaying adds no chain without evidence: every candidate is the base, a
\* prefix of the input with a strong quorum of QUALITY, or had a strong quorum
\* of PREPAREs in an earlier round, so that it might have been decided.
CandidatesAcceptable ==
    \A c \in inst.candidates : Voting!Candidate(Self, inst.round, c)

\* The decision handed to the host is backed by a strong quorum of DECIDEs,
\* and Self itself voted to decide nothing else.
DecisionIsBacked ==
    inst.phase = "TERMINATED" =>
        /\ Voting!Decided(inst.terminationValue)
        /\ \A m \in inst.sent : m.phase = "DECIDE" => m.value = inst.terminationValue

=============================================================================
