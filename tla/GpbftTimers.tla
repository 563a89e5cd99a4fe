---------------------------- MODULE GpbftTimers ----------------------------
(***************************************************************************)
(* The single host alarm of a gpbft instance, shared by phase timeouts and *)
(* rebroadcast timeouts.                                                   *)
(*                                                                         *)
(* What GpbftInstance leaves out of the handlers is kept here, and what it *)
(* keeps is left out: whether a phase finds its quorum is a choice.  A     *)
(* point in time is kept relative to the host's clock, so a time t has     *)
(* passed when t <= 0, and is no longer told apart once it lies Lag in     *)
(* the past.  A time that may be unset (zero) is a set of at most one.     *)
(***************************************************************************)
EXTENDS Integers

CONSTANTS
    PhaseDuration,    \* [BOOLEAN -> Nat]: phase timeout, by "round is late"
    MaxAttempts,      \* bound: the backoff is at its maximum from here on
    rebroadcastAfter  \* [0..MaxAttempts -> Nat]: the backoff

ASSUME DurationAssumption == PhaseDuration \in [BOOLEAN -> Nat \ {0}]

ASSUME BackoffAssumption ==
    /\ MaxAttempts \in Nat \ {0}
    /\ rebroadcastAfter \in [0..MaxAttempts -> Nat \ {0}]

\* An offset of the phase timeout plus the first backoff has passed as well.
Lag == rebroadcastAfter[0]

VARIABLES
    phase,                \* current.Phase
    late,                 \* current.Round > rebroadcastImmediatelyAfterRound
    phaseTimeout,
    rebroadcastTimeout,   \* set of at most one time
    rebroadcastAttempts,
    alarm,                \* the host's timer: set of at most one time
    rebroadcasted,        \* the last step asked for a rebroadcast
    failed                \* tryConverge returned an error at some point

vars == <<phase, late, phaseTimeout, rebroadcastTimeout, rebroadcastAttempts,
          alarm, rebroadcasted, failed>>

-----------------------------------------------------------------------------
phaseTimeoutElapsed == phaseTimeout <= 0

rebroadcastTimeoutElapsed == \E t \in rebroadcastTimeout : t <= 0

shouldRebroadcast == phaseTimeoutElapsed \/ late

\* `pending' is the alarm left in the timer when the handler runs: unchanged
\* for a message, none for the alarm itself.
Keep(pending) ==
    /\ alarm' = pending
    /\ rebroadcasted' = FALSE
    /\ UNCHANGED <<phase, late, phaseTimeout, rebroadcastTimeout,
                   rebroadcastAttempts>>

\* beginQuality, beginConverge, beginPrepare, beginCommit: alarmAfterSynchrony
\* and resetRebroadcastParams.
Begin(ph, isLate) ==
    /\ phase' = ph
    /\ late' = isLate
    /\ phaseTimeout' = PhaseDuration[isLate]
    /\ alarm' = {PhaseDuration[isLate]}
    /\ rebroadcastTimeout' = {}
    /\ rebroadcastAttempts' = 0
    /\ rebroadcasted' = FALSE

\* beginDecide and skipToDecide leave the alarm and the phase timeout alone.
BeginDecide ==
    /\ phase' = "DECIDE"
    /\ rebroadcastTimeout' = {}
    /\ rebroadcastAttempts' = 0
    /\ rebroadcasted' = FALSE
    /\ UNCHANGED <<late, phaseTimeout, alarm>>

\* Mutant: a rebroadcast overrides the alarm of the phase timeout.
MutantOverrides(t) == TRUE

\* tryRebroadcast sets the alarm to t: the phase timeout has passed already,
\* or comes after t.
Overrides(t) == phaseTimeoutElapsed \/ t < phaseTimeout

\* The first case of tryRebroadcast, in phase ph with parameters just reset.
ScheduleFirst(ph, pending) ==
    LET offset == IF ph = "DECIDE" \/ late THEN 0 ELSE phaseTimeout
        t == offset + rebroadcastAfter[0]
    IN  /\ IF Overrides(t)
           THEN rebroadcastTimeout' = {t} /\ alarm' = {t}
           ELSE rebroadcastTimeout' = {} /\ alarm' = pending
        /\ phase' = ph
        /\ rebroadcastAttempts' = 0
        /\ rebroadcasted' = FALSE
        /\ UNCHANGED <<late, phaseTimeout>>

\* Mutant: the timeout is moved on without a rebroadcast.
MutantRebroadcastNow == ScheduleFirst(phase, {})

\* The second case: rebroadcast, and back to the phase timeout if it is next.
RebroadcastNow ==
    LET n == IF rebroadcastAttempts < MaxAttempts THEN rebroadcastAttempts + 1
             ELSE MaxAttempts
        t == rebroadcastAfter[n]
    IN  /\ rebroadcastAttempts' = n
        /\ rebroadcastTimeout' = {t}
        /\ alarm' = {IF Overrides(t) THEN t ELSE phaseTimeout}
        /\ rebroadcasted' = TRUE
        /\ UNCHANGED <<phase, late, phaseTimeout>>

tryRebroadcast(pending) ==
    IF rebroadcastTimeout = {} /\ rebroadcastAttempts = 0
    THEN ScheduleFirst(phase, pending)
    ELSE IF rebroadcastTimeoutElapsed THEN RebroadcastNow
    ELSE Keep(pending)

-----------------------------------------------------------------------------
(***************************************************************************)
(* The phases, tried by a message or by the alarm.                         *)
(***************************************************************************)
tryQuality(pending) ==
    \/ Begin("PREPARE", late)
    \/ ~phaseTimeoutElapsed /\ Keep(pending)

\* The second disjunct: "no values at CONVERGE".
tryConverge(pending) ==
    \/ phaseTimeoutElapsed /\ Begin("PREPARE", late) /\ UNCHANGED failed
    \/ phaseTimeoutElapsed /\ Keep(pending) /\ failed' = TRUE
    \/ ~phaseTimeoutElapsed /\ late /\ tryRebroadcast(pending) /\ UNCHANGED failed
    \/ ~phaseTimeoutElapsed /\ ~late /\ Keep(pending) /\ UNCHANGED failed

tryPrepare(pending) ==
    \/ Begin("COMMIT", late)
    \/ shouldRebroadcast /\ tryRebroadcast(pending)
    \/ ~shouldRebroadcast /\ Keep(pending)

\* A round that becomes late stays late.
LaterRound(isLate) == late => isLate

\* A quorum of COMMITs for a chain is found when its last COMMIT is received,
\* in any phase (ReceiveCommitQuorum), and so never here.
tryCommit(pending) ==
    \/ \E isLate \in BOOLEAN : LaterRound(isLate) /\ Begin("CONVERGE", isLate)
    \/ shouldRebroadcast /\ tryRebroadcast(pending)
    \/ ~shouldRebroadcast /\ Keep(pending)

terminate ==
    /\ phase' = "TERMINATED"
    /\ alarm' = {}
    /\ rebroadcasted' = FALSE
    /\ UNCHANGED <<late, phaseTimeout, rebroadcastTimeout, rebroadcastAttempts>>

tryDecide(pending) ==
    \/ terminate
    \/ tryRebroadcast(pending)

tryCurrentPhase(pending) ==
    \/ phase = "CONVERGE" /\ tryConverge(pending)
    \/ /\ UNCHANGED failed
       /\ \/ phase = "QUALITY" /\ tryQuality(pending)
          \/ phase = "PREPARE" /\ tryPrepare(pending)
          \/ phase = "COMMIT"  /\ tryCommit(pending)
          \/ phase = "DECIDE"  /\ tryDecide(pending)

-----------------------------------------------------------------------------
Init ==
    /\ phase = "QUALITY"
    /\ late = FALSE
    /\ phaseTimeout = PhaseDuration[FALSE]
    /\ alarm = {PhaseDuration[FALSE]}
    /\ rebroadcastTimeout = {}
    /\ rebroadcastAttempts = 0
    /\ rebroadcasted = FALSE
    /\ failed = FALSE

Running == phase # "TERMINATED"

\* The alarm fires, on time or later, and empties the timer.
ReceiveAlarm ==
    /\ Running
    /\ \E t \in alarm : t <= 0
    /\ tryCurrentPhase({})

\* A message that belongs to the current phase.
Receive == Running /\ tryCurrentPhase(alarm)

\* A COMMIT that completes a quorum for a chain, whatever its round.
ReceiveCommitQuorum ==
    /\ phase \notin {"DECIDE", "TERMINATED"}
    /\ BeginDecide
    /\ UNCHANGED failed

\* A DECIDE before the DECIDE phase: skipToDecide, then tryDecide.
ReceiveDecide ==
    /\ phase \notin {"DECIDE", "TERMINATED"}
    /\ terminate \/ ScheduleFirst("DECIDE", alarm)
    /\ UNCHANGED failed

\* postReceive: skipToRound.
SkipToRound ==
    /\ phase \notin {"DECIDE", "TERMINATED"}
    /\ \E isLate \in BOOLEAN : LaterRound(isLate) /\ Begin("CONVERGE", isLate)
    /\ UNCHANGED failed

Earlier(t) == IF t > -Lag THEN t - 1 ELSE t

\* The host's clock advances.
Tick ==
    /\ Running
    /\ phaseTimeout' = Earlier(phaseTimeout)
    /\ rebroadcastTimeout' = {Earlier(t) : t \in rebroadcastTimeout}
    /\ alarm' = {Earlier(t) : t \in alarm}
    /\ rebroadcasted' = FALSE
    /\ UNCHANGED <<phase, late, rebroadcastAttempts, failed>>

Next ==
    \/ ReceiveAlarm
    \/ Receive
    \/ ReceiveCommitQuorum
    \/ ReceiveDecide
    \/ SkipToRound
    \/ Tick

\* Time passes, and the select loop of the runner serves a timer that fired.
Fairness == WF_vars(Tick) /\ WF_vars(ReceiveAlarm)

Spec == Init /\ [][Next]_vars /\ Fairness

-----------------------------------------------------------------------------
(***************************************************************************)
(* Properties.                                                             *)
(***************************************************************************)
\* Unset or one time, of the kind time.Time may hold.
IsTime(T) == T \subseteq Int /\ \A t, u \in T : t = u

\* Every timer holds at most one time, and attempts stop growing at the bound.
TypeOK ==
    /\ phase \in {"QUALITY", "CONVERGE", "PREPARE", "COMMIT", "DECIDE", "TERMINATED"}
    /\ late \in BOOLEAN
    /\ phaseTimeout \in Int
    /\ IsTime(rebroadcastTimeout)
    /\ rebroadcastAttempts \in 0..MaxAttempts
    /\ IsTime(alarm)
    /\ rebroadcasted \in BOOLEAN /\ failed \in BOOLEAN

\* The shared alarm never loses a phase timeout: until it has passed, an
\* alarm is pending no later than it, so a rebroadcast only ever moves the
\* next wake-up forward.
PhaseTimeoutIsCovered ==
    phase \in {"QUALITY", "CONVERGE", "PREPARE", "COMMIT"} /\ ~phaseTimeoutElapsed =>
        \E t \in alarm : t <= phaseTimeout

\* Up to rebroadcastImmediatelyAfterRound an instance that waits for votes
\* always has a wake-up pending, unless tryConverge failed.
WakeUpPending ==
    phase \in {"QUALITY", "CONVERGE", "PREPARE", "COMMIT"} /\ ~late /\ ~failed
        => alarm # {}

\* In those rounds an instance stuck in PREPARE or COMMIT keeps asking for
\* rebroadcasts, which is what lets it recover from lost messages.
StuckPhaseRebroadcasts ==
    \A ph \in {"PREPARE", "COMMIT"} :
        []<>(phase # ph \/ late \/ failed) \/ []<>rebroadcasted

=============================================================================
