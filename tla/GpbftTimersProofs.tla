------------------------- MODULE GpbftTimersProofs -------------------------
(***************************************************************************)
(* The alarm shared by phase and rebroadcast timeouts, for every phase     *)
(* duration and every backoff.  That an alarm is pending is not enough to  *)
(* know that a wake-up is: an alarm which fires and finds nothing to do is *)
(* gone.  The invariant says what an alarm is for.  One before the phase   *)
(* timeout is a rebroadcast's, so that the rebroadcast it wakes up for is  *)
(* due, and up to the immediate-rebroadcast round there is none of those   *)
(* before the phase timeout.                                               *)
(***************************************************************************)
EXTENDS GpbftTimers, TLAPS

Voting == {"QUALITY", "CONVERGE", "PREPARE", "COMMIT"}

\* An alarm that comes before the phase timeout is the rebroadcast's.
Explained ==
    phase \in Voting /\ ~phaseTimeoutElapsed =>
        \E t \in alarm : t <= phaseTimeout /\ (t < phaseTimeout => t \in rebroadcastTimeout)

\* In early rounds nothing is rebroadcast before the phase timeout, and from
\* then on the alarm is the rebroadcast's.
EarlyRounds ==
    phase \in Voting /\ ~late =>
        /\ ~phaseTimeoutElapsed => rebroadcastTimeout = {}
        /\ rebroadcastTimeout # {} /\ ~failed => alarm = rebroadcastTimeout

TimersInv ==
    /\ TypeOK
    /\ Explained
    /\ EarlyRounds
    /\ WakeUpPending
    /\ rebroadcastAttempts # 0 => rebroadcastTimeout # {}
    /\ phase = "QUALITY" => ~late

-----------------------------------------------------------------------------
\* An alarm that fires before the phase timeout finds a rebroadcast due, in a
\* late round.
LEMMA FiredEarly ==
    ASSUME TimersInv, \E t \in alarm : t <= 0, phase \in Voting, ~phaseTimeoutElapsed
    PROVE  late /\ rebroadcastTimeoutElapsed
<1>1. PICK t \in alarm : t <= phaseTimeout /\ (t < phaseTimeout => t \in rebroadcastTimeout)
  BY DEF TimersInv, Explained
<1>2. t <= 0 /\ t \in Int /\ phaseTimeout \in Int /\ phaseTimeout > 0
  BY DEF TimersInv, TypeOK, IsTime, phaseTimeoutElapsed
<1>3. t \in rebroadcastTimeout
  BY <1>1, <1>2
<1>4. late
  BY <1>3 DEF TimersInv, EarlyRounds
<1> QED
  BY <1>2, <1>3, <1>4 DEF rebroadcastTimeoutElapsed

\* Doing nothing about a message leaves the timers as they are.
LEMMA KeepMessage ==
    ASSUME TimersInv, Keep(alarm), failed' = failed \/ failed' = TRUE
    PROVE  TimersInv'
<1>1. TypeOK'
  BY DEF TimersInv, TypeOK, Keep, IsTime
<1>2. Explained' /\ (rebroadcastAttempts # 0 => rebroadcastTimeout # {})'
      /\ (phase = "QUALITY" => ~late)'
  BY DEF TimersInv, Keep, Explained, phaseTimeoutElapsed
<1>3. EarlyRounds' /\ WakeUpPending'
  BY DEF TimersInv, Keep, EarlyRounds, WakeUpPending, phaseTimeoutElapsed
<1> QED
  BY <1>1, <1>2, <1>3 DEF TimersInv

\* Doing nothing about an alarm is harmless once the phase timeout has passed
\* and the round is late or an error was returned.
LEMMA KeepFired ==
    ASSUME TimersInv, Keep({}), failed' = failed \/ failed' = TRUE,
           phase \in Voting => phaseTimeoutElapsed /\ (late \/ failed')
    PROVE  TimersInv'
<1>1. TypeOK'
  BY DEF TimersInv, TypeOK, Keep, IsTime
<1>2. Explained' /\ (rebroadcastAttempts # 0 => rebroadcastTimeout # {})'
      /\ (phase = "QUALITY" => ~late)'
  BY DEF TimersInv, Keep, Explained, phaseTimeoutElapsed
<1>3. EarlyRounds' /\ WakeUpPending'
  BY DEF TimersInv, Keep, EarlyRounds, WakeUpPending, phaseTimeoutElapsed, Voting
<1> QED
  BY <1>1, <1>2, <1>3 DEF TimersInv

\* A phase that begins has its own alarm.
LEMMA BeginSets ==
    ASSUME NEW ph \in {"CONVERGE", "PREPARE", "COMMIT"}, NEW isLate \in BOOLEAN,
           Begin(ph, isLate), failed' \in BOOLEAN
    PROVE  TimersInv'
<1>1. PhaseDuration[isLate] \in Nat \ {0}
  BY DurationAssumption
<1>2. TypeOK'
  <2>1. late' \in BOOLEAN /\ rebroadcasted' \in BOOLEAN
    BY Zenon DEF Begin
  <2>2. phase' = ph /\ phaseTimeout' \in Int /\ IsTime(alarm)' /\ IsTime(rebroadcastTimeout)'
    BY <1>1 DEF Begin, IsTime
  <2>3. rebroadcastAttempts' \in 0..MaxAttempts
    BY BackoffAssumption DEF Begin
  <2> QED
    BY <2>1, <2>2, <2>3, Zenon DEF TypeOK
<1>3. Explained' /\ EarlyRounds' /\ WakeUpPending'
  BY <1>1 DEF Begin, Explained, EarlyRounds, WakeUpPending
<1> QED
  BY <1>2, <1>3 DEF TimersInv, Begin

\* The first rebroadcast of a phase is scheduled without losing the alarm.
LEMMA ScheduleSets ==
    ASSUME TimersInv, NEW pending, ScheduleFirst(phase, pending), failed' = failed,
           rebroadcastTimeout = {}, phase \in Voting => shouldRebroadcast,
           \/ pending = alarm
           \/ pending = {} /\ (phase \in Voting => phaseTimeoutElapsed)
    PROVE  TimersInv'
<1> DEFINE offset == IF phase = "DECIDE" \/ late THEN 0 ELSE phaseTimeout
           t == offset + rebroadcastAfter[0]
<1>1. rebroadcastAfter[0] \in Nat \ {0}
  BY BackoffAssumption
<1>2. offset \in Int /\ t \in Int
  BY <1>1 DEF TimersInv, TypeOK
<1>3. /\ IF Overrides(t)
         THEN rebroadcastTimeout' = {t} /\ alarm' = {t}
         ELSE rebroadcastTimeout' = {} /\ alarm' = pending
      /\ phase' = phase /\ rebroadcastAttempts' = 0 /\ rebroadcasted' = FALSE
      /\ late' = late /\ phaseTimeout' = phaseTimeout
  BY DEF ScheduleFirst
<1> HIDE DEF offset, t
<1>4. TypeOK'
  BY <1>2, <1>3, BackoffAssumption DEF TimersInv, TypeOK, IsTime
<1>5. CASE Overrides(t)
  <2>1. phaseTimeoutElapsed \/ t < phaseTimeout
    BY <1>5 DEF Overrides
  <2>2. Explained'
    BY <1>2, <1>3, <1>5, <2>1 DEF Explained, phaseTimeoutElapsed, TimersInv, TypeOK
  <2>3. EarlyRounds' /\ WakeUpPending'
    BY <1>3, <1>5 DEF EarlyRounds, WakeUpPending, phaseTimeoutElapsed, shouldRebroadcast
  <2> QED
    BY <1>3, <1>4, <2>2, <2>3 DEF TimersInv
<1>6. CASE ~Overrides(t)
  <2>1. ~phaseTimeoutElapsed
    BY <1>6 DEF Overrides
  <2>2. phase \in Voting => late /\ pending = alarm
    BY <2>1 DEF shouldRebroadcast
  <2>3. Explained'
    BY <1>3, <1>6, <2>2 DEF TimersInv, Explained, phaseTimeoutElapsed
  <2>4. EarlyRounds' /\ WakeUpPending'
    BY <1>3, <1>6, <2>2 DEF EarlyRounds, WakeUpPending, Voting
  <2> QED
    BY <1>3, <1>4, <2>3, <2>4 DEF TimersInv
<1> QED
  BY <1>5, <1>6

\* A rebroadcast leaves the next of its own timeout and the phase's pending.
LEMMA RebroadcastSets ==
    ASSUME TimersInv, RebroadcastNow, rebroadcastTimeoutElapsed, failed' = failed
    PROVE  TimersInv'
<1>1. PICK n \in 0..MaxAttempts :
         /\ rebroadcastAttempts' = n /\ rebroadcastTimeout' = {rebroadcastAfter[n]}
         /\ alarm' = {IF Overrides(rebroadcastAfter[n]) THEN rebroadcastAfter[n] ELSE phaseTimeout}
  BY BackoffAssumption DEF RebroadcastNow, TimersInv, TypeOK
<1>2. rebroadcastAfter[n] \in Nat \ {0}
  BY BackoffAssumption
<1>3. phase' = phase /\ late' = late /\ phaseTimeout' = phaseTimeout /\ rebroadcasted' = TRUE
  BY DEF RebroadcastNow
<1>4. TypeOK'
  BY <1>1, <1>2, <1>3 DEF TimersInv, TypeOK, IsTime
<1>5. Explained'
  BY <1>1, <1>2, <1>3 DEF Explained, Overrides, phaseTimeoutElapsed, TimersInv, TypeOK
<1>6. phase \in Voting /\ ~late => phaseTimeoutElapsed
  BY DEF TimersInv, EarlyRounds, rebroadcastTimeoutElapsed
<1>7. EarlyRounds' /\ WakeUpPending'
  BY <1>1, <1>3, <1>6 DEF EarlyRounds, WakeUpPending, Overrides, phaseTimeoutElapsed, Voting
<1> QED
  BY <1>1, <1>3, <1>4, <1>5, <1>7 DEF TimersInv

\* Time passes for all three times alike.
LEMMA TickKeeps ==
    ASSUME TimersInv, Tick
    PROVE  TimersInv'
<1>1. Lag \in Nat \ {0} /\ \A t \in Int : Earlier(t) \in Int
  BY BackoffAssumption DEF Lag, Earlier
<1>2. \A t, u \in Int : t <= u => Earlier(t) <= Earlier(u)
  BY <1>1 DEF Earlier
<1>3. \A t \in Int : t <= 0 => Earlier(t) <= 0
  BY <1>1 DEF Earlier
<1>4. phaseTimeout \in Int /\ alarm \subseteq Int /\ rebroadcastTimeout \subseteq Int
  BY DEF TimersInv, TypeOK, IsTime
<1>5. /\ phaseTimeout' = Earlier(phaseTimeout)
      /\ rebroadcastTimeout' = {Earlier(t) : t \in rebroadcastTimeout}
      /\ alarm' = {Earlier(t) : t \in alarm}
      /\ rebroadcasted' = FALSE /\ phase' = phase /\ late' = late
      /\ rebroadcastAttempts' = rebroadcastAttempts /\ failed' = failed
  BY DEF Tick
<1>6. phaseTimeoutElapsed => phaseTimeoutElapsed'
  BY <1>3, <1>4, <1>5 DEF phaseTimeoutElapsed
<1>7. TypeOK'
  <2>1. IsTime(alarm)' /\ IsTime(rebroadcastTimeout)'
    BY <1>1, <1>5 DEF TimersInv, TypeOK, IsTime
  <2>2. phaseTimeout' \in Int
    BY <1>1, <1>4, <1>5
  <2> QED
    BY <1>5, <2>1, <2>2 DEF TimersInv, TypeOK
<1>8. Explained'
  <2> SUFFICES ASSUME phase \in Voting, ~phaseTimeoutElapsed'
               PROVE  \E t \in alarm' : /\ t <= phaseTimeout'
                                        /\ t < phaseTimeout' => t \in rebroadcastTimeout'
    BY <1>5 DEF Explained
  <2>1. PICK t \in alarm : t <= phaseTimeout /\ (t < phaseTimeout => t \in rebroadcastTimeout)
    BY <1>6 DEF TimersInv, Explained
  <2>2. Earlier(t) \in alarm' /\ Earlier(t) <= phaseTimeout'
    BY <1>2, <1>4, <1>5, <2>1
  <2>3. t < phaseTimeout => Earlier(t) \in rebroadcastTimeout'
    BY <1>5, <2>1
  <2>4. ~(t < phaseTimeout) => Earlier(t) = phaseTimeout'
    <3>1. ~(t < phaseTimeout) => t = phaseTimeout
      BY <1>4, <2>1
    <3> QED
      BY <1>5, <3>1
  <2>5. Earlier(t) \in Int
    BY <1>1, <1>4, <2>1
  <2> QED
    BY <2>2, <2>3, <2>4, <2>5
<1>9. EarlyRounds' /\ WakeUpPending'
  BY <1>5, <1>6 DEF TimersInv, EarlyRounds, WakeUpPending
<1>10. (rebroadcastAttempts # 0 => rebroadcastTimeout # {})' /\ (phase = "QUALITY" => ~late)'
  BY <1>5 DEF TimersInv
<1> QED
  BY <1>7, <1>8, <1>9, <1>10 DEF TimersInv

-----------------------------------------------------------------------------
\* tryRebroadcast for a message, in a phase that should rebroadcast.
LEMMA RebroadcastForMessage ==
    ASSUME TimersInv, tryRebroadcast(alarm), failed' = failed,
           phase \in Voting => shouldRebroadcast
    PROVE  TimersInv'
<1>1. CASE rebroadcastTimeout = {} /\ rebroadcastAttempts = 0
  <2>1. ScheduleFirst(phase, alarm)
    BY <1>1 DEF tryRebroadcast
  <2> QED
    BY <1>1, <2>1, ScheduleSets
<1>2. CASE ~(rebroadcastTimeout = {} /\ rebroadcastAttempts = 0) /\ rebroadcastTimeoutElapsed
  <2>1. RebroadcastNow
    BY <1>2 DEF tryRebroadcast
  <2> QED
    BY <1>2, <2>1, RebroadcastSets
<1>3. CASE ~(rebroadcastTimeout = {} /\ rebroadcastAttempts = 0) /\ ~rebroadcastTimeoutElapsed
  <2>1. Keep(alarm)
    BY <1>3 DEF tryRebroadcast
  <2> QED
    BY <2>1, KeepMessage
<1> QED
  BY <1>1, <1>2, <1>3

\* tryRebroadcast for an alarm: in a phase that waits for votes it finds the
\* phase timeout passed or a rebroadcast due.
LEMMA RebroadcastForAlarm ==
    ASSUME TimersInv, \E t \in alarm : t <= 0, tryRebroadcast({}), failed' = failed,
           phase \in Voting => shouldRebroadcast
    PROVE  TimersInv'
<1>0. phase \in Voting => phaseTimeoutElapsed \/ (late /\ rebroadcastTimeoutElapsed)
  BY FiredEarly
<1>1. CASE rebroadcastTimeout = {} /\ rebroadcastAttempts = 0
  <2>1. ScheduleFirst(phase, {})
    BY <1>1 DEF tryRebroadcast
  <2>2. phase \in Voting => phaseTimeoutElapsed
    BY <1>0, <1>1 DEF rebroadcastTimeoutElapsed
  <2> QED
    BY <1>1, <2>1, <2>2, ScheduleSets
<1>2. CASE ~(rebroadcastTimeout = {} /\ rebroadcastAttempts = 0) /\ rebroadcastTimeoutElapsed
  <2>1. RebroadcastNow
    BY <1>2 DEF tryRebroadcast
  <2> QED
    BY <1>2, <2>1, RebroadcastSets
<1>3. CASE ~(rebroadcastTimeout = {} /\ rebroadcastAttempts = 0) /\ ~rebroadcastTimeoutElapsed
  <2>1. Keep({})
    BY <1>3 DEF tryRebroadcast
  <2>2. rebroadcastTimeout # {}
    BY <1>3 DEF TimersInv
  <2>3. phase \in Voting => phaseTimeoutElapsed
    BY <1>0, <1>3
  <2>4. phase \in Voting => late \/ failed
    BY <1>3, <2>2 DEF TimersInv, EarlyRounds, rebroadcastTimeoutElapsed
  <2> QED
    BY <2>1, <2>3, <2>4, KeepFired
<1> QED
  BY <1>1, <1>2, <1>3

\* Termination asks for nothing more.
LEMMA TerminateKeeps ==
    ASSUME TimersInv, terminate, failed' = failed
    PROVE  TimersInv'
<1>1. TypeOK'
  BY DEF TimersInv, TypeOK, IsTime, terminate
<1> QED
  BY <1>1 DEF TimersInv, Explained, EarlyRounds, WakeUpPending, Voting, terminate

-----------------------------------------------------------------------------
(***************************************************************************)
(* The actions.                                                            *)
(***************************************************************************)
LEMMA Constants == /\ TimersInv => late \in BOOLEAN /\ failed \in BOOLEAN
                   /\ "QUALITY" \in Voting /\ "CONVERGE" \in Voting
                   /\ "PREPARE" \in Voting /\ "COMMIT" \in Voting /\ "DECIDE" \notin Voting
BY DEF TimersInv, TypeOK, Voting

LEMMA MessageKeeps ==
    ASSUME TimersInv, Receive
    PROVE  TimersInv'
<1>1. CASE phase = "QUALITY" /\ tryQuality(alarm) /\ failed' = failed
  BY <1>1, BeginSets, KeepMessage, Constants DEF tryQuality
<1>2. CASE phase = "CONVERGE" /\ tryConverge(alarm)
  <2>1. CASE Begin("PREPARE", late) /\ failed' = failed
    BY <2>1, BeginSets, Constants
  <2>2. CASE Keep(alarm) /\ (failed' = TRUE \/ failed' = failed)
    BY <2>2, KeepMessage
  <2>3. CASE late /\ tryRebroadcast(alarm) /\ failed' = failed
    BY <2>3, RebroadcastForMessage DEF shouldRebroadcast
  <2> QED
    BY <1>2, <2>1, <2>2, <2>3 DEF tryConverge
<1>3. CASE phase = "PREPARE" /\ tryPrepare(alarm) /\ failed' = failed
  BY <1>3, BeginSets, KeepMessage, RebroadcastForMessage, Constants DEF tryPrepare
<1>4. CASE phase = "COMMIT" /\ tryCommit(alarm) /\ failed' = failed
  BY <1>4, BeginSets, KeepMessage, RebroadcastForMessage, Constants DEF tryCommit
<1>5. CASE phase = "DECIDE" /\ terminate /\ failed' = failed
  BY <1>5, TerminateKeeps
<1>6. CASE phase = "DECIDE" /\ tryRebroadcast(alarm) /\ failed' = failed
  BY <1>6, RebroadcastForMessage, Constants
<1> QED
  BY <1>1, <1>2, <1>3, <1>4, <1>5, <1>6 DEF Receive, tryCurrentPhase, tryDecide

LEMMA AlarmKeeps ==
    ASSUME TimersInv, ReceiveAlarm
    PROVE  TimersInv'
<1>0. Running /\ (\E t \in alarm : t <= 0) /\ tryCurrentPhase({})
  BY DEF ReceiveAlarm
<1>a. phase \in Voting => phaseTimeoutElapsed \/ late
  BY <1>0, FiredEarly
<1>1. CASE phase = "QUALITY" /\ tryQuality({}) /\ failed' = failed
  <2>1. phaseTimeoutElapsed
    BY <1>1, <1>a, Constants DEF TimersInv
  <2> QED
    BY <1>1, <2>1, BeginSets, Constants DEF tryQuality
<1>2. CASE phase = "CONVERGE" /\ tryConverge({})
  <2>1. CASE Begin("PREPARE", late) /\ failed' = failed
    BY <2>1, BeginSets, Constants
  <2>2. CASE phaseTimeoutElapsed /\ Keep({}) /\ failed' = TRUE
    BY <2>2, KeepFired
  <2>3. CASE late /\ tryRebroadcast({}) /\ failed' = failed
    BY <1>0, <2>3, RebroadcastForAlarm DEF shouldRebroadcast
  <2> QED
    BY <1>2, <1>a, <2>1, <2>2, <2>3, Constants DEF tryConverge
<1>3. CASE phase = "PREPARE" /\ tryPrepare({}) /\ failed' = failed
  BY <1>0, <1>3, <1>a, BeginSets, RebroadcastForAlarm, Constants DEF tryPrepare, shouldRebroadcast
<1>4. CASE phase = "COMMIT" /\ tryCommit({}) /\ failed' = failed
  BY <1>0, <1>4, <1>a, BeginSets, RebroadcastForAlarm, Constants DEF tryCommit, shouldRebroadcast
<1>5. CASE phase = "DECIDE" /\ terminate /\ failed' = failed
  BY <1>5, TerminateKeeps
<1>6. CASE phase = "DECIDE" /\ tryRebroadcast({}) /\ failed' = failed
  BY <1>0, <1>6, RebroadcastForAlarm, Constants
<1> QED
  BY <1>0, <1>1, <1>2, <1>3, <1>4, <1>5, <1>6 DEF tryCurrentPhase, tryDecide

LEMMA DecideKeeps ==
    ASSUME TimersInv, ReceiveDecide \/ ReceiveCommitQuorum
    PROVE  TimersInv'
<1>1. CASE terminate /\ failed' = failed
  BY <1>1, TerminateKeeps
<1>2. CASE ScheduleFirst("DECIDE", alarm) /\ failed' = failed
  <2>1. rebroadcastAfter[0] \in Nat \ {0} /\ MaxAttempts \in Nat
    BY BackoffAssumption
  <2>2. /\ phase' = "DECIDE" /\ rebroadcastAttempts' = 0 /\ rebroadcasted' = FALSE
        /\ late' = late /\ phaseTimeout' = phaseTimeout
        /\ \/ alarm' = {rebroadcastAfter[0]} /\ rebroadcastTimeout' = {rebroadcastAfter[0]}
           \/ alarm' = alarm /\ rebroadcastTimeout' = {}
    <3> DEFINE t == 0 + rebroadcastAfter[0]
    <3>1. /\ IF Overrides(t)
             THEN rebroadcastTimeout' = {t} /\ alarm' = {t}
             ELSE rebroadcastTimeout' = {} /\ alarm' = alarm
          /\ phase' = "DECIDE" /\ rebroadcastAttempts' = 0 /\ rebroadcasted' = FALSE
          /\ late' = late /\ phaseTimeout' = phaseTimeout
      BY <1>2 DEF ScheduleFirst
    <3>2. t = rebroadcastAfter[0]
      BY <2>1
    <3> QED
      BY <3>1, <3>2
  <2>3. TypeOK'
    <3>1. late' \in BOOLEAN /\ rebroadcasted' \in BOOLEAN /\ failed' \in BOOLEAN
      BY <1>2, <2>2, Constants, Zenon
    <3>2. phaseTimeout' \in Int /\ IsTime(alarm)' /\ IsTime(rebroadcastTimeout)'
      <4>1. phaseTimeout \in Int /\ IsTime(alarm)
        BY DEF TimersInv, TypeOK
      <4>2. IsTime({rebroadcastAfter[0]}) /\ IsTime({})
        BY <2>1 DEF IsTime
      <4> QED
        BY <2>2, <4>1, <4>2 DEF IsTime
    <3>3. rebroadcastAttempts' \in 0..MaxAttempts
      BY <2>1, <2>2
    <3> QED
      BY <2>2, <3>1, <3>2, <3>3, Zenon DEF TypeOK
  <2> QED
    BY <2>2, <2>3 DEF TimersInv, Explained, EarlyRounds, WakeUpPending, Voting
<1>3. CASE BeginDecide /\ failed' = failed
  <2>1. TypeOK'
    <3>1. late' \in BOOLEAN /\ rebroadcasted' \in BOOLEAN /\ failed' \in BOOLEAN
      BY <1>3, Constants, Zenon DEF BeginDecide
    <3>2. phaseTimeout' \in Int /\ IsTime(alarm)' /\ IsTime(rebroadcastTimeout)'
      BY <1>3 DEF TimersInv, TypeOK, IsTime, BeginDecide
    <3>3. phase' = "DECIDE" /\ rebroadcastAttempts' \in 0..MaxAttempts
      BY <1>3, BackoffAssumption DEF BeginDecide
    <3> QED
      BY <3>1, <3>2, <3>3, Zenon DEF TypeOK
  <2> QED
    BY <1>3, <2>1 DEF TimersInv, Explained, EarlyRounds, WakeUpPending, Voting, BeginDecide
<1> QED
  BY <1>1, <1>2, <1>3 DEF ReceiveDecide, ReceiveCommitQuorum

LEMMA StepKeeps == TimersInv /\ [Next]_vars => TimersInv'
<1> SUFFICES ASSUME TimersInv, [Next]_vars PROVE TimersInv'
  OBVIOUS
<1>1. CASE SkipToRound
  BY <1>1, BeginSets, Constants DEF SkipToRound
<1>2. CASE UNCHANGED vars
  BY <1>2 DEF vars, TimersInv, TypeOK, Explained, EarlyRounds, WakeUpPending, IsTime,
     phaseTimeoutElapsed
<1> QED
  BY <1>1, <1>2, MessageKeeps, AlarmKeeps, DecideKeeps, TickKeeps DEF Next

LEMMA InitHolds == Init => TimersInv
<1> SUFFICES ASSUME Init PROVE TimersInv
  OBVIOUS
<1>1. PhaseDuration[FALSE] \in Nat \ {0} /\ MaxAttempts \in Nat
  BY DurationAssumption, BackoffAssumption
<1>2. PICK d \in Nat \ {0} : phaseTimeout = d /\ alarm = {d} /\ rebroadcastTimeout = {}
  BY <1>1, Zenon DEF Init
<1>3. TypeOK
  <2>1. late \in BOOLEAN /\ rebroadcasted \in BOOLEAN /\ failed \in BOOLEAN
    BY Zenon DEF Init
  <2>2. phaseTimeout \in Int /\ IsTime(alarm) /\ IsTime(rebroadcastTimeout)
    BY <1>2 DEF IsTime
  <2>3. phase = "QUALITY" /\ rebroadcastAttempts \in 0..MaxAttempts
    BY <1>1 DEF Init
  <2> QED
    BY <2>1, <2>2, <2>3, Zenon DEF TypeOK
<1>4. Explained
  BY <1>2 DEF Explained
<1>5. EarlyRounds /\ WakeUpPending
  BY DEF Init, EarlyRounds, WakeUpPending
<1>6. (rebroadcastAttempts # 0 => rebroadcastTimeout # {}) /\ (phase = "QUALITY" => ~late)
  BY DEF Init
<1> QED
  BY <1>3, <1>4, <1>5, <1>6, Zenon DEF TimersInv

LEMMA Invariance == Spec => []TimersInv
BY InitHolds, StepKeeps, PTL DEF Spec

-----------------------------------------------------------------------------
(***************************************************************************)
(* No phase timeout is lost: until it has passed an alarm is pending no    *)
(* later than it, for every phase duration and every backoff, whatever     *)
(* messages arrive and however late alarms are served.                     *)
(***************************************************************************)
THEOREM PhaseTimeoutCovered == Spec => []PhaseTimeoutIsCovered
<1>1. TimersInv => PhaseTimeoutIsCovered
  BY DEF TimersInv, Explained, PhaseTimeoutIsCovered, Voting
<1> QED
  BY <1>1, Invariance, PTL

(***************************************************************************)
(* Up to rebroadcastImmediatelyAfterRound an instance that waits for votes *)
(* always has an alarm pending, so that it cannot be stuck without trying  *)
(* again, unless tryConverge returned an error.                            *)
(***************************************************************************)
THEOREM WakeUpAlwaysPending == Spec => []WakeUpPending
<1>1. TimersInv => WakeUpPending
  BY DEF TimersInv
<1> QED
  BY <1>1, Invariance, PTL

=============================================================================
