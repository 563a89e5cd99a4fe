----------------------------- MODULE Predictor -----------------------------
(***************************************************************************)
(* The predictor of the certificate exchange: how long to wait until the   *)
(* next poll, given how many certificates the last interval brought.       *)
(***************************************************************************)
EXTENDS Integers

CONSTANTS
    minInterval, maxInterval, defaultInterval,
    MaxProgress,  \* bound on the certificates of an interval
    WordBits      \* width of uint64 and time.Duration

\* The manifest orders the first two and keeps them positive; it does not relate the
\* default, the EC period, to them.
ASSUME IntervalAssumption ==
    /\ minInterval \in Nat \ {0} /\ maxInterval \in Nat /\ defaultInterval \in Nat \ {0}
    /\ minInterval <= maxInterval
    /\ WordBits \in Nat \ {0} /\ MaxProgress \in Nat /\ MaxProgress < 2^WordBits

VARIABLES
    interval, wasIncreasing, exploreDistance, backoff,
    next  \* what the last update returned

predictorVars == <<interval, wasIncreasing, exploreDistance, backoff, next>>

maxBackoffMultiplier == 10

PredictorInit ==
    /\ interval = defaultInterval
    /\ wasIncreasing = FALSE
    /\ exploreDistance = defaultInterval \div 2
    /\ backoff = 0
    /\ next = defaultInterval

-----------------------------------------------------------------------------
Lesser(a, b) == IF a < b THEN a ELSE b
Greater(a, b) == IF a < b THEN b ELSE a

\* Go's division, which truncates.
Quotient(a, b) ==
    IF b > 0 THEN (IF a >= 0 THEN a \div b ELSE -((-a) \div b))
    ELSE (IF a >= 0 THEN -(a \div (-b)) ELSE (-a) \div (-b))

\* time.Duration(progress)
Duration(progress) ==
    IF progress < 2^(WordBits - 1) THEN progress ELSE progress - 2^WordBits

Clamp(x, low, high) == IF x < low THEN low ELSE IF x > high THEN high ELSE x

\* The branches on a change of direction, little progress, and a lot of it.
Circling(progress) == wasIncreasing = (progress > 1)
FarAway(progress) == ~Circling(progress) /\ progress > 2

\* The interval and the distance before they are clamped.
BaseInterval(progress) ==
    IF FarAway(progress) THEN Quotient(interval, Duration(progress)) ELSE interval

Distance(progress) ==
    Clamp(IF Circling(progress) THEN exploreDistance \div 3
          ELSE IF progress <= 2 THEN exploreDistance * 2
          ELSE Quotient(BaseInterval(progress), 2),
          minInterval \div 100, maxInterval \div 2)

\* Mutant: the interval is not clamped when it shrinks.
MutantExplored(progress) ==
    IF progress = 0 THEN Clamp(BaseInterval(progress) + Distance(progress), minInterval, maxInterval)
    ELSE BaseInterval(progress) - Distance(progress)

Explored(progress) ==
    Clamp(IF progress = 0 THEN BaseInterval(progress) + Distance(progress)
          ELSE BaseInterval(progress) - Distance(progress), minInterval, maxInterval)

Exploring(progress) == backoff = 0 /\ progress # 1

\* The back-off this update answers with: one in progress ends with the first certificate,
\* and a new one starts when there was none.
BackoffNow(progress) ==
    IF backoff > 0 THEN (IF progress > 0 THEN 0 ELSE backoff)
    ELSE IF progress = 0 THEN interval ELSE 0

\* predictor.update
UpdateWith(progress) ==
    /\ IF Exploring(progress)
       THEN /\ interval' = Explored(progress)
            /\ exploreDistance' = Distance(progress)
            /\ wasIncreasing' = (progress = 0)
       ELSE UNCHANGED <<interval, exploreDistance, wasIncreasing>>
    /\ IF BackoffNow(progress) > 0
       THEN /\ next' = BackoffNow(progress)
            /\ backoff' = Lesser(2 * BackoffNow(progress), maxBackoffMultiplier * maxInterval)
       ELSE /\ next' = interval'
            /\ backoff' = 0

Update == \E progress \in 0..MaxProgress : UpdateWith(progress)

PredictorSpec == PredictorInit /\ [][Update]_predictorVars

-----------------------------------------------------------------------------
Low == Lesser(minInterval, defaultInterval)
High == Greater(maxInterval, defaultInterval)

(***************************************************************************)
(* The wait until the next poll is always positive and bounded, whatever   *)
(* the progress, even one that wrapped around: the subscriber neither      *)
(* polls without a pause nor stops polling.                                *)
(***************************************************************************)
PollsKeepComing ==
    /\ interval \in Low..High
    /\ exploreDistance \in Nat
    /\ backoff \in 0..(maxBackoffMultiplier * High)
    /\ next \in Low..(maxBackoffMultiplier * High)

(***************************************************************************)
(* While no certificates come, update leaves its belief about the interval *)
(* alone, and the first certificate brings that interval back.             *)
(***************************************************************************)
BeliefSurvivesBackoff ==
    [][backoff > 0 => interval' = interval /\ (backoff' = 0 => next' = interval)]_predictorVars

=============================================================================
