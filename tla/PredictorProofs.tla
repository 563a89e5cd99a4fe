-------------------------- MODULE PredictorProofs --------------------------
(***************************************************************************)
(* The predictor's bounds for every choice of the intervals and of the     *)
(* width of an integer.  A back-off that is under way is at least the      *)
(* lowest interval: without that the next wait could not be bounded below. *)
(***************************************************************************)
EXTENDS Predictor, TLAPS

PredictorInv ==
    /\ PollsKeepComing
    /\ backoff = 0 \/ backoff >= Low

\* The bounds of the interval, as numbers.
LEMMA Bounds ==
    /\ Low \in Nat \ {0} /\ High \in Nat
    /\ Low <= minInterval /\ Low <= defaultInterval
    /\ maxInterval <= High /\ defaultInterval <= High /\ Low <= High
BY IntervalAssumption DEF Low, High, Lesser, Greater

\* Go's division has an integer result.
LEMMA QuotientType ==
    ASSUME NEW a \in Int, NEW b \in Int, b # 0
    PROVE  Quotient(a, b) \in Int
<1>1. CASE b > 0 /\ a >= 0
  BY <1>1 DEF Quotient
<1>2. CASE b > 0 /\ ~(a >= 0)
  <2>1. (-a) \div b \in Int
    BY <1>2
  <2> QED BY <1>2, <2>1 DEF Quotient
<1>3. CASE ~(b > 0) /\ a >= 0
  <2>1. a \div (-b) \in Int
    BY <1>3
  <2> QED BY <1>3, <2>1 DEF Quotient
<1>4. CASE ~(b > 0) /\ ~(a >= 0)
  <2>1. (-a) \div (-b) \in Int
    BY <1>4
  <2> QED BY <1>4, <2>1 DEF Quotient
<1> QED BY <1>1, <1>2, <1>3, <1>4

\* time.Duration of a progress is never zero but for zero, also when it wraps.
LEMMA DurationType ==
    ASSUME NEW progress \in 0..MaxProgress, progress > 2
    PROVE  Duration(progress) \in Int /\ Duration(progress) # 0
BY IntervalAssumption DEF Duration

LEMMA ClampType ==
    ASSUME NEW x \in Int, NEW low \in Int, NEW high \in Int
    PROVE  /\ Clamp(x, low, high) \in Int
           /\ low <= high => Clamp(x, low, high) \in low..high
           /\ low >= 0 /\ high >= 0 => Clamp(x, low, high) >= 0
BY DEF Clamp

\* The interval and the distance that update computes are within their bounds.
LEMMA Explores ==
    ASSUME PredictorInv, NEW progress \in 0..MaxProgress
    PROVE  /\ Distance(progress) \in Nat
           /\ Explored(progress) \in minInterval..maxInterval
<1>1. interval \in Int /\ exploreDistance \in Nat
  BY Bounds DEF PredictorInv, PollsKeepComing
<1>2. BaseInterval(progress) \in Int
  <2>1. CASE FarAway(progress)
    <3>1. progress > 2
      BY <2>1 DEF FarAway
    <3>2. Duration(progress) \in Int /\ Duration(progress) # 0
      BY <3>1, DurationType
    <3> QED BY <2>1, <1>1, <3>2, QuotientType DEF BaseInterval
  <2>2. CASE ~FarAway(progress)
    BY <2>2, <1>1 DEF BaseInterval
  <2> QED BY <2>1, <2>2
<1>3. Distance(progress) \in Nat
  <2> DEFINE x == IF Circling(progress) THEN exploreDistance \div 3
                  ELSE IF progress <= 2 THEN exploreDistance * 2
                  ELSE Quotient(BaseInterval(progress), 2)
  <2>1. Quotient(BaseInterval(progress), 2) \in Int
    BY <1>2, QuotientType
  <2>2. x \in Int
    BY <1>1, <2>1
  <2>3. minInterval \div 100 \in Int /\ maxInterval \div 2 \in Int
        /\ minInterval \div 100 >= 0 /\ maxInterval \div 2 >= 0
    BY IntervalAssumption
  <2> HIDE DEF x
  <2>4. Clamp(x, minInterval \div 100, maxInterval \div 2) \in Int
        /\ Clamp(x, minInterval \div 100, maxInterval \div 2) >= 0
    BY <2>2, <2>3, ClampType
  <2> QED BY <2>4 DEF Distance, x
<1>4. Explored(progress) \in minInterval..maxInterval
  <2> DEFINE y == IF progress = 0 THEN BaseInterval(progress) + Distance(progress)
                  ELSE BaseInterval(progress) - Distance(progress)
  <2>1. y \in Int
    BY <1>2, <1>3
  <2> HIDE DEF y
  <2>2. Clamp(y, minInterval, maxInterval) \in minInterval..maxInterval
    BY <2>1, ClampType, IntervalAssumption
  <2> QED BY <2>2 DEF Explored, y
<1> QED BY <1>3, <1>4

\* One update keeps the bounds.
LEMMA UpdateKeepsBounds ==
    ASSUME PredictorInv, NEW progress \in 0..MaxProgress, UpdateWith(progress)
    PROVE  PredictorInv'
<1> DEFINE now == BackoffNow(progress)
<1>1. interval' \in Low..High /\ exploreDistance' \in Nat
  <2>1. CASE Exploring(progress)
    BY <2>1, Explores, Bounds, IntervalAssumption DEF UpdateWith
  <2>2. CASE ~Exploring(progress)
    BY <2>2 DEF UpdateWith, PredictorInv, PollsKeepComing
  <2> QED BY <2>1, <2>2
<1>2. now \in 0..(10 * High) /\ (now > 0 => now >= Low)
  BY Bounds DEF BackoffNow, PredictorInv, PollsKeepComing, maxBackoffMultiplier
<1>3. next' \in Low..(10 * High) /\ backoff' \in 0..(10 * High) /\ (backoff' = 0 \/ backoff' >= Low)
  <2>1. CASE now > 0
    <3>1. next' = now /\ backoff' = Lesser(2 * now, 10 * maxInterval)
      BY <2>1 DEF UpdateWith, maxBackoffMultiplier
    <3> HIDE DEF now
    <3> QED BY <2>1, <3>1, <1>2, Bounds, IntervalAssumption DEF Lesser
  <2>2. CASE ~(now > 0)
    <3>1. next' = interval' /\ backoff' = 0
      BY <2>2 DEF UpdateWith
    <3> QED BY <3>1, <1>1, Bounds
  <2> QED BY <2>1, <2>2
<1>4. Low' = Low /\ High' = High
  BY DEF Low, High
<1>5. PollsKeepComing'
  BY <1>1, <1>3, <1>4 DEF PollsKeepComing, maxBackoffMultiplier
<1> QED BY <1>1, <1>3, <1>4, <1>5 DEF PredictorInv

\* The bounds are an inductive invariant.
LEMMA PredictorInvThm == PredictorSpec => []PredictorInv
<1>1. PredictorInit => PredictorInv
  <2> SUFFICES ASSUME PredictorInit PROVE PredictorInv
    OBVIOUS
  <2>1. interval \in Low..High /\ backoff = 0 /\ next \in Low..(10 * High)
    BY Bounds, IntervalAssumption DEF PredictorInit
  <2>2. exploreDistance \in Nat
    BY IntervalAssumption DEF PredictorInit
  <2> QED BY <2>1, <2>2, Bounds DEF PredictorInv, PollsKeepComing, maxBackoffMultiplier
<1>2. PredictorInv /\ [Update]_predictorVars => PredictorInv'
  <2> SUFFICES ASSUME PredictorInv, [Update]_predictorVars PROVE PredictorInv'
    OBVIOUS
  <2>1. CASE Update
    BY <2>1, UpdateKeepsBounds DEF Update
  <2>2. CASE UNCHANGED predictorVars
    BY <2>2 DEF predictorVars, PredictorInv, PollsKeepComing, Low, High
  <2> QED BY <2>1, <2>2
<1> QED BY <1>1, <1>2, PTL DEF PredictorSpec

(***************************************************************************)
(* The predictor keeps the wait until the next poll positive and bounded   *)
(* for every minimum, maximum and default interval that a manifest may     *)
(* give, and for every progress, wrapped around or not.                    *)
(***************************************************************************)
THEOREM PollsKeepComingThm == PredictorSpec => []PollsKeepComing
<1>1. PredictorInv => PollsKeepComing
  BY DEF PredictorInv
<1> QED BY <1>1, PredictorInvThm, PTL

(***************************************************************************)
(* While no certificates come, update leaves the interval alone.           *)
(***************************************************************************)
THEOREM BeliefSurvivesBackoffThm == PredictorSpec => BeliefSurvivesBackoff
<1> DEFINE Keeps == backoff > 0 => interval' = interval /\ (backoff' = 0 => next' = interval)
<1>1. PredictorInv /\ [Update]_predictorVars => [Keeps]_predictorVars
  <2> SUFFICES ASSUME PredictorInv, NEW progress \in 0..MaxProgress, UpdateWith(progress), backoff > 0
               PROVE  interval' = interval /\ (backoff' = 0 => next' = interval)
    BY DEF Update
  <2>1. interval' = interval
    BY Bounds DEF UpdateWith, Exploring, PredictorInv, PollsKeepComing
  <2>2. CASE BackoffNow(progress) > 0
    <3>1. backoff' = Lesser(2 * BackoffNow(progress), 10 * maxInterval)
      BY <2>2 DEF UpdateWith, maxBackoffMultiplier
    <3>2. BackoffNow(progress) \in Nat
      BY Bounds DEF BackoffNow, PredictorInv, PollsKeepComing, maxBackoffMultiplier
    <3>3. backoff' # 0
      BY <2>2, <3>1, <3>2, IntervalAssumption DEF Lesser
    <3> QED BY <2>1, <3>3
  <2>3. CASE ~(BackoffNow(progress) > 0)
    BY <2>1, <2>3 DEF UpdateWith
  <2> QED BY <2>1, <2>2, <2>3
<1>2. PredictorSpec => []PredictorInv
  BY PredictorInvThm
<1> QED BY <1>1, <1>2, PTL DEF PredictorSpec, BeliefSurvivesBackoff

=============================================================================
