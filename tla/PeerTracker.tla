---------------------------- MODULE PeerTracker ----------------------------
(***************************************************************************)
(* Which peers to ask for certificates (certexchange/polling/              *)
(* peerTracker.go).  A tracker holds the records of the known peers, the   *)
(* active ones in order of rank, those in backoff, and the rounds since a  *)
(* peer was last useful.  Rounds count from the current one: a backoff     *)
(* record holds how many are left.  Latency and the sort's ties are left   *)
(* open: an operator that sorts returns every order they allow.            *)
(***************************************************************************)
EXTENDS Integers, Sequences, FiniteSets, SequencesExt, FiniteSetsExt

CONSTANTS hitMissSlidingWindow, maxBackoffExponent,
          minRequests, maxRequests,
          maxDistance,   \* rounds without a hit beyond which they count alike
          gcHighWater, gcLowWater, gcFailureCuttoff

peerEvil == -1
peerInactive == 0
peerDeactivating == 1
peerActive == 2

\* Hit rates are in units of 1/960; the target confidence is 9/8, the rate of
\* a peer not asked yet an eighth of that.
One == 960
targetConfidence == 1080
defaultRate == 135

newPeerTracker == [rec |-> <<>>, active |-> <<>>, backoff |-> {}, distance |-> 0]

NewRecord(state) == [failures |-> 0, hits |-> 0, misses |-> 0, state |-> state]

Tracked(t) == DOMAIN t.rec

getOrCreate(t, p) == IF p \in Tracked(t) THEN t.rec[p] ELSE NewRecord(peerInactive)

With(t, p, r) == [t EXCEPT !.rec = [q \in Tracked(t) \cup {p} |-> IF q = p THEN r ELSE @[q]]]

----------------------------------------------------------------------------
(* Outcomes of a request *)

\* Failures above the exponent's cap change nothing, nor do those above the
\* cutoff of the garbage collection.
FailureCap == Max({maxBackoffExponent, gcFailureCuttoff})

Window(x) == Min({x, hitMissSlidingWindow})

Miss(r) == [r EXCEPT !.misses = Window(@ + 1),
                     !.hits = IF r.misses < hitMissSlidingWindow THEN @ ELSE Max({@ - 1, 0})]
Hit(r) == [r EXCEPT !.hits = Window(@ + 1),
                    !.misses = IF r.hits < hitMissSlidingWindow THEN @ ELSE Max({@ - 1, 0})]

Delay(r) == 2 ^ Min({r.failures, maxBackoffExponent})

MutantBackoff(t, p) == t.backoff

\* The peer is left alone for twice as many rounds after every failure.
Backoff(t, p) == t.backoff \cup {[peer |-> p, rounds |-> Delay(getOrCreate(t, p))]}

recordFailure(t, p) ==
  LET r == getOrCreate(t, p) IN
  [With(t, p, [Miss(r) EXCEPT !.failures = Min({@ + 1, FailureCap}),
                              !.state = IF @ = peerActive THEN peerDeactivating ELSE @])
     EXCEPT !.backoff = Backoff(t, p)]

recordMiss(t, p) == With(t, p, [Miss(getOrCreate(t, p)) EXCEPT !.failures = 0])

recordHit(t, p) == [With(t, p, [Hit(getOrCreate(t, p)) EXCEPT !.failures = 0]) EXCEPT !.distance = 0]

recordInvalid(t, p) == With(t, p, [getOrCreate(t, p) EXCEPT !.state = peerEvil, !.failures = 0])

----------------------------------------------------------------------------
(* Ranks, rounds and garbage collection *)

Rate(r) == IF r.hits + r.misses = 0 THEN defaultRate ELSE (One * r.hits) \div (r.hits + r.misses)
Count(r) == Min({r.hits + r.misses, hitMissSlidingWindow})

\* The best first, as far as state and hit rate tell.
Better(a, b) == a.state > b.state \/ (a.state = b.state /\ Rate(a) > Rate(b))

\* Kept before the other when there are too many peers: the first of these
\* criteria that tells them apart decides.
KeptBefore(a, b) ==
  LET differ == <<(a.state = peerEvil) # (b.state = peerEvil),
                  (a.failures < gcFailureCuttoff) # (b.failures < gcFailureCuttoff),
                  (Rate(a) = 0) # (Rate(b) = 0),
                  (Count(a) = 0) # (Count(b) = 0),
                  Rate(a) # Rate(b), Count(a) # Count(b), a.failures # b.failures>>
      before == <<a.state > b.state, a.failures < b.failures, Rate(a) > Rate(b),
                  Count(a) > Count(b), Rate(a) > Rate(b), Count(a) > Count(b),
                  a.failures < b.failures>>
      deciding == {n \in DOMAIN differ : differ[n]}
  IN  deciding # {} /\ before[Min(deciding)]

\* What may be kept: the right number, and nothing better is dropped.
Keepable(t) ==
  {K \in SUBSET Tracked(t) :
     /\ Cardinality(K) = gcLowWater
     /\ \A p \in K, q \in Tracked(t) \ K : ~KeptBefore(t.rec[q], t.rec[p])}

Forget(t, K) ==
  [t EXCEPT !.rec = [p \in K |-> @[p]],
            !.active = SelectSeq(@, LAMBDA p : p \in K),
            !.backoff = {b \in @ : b.peer \in K}]

maybeGc(t) ==
  IF Cardinality(Tracked(t)) < gcHighWater THEN {t} ELSE {Forget(t, K) : K \in Keepable(t)}

\* A peer that is seen for the first time is active at once.
peerSeen(t, p) ==
  IF p \in Tracked(t) THEN {t}
  ELSE maybeGc([With(t, p, NewRecord(peerActive)) EXCEPT !.active = Append(@, p)])

Reactivated(r) == r.state \in {peerInactive, peerDeactivating}

\* Peers whose delay is over become active again.
advanceRound(t) ==
  LET due == {b.peer : b \in {x \in t.backoff : x.rounds <= 0}}
      back == {p \in due \cap Tracked(t) : Reactivated(t.rec[p])}
      added == {p \in back : t.rec[p].state # peerDeactivating}
  IN  [t EXCEPT !.rec = [p \in Tracked(t) |-> IF p \in back THEN [@[p] EXCEPT !.state = peerActive] ELSE @[p]],
                !.active = @ \o SetToSeq(added),
                !.backoff = {[b EXCEPT !.rounds = @ - 1] : b \in {x \in t.backoff : x.rounds > 0}},
                !.distance = Min({@ + 1, maxDistance})]

Orders(S) == {s \in [1..Cardinality(S) -> S] : IsInjective(s)}

Leaves(r) == r.state # peerActive

\* The active peers from best to worst; those that deactivate or are evil have
\* come last and leave.
rank(t) ==
  LET leaving == {p \in Range(t.active) : Leaves(t.rec[p])}
      staying == Range(t.active) \ leaving
  IN  {[t EXCEPT !.rec = [p \in Tracked(t) |->
                            IF p \in leaving /\ @[p].state = peerDeactivating
                            THEN [@[p] EXCEPT !.state = peerInactive] ELSE @[p]],
                 !.active = s]
         : s \in {o \in Orders(staying) :
                    \A m, n \in DOMAIN o : m < n => ~Better(t.rec[o[n]], t.rec[o[m]])}}

----------------------------------------------------------------------------
(* The peers of a round *)

MinPeers(t) == Min({minRequests * 2 ^ (t.distance - 1), maxRequests})
Threshold(t) == targetConfidence * t.distance

Confidence(t, n) == FoldLeft(LAMBDA c, p : c + Rate(t.rec[p]), 0, SubSeq(t.active, 1, n))

\* How many of the best are asked: until they are enough, or the rest useless.
PeerCount(t) ==
  LET stops == {n \in 0..Len(t.active) :
                  \/ n = Len(t.active)
                  \/ Rate(t.rec[t.active[n + 1]]) = 0
                  \/ n > 0 /\ (n >= maxRequests \/ Confidence(t, n) >= Threshold(t))}
  IN  Min(stops)

MutantMore(t, n) == IF Confidence(t, n) < Threshold(t) THEN 0 ELSE MinPeers(t) - n

\* How many of the others are asked as well.
More(t, n) == IF Confidence(t, n) < Threshold(t) THEN maxRequests - n ELSE MinPeers(t) - n

\* Any that many of the rest, in their order.
choose(s, count) ==
  IF Len(s) <= count THEN {s}
  ELSE {SelectSeq(s, LAMBDA p : p \in S) : S \in {T \in SUBSET Range(s) : Cardinality(T) = Max({count, 0})}}

Suggested(t) ==
  LET n == PeerCount(t)  rest == SubSeq(t.active, n + 1, Len(t.active))
  IN  {SubSeq(t.active, 1, n) \o s : s \in choose(rest, More(t, n))}

\* The trackers after advancing the round and ranking.
NextRounds(t) == UNION {rank(u) : u \in maybeGc(advanceRound(t))}
=============================================================================
