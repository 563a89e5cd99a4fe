------------------------------ MODULE EcCache ------------------------------
(***************************************************************************)
(* PowerCachingECWrapper: power tables from an LRU cache, and else from    *)
(* the backend, one call at a time for a tipset and at most concurrency at *)
(* a time.                                                                 *)
(***************************************************************************)
EXTENDS Naturals, FiniteSets, Sequences, TLC

CONSTANTS
    Callers, TipSetKeys,
    concurrency, cacheSize

VARIABLES
    cached,    \* tipsets in the cache, the most recently used first
    flight,   \* tipsets being fetched: who started it, where it is
    caller,   \* where each caller is
    failed    \* ghost: tipsets the backend has failed for

ecCacheVars == <<cached, flight, caller, failed>>

Idle == [at |-> "idle", key |-> "none"]

EcCacheInit ==
    /\ cached = << >> /\ flight = << >> /\ failed = {}
    /\ caller = [c \in Callers |-> Idle]

\* lru.Cache.Get and Add: the key becomes the most recent, the oldest leaves.
Used(seq, k) == <<k>> \o SelectSeq(seq, LAMBDA x : x # k)
Cached(seq, k) == SubSeq(Used(seq, k), 1, IF Len(Used(seq, k)) > cacheSize THEN cacheSize
                                          ELSE Len(Used(seq, k)))

Returns(c, result) == [at |-> result, key |-> caller[c].key]

\* GetPowerTable looks into the cache.
GetPowerTable(c, k) ==
    /\ caller[c].at = "idle"
    /\ IF \E i \in DOMAIN cached : cached[i] = k
       THEN /\ cached' = Used(cached, k)
            /\ caller' = [caller EXCEPT ![c] = [at |-> "table", key |-> k]]
       ELSE /\ caller' = [caller EXCEPT ![c] = [at |-> "missed", key |-> k]]
            /\ UNCHANGED cached
    /\ UNCHANGED <<flight, failed>>

\* dedup.DoChan joins the fetch of the tipset or starts one.
Join(c) ==
    /\ caller[c].at = "missed"
    /\ caller' = [caller EXCEPT ![c].at = "waiting"]
    /\ flight' = flight @@ (caller[c].key :> [by |-> c, at |-> "queued"])
    /\ UNCHANGED <<cached, failed>>

\* ctx.Done() while it waits.
GiveUp(c) ==
    /\ caller[c].at = "waiting"
    /\ caller' = [caller EXCEPT ![c] = Returns(c, "cancelled")]
    /\ UNCHANGED <<cached, flight, failed>>

InFlight(k, at) == k \in DOMAIN flight /\ flight[k].at = at

Running == {k \in DOMAIN flight : flight[k].at = "running"}

\* executeGetPowerTable takes the semaphore and calls the backend.
Fetch(k) ==
    /\ InFlight(k, "queued") /\ Cardinality(Running) < concurrency
    /\ flight' = [flight EXCEPT ![k].at = "running"]
    /\ UNCHANGED <<cached, caller, failed>>

\* The backend answers: the table is cached and the semaphore given back.
Answer(k) ==
    /\ InFlight(k, "running")
    /\ \/ /\ cached' = Cached(cached, k)
          /\ flight' = [flight EXCEPT ![k].at = "table"]
          /\ UNCHANGED failed
       \/ /\ flight' = [flight EXCEPT ![k].at = "error"]
          /\ failed' = failed \cup {k}
          /\ UNCHANGED cached
    /\ UNCHANGED caller

\* Mutant: the fetch has the context of the caller that started it.
MutantOutcome(k) ==
    IF caller[flight[k].by] = [at |-> "cancelled", key |-> k] THEN "error" ELSE flight[k].at

\* context.WithoutCancel: the fetch does not depend on any caller.
Outcome(k) == flight[k].at

Waiters(k) == {c \in Callers : caller[c] = [at |-> "waiting", key |-> k]}

\* The group forgets the key and everyone who waits gets the result.
Deliver(k) ==
    /\ k \in DOMAIN flight /\ flight[k].at \in {"table", "error"}
    /\ caller' = [c \in Callers |-> IF c \in Waiters(k) THEN Returns(c, Outcome(k)) ELSE caller[c]]
    /\ flight' = [x \in DOMAIN flight \ {k} |-> flight[x]]
    /\ UNCHANGED <<cached, failed>>

\* The caller is done with the result and may ask again.
Again(c) ==
    /\ caller[c].at \in {"table", "error", "cancelled"}
    /\ caller' = [caller EXCEPT ![c] = Idle]
    /\ UNCHANGED <<cached, flight, failed>>

FetchStep == \E k \in TipSetKeys : Fetch(k) \/ Answer(k) \/ Deliver(k)

\* A goroutine that waits to send to the semaphore is served in its turn.
EcCacheFairness ==
    /\ \A c \in Callers : WF_ecCacheVars(Join(c))
    /\ \A k \in TipSetKeys : SF_ecCacheVars(Fetch(k)) /\ WF_ecCacheVars(Answer(k) \/ Deliver(k))

EcCacheNext ==
    \/ \E c \in Callers : Join(c) \/ GiveUp(c) \/ Again(c) \/ \E k \in TipSetKeys : GetPowerTable(c, k)
    \/ FetchStep

-----------------------------------------------------------------------------
(***************************************************************************)
(* A caller gets an error only when it gave up itself or the backend       *)
(* failed: a caller that gives up does not take others with it that joined *)
(* its fetch.  Never more than concurrency calls are at the backend.       *)
(***************************************************************************)
OthersUnaffected ==
    /\ \A c \in Callers : caller[c].at = "error" => caller[c].key \in failed
    /\ Cardinality(Running) <= concurrency /\ Len(cached) <= cacheSize

(***************************************************************************)
(* A caller that waits for a power table gets an answer, also when all     *)
(* slots are taken or the fetch was started by another.                    *)
(***************************************************************************)
CallersAnswered == \A c \in Callers : []<>(caller[c].at \notin {"missed", "waiting"})

=============================================================================
