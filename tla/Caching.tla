------------------------------ MODULE Caching ------------------------------
(***************************************************************************)
(* GroupedSet and Set, the bounded cache of what was validated: a set of   *)
(* two halves per group, and the least recently used group evicted.  Sets  *)
(* of evicted groups are pooled and reused.                                *)
(***************************************************************************)
EXTENDS Naturals, FiniteSets, Sequences, SequencesExt

CONSTANTS Groups, Samples, maxGroups, maxSize

VARIABLES
    groups,   \* the Set of each group in the cache
    recency,  \* its groups, the most recently used first
    pool,     \* Sets in the sync.Pool
    added,    \* ghost: every sample added to the group since it is in the cache
    latest    \* ghost: the last maxSize of them, in order

cachingVars == <<groups, recency, pool, added, latest>>

NewSet == [flip |-> {}, flop |-> {}]

Contained(set, v) == v \in set.flip \cup set.flop

ContainsOrAdd(set, v) ==
    IF Contained(set, v) THEN set
    ELSE IF Cardinality(set.flip \cup {v}) >= maxSize
         THEN [flip |-> {}, flop |-> set.flip \cup {v}]
         ELSE [set EXCEPT !.flip = @ \cup {v}]

\* Mutant: the set goes back to the pool as it is.
MutantCleared(set) == set

\* Set.Clear
Cleared(set) == NewSet

Without(f, gs) == [g \in DOMAIN f \ gs |-> f[g]]

MoveToFront(seq, g) == <<g>> \o SelectSeq(seq, LAMBDA h : h # g)

CachingInit ==
    /\ groups = << >> /\ recency = << >> /\ pool = {}
    /\ added = << >> /\ latest = << >>

\* GroupedSet.Contains: a group that is in the cache becomes the most recent.
Lookup(g) ==
    /\ recency' = IF g \in DOMAIN groups THEN MoveToFront(recency, g) ELSE recency
    /\ UNCHANGED <<groups, pool, added, latest>>

\* The groups that Add evicts to make room for g.
Evicted(g) ==
    IF g \in DOMAIN groups \/ Cardinality(DOMAIN groups) < maxGroups THEN {}
    ELSE {recency[Len(recency)]}

LastOf(seq) == IF Len(seq) > maxSize THEN Tail(seq) ELSE seq

\* GroupedSet.Add; a new group takes a set from the pool or a new one.
Add(g, v) ==
    LET kept == Without(groups, Evicted(g))
        returned == {Cleared(groups[e]) : e \in Evicted(g)}
        fresh == g \notin DOMAIN groups
    IN  \E set \in IF fresh THEN pool \cup returned \cup {NewSet} ELSE {groups[g]} :
          /\ groups' = (g :> ContainsOrAdd(set, v)) @@ kept
          /\ pool' = (pool \cup returned) \ (IF fresh THEN {set} ELSE {})
          /\ recency' = IF fresh THEN <<g>> \o SelectSeq(recency, LAMBDA h : h \in DOMAIN kept)
                        ELSE recency
          /\ LET isNew == ~Contained(set, v)
                 was == IF fresh THEN {} ELSE added[g]
                 last == IF fresh THEN << >> ELSE latest[g]
             IN  /\ added' = (g :> was \cup {v}) @@ Without(added, Evicted(g))
                 /\ latest' = (g :> IF isNew THEN LastOf(Append(last, v)) ELSE last)
                              @@ Without(latest, Evicted(g))

\* GroupedSet.RemoveGroupsLessThan
RemoveGroupsLessThan(group) ==
    LET old == {g \in DOMAIN groups : g < group}
    IN  /\ old # {}
        /\ groups' = Without(groups, old)
        /\ recency' = SelectSeq(recency, LAMBDA h : h \notin old)
        /\ pool' = pool \cup {Cleared(groups[g]) : g \in old}
        /\ added' = Without(added, old) /\ latest' = Without(latest, old)

CachingNext ==
    \/ \E g \in Groups : Lookup(g)
    \/ \E g \in Groups, v \in Samples : Add(g, v)
    \/ \E g \in Groups : RemoveGroupsLessThan(g)

-----------------------------------------------------------------------------
(***************************************************************************)
(* The cache never claims what was not added to that group, also when the  *)
(* set of an evicted group is used again: a hit makes the validator skip   *)
(* its checks.  A group in the cache holds at least the last maxSize       *)
(* samples that Add found missing, and never more than twice as many, and  *)
(* there are never more than maxGroups groups, the ones in the recency     *)
(* list.                                                                   *)
(***************************************************************************)
CacheIsFaithful ==
    /\ Cardinality(DOMAIN groups) <= maxGroups
    /\ Range(recency) = DOMAIN groups
    /\ \A g \in DOMAIN groups :
          /\ groups[g].flip \cup groups[g].flop \subseteq added[g]
          /\ \A i \in DOMAIN latest[g] : Contained(groups[g], latest[g][i])
          /\ Cardinality(groups[g].flip \cup groups[g].flop) <= 2 * maxSize

=============================================================================
