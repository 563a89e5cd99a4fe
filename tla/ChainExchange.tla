--------------------------- MODULE ChainExchange ---------------------------
(***************************************************************************)
(* The chain exchange of one node (chainexchange/pubsub.go).  Votes carry  *)
(* only the key of their chain; the chains travel on a topic of their own. *)
(* A chain somebody has asked for is kept as wanted, a placeholder until   *)
(* it is known; the others as discovered.  A chain stands for its key.     *)
(***************************************************************************)
EXTENDS Naturals, Sequences, SequencesExt, ECChain

CONSTANTS Instances, Chains,
          maxWantedChainsPerInstance, maxDiscoveredChainsPerInstance,
          maxInstanceLookahead,
          WantedQueue,      \* capacity of pendingCacheAsWanted
          DiscoveredQueue   \* capacity of pendingDiscoveredChains

L == INSTANCE Lru

VARIABLES
  current,      \* the progress of the participant: its instance
  wanted,       \* per instance, chains asked for; whether each is known
  discovered,   \* per instance, chains that arrived unasked
  toCache,      \* pendingCacheAsWanted: own broadcasts to be kept as wanted
  found         \* pendingDiscoveredChains: notifications to the message manager

exchange == <<wanted, discovered, toCache, found>>

Chain(i, c) == [instance |-> i, chain |-> c]

\* A send that gives up when the channel is full.
Offer(channel, capacity, x) ==
  IF Len(channel) < capacity THEN Append(channel, x) ELSE channel

InitExchange ==
  /\ wanted = [i \in Instances |-> <<>>]
  /\ discovered = [i \in Instances |-> <<>>]
  /\ toCache = <<>>
  /\ found = <<>>

Known(i, c) == L!Has(wanted[i], c) /\ L!Peek(wanted[i], c)

\* Found by GetChainByInstance.
Obtainable(i, c) == Known(i, c) \/ L!Has(discovered[i], c)

\* GetChainByInstance: a discovered chain becomes a wanted one and the listener
\* is told; an unknown one is marked as wanted.
GetChainByInstance(i, c) ==
  LET asked == [wanted EXCEPT ![i] = L!Touch(@, c)] IN
  \/ /\ Known(i, c)
     /\ wanted' = asked
     /\ UNCHANGED <<discovered, found>>
  \/ /\ ~Known(i, c)
     /\ L!Has(discovered[i], c)
     /\ wanted' = [asked EXCEPT ![i] = L!Add(@, maxWantedChainsPerInstance, c, TRUE)]
     /\ discovered' = [discovered EXCEPT ![i] = L!Remove(@, c)]
     /\ found' = Offer(found, DiscoveredQueue, Chain(i, c))
  \/ /\ ~Obtainable(i, c)
     /\ wanted' = [asked EXCEPT ![i] = L!ContainsOrAdd(@, maxWantedChainsPerInstance, c, FALSE)]
     /\ UNCHANGED <<discovered, found>>

\* The prefixes of a chain from the longest to the shortest.
Longest(c) == [n \in 1..Len(c) |-> Prefix(c, Len(c) - n)]

\* validatePubSubMessage: near the current instance, a chain, of a recent time.
Acceptable(i, c) == i >= current /\ i <= current + maxInstanceLookahead /\ ~IsZero(c)

MutantCached(cache, c) == L!ContainsOrAdd(cache, maxDiscoveredChainsPerInstance, c, TRUE)

\* cacheAsDiscoveredChain looks for the wanted keys in the discovered chains,
\* so what happens to any of the prefixes is that it is added if not there.
Cached(cache, c) ==
  FoldLeft(LAMBDA s, p : L!ContainsOrAdd(s, maxDiscoveredChainsPerInstance, p, TRUE), cache, Longest(c))

\* A chain arrives from the topic.
ReceiveChain(i, c) ==
  /\ Acceptable(i, c)
  /\ discovered' = [discovered EXCEPT ![i] = Cached(@, c)]
  /\ UNCHANGED <<wanted, toCache, found>>

\* Broadcast: keep the own chain as wanted, if there is room in the queue; the
\* publication itself is the network's.
Broadcast(i, c) ==
  /\ toCache' = Offer(toCache, WantedQueue, Chain(i, c))
  /\ UNCHANGED <<wanted, discovered, found>>

\* cacheAsWantedChain: every prefix not known yet is, and is notified.
CacheAsWantedChain ==
  /\ toCache # <<>>
  /\ LET i == Head(toCache).instance
         new == SelectSeq(Longest(Head(toCache).chain), LAMBDA p : ~Known(i, p))
     IN /\ wanted' = [wanted EXCEPT ![i] =
                        FoldLeft(LAMBDA s, p : L!Add(s, maxWantedChainsPerInstance, p, TRUE), @, new)]
        /\ found' = FoldLeft(LAMBDA s, p : Offer(s, DiscoveredQueue, Chain(i, p)), found, new)
  /\ toCache' = Tail(toCache)
  /\ UNCHANGED discovered

RemoveChainsByInstance(i) ==
  /\ wanted' = [j \in Instances |-> IF j < i THEN <<>> ELSE wanted[j]]
  /\ discovered' = [j \in Instances |-> IF j < i THEN <<>> ELSE discovered[j]]
=============================================================================
