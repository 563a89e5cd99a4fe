-------------------------- MODULE PartialMessages --------------------------
(***************************************************************************)
(* Partial messages (pmsg/partial_msg.go): votes arrive with the key of    *)
(* their chain and are completed from the chain exchange, at once or when  *)
(* the chain is found.  Goroutines: the validators of the vote topic, the  *)
(* subscription loop that buffers incomplete votes, the manager, the chain *)
(* broadcaster, the exchange's own loops, and the runner.  All queues are  *)
(* bounded; a full one makes the sender drop something.                    *)
(*                                                                         *)
(* A vote is the sender, instance and key; one round and phase.            *)
(***************************************************************************)
EXTENDS ChainExchange, FiniteSets

CONSTANTS Senders,
          Loads,            \* what may happen around the node: see load
          FirstInstance,
          maxBuffMsgPerInstance,
          PartialQueue, RemovalQueue, CompletedQueue, BroadcastQueue,
          None

VARIABLES
  missed,     \* a vote whose chain was not found, not buffered yet
  partial,    \* pendingPartialMessages
  removal,    \* pendingInstanceRemoval
  buffer,     \* pmByInstance: per instance, sender to key
  index,      \* pmkByInstanceByChainKey: per instance and key, senders
  task,       \* what the manager is completing
  completed,  \* completedMessages: votes with the chain filled in
  ready,      \* votes that have reached the runner, validated
  toSend,     \* pendingChainBroadcasts
  waiting,    \* a chain broadcast waiting for room to be made
  sending,    \* the chain that is broadcast again and again
  load        \* the votes and chains others broadcast, again and again, and
              \* the chains this node still asks to broadcast

manager == <<buffer, index, task, completed>>
broadcaster == <<toSend, waiting, sending, load>>
vars == <<current, exchange, missed, partial, removal, manager, ready, broadcaster>>

Vote(s, i, c) == [sender |-> s, instance |-> i, chain |-> c]
Votes == [sender : Senders, instance : Instances, chain : Chains]

\* The only vote of its sender in that instance.
Single(v) == \A w \in load.votes : w.sender = v.sender /\ w.instance = v.instance => w = v

Init ==
  /\ InitExchange
  /\ current = FirstInstance
  /\ missed = None
  /\ partial = <<>>
  /\ removal = <<>>
  /\ buffer = [i \in Instances |-> <<>>]
  /\ index = [i \in Instances |-> [c \in Chains |-> {}]]
  /\ task = None
  /\ completed = <<>>
  /\ ready = {}
  /\ toSend = <<>>
  /\ waiting = None
  /\ sending = None
  /\ load \in Loads

----------------------------------------------------------------------------
(* Votes *)

\* validateByProgress for a vote of a current or later instance.
Relevant(v) == v.instance >= current

\* validatePubsubMessage: complete the vote from the exchange, or validate it
\* without its chain.
ReceiveVote(v) ==
  /\ v \in load.votes
  /\ missed = None
  /\ Relevant(v)
  /\ GetChainByInstance(v.instance, v.chain)
  /\ IF Obtainable(v.instance, v.chain)
     THEN ready' = ready \cup {v} /\ UNCHANGED missed
     ELSE missed' = v /\ UNCHANGED ready
  /\ UNCHANGED <<current, toCache, partial, removal, manager, broadcaster>>

\* BufferPartialMessage, by the subscription loop.
BufferPartialMessage ==
  /\ missed # None
  /\ partial' = Offer(partial, PartialQueue, missed)
  /\ missed' = None
  /\ UNCHANGED <<current, exchange, removal, manager, ready, broadcaster>>

\* The runner takes a completed vote and validates what could not be before:
\* the chain is the key's, and the vote still matters.
TakeCompleted ==
  /\ completed # <<>>
  /\ waiting = None
  /\ completed' = Tail(completed)
  /\ LET v == Head(completed).vote IN
     ready' = IF Head(completed).chain = v.chain /\ Relevant(v) THEN ready \cup {v} ELSE ready
  /\ UNCHANGED <<current, exchange, missed, partial, removal, buffer, index, task, broadcaster>>

----------------------------------------------------------------------------
(* The manager *)

\* A vote to buffer: the first of its sender stays; the oldest is evicted.
BufferPartial ==
  /\ task = None
  /\ partial # <<>>
  /\ LET v == Head(partial) IN
     /\ buffer' = [buffer EXCEPT ![v.instance] =
                     L!ContainsOrAdd(@, maxBuffMsgPerInstance, v.sender, v.chain)]
     /\ index' = IF L!Has(buffer[v.instance], v.sender) THEN index
               ELSE [index EXCEPT ![v.instance][v.chain] = @ \cup {v.sender}]
  /\ partial' = Tail(partial)
  /\ UNCHANGED <<current, exchange, missed, removal, task, completed, ready, broadcaster>>

MutantWaitingFor(i, c) == UNION {index[i][d] : d \in Chains}

WaitingFor(i, c) == index[i][c]

\* A chain was found: complete the votes that wait for it, if there are any.
TakeDiscovered ==
  /\ task = None
  /\ found # <<>>
  /\ found' = Tail(found)
  /\ LET i == Head(found).instance  c == Head(found).chain IN
     task' = IF WaitingFor(i, c) = {} THEN None
             ELSE [instance |-> i, chain |-> c, left |-> WaitingFor(i, c), full |-> FALSE]
  /\ UNCHANGED <<current, wanted, discovered, toCache, missed, partial, removal,
                 buffer, index, completed, ready, broadcaster>>

Completion(s) == [vote |-> Vote(s, task.instance, L!Peek(buffer[task.instance], s)),
                  chain |-> task.chain]

\* The next of them is sent to the runner, or has been evicted; when there is no
\* room the manager goes to take the oldest out first.
CompleteNext(s) ==
  /\ task # None
  /\ ~task.full
  /\ s \in task.left
  /\ \/ /\ ~L!Has(buffer[task.instance], s)
        /\ task' = [task EXCEPT !.left = @ \ {s}]
        /\ UNCHANGED <<buffer, completed>>
     \/ /\ L!Has(buffer[task.instance], s)
        /\ Len(completed) < CompletedQueue
        /\ completed' = Append(completed, Completion(s))
        /\ buffer' = [buffer EXCEPT ![task.instance] = L!Remove(@, s)]
        /\ task' = [task EXCEPT !.left = @ \ {s}]
     \/ /\ L!Has(buffer[task.instance], s)
        /\ Len(completed) >= CompletedQueue
        /\ task' = [task EXCEPT !.full = TRUE]
        /\ UNCHANGED <<buffer, completed>>
  /\ UNCHANGED <<current, exchange, missed, partial, removal, index, ready, broadcaster>>

\* It takes one out, then has room; it waits if the runner has taken them all.
DropCompleted(s) ==
  /\ task # None
  /\ task.full
  /\ completed # <<>>
  /\ s \in task.left
  /\ L!Has(buffer[task.instance], s)
  /\ completed' = Append(Tail(completed), Completion(s))
  /\ buffer' = [buffer EXCEPT ![task.instance] = L!Remove(@, s)]
  /\ task' = [task EXCEPT !.left = @ \ {s}, !.full = FALSE]
  /\ UNCHANGED <<current, exchange, missed, partial, removal, index, ready, broadcaster>>

MutantUnlisted(i, c) == [index EXCEPT ![i] = [d \in Chains |-> {}]]

Unlisted(i, c) == [index EXCEPT ![i][c] = {}]

Completed ==
  /\ task # None
  /\ task.left = {}
  /\ index' = Unlisted(task.instance, task.chain)
  /\ task' = None
  /\ UNCHANGED <<current, exchange, missed, partial, removal, buffer, completed, ready, broadcaster>>

\* Everything of instances before the one to be kept goes.
RemoveInstances ==
  /\ task = None
  /\ removal # <<>>
  /\ LET i == Head(removal) IN
     /\ buffer' = [j \in Instances |-> IF j < i THEN <<>> ELSE buffer[j]]
     /\ index' = [j \in Instances |-> IF j < i THEN [c \in Chains |-> {}] ELSE index[j]]
     /\ RemoveChainsByInstance(i)
  /\ removal' = Tail(removal)
  /\ UNCHANGED <<current, toCache, found, missed, partial, task, completed, ready,
                 broadcaster>>

----------------------------------------------------------------------------
(* The runner and the chain broadcaster *)

\* The instance decides: the runner asks to remove what is older than it.
Decide ==
  /\ waiting = None
  /\ current + 1 \in Instances
  /\ current' = current + 1
  /\ removal' = IF current > 0 THEN Offer(removal, RemovalQueue, current - 1) ELSE removal
  /\ UNCHANGED <<exchange, missed, partial, manager, ready, broadcaster>>

\* BroadcastChain: send, or take the oldest request out first.
BroadcastChain(c) ==
  /\ waiting = None
  /\ Chain(current, c) \in load.asks
  /\ ~IsZero(c)
  /\ load' = [load EXCEPT !.asks = @ \ {Chain(current, c)}]
  /\ IF Len(toSend) < BroadcastQueue
     THEN toSend' = Append(toSend, Chain(current, c)) /\ UNCHANGED waiting
     ELSE waiting' = Chain(current, c) /\ UNCHANGED toSend
  /\ UNCHANGED <<current, exchange, missed, partial, removal, manager, ready, sending>>

DropBroadcast ==
  /\ waiting # None
  /\ toSend # <<>>
  /\ toSend' = Append(Tail(toSend), waiting)
  /\ waiting' = None
  /\ UNCHANGED <<current, exchange, missed, partial, removal, manager, ready, sending, load>>

\* A later instance, or a chain the current one does not extend.
Switches(p) == sending = None \/ p.instance > sending.instance
            \/ (p.instance = sending.instance /\ ~HasPrefix(sending.chain, p.chain))

\* The first chain of an instance is broadcast at once.
TakeBroadcast ==
  /\ toSend # <<>>
  /\ toSend' = Tail(toSend)
  /\ LET p == Head(toSend) IN
     /\ sending' = IF Switches(p) THEN p ELSE sending
     /\ IF sending = None \/ p.instance > sending.instance THEN Broadcast(p.instance, p.chain)
        ELSE UNCHANGED exchange
  /\ UNCHANGED <<current, missed, partial, removal, manager, ready, waiting, load>>

\* The ticker.
Rebroadcast ==
  /\ sending # None
  /\ Broadcast(sending.instance, sending.chain)
  /\ UNCHANGED <<current, missed, partial, removal, manager, ready, broadcaster>>

OwnChain == CacheAsWantedChain /\ UNCHANGED <<current, missed, partial, removal, manager, ready, broadcaster>>

NetworkChain(i, c) ==
  Chain(i, c) \in load.chains /\ ReceiveChain(i, c) /\ UNCHANGED <<current, missed, partial, removal, manager, ready, broadcaster>>

Next ==
  \/ \E v \in Votes : ReceiveVote(v)
  \/ BufferPartialMessage \/ TakeCompleted
  \/ BufferPartial \/ TakeDiscovered \/ Completed \/ RemoveInstances
  \/ \E s \in Senders : CompleteNext(s) \/ DropCompleted(s)
  \/ Decide \/ DropBroadcast \/ TakeBroadcast \/ Rebroadcast \/ OwnChain
  \/ \E c \in Chains : BroadcastChain(c)
  \/ \E i \in Instances, c \in Chains : NetworkChain(i, c)

\* Senders broadcast their votes again until the instance is over and chains
\* are broadcast on every tick; the subscription loop, the chain broadcaster
\* and a runner that can go on do.
Fairness ==
  /\ \A v \in UNION {l.votes : l \in Loads} : WF_vars(ReceiveVote(v))
  /\ \A n \in UNION {l.chains : l \in Loads} : WF_vars(NetworkChain(n.instance, n.chain))
  /\ WF_vars(BufferPartialMessage)
  /\ WF_vars(TakeBroadcast)
  /\ WF_vars(DropBroadcast)

Spec == Init /\ [][Next]_vars /\ Fairness

----------------------------------------------------------------------------
(* Properties *)

\* Every buffered vote is listed under its chain, over evictions, duplicates,
\* removals and completions: a chain that is found finds all votes that wait.
BufferedAreIndexed ==
  \A i \in Instances : \A j \in DOMAIN buffer[i] :
    buffer[i][j].key \in index[i][buffer[i][j].val]

\* A vote of a sender that votes once is completed with the chain of its key,
\* even when its place in the buffer was taken and given back in between.
CompletedWithItsChain ==
  \A j \in DOMAIN completed :
    Single(completed[j].vote) => completed[j].chain = completed[j].vote.chain

\* Whatever the full queues have dropped, and although an arriving chain
\* completes nothing by itself, a vote that is broadcast again reaches the
\* runner unless its instance is over.
VotesGetThrough ==
  \A v \in UNION {l.votes : l \in Loads} :
    v \in load.votes /\ Relevant(v) ~> v \in ready \/ ~Relevant(v)

=============================================================================
