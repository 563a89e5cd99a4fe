--------------------------- MODULE ExchangeServer ---------------------------
(***************************************************************************)
(* Starting and stopping the certificate exchange server while requests    *)
(* come in.  runningLk is a sync.RWMutex: a waiting writer keeps new       *)
(* readers out, and TryRLock fails instead of waiting.  Each Start makes a *)
(* new context, numbered from 1.  Writers wait for each other first, and   *)
(* only one of them at a time waits for the readers ("draining").          *)
(***************************************************************************)
EXTENDS Naturals, FiniteSets

CONSTANTS
    Starts, Stops,  \* calls of Start and of Stop
    Requests

ASSUME ServerAssumption ==
    /\ IsFiniteSet(Requests) /\ IsFiniteSet(Stops)
    /\ Starts \cap Stops = {}

VARIABLES
    stopFunc,   \* the number of the context it cancels; 0 for nil
    contexts,   \* contexts made so far
    cancelled,  \* contexts that are done
    handler,    \* the context of the stream handler that is set, or 0
    call,       \* where each call is
    request     \* where each request is, and the context of its handler

serverVars == <<stopFunc, contexts, cancelled, handler, call, request>>

Calls == Starts \cup Stops

\* The state of the lock.
Readers == Cardinality({r \in Requests : request[r].at = "serving"})
           + Cardinality({c \in Stops : call[c] = "reading"})
WriterWaits == \E c \in Calls : call[c] = "draining"

ServerInit ==
    /\ stopFunc = 0 /\ contexts = 0 /\ cancelled = {} /\ handler = 0
    /\ call = [c \in Calls |-> "new"]
    /\ request = [r \in Requests |-> [at |-> "new", context |-> 0]]

\* Start and Stop are not called while the other is under way: F3 stops only what has started.
Returned(calls) == \A c \in calls : call[c] \in {"new", "returned"}

Goes(c, to) == call' = [call EXCEPT ![c] = to]

\* RWMutex.Lock: the writer keeps new readers out.
Lock(c) ==
    /\ call[c] = "locking" /\ ~WriterWaits /\ Goes(c, "draining")
    /\ UNCHANGED <<stopFunc, contexts, cancelled, handler, request>>

\* The call asks for the write lock.
CallStart(c) ==
    /\ call[c] = "new" /\ Returned(Stops) /\ Goes(c, "locking")
    /\ UNCHANGED <<stopFunc, contexts, cancelled, handler, request>>

\* Server.Start with the write lock; it fails when the server runs.
Start(c) ==
    /\ call[c] = "draining" /\ Readers = 0
    /\ IF stopFunc # 0 THEN UNCHANGED <<stopFunc, contexts, handler>>
       ELSE /\ contexts' = contexts + 1
            /\ stopFunc' = contexts + 1 /\ handler' = contexts + 1
    /\ Goes(c, "returned")
    /\ UNCHANGED <<cancelled, request>>

\* Server.Stop takes the read lock and cancels the context.
Cancel(c) ==
    /\ call[c] = "new" /\ Returned(Starts) /\ ~WriterWaits
    /\ cancelled' = IF stopFunc = 0 THEN cancelled ELSE cancelled \cup {stopFunc}
    /\ Goes(c, "reading")
    /\ UNCHANGED <<stopFunc, contexts, handler, request>>

\* Mutant: the read lock is kept until Stop returns.
MutantUnlock(c) == FALSE

\* It gives the read lock back and asks for the write lock.
Unlock(c) ==
    /\ call[c] = "reading" /\ Goes(c, "locking")
    /\ UNCHANGED <<stopFunc, contexts, cancelled, handler, request>>

\* With the write lock no request is being served.
Stop(c) ==
    /\ call[c] = "draining" /\ Readers = 0
    /\ stopFunc' = 0 /\ handler' = IF stopFunc = 0 THEN handler ELSE 0
    /\ Goes(c, "returned")
    /\ UNCHANGED <<contexts, cancelled, request>>

\* A stream is opened: libp2p calls the handler that is set.
Open(r) ==
    /\ request[r].at = "new" /\ handler # 0
    /\ request' = [request EXCEPT ![r] = [at |-> "opened", context |-> handler]]
    /\ UNCHANGED <<stopFunc, contexts, cancelled, handler, call>>

\* Mutant: the context is not checked with the lock held.
MutantAdmits(context) == ~WriterWaits

Admits(context) == ~WriterWaits /\ context \notin cancelled

\* The handler: reset when the lock or the context is not to be had.
Handle(r) ==
    /\ request[r].at = "opened"
    /\ request' = [request EXCEPT ![r].at = IF Admits(request[r].context) THEN "serving" ELSE "closed"]
    /\ UNCHANGED <<stopFunc, contexts, cancelled, handler, call>>

\* handleRequest returns: served, failed, reset, or over its deadline.
Served(r) ==
    /\ request[r].at = "serving"
    /\ request' = [request EXCEPT ![r].at = "closed"]
    /\ UNCHANGED <<stopFunc, contexts, cancelled, handler, call>>

ServerStep ==
    \/ \E c \in Calls : Lock(c)
    \/ \E c \in Starts : Start(c)
    \/ \E c \in Stops : Unlock(c) \/ Stop(c)
    \/ \E r \in Requests : Handle(r) \/ Served(r)

ServerFairness ==
    /\ \A c \in Starts : WF_serverVars(Lock(c) \/ Start(c))
    /\ \A c \in Stops : WF_serverVars(Unlock(c) \/ Lock(c) \/ Stop(c))
    /\ \A r \in Requests : WF_serverVars(Handle(r) \/ Served(r))

ServerNext ==
    \/ \E c \in Starts : CallStart(c)
    \/ \E c \in Stops : Cancel(c)
    \/ \E r \in Requests : Open(r)
    \/ ServerStep

ServerSpec == ServerInit /\ [][ServerNext]_serverVars

-----------------------------------------------------------------------------
(***************************************************************************)
(* A request is only served under the context of the server that runs:     *)
(* once Stop has returned no handler is left, and one that was opened      *)
(* before is not served by the server started next.                        *)
(***************************************************************************)
ServedWhileRunning ==
    \A r \in Requests : request[r].at = "serving" => stopFunc = request[r].context

(***************************************************************************)
(* Start and Stop return once they wait for the lock, whatever requests    *)
(* and other calls are under way.                                          *)
(***************************************************************************)
CallsReturn == <>[](\A c \in Calls : call[c] \in {"new", "returned"})

=============================================================================
