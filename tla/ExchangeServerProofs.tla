------------------------ MODULE ExchangeServerProofs ------------------------
(***************************************************************************)
(* Stopping the certificate exchange server, for any number of calls and   *)
(* requests.  The lock alone does not suffice: a handler may have been     *)
(* called before Stop and look at its context after, so the argument needs *)
(* that the context of every handler but the current one is done, and that *)
(* Stop has cancelled it before it waits for the write lock.               *)
(***************************************************************************)
EXTENDS ExchangeServer, FiniteSetTheorems, TLAPS

CallStates == {"new", "reading", "locking", "draining", "returned"}
RequestStates == {"new", "opened", "serving", "closed"}

ServerTypeOK ==
    /\ stopFunc \in Nat /\ contexts \in Nat
    /\ handler = stopFunc /\ stopFunc <= contexts
    /\ call \in [Calls -> CallStates]
    /\ request \in [Requests -> [at : RequestStates, context : Nat]]

Active(c) == call[c] \in {"reading", "locking", "draining"}

ServerInv ==
    /\ ServerTypeOK
    \* Start and Stop are not under way together
    /\ \A c \in Starts, d \in Stops : ~(Active(c) /\ Active(d))
    \* a Stop that is under way has cancelled what runs
    /\ \A d \in Stops : Active(d) => stopFunc = 0 \/ stopFunc \in cancelled
    \* a handler has the current context, or one that is done
    /\ \A r \in Requests : request[r].at # "new" =>
          /\ request[r].context \in 1..contexts
          /\ request[r].context = stopFunc \/ request[r].context \in cancelled
    /\ ServedWhileRunning

\* With the write lock there is no reader.
LEMMA NoReaders ==
    ASSUME Readers = 0
    PROVE  \A r \in Requests : request[r].at # "serving"
<1> DEFINE S == {r \in Requests : request[r].at = "serving"}
           D == {c \in Stops : call[c] = "reading"}
<1>1. IsFiniteSet(S) /\ IsFiniteSet(D)
  BY ServerAssumption, FS_Subset
<1>2. Cardinality(S) \in Nat /\ Cardinality(D) \in Nat
  BY <1>1, FS_CardinalityType
<1>3. Cardinality(S) = 0
  BY <1>2 DEF Readers
<1>4. S = {}
  BY <1>1, <1>3, FS_EmptySet
<1> QED BY <1>4

LEMMA InitInv == ServerInit => ServerInv
<1> SUFFICES ASSUME ServerInit PROVE ServerInv
  OBVIOUS
<1>1. \A r \in Requests : request[r].at = "new"
  BY DEF ServerInit
<1>2. \A c \in Calls : call[c] = "new"
  BY DEF ServerInit
<1>3. ServerTypeOK
  BY DEF ServerInit, ServerTypeOK, CallStates, RequestStates
<1>4. ServedWhileRunning
  BY <1>1 DEF ServedWhileRunning
<1> QED BY <1>1, <1>2, <1>3, <1>4 DEF ServerInv, Active, Calls

\* Steps that only move a call: asking for the lock, waiting for the readers.
LEMMA MovesKeep ==
    ASSUME ServerInv, NEW c \in Calls, NEW to \in CallStates, Goes(c, to),
           UNCHANGED <<stopFunc, contexts, cancelled, handler, request>>,
           Active(c) \/ to = "returned" \/ (c \in Starts /\ Returned(Stops))
    PROVE  ServerInv'
<1>1. ServerTypeOK'
  BY DEF ServerInv, ServerTypeOK, Goes
<1>2. call \in [Calls -> CallStates] /\ call' = [call EXCEPT ![c] = to]
  BY DEF ServerInv, ServerTypeOK, Goes
<1>3. ASSUME NEW a \in Starts, NEW d \in Stops, Active(a)', Active(d)' PROVE FALSE
  BY <1>2, <1>3, ServerAssumption DEF ServerInv, Active, Calls, Returned
<1>4. ASSUME NEW d \in Stops, Active(d)' PROVE stopFunc' = 0 \/ stopFunc' \in cancelled'
  BY <1>2, <1>4, ServerAssumption DEF ServerInv, Active, Calls
<1>5. ServedWhileRunning'
  BY DEF ServerInv, ServedWhileRunning
<1> QED BY <1>1, <1>3, <1>4, <1>5 DEF ServerInv

LEMMA StartKeeps ==
    ASSUME ServerInv, NEW c \in Starts, Start(c)
    PROVE  ServerInv'
<1>1. call \in [Calls -> CallStates] /\ call' = [call EXCEPT ![c] = "returned"] /\ c \in Calls
  BY DEF ServerInv, ServerTypeOK, Start, Goes, Calls
<1>2. \A r \in Requests : request[r].at # "serving"
  BY NoReaders DEF Start
<1>3. Active(c)
  BY DEF Start, Active
<1>4. \A d \in Stops : ~Active(d)
  BY <1>3 DEF ServerInv
<1>5. \A d \in Stops : ~Active(d)'
  BY <1>1, <1>4, ServerAssumption DEF Active, Calls
<1>6. ServerTypeOK'
  <2>1. CASE stopFunc # 0
    BY <2>1, <1>1 DEF ServerInv, ServerTypeOK, Start, CallStates
  <2>2. CASE stopFunc = 0
    BY <2>2, <1>1 DEF ServerInv, ServerTypeOK, Start, CallStates
  <2> QED BY <2>1, <2>2
<1>7. ASSUME NEW r \in Requests, request'[r].at # "new"
      PROVE  /\ request'[r].context \in 1..contexts'
             /\ request'[r].context = stopFunc' \/ request'[r].context \in cancelled'
  <2>1. /\ request' = request /\ cancelled' = cancelled
        /\ contexts \in Nat /\ contexts' \in {contexts, contexts + 1}
        /\ stopFunc' = stopFunc \/ stopFunc = 0
    BY DEF Start, ServerInv, ServerTypeOK
  <2>2. /\ request[r].context \in 1..contexts
        /\ request[r].context = stopFunc \/ request[r].context \in cancelled
    BY <1>7, <2>1 DEF ServerInv
  <2> QED BY <2>1, <2>2
<1>8. ServedWhileRunning'
  BY <1>2 DEF ServedWhileRunning, Start
<1> QED BY <1>5, <1>6, <1>7, <1>8 DEF ServerInv

LEMMA CancelKeeps ==
    ASSUME ServerInv, NEW c \in Stops, Cancel(c)
    PROVE  ServerInv'
<1>1. call \in [Calls -> CallStates] /\ call' = [call EXCEPT ![c] = "reading"] /\ c \in Calls
  BY DEF ServerInv, ServerTypeOK, Cancel, Goes, Calls
<1>2. ServerTypeOK'
  BY <1>1 DEF ServerInv, ServerTypeOK, Cancel, CallStates
<1>3. \A a \in Starts : ~Active(a)'
  BY <1>1, ServerAssumption DEF Cancel, Returned, Active, Calls
<1>4. stopFunc' = stopFunc /\ cancelled \subseteq cancelled' /\ (stopFunc = 0 \/ stopFunc \in cancelled')
  BY DEF Cancel
<1>5. request' = request /\ contexts' = contexts
  BY DEF Cancel
<1>6. ServedWhileRunning'
  BY <1>4, <1>5 DEF ServerInv, ServedWhileRunning
<1>7. ASSUME NEW r \in Requests, request'[r].at # "new"
      PROVE  /\ request'[r].context \in 1..contexts'
             /\ request'[r].context = stopFunc' \/ request'[r].context \in cancelled'
  BY <1>4, <1>5, <1>7 DEF ServerInv
<1> QED BY <1>2, <1>3, <1>4, <1>6, <1>7 DEF ServerInv

LEMMA StopKeeps ==
    ASSUME ServerInv, NEW c \in Stops, Stop(c)
    PROVE  ServerInv'
<1>1. call \in [Calls -> CallStates] /\ call' = [call EXCEPT ![c] = "returned"] /\ c \in Calls
  BY DEF ServerInv, ServerTypeOK, Stop, Goes, Calls
<1>2. \A r \in Requests : request[r].at # "serving"
  BY NoReaders DEF Stop
<1>3. stopFunc = 0 \/ stopFunc \in cancelled
  BY DEF ServerInv, Stop, Active
<1>4. ServerTypeOK'
  BY <1>1 DEF ServerInv, ServerTypeOK, Stop, CallStates
<1>5. ASSUME NEW a \in Starts, NEW d \in Stops, Active(a)', Active(d)' PROVE FALSE
  BY <1>1, <1>5, ServerAssumption DEF ServerInv, Active, Calls
<1>6. stopFunc' = 0 /\ request' = request /\ cancelled' = cancelled /\ contexts' = contexts
  BY DEF Stop
<1>7. ASSUME NEW r \in Requests, request'[r].at # "new"
      PROVE  /\ request'[r].context \in 1..contexts'
             /\ request'[r].context = stopFunc' \/ request'[r].context \in cancelled'
  BY <1>3, <1>6, <1>7 DEF ServerInv
<1>8. ServedWhileRunning'
  BY <1>2, <1>6 DEF ServedWhileRunning
<1> QED BY <1>4, <1>5, <1>6, <1>7, <1>8 DEF ServerInv

LEMMA RequestKeeps ==
    ASSUME ServerInv, NEW r \in Requests, Open(r) \/ Handle(r) \/ Served(r)
    PROVE  ServerInv'
<1>1. UNCHANGED <<stopFunc, contexts, cancelled, handler, call>>
  BY DEF Open, Handle, Served
<1>2. request \in [Requests -> [at : RequestStates, context : Nat]]
      /\ stopFunc \in Nat /\ contexts \in Nat /\ stopFunc <= contexts /\ handler = stopFunc
  BY DEF ServerInv, ServerTypeOK
<1> DEFINE Request == [at : RequestStates, context : Nat]
<1>3. /\ request' \in [Requests -> Request]
      /\ \A q \in Requests \ {r} : request'[q] = request[q]
      /\ request'[r].context \in 1..contexts
      /\ request'[r].context = stopFunc \/ request'[r].context \in cancelled
      /\ request'[r].at = "serving" => request'[r].context = stopFunc
  <2>1. CASE Open(r)
    <3>1. [at |-> "opened", context |-> handler] \in Request
      BY <1>2 DEF RequestStates
    <3>2. request' = [request EXCEPT ![r] = [at |-> "opened", context |-> handler]] /\ handler # 0
      BY <2>1 DEF Open
    <3>3. request'[r].at = "opened" /\ request'[r].context = handler
      BY <3>2, <1>2
    <3> QED BY <3>1, <3>2, <3>3, <1>2
  <2>2. ASSUME NEW to \in RequestStates,
               request' = [request EXCEPT ![r].at = to],
               request[r].at # "new",
               to = "serving" => request[r].context = stopFunc
        PROVE  <1>3!:
    <3>1. [request[r] EXCEPT !.at = to] \in Request
      BY <1>2
    <3>2. request'[r].at = to /\ request'[r].context = request[r].context
      BY <2>2, <1>2
    <3>3. /\ request[r].context \in 1..contexts
          /\ request[r].context = stopFunc \/ request[r].context \in cancelled
      BY <2>2 DEF ServerInv
    <3> QED BY <2>2, <3>1, <3>2, <3>3, <1>2
  <2>3. CASE Handle(r)
    <3>1. request[r].at = "opened"
      BY <2>3 DEF Handle
    <3>2. request[r].context = stopFunc \/ request[r].context \in cancelled
      BY <3>1 DEF ServerInv
    <3>3. CASE Admits(request[r].context)
      <4>1. request' = [request EXCEPT ![r].at = "serving"]
        BY <2>3, <3>3 DEF Handle
      <4>2. request[r].context = stopFunc
        BY <3>2, <3>3 DEF Admits
      <4> QED BY <4>1, <4>2, <3>1, <2>2 DEF RequestStates
    <3>4. CASE ~Admits(request[r].context)
      <4>1. request' = [request EXCEPT ![r].at = "closed"]
        BY <2>3, <3>4 DEF Handle
      <4> QED BY <4>1, <3>1, <2>2 DEF RequestStates
    <3> QED BY <3>3, <3>4
  <2>4. CASE Served(r)
    BY <2>4, <2>2 DEF Served, RequestStates
  <2> QED BY <2>1, <2>3, <2>4
<1>4. ServerTypeOK'
  BY <1>1, <1>2, <1>3 DEF ServerInv, ServerTypeOK
<1>5. ASSUME NEW q \in Requests, request'[q].at # "new"
      PROVE  /\ request'[q].context \in 1..contexts'
             /\ request'[q].context = stopFunc' \/ request'[q].context \in cancelled'
  BY <1>1, <1>2, <1>3, <1>5 DEF ServerInv
<1>6. ServedWhileRunning'
  BY <1>1, <1>2, <1>3 DEF ServerInv, ServedWhileRunning
<1>7. /\ \A c \in Starts, d \in Stops : ~(Active(c)' /\ Active(d)')
      /\ \A d \in Stops : Active(d)' => stopFunc' = 0 \/ stopFunc' \in cancelled'
  BY <1>1 DEF ServerInv, Active
<1> QED BY <1>4, <1>5, <1>6, <1>7 DEF ServerInv

(***************************************************************************)
(* For any number of requests, of concurrent Stops and of restarts: a      *)
(* request is served only under the context of the server that runs, so    *)
(* none is left when Stop returns.                                         *)
(***************************************************************************)
THEOREM ServedWhileRunningThm == ServerSpec => []ServedWhileRunning
<1>1. ServerInv /\ [ServerNext]_serverVars => ServerInv'
  <2> SUFFICES ASSUME ServerInv, [ServerNext]_serverVars PROVE ServerInv'
    OBVIOUS
  <2>1. ASSUME NEW c \in Calls, Lock(c) PROVE ServerInv'
    BY <2>1, MovesKeep DEF Lock, Active, CallStates
  <2>2. ASSUME NEW c \in Starts, CallStart(c) PROVE ServerInv'
    BY <2>2, MovesKeep DEF CallStart, Calls, CallStates
  <2>3. ASSUME NEW c \in Stops, Unlock(c) PROVE ServerInv'
    BY <2>3, MovesKeep DEF Unlock, Active, Calls, CallStates
  <2>4. CASE UNCHANGED serverVars
    BY <2>4 DEF serverVars, ServerInv, ServerTypeOK, Active, ServedWhileRunning
  <2> QED BY <2>1, <2>2, <2>3, <2>4, StartKeeps, CancelKeeps, StopKeeps, RequestKeeps
          DEF ServerNext, ServerStep
<1>2. ServerInv => ServedWhileRunning
  BY DEF ServerInv
<1> QED BY InitInv, <1>1, <1>2, PTL DEF ServerSpec

=============================================================================
