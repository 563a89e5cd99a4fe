---------------------------- MODULE F3Lifecycle ----------------------------
(***************************************************************************)
(* Starting and stopping F3 (f3.go, store.go): at once or, before the      *)
(* bootstrap epoch, by a goroutine that looks again and again; parts start *)
(* one after the other and F3 is published when all have; Stop may come at *)
(* any time, and so may the end of the process.  Composed with the power   *)
(* store, whose memory lives as long as F3 runs.                           *)
(***************************************************************************)
EXTENDS PowerStore

CONSTANT MaxRestarts   \* bound

VARIABLES
  starting,   \* off, waiting, opening, starting, done, failed
  parts,      \* started and not stopped
  published,  \* m.state is set
  cancelled,  \* runningCtx is cancelled
  restarts

lifecycle == <<starting, parts, published, cancelled, restarts>>
vars == <<powerVars, lifecycle>>

Parts == <<"ps", "certsub", "certserv", "runner">>
Running(p) == p \in parts

Init ==
  /\ InitPower
  /\ starting = "off"
  /\ parts = {}
  /\ published = FALSE
  /\ cancelled = FALSE
  /\ restarts = 0

Fault == faults < MaxFaults /\ faults' = faults + 1

\* computeBootstrapDelay is not zero.
Delayed == head < BootstrapEpoch

\* Start: fails when EC's head cannot be read.
Start ==
  /\ starting = "off"
  /\ ~cancelled
  /\ starting' = IF Delayed THEN "waiting" ELSE "opening"
  /\ UNCHANGED <<powerVars, parts, published, cancelled, restarts>>

MutantRetry == starting' = "failed" /\ UNCHANGED faults

Retry == starting' = "waiting" /\ UNCHANGED faults

\* The goroutine of a delayed start; it gives up when the head cannot be read.
TimerFires ==
  /\ starting = "waiting"
  /\ \/ cancelled /\ starting' = "failed" /\ UNCHANGED faults
     \/ ~cancelled /\ Delayed /\ Retry
     \/ ~cancelled /\ ~Delayed /\ starting' = "opening" /\ UNCHANGED faults
     \/ ~cancelled /\ Fault /\ starting' = "failed"
  /\ UNCHANGED <<head, certs, diffs, memory, sinceTick, parts, published, cancelled, restarts>>

\* startInternal opens the stores and makes the parts.
Open ==
  /\ starting = "opening"
  /\ \/ starting' = "starting" /\ NewMemory /\ UNCHANGED faults
     \/ Fault /\ starting' = "failed" /\ UNCHANGED memory
  /\ UNCHANGED <<head, certs, diffs, sinceTick, parts, published, cancelled, restarts>>

\* The parts in their order; after an error those started stay.
StartPart ==
  /\ starting = "starting"
  /\ \E n \in DOMAIN Parts :
       /\ parts = {Parts[k] : k \in 1..(n - 1)}
       /\ \/ parts' = parts \cup {Parts[n]} /\ UNCHANGED <<starting, faults>>
          \/ Fault /\ starting' = "failed" /\ UNCHANGED parts
  /\ UNCHANGED <<head, certs, diffs, memory, sinceTick, published, cancelled, restarts>>

Started == parts = Range(Parts)

Publish ==
  /\ starting = "starting"
  /\ Started
  /\ published' = TRUE
  /\ starting' = "done"
  /\ UNCHANGED <<powerVars, parts, cancelled, restarts>>

\* Stop: what has been published is stopped.
Stop ==
  /\ ~cancelled
  /\ cancelled' = TRUE
  /\ published' = FALSE
  /\ parts' = IF published THEN {} ELSE parts
  /\ UNCHANGED <<powerVars, starting, restarts>>

\* The process ends and another one begins.
Restart ==
  /\ restarts < MaxRestarts
  /\ restarts' = restarts + 1
  /\ starting' = "off"
  /\ parts' = {}
  /\ published' = FALSE
  /\ cancelled' = FALSE
  /\ NewMemory
  /\ UNCHANGED <<head, certs, diffs, sinceTick, faults>>

\* What the running parts do.
PowerStoreTick == Running("ps") /\ Tick /\ UNCHANGED lifecycle
Certify == (Running("runner") \/ Running("certsub")) /\ (\E e \in Epochs : Finalize(e)) /\ UNCHANGED lifecycle
Epoch == HeadAdvances /\ UNCHANGED lifecycle

Next == Start \/ TimerFires \/ Open \/ StartPart \/ Publish \/ Stop \/ Restart
     \/ PowerStoreTick \/ Certify \/ Epoch

\* Whoever uses F3 starts it, the start goes on, and EC grows.
Fairness ==
  /\ WF_vars(Start) /\ WF_vars(TimerFires) /\ WF_vars(Open) /\ WF_vars(StartPart) /\ WF_vars(Publish)
  /\ WF_vars(Epoch)

Spec == Init /\ [][Next]_vars /\ Fairness

----------------------------------------------------------------------------
(* Properties *)

\* F3 gets started, however long before the bootstrap epoch it was asked to,
\* unless it is stopped or something has failed.
GetsStarted == <>(published \/ cancelled \/ faults > 0)
=============================================================================
