---------------------------- MODULE CertPolling ----------------------------
(***************************************************************************)
(* Fetching certificates from peers (certexchange/server.go, client.go,    *)
(* polling/poller.go, polling/subscriber.go).  The subscriber wakes up,    *)
(* asks the peers its tracker suggests one after the other, validates each *)
(* certificate with the power table it has got to, and stores it; the      *)
(* node's own instance stores certificates at the same time.  Peers fail,  *)
(* answer late, stop in the middle, or answer what they should not.        *)
(*                                                                         *)
(* A certificate is its instance and whether its signature is valid; a     *)
(* power table is the instance it is the table of.                         *)
(***************************************************************************)
EXTENDS PeerTracker

CONSTANTS Peers,
          Down,              \* peers that never answer
          MaxInstance,       \* bound: the network's certificates
          MaxFaults,         \* bound: answers that are cut, wrong or lost
          maxRequestLength, maxResponseLen,
          Width,             \* 2^Width is where uint64 wraps
          None

VARIABLES
  store,       \* the certificates of the node's store, from instance 0 on
  NextInstance, PowerTable,  \* the poller's
  height,      \* per peer, its pending instance
  tracker,
  phase,       \* idle, polling, or exited with an error
  todo,        \* peers still to be asked in this round
  reply,       \* the answer being read: header and certificates
  res,         \* the poller's result for the peer being asked
  round,       \* what the subscriber has learnt in this round
  faults

poller == <<NextInstance, PowerTable>>
vars == <<store, poller, height, tracker, phase, todo, reply, res, round, faults>>

Cert(i, valid) == [instance |-> i, valid |-> valid]

NoResult == [status |-> "miss", received |-> 0]
NewRound(start) == [start |-> start, hits |-> {}, misses |-> {}, received |-> 0]

\* The table a store of n certificates has for instance n.
NewPoller(n) == NextInstance = n /\ PowerTable = n

Init ==
  /\ \E n \in 0..MaxInstance : store = [i \in 1..n |-> Cert(i - 1, TRUE)] /\ NewPoller(n)
  /\ height = [p \in Peers |-> 0]
  /\ tracker = newPeerTracker
  /\ phase = "idle"
  /\ todo = <<>>
  /\ reply = None
  /\ res = NoResult
  /\ round = NewRound(0)
  /\ faults = 0

----------------------------------------------------------------------------
(* Around the node *)

\* The store takes only the next certificate; earlier ones are there already.
Put(c) == store' = IF c.instance = Len(store) THEN Append(store, c) ELSE store

\* The node's own instance decides and stores, at any time.
DecideLocally ==
  /\ Len(store) < MaxInstance
  /\ Put(Cert(Len(store), TRUE))
  /\ UNCHANGED <<poller, height, tracker, phase, todo, reply, res, round, faults>>

PeerAdvances(p) ==
  /\ p \notin Down /\ height[p] < MaxInstance
  /\ height' = [height EXCEPT ![p] = @ + 1]
  /\ UNCHANGED <<store, poller, tracker, phase, todo, reply, res, round, faults>>

\* Discovery; the subscriber looks at its channel between rounds.
PeerSeen(p) ==
  /\ phase = "idle"
  /\ p \notin Tracked(tracker)
  /\ \E t \in peerSeen(tracker, p) : tracker' = t
  /\ UNCHANGED <<store, poller, height, phase, todo, reply, res, round, faults>>

----------------------------------------------------------------------------
(* Server and client *)

\* handleRequest: what a peer sends after its header.  The range it reads
\* includes its end, so it may send one more than was asked for.
Served(p, first, limit) ==
  LET last == Min({first + Min({limit, maxResponseLen}), height[p] - 1})
  IN  IF height[p] > first THEN [n \in 1..(last - first + 1) |-> Cert(first + n - 1, TRUE)]
      ELSE <<>>

\* Request: at most as many as asked for, and only while they are in order.
Accepted(s, first, limit) ==
  LET wrong == {n \in DOMAIN s : s[n].instance # first + n - 1} IN
  SubSeq(s, 1, Min({Len(s), limit} \cup {n - 1 : n \in wrong}))

Answer(pending, s) ==
  [pending |-> pending, certs |-> Accepted(s, NextInstance', maxRequestLength)]

\* Answers no correct peer gives: an invalid certificate, a later one, none
\* although more are claimed.
Wrong == {Answer(NextInstance' + 1, <<Cert(NextInstance', FALSE)>>),
          Answer(NextInstance' + 2, <<Cert(NextInstance' + 1, TRUE)>>),
          Answer(NextInstance' + 1, <<>>)}

----------------------------------------------------------------------------
(* The poller *)

MutantCatchUp ==
  /\ NextInstance' = Len(store)
  /\ UNCHANGED PowerTable

\* CatchUp: to what the node's own instance has stored.
CatchUp ==
  /\ NextInstance' = Len(store)
  /\ PowerTable' = IF Len(store) = NextInstance THEN PowerTable ELSE Len(store)

\* A peer that is caught up with the node is a hit.
Header == IF reply'.pending >= NextInstance' THEN [res EXCEPT !.status = "hit"] ELSE res

\* Poll sends a request, and gets an answer or nothing.
Request ==
  /\ phase = "polling" /\ todo # <<>> /\ reply = None
  /\ res.status # "failed"
  /\ CatchUp
  /\ LET p == Head(todo) IN
     \/ /\ p \notin Down
        /\ reply' = Answer(height[p], Served(p, NextInstance', maxRequestLength))
        /\ res' = Header
        /\ UNCHANGED faults
     \/ /\ p \notin Down
        /\ faults < MaxFaults
        /\ faults' = faults + 1
        /\ reply' \in Wrong
        /\ res' = Header
     \/ /\ p \in Down \/ faults < MaxFaults
        /\ faults' = IF p \in Down THEN faults ELSE faults + 1
        /\ res' = [res EXCEPT !.status = "failed"]
        /\ UNCHANGED reply
  /\ UNCHANGED <<store, height, tracker, phase, todo, round>>

MutantValid(c) == c.instance = NextInstance

\* ValidateFinalityCertificates, for one certificate.
Valid(c) == c.instance = NextInstance /\ c.valid /\ PowerTable = c.instance

Advance == NextInstance' = NextInstance + 1 /\ PowerTable' = PowerTable + 1

\* The next certificate: valid ones are stored unless they are there by now, the
\* first that is not ends the poll.
ReadCertificate ==
  /\ phase = "polling" /\ reply # None
  /\ reply.certs # <<>> /\ res.status # "illegal"
  /\ LET c == Head(reply.certs)  new == c.instance >= Len(store) IN
     \/ /\ ~Valid(c)
        /\ res' = [res EXCEPT !.status = "illegal"]
        /\ reply' = [reply EXCEPT !.certs = <<>>]
        /\ UNCHANGED <<store, poller, phase>>
     \/ /\ Valid(c)
        /\ IF new THEN Put(c) ELSE UNCHANGED store
        /\ phase' = IF new /\ c.instance > Len(store) THEN "exited" ELSE phase
        /\ res' = [res EXCEPT !.received = @ + 1]
        /\ reply' = [reply EXCEPT !.certs = Tail(@)]
        /\ Advance
  /\ UNCHANGED <<height, tracker, todo, round, faults>>

\* The connection breaks while the certificates are read.
CutOff ==
  /\ phase = "polling" /\ reply # None
  /\ reply.certs # <<>>
  /\ faults < MaxFaults
  /\ faults' = faults + 1
  /\ reply' = [reply EXCEPT !.certs = <<>>]
  /\ UNCHANGED <<store, poller, height, tracker, phase, todo, res, round>>

\* All of the answer is read; ask again if the peer claims to have more and has
\* given something so far.
EndOfAnswer ==
  /\ phase = "polling" /\ reply # None
  /\ reply.certs = <<>>
  /\ reply' = None
  /\ IF res.status = "illegal" \/ reply.pending <= NextInstance
     THEN phase' = "polled" /\ UNCHANGED res
     ELSE IF res.received = 0 THEN phase' = "polled" /\ res' = [res EXCEPT !.status = "failed"]
     ELSE UNCHANGED <<phase, res>>
  /\ UNCHANGED <<store, poller, height, tracker, todo, round, faults>>

----------------------------------------------------------------------------
(* The subscriber *)

\* The timer fires: catch up locally, and ask peers if there was nothing.
Wake ==
  /\ phase = "idle"
  /\ CatchUp
  /\ IF Len(store) # NextInstance
     THEN UNCHANGED <<tracker, phase, todo, round>>
     ELSE \E t \in NextRounds(tracker) : \E s \in Suggested(t) :
            /\ tracker' = t
            /\ todo' = s
            /\ phase' = "polling"
            /\ round' = NewRound(NextInstance)
  /\ UNCHANGED <<store, height, reply, res, faults>>

\* The result for one peer.  If it has given certificates, those before it that
\* seemed to be caught up were not.
PeerPolled ==
  /\ phase = "polled" \/ (phase = "polling" /\ res.status = "failed" /\ reply = None)
  /\ LET p == Head(todo)
         old == IF res.received > 0 THEN round.hits ELSE {}
     IN /\ round' = [round EXCEPT !.received = @ + res.received,
                       !.hits = (@ \ old) \cup (IF res.status = "hit" THEN {p} ELSE {}),
                       !.misses = @ \cup old \cup (IF res.status = "miss" THEN {p} ELSE {})]
        /\ tracker' = CASE res.status = "failed" -> recordFailure(tracker, p)
                        [] res.status = "illegal" -> recordInvalid(tracker, p)
                        [] OTHER -> tracker
  /\ todo' = Tail(todo)
  /\ phase' = "polling"
  /\ res' = NoResult
  /\ UNCHANGED <<store, poller, height, reply, faults>>

\* What poll returns, as an unsigned integer.
Progress == (round.start - NextInstance) % 2 ^ Width

\* Every peer was asked.
RoundOver ==
  /\ phase = "polling" /\ todo = <<>>
  /\ phase' = "idle"
  /\ tracker' = IF round.received = 0 THEN tracker
                ELSE FoldSet(LAMBDA p, t : recordHit(t, p),
                       FoldSet(LAMBDA p, t : recordMiss(t, p), tracker, round.misses), round.hits)
  /\ round' = NewRound(0)
  /\ UNCHANGED <<store, poller, height, todo, reply, res, faults>>

Next ==
  \/ DecideLocally
  \/ \E p \in Peers : PeerAdvances(p) \/ PeerSeen(p)
  \/ Wake \/ Request \/ ReadCertificate \/ CutOff \/ EndOfAnswer \/ PeerPolled \/ RoundOver

\* The subscriber's loop goes on; requests have deadlines.
Fairness == WF_vars(Wake \/ Request \/ ReadCertificate \/ EndOfAnswer \/ PeerPolled \/ RoundOver)

Spec == Init /\ [][Next]_vars /\ Fairness

----------------------------------------------------------------------------
(* Properties *)

\* The store holds valid certificates in order, one per instance, and the poller
\* validates with the power table of the instance it has got to, never beyond
\* the store: however local decisions and answers interleave.
ValidatedInOrder ==
  /\ \A n \in DOMAIN store : store[n] = Cert(n - 1, TRUE)
  /\ NextInstance <= Len(store)
  /\ PowerTable = NextInstance

\* A peer whose certificate was not the next one is not taken for one that sent
\* an illegal certificate unless it did: correct peers are never cast out.
CorrectNeverEvil ==
  \A p \in Tracked(tracker) : faults = 0 => tracker.rec[p].state # peerEvil

\* No peer is lost: one that is known and has not misbehaved is active, once, or
\* waits for a round to come back in.
PeersComeBack ==
  LET active == Range(tracker.active) IN
  /\ IsInjective(tracker.active)
  /\ \A p \in Tracked(tracker) :
       \/ tracker.rec[p].state = peerEvil
       \/ p \in active
       \/ \E b \in tracker.backoff : b.peer = p
  /\ active \cup {b.peer : b \in tracker.backoff} \subseteq Tracked(tracker)

\* A peer that has everything and stays known is enough: whatever the others
\* do, the store gets all certificates.
CatchesUp ==
  \A p \in Peers \ Down :
    <>[](height[p] = MaxInstance /\ p \in Tracked(tracker) /\ tracker.rec[p].state # peerEvil)
      => <>(Len(store) = MaxInstance)

\* Returns "the total progress made" (certexchange/polling/subscriber.go:146): the
\* instances the poller has advanced by in the round.
ProgressIsCounted ==
  [][phase = "polling" /\ phase' = "idle" => Progress = NextInstance - round.start]_vars
=============================================================================
