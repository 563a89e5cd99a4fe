--------------------------- MODULE SelfBroadcast ---------------------------
(***************************************************************************)
(* A node's own broadcasts: gpbftRunner.BroadcastMessage with the          *)
(* self-equivocation filter and the write-ahead log, across crashes.       *)
(*                                                                         *)
(* A message is signed outside the runner and handed in by F3.Broadcast,   *)
(* possibly late and by several goroutines at once; it passes the filter,  *)
(* is appended to the log, and is published.  After a restart the filter   *)
(* and the messages to rebroadcast are rebuilt from the log.               *)
(*                                                                         *)
(* ProcessReceive is called by nothing outside the tests, so every origin  *)
(* in the filter is the local peer and activeSenders never reports an      *)
(* equivocation; both are left out.                                        *)
(***************************************************************************)
EXTENDS Integers, Sequences

CONSTANTS
    Slots,        \* what an equivocationKey tells apart: sender, round, phase
    Signatures,   \* what can be signed in a slot
    MaxInstance,  \* bound on certificates
    keepInstancesInWAL,
    RotateAt,     \* messages after which a log file is over its size limit
    MaxFailures,  \* bound on failed appends
    MaxRestarts   \* bound on restarts

ASSUME KeepAssumption == keepInstancesInWAL \in Nat

ASSUME BoundsAssumption == {MaxInstance, RotateAt, MaxFailures, MaxRestarts} \subseteq Nat

Message == [instance : Nat, slot : Slots, sig : Signatures]

VARIABLES
    files,        \* closed log files, oldest first
    active,       \* the log file being written, <<>> if none is open
    nextInstance, \* the instance after the last certificate in the store
    up,           \* the process is running
    since,        \* the instance it was started at
    filter,       \* equivFilter: the current instance and what was seen in it
    selfMessages, \* messages to rebroadcast
    inflight,     \* BroadcastMessage calls past the filter
    published,    \* every message ever published
    own,          \* what this process has given to pubsub, published or not
    failures,     \* failed appends
    restarts      \* restarts so far

disk == <<files, active, nextInstance>>
vars == <<files, active, nextInstance, up, since, filter, selfMessages,
          inflight, published, own, failures, restarts>>

-----------------------------------------------------------------------------
(***************************************************************************)
(* The write-ahead log.  A file holds the entries that can be read back:   *)
(* once a torn entry is in it, readLogFile gets no further.  maxEpoch is   *)
(* what Purge goes by.                                                     *)
(***************************************************************************)
NewFile == [entries |-> <<>>, torn |-> FALSE, maxEpoch |-> 0]

Larger(a, b) == IF a < b THEN b ELSE a

\* The bytes of m reach the file.
Written(f, m) == IF f.torn THEN f ELSE [f EXCEPT !.entries = Append(@, m)]

\* The largest of the instances in S, 0 if there is none.
Latest(S) == IF S = {} THEN 0 ELSE CHOOSE e \in S : \A d \in S : d <= e

\* readLogFile, as hydrate uses it: the epoch of a file is that of the
\* entries that can be read.
Hydrated(f) ==
    [f EXCEPT !.maxEpoch =
        Latest({f.entries[i].instance : i \in DOMAIN f.entries})]

\* maybeRotate: the log as it is when the next entry is written.
Rotates == active = <<>> \/ Len(Head(active).entries) >= RotateAt
Closed == IF Rotates THEN files \o active ELSE files
Current == IF Rotates THEN NewFile ELSE Head(active)

\* Everything a restart can read back; positions are ordered as All lists them.
Log == files \o active
Positions == UNION {{i} \X DOMAIN Log[i].entries : i \in DOMAIN Log}
Entry(p) == Log[p[1]].entries[p[2]]
Before(p, q) == p[1] < q[1] \/ (p[1] = q[1] /\ p[2] < q[2])
Entries == {Entry(p) : p \in Positions}

-----------------------------------------------------------------------------
(***************************************************************************)
(* equivocationFilter.ProcessBroadcast.                                    *)
(***************************************************************************)
Conflict(m, n) == m.instance = n.instance /\ m.slot = n.slot /\ m.sig # n.sig

\* Moving on to a new instance forgets what was seen in the old one.
Seen(m) == IF m.instance > filter.instance THEN {} ELSE filter.seen

\* Mutant: a message of an earlier instance passes.
MutantAllowed(m) == \A n \in Seen(m) : n.slot = m.slot => n.sig = m.sig

Allowed(m) ==
    /\ m.instance >= filter.instance
    /\ \A n \in Seen(m) : n.slot = m.slot => n.sig = m.sig

Process(m) ==
    /\ Allowed(m)
    /\ filter' = [instance |-> m.instance, seen |-> Seen(m) \cup {m}]

-----------------------------------------------------------------------------
Init ==
    /\ files = <<>> /\ active = <<>>
    /\ nextInstance = 0
    /\ up = TRUE
    /\ since = 0
    /\ filter = [instance |-> 0, seen |-> {}]
    /\ selfMessages = {}
    /\ inflight = {}
    /\ published = {} /\ own = {}
    /\ failures = 0 /\ restarts = 0

\* A BroadcastMessage call for m, before or after the entry is logged.
Call(m, logged) == [msg |-> m, logged |-> logged]

Messages(S) == {b.msg : b \in S}

\* F3.Broadcast hands in a message of an instance this process has started,
\* each message once.
BroadcastMessage(m) ==
    /\ up
    /\ m.instance \in since..nextInstance
    /\ m \notin own \cup Messages(inflight)
    /\ Process(m)
    /\ inflight' = inflight \cup {Call(m, FALSE)}
    /\ UNCHANGED <<disk, up, since, selfMessages, published, own, failures, restarts>>

Proceed(m) ==
    /\ up
    /\ Call(m, FALSE) \in inflight
    /\ inflight' = (inflight \ {Call(m, FALSE)})
                        \cup {Call(m, TRUE)}
    /\ UNCHANGED <<nextInstance, up, since, filter, selfMessages, published, own,
                   restarts>>

\* wal.Append writes and syncs the entry.
AppendEntry(m) ==
    /\ Proceed(m)
    /\ files' = Closed
    /\ active' = <<[Written(Current, m) EXCEPT
                        !.maxEpoch = Larger(@, m.instance)]>>
    /\ UNCHANGED failures

\* wal.Append fails to rotate, writes part of the entry, or fails to sync it.
\* BroadcastMessage logs the error and carries on.
AppendFails(m) ==
    /\ failures < MaxFailures
    /\ Proceed(m)
    /\ failures' = failures + 1
    /\ \/ UNCHANGED <<files, active>>
       \/ /\ files' = Closed
          /\ \/ active' = IF Rotates THEN <<>> ELSE active
             \/ active' = <<[Current EXCEPT !.torn = TRUE]>>
             \/ active' = <<Written(Current, m)>>

\* The topic may be closed, or the message fail to encode or to be published.
Send(m) ==
    /\ own' = own \cup {m}
    /\ published' \in {published, published \cup {m}}

\* The rest of BroadcastMessage.
Publish(m) ==
    /\ up
    /\ Call(m, TRUE) \in inflight
    /\ inflight' = inflight \ {Call(m, TRUE)}
    /\ selfMessages' = selfMessages \cup {m}
    /\ Send(m)
    /\ UNCHANGED <<disk, up, since, filter, failures, restarts>>

\* RequestRebroadcast and rebroadcastMessage.
Rebroadcast(m) ==
    /\ up
    /\ m \in selfMessages
    /\ Process(m)
    /\ Send(m)
    /\ UNCHANGED <<disk, up, since, selfMessages, inflight, failures, restarts>>

\* A decision, or a certificate fetched from a peer, is put in the store.
PutCertificate ==
    /\ up
    /\ nextInstance < MaxInstance
    /\ nextInstance' = nextInstance + 1
    /\ UNCHANGED <<files, active, up, since, filter, selfMessages, inflight,
                   published, own, failures, restarts>>

\* Mutant: files of the instance being decided are purged too.
MutantKept(f) == f.maxEpoch > nextInstance - keepInstancesInWAL

Kept(f) == f.maxEpoch >= nextInstance - 1 - keepInstancesInWAL

\* The finalizer goroutine, on the latest certificate: Purge and the removal
\* of messages nobody needs any more.  A deleted file is one without entries.
Finalize ==
    /\ up
    /\ nextInstance > 0
    /\ files' = IF nextInstance - 1 > keepInstancesInWAL
                THEN [i \in DOMAIN files |->
                        IF Kept(files[i]) THEN files[i] ELSE NewFile]
                ELSE files
    /\ selfMessages' = {m \in selfMessages : m.instance >= nextInstance - 1}
    /\ UNCHANGED <<active, nextInstance, up, since, filter, inflight,
                   published, own, failures, restarts>>

\* The process dies.  An Append under way may have written its entry, part of
\* it, or nothing.
Crash ==
    /\ up
    /\ up' = FALSE
    /\ inflight' = {}
    /\ selfMessages' = {}
    /\ \/ UNCHANGED <<files, active>>
       \/ \E b \in inflight :
             /\ ~b.logged
             /\ files' = Closed
             /\ \/ active' = <<[Current EXCEPT !.torn = TRUE]>>
                \/ active' = <<Written(Current, b.msg)>>
    /\ UNCHANGED <<nextInstance, since, filter, published, own, failures, restarts>>

\* ProcessBroadcast applied to all entries in turn leaves the latest instance,
\* and the first entry of each of its slots.
LastLogged == Latest({m.instance : m \in Entries})

\* Mutant: the filter is not rebuilt.
MutantReplayed == [instance |-> 0, seen |-> {}]

Replayed ==
    [instance |-> LastLogged,
     seen |-> {Entry(p) : p \in {q \in Positions :
                /\ Entry(q).instance = LastLogged
                /\ \A r \in Positions :
                      Entry(r).instance = LastLogged /\ Entry(r).slot = Entry(q).slot
                      => ~Before(r, q)}}]

\* writeaheadlog.Open, newRunner, and Start at the instance after the latest
\* certificate.
Restart ==
    /\ ~up
    /\ restarts < MaxRestarts
    /\ up' = TRUE
    /\ since' = nextInstance
    /\ files' = [i \in DOMAIN Log |-> Hydrated(Log[i])]
    /\ active' = <<>>
    /\ filter' = Replayed
    /\ selfMessages' = {m \in Entries : m.instance = LastLogged}
    /\ own' = {}
    /\ restarts' = restarts + 1
    /\ UNCHANGED <<nextInstance, inflight, published, failures>>

Next ==
    \/ \E i \in 0..MaxInstance, s \in Slots, g \in Signatures :
          LET m == [instance |-> i, slot |-> s, sig |-> g]
          IN  \/ BroadcastMessage(m)
              \/ AppendEntry(m)
              \/ AppendFails(m)
              \/ Publish(m)
              \/ Rebroadcast(m)
    \/ PutCertificate
    \/ Finalize
    \/ Crash
    \/ Restart

Spec == Init /\ [][Next]_vars

-----------------------------------------------------------------------------
File == [entries : Seq(Message), torn : BOOLEAN, maxEpoch : Nat]

\* Types; at most one file is open.
TypeOK ==
    /\ files \in Seq(File)
    /\ active \in Seq(File) /\ Len(active) <= 1
    /\ {nextInstance, since} \subseteq Nat
    /\ up \in BOOLEAN
    /\ filter \in [instance : Nat, seen : SUBSET Message]
    /\ selfMessages \subseteq Message
    /\ inflight \subseteq [msg : Message, logged : BOOLEAN]
    /\ own \subseteq Message /\ published \subseteq Message
    /\ failures \in 0..MaxFailures /\ restarts \in 0..MaxRestarts

\* No node signs two values in one slot, whatever crashes happen between the
\* filter, the log and pubsub, as long as the log could be written.
NoSelfEquivocation ==
    failures = 0 => \A m, n \in published : ~Conflict(m, n)

\* A running process never contradicts itself, even with a signer that answers
\* late or out of order and with failed appends, whose errors are only logged:
\* moving on to a new instance forgets the slots of the old one, but the old
\* one is closed then.
NoContradictionWhileUp == \A m, n \in own : ~Conflict(m, n)

\* A process restarted within an instance rebroadcasts all it published in it:
\* purging and trimming never lose a vote of the instance being decided.
RestartRebroadcasts ==
    (up /\ failures = 0) =>
        \A m \in published : m.instance = nextInstance => m \in selfMessages

=============================================================================
