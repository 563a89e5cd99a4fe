------------------------------ MODULE CertStore ------------------------------
(***************************************************************************)
(* The certificate store: certificates, checkpointed power tables and two  *)
(* instance numbers in a datastore, the latest certificate and power table *)
(* in memory, and one channel per subscriber.                              *)
(*                                                                         *)
(* Every write to the datastore is a step of its own and can fail, with or *)
(* without having taken effect; the process can crash between any two.     *)
(* Callers have validated what they store, so the certificates of an       *)
(* instance agree on everything but their signers: they name the power     *)
(* table of the next instance, and carry the change that leads to it.      *)
(***************************************************************************)
EXTENDS Integers, Sequences

CONSTANTS
    firstInstance, powerTableFrequency,
    MaxInstance,  \* bound on the instances certificates are for
    Tables,       \* power tables
    PowerTable,   \* the network's power table for each instance
    Signers,      \* who can have signed a certificate
    None,         \* no value under a key, no power table
    Readers, Subscribers,
    Attentive     \* subscribers that keep reading their channels

ASSUME InstanceAssumption ==
    /\ firstInstance \in Nat /\ MaxInstance \in Nat /\ firstInstance <= MaxInstance
    /\ powerTableFrequency \in Nat \ {0}

CertInstances == firstInstance .. MaxInstance
Instances == firstInstance .. (MaxInstance + 1)
Certificates == [instance : CertInstances, signers : Signers]

ASSUME ValueAssumption ==
    /\ PowerTable \in [Instances -> Tables]
    /\ None \notin Tables \cup Certificates \cup Nat
    /\ "open" \notin Readers
    /\ Attentive \subseteq Subscribers

VARIABLES
    disk,      \* the datastore: first, latest, certs, power, tombstone
    status,    \* closed, create, opening, open, import or delete
    latest,    \* latestCertificate, None if there is none
    table,     \* latestPowerTable, None while the store is being opened
    put,       \* the Put that holds the lock, as a record in a sequence
    loads,     \* GetPowerTable calls in progress
    channels,  \* the subscribers' channels, None when not subscribed
    seen,      \* the instance a subscriber received last
    view,      \* the datastore as an import sees it through its batch
    import,    \* the import in progress
    intact     \* nothing has been deleted from the store since it was empty

vars == <<disk, status, latest, table, put, loads, channels, seen, view,
          import, intact>>
memory == <<latest, table>>
subscriptions == <<channels, seen>>
importing == <<view, import>>

-----------------------------------------------------------------------------
\* ApplyPowerTableDiffs with the delta of the certificate for instance i:
\* without changes it applies to any table, else to the one it was made from.
Apply(t, i) ==
    IF PowerTable[i] = PowerTable[i + 1] THEN t
    ELSE IF t = PowerTable[i] THEN PowerTable[i + 1] ELSE None

Later(a, b) == IF a < b THEN b ELSE a

NextInstance(c) == IF c = None THEN firstInstance ELSE c.instance + 1

\* Mutant: off by one.
MutantCheckpoint(i) == (i - 1) % powerTableFrequency = 0

Checkpoint(i) == i % powerTableFrequency = 0

EmptyDisk ==
    [first |-> FALSE, latest |-> None, tombstone |-> FALSE,
     certs |-> [i \in CertInstances |-> None],
     power |-> [i \in Instances |-> None]]

Init ==
    /\ disk = EmptyDisk /\ view = EmptyDisk
    /\ status = "closed"
    /\ latest = None /\ table = None
    /\ put = <<>> /\ import = <<>>
    /\ loads = [p \in Readers \cup {"open"} |-> <<>>]
    /\ channels = [s \in Subscribers |-> None]
    /\ seen = [s \in Subscribers |-> None]
    /\ intact = TRUE

-----------------------------------------------------------------------------
(***************************************************************************)
(* Opening.  OpenStore loads the latest certificate and then the power     *)
(* table after it; a store without a first instance is created.            *)
(***************************************************************************)

\* The power table for instance i is read from the last checkpoint and the
\* certificates after it are applied one by one.
Load(i) ==
    LET start == Later(i - (i % powerTableFrequency), firstInstance)
    IN  [target |-> i, next |-> start, table |-> disk.power[start]]

\* What open finds under the latest instance.
Recorded == IF disk.latest = None THEN None ELSE disk.certs[disk.latest]

Open ==
    /\ status = "closed"
    /\ disk.latest # None => Recorded # None
    /\ IF disk.first
       THEN /\ status' = "opening"
            /\ latest' = Recorded
            /\ loads' = [loads EXCEPT !["open"] = <<Load(NextInstance(Recorded))>>]
            /\ UNCHANGED disk
       ELSE /\ status' = "create"
            /\ disk' = [disk EXCEPT !.power[firstInstance] = PowerTable[firstInstance]]
            /\ latest' = Recorded
            /\ UNCHANGED loads
    /\ UNCHANGED <<table, put, subscriptions, importing, intact>>

\* open looks for a certificate that is not there.
OpenFails == status = "closed" /\ disk.latest # None /\ Recorded = None

\* CreateStore's second write.
RecordFirst ==
    /\ status = "create"
    /\ disk' = [disk EXCEPT !.first = TRUE]
    /\ status' = "open"
    /\ table' = disk.power[firstInstance]
    /\ UNCHANGED <<latest, put, loads, subscriptions, importing, intact>>

\* The next certificate of GetRange, applied; None is an error: there is no
\* such certificate, or its delta does not apply.
Applied(l) ==
    IF disk.certs[l.next] = None THEN None ELSE Apply(l.table, l.next)

LoadStep(p) ==
    /\ loads[p] # <<>>
    /\ LET l == Head(loads[p])
       IN  /\ l.next < l.target /\ l.table # None /\ Applied(l) # None
           /\ loads' = [loads EXCEPT ![p] =
                            <<[l EXCEPT !.next = @ + 1, !.table = Applied(l)]>>]
    /\ UNCHANGED <<disk, status, memory, put, subscriptions, importing, intact>>

\* There is no checkpoint, or the certificates after it do not lead on.
LoadError(p) ==
    IF loads[p] = <<>> THEN FALSE
    ELSE LET l == Head(loads[p])
         IN  IF l.table = None THEN TRUE ELSE l.next < l.target /\ Applied(l) = None

Loaded(p) == loads[p] # <<>> /\ Head(loads[p]).next = Head(loads[p]).target /\ ~LoadError(p)

Opened ==
    /\ Loaded("open")
    /\ status' = "open"
    /\ table' = Head(loads["open"]).table
    /\ loads' = [loads EXCEPT !["open"] = <<>>]
    /\ UNCHANGED <<disk, latest, put, subscriptions, importing, intact>>

-----------------------------------------------------------------------------
(***************************************************************************)
(* GetPowerTable of an open store.  The latest certificate and table are   *)
(* copied under the read lock, which a Put in progress excludes; the       *)
(* datastore is read without a lock.                                       *)
(***************************************************************************)
GetPowerTable(r, i) ==
    /\ status = "open" /\ put = <<>> /\ loads[r] = <<>>
    /\ i <= NextInstance(latest)
    /\ ~(i = NextInstance(latest) /\ table # None)  \* else the answer is table
    /\ loads' = [loads EXCEPT ![r] = <<Load(i)>>]
    /\ UNCHANGED <<disk, status, memory, put, subscriptions, importing, intact>>

\* The call returns the table, or an error.
Return(r) ==
    /\ Loaded(r) \/ LoadError(r)
    /\ loads' = [loads EXCEPT ![r] = <<>>]
    /\ UNCHANGED <<disk, status, memory, put, subscriptions, importing, intact>>

-----------------------------------------------------------------------------
(***************************************************************************)
(* Put.  A certificate that is not the next one, or that does not lead to  *)
(* the power table it names, is refused without a trace.                   *)
(***************************************************************************)
\* Mutant: older certificates are stored again.
MutantAcceptable(c) ==
    /\ c.instance <= NextInstance(latest)
    /\ Apply(table, c.instance) = PowerTable[c.instance + 1]

Acceptable(c) ==
    /\ c.instance = NextInstance(latest)
    /\ Apply(table, c.instance) = PowerTable[c.instance + 1]

Put(c) ==
    /\ status = "open" /\ put = <<>>
    /\ Acceptable(c)
    /\ put' = <<[cert |-> c, step |-> "cert", pending |-> {}]>>
    /\ UNCHANGED <<disk, status, memory, loads, subscriptions, importing, intact>>

\* Mutant: the latest instance is written first.
MutantWritten(p) ==
    CASE p.step = "cert"   -> [disk EXCEPT !.latest = p.cert.instance]
      [] p.step = "table"  -> [disk EXCEPT !.power[p.cert.instance + 1] =
                                  Apply(table, p.cert.instance)]
      [] p.step = "latest" -> [disk EXCEPT !.certs[p.cert.instance] = p.cert]

\* The datastore after the next write of the Put p.
Written(p) ==
    CASE p.step = "cert"   -> [disk EXCEPT !.certs[p.cert.instance] = p.cert]
      [] p.step = "table"  -> [disk EXCEPT !.power[p.cert.instance + 1] =
                                  Apply(table, p.cert.instance)]
      [] p.step = "latest" -> [disk EXCEPT !.latest = p.cert.instance]

\* The certificate and, at a checkpoint, the next power table: the latest
\* instance is always written last.
PutWrite ==
    /\ put # <<>> /\ put[1].step \in {"cert", "table"}
    /\ disk' = Written(put[1])
    /\ put' = <<[put[1] EXCEPT !.step =
                    IF @ = "cert" /\ Checkpoint(put[1].cert.instance + 1)
                    THEN "table" ELSE "latest"]>>
    /\ UNCHANGED <<status, memory, loads, subscriptions, importing, intact>>

PutLatest ==
    /\ put # <<>> /\ put[1].step = "latest"
    /\ disk' = Written(put[1])
    /\ put' = <<[put[1] EXCEPT !.step = "notify",
                 !.pending = {s \in Subscribers : channels[s] # None}]>>
    /\ latest' = put[1].cert
    /\ table' = Apply(table, put[1].cert.instance)
    /\ UNCHANGED <<status, loads, subscriptions, importing, intact>>

\* The datastore reports an error, whether or not the value was written.
PutFails ==
    /\ put # <<>> /\ put[1].step # "notify"
    /\ disk' \in {disk, Written(put[1])}
    /\ put' = <<>>
    /\ UNCHANGED <<status, memory, loads, subscriptions, importing, intact>>

\* Once drained, a channel of capacity one has room for the certificate.
Notify(s) ==
    /\ put # <<>> /\ s \in put[1].pending
    /\ channels' = [channels EXCEPT ![s] = <<put[1].cert>>]
    /\ put' = <<[put[1] EXCEPT !.pending = @ \ {s}]>>
    /\ UNCHANGED <<disk, status, memory, loads, seen, importing, intact>>

PutReturns ==
    /\ put # <<>> /\ put[1].step = "notify" /\ put[1].pending = {}
    /\ put' = <<>>
    /\ UNCHANGED <<disk, status, memory, loads, subscriptions, importing, intact>>

-----------------------------------------------------------------------------
\* Mutant: a new subscriber waits for the next certificate.
MutantSubscribe(s) ==
    /\ status = "open" /\ put = <<>> /\ channels[s] = None
    /\ channels' = [channels EXCEPT ![s] = <<>>]
    /\ seen' = [seen EXCEPT ![s] = None]
    /\ UNCHANGED <<disk, status, memory, put, loads, importing, intact>>

Subscribe(s) ==
    /\ status = "open" /\ put = <<>> /\ channels[s] = None
    /\ channels' = [channels EXCEPT ![s] = IF latest = None THEN <<>> ELSE <<latest>>]
    /\ seen' = [seen EXCEPT ![s] = None]
    /\ UNCHANGED <<disk, status, memory, put, loads, importing, intact>>

\* The subscriber reads its channel, at any time.
Receive(s) ==
    /\ channels[s] \notin {None, <<>>}
    /\ seen' = [seen EXCEPT ![s] = Head(channels[s]).instance]
    /\ channels' = [channels EXCEPT ![s] = <<>>]
    /\ UNCHANGED <<disk, status, memory, put, loads, importing, intact>>

Unsubscribe(s) ==
    /\ put = <<>> /\ channels[s] # None
    /\ channels' = [channels EXCEPT ![s] = None]
    /\ UNCHANGED <<disk, status, memory, put, loads, seen, importing, intact>>

-----------------------------------------------------------------------------
(***************************************************************************)
(* Snapshots.  An export reads the latest certificate without the lock and *)
(* then the certificates from the first instance on; the table of its load *)
(* is the one an import of what was written so far arrives at.             *)
(***************************************************************************)
ExportSnapshot(r) ==
    /\ status = "open" /\ loads[r] = <<>> /\ latest # None
    /\ loads' = [loads EXCEPT ![r] = <<[target |-> NextInstance(latest),
                                        next |-> firstInstance,
                                        table |-> disk.power[firstInstance]]>>]
    /\ UNCHANGED <<disk, status, memory, put, subscriptions, importing, intact>>

\* A snapshot for instances up to last is imported into a datastore without
\* certificates, through a batch: OpenOrCreateStore.
ImportSnapshot(last) ==
    /\ status = "closed" /\ disk.latest = None /\ ~disk.tombstone
    /\ disk.first => disk.power[firstInstance] = PowerTable[firstInstance]
    /\ status' = "import"
    /\ view' = [disk EXCEPT !.first = TRUE, !.power[firstInstance] = PowerTable[firstInstance]]
    /\ import' = <<[last |-> last, next |-> firstInstance,
                  table |-> PowerTable[firstInstance]]>>
    /\ UNCHANGED <<disk, memory, put, loads, subscriptions, intact>>

\* The next block of the snapshot is the certificate c; at a checkpoint the
\* power table it names is compared and stored.
ImportCert(c) ==
    LET t == Apply(import[1].table, c.instance)
    IN  /\ status = "import"
        /\ c.instance = import[1].next /\ c.instance <= import[1].last
        /\ t # None /\ (Checkpoint(c.instance + 1) => t = PowerTable[c.instance + 1])
        /\ view' = [view EXCEPT !.certs[c.instance] = c,
                                !.power[c.instance + 1] =
                                    IF Checkpoint(c.instance + 1) THEN t ELSE @]
        /\ import' = <<[import[1] EXCEPT !.next = @ + 1, !.table = t]>>
        /\ UNCHANGED <<disk, status, memory, put, loads, subscriptions, intact>>

\* The batch is full.
ImportFlush ==
    /\ status = "import" /\ view # disk
    /\ disk' = view
    /\ UNCHANGED <<status, memory, put, loads, subscriptions, importing, intact>>

\* The snapshot ends where its header says.
ImportDone ==
    /\ status = "import" /\ import[1].next = import[1].last + 1
    /\ import[1].table = PowerTable[import[1].next]
    /\ disk' = [view EXCEPT !.latest = import[1].last]
    /\ status' = "closed" /\ view' = EmptyDisk /\ import' = <<>>
    /\ UNCHANGED <<memory, put, loads, subscriptions, intact>>

\* The import returns an error; what is in the batch is flushed or lost.
ImportFails ==
    /\ status = "import"
    /\ disk' \in {disk, view}
    /\ status' = "closed" /\ view' = EmptyDisk /\ import' = <<>>
    /\ UNCHANGED <<memory, put, loads, subscriptions, intact>>

-----------------------------------------------------------------------------
(***************************************************************************)
(* Deleting.  A deletion leaves its tombstone in the store's namespace;    *)
(* open looks for one outside of it, so it does not continue a deletion.   *)
(***************************************************************************)
Keys(d) ==
    {<<"certs", i>> : i \in {j \in CertInstances : d.certs[j] # None}} \cup
    {<<"power", i>> : i \in {j \in Instances : d.power[j] # None}} \cup
    (IF d.first THEN {<<"first", 0>>} ELSE {}) \cup
    (IF d.latest # None THEN {<<"latest", 0>>} ELSE {})

Without(d, k) ==
    CASE k[1] = "certs"  -> [d EXCEPT !.certs[k[2]] = None]
      [] k[1] = "power"  -> [d EXCEPT !.power[k[2]] = None]
      [] k[1] = "first"  -> [d EXCEPT !.first = FALSE]
      [] k[1] = "latest" -> [d EXCEPT !.latest = None]

Quiet == put = <<>> /\ \A r \in Readers : loads[r] = <<>>

\* Nothing uses the store once it is being deleted.
DeleteAll ==
    /\ status = "open" /\ Quiet
    /\ disk' = [disk EXCEPT !.tombstone = TRUE]
    /\ status' = "delete"
    /\ channels' = [s \in Subscribers |-> None]
    /\ intact' = FALSE
    /\ UNCHANGED <<memory, put, loads, seen, importing>>

DeleteKey ==
    /\ status = "delete"
    /\ \E k \in Keys(disk) : disk' = Without(disk, k)
    /\ UNCHANGED <<status, memory, put, loads, subscriptions, importing, intact>>

DeleteTombstone ==
    /\ status = "delete" /\ Keys(disk) = {}
    /\ disk' = [disk EXCEPT !.tombstone = FALSE]
    /\ status' = "closed" /\ latest' = None /\ table' = None
    /\ intact' = TRUE
    /\ UNCHANGED <<put, loads, subscriptions, importing>>

Delete(i) ==
    /\ status = "open" /\ Quiet /\ <<"certs", i>> \in Keys(disk)
    /\ disk' = [disk EXCEPT !.certs[i] = None, !.power[i] = None]
    /\ intact' = FALSE
    /\ UNCHANGED <<status, memory, put, loads, subscriptions, importing>>

Crash ==
    /\ status # "closed"
    /\ status' = "closed"
    /\ latest' = None /\ table' = None
    /\ put' = <<>> /\ import' = <<>> /\ view' = EmptyDisk
    /\ loads' = [p \in Readers \cup {"open"} |-> <<>>]
    /\ channels' = [s \in Subscribers |-> None]
    /\ seen' = [s \in Subscribers |-> None]
    /\ UNCHANGED <<disk, intact>>

-----------------------------------------------------------------------------
Next ==
    \/ Open \/ RecordFirst \/ Opened \/ PutWrite \/ PutLatest \/ PutFails \/ PutReturns
    \/ \E p \in Readers \cup {"open"} : LoadStep(p)
    \/ \E r \in Readers : Return(r) \/ ExportSnapshot(r)
    \/ \E r \in Readers, i \in Instances : GetPowerTable(r, i)
    \/ \E c \in Certificates : Put(c) \/ ImportCert(c)
    \/ \E s \in Subscribers : Notify(s) \/ Subscribe(s) \/ Receive(s) \/ Unsubscribe(s)
    \/ \E i \in CertInstances : ImportSnapshot(i)
    \/ ImportFlush \/ ImportDone \/ ImportFails
    \/ DeleteAll \/ DeleteKey \/ DeleteTombstone \/ Crash
    \/ \E i \in CertInstances : Delete(i)

\* A Put that has started goes on, and attentive subscribers read what is in
\* their channels, as the loops of the runner and the poller do.
Fairness ==
    /\ WF_vars(PutWrite \/ PutLatest \/ PutReturns \/ \E s \in Subscribers : Notify(s))
    /\ \A s \in Attentive : WF_vars(Receive(s))

Spec == Init /\ [][Next]_vars /\ Fairness

-----------------------------------------------------------------------------
\* The store can be opened after a crash at any point: the certificate the
\* latest instance points to is there, and GetPowerTable finds its way from
\* the checkpoint to the table after it.
AlwaysOpens == intact => ~OpenFails /\ ~LoadError("open")

\* GetPowerTable and an export never fail on a certificate or checkpoint
\* that a concurrent Put has yet to write, and answer with the table that
\* the certificates lead to.
TablesAreRight ==
    intact => /\ \A r \in Readers :
                    /\ ~LoadError(r)
                    /\ Loaded(r) => Head(loads[r]).table = PowerTable[Head(loads[r]).target]
              /\ status = "open" => table = PowerTable[NextInstance(latest)]

\* An attentive subscriber catches up with every certificate, or gives up.
SubscribersInformed ==
    \A s \in Attentive, i \in CertInstances :
        (channels[s] # None /\ latest # None /\ latest.instance >= i)
            ~> (channels[s] = None \/ (seen[s] # None /\ seen[s] >= i))

\* The certificates up to the latest one, which is the one in memory while
\* the store is open.
Last == IF status = "open" THEN NextInstance(latest) - 1
        ELSE IF disk.latest = None THEN firstInstance - 1 ELSE disk.latest

Log == IF intact THEN [n \in 1 .. (Last - firstInstance + 1) |-> disk.certs[firstInstance + n - 1]]
       ELSE <<>>

CertLog == INSTANCE CertLog WITH log <- Log

\* The store implements a log: a certificate that was acknowledged is never
\* changed or lost, over crashes, failed writes and imports.
ImplementsCertLog == CertLog!Spec
=============================================================================
