----------------------------- MODULE Algorithms -----------------------------
(***************************************************************************)
(* The pure algorithms of F3, each against a definition of what it should  *)
(* compute, and the small machines among them, step by step: the interval  *)
(* predictor, the cache of validated messages, the cache of power tables,  *)
(* and starting and stopping the certificate exchange server.              *)
(*                                                                         *)
(* A task is the input of one algorithm; its kind says of which.           *)
(***************************************************************************)
EXTENDS CertChain, MessageValidation, Pacing, Predictor, Caching, EcCache, ExchangeServer

CONSTANT Tasks

VARIABLE task

vars == <<task, predictorVars, cachingVars, ecCacheVars, serverVars>>

Init ==
    /\ task \in Tasks
    /\ PredictorInit /\ CachingInit /\ EcCacheInit /\ ServerInit

Next ==
    /\ UNCHANGED task
    /\ \/ /\ task.kind = "predict" /\ Update
          /\ UNCHANGED <<cachingVars, ecCacheVars, serverVars>>
       \/ /\ task.kind = "cache" /\ CachingNext
          /\ UNCHANGED <<predictorVars, ecCacheVars, serverVars>>
       \/ /\ task.kind = "power" /\ EcCacheNext
          /\ UNCHANGED <<predictorVars, cachingVars, serverVars>>
       \/ /\ task.kind = "server" /\ ServerNext
          /\ UNCHANGED <<predictorVars, cachingVars, ecCacheVars>>

Spec == Init /\ [][Next]_vars /\ EcCacheFairness /\ ServerFairness

-----------------------------------------------------------------------------
(***************************************************************************)
(* Applying the diffs between successive power tables to the first gives   *)
(* the last, in the order that its CID is computed from: MakePowerTableDiff*)
(* and ApplyPowerTableDiffs fit together, over one certificate or several. *)
(***************************************************************************)
DiffsRoundTrip ==
    task.kind = "tables" =>
        LET diffs == <<MakePowerTableDiff(task.old, task.new), MakePowerTableDiff(task.new, task.last)>>
        IN  /\ ApplyPowerTableDiffs(task.old, SubSeq(diffs, 1, 1)) = Ok(task.new)
            /\ ApplyPowerTableDiffs(task.old, diffs) = Ok(task.last)

(***************************************************************************)
(* A diff that ApplyPowerTableDiffs accepts is the one MakePowerTableDiff  *)
(* makes: two different diffs never lead from one table to the same other, *)
(* and the table they lead to is a table.                                  *)
(***************************************************************************)
DiffsAreCanonical ==
    task.kind = "diff" =>
        LET applied == ApplyPowerTableDiffs(task.old, <<task.diff>>)
        IN  applied.ok => /\ AddEntries(NewPowerTable, applied.result).ok
                          /\ MakePowerTableDiff(task.old, applied.result) = task.diff

(***************************************************************************)
(* A table that PowerTable.Add built in one or two calls passes Validate,  *)
(* is the same table, and scales as PowerEntries.Scaled does; Validate     *)
(* refuses it with a field changed.                                        *)
(***************************************************************************)
TablesValidate ==
    task.kind = "add" =>
        LET first == AddEntries(NewPowerTable, task.first)
            both == AddEntries(first.result, task.second)
            t == both.result
        IN  first.ok /\ both.ok =>
                /\ ValidTable(t)
                /\ AddEntries(NewPowerTable, task.first \o task.second) = both
                /\ Scaled(t.entries) = Ok(t.scaled)
                /\ ~ValidTable([t EXCEPT !.total = @ + 1])
                /\ t.entries # << >> => ~ValidTable([t EXCEPT !.scaledTotal = @ + 1])
                /\ Len(t.entries) > 1 => ~ValidTable([t EXCEPT !.entries = Reverse(@)])

(***************************************************************************)
(* WithModifiedPower gives a power table: in order, without entries that   *)
(* have no power, the explicit entries in place of the EC's.               *)
(***************************************************************************)
OverridesApply ==
    task.kind = "override" =>
        LET table == WithModifiedPower(task.explicit, task.ignore, task.ec)
            rest == IF task.ignore THEN {}
                    ELSE {e \in Range(task.ec) : e.id \notin IDs(task.explicit)}
        IN  /\ Range(table) = {e \in Range(task.explicit) : e.power > 0} \cup rest
            /\ table = SortEntries(table)

(***************************************************************************)
(* Power tables fit together however they are come by: built by Add,       *)
(* carried by certificates as diffs, or laid over EC's, they are the same  *)
(* entries in the one order that their CID and the bits of signers depend  *)
(* on.                                                                     *)
(***************************************************************************)
PowerTablesAgree == DiffsRoundTrip /\ DiffsAreCanonical /\ TablesValidate /\ OverridesApply

-----------------------------------------------------------------------------
\* Whether a certificate of a task is as its committee made it.
Intact(t, i) == t.damage # i

(***************************************************************************)
(* ValidateFinalityCertificates accepts certificates up to the first that  *)
(* is damaged, and returns its instance, the chain finalised before it and *)
(* the table to check it with.                                             *)
(***************************************************************************)
ValidatedUpToDamage ==
    task.kind = "certs" =>
        LET result == ValidateFinalityCertificates(task.table, 1, task.base, task.certs)
            good == {n \in 0..Len(task.certs) : \A i \in 1..n : Intact(task, i)}
            n == CHOOSE k \in good : \A j \in good : j <= k
        IN  /\ result.ok = (n = Len(task.certs))
            /\ result.next = n + 1
            /\ result.chain = FlattenSeq([i \in 1..n |-> Suffix(task.certs[i].chain)])
            /\ result.table = (IF n = 0 THEN task.table ELSE task.certs[n].powerTable)

(***************************************************************************)
(* Certificates validated in two calls, the second with the instance and   *)
(* the table that the first returned and the head of its last chain as     *)
(* base, give the result of one call: it does not matter how a node groups *)
(* the certificates that it gets.                                          *)
(***************************************************************************)
ValidationSplits ==
    task.kind = "certs" =>
        \A n \in 1..(Len(task.certs) - 1) :
            LET whole == ValidateFinalityCertificates(task.table, 1, task.base, task.certs)
                head == ValidateFinalityCertificates(task.table, 1, task.base,
                                                     SubSeq(task.certs, 1, n))
                rest == ValidateFinalityCertificates(head.table, head.next,
                                                     <<ChainHead(task.certs[n].chain)>>,
                                                     SubSeq(task.certs, n + 1, Len(task.certs)))
            IN  IF head.ok THEN /\ <<whole.ok, whole.next, whole.table>>
                                   = <<rest.ok, rest.next, rest.table>>
                                /\ whole.chain = head.chain \o rest.chain
                ELSE whole = head

(***************************************************************************)
(* saveDecision makes a certificate that validates from every decision a   *)
(* strong quorum signed, and it leads to the next committee's table.       *)
(***************************************************************************)
DecisionsCertify ==
    task.kind = "decision" =>
        LET cert == NewFinalityCertificate(MakePowerTableDiff(task.old, task.new), task.just)
            result == ValidateFinalityCertificates(task.old, task.just.instance, NoBase,
                                                   <<cert.result>>)
        IN  cert.ok /\ result.ok /\ result.table = task.new

(***************************************************************************)
(* A chain that the generator makes passes the generator's own validation  *)
(* and the one of nodes, whatever it draws: each chain continues the one   *)
(* before.  It is made whenever the committees of an instance and the next *)
(* are known, which takes a lookback of at least three.                    *)
(***************************************************************************)
GeneratedChainsHold ==
    task.kind = "generate" =>
        LET generated == Generate(task.m, task.ec, task.draws)
            certs == generated.result
            first == task.ec[BootstrapBase(task.m)]
        IN  /\ generated.ok = (\/ Len(task.draws) < task.m.CommitteeLookback
                               \/ task.m.CommitteeLookback >= 3)
            /\ generated.ok =>
                  /\ ValidateGenerated(task.m, task.ec, certs)
                  /\ ValidateFinalityCertificates(first.table, task.m.InitialInstance,
                         <<TipSetAt(task.ec, BootstrapBase(task.m))>>, certs).ok

(***************************************************************************)
(* Certificates and their validation fit together: what a node makes from  *)
(* its decisions, or the generator from its draws, is accepted, in calls   *)
(* of any size, and what is accepted is what was certified.                *)
(***************************************************************************)
CertificatesAgree ==
    ValidatedUpToDamage /\ ValidationSplits /\ DecisionsCertify /\ GeneratedChainsHold

-----------------------------------------------------------------------------
(***************************************************************************)
(* The proofs of TreeWithProofs verify for their value and index, telling  *)
(* whether it is the last, and VerifyProof accepts no other value.         *)
(***************************************************************************)
ProofsVerify ==
    task.kind = "tree" =>
        LET tree == TreeWithProofs(task.values)
            n == Len(task.values)
        IN  \A i \in 1..n :
              /\ VerifyProof(tree[1], i - 1, task.values[i], tree[2][i]) = <<TRUE, i < n>>
              /\ \A j \in 1..(n + 1), v \in Range(task.values) \cup {0} :
                    VerifyProof(tree[1], j - 1, v, tree[2][i])[1] => j <= n /\ task.values[j] = v

(***************************************************************************)
(* BatchTree computes for every prefix the root that Tree would, so that a *)
(* chain has one key however it was come by.                               *)
(***************************************************************************)
PrefixKeysAgree ==
    task.kind = "tree" =>
        \A k \in DOMAIN task.values :
            BatchTree(task.values)[k] = Tree(SubSeq(task.values, 1, k))

(***************************************************************************)
(* The key of a chain determines its tipsets, as the comment on Key says   *)
(* it must, and the keys of its prefixes are those of KeysForPrefixes.     *)
(***************************************************************************)
KeysIdentifyChains ==
    task.kind = "chains" =>
        /\ Key(task.one) = Key(task.other) => task.one = task.other
        /\ \A i \in DOMAIN task.one : KeysForPrefixes(task.one)[i] = Key(Prefix(task.one, i - 1))

(***************************************************************************)
(* A chain has one key, whether it was computed for the chain, for the     *)
(* prefix of a longer one, or proved from a part of it, and no two chains  *)
(* have the same.                                                          *)
(***************************************************************************)
KeysAgree == ProofsVerify /\ PrefixKeysAgree /\ KeysIdentifyChains

-----------------------------------------------------------------------------
\* The verdict on a message that arrives without its chain and is completed later.
VerdictInParts(current, p, chain) ==
    IF PartiallyValidateMessage({}, current, p).verdict # "valid"
    THEN PartiallyValidateMessage({}, current, p).verdict
    ELSE FullyValidateMessage(current, [p EXCEPT !.msg = CompleteMessage(p, chain)])

(***************************************************************************)
(* A message that ValidateMessage accepts is also accepted when it is sent *)
(* without its chains and validated in two parts, and completes to itself. *)
(* What the two parts accept, ValidateMessage accepts once completed.      *)
(***************************************************************************)
PartsAgreeWithWhole ==
    task.kind = "vote" =>
        LET m == task.msg
            p == ToPartialGMessage(m)
            completed == CompleteMessage(p, m.vote.value)
            whole(x) == ValidateMessage({}, task.current, x).verdict
            parts == VerdictInParts(task.current, p, m.vote.value)
        IN  /\ whole(m) = "valid" => parts = "valid" /\ completed = m
            /\ parts = "valid" => whole(completed) = "valid"

(***************************************************************************)
(* A message that MessageBuilder made from a vote of the protocol is never *)
(* rejected, which would count against the peer, however far the receiver  *)
(* is: it is accepted or ignored.                                          *)
(***************************************************************************)
HonestNotRejected ==
    task.kind = "honest" =>
        LET built == BuildMessage(task.sender, task.vote, task.vote.phase = "CONVERGE", task.just)
            m == built.result
            p == ToPartialGMessage(m)
        IN  /\ built.ok
            /\ PubsubResult(ValidateMessage({}, task.current, m).verdict) # "Reject"
            /\ PubsubResult(VerdictInParts(task.current, p, m.vote.value)) # "Reject"

\* Validation of a message or a partial message, [partial, msg, key].
ValidateItem(cache, current, x) ==
    IF x.partial THEN PartiallyValidateMessage(cache, current, [msg |-> x.msg, key |-> x.key])
    ELSE ValidateMessage(cache, current, x.msg)

(***************************************************************************)
(* What was validated before never changes the verdict on a message: a hit *)
(* in the validator's cache stands for the checks it skips.                *)
(***************************************************************************)
CacheIsTransparent ==
    task.kind = "pair" =>
        LET before == ValidateItem({}, task.current, task.one)
        IN  ValidateItem(before.cache, task.current, task.other).verdict
            = ValidateItem({}, task.current, task.other).verdict

(***************************************************************************)
(* The verdict on a vote depends on the vote alone: not on whether it came *)
(* with its chain, nor on what was validated before, and it never counts   *)
(* against an honest sender.                                               *)
(***************************************************************************)
ValidationAgrees == PartsAgreeWithWhole /\ HonestNotRejected /\ CacheIsTransparent

-----------------------------------------------------------------------------
(***************************************************************************)
(* Every manifest that Validate accepts gives options that gpbft and the   *)
(* chain exchange accept, an epoch to bootstrap from, and, in a proposal,  *)
(* a chain the chain exchange takes.                                       *)
(***************************************************************************)
ManifestFits ==
    task.kind = "manifest" /\ ValidManifest(task.m) =>
        /\ GpbftOptionsAccepted(GpbftOptions(task.m))
        /\ ChainExchangeOptionsAccepted(task.m.ChainExchange)
        /\ task.m.BootstrapEpoch - task.m.EC.Finality >= 0
        /\ Smaller(ChainMaxLen, task.m.Gpbft.ChainProposedLength)
              \in 1..task.m.ChainExchange.MaxChainLength

(***************************************************************************)
(* GetProposal proposes a valid chain from the base along the way to the   *)
(* head: as long as allowed, but without the tipsets of the head lookback  *)
(* and without one younger than an EC period.  Off the base's chain it     *)
(* proposes the base.                                                      *)
(***************************************************************************)
ProposalsFollowEC ==
    task.kind = "proposal" =>
        LET ec == task.ec
            chain == GetProposal(task.m, ec, task.base, task.head, task.now)
            names == [i \in DOMAIN chain |-> chain[i].key]
            way == {ts \in Range(Ancestry(ec, task.head)) :
                       task.base \in Range(Ancestry(ec, ts)) /\ ts # task.base}
            \* tipsets of the way that are far enough from the head and old enough
            ripe == {ts \in way :
                        /\ Cardinality({u \in way : ec.epoch[u] > ec.epoch[ts]})
                               >= task.m.EC.HeadLookback
                        /\ task.now - Timestamp(ec, ts) >= task.m.EC.Period}
        IN  /\ ValidChain(chain) /\ names[1] = task.base
            /\ \A i \in 2..Len(chain) : names[i] \in ripe /\ ec.parent[names[i]] = names[i - 1]
            /\ Len(chain) = Smaller(Cardinality(ripe) + 1,
                                    Smaller(ChainMaxLen, task.m.Gpbft.ChainProposedLength))

(***************************************************************************)
(* Nodes that catch up from the same certificate start the next instance   *)
(* at the same time unless that time is over for one of them, not in the   *)
(* past, and nobody starts within the EC delay of the new base.            *)
(***************************************************************************)
StartsTogether ==
    task.kind = "start" =>
        LET m == task.m
            baseTime == computeTipsetTimestampAtEpoch(task.ec, task.head, task.cert.epoch)
            start(now) == computeNextInstanceStart(m, task.ec, task.head, task.cert, task.store, now)
            late(now) == /\ m.CatchUpAlignment > 0
                         /\ Scheduled(m, baseTime, task.cert, task.store) < now - m.CatchUpAlignment
        IN  /\ start(task.now) >= baseTime + ecDelay(m)
            /\ late(task.now) =>
                  /\ start(task.now) \in task.now..(task.now + m.CatchUpAlignment - 1)
                  /\ \A now \in task.now..start(task.now) : start(now) = start(task.now)

(***************************************************************************)
(* An instance after another decision on the same base is never scheduled  *)
(* before the instance that decision would have scheduled by itself.       *)
(***************************************************************************)
BackoffGrows ==
    task.kind = "start" /\ ~task.cert.suffix =>
        LET again == [task.cert EXCEPT !.instance = @ + 1]
            store == (task.cert.instance :> FALSE) @@ task.store
        IN  Scheduled(task.m, 0, again, store) >= Scheduled(task.m, 0, task.cert, task.store)

(***************************************************************************)
(* Under every manifest that Validate accepts, nodes propose chains the    *)
(* others accept and start instances when the others do.                   *)
(***************************************************************************)
InstancesPaced == ManifestFits /\ ProposalsFollowEC /\ StartsTogether /\ BackoffGrows

-----------------------------------------------------------------------------
(***************************************************************************)
(* Everybody who waits is served: a caller of the power caching wrapper    *)
(* gets an answer although slots are taken and others give up, and Start   *)
(* and Stop of the certificate exchange server return whatever requests    *)
(* are under way.                                                          *)
(***************************************************************************)
WaitersServed == CallersAnswered /\ CallsReturn

=============================================================================
