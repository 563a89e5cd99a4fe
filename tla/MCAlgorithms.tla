---------------------------- MODULE MCAlgorithms ----------------------------
(***************************************************************************)
(* The inputs of the algorithms.                                           *)
(***************************************************************************)
EXTENDS Algorithms

Entry(id, power, key) == [id |-> id, power |-> power, key |-> key]

\* Sequences over S of at most n elements.
UpTo(S, n) == UNION {[1..k -> S] : k \in 0..n}

\* The sorted tables over a set of entries, one entry for a participant.
TablesOver(entries) ==
    {SortEntries(SetToSeq(T)) : T \in {T \in SUBSET entries : \A e, f \in T : e.id = f.id => e = f}}

SmallTables == TablesOver({Entry(id, p, k) : id \in {1, 2}, p \in {1, 2}, k \in {"a", "b"}})

TableTasks == [kind : {"tables"}, old : SmallTables, new : SmallTables, last : SmallTables]

DiffTasks ==
    [kind : {"diff"}, old : SmallTables,
     diff : UpTo([id : {1, 2}, delta : -2..2, key : {NoKey, "a", "b"}], 2)]

AddTasks ==
    [kind : {"add"},
     first : UpTo({Entry(id, p, "a") : id \in 1..3, p \in {1, 5}}, 2),
     second : UpTo({Entry(id, p, "b") : id \in 1..3, p \in {0, 1, 5}} \cup {Entry(3, 5, NoKey)}, 2)]

OverrideTasks ==
    [kind : {"override"}, ignore : BOOLEAN,
     explicit : TablesOver({Entry(id, p, "x") : id \in 1..3, p \in {0, 2}}),
     ec : TablesOver({Entry(id, p, "e") : id \in 1..3, p \in {1, 3}})]

-----------------------------------------------------------------------------
\* Tables of three participants of whom the first makes a weak quorum and any strong one
\* needs it; the fourth is without effective power.
Big(id) == Entry(id, IF id = 1 THEN 32000 ELSE 30000, <<"a", "b", "c">>[id])
TableA == SortEntries(<<Big(1), Big(2), Big(3), Entry(4, 1, "d")>>)
TableB == SortEntries(<<Big(1), Big(2), Big(3)>>)
TableC == SortEntries(<<Big(1), Big(2), Entry(3, 30000, "z"), Entry(4, 1, "d")>>)

TipSet(epoch) == [epoch |-> epoch, key |-> "k", powerTable |-> "p"]
Tip0 == TipSet(0)
Tip1 == TipSet(1)
Tip2 == TipSet(2)

Keys(table, signers) == {table[i].key : i \in signers \cap DOMAIN table}

\* The decision on a chain in an instance, by the signers of the table.
Decision(table, instance, chain, cid, signers) ==
    [phase |-> "DECIDE", round |-> 0, instance |-> instance, powerTable |-> cid,
     value |-> chain, signers |-> signers,
     signature |-> [keys |-> Keys(table, signers), payload |-> DecidePayload(instance, cid, chain)]]

DecisionTasks ==
    {[kind |-> "decision", old |-> old, new |-> new,
      just |-> Decision(old, i, chain, new, signers)] :
        old \in {TableA, TableB, TableC}, new \in {TableA, TableB, TableC},
        i \in {0, 1}, chain \in {<<Tip0>>, <<Tip0, Tip1>>}, signers \in {{1, 2}, {1, 3}, {1, 2, 3}}}

\* A certificate of the table for the next one.
Cert(table, after, instance, chain, signers) ==
    NewFinalityCertificate(MakePowerTableDiff(table, after),
                           Decision(table, instance, chain, after, signers)).result

\* Certificates that one thing is wrong with.
Damaged(table, after, instance, chain) ==
    {Cert(table, after, instance + 1, chain, {1, 2}),
     Cert(table, after, instance, Reverse(chain), {1, 2}),
     Cert(table, after, instance, SubSeq(chain, 2, 2), {1, 2}),
     [Cert(table, after, instance, chain, {1, 2}) EXCEPT !.chain = << >>],
     [Cert(table, after, instance, chain, {1, 2}) EXCEPT !.chain = SubSeq(@, 1, 1)],
     [Cert(table, after, instance, chain, {1, 2}) EXCEPT !.signers = {1, 3}],
     [Cert(table, after, instance, chain, {1, 2}) EXCEPT !.powerTable = << >>],
     [Cert(table, after, instance, chain, {1, 2}) EXCEPT !.delta = <<[id |-> 2, delta |-> 1, key |-> NoKey]>>],
     [Cert(table, after, instance, chain, {1, 2}) EXCEPT !.delta = <<[id |-> 2, delta |-> 0, key |-> NoKey]>>],
     Cert(table, after, instance, chain, {1, 2, 9}),
     Cert(table, after, instance, chain, {1}),
     Cert(table, after, instance, chain, {})}
    \cup {Cert(table, after, instance, chain, {1, 2, 4}) : x \in {t \in {table} : Len(t) = 4}}

\* Three instances, one of their certificates damaged or none.
CertTasks ==
    LET tables == {TableA, TableB, TableC}
        chains == <<<<Tip0, Tip1>>, <<Tip1, Tip2>>, <<Tip2, TipSet(3)>>>>
    IN  UNION {
          LET honest == <<Cert(t1, t2, 1, chains[1], {1, 2}), Cert(t2, t3, 2, chains[2], {1, 3}),
                          Cert(t3, t1, 3, chains[3], {1, 2, 3})>>
              from == <<t1, t2, t3>>
              to == <<t2, t3, t1>>
              certTask(base, damage, certs) ==
                  [kind |-> "certs", table |-> t1, base |-> base, damage |-> damage, certs |-> certs]
          IN  {certTask(base, 0, SubSeq(honest, 1, n)) : base \in {NoBase, <<Tip0>>}, n \in 1..3}
              \cup {certTask(<<Tip2>>, 1, honest)}
              \cup UNION {{certTask(<<Tip0>>, d, [honest EXCEPT ![d] = bad]) :
                              bad \in Damaged(from[d], to[d], d, chains[d])} : d \in 1..3}
          : t1 \in tables, t2 \in tables, t3 \in tables}

\* Tipsets of which every third has another power table.
Tipsets ==
    [e \in 0..10 |-> [key |-> <<"k", "l">>[(e % 2) + 1],
                      table |-> <<TableA, TableB, TableC>>[(e % 3) + 1],
                      cid |-> <<"A", "B", "C">>[(e % 3) + 1]]]

\* Up to five instances; the member without effective power is asked first, last or between.
GenerateTasks ==
    {[kind |-> "generate", ec |-> Tipsets,
      draws |-> [n \in DOMAIN lengths |->
                    [length |-> lengths[n], threshold |-> threshold,
                     order |-> IF n = 2 THEN <<3, 4, 2, 1>> ELSE order]],
      m |-> [BootstrapEpoch |-> 2, Finality |-> 2, CommitteeLookback |-> lookback, InitialInstance |-> i]] :
        lengths \in UpTo(0..2, 2) \cup [1..5 -> {1, 2}], threshold \in {43690, 65000},
        order \in {<<4, 1, 3, 2>>, <<2, 1, 3, 4>>}, lookback \in {2, 3, 4}, i \in {5}}

-----------------------------------------------------------------------------
TreeTasks ==
    [kind : {"tree"}, values : UNION {[1..n -> {1, 2}] : n \in 1..6}]
    \cup {[kind |-> "tree", values |-> [i \in 1..n |-> i]] : n \in 1..17}

Chains ==
    UpTo([epoch : {0, 1}, key : {"k", "l"}, powerTable : {"p", "q"}], 1)
    \cup {<<a, b>> : a \in [epoch : {0}, key : {"k", "l"}, powerTable : {"p", "q"}],
                     b \in [epoch : {1, 2}, key : {"k", "l"}, powerTable : {"p", "q"}]}

ChainTasks == [kind : {"chains"}, one : Chains, other : Chains]

-----------------------------------------------------------------------------
MCCommittee == AddEntries(NewPowerTable, TableA).result

Good == <<Tip0, Tip1>>
Other == <<Tip0, Tip2>>
Backwards == <<Tip1, Tip0>>

Vote(instance, round, phase, supp, value) ==
    [instance |-> instance, round |-> round, phase |-> phase, supp |-> supp, value |-> value]

\* A justification signed for the key of a chain.
Just(vote, signers, signed) ==
    [vote |-> vote, signers |-> signers,
     signature |-> [keys |-> Keys(Committee.entries, signers), payload |-> PayloadWithKey(vote, Key(signed))]]

Justs ==
    {Just(Vote(10, r, p, "s", v), {1, 2}, k) :
        r \in {0, 1}, p \in {"PREPARE", "COMMIT"}, v \in {Bottom, Good, Other}, k \in {Bottom, Good}}
    \cup {Just(Vote(10, r, p, "s", Good), signers, Good) :
        r \in {0, 1}, p \in {"PREPARE", "COMMIT"}, signers \in {{1}, {1, 4}, {1, 2, 9}}}
    \cup {Just(v, {1, 2}, Good) : v \in {Vote(10, 0, "QUALITY", "s", Good),
        Vote(11, 0, "PREPARE", "s", Good), Vote(10, 0, "PREPARE", "x", Good)}}

Message(sender, vote, signed, ticket, just) ==
    [sender |-> sender, vote |-> vote, just |-> just, ticket |-> ticket,
     signature |-> Sign(GetEntry(Committee, sender)[2], PayloadWithKey(vote, Key(signed)))]

Ticket(sender, round) == Sign(GetEntry(Committee, sender)[2], TicketPayload(10, round))

VoteTasks ==
    {[kind |-> "vote", current |-> current,
      msg |-> Message(sender, Vote(10, r, p, "s", v), signed, ticket, j)] :
        current \in {[instance |-> 10, round |-> 0, phase |-> "PREPARE"]},
        sender \in {1}, r \in 0..2, p \in {"INITIAL", "QUALITY", "CONVERGE", "PREPARE", "COMMIT", "DECIDE"},
        v \in {Bottom, Good, Backwards}, signed \in {Bottom, Good},
        ticket \in {Nil, Ticket(1, 1)}, j \in Justs \cup {Nil}}
    \cup {[kind |-> "vote", current |-> current,
           msg |-> Message(sender, Vote(10, 1, "PREPARE", "s", Good), Good, Nil,
                           Just(Vote(10, 0, "COMMIT", "s", Bottom), {1, 2}, Bottom))] :
             sender \in {1, 4, 7},
             current \in [instance : 9..12, round : 0..3, phase : {"PREPARE", "DECIDE"}]}

HonestVotes ==
    {<<Vote(10, 0, "QUALITY", "s", Good), Nil>>, <<Vote(10, 0, "PREPARE", "s", Good), Nil>>}
    \cup {<<Vote(10, r, p, "s", Good), j>> : r \in {1}, p \in {"CONVERGE", "PREPARE"},
             j \in {Just(Vote(10, 0, "PREPARE", "s", Good), {1, 2}, Good),
                    Just(Vote(10, 0, "COMMIT", "s", Bottom), {1, 3}, Bottom)}}
    \cup {<<Vote(10, r, "COMMIT", "s", Good), Just(Vote(10, r, "PREPARE", "s", Good), {1, 2}, Good)>> :
             r \in {0, 1}}
    \cup {<<Vote(10, r, "COMMIT", "s", Bottom), Nil>> : r \in {0, 1}}
    \cup {<<Vote(10, 0, "DECIDE", "s", Good), Just(Vote(10, r, "COMMIT", "s", Good), {1, 2}, Good)>> :
             r \in {0, 1}}

HonestTasks ==
    {[kind |-> "honest", sender |-> sender, vote |-> v[1], just |-> v[2], current |-> current] :
        sender \in {1, 3}, v \in HonestVotes,
        current \in [instance : 7..12, round : 0..3, phase : {"INITIAL", "PREPARE", "DECIDE"}]}

\* Messages and partial messages whose justifications may be the same.
Items ==
    {[partial |-> FALSE, key |-> Nil,
      msg |-> Message(1, Vote(10, r, p, "s", v), v, Ticket(1, 1), j)] :
        r \in {0, 1}, p \in {"CONVERGE", "COMMIT", "DECIDE"}, v \in {Good, Other},
        j \in {x \in Justs : x.signers = {1, 2} /\ x.vote.round = 0}}

PartialItems ==
    {[partial |-> TRUE, key |-> Key(x.msg.vote.value),
      msg |-> ToPartialGMessage(x.msg).msg] : x \in Items}

PairTasks ==
    LET current == [instance |-> 10, round |-> 0, phase |-> "PREPARE"]
        items == Items \cup PartialItems
        accepted == {x \in items : ValidateItem({}, current, x).verdict = "valid"}
    IN  [kind : {"pair"}, current : {current}, one : accepted, other : items]

-----------------------------------------------------------------------------
DefaultManifest ==
    [BootstrapEpoch |-> 4, CommitteeLookback |-> 3, CatchUpAlignment |-> 5, InitialInstance |-> 0,
     Gpbft |-> [Delta |-> 6, DeltaBackOffExponent |-> 20, QualityDeltaMultiplier |-> 10,
                ChainProposedLength |-> 3, RebroadcastBackoffBase |-> 6,
                RebroadcastBackoffExponent |-> 13, RebroadcastBackoffMax |-> 60],
     EC |-> [Period |-> 10, Finality |-> 2, DelayMultiplier |-> 20, HeadLookback |-> 0,
             BaseDecisionBackoffTable |-> <<13, 17, 22>>],
     CertificateExchange |-> [ClientRequestTimeout |-> 10, ServerRequestTimeout |-> 60,
                              MinimumPollInterval |-> 10, MaximumPollInterval |-> 40],
     PubSub |-> [GMessageSubscriptionBufferSize |-> 2, ValidatedMessageBufferSize |-> 2],
     ChainExchange |-> [SubscriptionBufferSize |-> 2, MaxChainLength |-> 4,
                        MaxInstanceLookahead |-> 3, MaxDiscoveredChainsPerInstance |-> 2,
                        MaxWantedChainsPerInstance |-> 2, RebroadcastInterval |-> 2,
                        MaxTimestampAge |-> 8],
     PartialMessageManager |->
        [f \in {"PendingDiscoveredChainsBufferSize", "PendingPartialMessagesBufferSize",
                "PendingChainBroadcastsBufferSize", "PendingInstanceRemovalBufferSize",
                "CompletedMessagesBufferSize", "MaxBufferedMessagesPerInstance",
                "MaxCachedValidatedMessagesPerInstance"} |-> 2]]

\* The default with a field changed, in the section that tells its fields apart.
Changed ==
    LET D == DefaultManifest
        section(s, fields) == {[D EXCEPT ![s][f] = x] : f \in fields, x \in {-1, 0, 1, 5, 200}}
    IN  section("Gpbft", DOMAIN D.Gpbft)
        \cup section("EC", DOMAIN D.EC \ {"BaseDecisionBackoffTable"})
        \cup {[D EXCEPT !.EC.BaseDecisionBackoffTable = t] : t \in {<< >>, <<13>>, <<13, -1>>}}
        \cup section("CertificateExchange", DOMAIN D.CertificateExchange)
        \cup section("PubSub", DOMAIN D.PubSub)
        \cup section("ChainExchange", DOMAIN D.ChainExchange)
        \cup section("PartialMessageManager", DOMAIN D.PartialMessageManager)

\* Bounds of the manifest that relate two sections.
ManifestTasks ==
    {[kind |-> "manifest", m |-> [[m EXCEPT !.BootstrapEpoch = b] EXCEPT !.ChainExchange.MaxChainLength = l]] :
        m \in Changed, b \in {-1, 0, 4}, l \in {0, 1, 4}}
    \cup {[kind |-> "manifest", m |-> m] : m \in Changed}

\* Block trees: with null rounds, with a fork.
Line == [epoch |-> [a |-> 0, b |-> 1, c |-> 3, d |-> 4, e |-> 5],
         parent |-> [b |-> "a", c |-> "b", d |-> "c", e |-> "d"], period |-> 10, genesis |-> 100]
Fork == [epoch |-> [a |-> 0, b |-> 1, c |-> 2, d |-> 2, e |-> 3],
         parent |-> [b |-> "a", c |-> "b", d |-> "b", e |-> "d"], period |-> 10, genesis |-> 100]

ProposalTasks ==
    UNION {{[kind |-> "proposal", ec |-> ec, base |-> base, head |-> head,
             now |-> Timestamp(ec, head) + age,
             m |-> [[DefaultManifest EXCEPT !.Gpbft.ChainProposedLength = l] EXCEPT !.EC.HeadLookback = back]] :
                base \in DOMAIN ec.epoch, head \in DOMAIN ec.epoch, age \in {0, 9, 10, 25},
                l \in 1..4, back \in 0..2} : ec \in {Line, Fork}}

StartTasks ==
    {[kind |-> "start", ec |-> Line, head |-> head, now |-> now, store |-> store,
      cert |-> [instance |-> i, epoch |-> epoch, suffix |-> suffix],
      m |-> [[[DefaultManifest EXCEPT !.CatchUpAlignment = align]
                 EXCEPT !.EC.BaseDecisionBackoffTable = table] EXCEPT !.EC.HeadLookback = back]] :
        head \in {"c", "e"}, now \in {100, 151, 178, 203, 260}, epoch \in {1, 4},
        i \in {0, 1, 3, 4}, suffix \in BOOLEAN, align \in {0, 7},
        table \in {<<13>>, <<10, 30, 5>>}, back \in {0, 1},
        store \in {[k \in {1, 2, 3} |-> FALSE], [k \in {1, 2, 3} |-> k = 2], [k \in {3} |-> FALSE]}}

MCTasks ==
    UNION {TableTasks, DiffTasks, AddTasks, OverrideTasks, DecisionTasks, CertTasks, GenerateTasks,
           TreeTasks, ChainTasks, VoteTasks, HonestTasks, PairTasks, ManifestTasks, ProposalTasks, StartTasks,
           [kind : {"predict", "cache", "power", "server"}]}

=============================================================================
