------------------------------- MODULE Pacing -------------------------------
(***************************************************************************)
(* The manifest's checks, and what its numbers decide: which chain is      *)
(* proposed and when an instance starts.                                   *)
(*                                                                         *)
(* Times and durations are integers in one unit; the float multipliers     *)
(* are in tenths.  An EC tipset is a name with an epoch, a parent and the  *)
(* timestamp of its epoch.                                                 *)
(***************************************************************************)
EXTENDS ECChains, FiniteSetsExt

Smaller(a, b) == IF a < b THEN a ELSE b

-----------------------------------------------------------------------------
(***************************************************************************)
(* Manifest: a record of its sections.                                     *)
(***************************************************************************)
ValidCxConfig(c) ==
    /\ c.ClientRequestTimeout >= 0 /\ c.ServerRequestTimeout >= 0
    /\ c.MinimumPollInterval >= 1 /\ c.MinimumPollInterval <= c.MaximumPollInterval

ValidGpbftConfig(g) ==
    /\ g.Delta > 0 /\ g.DeltaBackOffExponent >= 10 /\ g.QualityDeltaMultiplier >= 0
    /\ g.ChainProposedLength >= 1
    /\ g.RebroadcastBackoffBase > 0 /\ g.RebroadcastBackoffExponent >= 10
    /\ g.RebroadcastBackoffMax >= g.RebroadcastBackoffBase

ValidEcConfig(e) ==
    /\ e.HeadLookback >= 0 /\ e.Period > 0 /\ e.Finality >= 0 /\ e.DelayMultiplier > 0
    /\ e.BaseDecisionBackoffTable # << >>
    /\ \A i \in DOMAIN e.BaseDecisionBackoffTable : e.BaseDecisionBackoffTable[i] >= 0

\* Sections that are sizes of buffers and caches: none may be empty.
ValidPubSubConfig(p) ==
    \A f \in {"GMessageSubscriptionBufferSize", "ValidatedMessageBufferSize"} : p[f] >= 1

ValidPartialMessageManagerConfig(p) ==
    \A f \in {"PendingDiscoveredChainsBufferSize", "PendingPartialMessagesBufferSize",
              "PendingChainBroadcastsBufferSize", "PendingInstanceRemovalBufferSize",
              "CompletedMessagesBufferSize", "MaxBufferedMessagesPerInstance",
              "MaxCachedValidatedMessagesPerInstance"} : p[f] >= 1

ValidChainExchangeConfig(cx) ==
    /\ \A f \in {"SubscriptionBufferSize", "MaxChainLength", "MaxDiscoveredChainsPerInstance",
                 "MaxWantedChainsPerInstance"} : cx[f] >= 1
    /\ cx.RebroadcastInterval >= 1 /\ cx.MaxTimestampAge >= 1

ValidManifest(m) ==
    /\ m.BootstrapEpoch >= m.EC.Finality
    /\ ValidGpbftConfig(m.Gpbft) /\ ValidEcConfig(m.EC)
    /\ ValidCxConfig(m.CertificateExchange) /\ ValidPubSubConfig(m.PubSub)
    /\ ValidChainExchangeConfig(m.ChainExchange)
    /\ ValidPartialMessageManagerConfig(m.PartialMessageManager)
    /\ m.Gpbft.ChainProposedLength <= m.ChainExchange.MaxChainLength
    /\ m.ChainExchange.MaxInstanceLookahead <= m.CommitteeLookback

\* ToOptions: the rebroadcast options are the defaults, whatever the manifest says.
DefaultRebroadcast == [Base |-> 6, Max |-> 60]

GpbftOptions(m) ==
    [Delta |-> m.Gpbft.Delta, DeltaBackOffExponent |-> m.Gpbft.DeltaBackOffExponent,
     QualityDeltaMultiplier |-> m.Gpbft.QualityDeltaMultiplier,
     RebroadcastBase |-> DefaultRebroadcast.Base, RebroadcastMax |-> DefaultRebroadcast.Max]

\* The checks of gpbft's options.
GpbftOptionsAccepted(o) ==
    /\ o.Delta >= 0 /\ o.DeltaBackOffExponent >= 0 /\ o.QualityDeltaMultiplier >= 0
    /\ o.RebroadcastBase > 0 /\ o.RebroadcastMax >= o.RebroadcastBase

\* The checks of chainexchange's options, on the manifest's section.
ChainExchangeOptionsAccepted(cx) ==
    /\ \A f \in {"SubscriptionBufferSize", "MaxChainLength", "MaxDiscoveredChainsPerInstance",
                 "MaxWantedChainsPerInstance"} : cx[f] >= 1
    /\ cx.MaxTimestampAge >= 0

-----------------------------------------------------------------------------
(***************************************************************************)
(* The proposal of an instance.  ec is [epoch, parent, period, genesis]:   *)
(* the epochs and the parents of the tipsets, the first without a parent.  *)
(***************************************************************************)
Timestamp(ec, ts) == ec.genesis + ec.epoch[ts] * ec.period

\* The tipsets on the way from a tipset to the genesis, the tipset first.
RECURSIVE Ancestry(_, _)
Ancestry(ec, ts) ==
    IF ts \in DOMAIN ec.parent THEN <<ts>> \o Ancestry(ec, ec.parent[ts]) ELSE <<ts>>

\* collectChain: the tipsets after base up to head; none when the head is behind the base
\* or on a chain without it.
collectChain(ec, base, head) ==
    LET walk == Reverse(Ancestry(ec, head))
    IN  IF ec.epoch[head] < ec.epoch[base] \/ base \notin Range(walk) THEN << >>
        ELSE SelectSeq(walk, LAMBDA ts : ec.epoch[ts] > ec.epoch[base])

DropLast(seq, n) == SubSeq(seq, 1, Len(seq) - n)

\* Mutant: a head that was just produced is proposed.
MutantTrimmed(m, ec, chain, now) == DropLast(chain, Smaller(m.EC.HeadLookback, Len(chain)))

\* The tipsets left after the head lookback and the youngest tipset are taken off.
Trimmed(m, ec, chain, now) ==
    LET behind == DropLast(chain, Smaller(m.EC.HeadLookback, Len(chain)))
    IN  IF behind # << >> /\ now - Timestamp(ec, behind[Len(behind)]) < m.EC.Period
        THEN DropLast(behind, 1) ELSE behind

\* GetProposal: the base and a bounded suffix; the power table of a tipset is its own.
GetProposal(m, ec, base, head, now) ==
    LET tipset(ts) == [epoch |-> ec.epoch[ts], key |-> ts, powerTable |-> ts]
        chain == Trimmed(m, ec, collectChain(ec, base, head), now)
        suffixLen == Smaller(ChainMaxLen, m.Gpbft.ChainProposedLength) - 1
    IN  <<tipset(base)>> \o [i \in 1..Smaller(suffixLen, Len(chain)) |-> tipset(chain[i])]

-----------------------------------------------------------------------------
(***************************************************************************)
(* The start of the next instance.                                         *)
(***************************************************************************)
computeTipsetTimestampAtEpoch(ec, head, epoch) ==
    Timestamp(ec, head) + (epoch - ec.epoch[head]) * ec.period

ecDelay(m) == (m.EC.DelayMultiplier * m.EC.Period) \div 10

\* How many instances right before the certificate's decided on their base: store maps the
\* instances in the certificate store to whether their chain has a suffix.
Attempts(initial, instance, store) ==
    Cardinality({i \in (initial + 1)..(instance - 1) :
                    \A k \in i..(instance - 1) : k \in DOMAIN store /\ ~store[k]})

\* backoffTable[attempts], or its last element beyond its end.  The first is never used
\* unless it is the only one.
BackoffStep(table, attempt) == table[Smaller(attempt + 1, Len(table))]

Backoff(m, attempts) ==
    (ecDelay(m) * (20 + MapThenSumSet(LAMBDA a : BackoffStep(m.EC.BaseDecisionBackoffTable, a),
                                      1..attempts))) \div 10

\* When the instance after the certificate's should start, before any alignment.
Scheduled(m, baseTime, cert, store) ==
    LET delay == IF cert.suffix \/ cert.instance = m.InitialInstance THEN ecDelay(m)
                 ELSE Backoff(m, Attempts(m.InitialInstance, cert.instance, store))
    IN  baseTime + delay + m.EC.Period * m.EC.HeadLookback

\* The next multiple of the alignment after the base.
Aligned(m, baseTime, now) ==
    LET delay == now - baseTime
        offset == delay % m.CatchUpAlignment
    IN  baseTime + delay + (IF offset > 0 THEN m.CatchUpAlignment - offset ELSE 0)

computeNextInstanceStart(m, ec, head, cert, store, now) ==
    LET baseTime == computeTipsetTimestampAtEpoch(ec, head, cert.epoch)
        start == Scheduled(m, baseTime, cert, store)
    IN  IF m.CatchUpAlignment > 0 /\ start < now - m.CatchUpAlignment
        THEN Aligned(m, baseTime, now) ELSE start

=============================================================================
