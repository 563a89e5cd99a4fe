----------------------------- MODULE CertChain -----------------------------
(***************************************************************************)
(* The generator of certificate chains and its own validation.  m is the   *)
(* manifest; ec gives for an epoch the tipset's key, its power table and   *)
(* the name of the table's CID.  What Generate draws at random is part of  *)
(* its input: the length of each proposal, the order in which members are  *)
(* asked to sign and the power they have to reach.                         *)
(***************************************************************************)
EXTENDS FinalityCerts

TipSetAt(ec, epoch) == [epoch |-> epoch, key |-> ec[epoch].key, powerTable |-> ec[epoch].cid]

BootstrapBase(m) == m.BootstrapEpoch - m.Finality

\* GetCommittee: certs are the certificates the chain has so far.
GetCommittee(m, ec, certs, instance) ==
    LET index == instance - m.CommitteeLookback - m.InitialInstance + 1
    IN  IF instance < m.InitialInstance + m.CommitteeLookback THEN Ok(ec[BootstrapBase(m)].table)
        ELSE IF index >= Len(certs) THEN Error(<< >>)
        ELSE Ok(ec[ChainHead(certs[index + 1].chain).epoch].table)

\* getSupplementalData: the CID of the next committee's table.
GetSupplementalData(m, ec, certs, instance) ==
    LET after == GetCommittee(m, ec, certs, instance + 1)
    IN  IF after.ok THEN Ok(MakePowerTableCID(after.result)) ELSE Error(<< >>)

\* generateProposal and generateRandomProposal.
GenerateProposal(m, ec, certs, instance, length) ==
    LET base == IF instance = m.InitialInstance THEN BootstrapBase(m)
                ELSE ChainHead(certs[Len(certs)].chain).epoch
    IN  [i \in 1..(IF length = 0 THEN 1 ELSE length) |-> TipSetAt(ec, base + i - 1)]

\* The members that signProportionally may ask, in the order drawn.
Candidates(table, order) ==
    SelectSeq(order, LAMBDA i : /\ i \in DOMAIN table
                                /\ scalePower(table[i].power, TotalPower(table)) # 0)

Aggregated(table, signers, payload) ==
    [keys |-> {table[i].key : i \in signers}, payload |-> payload]

\* signProportionally: the first members that reach the threshold, or all of them.
SignProportionally(table, order, threshold) ==
    LET asked == Candidates(table, order)
        power(n) == MapThenSumSet(LAMBDA k : scalePower(table[asked[k]].power, TotalPower(table)), 1..n)
        enough == {n \in 0..Len(asked) : n = Len(asked) \/ (n > 0 /\ power(n) >= threshold)}
        n == CHOOSE n \in enough : \A k \in enough : n <= k
    IN  {asked[k] : k \in 1..n}

\* A round of Generate's loop; s is [ok, certs, committee].
GenerateOne(m, ec, s, draw) ==
    LET instance == m.InitialInstance + Len(s.certs)
        after == GetCommittee(m, ec, s.certs, instance + 1)
        supp == GetSupplementalData(m, ec, s.certs, instance)
        chain == GenerateProposal(m, ec, s.certs, instance, draw.length)
        signers == SignProportionally(s.committee, draw.order, draw.threshold)
        payload == DecidePayload(instance, supp.result, chain)
    IN  IF ~s.ok \/ ~supp.ok THEN [s EXCEPT !.ok = FALSE]
        ELSE [ok |-> TRUE, committee |-> after.result,
              certs |-> Append(s.certs,
                  [instance |-> instance, chain |-> chain, powerTable |-> supp.result, signers |-> signers,
                   signature |-> Aggregated(s.committee, signers, payload),
                   delta |-> MakePowerTableDiff(s.committee, after.result)])]

\* The generator fails without returning a certificate.
Generate(m, ec, draws) ==
    LET first == GetCommittee(m, ec, << >>, m.InitialInstance)
        s == FoldLeft(LAMBDA r, draw : GenerateOne(m, ec, r, draw),
                      [ok |-> first.ok, certs |-> << >>, committee |-> first.result], draws)
    IN  IF s.ok THEN Ok(s.certs) ELSE Error(<< >>)

\* CertChain.Validate, which signs each certificate again, of a chain without certificates.
ValidateGenerated(m, ec, certs) ==
    LET committee(n) == GetCommittee(m, ec, SubSeq(certs, 1, n - 1), certs[n].instance)
        supp(n) == GetSupplementalData(m, ec, SubSeq(certs, 1, n - 1), certs[n].instance)
        signed(n) ==
            LET scaled == Scaled(committee(n).result).result
                power == SignersPower(scaled, certs[n].signers)
            IN  /\ power.ok /\ IsStrongQuorum(power.result, SumOf(scaled))
                /\ certs[n].signature = Aggregated(committee(n).result, certs[n].signers,
                       DecidePayload(certs[n].instance, certs[n].powerTable, certs[n].chain))
    IN  \A n \in DOMAIN certs :
          /\ supp(n) = Ok(certs[n].powerTable)
          /\ committee(n).ok /\ signed(n)
          /\ ApplyPowerTableDiffs(committee(n).result, <<certs[n].delta>>) = supp(n)

=============================================================================
