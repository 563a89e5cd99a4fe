--------------------------- MODULE FinalityCerts ---------------------------
(***************************************************************************)
(* Finality certificates: [instance, chain, powerTable, signers, signature,*)
(* delta].  powerTable is the CID of the next table in the supplemental    *)
(* data and a CID stands for what it is the hash of.  An aggregate         *)
(* signature is the keys that signed and the payload they signed.          *)
(***************************************************************************)
EXTENDS PowerTables, ECChains

\* The payload of a decision: always DECIDE in round 0.
DecidePayload(instance, powerTable, chain) ==
    <<"DECIDE", 0, instance, powerTable, Key(chain)>>

\* NewFinalityCertificate, from a justification [phase, round, instance, powerTable, value,
\* signers, signature].
NewFinalityCertificate(delta, j) ==
    IF j.phase # "DECIDE" \/ j.round # 0 \/ IsZero(j.value) THEN Error(<< >>)
    ELSE Ok([instance |-> j.instance, chain |-> j.value, powerTable |-> j.powerTable,
             signers |-> j.signers, signature |-> j.signature, delta |-> delta])

MakePowerTableCID(entries) == entries

\* VerifyAggregate of a signature by the keys at the masked positions.
VerifyAggregate(entries, mask, payload, signature) ==
    signature = [keys |-> {entries[i].key : i \in mask}, payload |-> payload]

\* verifyFinalityCertificateSignature
VerifyCertificate(entries, cert) ==
    LET scaled == Scaled(entries)
        power == SignersPower(scaled.result, cert.signers)
    IN  /\ scaled.ok /\ power.ok
        /\ IsStrongQuorum(power.result, SumOf(scaled.result))
        /\ VerifyAggregate(entries, cert.signers,
               DecidePayload(cert.instance, cert.powerTable, cert.chain), cert.signature)

NoBase == << >>

\* A step of the loop over the certificates in ValidateFinalityCertificates: the state is
\* what it would return, with the base the next certificate has to have.
ValidateCertificate(s, cert) ==
    LET applied == ApplyPowerTableDiffs(s.table, <<cert.delta>>)
        valid == /\ cert.instance = s.next
                 /\ ValidChain(cert.chain) /\ ~IsZero(cert.chain)
                 /\ s.base # NoBase => s.base = BaseChain(cert.chain)
                 /\ VerifyCertificate(s.table, cert)
                 /\ applied.ok /\ cert.powerTable = MakePowerTableCID(applied.result)
    IN  IF ~s.ok \/ ~valid THEN [s EXCEPT !.ok = FALSE]
        ELSE [ok |-> TRUE, next |-> s.next + 1, chain |-> s.chain \o Suffix(cert.chain),
              table |-> applied.result, base |-> <<ChainHead(cert.chain)>>]

Validation(table, next, base) ==
    [ok |-> TRUE, next |-> next, chain |-> << >>, table |-> table, base |-> base]

\* Mutant: the base of the first certificate is required of all.
MutantValidateFinalityCertificates(table, next, base, certs) ==
    FoldLeft(LAMBDA s, cert : [ValidateCertificate(s, cert) EXCEPT !.base = base],
             Validation(table, next, base), certs)

\* Without any certificate the table returned is nil, not the one passed in.
ValidateFinalityCertificates(table, next, base, certs) ==
    IF certs = << >> THEN Validation(<< >>, next, base)
    ELSE FoldLeft(ValidateCertificate, Validation(table, next, base), certs)

=============================================================================
