------------------------- MODULE MessageValidation -------------------------
(***************************************************************************)
(* How a vote is built and signed, sent without its chain, completed, and  *)
(* validated, with the cache of what was validated before.                 *)
(*                                                                         *)
(* A message is [sender, vote, signature, ticket, just]; a vote is         *)
(* [instance, round, phase, supp, value], a justification [vote, signers,  *)
(* signature] or Nil.  A partial message also has its chain's key.  A      *)
(* signature is the key that made it and the payload.                      *)
(***************************************************************************)
EXTENDS PowerTables, ECChains

CONSTANTS
    NetworkName, Beacon,
    CommitteeLookback,  \* instances ahead whose committee is known
    Committee           \* the power table of the instances the validator sees

Nil == << >>

\* Payload.MarshalForSigningWithValueKey and vrfSerializeSigInput
PayloadWithKey(vote, key) ==
    <<"GPBFT", NetworkName, vote.phase, vote.round, vote.instance, vote.supp, key>>

TicketPayload(instance, round) == <<"VRF", NetworkName, Beacon, instance, round>>

Sign(key, payload) == [key |-> key, payload |-> payload]

\* Verifier.Verify of a single signature.
Verify(key, payload, signature) == signature # Nil /\ signature = Sign(key, payload)

\* MessageBuilder.Build: the inputs prepared, signed, and put together.
BuildMessage(id, vote, withTicket, just) ==
    LET entry == GetEntry(Committee, id)
    IN  IF entry[1] = 0 \/ entry[2] = NoKey THEN Error(Nil)
        ELSE Ok([sender |-> id, vote |-> vote, just |-> just,
                 signature |-> Sign(entry[2], PayloadWithKey(vote, Key(vote.value))),
                 ticket |-> IF withTicket
                            THEN Sign(entry[2], TicketPayload(vote.instance, vote.round))
                            ELSE Nil])

-----------------------------------------------------------------------------
(***************************************************************************)
(* Partial messages: ToPartialGMessage takes the chains out of a message,  *)
(* CompleteMessage puts the chain of the key back.                         *)
(***************************************************************************)
WithoutValue(j) == IF j = Nil THEN j ELSE [j EXCEPT !.vote.value = Bottom]

ToPartialGMessage(m) ==
    [msg |-> [m EXCEPT !.vote.value = Bottom, !.just = WithoutValue(@)],
     key |-> Key(m.vote.value)]

inferJustificationVoteValue(m) ==
    IF /\ m.just # Nil
       /\ \/ m.vote.phase \in {"CONVERGE", "PREPARE", "COMMIT"} /\ m.just.vote.phase = "PREPARE"
          \/ m.vote.phase = "DECIDE" /\ m.just.vote.phase = "COMMIT"
    THEN [m EXCEPT !.just.vote.value = m.vote.value] ELSE m

\* chain is what the chain exchange has for the key.
CompleteMessage(p, chain) ==
    IF p.key = ZeroDigest THEN p.msg
    ELSE inferJustificationVoteValue([p.msg EXCEPT !.vote.value = chain])

-----------------------------------------------------------------------------
(***************************************************************************)
(* cachingValidator.  A verdict is "valid" or the error; progress is the   *)
(* participant's [instance, round, phase].                                 *)
(***************************************************************************)
validateByProgress(current, vote) ==
    LET relevant == IF current.phase = "DECIDE" THEN vote.phase = "DECIDE"
                    ELSE \/ vote.phase \in {"QUALITY", "DECIDE"}
                         \/ vote.round + 1 >= current.round
    IN  CASE vote.instance >= current.instance + CommitteeLookback -> "NoCommittee"
          [] \/ vote.instance > current.instance
             \/ vote.instance + 1 = current.instance /\ vote.phase = "DECIDE" -> "valid"
          [] vote.instance = current.instance -> IF relevant THEN "valid" ELSE "NotRelevant"
          [] OTHER -> "TooOld"

\* What may justify a vote for the chain with the given key: phase, round, key.  The round
\* of a DECIDE's justification is free.
Expectations(vote, key) ==
    CASE vote.phase \in {"CONVERGE", "PREPARE"} ->
             {[phase |-> "COMMIT", rounds |-> {vote.round - 1}, key |-> ZeroDigest],
              [phase |-> "PREPARE", rounds |-> {vote.round - 1}, key |-> key]}
      [] vote.phase = "COMMIT" -> {[phase |-> "PREPARE", rounds |-> {vote.round}, key |-> key]}
      [] vote.phase = "DECIDE" -> {[phase |-> "COMMIT", rounds |-> Nat, key |-> key]}
      [] OTHER -> {}

\* validateJustificationSignature
ValidJustificationSignature(j, key) ==
    LET power == SignersPower(Committee.scaled, j.signers)
    IN  /\ power.ok /\ IsStrongQuorum(power.result, Committee.scaledTotal)
        /\ j.signature = [keys |-> {Committee.entries[i].key : i \in j.signers},
                          payload |-> PayloadWithKey(j.vote, key)]

\* Mutant: the key the signature was checked against is not part of the cache entry.
MutantJustificationEntry(m, key, partial) ==
    <<m.vote.instance, IF partial THEN "partial_justification" ELSE "justification", m.just>>

\* Cache entries: group, namespace, and the encoding of what was validated.
JustificationEntry(m, key, partial) ==
    <<m.vote.instance, IF partial THEN "partial_justification" ELSE "justification", m.just, key>>

MessageEntry(m, key, partial) ==
    <<m.vote.instance, IF partial THEN "partial_message" ELSE "message",
      IF partial THEN <<m, key>> ELSE <<m>>>>

\* validateJustification: whether it passes, and what the cache holds after.
ValidateJustification(cache, m, key, partial) ==
    LET j == m.just
        expected == {e \in Expectations(m.vote, key) : e.phase = j.vote.phase}
        e == CHOOSE e \in expected : TRUE
        entry == JustificationEntry(m, e.key, partial)
        fits == /\ m.vote.instance = j.vote.instance /\ m.vote.supp = j.vote.supp
                /\ ValidChain(j.vote.value) /\ expected # {}
                /\ j.vote.round \in e.rounds
                /\ partial \/ Key(j.vote.value) = e.key
    IN  IF j = Nil THEN [ok |-> FALSE, cache |-> cache]
        ELSE IF ~fits THEN [ok |-> FALSE, cache |-> cache]
        ELSE IF entry \in cache THEN [ok |-> TRUE, cache |-> cache]
        ELSE IF ValidJustificationSignature(j, e.key)
             THEN [ok |-> TRUE, cache |-> cache \cup {entry}]
             ELSE [ok |-> FALSE, cache |-> cache]

PhaseRules(m, forBottom, senderKey) ==
    CASE m.vote.phase \in {"QUALITY", "DECIDE"} -> m.vote.round = 0 /\ ~forBottom
      [] m.vote.phase = "CONVERGE" ->
             /\ m.vote.round # 0 /\ ~forBottom
             /\ Verify(senderKey, TicketPayload(m.vote.instance, m.vote.round), m.ticket)
      [] OTHER -> m.vote.phase \in {"PREPARE", "COMMIT"}

NeedsJustification(vote, forBottom) ==
    ~(\/ vote.phase = "QUALITY"
      \/ vote.phase = "PREPARE" /\ vote.round = 0
      \/ vote.phase = "COMMIT" /\ forBottom)

\* validateMessageWithVoteValueKey; for a complete message key is that of its value.
ValidateWithKey(cache, m, key, partial) ==
    LET entry == MessageEntry(m, key, partial)
        sender == GetEntry(Committee, m.sender)
        forBottom == key = ZeroDigest
        eligible == /\ sender[1] # 0 /\ ValidChain(m.vote.value)
                    /\ PhaseRules(m, forBottom, sender[2])
                    /\ Verify(sender[2], PayloadWithKey(m.vote, key), m.signature)
        justified == IF NeedsJustification(m.vote, forBottom)
                     THEN ValidateJustification(cache, m, key, partial)
                     ELSE [ok |-> m.just = Nil, cache |-> cache]
    IN  IF entry \in cache THEN [verdict |-> "valid", cache |-> cache]
        ELSE IF ~eligible THEN [verdict |-> "Invalid", cache |-> cache]
        ELSE IF justified.ok THEN [verdict |-> "valid", cache |-> justified.cache \cup {entry}]
        ELSE [verdict |-> "Invalid", cache |-> justified.cache]

ValidateMessage(cache, current, m) ==
    IF validateByProgress(current, m.vote) # "valid"
    THEN [verdict |-> validateByProgress(current, m.vote), cache |-> cache]
    ELSE ValidateWithKey(cache, m, Key(m.vote.value), FALSE)

PartiallyValidateMessage(cache, current, p) ==
    IF validateByProgress(current, p.msg.vote) # "valid"
    THEN [verdict |-> validateByProgress(current, p.msg.vote), cache |-> cache]
    ELSE ValidateWithKey(cache, p.msg, p.key, TRUE)

\* FullyValidateMessage of a completed partial message.
FullyValidateMessage(current, p) ==
    LET v == p.msg.vote
        j == p.msg.just
        expected == {e \in Expectations(v, Key(v.value)) : j # Nil /\ e.phase = j.vote.phase}
        valid == /\ ValidChain(v.value) /\ p.key = Key(v.value)
                 /\ j # Nil => \E e \in expected : Key(j.vote.value) = e.key
                 /\ p.key = ZeroDigest /\ j # Nil => IsZero(j.vote.value)
    IN  IF ValidChain(v.value) /\ p.key = Key(v.value) /\ validateByProgress(current, v) # "valid"
        THEN validateByProgress(current, v)
        ELSE IF valid THEN "valid" ELSE "Invalid"

\* pubsubValidationResultFromError
PubsubResult(verdict) ==
    CASE verdict = "Invalid" -> "Reject" [] verdict = "valid" -> "Accept" [] OTHER -> "Ignore"

=============================================================================
