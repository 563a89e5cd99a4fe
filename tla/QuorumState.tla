---------------------------- MODULE QuorumState ----------------------------
(***************************************************************************)
(* quorumState and convergeState: what a member has received for one phase *)
(* of one round.                                                           *)
(*                                                                         *)
(* A justification is the vote its aggregate signature is over, a record   *)
(* [phase, round, value]; who signed it and the signature bytes are left   *)
(* out, since validateJustification has accepted it before it gets here.   *)
(***************************************************************************)
EXTENDS PowerQuorums, ECChain, TLC

Justification(ph, r, v) == [phase |-> ph, round |-> r, value |-> v]

-----------------------------------------------------------------------------
(***************************************************************************)
(* quorumState: received maps each sender to the set of values counted for *)
(* it (one value, or each prefix in QUALITY); justs is                     *)
(* receivedJustification.                                                  *)
(***************************************************************************)
newQuorumState == [received |-> << >>, justs |-> << >>]

\* receiveSender drops everything but the first message of a sender.
ReceiveValues(q, sender, values) ==
    IF sender \in DOMAIN q.received THEN q
    ELSE [q EXCEPT !.received = @ @@ (sender :> values)]

Receive(q, sender, value) == ReceiveValues(q, sender, {value})

ReceiveEachPrefix(q, sender, value) ==
    ReceiveValues(q, sender, AllPrefixes(value) \ {BaseChain(value)})

\* Mutant: justifications of received votes are not kept.
MutantReceiveJustification(q, value, just) == q

\* Only the first justification for a value is kept.
ReceiveJustification(q, value, just) ==
    IF value \in DOMAIN q.justs THEN q
    ELSE [q EXCEPT !.justs = @ @@ (value :> just)]

ListAllValues(q) == UNION {q.received[s] : s \in DOMAIN q.received}

ChainSupport(q, v) == {s \in DOMAIN q.received : v \in q.received[s]}

ReceivedFromStrongQuorum(q) == Strong(DOMAIN q.received)

ReceivedFromWeakQuorum(q) == Weak(DOMAIN q.received)

HasStrongQuorumFor(q, v) == Strong(ChainSupport(q, v))

CouldReachStrongQuorumFor(q, v, withAdversary) ==
    CouldReachStrong(ChainSupport(q, v), DOMAIN q.received, withAdversary)

\* GetJustificationOf as the set of answers it may give, empty for nil.  The
\* key of bottom asks for a justification of bottom under any value.
JustificationsOf(q, ph, key) ==
    {j \in {q.justs[v] : v \in IF IsZero(key) THEN DOMAIN q.justs
                               ELSE DOMAIN q.justs \cap {key}} :
        j.phase = ph /\ (IsZero(key) => IsZero(j.value))}

\* Mutant: the preferred chain is returned when no prefix has a quorum.
MutantLongestPrefix(q, preferred) == preferred

FindStrongQuorumValueForLongestPrefixOf(q, preferred) ==
    LET supported == {c \in AllPrefixes(preferred) : HasStrongQuorumFor(q, c)}
    IN  IF supported = {} THEN BaseChain(preferred)
        ELSE CHOOSE c \in supported : \A d \in supported : Len(d) <= Len(c)

\* Mutant: a weak quorum is enough.
MutantStrongQuorumValues(q) == {v \in ListAllValues(q) : Weak(ChainSupport(q, v))}

\* FindStrongQuorumValue as a set: it panics when there is more than one.
StrongQuorumValues(q) == {v \in ListAllValues(q) : HasStrongQuorumFor(q, v)}

-----------------------------------------------------------------------------
(***************************************************************************)
(* convergeState: values maps each proposed chain to its first             *)
(* justification and whether any ticket ranks it (a self-reported value    *)
(* has rank +Inf).  Ranks come from a VRF; any ticketed value may be best. *)
(***************************************************************************)
newConvergeState == [senders |-> {}, values |-> << >>]

SetSelfValue(c, value, just) ==
    IF value \in DOMAIN c.values THEN c
    ELSE [c EXCEPT !.values = @ @@ (value :> [just |-> just, ticketed |-> FALSE])]

ReceiveConverge(c, sender, value, just) ==
    IF sender \in c.senders THEN c
    ELSE [senders |-> c.senders \cup {sender},
          values  |-> IF value \in DOMAIN c.values
                      THEN [c.values EXCEPT ![value].ticketed = TRUE]
                      ELSE c.values @@ (value :> [just |-> just, ticketed |-> TRUE])]

\* The chains FindBestTicketProposal may return when the filter admits `ok'.
BestTicketProposals(c, ok) ==
    LET admitted == DOMAIN c.values \cap ok
        ticketed == {v \in admitted : c.values[v].ticketed}
    IN  IF ticketed # {} THEN ticketed ELSE admitted

ConvergeJustificationsOf(c, ph, key) ==
    {j \in {c.values[v].just : v \in IF IsZero(key) THEN DOMAIN c.values
                                     ELSE DOMAIN c.values \cap {key}} :
        j.phase = ph /\ (IsZero(key) => IsZero(j.value))}

=============================================================================
