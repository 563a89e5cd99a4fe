---------------------------- MODULE PowerTables ----------------------------
(***************************************************************************)
(* Power tables: lists of entries [id, power, key] by descending power,    *)
(* the indexed table gpbft works with, the differences that finality       *)
(* certificates carry from one table to the next, and the overrides of the *)
(* EC's tables.  A key is a name, the empty one is missing.                *)
(***************************************************************************)
EXTENDS QuorumArithmetic, Sequences, SequencesExt

NoKey == ""

\* What an operation that may fail returns.
Ok(result) == [ok |-> TRUE, result |-> result]
Error(result) == [ok |-> FALSE, result |-> result]

Less(e, f) == e.power > f.power \/ (e.power = f.power /\ e.id < f.id)

SortEntries(entries) == SortSeq(entries, Less)

TotalPower(entries) == FoldLeft(LAMBDA sum, e : sum + e.power, 0, entries)

IDs(entries) == {entries[i].id : i \in DOMAIN entries}

maxPower == 65535

scalePower(power, total) == (maxPower * power) \div total

\* Scaled: fails on an entry without power.
Scaled(entries) ==
    LET scaled == [i \in DOMAIN entries |->
                      scalePower(entries[i].power, TotalPower(entries))]
    IN  IF \E i \in DOMAIN entries : entries[i].power <= 0 THEN Error(<< >>)
        ELSE Ok(scaled)

SumOf(powers) == FoldLeft(+, 0, powers)

-----------------------------------------------------------------------------
(***************************************************************************)
(* PowerTable: Entries with their ScaledPower, Lookup from ID to index,    *)
(* and the totals.                                                         *)
(***************************************************************************)
NewPowerTable ==
    [entries |-> << >>, scaled |-> << >>, lookup |-> << >>, total |-> 0, scaledTotal |-> 0]

HasEntry(pt, id) == id \in DOMAIN pt.lookup

Refused(pt, e) == e.key = NoKey \/ HasEntry(pt, e.id) \/ e.power <= 0

\* One round of Add's loop: the entry goes to the end, still without a scaled power.
Insert(pt, e) ==
    [pt EXCEPT !.total = @ + e.power, !.entries = Append(@, e), !.scaled = Append(@, 0),
               !.lookup = (e.id :> Len(pt.entries) + 1) @@ @]

\* sort.Sort(p): Swap keeps ScaledPower and Lookup in step with the entries.
SortTable(pt) ==
    LET sorted == SortEntries(pt.entries)
    IN  [pt EXCEPT !.entries = sorted,
                   !.scaled = [i \in DOMAIN sorted |-> pt.scaled[pt.lookup[sorted[i].id]]],
                   !.lookup = [id \in DOMAIN @ |->
                                  CHOOSE i \in DOMAIN sorted : sorted[i].id = id]]

rescale(pt) ==
    LET scaled == [i \in DOMAIN pt.entries |-> scalePower(pt.entries[i].power, pt.total)]
    IN  [pt EXCEPT !.scaled = scaled, !.scaledTotal = SumOf(scaled)]

\* Add: a refused entry leaves those before it in the table, unsorted and unscaled.
AddEntries(pt, entries) ==
    LET inserted == FoldLeft(LAMBDA r, e : IF ~r.ok \/ Refused(r.result, e)
                                           THEN Error(r.result) ELSE Ok(Insert(r.result, e)),
                             Ok(pt), entries)
    IN  IF inserted.ok THEN Ok(rescale(SortTable(inserted.result))) ELSE inserted

\* Get, as the pair of scaled power and key.
GetEntry(pt, id) ==
    IF HasEntry(pt, id) THEN <<pt.scaled[pt.lookup[id]], pt.entries[pt.lookup[id]].key>>
    ELSE <<0, NoKey>>

ValidTable(pt) ==
    /\ Len(pt.entries) = Cardinality(DOMAIN pt.lookup)
    /\ Len(pt.entries) = Len(pt.scaled)
    /\ \A i \in DOMAIN pt.entries :
          LET e == pt.entries[i]
          IN  /\ HasEntry(pt, e.id) /\ pt.lookup[e.id] = i
              /\ e.key # NoKey /\ e.power > 0
              /\ i > 1 => Less(pt.entries[i - 1], e)
              /\ pt.total >= e.power /\ pt.scaled[i] = scalePower(e.power, pt.total)
    /\ pt.total = TotalPower(pt.entries)
    /\ pt.scaledTotal = SumOf(pt.scaled)

\* GetSigners: the signers' power, unless one is out of range or without effective power.
SignersPower(scaled, signers) ==
    IF \A i \in signers : i \in DOMAIN scaled /\ scaled[i] # 0
    THEN Ok(MapThenSumSet(LAMBDA i : scaled[i], signers)) ELSE Error(0)

-----------------------------------------------------------------------------
(***************************************************************************)
(* Differences: sequences of [id, delta, key], a key only where it changed.*)
(***************************************************************************)
IsZeroDelta(d) == d.delta = 0 /\ d.key = NoKey

PowerTableArrayToMap(entries) ==
    [id \in IDs(entries) |-> entries[CHOOSE i \in DOMAIN entries : entries[i].id = id]]

PowerTableMapToArray(map) == SortEntries(SetToSeq({map[id] : id \in DOMAIN map}))

MakePowerTableDiff(old, new) ==
    LET was == PowerTableArrayToMap(old)
        is == PowerTableArrayToMap(new)
        updated(id) == [id |-> id, delta |-> is[id].power - was[id].power,
                        key |-> IF is[id].key = was[id].key THEN NoKey ELSE is[id].key]
        added(id) == [id |-> id, delta |-> is[id].power, key |-> is[id].key]
        removed(id) == [id |-> id, delta |-> -was[id].power, key |-> NoKey]
    IN  SetToSortSeq(
            {d \in {updated(id) : id \in IDs(new) \cap IDs(old)} : ~IsZeroDelta(d)}
            \cup {added(id) : id \in IDs(new) \ IDs(old)}
            \cup {removed(id) : id \in IDs(old) \ IDs(new)}, LAMBDA d, e : d.id < e.id)

\* What applying a delta makes of the participant's entry, unless it is refused.
ApplyToEntry(map, d) ==
    LET known == d.id \in DOMAIN map
        power == d.delta + (IF known THEN map[d.id].power ELSE 0)
        key == IF d.key # NoKey \/ ~known THEN d.key ELSE map[d.id].key
        entry == [id |-> d.id, power |-> power, key |-> key]
        refused == \/ IsZeroDelta(d)
                   \/ known /\ d.key = map[d.id].key
                   \/ known /\ d.key # NoKey /\ power = 0
                   \/ ~known /\ (d.delta <= 0 \/ d.key = NoKey)
                   \/ power < 0
    IN  IF refused THEN Error(entry) ELSE Ok(entry)

ApplyDelta(map, d) ==
    LET entry == ApplyToEntry(map, d)
    IN  IF ~entry.ok THEN Error(map)
        ELSE IF entry.result.power = 0
             THEN Ok([id \in DOMAIN map \ {d.id} |-> map[id]])
             ELSE Ok((d.id :> entry.result) @@ map)

\* Mutant: a diff may list a participant twice.
MutantSortedByID(diff) == \A i \in 2..Len(diff) : diff[i].id >= diff[i - 1].id

SortedByID(diff) == \A i \in 2..Len(diff) : diff[i].id > diff[i - 1].id

ApplyPowerTableDiffsToMap(map, diffs) ==
    FoldLeft(LAMBDA r, diff :
                 IF r.ok /\ SortedByID(diff)
                 THEN FoldLeft(LAMBDA s, d : IF s.ok THEN ApplyDelta(s.result, d) ELSE s, r, diff)
                 ELSE Error(r.result),
             Ok(map), diffs)

ApplyPowerTableDiffs(entries, diffs) ==
    LET applied == ApplyPowerTableDiffsToMap(PowerTableArrayToMap(entries), diffs)
    IN  IF applied.ok THEN Ok(PowerTableMapToArray(applied.result)) ELSE Error(<< >>)

-----------------------------------------------------------------------------
(***************************************************************************)
(* Explicit power on top of the EC's, or instead of it.                    *)
(***************************************************************************)
trimPowerTable(entries) ==
    SubSeq(entries, 1, CHOOSE n \in 0..Len(entries) :
                           /\ n = 0 \/ entries[n].power # 0
                           /\ \A i \in (n + 1)..Len(entries) : entries[i].power = 0)

ModifiedPower(explicit, ec) ==
    LET override == PowerTableArrayToMap(explicit)
        replaced == [i \in DOMAIN ec |-> IF ec[i].id \in IDs(explicit)
                                         THEN override[ec[i].id] ELSE ec[i]]
        extra == {override[id] : id \in IDs(explicit) \ IDs(ec)}
    IN  trimPowerTable(SortEntries(replaced \o SetToSeq(extra)))

WithModifiedPower(explicit, ignoreEcPower, ec) ==
    IF ignoreEcPower THEN trimPowerTable(SortEntries(explicit))
    ELSE IF explicit = << >> THEN ec ELSE ModifiedPower(explicit, ec)

=============================================================================
