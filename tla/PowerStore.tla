----------------------------- MODULE PowerStore -----------------------------
(***************************************************************************)
(* The power store (internal/powerstore/powerstore.go).  EC keeps the      *)
(* state, and so the power table, of recent tipsets only.  When F3 falls   *)
(* behind, the power store writes down how the power table changes from    *)
(* epoch to epoch before EC forgets, so that F3 finds the tables it needs  *)
(* from the last one it has certified on.                                  *)
(*                                                                         *)
(* A power table is the power of one participant, a diff of two tables the *)
(* difference.  EC never reorganises tipsets older than its finality.      *)
(***************************************************************************)
EXTENDS Integers, Sequences, SequencesExt, FiniteSetsExt

CONSTANTS Finality, BootstrapEpoch, CommitteeLookback,
          Power,          \* per epoch, the power in its tipset
          NullEpochs,     \* epochs without a tipset
          Retention,      \* how many epochs back EC has the state of
          TickEpochs,     \* epochs that may pass between two ticks
          MaxHead, MaxFaults,
          None

VARIABLES
  head,       \* EC's head epoch
  certs,      \* of the last CommitteeLookback certificates, the epoch of the head
  diffs,      \* in the datastore, per epoch
  lastStoredEpoch, lastStoredPt, initialized,
  sinceTick,  \* epochs since the last tick
  faults

memory == <<lastStoredEpoch, lastStoredPt, initialized>>
powerVars == <<head, certs, diffs, memory, sinceTick, faults>>

startThreshold == Max({(Finality * 3) \div 2, 1})
stopThreshold == Max({Finality \div 2, 1})

ASSUME ThresholdAssumption ==
  /\ Finality \in Nat \ {0} /\ BootstrapEpoch >= Finality /\ CommitteeLookback \in Nat \ {0}
  /\ Retention >= startThreshold + (MaxFaults + 1) * TickEpochs

Epochs == 0..MaxHead
Tipset(e) == e \in Epochs \ NullEpochs

\* The tipset of an epoch, or the one before a null epoch.
TipsetByEpoch(e) == Max({x \in 0..e : Tipset(x)})

----------------------------------------------------------------------------
(* EC and the certificate store *)

\* EC's GetPowerTable, which knows recent tipsets.
Available(e) == e > head - Retention

\* f3PowerBase, and the table of that instance in the certificate store.
f3PowerBase ==
  IF Len(certs) = CommitteeLookback THEN Head(certs)
  ELSE BootstrapEpoch - Finality

basePowerTable == Power[TipsetByEpoch(f3PowerBase)]

----------------------------------------------------------------------------
(* The store *)

\* ApplyPowerTableDiffs, over the diffs of some epochs.
Applied(pt, from, to) == FoldSet(LAMBDA e, x : x + diffs[e], pt, (from + 1)..to)

Stored(from, to) == (from + 1)..to \subseteq DOMAIN diffs

\* GetPowerTable: from EC, or from the base and the diffs since.
GetPowerTable(e) ==
  IF Available(e) THEN Power[e]
  ELSE IF e < f3PowerBase \/ ~Stored(f3PowerBase, e) THEN None
  ELSE Applied(basePowerTable, f3PowerBase, e)

MutantMostRecentEpoch == f3PowerBase

\* mostRecentPowerTable: as far as the diffs on disk go.
MostRecentEpoch == Max({e \in f3PowerBase..MaxHead : Stored(f3PowerBase, e)})

\* One epoch further: a null epoch changes nothing.
NextDiff(acc, e) ==
  [pt |-> IF Tipset(e) THEN Power[e] ELSE acc.pt,
   diffs |-> Append(acc.diffs, IF Tipset(e) THEN Power[e] - acc.pt ELSE 0)]

\* advance: store what has become final, up to an epoch.
Advance(from, pt, to) ==
  LET run == FoldLeft(NextDiff, [pt |-> pt, diffs |-> <<>>], [n \in 1..(to - from) |-> from + n])
      new == from + Len(run.diffs)
  IN /\ diffs' = [e \in DOMAIN diffs \cup (from + 1)..new |->
                    IF e \in (from + 1)..new THEN run.diffs[e - from] ELSE diffs[e]]
     /\ lastStoredEpoch' = new
     /\ lastStoredPt' = run.pt

\* How far it gets: to the epoch that is final, unless it fails on the way; the
\* power table of a tipset must still be there.
Reachable(from, to) ==
  {e \in from..to : \A x \in (from + 1)..e : Tipset(x) => Available(x)}

\* Only what is final.
Target == head - Finality

AdvanceOrFail(from, pt) ==
  IF from >= Target THEN lastStoredEpoch' = from /\ lastStoredPt' = pt /\ UNCHANGED <<diffs, faults>>
  ELSE LET reached == Reachable(from, Target) IN
       \/ Advance(from, pt, Max(reached)) /\ UNCHANGED faults
       \/ /\ faults < MaxFaults
          /\ faults' = faults + 1
          /\ \E e \in reached \ {Target} : Advance(from, pt, e)

\* deleteAll goes on when a deletion fails.
Clear ==
  /\ lastStoredEpoch' = -1
  /\ lastStoredPt' = None
  /\ \/ diffs' = <<>> /\ UNCHANGED faults
     \/ /\ faults < MaxFaults
        /\ faults' = faults + 1
        /\ \E left \in SUBSET DOMAIN diffs : left # {} /\ diffs' = [e \in left |-> diffs[e]]

CaughtUp == f3PowerBase > head - stopThreshold

\* Engage: go on from what is on disk.
Starting(from) == AdvanceOrFail(from, Applied(basePowerTable, f3PowerBase, from))

\* One turn of run.
Tick ==
  /\ initialized' = TRUE
  /\ sinceTick' = 0
  /\ \/ /\ ~initialized \/ lastStoredPt # None
        /\ CaughtUp
        /\ Clear
     \/ /\ lastStoredPt = None
        /\ initialized \/ ~CaughtUp
        /\ f3PowerBase > head - startThreshold
        /\ UNCHANGED <<diffs, lastStoredEpoch, lastStoredPt, faults>>
     \/ /\ lastStoredPt = None
        /\ f3PowerBase <= head - startThreshold
        /\ Starting(MostRecentEpoch)
     \/ /\ lastStoredPt # None
        /\ ~CaughtUp
        /\ AdvanceOrFail(lastStoredEpoch, lastStoredPt)
  /\ UNCHANGED <<head, certs>>

InitMemory == lastStoredEpoch = 0 /\ lastStoredPt = None /\ initialized = FALSE
NewMemory == lastStoredEpoch' = 0 /\ lastStoredPt' = None /\ initialized' = FALSE

InitPower ==
  /\ head = 0
  /\ certs = <<>>
  /\ diffs = <<>>
  /\ InitMemory
  /\ sinceTick = 0
  /\ faults = 0

----------------------------------------------------------------------------
(* Around it *)

\* The next tipset, over null epochs.
HeadAdvances ==
  \E e \in Epochs :
    /\ e > head /\ Tipset(e)
    /\ \A x \in (head + 1)..(e - 1) : ~Tipset(x)
    /\ head < BootstrapEpoch \/ sinceTick + e - head <= TickEpochs
    /\ head' = e
    /\ sinceTick' = IF head < BootstrapEpoch THEN 0 ELSE sinceTick + e - head
    /\ UNCHANGED <<certs, diffs, memory, faults>>

\* An instance finalises a tipset from the last one's head to EC's head.
Finalize(e) ==
  /\ Tipset(e)
  /\ e <= head
  /\ e >= IF certs = <<>> THEN BootstrapEpoch - Finality ELSE Last(certs)
  /\ certs' = IF Len(certs) = CommitteeLookback THEN Append(Tail(certs), e) ELSE Append(certs, e)
  /\ UNCHANGED <<head, diffs, memory, sinceTick, faults>>

----------------------------------------------------------------------------
(* Properties *)

\* No table F3 may still ask for is lost while EC forgets: from the base of the
\* next instance to the head every tipset's power table is found.  A table that
\* is found is the tipset's, also when it is put together from diffs written
\* before and after crashes, failures, deletions that went half way, and null
\* epochs.
NothingIsLost ==
  \A e \in 0..head : Tipset(e) =>
    GetPowerTable(e) \in IF e >= f3PowerBase THEN {Power[e]} ELSE {Power[e], None}
=============================================================================
