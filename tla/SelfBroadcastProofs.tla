------------------------ MODULE SelfBroadcastProofs ------------------------
(***************************************************************************)
(* Proofs about SelfBroadcast, for every number of slots, signatures,      *)
(* instances, failures and restarts.                                       *)
(*                                                                         *)
(* Known is every message the node has committed itself to: on disk,       *)
(* published, or past the filter.  As long as the log could be written,    *)
(* Known has one signature in each slot, because while the process runs    *)
(* everything known is of an instance it will not broadcast in again, or   *)
(* is in the filter.  A restart brings that about from the log, which      *)
(* holds all that was published of instances not yet decided.              *)
(***************************************************************************)
EXTENDS SelfBroadcast, TLAPS, WellFoundedInduction

SetOf(s) == {s[i] : i \in DOMAIN s}

EntriesOf(F) == UNION {SetOf(f.entries) : f \in F}

Known == Entries \cup published \cup selfMessages \cup Messages(inflight)

LoggedOnes == Messages({b \in inflight : b.logged})

\* Nothing known is of an instance that has not begun.
Bounded == \A m \in Known : m.instance <= nextInstance

\* What holds whether or not appends fail.
RunInv ==
    /\ TypeOK
    /\ Bounded
    /\ \A m \in filter.seen : m.instance = filter.instance
    /\ ~up => inflight = {} /\ selfMessages = {}
    /\ \A m \in own \cup Messages(inflight) :
          m.instance < filter.instance \/ m \in filter.seen
    /\ \A m, n \in own \cup Messages(inflight) : ~Conflict(m, n)

\* The files' epochs bound their entries, and the file written to is whole.
FilesSound ==
    up => /\ \A f \in SetOf(files) \cup SetOf(active) :
                \A m \in SetOf(f.entries) : m.instance <= f.maxEpoch
          /\ \A f \in SetOf(active) : ~f.torn

OneSignature == \A m, n \in Known : ~Conflict(m, n)

Covered ==
    up => \A m \in Known : \/ m.instance < since
                           \/ m.instance < filter.instance
                           \/ m \in filter.seen

Durable ==
    \A m \in published \cup selfMessages \cup LoggedOnes :
        m \in Entries \/ m.instance < nextInstance

LogInv ==
    /\ FilesSound
    /\ OneSignature
    /\ Covered
    /\ Durable
    /\ RestartRebroadcasts

Inv == RunInv /\ (failures = 0 => LogInv)

-----------------------------------------------------------------------------
(***************************************************************************)
(* Minima and maxima of sets of naturals.                                  *)
(***************************************************************************)
\* A non-empty set of naturals has a least element.
LEMMA LeastElement ==
    ASSUME NEW S, S \subseteq Nat, S # {}
    PROVE  \E x \in S : \A y \in S : x <= y
<1>1. IsWellFoundedOn(OpToRel(<, Nat), Nat)
  BY Zenon, NatLessThanWellFounded
<1>2. PICK x \in S : \A y \in S : ~(<<y, x>> \in OpToRel(<, Nat))
  BY Zenon, <1>1, WFMin
<1>3. \A y \in S : ~(y < x)
  BY Zenon, <1>2 DEF OpToRel
<1> QED
  BY <1>3

\* Latest is the maximum of a bounded set of instances.
LEMMA LatestIsMax ==
    ASSUME NEW S, S \subseteq Nat, NEW b \in Nat, \A d \in S : d <= b
    PROVE  /\ Latest(S) \in Nat
           /\ S # {} => Latest(S) \in S
           /\ \A d \in S : d <= Latest(S)
<1>1. CASE S = {}
  BY <1>1 DEF Latest
<1>2. CASE S # {}
  <2> DEFINE U == {u \in Nat : \A d \in S : d <= u}
  <2>1. PICK u \in U : \A x \in U : u <= x
    <3>1. b \in U
      OBVIOUS
    <3> QED
      BY Zenon, <3>1, LeastElement
  <2>2. u \in S
    <3>1. SUFFICES ASSUME u \notin S PROVE FALSE
      OBVIOUS
    <3>2. PICK d \in S : TRUE
      BY Zenon, <1>2
    <3>3. u > 0
      BY <3>1, <3>2, <2>1
    <3>4. u - 1 \in U
      BY <3>1, <3>3, <2>1
    <3> QED
      BY <3>4, <2>1
  <2>3. \E e \in S : \A d \in S : d <= e
    BY <2>1, <2>2
  <2> QED
    BY Zenon, <1>2, <2>3 DEF Latest
<1> QED
  BY <1>1, <1>2

-----------------------------------------------------------------------------
(***************************************************************************)
(* The log as a set of files.                                              *)
(***************************************************************************)
\* Concatenation unites the elements.
LEMMA SetOfConcat ==
    ASSUME NEW S, NEW s \in Seq(S), NEW t \in Seq(S)
    PROVE  SetOf(s \o t) = SetOf(s) \cup SetOf(t)
<1>1. SetOf(s \o t) \subseteq SetOf(s) \cup SetOf(t)
  BY DEF SetOf
<1>2. SetOf(s) \subseteq SetOf(s \o t)
  BY DEF SetOf
<1>3. SetOf(t) \subseteq SetOf(s \o t)
  <2> SUFFICES ASSUME NEW i \in 1..Len(t) PROVE t[i] \in SetOf(s \o t)
    BY DEF SetOf
  <2>1. Len(s) + i \in DOMAIN (s \o t) /\ (s \o t)[Len(s) + i] = t[i]
    OBVIOUS
  <2> QED
    BY <2>1 DEF SetOf
<1> QED
  BY <1>1, <1>2, <1>3

\* A file's entries are messages.
LEMMA FileEntries ==
    ASSUME NEW f \in File
    PROVE  SetOf(f.entries) \subseteq Message
  BY DEF File, SetOf

\* The entries at all positions of a log are the entries of its files.
LEMMA PositionsCoverFiles ==
    ASSUME NEW L
    PROVE  {L[p[1]].entries[p[2]] :
                p \in UNION {{i} \X DOMAIN L[i].entries : i \in DOMAIN L}}
           = EntriesOf(SetOf(L))
<1> DEFINE P == UNION {{i} \X DOMAIN L[i].entries : i \in DOMAIN L}
<1>1. \A p \in P : L[p[1]].entries[p[2]] \in EntriesOf(SetOf(L))
  BY DEF EntriesOf, SetOf
<1>2. ASSUME NEW i \in DOMAIN L, NEW j \in DOMAIN L[i].entries
      PROVE  \E p \in P : L[p[1]].entries[p[2]] = L[i].entries[j]
  <2>1. <<i, j>> \in P
    OBVIOUS
  <2> QED
    BY <2>1
<1> QED
  BY <1>1, <1>2 DEF EntriesOf, SetOf

\* Entries are the entries of the closed files and of the active one.
LEMMA EntriesAreOfFiles ==
    ASSUME files \in Seq(File), active \in Seq(File)
    PROVE  Entries = EntriesOf(SetOf(files) \cup SetOf(active))
<1>1. SetOf(Log) = SetOf(files) \cup SetOf(active)
  BY SetOfConcat DEF Log
<1>2. Entries = EntriesOf(SetOf(Log))
  BY PositionsCoverFiles DEF Entries, Positions, Entry
<1> QED
  BY <1>1, <1>2

\* A step that leaves the files alone leaves the entries alone.
LEMMA SameEntries ==
    ASSUME UNCHANGED <<files, active>>
    PROVE  Entries' = Entries
<1>1. Log' = Log
  BY DEF Log
<1> QED
  BY <1>1 DEF Entries, Positions, Entry

\* The same after a step.
LEMMA EntriesAreOfFilesNext ==
    ASSUME files' \in Seq(File), active' \in Seq(File)
    PROVE  Entries' = EntriesOf(SetOf(files') \cup SetOf(active'))
<1>1. SetOf(Log') = SetOf(files') \cup SetOf(active')
  BY SetOfConcat DEF Log
<1>2. Entries' = EntriesOf(SetOf(Log'))
  BY PositionsCoverFiles DEF Entries, Positions, Entry
<1> QED
  BY <1>1, <1>2

\* The current file is a file.
LEMMA CurrentFile ==
    ASSUME TypeOK
    PROVE  Current \in File
<1>1. NewFile \in File
  BY DEF NewFile, File
<1>2. active # <<>> => Head(active) \in File
  BY DEF TypeOK
<1> QED
  BY <1>1, <1>2 DEF Current, Rotates

\* Everything known is a message.
LEMMA KnownAreMessages ==
    ASSUME TypeOK
    PROVE  Known \subseteq Message
<1>1. Entries \subseteq Message
  <2>1. \A f \in SetOf(files) \cup SetOf(active) : f \in File
    BY DEF TypeOK, SetOf
  <2> QED
    BY <2>1, FileEntries, EntriesAreOfFiles DEF TypeOK, EntriesOf
<1>2. Messages(inflight) \subseteq Message
  BY DEF TypeOK, Messages
<1> QED
  BY <1>1, <1>2 DEF TypeOK, Known

\* Rotation and the write of a file g in place of the current one: the closed
\* files with the current one hold what the log held, with g what it holds now.
LEMMA Writing ==
    ASSUME TypeOK, NEW g \in File, files' = Closed, active' = <<g>>
    PROVE  /\ files' \in Seq(File) /\ active' \in Seq(File) /\ Len(active') <= 1
           /\ Current \in File
           /\ Current = NewFile \/ Current \in SetOf(active)
           /\ SetOf(files') \subseteq SetOf(files) \cup SetOf(active)
           /\ SetOf(active') = {g}
           /\ Entries = EntriesOf(SetOf(files')) \cup SetOf(Current.entries)
           /\ Entries' = EntriesOf(SetOf(files')) \cup SetOf(g.entries)
<1> USE DEF TypeOK
<1>1. NewFile \in File /\ SetOf(NewFile.entries) = {}
  BY DEF NewFile, File, SetOf
<1>2. active' \in Seq(File) /\ Len(active') <= 1 /\ SetOf(active') = {g}
  BY DEF SetOf
<1>3. active # <<>> => active = <<Head(active)>> /\ Head(active) \in File
  OBVIOUS
<1>4. Entries = EntriesOf(SetOf(files) \cup SetOf(active))
  BY EntriesAreOfFiles
<1>5. CASE Rotates
  <2>1. files' \in Seq(File) /\ SetOf(files') = SetOf(files) \cup SetOf(active)
    BY <1>5, SetOfConcat DEF Closed
  <2>2. Current = NewFile
    BY <1>5 DEF Current
  <2>3. Entries' = EntriesOf(SetOf(files') \cup SetOf(active'))
    BY <1>2, <2>1, EntriesAreOfFilesNext
  <2> QED
    BY <1>1, <1>2, <1>4, <2>1, <2>2, <2>3 DEF EntriesOf
<1>6. CASE ~Rotates
  <2>1. files' = files
    BY <1>6 DEF Closed
  <2>2. Current = Head(active) /\ active = <<Current>> /\ Current \in File
    BY <1>3, <1>6 DEF Current, Rotates
  <2>3. SetOf(active) = {Current}
    BY <2>2 DEF SetOf
  <2>4. Entries' = EntriesOf(SetOf(files') \cup SetOf(active'))
    BY <1>2, <2>1, EntriesAreOfFilesNext
  <2> QED
    BY <1>2, <1>4, <2>1, <2>2, <2>3, <2>4 DEF EntriesOf
<1> QED
  BY <1>5, <1>6

\* Writing m to a file adds at most m to it, and m if the file is whole.
LEMMA WrittenFile ==
    ASSUME NEW f \in File, NEW m \in Message
    PROVE  /\ Written(f, m) \in File
           /\ Written(f, m).torn = f.torn /\ Written(f, m).maxEpoch = f.maxEpoch
           /\ SetOf(f.entries) \subseteq SetOf(Written(f, m).entries)
           /\ SetOf(Written(f, m).entries) \subseteq SetOf(f.entries) \cup {m}
           /\ ~f.torn => m \in SetOf(Written(f, m).entries)
<1>1. CASE f.torn
  BY Zenon, <1>1 DEF Written
<1>2. CASE ~f.torn
  <2> DEFINE e == f.entries
             a == Append(e, m)
  <2>1. /\ e \in Seq(Message)
        /\ Written(f, m) = [entries |-> a, torn |-> f.torn, maxEpoch |-> f.maxEpoch]
    BY Zenon, <1>2 DEF File, Written
  <2>2. a \in Seq(Message) /\ Len(a) = Len(e) + 1 /\ a[Len(a)] = m
        /\ \A i \in 1..Len(e) : a[i] = e[i]
    BY <2>1
  <2>3. SetOf(a) = SetOf(e) \cup {m}
    <3> HIDE DEF a, e
    <3>1. DOMAIN a = 1..(Len(e) + 1) /\ DOMAIN e = 1..Len(e) /\ Len(e) \in Nat
      BY <2>1, <2>2
    <3> QED
      BY <3>1, <2>2 DEF SetOf
  <2> QED
    BY <1>2, <2>1, <2>2, <2>3 DEF File
<1> QED
  BY <1>1, <1>2 DEF File

-----------------------------------------------------------------------------
(***************************************************************************)
(* RunInv is kept by every step.                                           *)
(***************************************************************************)
\* The fields of a call.
LEMMA CallFields ==
    ASSUME NEW m \in Message, NEW l \in BOOLEAN
    PROVE  /\ Call(m, l) \in [msg : Message, logged : BOOLEAN]
           /\ Call(m, l).msg = m /\ Call(m, l).logged = l
  BY DEF Call

\* Adding a call adds its message.
LEMMA AddedCall ==
    ASSUME NEW S, NEW m \in Message, NEW l \in BOOLEAN
    PROVE  Messages(S \cup {Call(m, l)}) = Messages(S) \cup {m}
<1>1. Call(m, l).msg = m
  BY CallFields
<1> QED
  BY <1>1 DEF Messages

\* A message that passes the filter contradicts nothing the filter covers, and
\* what the filter covered it still covers.
LEMMA FilterStep ==
    ASSUME TypeOK, NEW m \in Message, Process(m),
           \A n \in filter.seen : n.instance = filter.instance
    PROVE  /\ filter' \in [instance : Nat, seen : SUBSET Message]
           /\ filter'.instance = m.instance /\ m.instance >= filter.instance
           /\ \A n \in filter'.seen : n.instance = filter'.instance
           /\ m \in filter'.seen
           /\ \A n \in Message :
                 n.instance < filter.instance \/ n \in filter.seen =>
                    /\ n.instance < filter'.instance \/ n \in filter'.seen
                    /\ ~Conflict(m, n) /\ ~Conflict(n, m)
<1> USE DEF TypeOK, Message
<1>1. /\ filter' = [instance |-> m.instance, seen |-> Seen(m) \cup {m}]
      /\ m.instance >= filter.instance
      /\ \A n \in Seen(m) : n.slot = m.slot => n.sig = m.sig
  BY DEF Process, Allowed
<1>2. Seen(m) \subseteq filter.seen /\ \A n \in Seen(m) : n.instance = m.instance
  BY <1>1 DEF Seen
<1>3. /\ filter' \in [instance : Nat, seen : SUBSET Message]
      /\ \A n \in filter'.seen : n.instance = filter'.instance
      /\ m \in filter'.seen
  BY <1>1, <1>2
<1>4. ASSUME NEW n \in Message, n.instance < filter.instance \/ n \in filter.seen
      PROVE  /\ n.instance < filter'.instance \/ n \in filter'.seen
             /\ ~Conflict(m, n) /\ ~Conflict(n, m)
  <2>1. CASE n.instance < filter.instance
    BY <1>1, <2>1 DEF Conflict
  <2>2. CASE n \in filter.seen /\ m.instance > filter.instance
    BY <1>1, <2>2 DEF Conflict
  <2>3. CASE n \in filter.seen /\ m.instance = filter.instance
    <3>1. n \in Seen(m)
      BY <2>3 DEF Seen
    <3> QED
      BY <1>1, <3>1 DEF Conflict
  <2> QED
    BY <1>1, <1>4, <2>1, <2>2, <2>3
<1> QED
  BY <1>1, <1>3, <1>4

\* BroadcastMessage up to the log.
LEMMA BroadcastRun ==
    ASSUME RunInv, NEW m \in Message, BroadcastMessage(m)
    PROVE  RunInv'
<1> USE DEF RunInv, TypeOK
<1>1. Process(m) /\ up /\ inflight' = inflight \cup {Call(m, FALSE)}
      /\ UNCHANGED <<files, active, nextInstance, up, since, selfMessages,
                     published, own, failures, restarts>>
  BY DEF BroadcastMessage, disk
<1>2. Messages(inflight)' = Messages(inflight) \cup {m}
  BY Zenon, <1>1, AddedCall
<1>3. inflight' \subseteq [msg : Message, logged : BOOLEAN]
  BY Zenon, <1>1, CallFields
<1>4. Messages(inflight) \subseteq Message /\ own \subseteq Message
  BY DEF Messages
<1>5. ~Conflict(m, m)
  BY DEF Conflict
<1>6. /\ filter' \in [instance : Nat, seen : SUBSET Message]
      /\ \A n \in filter'.seen : n.instance = filter'.instance
      /\ m \in filter'.seen
      /\ \A n \in own \cup Messages(inflight) :
            /\ n.instance < filter'.instance \/ n \in filter'.seen
            /\ ~Conflict(m, n) /\ ~Conflict(n, m)
  BY <1>1, <1>4, FilterStep
<1>7. \A n \in (own \cup Messages(inflight))' :
          n.instance < filter'.instance \/ n \in filter'.seen
  BY <1>1, <1>2, <1>6
<1>8. \A n, k \in (own \cup Messages(inflight))' : ~Conflict(n, k)
  BY <1>1, <1>2, <1>5, <1>6
<1>9. Entries' = Entries
  BY <1>1, SameEntries
<1>10. Bounded'
  BY <1>1, <1>2, <1>9 DEF Bounded, Known, BroadcastMessage
<1> QED
  BY Zenon, <1>1, <1>3, <1>6, <1>7, <1>8, <1>10

\* A message on its way through Append stays in flight.
LEMMA ProceedMessages ==
    ASSUME TypeOK, NEW m \in Message, Proceed(m)
    PROVE  /\ Messages(inflight)' = Messages(inflight)
           /\ m \in Messages(inflight)
           /\ inflight' \subseteq [msg : Message, logged : BOOLEAN]
           /\ LoggedOnes' = LoggedOnes \cup {m}
<1>1. /\ Call(m, FALSE) \in inflight
      /\ inflight' = (inflight \ {Call(m, FALSE)}) \cup {Call(m, TRUE)}
      /\ inflight \subseteq [msg : Message, logged : BOOLEAN]
  BY Zenon DEF TypeOK, Proceed
<1>2. /\ Call(m, TRUE) \in [msg : Message, logged : BOOLEAN]
      /\ Call(m, TRUE).msg = m /\ Call(m, TRUE).logged = TRUE
      /\ Call(m, FALSE).msg = m /\ Call(m, FALSE).logged = FALSE
  BY Zenon, CallFields
<1>3. Messages(inflight)' = Messages(inflight) /\ m \in Messages(inflight)
  BY Zenon, <1>1, <1>2 DEF Messages
<1>4. LoggedOnes' = LoggedOnes \cup {m}
  BY Zenon, <1>1, <1>2 DEF LoggedOnes, Messages
<1> QED
  BY Zenon, <1>1, <1>2, <1>3, <1>4

\* A successful append leaves the log well-typed and adds m, if anything.
LEMMA AppendLog ==
    ASSUME TypeOK, NEW m \in Message, AppendEntry(m)
    PROVE  /\ files' \in Seq(File) /\ active' \in Seq(File) /\ Len(active') <= 1
           /\ Entries \subseteq Entries' /\ Entries' \subseteq Entries \cup {m}
           /\ (\A f \in SetOf(active) : ~f.torn) =>
                 /\ m \in Entries'
                 /\ \A f \in SetOf(active') : ~f.torn
           /\ \A f \in SetOf(files') : f \in SetOf(files) \cup SetOf(active)
           /\ \A f \in SetOf(active') :
                 /\ m.instance <= f.maxEpoch
                 /\ SetOf(f.entries) \subseteq SetOf(Current.entries) \cup {m}
                 /\ Current.maxEpoch <= f.maxEpoch
           /\ Current = NewFile \/ Current \in SetOf(active)
<1> DEFINE g == [Written(Current, m) EXCEPT !.maxEpoch = Larger(@, m.instance)]
<1>1. files' = Closed /\ active' = <<g>>
  BY DEF AppendEntry
<1>2. Current \in File
  BY CurrentFile
<1> DEFINE h == Written(Current, m)
<1>3. /\ h \in File /\ h.torn = Current.torn /\ h.maxEpoch = Current.maxEpoch
      /\ SetOf(Current.entries) \subseteq SetOf(h.entries)
      /\ SetOf(h.entries) \subseteq SetOf(Current.entries) \cup {m}
      /\ ~Current.torn => m \in SetOf(h.entries)
  BY <1>2, WrittenFile
<1>4. /\ g \in File /\ g.entries = h.entries /\ g.torn = h.torn
      /\ m.instance <= g.maxEpoch /\ h.maxEpoch <= g.maxEpoch
  <2> HIDE DEF h
  <2>1. m.instance \in Nat /\ h.maxEpoch \in Nat
    BY <1>3 DEF File, Message
  <2>2. g = [entries |-> h.entries, torn |-> h.torn,
             maxEpoch |-> Larger(h.maxEpoch, m.instance)]
    BY <1>3 DEF File, h
  <2>3. Larger(h.maxEpoch, m.instance) \in Nat
        /\ m.instance <= Larger(h.maxEpoch, m.instance)
        /\ h.maxEpoch <= Larger(h.maxEpoch, m.instance)
    BY <2>1 DEF Larger
  <2> QED
    BY <1>3, <2>2, <2>3 DEF File
<1> HIDE DEF g, h
<1>5. /\ files' \in Seq(File) /\ active' \in Seq(File) /\ Len(active') <= 1
      /\ Current = NewFile \/ Current \in SetOf(active)
      /\ SetOf(files') \subseteq SetOf(files) \cup SetOf(active)
      /\ SetOf(active') = {g}
      /\ Entries = EntriesOf(SetOf(files')) \cup SetOf(Current.entries)
      /\ Entries' = EntriesOf(SetOf(files')) \cup SetOf(g.entries)
  BY <1>1, <1>4, Writing
<1>6. ~NewFile.torn
  BY DEF NewFile
<1> QED
  BY <1>3, <1>4, <1>5, <1>6

\* So does one that fails, or that a crash cuts short.
LEMMA TornLog ==
    ASSUME TypeOK, NEW m \in Message, files' = Closed,
           \/ active' = <<[Current EXCEPT !.torn = TRUE]>>
           \/ active' = <<Written(Current, m)>>
    PROVE  /\ files' \in Seq(File) /\ active' \in Seq(File) /\ Len(active') <= 1
           /\ Entries \subseteq Entries' /\ Entries' \subseteq Entries \cup {m}
<1>1. Current \in File
  BY CurrentFile
<1> DEFINE t == [Current EXCEPT !.torn = TRUE]
           h == Written(Current, m)
<1>2. t \in File /\ t.entries = Current.entries
  BY Zenon, <1>1 DEF File
<1>3. /\ h \in File
      /\ SetOf(Current.entries) \subseteq SetOf(h.entries)
      /\ SetOf(h.entries) \subseteq SetOf(Current.entries) \cup {m}
  BY <1>1, WrittenFile
<1>4. active' = <<t>> \/ active' = <<h>>
  OBVIOUS
<1> HIDE DEF t, h
<1>5. PICK g \in {t, h} : active' = <<g>>
  BY <1>4
<1>6. /\ g \in File
      /\ SetOf(Current.entries) \subseteq SetOf(g.entries)
      /\ SetOf(g.entries) \subseteq SetOf(Current.entries) \cup {m}
  BY <1>2, <1>3
<1>7. /\ files' \in Seq(File) /\ active' \in Seq(File) /\ Len(active') <= 1
      /\ Entries = EntriesOf(SetOf(files')) \cup SetOf(Current.entries)
      /\ Entries' = EntriesOf(SetOf(files')) \cup SetOf(g.entries)
  BY <1>5, <1>6, Writing
<1> QED
  BY <1>6, <1>7

\* Append, whether it succeeds or not.
LEMMA AppendRun ==
    ASSUME RunInv, NEW m \in Message, AppendEntry(m) \/ AppendFails(m)
    PROVE  RunInv'
<1> USE DEF RunInv
<1>1. Proceed(m)
  BY DEF AppendEntry, AppendFails
<1>2. /\ files' \in Seq(File) /\ active' \in Seq(File) /\ Len(active') <= 1
      /\ Entries' \subseteq Entries \cup {m}
  <2>1. CASE AppendEntry(m)
    BY <2>1, AppendLog
  <2>2. CASE UNCHANGED <<files, active>>
    BY <2>2, SameEntries DEF TypeOK
  <2>3. CASE /\ files' = Closed
             /\ \/ active' = <<[Current EXCEPT !.torn = TRUE]>>
                \/ active' = <<Written(Current, m)>>
    BY <2>3, TornLog
  <2>4. CASE files' = Closed /\ active' = IF Rotates THEN <<>> ELSE active
    <3>1. files' \in Seq(File) /\ active' \in Seq(File) /\ Len(active') <= 1
      BY <2>4 DEF TypeOK, Closed
    <3>2. Log' = Log
      <4>1. (files \o active) \o <<>> = files \o active
        BY DEF TypeOK
      <4> QED
        BY <2>4, <4>1 DEF Log, Closed
    <3> QED
      BY <3>1, <3>2 DEF Entries, Positions, Entry
  <2> QED
    BY <2>1, <2>2, <2>3, <2>4 DEF AppendFails
<1>3. failures' \in 0..MaxFailures
  BY BoundsAssumption DEF AppendEntry, AppendFails, TypeOK
<1>4. /\ Messages(inflight)' = Messages(inflight)
      /\ m \in Messages(inflight)
      /\ inflight' \subseteq [msg : Message, logged : BOOLEAN]
  BY <1>1, ProceedMessages
<1>5. UNCHANGED <<nextInstance, up, since, filter, selfMessages, published, own,
                  restarts>> /\ up
  BY <1>1 DEF Proceed
<1>6. TypeOK'
  BY <1>2, <1>3, <1>4, <1>5 DEF TypeOK
<1>7. Bounded'
  BY <1>2, <1>4, <1>5 DEF Bounded, Known
<1> QED
  BY <1>4, <1>5, <1>6, <1>7

\* The end of BroadcastMessage: the message moves from inflight to own.
LEMMA PublishRun ==
    ASSUME RunInv, NEW m \in Message, Publish(m)
    PROVE  RunInv' /\ m \in LoggedOnes /\ Messages(inflight)' \subseteq Messages(inflight)
           /\ LoggedOnes' \subseteq LoggedOnes
<1> USE DEF RunInv
<1>1. /\ Call(m, TRUE) \in inflight
      /\ inflight' = inflight \ {Call(m, TRUE)}
      /\ selfMessages' = selfMessages \cup {m}
      /\ published' \subseteq published \cup {m} /\ own' = own \cup {m}
      /\ UNCHANGED <<files, active, nextInstance, up, since, filter, failures,
                     restarts>>
      /\ up
  BY Zenon DEF Publish, Send, disk
<1>2. m \in LoggedOnes /\ m \in Messages(inflight)
  BY Zenon, <1>1, CallFields DEF LoggedOnes, Messages
<1>3. /\ Messages(inflight)' \subseteq Messages(inflight)
      /\ LoggedOnes' \subseteq LoggedOnes
  BY Zenon, <1>1 DEF LoggedOnes, Messages
<1>4. TypeOK'
  BY Zenon, <1>1 DEF TypeOK
<1>5. (own \cup Messages(inflight))' \subseteq own \cup Messages(inflight)
  BY Zenon, <1>1, <1>2, <1>3
<1>6. Entries' = Entries
  BY <1>1, SameEntries
<1>7. Bounded'
  BY <1>1, <1>2, <1>3, <1>6 DEF Bounded, Known
<1> QED
  BY Zenon, <1>1, <1>2, <1>3, <1>4, <1>5, <1>7

\* A rebroadcast passes the filter again.
LEMMA RebroadcastRun ==
    ASSUME RunInv, NEW m \in Message, Rebroadcast(m)
    PROVE  RunInv'
<1> USE DEF RunInv
<1>1. /\ Process(m) /\ up
      /\ published' \subseteq published \cup {m} /\ own' = own \cup {m}
      /\ UNCHANGED <<files, active, nextInstance, up, since, selfMessages,
                     inflight, failures, restarts>>
  BY DEF Rebroadcast, Send, disk
<1>2. Messages(inflight) \subseteq Message /\ own \subseteq Message
  BY DEF TypeOK, Messages
<1>3. ~Conflict(m, m)
  BY DEF Conflict
<1>4. /\ filter' \in [instance : Nat, seen : SUBSET Message]
      /\ \A n \in filter'.seen : n.instance = filter'.instance
      /\ m \in filter'.seen
      /\ \A n \in own \cup Messages(inflight) :
            /\ n.instance < filter'.instance \/ n \in filter'.seen
            /\ ~Conflict(m, n) /\ ~Conflict(n, m)
  BY <1>1, <1>2, FilterStep
<1>5. TypeOK'
  BY <1>1, <1>4 DEF TypeOK
<1>6. (own \cup Messages(inflight))' = own \cup Messages(inflight) \cup {m}
  BY <1>1
<1>7. Entries' = Entries
  BY <1>1, SameEntries
<1>8. Bounded'
  BY <1>1, <1>7 DEF Bounded, Known, Rebroadcast
<1> QED
  BY <1>1, <1>3, <1>4, <1>5, <1>6, <1>8

\* Purge removes entries, and no file that is kept.
LEMMA PurgeLog ==
    ASSUME TypeOK, Finalize
    PROVE  /\ files' \in Seq(File) /\ active' = active
           /\ Entries' \subseteq Entries
           /\ SetOf(files') \subseteq SetOf(files) \cup {NewFile}
           /\ \A f \in SetOf(files) : Kept(f) => f \in SetOf(files')
<1> DEFINE P == [i \in DOMAIN files |-> IF Kept(files[i]) THEN files[i] ELSE NewFile]
<1>1. NewFile \in File /\ SetOf(NewFile.entries) = {}
  BY DEF NewFile, File, SetOf
<1>2. files \in Seq(File) /\ active \in Seq(File)
  BY DEF TypeOK
<1>3. files' = files \/ files' = P
  BY DEF Finalize
<1>4. P \in Seq(File) /\ DOMAIN P = DOMAIN files
  BY <1>1, <1>2
<1>5. /\ SetOf(P) \subseteq SetOf(files) \cup {NewFile}
      /\ \A f \in SetOf(files) : Kept(f) => f \in SetOf(P)
  BY DEF SetOf
<1> HIDE DEF P
<1>6. /\ files' \in Seq(File) /\ active' = active
      /\ SetOf(files') \subseteq SetOf(files) \cup {NewFile}
      /\ \A f \in SetOf(files) : Kept(f) => f \in SetOf(files')
  BY Zenon, <1>2, <1>3, <1>4, <1>5 DEF Finalize
<1>7. Entries = EntriesOf(SetOf(files) \cup SetOf(active))
  BY <1>2, EntriesAreOfFiles
<1>8. Entries' = EntriesOf(SetOf(files') \cup SetOf(active'))
  BY <1>2, <1>6, EntriesAreOfFilesNext
<1>9. Entries' \subseteq Entries
  BY <1>1, <1>6, <1>7, <1>8 DEF EntriesOf
<1> QED
  BY <1>6, <1>9

\* The finalizer.
LEMMA FinalizeRun ==
    ASSUME RunInv, Finalize
    PROVE  RunInv'
<1> USE DEF RunInv
<1>1. /\ up /\ selfMessages' \subseteq selfMessages
      /\ UNCHANGED <<active, nextInstance, up, since, filter, inflight,
                     published, own, failures, restarts>>
  BY DEF Finalize
<1>2. files' \in Seq(File) /\ Entries' \subseteq Entries
  BY PurgeLog
<1>3. TypeOK'
  BY <1>1, <1>2 DEF TypeOK
<1>4. Bounded'
  BY <1>1, <1>2 DEF Bounded, Known
<1> QED
  BY <1>1, <1>3, <1>4

\* A certificate opens the next instance.
LEMMA CertificateRun ==
    ASSUME RunInv, PutCertificate
    PROVE  RunInv'
<1> USE DEF RunInv
<1>1. /\ nextInstance' = nextInstance + 1 /\ nextInstance \in Nat
      /\ UNCHANGED <<files, active, up, since, filter, selfMessages, inflight,
                     published, own, failures, restarts>>
  BY DEF PutCertificate, TypeOK
<1>2. Entries' = Entries
  BY <1>1, SameEntries
<1>3. TypeOK'
  BY <1>1 DEF TypeOK
<1>4. Known \subseteq Message
  BY KnownAreMessages
<1>5. Bounded'
  BY <1>1, <1>2, <1>4 DEF Bounded, Known, Message
<1> QED
  BY <1>1, <1>3, <1>5

\* A crash loses what is in memory, and may leave part of an append behind.
LEMMA CrashLog ==
    ASSUME TypeOK, Crash
    PROVE  /\ files' \in Seq(File) /\ active' \in Seq(File) /\ Len(active') <= 1
           /\ Entries \subseteq Entries'
           /\ Entries' \subseteq Entries \cup Messages(inflight)
<1>1. CASE UNCHANGED <<files, active>>
  BY <1>1, SameEntries DEF TypeOK
<1>2. CASE ~UNCHANGED <<files, active>>
  <2>1. PICK b \in inflight :
             /\ files' = Closed
             /\ \/ active' = <<[Current EXCEPT !.torn = TRUE]>>
                \/ active' = <<Written(Current, b.msg)>>
    BY <1>2 DEF Crash
  <2>2. b.msg \in Message /\ b.msg \in Messages(inflight)
    BY DEF TypeOK, Messages
  <2> QED
    BY <2>1, <2>2, TornLog
<1> QED
  BY <1>1, <1>2

\* The crash as a step.
LEMMA CrashRun ==
    ASSUME RunInv, Crash
    PROVE  RunInv'
<1> USE DEF RunInv
<1>1. /\ up' = FALSE /\ inflight' = {} /\ selfMessages' = {}
      /\ UNCHANGED <<nextInstance, since, filter, published, own, failures, restarts>>
  BY DEF Crash
<1>2. /\ files' \in Seq(File) /\ active' \in Seq(File) /\ Len(active') <= 1
      /\ Entries' \subseteq Entries \cup Messages(inflight)
  BY CrashLog
<1>3. Messages(inflight)' = {}
  BY <1>1 DEF Messages
<1>4. TypeOK'
  BY Zenon, <1>1, <1>2 DEF TypeOK
<1>5. Bounded'
  BY <1>1, <1>2, <1>3 DEF Bounded, Known
<1> QED
  BY <1>1, <1>3, <1>4, <1>5

\* Hydrated files hold what was in the log, under epochs that bound it.
LEMMA HydratedLog ==
    ASSUME TypeOK, Bounded, Restart
    PROVE  /\ files' \in Seq(File) /\ active' = <<>>
           /\ Entries' = Entries
           /\ \A f \in SetOf(files') : \A m \in SetOf(f.entries) :
                 m.instance <= f.maxEpoch
<1>1. /\ files' = [i \in DOMAIN Log |-> Hydrated(Log[i])]
      /\ active' = <<>>
  BY DEF Restart
<1>2. Log \in Seq(File)
  BY DEF TypeOK, Log
<1>3. ASSUME NEW f \in SetOf(Log)
      PROVE  /\ Hydrated(f) \in File
             /\ Hydrated(f).entries = f.entries
             /\ \A m \in SetOf(f.entries) : m.instance <= Hydrated(f).maxEpoch
  <2>1. f \in File
    BY <1>2 DEF SetOf
  <2> DEFINE S == {f.entries[i].instance : i \in DOMAIN f.entries}
  <2>2. \A m \in SetOf(f.entries) : m \in Message /\ m.instance <= nextInstance
    <3>1. SetOf(f.entries) \subseteq Entries
      BY PositionsCoverFiles DEF Entries, Positions, Entry, EntriesOf
    <3> QED
      BY <3>1, <2>1, FileEntries DEF Bounded, Known
  <2>3. S \subseteq Nat /\ \A d \in S : d <= nextInstance
    BY <2>2 DEF SetOf, Message
  <2>4. Latest(S) \in Nat /\ \A d \in S : d <= Latest(S)
    BY <2>3, LatestIsMax DEF TypeOK
  <2>5. \A m \in SetOf(f.entries) : m.instance \in S
    BY DEF SetOf
  <2> HIDE DEF S
  <2>6. Hydrated(f) = [entries |-> f.entries, torn |-> f.torn, maxEpoch |-> Latest(S)]
    BY <2>1 DEF Hydrated, File, S
  <2> QED
    BY <2>1, <2>4, <2>5, <2>6 DEF File
<1>4. files' \in Seq(File)
  BY <1>1, <1>2, <1>3 DEF SetOf
<1>5. SetOf(files') = {Hydrated(f) : f \in SetOf(Log)}
  BY <1>1 DEF SetOf
<1>6. Entries = EntriesOf(SetOf(Log))
  BY PositionsCoverFiles DEF Entries, Positions, Entry
<1>7. Entries' = EntriesOf(SetOf(files'))
  <2>1. Log' = files'
    BY <1>1, <1>4 DEF Log
  <2> QED
    BY <2>1, PositionsCoverFiles DEF Entries, Positions, Entry
<1>8. Entries' = Entries
  BY <1>3, <1>5, <1>6, <1>7 DEF EntriesOf
<1> QED
  BY <1>1, <1>3, <1>4, <1>5, <1>8

\* LastLogged is the latest instance in the log.
LEMMA LastLoggedIsLatest ==
    ASSUME TypeOK, Bounded
    PROVE  /\ LastLogged \in Nat
           /\ \A m \in Entries : m.instance <= LastLogged
           /\ Entries # {} => \E m \in Entries : m.instance = LastLogged
<1> DEFINE S == {m.instance : m \in Entries}
<1>1. Entries \subseteq Message /\ \A m \in Entries : m.instance <= nextInstance
  BY KnownAreMessages DEF Bounded, Known
<1>2. S \subseteq Nat /\ \A d \in S : d <= nextInstance
  BY <1>1 DEF Message
<1>3. Latest(S) \in Nat /\ (S # {} => Latest(S) \in S) /\ \A d \in S : d <= Latest(S)
  BY Zenon, <1>2, LatestIsMax DEF TypeOK
<1>4. LastLogged = Latest(S)
  BY DEF LastLogged
<1> QED
  BY SMTT(30), <1>3, <1>4

\* A non-empty set of positions has a first one.
LEMMA FirstPosition ==
    ASSUME NEW Q, Q \subseteq Nat \X Nat, Q # {}
    PROVE  \E q \in Q : \A r \in Q : ~Before(r, q)
<1> DEFINE A == {q[1] : q \in Q}
<1>1. PICK a \in A : \A x \in A : a <= x
  <2>1. A \subseteq Nat /\ A # {}
    OBVIOUS
  <2> QED
    BY Zenon, <2>1, LeastElement
<1> DEFINE B == {q[2] : q \in {r \in Q : r[1] = a}}
<1>2. PICK b \in B : \A x \in B : b <= x
  <2>1. B \subseteq Nat /\ B # {}
    OBVIOUS
  <2> QED
    BY Zenon, <2>1, LeastElement
<1>3. PICK q \in Q : q[1] = a /\ q[2] = b
  OBVIOUS
<1>4. ASSUME NEW r \in Q PROVE ~Before(r, q)
  <2>1. r[1] \in A /\ (r[1] = a => r[2] \in B)
    OBVIOUS
  <2>2. r[1] \in Nat /\ r[2] \in Nat /\ a \in Nat /\ b \in Nat
    BY <1>3
  <2> QED
    BY <1>1, <1>2, <1>3, <2>1, <2>2 DEF Before
<1> QED
  BY <1>4

\* The rebuilt filter has an entry for every slot of its instance in the log.
LEMMA ReplayedFilter ==
    ASSUME TypeOK, Bounded
    PROVE  /\ Replayed \in [instance : Nat, seen : SUBSET Message]
           /\ Replayed.instance = LastLogged
           /\ Replayed.seen \subseteq Entries
           /\ \A m \in Replayed.seen : m.instance = LastLogged
           /\ \A m \in Entries : m.instance = LastLogged =>
                 \E n \in Replayed.seen : n.slot = m.slot
<1> DEFINE R == {q \in Positions :
                    /\ Entry(q).instance = LastLogged
                    /\ \A r \in Positions :
                          Entry(r).instance = LastLogged /\ Entry(r).slot = Entry(q).slot
                          => ~Before(r, q)}
<1>1. Replayed = [instance |-> LastLogged, seen |-> {Entry(p) : p \in R}]
  BY DEF Replayed
<1>2. Entries \subseteq Message
  BY KnownAreMessages DEF Known
<1>3. {Entry(p) : p \in R} \subseteq Entries
  BY DEF Entries
<1>4. \A m \in {Entry(p) : p \in R} : m.instance = LastLogged
  OBVIOUS
<1>5. ASSUME NEW m \in Entries, m.instance = LastLogged
      PROVE  \E n \in {Entry(p) : p \in R} : n.slot = m.slot
  <2> DEFINE Q == {q \in Positions : Entry(q).instance = LastLogged
                                     /\ Entry(q).slot = m.slot}
  <2>1. Positions \subseteq Nat \X Nat
    <3>1. Log \in Seq(File)
      BY DEF TypeOK, Log
    <3>2. ASSUME NEW i \in DOMAIN Log
          PROVE  i \in Nat /\ DOMAIN Log[i].entries \subseteq Nat
      <4>1. i \in Nat /\ Log[i] \in File
        BY <3>1
      <4> QED
        BY <4>1 DEF File
    <3> QED
      BY <3>2 DEF Positions
  <2>2. Q # {}
    BY <1>5 DEF Entries
  <2>3. PICK q \in Q : \A r \in Q : ~Before(r, q)
    BY Zenon, <2>1, <2>2, FirstPosition
  <2>4. q \in R
    BY <2>3
  <2> QED
    BY <2>3, <2>4
<1> HIDE DEF R
<1>6. LastLogged \in Nat
  BY LastLoggedIsLatest
<1> QED
  BY <1>1, <1>2, <1>3, <1>4, <1>5, <1>6

\* A restart begins with nothing of its own, and the log.
LEMMA RestartRun ==
    ASSUME RunInv, Restart
    PROVE  RunInv'
<1> USE DEF RunInv
<1>1. /\ up' = TRUE /\ since' = nextInstance /\ filter' = Replayed /\ own' = {}
      /\ selfMessages' = {m \in Entries : m.instance = LastLogged}
      /\ restarts < MaxRestarts /\ restarts' = restarts + 1
      /\ UNCHANGED <<nextInstance, inflight, published, failures>>
      /\ inflight = {}
  BY DEF Restart
<1>2. files' \in Seq(File) /\ active' = <<>> /\ Entries' = Entries
  BY HydratedLog
<1>3. /\ filter' \in [instance : Nat, seen : SUBSET Message]
      /\ \A m \in filter'.seen : m.instance = filter'.instance
  BY SMTT(30), <1>1, ReplayedFilter
<1>4. (own \cup Messages(inflight))' = {}
  BY <1>1 DEF Messages
<1>5. Entries \subseteq Message
  BY KnownAreMessages DEF Known
<1>6. TypeOK'
  BY SMTT(30), <1>1, <1>2, <1>3, <1>5, BoundsAssumption DEF TypeOK
<1>7. Bounded'
  BY <1>1, <1>2 DEF Bounded, Known
<1> QED
  BY <1>1, <1>3, <1>4, <1>6, <1>7

-----------------------------------------------------------------------------
(***************************************************************************)
(* LogInv is kept by every step of a run in which no append has failed.    *)
(***************************************************************************)
\* BroadcastMessage up to the log: what is known of the instance is in the
\* filter, which m has passed.
LEMMA BroadcastLog ==
    ASSUME RunInv, LogInv, NEW m \in Message, BroadcastMessage(m)
    PROVE  LogInv'
<1> USE DEF RunInv, LogInv
<1>1. /\ Process(m) /\ up /\ m.instance \in since..nextInstance
      /\ inflight' = inflight \cup {Call(m, FALSE)}
      /\ UNCHANGED <<files, active, nextInstance, up, since, selfMessages,
                     published, own, failures, restarts>>
  BY SMTT(30) DEF BroadcastMessage, disk
<1>2. Entries' = Entries
  BY <1>1, SameEntries
<1>3. Known' = Known \cup {m}
  <2>1. Messages(inflight') = Messages(inflight) \cup {m}
    BY Zenon, <1>1, AddedCall
  <2> QED
    BY Zenon, <1>1, <1>2, <2>1 DEF Known
<1>4. LoggedOnes' = LoggedOnes
  <2>1. Call(m, FALSE).logged = FALSE
    BY Zenon, CallFields
  <2> QED
    BY Zenon, <1>1, <2>1 DEF LoggedOnes, Messages
<1>5. Known \subseteq Message
  BY SMTT(30), KnownAreMessages
<1>6. /\ filter'.instance = m.instance /\ m \in filter'.seen
      /\ \A n \in Message :
            n.instance < filter.instance \/ n \in filter.seen =>
               /\ n.instance < filter'.instance \/ n \in filter'.seen
               /\ ~Conflict(m, n) /\ ~Conflict(n, m)
  BY <1>1, FilterStep
<1>7. ASSUME NEW n \in Known PROVE ~Conflict(m, n) /\ ~Conflict(n, m)
  <2>1. CASE n.instance < since
    <3>1. since \in Nat /\ n.instance \in Nat /\ m.instance \in Nat
      BY <1>5 DEF TypeOK, Message
    <3> QED
      BY <1>1, <2>1, <3>1 DEF Conflict
  <2>2. CASE n.instance < filter.instance \/ n \in filter.seen
    BY <1>5, <1>6, <2>2
  <2> QED
    BY <1>1, <2>1, <2>2 DEF Covered
<1>8. OneSignature'
  <2>1. ~Conflict(m, m)
    BY DEF Conflict
  <2> QED
    BY <1>3, <1>7, <2>1 DEF OneSignature
<1>9. Covered'
  BY <1>1, <1>3, <1>5, <1>6 DEF Covered
<1>10. Durable' /\ RestartRebroadcasts'
  BY SMTT(30), <1>1, <1>2, <1>4 DEF Durable, RestartRebroadcasts
<1>11. FilesSound'
  BY <1>1 DEF FilesSound
<1> QED
  BY <1>8, <1>9, <1>10, <1>11

\* A successful append makes a known message durable.
LEMMA AppendLogged ==
    ASSUME RunInv, LogInv, NEW m \in Message, AppendEntry(m)
    PROVE  LogInv'
<1> USE DEF RunInv, LogInv
<1>1. /\ Proceed(m) /\ up
      /\ UNCHANGED <<nextInstance, up, since, filter, selfMessages, published, own,
                     restarts, failures>>
  BY Zenon DEF AppendEntry, Proceed
<1>2. /\ Messages(inflight)' = Messages(inflight)
      /\ m \in Messages(inflight)
      /\ LoggedOnes' = LoggedOnes \cup {m}
  BY SMTT(30), <1>1, ProceedMessages
<1>3. \A f \in SetOf(active) : ~f.torn
  BY <1>1 DEF FilesSound
<1>4. /\ Entries \subseteq Entries' /\ Entries' \subseteq Entries \cup {m}
      /\ m \in Entries'
      /\ \A f \in SetOf(active') : ~f.torn
  BY <1>3, AppendLog
<1>5. Known' = Known
  BY <1>1, <1>2, <1>4 DEF Known
<1>6. OneSignature' /\ Covered'
  BY <1>1, <1>5 DEF OneSignature, Covered
<1>7. Durable' /\ RestartRebroadcasts'
  BY <1>1, <1>2, <1>4 DEF Durable, RestartRebroadcasts
<1>8. FilesSound'
  <2>1. ASSUME NEW f \in SetOf(files'), NEW n \in SetOf(f.entries)
        PROVE  n.instance <= f.maxEpoch
    BY <1>1, AppendLog DEF FilesSound
  <2>2. ASSUME NEW f \in SetOf(active'), NEW n \in SetOf(f.entries)
        PROVE  n.instance <= f.maxEpoch
    <3>1. /\ m.instance <= f.maxEpoch
          /\ n = m \/ n \in SetOf(Current.entries)
          /\ Current.maxEpoch <= f.maxEpoch
          /\ Current = NewFile \/ Current \in SetOf(active)
      BY AppendLog
    <3>2. CASE n = m
      BY <3>1, <3>2
    <3>3. CASE n \in SetOf(Current.entries)
      <4>1. Current \in SetOf(active)
        BY SMTT(30), <3>1, <3>3 DEF NewFile, SetOf
      <4>2. n.instance <= Current.maxEpoch
        BY <1>1, <3>3, <4>1 DEF FilesSound
      <4>3. Current \in File /\ n \in Message /\ f \in File
        <5>1. Current \in File
          BY CurrentFile
        <5>2. active' \in Seq(File)
          BY AppendLog
        <5> QED
          BY <5>1, <5>2, <3>3, FileEntries DEF SetOf
      <4> QED
        BY SMTT(30), <3>1, <4>2, <4>3 DEF File, Message
    <3> QED
      BY <3>1, <3>2, <3>3
  <2> QED
    BY <1>4, <2>1, <2>2 DEF FilesSound
<1> QED
  BY <1>6, <1>7, <1>8

\* Publishing what has been logged.
LEMMA PublishLog ==
    ASSUME RunInv, LogInv, NEW m \in Message, Publish(m)
    PROVE  LogInv'
<1> USE DEF RunInv, LogInv
<1>1. /\ selfMessages' = selfMessages \cup {m}
      /\ published' \subseteq published \cup {m}
      /\ UNCHANGED <<files, active, nextInstance, up, since, filter, failures,
                     restarts>>
      /\ up
  BY SMTT(30) DEF Publish, Send, disk
<1>2. Entries' = Entries
  BY SMTT(30), <1>1, SameEntries
<1>3. /\ m \in LoggedOnes /\ LoggedOnes' \subseteq LoggedOnes
      /\ Messages(inflight)' \subseteq Messages(inflight)
  BY SMTT(30), PublishRun
<1>4. m \in Messages(inflight)
  BY <1>3 DEF LoggedOnes, Messages
<1>5. Known' \subseteq Known
  BY <1>1, <1>2, <1>3, <1>4 DEF Known
<1>6. OneSignature' /\ Covered'
  BY <1>1, <1>5 DEF OneSignature, Covered
<1>7. Durable' /\ RestartRebroadcasts'
  BY <1>1, <1>2, <1>3 DEF Durable, RestartRebroadcasts
<1>8. FilesSound'
  BY SMTT(30), <1>1 DEF FilesSound
<1> QED
  BY <1>6, <1>7, <1>8

\* A rebroadcast publishes what is known already.
LEMMA RebroadcastLog ==
    ASSUME RunInv, LogInv, NEW m \in Message, Rebroadcast(m)
    PROVE  LogInv'
<1> USE DEF RunInv, LogInv
<1>1. /\ Process(m) /\ up /\ m \in selfMessages
      /\ published' \subseteq published \cup {m}
      /\ UNCHANGED <<files, active, nextInstance, up, since, selfMessages,
                     inflight, failures, restarts>>
  BY DEF Rebroadcast, Send, disk
<1>2. Entries' = Entries
  BY <1>1, SameEntries
<1>3. Known' \subseteq Known /\ LoggedOnes' = LoggedOnes
  BY SMTT(30), <1>1, <1>2 DEF Known, LoggedOnes
<1>4. Known \subseteq Message
  BY KnownAreMessages
<1>5. \A n \in Message : n.instance < filter.instance \/ n \in filter.seen =>
          n.instance < filter'.instance \/ n \in filter'.seen
  BY SMTT(30), <1>1, FilterStep
<1>6. OneSignature' /\ Covered'
  BY <1>1, <1>3, <1>4, <1>5 DEF OneSignature, Covered
<1>7. Durable' /\ RestartRebroadcasts'
  BY SMTT(30), <1>1, <1>2, <1>3 DEF Durable, RestartRebroadcasts
<1>8. FilesSound'
  BY <1>1 DEF FilesSound
<1> QED
  BY <1>6, <1>7, <1>8

\* A certificate: nothing is known yet of the instance it opens.
LEMMA CertificateLog ==
    ASSUME RunInv, LogInv, PutCertificate
    PROVE  LogInv'
<1> USE DEF RunInv, LogInv
<1>1. /\ nextInstance' = nextInstance + 1 /\ nextInstance \in Nat
      /\ UNCHANGED <<files, active, up, since, filter, selfMessages, inflight,
                     published, own, failures, restarts>>
  BY DEF PutCertificate, TypeOK
<1>2. Entries' = Entries /\ Known' = Known /\ LoggedOnes' = LoggedOnes
  BY SMTT(30), <1>1, SameEntries DEF Known, LoggedOnes
<1>3. \A m \in Known : m.instance \in Nat /\ m.instance < nextInstance'
  BY <1>1, KnownAreMessages DEF Bounded, Message
<1>4. OneSignature' /\ Covered' /\ FilesSound'
  BY SMTT(30), <1>1, <1>2 DEF OneSignature, Covered, FilesSound
<1>5. Durable'
  <2>1. published \cup selfMessages \cup LoggedOnes \subseteq Known
    BY DEF Known, LoggedOnes, Messages
  <2> QED
    BY <1>1, <1>2, <1>3, <2>1 DEF Durable
<1>6. RestartRebroadcasts'
  BY <1>1, <1>3 DEF RestartRebroadcasts, Known
<1> QED
  BY <1>4, <1>5, <1>6

\* The finalizer drops only what is of decided instances.
LEMMA FinalizeLog ==
    ASSUME RunInv, LogInv, Finalize
    PROVE  LogInv'
<1> USE DEF RunInv, LogInv
<1>1. /\ up /\ selfMessages' = {m \in selfMessages : m.instance >= nextInstance - 1}
      /\ nextInstance \in Nat
      /\ UNCHANGED <<active, nextInstance, up, since, filter, inflight,
                     published, own, failures, restarts>>
  BY SMTT(30) DEF Finalize, TypeOK
<1>2. /\ files' \in Seq(File) /\ active' = active
      /\ Entries' \subseteq Entries
      /\ SetOf(files') \subseteq SetOf(files) \cup {NewFile}
      /\ \A f \in SetOf(files) : Kept(f) => f \in SetOf(files')
  BY SMTT(30), PurgeLog
<1>3. Known' \subseteq Known /\ LoggedOnes' = LoggedOnes
  BY <1>1, <1>2 DEF Known, LoggedOnes
<1>4. ASSUME NEW m \in Entries, m.instance >= nextInstance - 1
      PROVE  m \in Entries'
  <2>1. PICK f \in SetOf(files) \cup SetOf(active) : m \in SetOf(f.entries)
    BY EntriesAreOfFiles DEF TypeOK, EntriesOf
  <2>2. f \in File /\ m \in Message
    BY <2>1, FileEntries DEF TypeOK, SetOf
  <2>3. m.instance <= f.maxEpoch
    BY <1>1, <2>1 DEF FilesSound
  <2>4. Kept(f)
    BY <1>1, <1>4, <2>2, <2>3, KeepAssumption DEF Kept, File, Message
  <2>5. f \in SetOf(files') \cup SetOf(active')
    BY <1>2, <2>1, <2>4
  <2> QED
    BY <1>1, <1>2, <2>1, <2>5, EntriesAreOfFilesNext DEF TypeOK, EntriesOf
<1>5. OneSignature' /\ Covered'
  BY <1>1, <1>3 DEF OneSignature, Covered
<1>6. FilesSound'
  <2>1. SetOf(NewFile.entries) = {}
    BY SMTT(30) DEF NewFile, SetOf
  <2> QED
    BY <1>1, <1>2, <2>1 DEF FilesSound
<1>8. published \cup selfMessages \cup LoggedOnes \subseteq Known
  BY DEF Known, LoggedOnes, Messages
<1>9. \A m \in Known : m.instance \in Nat
  BY KnownAreMessages DEF Message
<1>10. Durable'
  <2> SUFFICES ASSUME NEW m \in published \cup selfMessages \cup LoggedOnes, m \notin Entries'
               PROVE  m.instance < nextInstance
    BY <1>1, <1>3 DEF Durable
  <2>1. CASE m \in Entries
    BY <1>1, <1>4, <1>8, <1>9, <2>1
  <2>2. CASE m \notin Entries
    BY <2>2 DEF Durable
  <2> QED
    BY SMTT(30), <2>1, <2>2
<1>11. RestartRebroadcasts'
  BY <1>1 DEF RestartRebroadcasts
<1> QED
  BY <1>5, <1>6, <1>10, <1>11

\* A crash can only lose calls that nothing has been published for.
LEMMA CrashLogged ==
    ASSUME RunInv, LogInv, Crash
    PROVE  LogInv'
<1> USE DEF RunInv, LogInv
<1>1. /\ up' = FALSE /\ inflight' = {} /\ selfMessages' = {}
      /\ UNCHANGED <<nextInstance, since, filter, published, own, failures, restarts>>
  BY DEF Crash
<1>2. Entries \subseteq Entries' /\ Entries' \subseteq Entries \cup Messages(inflight)
  BY CrashLog
<1>3. Messages(inflight)' = {} /\ LoggedOnes' = {}
  BY <1>1 DEF Messages, LoggedOnes
<1>4. Known' \subseteq Known
  BY SMTT(30), <1>1, <1>2, <1>3 DEF Known
<1>5. OneSignature' /\ Covered' /\ FilesSound' /\ RestartRebroadcasts'
  BY <1>1, <1>4 DEF OneSignature, Covered, FilesSound, RestartRebroadcasts
<1>6. Durable'
  BY <1>1, <1>2, <1>3 DEF Durable
<1> QED
  BY <1>5, <1>6

\* A restart finds in the log all that was published of the instance it is in.
LEMMA RestartLog ==
    ASSUME RunInv, LogInv, Restart
    PROVE  LogInv'
<1> USE DEF RunInv, LogInv
<1>1. /\ up' = TRUE /\ since' = nextInstance /\ filter' = Replayed
      /\ selfMessages' = {m \in Entries : m.instance = LastLogged}
      /\ UNCHANGED <<nextInstance, inflight, published, failures>>
      /\ inflight = {}
  BY DEF Restart
<1>2. /\ files' \in Seq(File) /\ active' = <<>> /\ Entries' = Entries
      /\ \A f \in SetOf(files') : \A m \in SetOf(f.entries) : m.instance <= f.maxEpoch
  BY HydratedLog
<1>3. Known' \subseteq Known /\ LoggedOnes' = LoggedOnes
  BY <1>1, <1>2 DEF Known, LoggedOnes
<1>4. OneSignature' /\ Durable'
  BY <1>1, <1>2, <1>3 DEF OneSignature, Durable
<1>5. FilesSound'
  <2>1. SetOf(active') = {}
    BY <1>2 DEF SetOf
  <2> QED
    BY <1>2, <2>1 DEF FilesSound
<1>6. /\ LastLogged \in Nat
      /\ \A m \in Entries : m.instance <= LastLogged
      /\ Entries # {} => \E m \in Entries : m.instance = LastLogged
  BY LastLoggedIsLatest
<1>7. /\ Known \subseteq Message
      /\ \A m \in Known : m.instance \in Nat /\ m.instance <= nextInstance
  BY KnownAreMessages DEF Bounded, Message
<1>8. \A m \in Known : m \in Entries \/ m.instance < nextInstance
  BY <1>1 DEF Known, Durable, Messages
<1>9. Covered'
  <2> SUFFICES ASSUME NEW m \in Known, ~(m.instance < nextInstance)
               PROVE  m.instance < Replayed.instance \/ m \in Replayed.seen
    BY <1>1, <1>3 DEF Covered
  <2>1. m \in Entries /\ m.instance <= LastLogged
    BY <1>6, <1>8
  <2>2. CASE m.instance < LastLogged
    BY <2>2, ReplayedFilter
  <2>3. CASE m.instance = LastLogged
    <3>1. PICK n \in Replayed.seen : n.slot = m.slot
      BY <2>1, <2>3, ReplayedFilter
    <3>2. n \in Entries /\ n.instance = m.instance
      BY <2>3, ReplayedFilter
    <3>3. n.sig = m.sig
      BY <2>1, <3>1, <3>2 DEF OneSignature, Conflict, Known
    <3>4. n = m
      BY <1>7, <2>1, <3>1, <3>2, <3>3 DEF Message, Known
    <3> QED
      BY <3>4
  <2> QED
    BY SMTT(30), <1>6, <1>7, <2>1, <2>2, <2>3
<1>10. RestartRebroadcasts'
  <2> SUFFICES ASSUME NEW m \in published, m.instance = nextInstance
               PROVE  m \in Entries /\ m.instance = LastLogged
    BY <1>1 DEF RestartRebroadcasts
  <2>1. m \in Known /\ nextInstance \in Nat
    BY DEF Known, TypeOK
  <2>2. m \in Entries
    BY <1>7, <1>8, <2>1
  <2>3. PICK n \in Entries : n.instance = LastLogged
    BY <1>6, <2>2
  <2>4. n \in Known
    BY <2>3 DEF Known
  <2> QED
    BY <1>6, <1>7, <2>1, <2>2, <2>3, <2>4
<1> QED
  BY SMTT(30), <1>4, <1>5, <1>9, <1>10

-----------------------------------------------------------------------------
\* The invariant holds to begin with.
LEMMA InvInit == Init => Inv
<1> SUFFICES ASSUME Init PROVE Inv
  OBVIOUS
<1> USE DEF Init
<1>1. Entries = {} /\ Messages(inflight) = {} /\ LoggedOnes = {}
  BY DEF Entries, Positions, Log, Messages, LoggedOnes
<1>2. TypeOK
  BY BoundsAssumption DEF TypeOK
<1>3. RunInv
  BY <1>1, <1>2 DEF RunInv, Bounded, Known
<1>4. LogInv
  <2>1. SetOf(files) = {} /\ SetOf(active) = {}
    BY DEF SetOf
  <2> QED
    BY <1>1, <2>1 DEF LogInv, FilesSound, OneSignature, Covered, Durable,
                      RestartRebroadcasts, Known
<1> QED
  BY <1>3, <1>4 DEF Inv

\* Every step keeps it.
LEMMA InvStep == Inv /\ [Next]_vars => Inv'
<1> SUFFICES ASSUME Inv, [Next]_vars PROVE Inv'
  OBVIOUS
<1>1. RunInv /\ (failures = 0 => LogInv)
  BY DEF Inv
<1>2. CASE UNCHANGED vars
  <2>1. UNCHANGED <<files, active, nextInstance, up, since, filter, selfMessages,
                    inflight, published, own, failures, restarts>>
    BY <1>2 DEF vars
  <2>2. Entries' = Entries /\ Messages(inflight)' = Messages(inflight)
        /\ LoggedOnes' = LoggedOnes
    BY <2>1, SameEntries DEF Messages, LoggedOnes
  <2>3. RunInv'
    BY <1>1, <2>1, <2>2 DEF RunInv, TypeOK, Bounded, Known
  <2>4. failures = 0 => LogInv'
    BY <1>1, <2>1, <2>2 DEF LogInv, FilesSound, OneSignature, Covered, Durable,
                            RestartRebroadcasts, Known
  <2> QED
    BY <2>1, <2>3, <2>4 DEF Inv
<1>3. ASSUME NEW m \in Message, BroadcastMessage(m) PROVE Inv'
  BY Zenon, <1>1, <1>3, BroadcastRun, BroadcastLog DEF Inv, BroadcastMessage
<1>4. ASSUME NEW m \in Message, AppendEntry(m) PROVE Inv'
  BY <1>1, <1>4, AppendRun, AppendLogged DEF Inv, AppendEntry
<1>5. ASSUME NEW m \in Message, AppendFails(m) PROVE Inv'
  <2>1. failures' # 0
    BY <1>1, <1>5 DEF AppendFails, RunInv, TypeOK
  <2> QED
    BY <1>1, <1>5, <2>1, AppendRun DEF Inv
<1>6. ASSUME NEW m \in Message, Publish(m) PROVE Inv'
  BY Zenon, <1>1, <1>6, PublishRun, PublishLog DEF Inv, Publish
<1>7. ASSUME NEW m \in Message, Rebroadcast(m) PROVE Inv'
  BY <1>1, <1>7, RebroadcastRun, RebroadcastLog DEF Inv, Rebroadcast
<1>8. CASE PutCertificate
  BY <1>1, <1>8, CertificateRun, CertificateLog DEF Inv, PutCertificate
<1>9. CASE Finalize
  BY <1>1, <1>9, FinalizeRun, FinalizeLog DEF Inv, Finalize
<1>10. CASE Crash
  BY Zenon, <1>1, <1>10, CrashRun, CrashLogged DEF Inv, Crash
<1>11. CASE Restart
  BY <1>1, <1>11, RestartRun, RestartLog DEF Inv, Restart
<1>12. ASSUME NEW i \in 0..MaxInstance, NEW s \in Slots, NEW g \in Signatures
       PROVE  [instance |-> i, slot |-> s, sig |-> g] \in Message
  BY BoundsAssumption DEF Message
<1> QED
  BY Zenon, <1>2, <1>3, <1>4, <1>5, <1>6, <1>7, <1>8, <1>9, <1>10, <1>11, <1>12 DEF Next

\* So it is an invariant of the specification.
THEOREM Invariance == Spec => []Inv
  BY InvInit, InvStep, PTL DEF Spec

\* The log, the filter and the messages on their way have their types.
THEOREM TypeCorrect == Spec => []TypeOK
<1>1. Inv => TypeOK
  BY DEF Inv, RunInv
<1> QED
  BY Invariance, <1>1, PTL

\* As long as the log could be written, the node publishes one signature per
\* slot, whatever crashes and restarts happen and whatever the signer returns.
THEOREM NodeNeverEquivocates == Spec => []NoSelfEquivocation
<1>1. Inv => NoSelfEquivocation
  BY DEF Inv, LogInv, OneSignature, Known, NoSelfEquivocation
<1> QED
  BY Invariance, <1>1, PTL

\* A running process publishes one signature per slot even when appends fail.
THEOREM ProcessNeverContradictsItself == Spec => []NoContradictionWhileUp
<1>1. Inv => NoContradictionWhileUp
  BY DEF Inv, RunInv, NoContradictionWhileUp
<1> QED
  BY Invariance, <1>1, PTL

\* A process has, after any number of restarts, all it published in the current
\* instance to rebroadcast.
THEOREM RestartKeepsVotes == Spec => []RestartRebroadcasts
<1>1. Inv /\ failures = 0 => RestartRebroadcasts
  BY DEF Inv, LogInv
<1>2. Inv => RestartRebroadcasts
  BY <1>1 DEF RestartRebroadcasts
<1> QED
  BY Invariance, <1>2, PTL

=============================================================================
