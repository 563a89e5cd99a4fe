------------------------------ MODULE ECChain ------------------------------
(***************************************************************************)
(* ECChain values: a base tipset followed by a suffix of tipsets.  A chain *)
(* is a sequence of tipsets; the zero chain, "bottom", is the empty one.   *)
(* Keys (merkle roots) are taken to identify chains, so a chain stands for *)
(* its own key.                                                            *)
(***************************************************************************)
EXTENDS Naturals, Sequences

Bottom == << >>

IsZero(c) == c = Bottom

BaseChain(c) == IF IsZero(c) THEN Bottom ELSE SubSeq(c, 1, 1)

HasBase(c, t) == ~IsZero(c) /\ c[1] = t

\* Prefix(to): the base and at most `to' tipsets after it.
Prefix(c, to) == IF IsZero(c) THEN Bottom
                 ELSE SubSeq(c, 1, IF to + 1 < Len(c) THEN to + 1 ELSE Len(c))

HasPrefix(c, other) ==
    /\ ~IsZero(c) /\ ~IsZero(other)
    /\ Len(other) <= Len(c)
    /\ \A i \in 1..Len(other) : c[i] = other[i]

\* AllPrefixes: every prefix, from the base chain to the chain itself.
AllPrefixes(c) == {Prefix(c, l) : l \in 0..(Len(c) - 1)}

=============================================================================
