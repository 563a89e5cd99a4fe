-------------------------- MODULE QuorumArithmetic --------------------------
(***************************************************************************)
(* How much of a scaled power makes a quorum.                              *)
(***************************************************************************)
EXTENDS Integers

divCeil(a, b) == IF a % b # 0 THEN (a \div b) + 1 ELSE a \div b

\* A mutant of IsStrongQuorum: a simple majority.
MutantIsStrongQuorum(part, whole) == part >= divCeil(whole, 2)

IsStrongQuorum(part, whole) == part >= divCeil(2 * whole, 3)

hasWeakQuorum(part, whole) == part > divCeil(whole, 3)

=============================================================================
