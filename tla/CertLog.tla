------------------------------- MODULE CertLog -------------------------------
(***************************************************************************)
(* What the certificate store promises: a log of certificates, one per     *)
(* instance, that only grows at its end.  It can be installed whole, from  *)
(* a snapshot, and it can be wiped.                                        *)
(***************************************************************************)
EXTENDS Sequences

CONSTANT Certificates

VARIABLE log

Init == log = <<>>

Add == \E c \in Certificates : log' = Append(log, c)

\* A snapshot takes the place of an empty log.
Install == log = <<>> /\ log' \in Seq(Certificates)

Wipe == log' = <<>>

Spec == Init /\ [][Add \/ Install \/ Wipe]_log
=============================================================================
