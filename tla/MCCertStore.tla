---------------------------- MODULE MCCertStore ----------------------------
(***************************************************************************)
(* Checkpoints every second instance instead of every 1440th: the three    *)
(* certificates cross one, and the first instance is not one.              *)
(***************************************************************************)
EXTENDS CertStore, TLC

CONSTANTS a, b

MCPowerTable == 1 :> a @@ 2 :> b @@ 3 :> a
=============================================================================
