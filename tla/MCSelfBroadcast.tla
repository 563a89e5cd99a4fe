-------------------------- MODULE MCSelfBroadcast --------------------------
(***************************************************************************)
(* keepInstancesInWAL is 0 instead of 5, so that files are purged within a *)
(* few instances; a file is full after one message.                        *)
(***************************************************************************)
EXTENDS SelfBroadcast, TLC

CONSTANTS v, w

MCSymmetry == Permutations({v, w})
=============================================================================
