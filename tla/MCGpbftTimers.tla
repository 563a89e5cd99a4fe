--------------------------- MODULE MCGpbftTimers ---------------------------
(***************************************************************************)
(* Phase timeouts grow with the round.  Both are longer than the first     *)
(* backoff and shorter than the first two, so that the two timeouts occur  *)
(* in either order.                                                        *)
(***************************************************************************)
EXTENDS GpbftTimers

MCPhaseDuration == [b \in BOOLEAN |-> IF b THEN 4 ELSE 3]

MCBackoff == [n \in 0..MaxAttempts |-> 2 + n]
=============================================================================
