------------------------- MODULE MCPartialMessages -------------------------
EXTENDS PartialMessages, TLC

CONSTANTS base, tip, sender1, sender2

Short == <<base>>
Long == <<base, tip>>
MCChains == {Short, Long}
MCLoads ==
  {[votes |-> {Vote(sender1, 1, Long), Vote(sender2, 1, Short)}, chains |-> {Chain(1, Long)}, asks |-> {Chain(1, Long)}],
   [votes |-> {}, chains |-> {}, asks |-> {Chain(1, Short), Chain(1, Long), Chain(2, Short)}]}
=============================================================================
