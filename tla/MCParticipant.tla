--------------------------- MODULE MCParticipant ---------------------------
EXTENDS Participant, TLC

CONSTANTS own, peer, far, a, b

MCHeads == 0 :> 1 @@ 1 :> 2 @@ 2 :> 2 @@ 3 :> 3
MCECPower == 0 :> a @@ 1 :> b @@ 2 :> a @@ 3 :> b
=============================================================================
