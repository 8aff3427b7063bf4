--------------------------- MODULE MCOpportunities ---------------------------
EXTENDS OpportunityClaims, TLC

CONSTANTS j1, ca, cb

MCMatches == j1 :> <<ca, cb>>

MCBestJob == ca :> None @@ cb :> None

MCPositions == j1 :> 1
=============================================================================
