--------------------------- MODULE MCMixedLeafPlan ---------------------------
EXTENDS MixedLeafPlan

MCIds == 1..7
=============================================================================
