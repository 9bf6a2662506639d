------------------------- MODULE MCStagedPublication -------------------------
EXTENDS StagedPublication
=============================================================================
