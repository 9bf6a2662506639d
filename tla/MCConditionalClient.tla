------------------------- MODULE MCConditionalClient -------------------------
EXTENDS ConditionalClient
=============================================================================
