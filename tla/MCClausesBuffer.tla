--------------------------- MODULE MCClausesBuffer ---------------------------
EXTENDS ClausesBuffer
=============================================================================
