----------------------- MODULE MCLegacyReconciliation -----------------------
EXTENDS LegacyReconciliation

CONSTANT k1
=============================================================================
