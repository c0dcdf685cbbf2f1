----------------------------- MODULE DollSyncMC -----------------------------
EXTENDS DollSync, TLC
=============================================================================
