----------------------------- MODULE MCOpksshMain -----------------------------
EXTENDS OpksshMain
=============================================================================
