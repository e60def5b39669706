---------------------------- MODULE MCH2Priority ----------------------------
EXTENDS H2Priority
=============================================================================
