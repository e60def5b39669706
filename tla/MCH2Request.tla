---------------------------- MODULE MCH2Request ----------------------------
EXTENDS H2Request
=============================================================================
