----------------------------- MODULE MCH2Window -----------------------------
EXTENDS H2Window
=============================================================================
