------------------------------ MODULE MCH2Conn ------------------------------
EXTENDS H2Conn
=============================================================================
