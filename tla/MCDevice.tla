------------------------------- MODULE MCDevice -------------------------------
EXTENDS Device
=============================================================================
