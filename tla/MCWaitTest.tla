------------------------------ MODULE MCWaitTest ------------------------------
EXTENDS WaitTest
=============================================================================
