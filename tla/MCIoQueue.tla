------------------------------ MODULE MCIoQueue ------------------------------
EXTENDS IoQueue
=============================================================================
