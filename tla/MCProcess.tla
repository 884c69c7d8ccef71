------------------------------ MODULE MCProcess ------------------------------
EXTENDS Process
=============================================================================
