------------------------------- MODULE MCArena -------------------------------
EXTENDS Arena
MCPer == <<2>>
=============================================================================
