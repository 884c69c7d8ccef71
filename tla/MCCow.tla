-------------------------------- MODULE MCCow --------------------------------
EXTENDS Cow
=============================================================================
