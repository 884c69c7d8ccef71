-------------------------------- MODULE MCIde --------------------------------
EXTENDS Ide
=============================================================================
