-------------------------- MODULE MCContentScreens --------------------------
EXTENDS ContentScreens
=============================================================================
