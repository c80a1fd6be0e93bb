------------------------------ MODULE MCDesktop -------------------------------
EXTENDS ComputerScene

CONSTANTS o1, o2
=============================================================================
