------------------------------ MODULE MCCall ------------------------------
EXTENDS Call
===========================================================================
