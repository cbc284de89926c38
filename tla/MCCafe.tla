------------------------------- MODULE MCCafe -------------------------------
EXTENDS Cafe
=============================================================================
