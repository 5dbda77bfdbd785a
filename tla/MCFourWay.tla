----------------------------- MODULE MCFourWay ------------------------------
EXTENDS FourWay, TLC
=============================================================================
