------------------------------ MODULE MCMeaner ------------------------------
EXTENDS Meaner
=============================================================================
