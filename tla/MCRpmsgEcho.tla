----------------------------- MODULE MCRpmsgEcho -----------------------------
EXTENDS RpmsgEcho
=============================================================================
