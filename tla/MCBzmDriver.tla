----------------------------- MODULE MCBzmDriver -----------------------------
EXTENDS BzmDriver
=============================================================================
