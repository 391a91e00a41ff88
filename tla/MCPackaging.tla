----------------------------- MODULE MCPackaging -----------------------------
EXTENDS Packaging
=============================================================================
