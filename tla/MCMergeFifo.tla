----------------------------- MODULE MCMergeFifo ----------------------------
EXTENDS MergeFifo

=============================================================================
