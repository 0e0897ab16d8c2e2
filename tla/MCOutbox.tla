------------------------------ MODULE MCOutbox ------------------------------
EXTENDS Outbox, TLC

\* Names are compared and never ordered.
NameSymmetry == Permutations(Names)
=============================================================================
