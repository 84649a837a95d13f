------------------------------ MODULE MCEscrow ------------------------------
EXTENDS Escrow, TLC

Symmetry == Permutations(Requests)
=============================================================================
