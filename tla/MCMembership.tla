----------------------------- MODULE MCMembership -----------------------------
EXTENDS Membership, TLC

Requests == Permutations(Request)
=============================================================================
