---------------------------- MODULE MCShareInvites -----------------------------
EXTENDS ShareInvites, TLC

CONSTANTS i1, i2, o1, o2

Idents == Permutations(Invites) \cup Permutations(Operators)
================================================================================
