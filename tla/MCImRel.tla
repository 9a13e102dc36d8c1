------------------------------ MODULE MCImRel -------------------------------
EXTENDS ImRel

Symm == Permutations(Keys) \cup Permutations(Cursors)
=============================================================================
