----------------------------- MODULE MCJsonTree -----------------------------
EXTENDS JsonTree

Symmetry == Permutations(Value) \cup Permutations(Name)
=============================================================================
