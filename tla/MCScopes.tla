------------------------------ MODULE MCScopes -----------------------------
(* Instances of Scopes.  Names are interchangeable.                        *)
EXTENDS Scopes, TLC

CONSTANTS a, b

Symmetry == Permutations(Names)
=============================================================================
