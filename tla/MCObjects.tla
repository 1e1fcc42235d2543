------------------------------ MODULE MCObjects ------------------------------
(* Instances of Objects: a class C with a constructor and a method m.      *)
EXTENDS Objects

CONSTANTS C, d, x, m

MethodsDef == [c \in Classes |-> {init, m}]
=============================================================================
