------------------------------- MODULE MCCalls -------------------------------
(* Instances of Calls: a binary function f, a function g without           *)
(* parameters and a native; each of them may be an argument too.           *)
EXTENDS Calls

CONSTANTS d, f, g, nat, script

ArityDef == [fun \in Funs |-> IF fun = f THEN 2 ELSE 0]
=============================================================================
