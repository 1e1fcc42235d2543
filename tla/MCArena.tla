------------------------------- MODULE MCArena -------------------------------
(* Instances of Arena: one unit of address is one header (16 bytes).       *)
EXTENDS Arena

(* The kernel may place a mapping above, below or right beside another.    *)
BasesDef == {4, 14}
=============================================================================
