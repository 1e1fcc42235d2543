------------------------------ MODULE MCGlobals ------------------------------
(* Instances of Globals.  Two globals and a local that hold strings, or     *)
(* vectors: declarations, then up to two statements; behind the declaration *)
(* of a string and a copy of it three statements, behind that of a vector   *)
(* a block of three, or of four that let a round see the one before.        *)
EXTENDS Globals

Name(v) == [kind |-> "name", name |-> v]
Simple(k) == [kind |-> k]
All == Vars \cup Locals

Strings == {Simple("literal"), Simple("number"), Simple("fresh")}
           \cup {[kind |-> "cast", name |-> "a"]}
Vectors == {Simple("literal")}
Copies  == {Name(v) : v \in All}

Set(es) == [op : {"set"}, to : Vars, from : es \cup Copies]
Own(es) == [op : {"var"}, to : Locals, from : es]
           \cup [op : {"set"}, to : Locals, from : es \ Copies]
Prints  == [op : {"print"}, from : {Simple("literal"), Simple("fresh")} \cup Copies]
OnStrings == Set(Strings) \cup Own(Strings \cup Copies) \cup Prints
             \cup [op : {"rm"}, name : {"a"}]
Few == Set({Simple("literal")}) \cup Own({Simple("literal")} \cup Copies)
       \cup [op : {"print"}, from : Copies] \cup [op : {"rm"}, name : {"a"}]
OnVectors == Set(Vectors) \cup Own(Vectors \cup Copies) \cup Prints
             \cup [op : {"push"}, name : All]

OfRounds == {[op |-> "var", to |-> "l", from |-> Simple("literal")],
             [op |-> "set", to |-> "a", from |-> Name("l")]}
            \cup [op : {"print"}, from : {Name("l")}]
            \cup [op : {"push"}, name : {"a"}]

Var(v, e) == [op |-> "var", to |-> v, from |-> e]
Declared == {<<Var("a", e), Var("b", f)>> :
                e \in {Simple("literal"), Simple("fresh")},
                f \in {Simple("literal"), Simple("number"), Name("a")}}
            \cup {<<Var("a", Simple("literal")), Var("a", Simple("fresh"))>>}

TextsDef ==
    {d \o t : d \in Declared,
              t \in UNION {[1 .. k -> OnStrings] : k \in 1 .. 2}
                   \cup UNION {[1 .. k -> OnVectors] : k \in 1 .. 2}}
    \cup {<<Var("a", Simple("fresh")), Var("b", Name("a"))>> \o t :
              t \in [1 .. 3 -> Few]}
    \cup {<<Var("a", Simple("literal"))>> \o t : t \in [1 .. 3 -> OnVectors]
                                                 \cup [1 .. 4 -> OfRounds]}
=============================================================================
