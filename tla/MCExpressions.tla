---------------------------- MODULE MCExpressions ----------------------------
(* Instances of Expressions: trees of three levels, and tokens of no tree. *)
EXTENDS Expressions

Id1(v) == Leaf("id", v)
Num1 == Leaf("number", "1")
Str1 == Leaf("quoted", "s")
True1 == Leaf("boolean", "true")
Vars == {"a", "g"}
Atoms == {Id1(v) : v \in Vars} \cup {Num1, Str1, True1, Leaf("ch", "c")}
Few == {Id1("a"), Id1("g"), Num1}

AllOps == {"+", "-"} \cup Factors \cup Equalities \cup Comparisons
          \cup {"&&", "||", "and", "or"}
Ops == {"+", "-", "*", "==", "<", "&&", "||"}

Simple(A) ==
    {Bin(o, l, r) : o \in Ops, l \in A, r \in A}
    \cup {Un(o, x) : o \in {"-", "!"}, x \in A}
    \cup {Pre("++", v) : v \in Vars} \cup {Post("--", v) : v \in Vars}
    \cup {Asg(o, v, x) : o \in {"=", "-="}, v \in Vars, x \in A}
    \cup {Cst(f, "string", x) : f \in {"num", "bool"}, x \in A}

Over(A, B) ==
    {Bin(o, l, r) : o \in Ops, l \in A, r \in B}
    \cup {Bin(o, l, r) : o \in Ops, l \in B, r \in A}
    \cup {Un(o, x) : o \in {"-", "!"}, x \in A}
    \cup {Asg(o, v, x) : o \in {"=", "-="}, v \in Vars, x \in A}
    \cup {Cst("num", "string", x) : x \in A}

Flat == {Bin(o, l, r) : o \in AllOps, l \in Atoms, r \in Atoms}
        \cup {Asg(o, v, x) : o \in Compounds, v \in Vars, x \in Atoms}
        \cup {Cst(f, t, x) : f \in DOMAIN StorageType, t \in DOMAIN StorageType,
                             x \in Atoms}

Trees == Flat \cup Over(Simple(Few), {Num1, Id1("g")})

Shapes == {Num1, Id1("a"), Bin("-", Num1, Id1("a")), Un("-", Id1("a"))}
Alphabet == {Token("number", "1"), Token("id", "a")}
            \cup {Sym(t) : t \in {"+", "*", "=", "-=", "++", "!", "(", ")", ";",
                                  "?", "&&", "string", "elif", "pout"}}
Junks == UNION {[1 .. n -> Alphabet] : n \in 0 .. 3}

ProgramsDef ==
    {<<Expr(e), Pout(Id1("a"))>> : e \in Trees}
    \cup {<<Pout(e)>> : e \in Trees}
    \cup {<<Expr(Asg("=", v, True1)), Expr(Asg(o, v, x)), Pout(Id1(v))>> :
             o \in {"&=", "|="}, v \in Vars, x \in Atoms}
    \cup {<<Expr(e), Junk(j), Expr(e)>> : e \in Shapes, j \in Junks}

LocalsDef == <<"a", "z">>
=============================================================================
