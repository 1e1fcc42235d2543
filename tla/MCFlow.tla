------------------------------- MODULE MCFlow -------------------------------
(* Instances of Flow: every statement with bodies from a small set, which  *)
(* holds statements of every kind, and something to do after it.           *)
EXTENDS Flow

Mark1 == Stmt("mark", <<>>, <<>>, FALSE)
Both(s, t) == Stmt("seq", <<>>, <<s, t>>, FALSE)
Ones(n) == [i \in 1 .. n |-> "one"]
Bodies(B, n) == [1 .. n -> B]

Branching(kind, B, n) ==
    {Stmt(kind, Ones(n), ks, FALSE) : ks \in Bodies(B, n) \cup Bodies(B, n + 1)}
Loops(B) ==
    {Stmt("while", <<"one">>, <<b>>, FALSE) : b \in B}
    \cup {Stmt("for", c, <<b>>, i) : c \in {<<>>, <<"one">>}, b \in B,
                                     i \in BOOLEAN}
Over(B) == Loops(B) \cup UNION {Branching(k, B, n) : k \in {"if", "switch"},
                                                   n \in {1, 2}}

Logical ==
    {Stmt(k, <<c>>, <<Mark1>>, FALSE) : k \in {"if", "while"},
                                       c \in {"and", "or"}}

If1     == Stmt("if", Ones(1), <<Mark1>>, FALSE)
Elif1   == Stmt("if", Ones(2), <<Mark1, Mark1>>, FALSE)
For1    == Stmt("for", Ones(1), <<If1>>, TRUE)
Switch1 == Stmt("switch", Ones(1), <<Mark1, Mark1>>, FALSE)
While1  == Stmt("while", Ones(1), <<Both(Elif1, Mark1)>>, FALSE)
IfElse1 == Stmt("if", Ones(1), <<For1, Mark1>>, FALSE)
Inner   == {Mark1, Both(If1, Mark1), Elif1, For1, Switch1, While1, IfElse1}

ProgramsDef == {Both(s, Mark1) : s \in Over(Inner) \cup Logical}
=============================================================================
