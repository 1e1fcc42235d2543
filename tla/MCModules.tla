------------------------------ MODULE MCModules ------------------------------
(* Instances of Modules: a file m that imports a and b, which may import   *)
(* one another and m; a and b lie in two directories and share their name, *)
(* which is an identifier too.                                             *)
EXTENDS Modules

FilesDef == {"/m", "/a/p", "/b/p"}
NameOf == [f \in FilesDef |-> IF f = "/m" THEN "m" ELSE "p"]

Uses(k)     == [kind |-> "use", name |-> k]
Declared(k) == [kind |-> "declare", name |-> k]
Exports(k)  == [kind |-> "export", name |-> k]
From(f)     == [kind |-> "import", from |-> f]
Within(f)   == [kind |-> "inner", from |-> f]
Others      == [kind |-> "other"]

UpTo(n, D) == UNION {[1 .. k -> D] : k \in 0 .. n}
Bad(s)     == [bad |-> TRUE, decls |-> s]
Good(s)    == [bad |-> FALSE, decls |-> s]

TextsM == {Good(s) : s \in UpTo(3, {Uses("p"), Declared("p"), From("/a/p"),
                                    From("/b/p")})}
          \cup {Bad(<<>>), Bad(<<Others>>), Good(<<From("/none"), Others>>),
                Good(<<Within("/a/p"), From("/m")>>), Good(<<Exports("p")>>),
                Good(<<Declared("p"), Exports("p"), Uses("p")>>)}
TextsA == {Good(s) : s \in UpTo(2, {Uses("p"), Declared("p"), Exports("p"),
                                    From("/b/p")})}
          \cup {Bad(<<>>), Good(<<From("/m"), Others>>)}
TextsB == {Good(<<>>), Bad(<<>>), Bad(<<Others>>), Good(<<Uses("p")>>),
           Good(<<Declared("p"), Exports("p")>>), Good(<<From("/a/p")>>)}

TextsDef == {[f \in FilesDef |-> IF f = "/m" THEN m
                                 ELSE IF f = "/a/p" THEN a ELSE b] :
                m \in TextsM, a \in TextsA, b \in TextsB}
=============================================================================
