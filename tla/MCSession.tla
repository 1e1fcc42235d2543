------------------------------ MODULE MCSession ------------------------------
(* Instances of Session: texts of up to two items, some of them functions  *)
(* and blocks with a declaration or a call inside, and texts that reach    *)
(* what a function declares from behind it.                                *)
EXTENDS Session

NativesDef == <<"clock", "square">>

Op(o) == [op |-> o]
Of(o, n) == [op |-> o, name |-> n]
End == <<Op("end")>>
Func(f, body) == <<Of("function", f)>> \o body \o End
Cond(body) == <<Op("if")>> \o body \o End
Class == <<Of("class", "A")>>
Calls(n) == <<Of("call", n)>>

Items ==
    {Class, <<Of("native", "clock")>>, Func("f", <<>>), Func("g", <<>>),
     Func("f", Class), Func("f", Func("g", <<>>)), Func("f", Calls("f")),
     Cond(Func("g", <<>>)), Cond(Class)}
    \cup {Calls(n) : n \in {"f", "A", "h", "v"}}
    \cup {<<[op |-> "var", to |-> "v", name |-> n]>> : n \in {"g", "A"}}

Inside == {Class, Func("g", <<>>), Func("g", Calls("f")), Cond(Func("g", <<>>)),
           Calls("g")}

TextsDef ==
    {<<>>} \cup Items \cup {a \o b : a, b \in Items}
    \cup {Func("f", a) \o b \o c : a \in Inside, b \in {Class, Func("g", <<>>), Calls("f")},
                                 c \in {Calls("A"), Calls("g"), Calls("f")}}
=============================================================================
