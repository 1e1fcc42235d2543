------------------------------ MODULE MCScanner ------------------------------
(* Sources for the scanner: every keyword under every first letter, and    *)
(* all short texts over the characters of comments, strings and operators. *)
EXTENDS Scanner

Texts(A, n) ==
    LET f[k \in 0 .. n] ==
          IF k = 0 THEN {<<>>}
          ELSE f[k - 1] \cup {<<c>> \o s : c \in A, s \in f[k - 1]}
    IN  f[n]

Firsts == {Rows[k].from : k \in DOMAIN Rows} \cup {"l", "m", "S", "_"}

Words == {<<c>> \o SubSeq(Spelled(Rows[k]), 2, Len(Spelled(Rows[k]))) \o s :
             c \in Firsts, k \in DOMAIN Rows,
             s \in {<<>>, <<"s">>, <<"1">>, <<" ", "x">>}}

SourcesDef ==
    Words \cup Texts({"/", "*", "\n", "x"}, 7)
          \cup Texts({"\"", Tick, "\\", "n", "\n", "'"}, 5)
          \cup Texts({"=", "!", "-", ">", "1", ".", "$"}, 4)
=============================================================================
