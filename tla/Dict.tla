--------------------------------- MODULE Dict --------------------------------
(***************************************************************************)
(* What a table promises to the interpreter: a finite map.  Storing under  *)
(* a key changes that key of that table and nothing else, and a copy       *)
(* starts equal and is independent from then on.  A key once stored stays; *)
(* to a reader, a key that holds Null is the same as no key.               *)
(***************************************************************************)
CONSTANTS Keys, Vals, Null, Tables

VARIABLE dict   \* table -> (key -> value), for the tables that exist

Create(t) ==
    /\ t \notin DOMAIN dict
    /\ dict' = [u \in DOMAIN dict \cup {t} |->
                   IF u = t THEN [k \in {} |-> Null] ELSE dict[u]]

Copy(t, u) ==
    /\ t \in DOMAIN dict /\ u \notin DOMAIN dict
    /\ dict' = [w \in DOMAIN dict \cup {u} |->
                   IF w = u THEN dict[t] ELSE dict[w]]

Stored(m, k, v) ==
    [j \in DOMAIN m \cup {k} |-> IF j = k THEN v ELSE m[j]]

Store(t, k, v) ==
    /\ t \in DOMAIN dict
    /\ dict' = [dict EXCEPT ![t] = Stored(@, k, v)]

Init == dict = [t \in {} |-> Null]

Next ==
    \/ \E t \in Tables : Create(t)
    \/ \E t, u \in Tables : Copy(t, u)
    \/ \E t \in Tables, k \in Keys, v \in Vals \cup {Null} : Store(t, k, v)

Spec == Init /\ [][Next]_dict
=============================================================================
