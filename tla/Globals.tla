------------------------------- MODULE Globals -------------------------------
(***************************************************************************)
(* Who owns the value of a global, and the string of its name.             *)
(*                                                                         *)
(* A string or vector is one object, and an element points to it: so do    *)
(* the constant of the literal that made it, which the compiler makes once *)
(* for all its evaluations, and every variable it was copied to.  Nobody   *)
(* counts the pointers.  A global that is overwritten frees what it held   *)
(* and the string of its name (table.c:22-28, 33), a local does not; rm    *)
(* and a cast from string free what they are given.                        *)
(*                                                                         *)
(* A text runs once, but its end may be a block with locals that is the    *)
(* body of a loop.  What the arena does with a freed block, and with one   *)
(* freed twice, is up to it (Arena): to touch one is "undefined" and ends  *)
(* the behaviour.  Which operands a statement leaves on the stack is the   *)
(* subject of Expressions and Scopes, growth of the table that of Table.   *)
(***************************************************************************)
EXTENDS Integers, Sequences, FiniteSets

CONSTANTS Vars,    \* names of globals
          Locals,  \* names of locals of the block
          Texts,   \* sequences of statements
          ROUNDS   \* bound: how often the loop goes back

Number == <<"number", 0>>

Operand ==
    [kind : {"literal", "number", "fresh"}]     \* fresh: num -> string
    \cup [kind : {"name", "cast"}, name : Vars \cup Locals]   \* cast: string -> num

Statement ==
    [op : {"var", "set"}, to : Vars \cup Locals, from : Operand]
    \cup [op : {"print"}, from : Operand]
    \cup [op : {"rm", "push"}, name : Vars \cup Locals]

ASSUME GlobalsAssumption ==
    /\ Vars \cap Locals = {}
    /\ Texts \subseteq Seq(Statement)
    /\ ROUNDS \in Nat

VARIABLES text,      \* the statements
          loop,      \* the first of the block; behind the last for none
          pc,        \* the next statement
          left,      \* rounds that are left
          together,  \* whether all names fall into one bucket
          glob,      \* name |-> the statement whose key is stored, and value
          heads,     \* the names at the head of a bucket
          local,     \* the locals of the block
          freed,     \* objects, and strings of keys, that were freed
          lens,      \* object |-> its length
          phase      \* "run", "ended", "undefined"

(* History: what the program means (name |-> the evaluation it has its     *)
(* value from; the length that has now), what went wrong, how often each   *)
(* statement ran, the literals whose object was freed or changed, what     *)
(* nobody can free any more, and which of the causes below have occurred.  *)
VARIABLES meant, length, wrong, ran, spent, loose, causes

program == <<text, loop, together>>
history == <<meant, length, wrong, ran, spent, loose, causes>>
vars == <<program, pc, left, glob, heads, local, freed, lens, phase, history>>

Literal(i) == <<"literal", i>>
Fresh(n)   == <<"fresh", n>>
KeyOf(i)   == <<"key", i>>

With(f, k, v) == [x \in DOMAIN f \cup {k} |-> IF x = k THEN v ELSE f[x]]
Found == DOMAIN glob \cup DOMAIN local
Val(n) == IF n \in Locals THEN local[n] ELSE glob[n].val
Held(g, l) == {g[v].val : v \in DOMAIN g} \cup {l[v] : v \in DOMAIN l}
LenOf(r) == IF r \in DOMAIN lens THEN lens[r] ELSE 0

-----------------------------------------------------------------------------
(* Operands *)

Here == text[pc]
Names(e) == IF e.kind \in {"name", "cast"} THEN {e.name} ELSE {}
Bound(e) == Names(e) \subseteq Found

(* The evaluation that is under way, if e makes an object.                 *)
Now == Len(length) + 1
Makes(e) == e.kind \in {"literal", "fresh"}

(* The element that is pushed, and what it stands for.                     *)
Value(e) == CASE e.kind = "literal" -> Literal(pc)
              [] e.kind = "fresh"   -> Fresh(Now)
              [] e.kind = "name"    -> Val(e.name)
              [] OTHER              -> Number
Meaning(e) == IF Makes(e) THEN Now
              ELSE IF e.kind = "name" THEN meant[e.name] ELSE 0

(* Objects that evaluating e frees: str_to_num frees its operand.          *)
Eaten(e) == IF e.kind = "cast" THEN {Val(e.name)} \ {Number} ELSE {}

(* To look at an object, where the program means evaluation n.             *)
Look(r, n) ==
    IF r = Number THEN {}
    ELSE IF r \in freed THEN {"freed"}
    ELSE IF LenOf(r) # (IF n = Now THEN 0 ELSE length[n]) THEN {"other"}
    ELSE {}

-----------------------------------------------------------------------------
(* The table: insert_entry *)

Mates(v) == IF together THEN Vars ELSE {v}
Chained(v) == IF v \in heads THEN (Mates(v) \cap DOMAIN glob) \ {v} ELSE {}

(* Faulty: the entry is stored before its value is freed.                  *)
ReplacedLate(v) ==
    IF v \in DOMAIN glob THEN {Value(Here.from)} \ {Number} ELSE {}

(* Faulty: only a head is freed.                                           *)
ReplacedHead(v) ==
    IF v \in DOMAIN glob \cap heads THEN {glob[v].val} \ {Number} ELSE {}

Replaced(v) == IF v \in DOMAIN glob THEN {glob[v].val} \ {Number} ELSE {}

OldKey(v) == IF v \in heads THEN {KeyOf(glob[v].key)} ELSE {}

(* A head that is overwritten takes over the new key and loses its chain;  *)
(* an entry in a chain keeps its key.                                      *)
Stored(v, new) ==
    LET key == IF v \in DOMAIN glob \ heads THEN glob[v].key ELSE pc IN
    [n \in (DOMAIN glob \cup {v}) \ Chained(v) |->
        IF n = v THEN [key |-> key, val |-> new] ELSE glob[n]]

-----------------------------------------------------------------------------
(* Statements *)

Mentions(s) == IF s.op \in {"var", "set"} THEN {s.to} \cup Names(s.from)
               ELSE IF s.op = "print" THEN Names(s.from) ELSE {s.name}

At(ops) == phase = "run" /\ pc <= Len(text) /\ text[pc].op \in ops

CastsNumber == /\ Here.op \in {"var", "set", "print"}
               /\ Here.from.kind = "cast" /\ Bound(Here.from)
               /\ Val(Here.from.name) = Number

Nothing == [kind |-> "number"]

(* Evaluating e, freeing what it eats, then the objects and keys in gone;  *)
(* looks says what was wrong with what was looked at, held is what the     *)
(* variables have afterwards.                                              *)
Effects(e, gone, looks, held) ==
    LET eaten == Eaten(e) IN
    /\ freed' = freed \cup eaten \cup gone
    /\ lens' = IF e.kind = "fresh" THEN With(lens, Fresh(Now), 0) ELSE lens
    /\ length' = IF Makes(e) THEN Append(length, 0) ELSE length
    /\ ran' = [ran EXCEPT ![pc] = @ + 1]
    /\ spent' = spent \cup {i \in 1 .. Len(text) : Literal(i) \in eaten \cup gone}
    /\ wrong' = looks \cup
                (IF (eaten \cap freed) \cup (gone \cap (freed \cup eaten)) = {}
                 THEN {} ELSE {"twice"})
    /\ causes' = causes
         \cup (IF eaten \cap Held(glob, local) = {} /\ gone \cap held = {}
               THEN {} ELSE {"shared"})
         \cup (IF e.kind = "literal" /\ pc \in spent THEN {"literal"} ELSE {})
         \cup (IF Here.op = "set" /\ Here.to \in Vars /\ ran[pc] > 0 THEN {"again"} ELSE {})
         \cup (IF Here.op = "set" /\ Chained(Here.to) # {} THEN {"chain"} ELSE {})

Go == /\ phase' = IF wrong' = {} THEN "run" ELSE "undefined"
      /\ pc' = pc + 1
      /\ UNCHANGED <<program, left>>

Casts(e) == IF e.kind = "cast" THEN Look(Val(e.name), meant[e.name]) ELSE {}

(* OP_GLOBAL_DEF, OP_SET_GLOBAL.                                           *)
Assign ==
    /\ At({"var", "set"}) /\ Here.to \in Vars
    /\ Bound(Here.from) /\ ~ CastsNumber
    /\ Here.op = "var" => Here.to \notin DOMAIN glob
    /\ LET e == Here.from
           v == Here.to
       IN
       /\ glob' = Stored(v, Value(e))
       /\ Effects(e, Replaced(v) \cup OldKey(v), Casts(e),
                  Held(glob', local))
       /\ heads' = IF Mates(v) \cap heads = {} THEN heads \cup {v} ELSE heads
       /\ meant' = With(meant, v, Meaning(e))
       /\ loose' = loose \cup {glob[n].val : n \in Chained(v)}
    /\ Go
    /\ UNCHANGED local

(* OP_SET_LOCAL: what was there is forgotten.                              *)
AssignLocal ==
    /\ At({"var", "set"}) /\ Here.to \in Locals
    /\ Bound(Here.from) /\ ~ CastsNumber
    /\ Here.op = "set" => Here.to \in DOMAIN local
    /\ LET e == Here.from
           v == Here.to
       IN
       /\ local' = With(local, v, Value(e))
       /\ Effects(e, {}, Casts(e), Held(glob, local'))
       /\ meant' = With(meant, v, Meaning(e))
       /\ loose' = loose \cup {local[n] : n \in {v} \cap DOMAIN local}
    /\ Go
    /\ UNCHANGED <<glob, heads>>

(* pout: a string that was made for it is never freed.                     *)
PrintTop ==
    /\ At({"print"}) /\ Bound(Here.from) /\ ~ CastsNumber
    /\ LET e == Here.from IN
       /\ Effects(e, {}, IF e.kind = "cast" THEN Casts(e)
                         ELSE Look(Value(e), Meaning(e)), Held(glob, local))
       /\ loose' = IF e.kind = "fresh" THEN loose \cup {Value(e)} ELSE loose
    /\ Go
    /\ UNCHANGED <<glob, heads, local, meant>>

(* OP_RM: the name keeps the pointer.                                      *)
Remove ==
    /\ At({"rm"}) /\ Here.name \in Found
    /\ Effects(Nothing, {Val(Here.name)} \ {Number}, {}, Held(glob, local))
    /\ Go
    /\ UNCHANGED <<glob, heads, local, meant, loose>>

(* push_value.                                                             *)
Push ==
    /\ At({"push"}) /\ Here.name \in Found
    /\ Val(Here.name) # Number
    /\ LET r == Val(Here.name)
           n == meant[Here.name]
       IN
       /\ lens' = With(lens, r, LenOf(r) + 1)
       /\ length' = [length EXCEPT ![n] = @ + 1]
       /\ wrong' = Look(r, n)
       /\ spent' = spent \cup {i \in 1 .. Len(text) : Literal(i) = r}
       /\ causes' = IF \A v \in Found : Val(v) = r => meant[v] = n THEN causes
                    ELSE causes \cup {"literal"}
    /\ ran' = [ran EXCEPT ![pc] = @ + 1]
    /\ Go
    /\ UNCHANGED <<glob, heads, local, freed, meant, loose>>

(* A name without value, or declared twice, is an error; so is a push to a *)
(* number.  A name that has a value but is not found went down with the    *)
(* chain of another.  (Left out, and ended here: a cast of a number that   *)
(* says it is a string, which reads wherever the number points, and a      *)
(* local assigned in front of its declaration, which is a global there.)   *)
Fails ==
    /\ phase = "run" /\ pc <= Len(text)
    /\ LET used == IF Here.op \in {"rm", "push"} THEN {Here.name}
                   ELSE Names(Here.from)
           lost == (used \cap DOMAIN meant \cap Vars) \ Found
       IN
       /\ \/ ~ used \subseteq Found
          \/ Here.op = "var" /\ Here.to \in DOMAIN glob
          \/ Here.op = "set" /\ Here.to \in Locals \ Found
          \/ /\ Here.op = "push" /\ Here.name \in Found
             /\ Val(Here.name) = Number
          \/ CastsNumber
       /\ wrong' = IF lost = {} THEN {} ELSE {"lost"}
    /\ phase' = "ended"
    /\ UNCHANGED <<program, pc, left, glob, heads, local, freed, lens, meant,
                   length, ran, spent, loose, causes>>

(* end_scope, then OP_LOOP: the locals are popped.                         *)
BlockEnds ==
    /\ phase = "run" /\ pc > Len(text)
    /\ local' = [v \in {} |-> Number]
    /\ loose' = loose \cup {local[v] : v \in DOMAIN local}
    /\ UNCHANGED <<program, glob, heads, freed, lens, meant, length, wrong, ran,
                   spent, causes>>

Again == /\ BlockEnds /\ loop <= Len(text) /\ left > 0
         /\ pc' = loop /\ left' = left - 1
         /\ UNCHANGED phase

Done == /\ BlockEnds
        /\ phase' = "ended"
        /\ UNCHANGED <<pc, left>>

-----------------------------------------------------------------------------

Init ==
    /\ text \in Texts
    /\ loop \in {l \in 1 .. Len(text) + 1 :
                    \A i \in 1 .. Len(text) :
                       /\ i >= l /\ text[i].op = "var" => text[i].to \in Locals
                       /\ i < l => Mentions(text[i]) \cap Locals = {}}
    /\ together \in BOOLEAN
    /\ pc = 1 /\ left = ROUNDS /\ phase = "run"
    /\ glob = [v \in {} |-> Number] /\ heads = {}
    /\ local = [v \in {} |-> Number]
    /\ freed = {} /\ lens = [r \in {Literal(i) : i \in 1 .. Len(text)} |-> 0]
    /\ meant = [v \in {} |-> 0] /\ length = <<>> /\ wrong = {}
    /\ ran = [i \in 1 .. Len(text) |-> 0]
    /\ spent = {} /\ loose = {} /\ causes = {}

Next == Assign \/ AssignLocal \/ PrintTop \/ Remove \/ Push \/ Fails \/ Again \/ Done

Spec == Init /\ [][Next]_vars

-----------------------------------------------------------------------------
(* Properties *)

(* No name is copied, removed or cast; in a loop nothing is pushed to and   *)
(* no global assigned; no two globals share a bucket.                      *)
Disciplined ==
    /\ ~ together
    /\ \A i \in 1 .. Len(text) :
          LET s == text[i] IN
          /\ s.op # "rm"
          /\ s.op \in {"var", "set"} => Names(s.from) = {}
          /\ s.op = "print" => s.from.kind # "cast"
          /\ i >= loop => s.op # "push"
          /\ i >= loop /\ s.op = "set" => s.to \in Locals

(* A program sees the values it assigned, and frees nothing twice, unless  *)
(* an object was freed that a global still has (copied, assigned to        *)
(* itself, removed, cast), a literal was evaluated whose object had been   *)
(* freed or pushed to, one was pushed to that another variable had from an *)
(* evaluation of its own, a statement assigned to a global once more (the  *)
(* string of its own name is what it frees), or a global was in the chain  *)
(* of one that was overwritten.  None of this goes wrong in a disciplined  *)
(* program.                                                                *)
SeesItsValues == wrong # {} => causes # {} /\ ~ Disciplined

(* Nothing that can still be freed is forgotten: a string made at run time *)
(* is freed, or some variable has it, or it was only printed, went down    *)
(* with a chain, or was the value of a local.                              *)
Reclaims ==
    phase = "run" =>
        \A n \in 1 .. Len(length) :
            Fresh(n) \in DOMAIN lens =>
                Fresh(n) \in freed \cup Held(glob, local) \cup loose
=============================================================================
