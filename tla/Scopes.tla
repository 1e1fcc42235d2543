-------------------------------- MODULE Scopes -------------------------------
(***************************************************************************)
(* Block-scoped variables: the compiler's list of locals (init_compiler,   *)
(* declare_var, add_local, resolve_local, end_scope of compiler.c) and the *)
(* stack positions that the code it emits gives them.                      *)
(*                                                                         *)
(* A script is compiled and run one statement after the other: the model   *)
(* does both at once.  A block that is skipped leaves the stack as it is,  *)
(* so the blocks here are the ones that run.  The values that are written  *)
(* are literals; a literal is also a constant of the chunk, and the first  *)
(* constants are what OP_POPN looks at.  Names are known by their hash;    *)
(* what lies in a record of the list that was never written is taken to    *)
(* match no name.                                                          *)
(***************************************************************************)
EXTENDS Integers, Sequences, FiniteSetsExt

CONSTANTS Names, Literals,
          Garbage,      \* the name in a record that was never written
          Nil,          \* the value T_NULL
          Unset, Junk,  \* no value; an element that is nobody's
          MAX_LOCALS,   \* bound: records of the list in use
          MAX_SCOPE,    \* bound: nesting of blocks
          MAX_CELLS,    \* bound: elements on the stack
          MAX_FUNS      \* bound: functions the script declares

ASSUME ScopesAssumption ==
    /\ Literals \subseteq Nat /\ Garbage \notin Names
    /\ {Nil, Unset, Junk} \cap Literals = {}
    /\ {MAX_LOCALS, MAX_SCOPE, MAX_CELLS, MAX_FUNS} \subseteq Nat
    /\ MAX_LOCALS # 0     \* the script's own record
    /\ MAX_CELLS # 0      \* the callee's slot lies on the stack

VARIABLES list,     \* the compiler's locals: position -> [name, depth]
          nlocal,   \* count.local
          scope,    \* count.scope
          consts,   \* the constants OP_POPN may read
          cells,    \* the value stack, from the frame's slots on
          count,    \* elements on it
          globs,    \* machine.glob
          env,      \* history: the declarations in scope, innermost last
          open,     \* history: what each open block found, innermost last
          plain,    \* history: no construct that unsettles the stack so far
          funs      \* functions declared

code  == <<list, nlocal, scope, consts, funs>>
state == <<cells, count, globs>>
vars  == <<code, state, env, open, plain>>

(* The records and elements in use that a block finds and should restore;  *)
(* None for the records once it declares a function, and for the elements  *)
(* once something other than its locals is left on the stack.              *)
None == -1
Found == [nlocal |-> nlocal, count |-> count]
Uneven(bs) == [i \in DOMAIN bs |-> [bs[i] EXCEPT !.count = None]]
Taken(bs)  == [i \in DOMAIN bs |-> [nlocal |-> None, count |-> None]]

(* The innermost declaration of a name.                                    *)
Bindings(n) == {i \in 1 .. Len(env) : env[i].name = n}
Declared(n) == Bindings(n) # {}
Meant(n) == IF Declared(n) THEN env[Max(Bindings(n))].val ELSE Unset

(* Faulty: the list is searched from the outermost local.                  *)
ResolveOutermost(n) ==
    LET found == {i \in 0 .. nlocal - 1 : list[i].name = n} IN
    IF found = {} THEN -1 ELSE Min(found)

(* resolve_local (compiler.c:1821-1827)                                    *)
Resolve(n) ==
    LET found == {i \in 0 .. nlocal - 1 : list[i].name = n} IN
    IF found = {} THEN -1 ELSE Max(found)

(* What the code emitted for a use of the name reads.                      *)
Value(n) == IF Resolve(n) = -1 THEN globs[n] ELSE cells[Resolve(n)]

(* Faulty: records of depth 0 stop the walk too.                           *)
OuterAny(i) == list[i].depth < scope

(* declare_var reports a name that a record above the last one of an outer *)
(* block has; records of depth 0 do not stop the walk.  What it reports is *)
(* an error message and no more: the local is added, the declaration       *)
(* compiled to its semicolon, where synchronize resumes with the flag      *)
(* cleared, and the program runs with both records (compiler.c:511-518).   *)
Outer(i) == list[i].depth # 0 /\ list[i].depth < scope
Duplicate(n) ==
    \E i \in 0 .. nlocal - 1 :
        list[i].name = n /\ ~ \E j \in i .. nlocal - 1 : Outer(j)

(* A block drops fewer than MAX_LOCALS locals, and reads no constant that  *)
(* comes later.                                                            *)
Constant(cs) == consts' = SubSeq(consts \o cs, 1,
                                 Min({Len(consts \o cs), MAX_LOCALS - 1}))

(* OP_SET_LOCAL stores the operand and leaves it on the stack.             *)
SetLocal(i, v) == /\ cells' = [cells EXCEPT ![count] = v, ![i] = v]
                  /\ count' = count + 1
                  /\ UNCHANGED globs
SetGlobal(n, v) == /\ globs' = [globs EXCEPT ![n] = v]
                   /\ cells' = [cells EXCEPT ![count] = Junk]
                   /\ UNCHANGED count

Leave(v) == /\ cells' = [cells EXCEPT ![count] = v]
            /\ count' = count + 1
            /\ UNCHANGED globs

Room == count < MAX_CELLS

-----------------------------------------------------------------------------
(* { of a block, and for; the script itself is scope 0.                    *)
Begin ==
    /\ scope < MAX_SCOPE
    /\ scope' = scope + 1
    /\ open' = Append(open, Found)
    /\ UNCHANGED <<list, nlocal, consts, funs, state, env, plain>>

AddLocal(n) ==
    /\ nlocal < MAX_LOCALS
    /\ list' = [list EXCEPT ![nlocal] = [name |-> n, depth |-> scope]]
    /\ nlocal' = nlocal + 1

Bind(n, v) == env' = Append(env, [name |-> n, scope |-> scope, val |-> v])

(* var n = v; inside a block.                                              *)
DeclareLocal(n, v) ==
    /\ scope > 0 /\ Room
    /\ AddLocal(n)
    /\ SetLocal(nlocal, v)
    /\ Constant(<<v>>)
    /\ Bind(n, v)
    /\ UNCHANGED <<scope, funs, open, plain>>

(* var n; OP_NOOP pushes a Null, which is the local's element only if      *)
(* nothing else is left on the stack; at the top it defines no global.     *)
DeclareBare(n) ==
    /\ scope > 0 /\ Room
    /\ AddLocal(n)
    /\ Leave(Nil)
    /\ Bind(n, Nil)
    /\ plain' = (plain /\ count = nlocal)
    /\ UNCHANGED <<scope, consts, funs, open>>

DeclareNothing ==
    /\ scope = 0 /\ Room
    /\ Leave(Nil)
    /\ Constant(<<0>>)
    /\ UNCHANGED <<list, nlocal, scope, funs, env, open, plain>>

(* v; as a statement: its value is never popped.                           *)
Statement(v) ==
    /\ Room
    /\ Leave(v)
    /\ Constant(<<v>>)
    /\ open' = Uneven(open)
    /\ UNCHANGED <<list, nlocal, scope, funs, env, plain>>

(* var n = v; at the top: OP_GLOBAL_DEF.                                   *)
DeclareGlobal(n, v) ==
    /\ scope = 0 /\ Room /\ globs[n] = Unset
    /\ SetGlobal(n, v)
    /\ Constant(<<0, v>>)
    /\ Bind(n, v)
    /\ UNCHANGED <<list, nlocal, scope, funs, open, plain>>

(* n = v; of a declared name.                                              *)
Assign(n, v) ==
    /\ Declared(n) /\ Room
    /\ IF Resolve(n) # -1
       THEN /\ SetLocal(Resolve(n), v) /\ Constant(<<v>>)
            /\ open' = Uneven(open)
       ELSE /\ SetGlobal(n, v) /\ Constant(<<0, v>>)
            /\ UNCHANGED open
    /\ env' = [env EXCEPT ![Max(Bindings(n))].val = v]
    /\ UNCHANGED <<list, nlocal, scope, funs, plain>>

(* A statement whose operands are all popped again: pout(v).               *)
Pout(v) ==
    /\ Room
    /\ cells' = [cells EXCEPT ![count] = Junk]
    /\ Constant(<<v>>)
    /\ UNCHANGED <<list, nlocal, scope, funs, count, globs, env, open, plain>>

(* A function or a method: init_compiler takes a record of the enclosing   *)
(* compiler's list (compiler.c:55) and gives it depth 0 and no name of its *)
(* own.  OP_CLOSURE leaves the stack alone.                                *)
Function ==
    /\ funs < MAX_FUNS /\ nlocal < MAX_LOCALS
    /\ list' = [list EXCEPT ![nlocal].depth = 0]
    /\ nlocal' = nlocal + 1
    /\ Constant(<<0>>)
    /\ funs' = funs + 1
    /\ plain' = FALSE
    /\ open' = Taken(open)
    /\ UNCHANGED <<scope, state, env>>

(* Faulty: the locals of the enclosing block go too.                       *)
KeptOuter == {i \in 0 .. nlocal - 1 : list[i].depth < scope - 1}

(* The records end_scope stops at.                                         *)
Kept == {i \in 0 .. nlocal - 1 : list[i].depth < scope}

(* end_scope counts the dropped locals from -1: none or one is right, for  *)
(* n > 1 of them OP_POPN gets n - 1, which run takes for the index of the  *)
(* constant that says how many elements to pop (virtual_machine.c:389-391).*)
Popped(n) ==
    IF n <= 1 THEN {n}
    ELSE IF n - 1 < Len(consts) THEN {consts[n]} ELSE 0 .. count

(* } of a block.  To pop more than there is wraps the 16-bit count; the    *)
(* next push fails, and the model ends there.  The declarations in scope   *)
(* are nested: those of the block are the last ones.                       *)
End ==
    LET top   == Max(Kept \cup {-1}) + 1
        outer == {i \in 1 .. Len(env) : env[i].scope < scope}
        rest  == SubSeq(open, 1, Len(open) - 1)
    IN
    /\ scope > 0
    /\ scope' = scope - 1
    /\ nlocal' = top
    /\ \E p \in Popped(nlocal - top) :
          /\ p <= count
          /\ count' = count - p
          /\ cells' = [i \in DOMAIN cells |->
                          IF i < count - p THEN cells[i] ELSE Junk]
          /\ plain' = (plain /\ p <= nlocal - top)
    /\ env' = SubSeq(env, 1, Max(outer \cup {0}))
    /\ open' = IF nlocal - top <= 1 THEN rest ELSE Uneven(rest)
    /\ UNCHANGED <<list, consts, funs, globs>>

-----------------------------------------------------------------------------
Init ==
    /\ list = [i \in 0 .. MAX_LOCALS |-> [name |-> Garbage, depth |-> 0]]
    /\ nlocal = 1 /\ scope = 0
    /\ consts = <<>> /\ funs = 0
    /\ cells = [i \in 0 .. MAX_CELLS |-> Junk]
    /\ count = 1
    /\ globs = [n \in Names |-> Unset]
    /\ env = <<>> /\ open = <<>> /\ plain = TRUE

Next ==
    \/ Begin
    \/ End
    \/ \E n \in Names, v \in Literals :
          DeclareLocal(n, v) \/ DeclareGlobal(n, v) \/ Assign(n, v)
    \/ \E n \in Names : DeclareBare(n)
    \/ DeclareNothing
    \/ \E v \in Literals : Pout(v) \/ Statement(v)
    \/ Function

Spec == Init /\ [][Next]_vars

-----------------------------------------------------------------------------
(* Type correctness; until a function is declared, a record in use belongs *)
(* to a block that is open.                                                *)
TypeOK ==
    /\ nlocal \in 0 .. MAX_LOCALS + 1 /\ scope \in 0 .. MAX_SCOPE
    /\ count \in 0 .. MAX_CELLS /\ plain \in BOOLEAN
    /\ funs = 0 => \A i \in 0 .. nlocal - 1 : list[i].depth <= scope
    /\ \A i \in DOMAIN cells : cells[i] \in Literals \cup {Nil, Junk}

(* In a script that declares no functions, no variable without a value     *)
(* where statements have left something on the stack, and closes no block  *)
(* in a way that pops too much, every name reads the value last given to   *)
(* its innermost declaration in scope, and a name out of scope has none.   *)
NamesResolve == plain => \A n \in Names : Value(n) = Meant(n)

(* A duplicate declaration of a block is always reported, in every script. *)
(* A name that the block does not declare is reported only by way of a     *)
(* function's record: that record lies at or above the one that matches,   *)
(* which is the function's own or one that a closed block left behind.     *)
DeclaredHere(n) == \E i \in 1 .. Len(env) :
                  env[i].name = n /\ env[i].scope = scope
UnderFunction(n) ==
    \E i \in 1 .. nlocal - 1 :
        list[i].name = n /\ \E j \in i .. nlocal - 1 : list[j].depth = 0
DuplicatesReported ==
    scope > 0 =>
        \A n \in Names :
            /\ DeclaredHere(n) => Duplicate(n)
            /\ Duplicate(n) => DeclaredHere(n) \/ UnderFunction(n)

(* At its end a block that declares no function has the records in use     *)
(* that it found, whatever blocks lie in it.  The stack is as high as it   *)
(* was found, if nothing but locals was left on it, by this block or one   *)
(* in it, and neither of them dropped more than one local.                 *)
BlocksRestore ==
    [][scope' < scope =>
          LET found == open[Len(open)] IN
          /\ found.nlocal # None => nlocal' = found.nlocal
          /\ found.count # None /\ nlocal - nlocal' <= 1
                => count' = found.count]_vars
=============================================================================
