------------------------------- MODULE Objects -------------------------------
(***************************************************************************)
(* Instances at run time: constructors, which fill the table of an object  *)
(* that does not exist yet, property access and `this` (virtual_machine.c: *)
(* OP_CLASS, OP_ALLOC_INSTANCE, OP_THIS, OP_SET_PROP, OP_GET_PROP, with    *)
(* OP_CALL and OP_RETURN as far as they move between activations).         *)
(*                                                                         *)
(* The code that runs is any sequence of the instructions the compiler     *)
(* emits for classes (compiler.c:254-361, 1697-1780): a construction is    *)
(* OP_CLASS, the arguments, OP_CALL of the initialiser and, once that      *)
(* returned, OP_ALLOC_INSTANCE.  The machine keeps the tables of open      *)
(* constructions on a stack of its own, init_field, and sends every        *)
(* property access to the topmost; the receiver of a method is whatever    *)
(* object a property was last looked up in.  History records what the      *)
(* program means by each operand and by `this`, and legal how long it has  *)
(* avoided what that design cannot express.                                *)
(*                                                                         *)
(* A table is a function on names: the methods of a class are few enough   *)
(* for buckets of their own, what chains do is the subject of Table.       *)
(* Arities and functions outside classes, which have no `this`, are the    *)
(* subject of Calls.                                                       *)
(***************************************************************************)
EXTENDS Integers, Sequences, FiniteSets, SequencesExt

CONSTANTS Classes, Names, Data,
          HasInit,      \* classes with a constructor
          Methods,      \* the names of a class's closures
          init,         \* the name of constructors
          Read, Fields, \* bound: the names that programs read and assign
          FRAMES_MAX,
          MAX_STACK,    \* bound: elements on the stack
          MAX_OPS,      \* bound: operands of a statement
          MAX_JUNK,     \* bound: values an activation has left over
          MAX_TABLES,   \* bound: tables, one for each object
          MAX_ARGS,     \* bound: arguments of a call
          MAX_LEFT      \* bound: elements an earlier line left behind

ASSUME ObjectsAssumption ==
    /\ HasInit \subseteq Classes /\ init \in Names
    /\ Read \subseteq Names /\ Fields \subseteq Names
    /\ Methods \in [Classes -> SUBSET Names]
    /\ \A c \in Classes : init \in Methods[c] <=> c \in HasInit
    /\ {FRAMES_MAX, MAX_STACK, MAX_OPS, MAX_JUNK, MAX_TABLES, MAX_ARGS,
        MAX_LEFT} \subseteq Nat
    /\ FRAMES_MAX # 0

VARIABLES stack,       \* machine.stack.main
          frames,      \* machine.frames: closure and return_index
          init_field,  \* machine.stack.init_field: tables
          tables, objs,   \* the heap: tables, and instances with theirs
          caller,      \* machine.caller, 0 for NULL
          acts,        \* history: activations, as the program means them
          looked,      \* history: the object a property was last looked up in
          legal        \* history

heap == <<init_field, tables, objs>>
vars == <<stack, frames, heap, caller, acts, looked, legal>>

Datum(d) == <<"data", d>>
Obj(i)   == <<"obj", i>>
Fn(m)    == <<"fn", m>>
IsFn(v)  == v[1] = "fn"
IsObj(v) == v[1] = "obj"

Running == frames # <<>>
frame == Last(frames)
act == Last(acts)

(* An activation: the table of the object its `this` means (0 for none),   *)
(* whether its return completes a construction, its open constructions,    *)
(* whether OP_ALLOC_INSTANCE comes next, and the operands of the current   *)
(* statement: to is the table of the object meant, held says that it is    *)
(* the `this` of a construction, which is no object yet.  short: nothing   *)
(* was pushed for the `this` that the statement began with.  floor: how    *)
(* much was on the stack when the body began, below: how many tables on    *)
(* init_field.                                                             *)
Act(self, built, floor) ==
    [self |-> self, built |-> built, alloc |-> FALSE, ctors |-> <<>>,
     ops |-> <<>>, short |-> FALSE, floor |-> floor, below |-> Len(init_field)]
Op(to)   == [to |-> to, held |-> FALSE]
Means(v) == Op(IF IsObj(v) THEN objs[v[2]].fields ELSE 0)

Constructing == \E k \in DOMAIN acts : acts[k].ctors # <<>>

(* What a construction has pushed is not popped before it is complete.     *)
Open == IF act.ctors = <<>> THEN 0 ELSE Last(act.ctors).at
(* Bound: a program is followed up to its first step that is not legal.    *)
Goes  == Running /\ legal
Instr == Goes /\ ~ act.alloc /\ Len(stack) > frame.return_index
Has(n) == Instr /\ Len(act.ops) - n >= Open
Room == Len(stack) < MAX_STACK /\ Len(act.ops) < MAX_OPS

Without(s, n) == SubSeq(s, 1, Len(s) - n)

(* n operands are replaced by one.                                         *)
Replace(n, v, op) ==
    /\ stack' = Append(Without(stack, n), v)
    /\ acts' = [acts EXCEPT ![Len(acts)].ops = Append(Without(@, n), op)]

(* runtime_error: the frames are gone, init_field stays.                   *)
Fail(n) ==
    /\ stack' = Without(stack, n)
    /\ frames' = <<>> /\ acts' = <<>>
    /\ legal' = (legal /\ ~ Constructing)
    /\ UNCHANGED heap

Legal(ok) == legal' = (legal /\ ok)

-----------------------------------------------------------------------------
Interpret ==
    /\ ~ Running /\ Len(stack) <= MAX_LEFT
    /\ stack' = Append(stack, Fn("script"))
    /\ frames' = <<[closure |-> "script", return_index |-> Len(stack)]>>
    /\ acts' = <<Act(0, FALSE, Len(stack'))>>
    /\ UNCHANGED <<heap, caller, looked, legal>>

(* A constant, or an object that some variable holds.                      *)
Operand(v) ==
    /\ Instr /\ Room
    /\ Replace(0, v, Means(v))
    /\ UNCHANGED <<frames, heap, caller, looked, legal>>

Discard ==
    /\ Has(1)
    /\ stack' = Front(stack)
    /\ acts' = [acts EXCEPT ![Len(acts)].ops = Front(@)]
    /\ Legal(~ Last(act.ops).held /\ (act.short => Len(act.ops) > 1))
    /\ UNCHANGED <<frames, heap, caller, looked>>

(* The end of an expression statement emits nothing: its value stays on    *)
(* the stack, but the program has no name for it.                          *)
EndStatement ==
    /\ Has(1) /\ act.ctors = <<>>
    /\ Len(stack) <= act.floor + MAX_JUNK
    /\ acts' = [acts EXCEPT ![Len(acts)].ops = <<>>, ![Len(acts)].short = FALSE]
    /\ UNCHANGED <<stack, frames, heap, caller, looked, legal>>

-----------------------------------------------------------------------------
(* Constructions *)

Copy(c) == [m \in Methods[c] |-> Fn(m)]
Instance(c, t) == [class |-> c, fields |-> t]
PushItab(t) == Append(init_field, t)

Class(c) ==
    /\ Instr /\ Room /\ Len(tables) < MAX_TABLES
    /\ tables' = Append(tables, Copy(c))
    /\ init_field' = PushItab(Len(tables'))
    /\ stack' = Append(stack, Fn(init))
    /\ acts' = [acts EXCEPT
          ![Len(acts)].ops = Append(@, Op(Len(tables'))),
          ![Len(acts)].ctors = Append(@, [at |-> Len(act.ops) + 1, of |-> c,
                                          tab |-> Len(tables')])]
    /\ UNCHANGED <<frames, objs, caller, looked, legal>>

(* Faulty: the table of the outermost construction is taken.               *)
PopItabFirst == [fields |-> Head(init_field), rest |-> Tail(init_field)]

(* Faulty: the table is not taken off.                                     *)
PopItabKeeps == [fields |-> Last(init_field), rest |-> init_field]

PopItab == [fields |-> Last(init_field), rest |-> Front(init_field)]

(* The instance takes over the table; what the initialiser returned stays  *)
(* below it.                                                               *)
AllocBuilt ==
    /\ Goes /\ act.alloc /\ Room
    /\ LET ctor == Last(act.ctors) IN
       /\ objs' = Append(objs, Instance(ctor.of, PopItab.fields))
       /\ init_field' = PopItab.rest
       /\ stack' = Append(stack, Obj(Len(objs')))
       /\ acts' = [acts EXCEPT ![Len(acts)].ops = Append(@, Op(ctor.tab)),
                               ![Len(acts)].ctors = Front(@),
                               ![Len(acts)].alloc = FALSE]
    /\ UNCHANGED <<frames, tables, caller, looked, legal>>

(* A class without constructor, or one whose constructor is still being    *)
(* compiled.                                                               *)
AllocPlain(c) ==
    /\ Instr /\ Room /\ Len(tables) < MAX_TABLES
    /\ tables' = Append(tables, Copy(c))
    /\ objs' = Append(objs, Instance(c, Len(tables')))
    /\ Replace(0, Obj(Len(objs')), Op(Len(tables')))
    /\ UNCHANGED <<frames, init_field, caller, looked, legal>>

-----------------------------------------------------------------------------
(* Properties *)

(* Nothing is pushed before any property was looked up.  Only code of a    *)
(* class body has a `this`.                                                *)
This ==
    /\ Instr /\ Room /\ act.self # 0
    /\ stack' = IF caller # 0 THEN Append(stack, Obj(caller)) ELSE stack
    /\ acts' = [acts EXCEPT ![Len(acts)].short = (looked = 0),
                            ![Len(acts)].ops =
                   Append(@, [to |-> act.self, held |-> Constructing])]
    /\ Legal(IF Constructing THEN looked = 0 => act.ops = <<>>
                             ELSE looked = act.self)
    /\ UNCHANGED <<frames, heap, caller, looked>>

(* ifield_init *)
Redirected == init_field # <<>>
Accepts(v) == Redirected \/ IsObj(v)
Target(v)  == IF Redirected THEN Last(init_field) ELSE objs[v[2]].fields

(* During a construction only the object under construction is used.       *)
OwnAccess(receiver) ==
    Constructing => receiver.held /\ act.ctors = <<>>

(* Faulty: the first object ever looked at stays the receiver.             *)
CallerFirst(v) == IF Redirected \/ caller # 0 THEN caller ELSE v[2]

Caller(v) == IF Redirected THEN caller ELSE v[2]

GetProp(p) ==
    /\ Has(1)
    /\ LET v == Last(stack)  receiver == Last(act.ops) IN
       IF ~ Accepts(v) THEN Fail(1) /\ UNCHANGED <<caller, looked>>
       ELSE /\ caller' = Caller(v)
            /\ looked' = IF Constructing THEN looked ELSE receiver.to
            /\ LET t == tables[Target(v)] IN
               IF p \notin DOMAIN t THEN Fail(1)
               ELSE /\ Replace(1, t[p], IF IsFn(t[p]) THEN Op(receiver.to)
                                                      ELSE Means(t[p]))
                    /\ Legal(OwnAccess(receiver))
                    /\ UNCHANGED <<frames, heap>>

SetProp(p) ==
    /\ Has(2) /\ Len(stack) >= 2
    /\ LET w == Last(stack)  v == stack[Len(stack) - 1]
           value == Last(act.ops)  receiver == act.ops[Len(act.ops) - 1] IN
       IF ~ Accepts(v) THEN Fail(2)
       ELSE /\ tables' = [tables EXCEPT ![Target(v)] =
                 [q \in DOMAIN @ \cup {p} |-> IF q = p THEN w ELSE @[q]]]
            /\ Replace(2, w, value)
            /\ Legal(OwnAccess(receiver) /\ ~ value.held)
            /\ UNCHANGED <<frames, init_field, objs>>
    /\ UNCHANGED <<caller, looked>>

-----------------------------------------------------------------------------
(* Faulty: the callee's own slot is not counted.                           *)
ReturnIndexHigh(n) == Len(stack) - n

ReturnIndex(n) == Len(stack) - (n + 1)

Full == Len(frames) = FRAMES_MAX

(* The prologue moves the arguments down over the callee and leaves the    *)
(* last of them above.                                                     *)
Prologue(n) ==
    LET args == SubSeq(stack, Len(stack) - n + 1, Len(stack)) IN
    IF n = 0 THEN stack
    ELSE Without(stack, n + 1) \o args \o <<Last(args)>>

Call(n) ==
    /\ Has(n) /\ Len(act.ops) > n /\ Len(stack) > n
    /\ LET callee == stack[Len(stack) - n]
           at == Len(act.ops) - n
           built == act.ctors # <<>> /\ at = Open IN
       IF ~ IsFn(callee) \/ Full THEN Fail(0)
       ELSE /\ frames' = Append(frames, [closure |-> callee[2],
                                         return_index |-> ReturnIndex(n)])
            /\ stack' = Prologue(n)
            /\ acts' = Append([acts EXCEPT ![Len(acts)].ops =
                                   Without(@, n + 1)],
                              Act(act.ops[at].to, built, Len(stack')))
            /\ Legal(\A i \in at .. Len(act.ops) : ~ act.ops[i].held)
            /\ UNCHANGED heap
    /\ UNCHANGED <<caller, looked>>

(* A constructor returns its first local, whatever that is.                *)
Result == IF frame.closure = init THEN stack[frame.return_index + 1]
          ELSE Last(stack)

Return ==
    /\ Instr /\ act.ctors = <<>>
    /\ frames' = Front(frames)
    /\ IF Len(frames) = 1
       THEN stack' = Front(stack) /\ acts' = <<>> /\ UNCHANGED legal
       ELSE /\ stack' = Append(SubSeq(stack, 1, frame.return_index), Result)
            /\ acts' = [Front(acts) EXCEPT
                  ![Len(acts) - 1].ops = Append(@, Means(Result)),
                  ![Len(acts) - 1].alloc = act.built]
            /\ Legal(act.ops # <<>> => ~ Last(act.ops).held)
    /\ UNCHANGED <<heap, caller, looked>>

-----------------------------------------------------------------------------
Init ==
    /\ stack = <<>> /\ frames = <<>> /\ init_field = <<>>
    /\ tables = <<>> /\ objs = <<>> /\ caller = 0
    /\ acts = <<>> /\ looked = 0 /\ legal = TRUE

Next ==
    \/ Interpret
    \/ \E v \in {Datum(d) : d \in Data} \cup {Obj(i) : i \in DOMAIN objs} :
          Operand(v)
    \/ Discard \/ EndStatement
    \/ \E c \in HasInit : Class(c)
    \/ AllocBuilt
    \/ \E c \in Classes : AllocPlain(c)
    \/ This
    \/ \E p \in Read : GetProp(p)
    \/ \E p \in Fields : SetProp(p)
    \/ \E n \in 0 .. MAX_ARGS : Call(n)
    \/ Return

Spec == Init /\ [][Next]_vars

-----------------------------------------------------------------------------
(* Type correctness; the frame array is never left.                        *)
TypeOK ==
    /\ Len(frames) = Len(acts) /\ Len(frames) <= FRAMES_MAX
    /\ ToSet(init_field) \subseteq DOMAIN tables
    /\ \A i \in DOMAIN objs : /\ objs[i].class \in Classes
                              /\ objs[i].fields \in DOMAIN tables
    /\ \A i \in DOMAIN tables : DOMAIN tables[i] \subseteq Names
    /\ caller \in DOMAIN objs \cup {0} /\ looked \in 0 .. Len(tables)

(* No two instances share a table, and no table that a constructor is      *)
(* filling belongs to an instance or to another construction.              *)
TablesOwned ==
    LET owners == init_field \o [i \in DOMAIN objs |-> objs[i].fields]
    IN  IsInjective(owners)

(* The tables on init_field are those of the open constructions, innermost *)
(* last, whatever the constructors call and construct, so each instance    *)
(* gets the table its own constructor filled.  (A construction that fails  *)
(* is not legal: it leaves its table there for good.)                      *)
Upto(k) == IF k = 0 THEN 0 ELSE acts[k].below + Len(acts[k].ctors)
ConstructorsNest ==
    legal => /\ Len(init_field) = Upto(Len(acts))
             /\ \A k \in DOMAIN acts :
                   /\ acts[k].below = Upto(k - 1)
                   /\ \A j \in DOMAIN acts[k].ctors :
                         init_field[acts[k].below + j] = acts[k].ctors[j].tab

(* As long as the program looks at no other object during a construction,  *)
(* and not since its method was looked up, `this` in that method or        *)
(* constructor leads to the properties of the object it means.             *)
ThisIsReceiver ==
    legal /\ Running /\ act.self # 0 /\ act.ctors = <<>>
          /\ (Constructing \/ looked = act.self)
    => Accepts(Obj(caller)) /\ Target(Obj(caller)) = act.self

(* Such a program finds its operands where it put them, though OP_THIS may *)
(* push nothing, and never pops its callers' elements.                     *)
OperandsAsMeant ==
    legal /\ Running =>
    /\ Len(stack) > frame.return_index
    /\ \A i \in DOMAIN act.ops :
          LET v == stack[Len(stack) - (Len(act.ops) - i)] IN
          ~ act.ops[i].held /\ IsObj(v) =>
             objs[v[2]].fields = act.ops[i].to
=============================================================================
