--------------------------------- MODULE Flow --------------------------------
(***************************************************************************)
(* Control flow: the code that one pass of the compiler emits and patches  *)
(* for if, elif, else, while, for and switch (compiler.c), where the       *)
(* machine's jumps go (virtual_machine.c:602-632), and what the program    *)
(* means.  A program is run with every outcome of its conditions.          *)
(*                                                                         *)
(* A simple statement, and the test of a condition, stand for the code of  *)
(* an expression: one instruction of EXPR bytes that can be told from all  *)
(* others.  Jumps, their operands and the places they are patched at are   *)
(* bytes, as in the chunk.  && and || are conditions of two tests.         *)
(***************************************************************************)
EXTENDS Integers, Sequences, SequencesExt

CONSTANTS Programs,   \* the programs to compile
          EXPR,       \* bytes of an expression
          BYTE        \* 2^8: values of an operand byte

ASSUME FlowAssumption == EXPR \in Nat \ {0} /\ BYTE \in Nat \ {0}

VARIABLES prog,    \* the program
          chunk,   \* its code, byte by byte, and the list of exits
          pc,      \* the byte that is next
          ops,     \* results of tests waiting for their jump
          todo,    \* history: what the program means to do next
          end      \* "no", "done", or "stray" at a byte of no instruction

vars == <<prog, chunk, pc, ops, todo, end>>

(* Statements.  An if, a switch, a while and a for have conditions and     *)
(* bodies; a body more than conditions is the else or the default.  at is  *)
(* the path to the statement from the root of the program.                 *)
Stmt(kind, conds, kids, inc) ==
    [kind |-> kind, conds |-> conds, kids |-> kids, inc |-> inc, at |-> <<>>]

RECURSIVE Placed(_, _)
Placed(s, at) ==
    [s EXCEPT !.at = at,
              !.kids = [i \in DOMAIN @ |-> Placed(@[i], Append(at, i))]]

Label(s, part, nth) == [at |-> s.at, part |-> part, nth |-> nth]
Whole == 0
Inc   == -1

-----------------------------------------------------------------------------
(* Emitting *)

Cell(op, what, n) == [op |-> op, what |-> what, n |-> n]
Nothing == Label([at |-> <<>>], Whole, 0)
Byte(n) == Cell("byte", Nothing, n)
Here(ch) == Len(ch.code)

Upper(n) == (n \div BYTE) % BYTE

Lower(n) == n % BYTE

Emit(ch, cells) == [ch EXCEPT !.code = @ \o cells]
EmitOp(ch, op) == Emit(ch, <<Cell(op, Nothing, 0)>>)
EmitExpr(ch, op, what) ==
    Emit(ch, <<Cell(op, what, 0)>> \o [i \in 1 .. EXPR - 1 |-> Byte(0)])

EmitJump(ch, op) ==
    Emit(ch, <<Cell(op, Nothing, 0), Byte(BYTE - 1), Byte(BYTE - 1)>>)

(* Faulty: the operand is not counted.                                     *)
DistanceLong(ch, offset) == Here(ch) - offset

Distance(ch, offset) == Here(ch) - offset - 2

(* patch_jump; offset is where the operand of the jump begins.             *)
Patch(ch, offset) ==
    [ch EXCEPT !.code[offset + 1] = Byte(Upper(Distance(ch, offset))),
               !.code[offset + 2] = Byte(Lower(Distance(ch, offset)))]

(* The operand of the jump that a chunk ends with.                         *)
LastJump(ch) == Here(ch) - 2

(* Faulty: the distance to the loop itself.                                *)
LoopBackSelf(ch, start) == 3

LoopBack(ch, start) == Here(ch) + 1 - start + 2

EmitLoop(ch, start) ==
    Emit(ch, <<Cell("loop", Nothing, 0), Byte(Upper(LoopBack(ch, start))),
               Byte(Lower(LoopBack(ch, start)))>>)

(* OP_JMPL to the exit that the statement is going to append.              *)
EmitExit(ch) ==
    Emit(ch, <<Cell("jmpl", Nothing, 0), Byte(Upper(Len(ch.exits))),
               Byte(Lower(Len(ch.exits)))>>)
AddExit(ch) == [ch EXCEPT !.exits = Append(@, Here(ch))]

-----------------------------------------------------------------------------
(* Compiling *)

Test(s, i, nth) == Label(s, i, nth)

(* The i-th condition of s; _and and _or jump past the second test.        *)
Condition(s, i, ch) ==
    LET first == EmitExpr(ch, "test", Test(s, i, 1))
        jump  == EmitJump(first, IF s.conds[i] = "and" THEN "jmpf" ELSE "jmpt")
        both  == EmitExpr(jump, "test", Test(s, i, 2))
    IN  IF s.conds[i] = "one" THEN first ELSE Patch(both, LastJump(jump))

RECURSIVE Compile(_, _)

(* A condition, its body and the jump over the body; an elif and a case    *)
(* end with the jump to the exit of the whole statement.                   *)
Guarded(s, i, ch) ==
    LET test == EmitJump(Condition(s, i, ch), "jmpf")
    IN  Patch(EmitExit(Compile(s.kids[i], test)), LastJump(test))

GuardedFrom(s, i, ch) ==
    FoldLeft(LAMBDA c, j : Guarded(s, j, c), ch,
             [k \in 1 .. Len(s.conds) - i + 1 |-> i + k - 1])

Otherwise(s, ch) ==
    IF Len(s.kids) > Len(s.conds) THEN Compile(s.kids[Len(s.kids)], ch)
                                  ELSE ch

If(s, ch) ==
    LET test == EmitJump(Condition(s, 1, ch), "jmpf")
        body == EmitJump(Compile(s.kids[1], test), "jmp")
        rest == Otherwise(s, GuardedFrom(s, 2, Patch(body, LastJump(test))))
    IN  Patch(AddExit(rest), LastJump(body))

Switch(s, ch) == AddExit(Otherwise(s, GuardedFrom(s, 1, EmitOp(ch, "get"))))

While(s, ch) ==
    LET test == EmitJump(Condition(s, 1, ch), "jmpf")
    IN  Patch(EmitLoop(Compile(s.kids[1], test), Here(ch)), LastJump(test))

(* Faulty: the body goes back to the condition, past the increment.        *)
ForStartCondition(s, cond, start) == start

(* Where the body of a for goes back to: start or inc_start.               *)
ForStart(s, cond, start) ==
    IF s.inc THEN Here(EmitJump(cond, "jmp")) ELSE start

For(s, ch) ==
    LET init  == EmitExpr(ch, "mark", Label(s, Whole, 0))
        start == Here(init)
        cond  == IF s.conds = <<>> THEN init
                 ELSE EmitJump(Condition(s, 1, init), "jmpf")
        skip  == EmitJump(cond, "jmp")
        inc   == EmitOp(EmitExpr(skip, "mark", Label(s, Inc, 0)), "pop")
        head  == IF s.inc THEN Patch(EmitLoop(inc, start), LastJump(skip))
                          ELSE cond
        body  == EmitLoop(Compile(s.kids[1], head), ForStart(s, cond, start))
    IN  EmitOp(IF s.conds = <<>> THEN body ELSE Patch(body, LastJump(cond)),
               "pop")

Compile(s, ch) ==
    CASE s.kind = "mark"   -> EmitExpr(ch, "mark", Label(s, Whole, 0))
      [] s.kind = "seq"    -> FoldLeft(LAMBDA c, k : Compile(k, c), ch, s.kids)
      [] s.kind = "if"     -> If(s, ch)
      [] s.kind = "switch" -> Switch(s, ch)
      [] s.kind = "while"  -> While(s, ch)
      [] s.kind = "for"    -> For(s, ch)

Compiled(s) == EmitOp(Compile(s, [code |-> <<>>, exits |-> <<>>]), "return")

-----------------------------------------------------------------------------
(* Meaning: a sequence of statements to do; at its head, after Ready, is a *)
(* mark or a question with what follows each answer.                       *)

Ask(s, i, yes, no) ==
    [kind |-> "ask", cond |-> s.conds[i], test |-> Test(s, i, 1),
     yes |-> yes, no |-> no]

RECURSIVE Arms(_, _)
Arms(s, i) ==
    IF i <= Len(s.conds)
    THEN <<Ask(s, i, <<s.kids[i]>>, Arms(s, i + 1))>>
    ELSE SubSeq(s.kids, i, Len(s.kids))

Mark(s, part) == [kind |-> "event", test |-> Label(s, part, 0)]
Again(s) == <<s.kids[1]>>
            \o (IF s.inc THEN <<Mark(s, Inc)>> ELSE <<>>)
            \o <<[s EXCEPT !.kind = "loop"]>>

Meant(s) ==
    CASE s.kind = "mark" -> <<Mark(s, Whole)>>
      [] s.kind = "seq"  -> s.kids
      [] s.kind \in {"if", "switch"} -> Arms(s, 1)
      [] s.kind = "for"  -> <<Mark(s, Whole), [s EXCEPT !.kind = "loop"]>>
      [] s.kind \in {"while", "loop"} ->
            IF s.conds = <<>> THEN Again(s)
            ELSE <<Ask(s, 1, Again(s), <<>>)>>

RECURSIVE Ready(_)
Ready(ss) ==
    IF ss = <<>> \/ Head(ss).kind \in {"ask", "event"} THEN ss
    ELSE Ready(Meant(Head(ss)) \o Tail(ss))

Second(q) == [q EXCEPT !.cond = "one", !.test.nth = 2]

Answered(q, b) ==
    IF <<q.cond, b>> \in {<<"and", TRUE>>, <<"or", FALSE>>} THEN <<Second(q)>>
    ELSE IF b THEN q.yes ELSE q.no

-----------------------------------------------------------------------------
(* Running *)

Code(i) == chunk.code[i + 1]
Op == Code(pc).op

(* UPPER() shifts the byte out before it masks it (virtual_machine.c:300): *)
(* an operand is its lower byte.                                           *)
Operand == Code(pc + 2).n

InCode(i) == i \in 0 .. Here(chunk) - 1
Running(op) == end = "no" /\ InCode(pc) /\ Op = op
At(n) == pc' = n /\ UNCHANGED <<prog, chunk, end>>
After == pc + 3

Event ==
    /\ Running("mark")
    /\ At(pc + EXPR)
    /\ todo' = IF todo = <<>> THEN todo ELSE Ready(Tail(todo))
    /\ UNCHANGED ops

(* Only the test that is meant is answered for the program.                *)
Outcome(b) ==
    /\ Running("test")
    /\ At(pc + EXPR)
    /\ ops' = Append(ops, b)
    /\ todo' = IF todo = <<>> \/ Head(todo).kind # "ask" THEN todo
               ELSE Ready(Answered(Head(todo), b) \o Tail(todo))

(* A conditional jump pops its operand; with none waiting that is whatever *)
(* lies on the stack.                                                      *)
Popped == IF ops = <<>> THEN BOOLEAN ELSE {Last(ops)}

Branch(op, on) ==
    /\ Running(op)
    /\ \E b \in Popped : At(After + IF b = on THEN Operand ELSE 0)
    /\ ops' = IF ops = <<>> THEN ops ELSE Front(ops)
    /\ UNCHANGED todo

Jump == Running("jmp") /\ At(After + Operand) /\ UNCHANGED <<ops, todo>>

Loop == Running("loop") /\ At(After - Operand) /\ UNCHANGED <<ops, todo>>

Exit == /\ Running("jmpl")
        /\ At(chunk.exits[Operand + 1])
        /\ UNCHANGED <<ops, todo>>

(* The switch's own operand, the pop of an increment or a loop variable:   *)
(* they move the stack, not the program.                                   *)
Other == /\ Running("get") \/ Running("pop")
         /\ At(pc + 1)
         /\ UNCHANGED <<ops, todo>>

Return == /\ Running("return")
          /\ end' = "done"
          /\ UNCHANGED <<prog, chunk, pc, ops, todo>>

Stray == /\ end = "no"
         /\ ~ InCode(pc) \/ Op = "byte"
         /\ end' = "stray"
         /\ UNCHANGED <<prog, chunk, pc, ops, todo>>

Init ==
    /\ prog \in {Placed(p, <<>>) : p \in Programs}
    /\ chunk = Compiled(prog)
    /\ pc = 0 /\ ops = <<>> /\ end = "no"
    /\ todo = Ready(<<prog>>)

Next ==
    \/ Event
    \/ \E b \in BOOLEAN : Outcome(b)
    \/ Branch("jmpf", FALSE) \/ Branch("jmpt", TRUE)
    \/ Jump \/ Loop \/ Exit \/ Other \/ Return \/ Stray

Spec == Init /\ [][Next]_vars /\ WF_vars(Next)

-----------------------------------------------------------------------------
(* An if or a switch appends one exit when it ends, and its elifs and      *)
(* cases jump to the exit that was next when they ended: to another one if *)
(* a later body of the statement holds an if or a switch.                  *)
RECURSIVE HasExit(_), Stolen(_), ShortCircuits(_)
HasExit(s) == s.kind \in {"if", "switch"}
              \/ \E i \in DOMAIN s.kids : HasExit(s.kids[i])

FirstExit(s) == IF s.kind = "if" THEN 2 ELSE 1
Stolen(s) ==
    \/ /\ s.kind \in {"if", "switch"} /\ Len(s.conds) >= FirstExit(s)
       /\ \E j \in DOMAIN s.kids : j > FirstExit(s) /\ HasExit(s.kids[j])
    \/ \E i \in DOMAIN s.kids : Stolen(s.kids[i])

ShortCircuits(s) ==
    \/ \E i \in DOMAIN s.conds : s.conds[i] # "one"
    \/ \E i \in DOMAIN s.kids : ShortCircuits(s.kids[i])

Jumps == {i \in 0 .. Here(chunk) - 1 :
             Code(i).op \in {"jmpf", "jmpt", "jmp", "loop", "jmpl"}}

(* No jump needs its upper byte.                                           *)
Fits == \A i \in Jumps : Code(i + 1).n = 0

Target(i) ==
    CASE Code(i).op = "loop" -> i + 3 - Code(i + 2).n
      [] Code(i).op = "jmpl" -> chunk.exits[Code(i + 2).n + 1]
      [] OTHER -> i + 3 + Code(i + 2).n

(* Type correctness.                                                       *)
TypeOK ==
    /\ pc \in Int /\ end \in {"no", "done", "stray"}
    /\ \A i \in 1 .. Here(chunk) : chunk.code[i].n \in 0 .. BYTE - 1
    /\ ops \in Seq(BOOLEAN)

(* Every jump of a program whose distances fit a byte, back-patched or     *)
(* not, leads to the first byte of an instruction of the same chunk.       *)
JumpsLand ==
    Fits => \A i \in Jumps :
               InCode(Target(i)) /\ Code(Target(i)).op # "byte"

(* What the machine is about to do is what the program means to do next,   *)
(* and it stops when there is nothing left.                                *)
AtEvent == InCode(pc) /\ Op \in {"mark", "test"}
AsMeant ==
    /\ end # "stray"
    /\ end = "no" /\ AtEvent => todo # <<>> /\ Code(pc).what = Head(todo).test
    /\ end = "done" => todo = <<>>

(* A program whose distances fit, without && and ||, and without an if or  *)
(* a switch in a body that follows an elif or a case, runs as it is meant: *)
(* whatever its conditions answer, through every loop and every nesting.   *)
Sound == Fits /\ ~ Stolen(prog) /\ ~ ShortCircuits(prog)
RunsAsMeant == Sound => AsMeant

(* The machine never runs forever without a statement or a test: a loop    *)
(* always comes back to one (run executes one instruction after another,   *)
(* virtual_machine.c:327).                                                 *)
Lively == []<>(end # "no" \/ AtEvent)
=============================================================================
