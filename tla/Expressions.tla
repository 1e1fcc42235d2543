----------------------------- MODULE Expressions ----------------------------
(***************************************************************************)
(* Expressions: the parser with its table of rules (compiler_util.h:265,   *)
(* compiler.c:1051), the code it emits in the same pass, recovery from an  *)
(* error (compiler.c:511), and the operators of the machine                *)
(* (virtual_machine.c:377, object_math.c), against what a sentence of the  *)
(* usual grammar means.                                                    *)
(*                                                                         *)
(* A value has its type and, in place of its bits, the term it was         *)
(* computed by: the sequence of literals, old values and operators in      *)
(* postfix order.  An instruction is one element of the code.  Arguments   *)
(* of one call of an operator function are popped from left to right, as   *)
(* the compiler named in the makefile (clang) orders them.                 *)
(***************************************************************************)
EXTENDS Integers, Sequences, SequencesExt

CONSTANTS Programs,   \* programs: sequences of statements
          Locals,     \* the names in the slots from 1 on
          Globals     \* names of globals, defined before

ASSUME ExpressionsAssumption == Globals \cap Range(Locals) = {}

VARIABLES prog,    \* the program
          src,     \* its tokens
          com,     \* the compiler
          phase,   \* "compile", "run", "done", "stopped", "dead"
          pc,      \* the instruction that is next
          stack,   \* cells of the value stack and their count
          glob,    \* the table of globals
          out,     \* what was printed
          tests    \* history: outcomes of the tests, by term

vars == <<prog, src, com, phase, pc, stack, glob, out, tests>>

Names == Globals \cup Range(Locals)

-----------------------------------------------------------------------------
(* Tokens and rules *)

Token(t, v) == [t |-> t, v |-> v]
Sym(t) == Token(t, t)
EOF == Sym("eof")

PREC == [NONE |-> 0, ASSIGNMENT |-> 1, OR |-> 2, AND |-> 3, EQUALITY |-> 4,
         COMPARISON |-> 5, TERM |-> 6, FACTOR |-> 7, UNARY |-> 8, CALL |-> 9,
         PRIMARY |-> 10]

Equalities  == {"==", "!="}
Comparisons == {"<", "<=", ">", ">="}
Factors     == {"*", "/", "%"}
Compounds   == {"+=", "-=", "*=", "/=", "%=", "&=", "|="}
Steps       == {"++", "--"}
StorageType == [num |-> "num", string |-> "str", char |-> "char",
                bool |-> "bool"]
LiteralType == [number |-> "num", quoted |-> "str", ch |-> "char",
                boolean |-> "bool", null |-> "null"]

R(prefix, infix, prec) == [prefix |-> prefix, infix |-> infix, prec |-> prec]

(* Faulty: a comparison without its infix function.                        *)
RuleHole(t) ==
    CASE t \in Comparisons -> R("NULL", "NULL", PREC.COMPARISON)
      [] t = "-"  -> R("unary", "binary", PREC.TERM)
      [] t = "+"  -> R("NULL", "binary", PREC.TERM)
      [] t = "id" -> R("id", "NULL", PREC.NONE)
      [] t \in DOMAIN LiteralType -> R("literal", "NULL", PREC.NONE)
      [] OTHER -> R("NULL", "NULL", PREC.NONE)

Rule(t) ==
    CASE t = "(" -> R("grouping", "call", PREC.CALL)
      [] t \in Steps -> R("unary", "infix_unary", PREC.TERM)
      [] t = "-" -> R("unary", "binary", PREC.TERM)
      [] t = "+" -> R("NULL", "binary", PREC.TERM)
      [] t \in Factors -> R("NULL", "binary", PREC.FACTOR)
      [] t = "=" -> R("NULL", "NULL", PREC.ASSIGNMENT)
      [] t \in Compounds -> R("NULL", "compound_assign", PREC.ASSIGNMENT)
      [] t = "!" -> R("unary", "NULL", PREC.TERM)
      [] t \in Equalities -> R("NULL", "binary", PREC.EQUALITY)
      [] t \in Comparisons -> R("NULL", "binary", PREC.COMPARISON)
      [] t = "&&" -> R("NULL", "_and", PREC.AND)
      [] t = "||" -> R("NULL", "_or", PREC.OR)
      [] t = "and" -> R("NULL", "binary", PREC.AND)
      [] t = "or" -> R("NULL", "binary", PREC.OR)
      [] t = "id" -> R("id", "NULL", PREC.NONE)
      [] t = "elif" -> R("NULL", "NULL", PREC.OR)
      [] t \in DOMAIN LiteralType -> R("literal", "NULL", PREC.NONE)
      [] t \in DOMAIN StorageType -> R("cast", "NULL", PREC.CALL)
      [] OTHER -> R("NULL", "NULL", PREC.NONE)

-----------------------------------------------------------------------------
(* The compiler: i is the current token, pre the one before; ref the name  *)
(* in c->array, "" for none yet; err the parser's flag; dead how the       *)
(* process ended, if it did.  begun and wrong are history: where each      *)
(* statement's code begins, and which statements had an error.             *)

Compiler == [i |-> 1, pre |-> EOF, code |-> <<>>, ref |-> "", err |-> FALSE,
             dead |-> "no", begun |-> <<>>, wrong |-> {}]

Cur(c) == src[c.i]
Is(c, t) == Cur(c).t = t
Flag(c) == [c EXCEPT !.err = @ \/ c.dead = "no"]
Advance(c) == [c EXCEPT !.pre = Cur(c), !.i = IF @ < Len(src) THEN @ + 1 ELSE @]
Match(t, c) == IF Is(c, t) THEN Advance(c) ELSE c
Consume(t, c) == IF Is(c, t) THEN Advance(c) ELSE Flag(c)

Instr(op, at, to, n) == [op |-> op, at |-> at, to |-> to, n |-> n]
Emit(c, op, at, to) == [c EXCEPT !.code = Append(@, Instr(op, at, to, 0))]
EmitOp(c, op) == Emit(c, op, "", "")

(* The jump at position j now leads behind the code.                       *)
Patch(c, j) == [c EXCEPT !.code[j].n = Len(c.code) - j]

EmitGet(c, name) == Emit(c, "get", name, "")
EmitSet(c, name) == Emit(c, "set", name, "")

(* set and index of c->array; both are 0 before the first name, which      *)
(* reads: OP_CONSTANT of the first constant.                               *)
Store(c) == IF c.ref = "" THEN EmitOp(c, "first") ELSE EmitSet(c, c.ref)

RECURSIVE Parse(_, _), Infixes(_, _), Arguments(_, _)

Expression(c) == Parse(PREC.ASSIGNMENT, c)

(* Faulty: the closing parenthesis is left to the caller.                  *)
GroupingOpen(c) == Expression(c)

Grouping(c) == Consume(")", Expression(c))

StepOp(t) == IF t = "++" THEN "inc" ELSE "dec"

Unary(t, c) ==
    LET operand == Parse(PREC.UNARY, c)
    IN  IF t \in Steps THEN Store(EmitOp(operand, StepOp(t)))
                       ELSE EmitOp(operand, "neg")

InfixUnary(t, c) == Store(EmitOp(c, StepOp(t)))

(* Faulty: the right operand may hold operators of the same rank.          *)
BinaryRight(t, c) ==
    LET right == Parse(Rule(t).prec, c)
    IN  IF t \in {"and", "or"} THEN right ELSE EmitOp(right, t)

Binary(t, c) ==
    LET right == Parse(Rule(t).prec + 1, c)
    IN  IF t \in {"and", "or"} THEN right ELSE EmitOp(right, t)

CompoundOp == [x \in Compounds |->
    CASE x = "+=" -> "+" [] x = "-=" -> "-" [] x = "*=" -> "*"
      [] x = "/=" -> "/" [] x = "%=" -> "%" [] x = "&=" -> "&" [] x = "|=" -> "|"]

CompoundAssign(t, c) ==
    Store(EmitOp(Parse(PREC.ASSIGNMENT, c), CompoundOp[t]))

ShortCircuit(jump, prec, c) ==
    LET left == EmitOp(c, jump)
    IN  Patch(Parse(prec, left), Len(left.code))

Arguments(n, c) ==
    LET arg == Expression(c)
    IN  IF arg.dead = "no" /\ Is(arg, ",") THEN Arguments(n + 1, Advance(arg))
        ELSE EmitOp(Consume(")", arg), "call")

Call(c) == IF Is(c, ")") THEN EmitOp(Advance(c), "call") ELSE Arguments(1, c)

(* The pairs with an instruction; any other cast emits none.               *)
Casts == {<<"num", "char">>, <<"num", "str">>, <<"char", "num">>,
          <<"char", "str">>, <<"bool", "num">>, <<"bool", "str">>,
          <<"str", "num">>, <<"str", "bool">>, <<"str", "char">>}

Cast(c) ==
    LET from  == StorageType[c.pre.t]
        arrow == Consume("->", c)
        to    == StorageType[Cur(arrow).t]
        whole == Expression(Advance(arrow))
    IN  IF Cur(arrow).t \notin DOMAIN StorageType
        THEN [arrow EXCEPT !.dead = "exit"]
        ELSE IF <<from, to>> \in Casts THEN Emit(whole, "cast", from, to)
             ELSE whole

(* A name right after a name replaces it.                                  *)
Id(c0) ==
    LET c    == Match("id", c0)
        name == c.pre.v
        read == [c EXCEPT !.ref = name]
    IN  IF Is(c, "=") THEN EmitSet(Expression(Advance(read)), name)
                      ELSE EmitGet(read, name)

Prefix(c) ==
    LET rule == Rule(c.pre.t).prefix
    IN  CASE rule = "NULL"     -> Flag(c)
          [] rule = "grouping" -> Grouping(c)
          [] rule = "unary"    -> Unary(c.pre.t, c)
          [] rule = "literal"  -> Emit(c, "const", LiteralType[c.pre.t], c.pre.v)
          [] rule = "id"       -> Id(c)
          [] rule = "cast"     -> Cast(c)

Infix(c) ==
    LET rule == Rule(c.pre.t).infix
    IN  CASE rule = "NULL"            -> [c EXCEPT !.dead = "null"]
          [] rule = "infix_unary"     -> InfixUnary(c.pre.t, c)
          [] rule = "binary"          -> Binary(c.pre.t, c)
          [] rule = "compound_assign" -> CompoundAssign(c.pre.t, c)
          [] rule = "_and"            -> ShortCircuit("jmpf", PREC.AND, c)
          [] rule = "_or"             -> ShortCircuit("jmpt", PREC.OR, c)
          [] rule = "call"            -> Call(c)

Infixes(p, c) ==
    IF c.dead # "no" \/ p > Rule(Cur(c).t).prec THEN c
    ELSE Infixes(p, Infix(Advance(c)))

(* No infix is looked for after a token that begins no expression.         *)
Parse(p, c) ==
    LET first == Prefix(Advance(c))
    IN  IF Rule(Cur(c).t).prefix = "NULL" THEN first ELSE Infixes(p, first)

-----------------------------------------------------------------------------
(* Statements *)

RECURSIVE PrintArgs(_), Synchronize(_)

PrintArgs(c) ==
    LET arg == EmitOp(Expression(c), "print")
    IN  IF arg.dead = "no" /\ Is(arg, ",") THEN PrintArgs(Advance(arg))
        ELSE Consume(";", Consume(")", arg))

Statement(c) ==
    IF Is(c, "pout") THEN PrintArgs(Consume("(", Advance(c)))
                     ELSE Consume(";", Expression(c))

Keywords == {"pout"}

(* Faulty: the rest of the file is skipped.                                *)
SynchronizeAll(c) == [c EXCEPT !.i = Len(src)]

Synchronize(c) ==
    IF Is(c, "eof") \/ c.pre.t \in Keywords \cup {";"} THEN c
    ELSE Synchronize(Advance(c))

(* One declaration; an error is forgotten when its statement is skipped.   *)
Declared(c) ==
    LET begun == [c EXCEPT !.begun = Append(@, Len(c.code) + 1)]
        done  == Statement(begun)
    IN  IF done.dead = "no" /\ done.err
        THEN Synchronize([done EXCEPT !.err = FALSE,
                                      !.wrong = @ \cup {Len(begun.begun)}])
        ELSE done

Declaration ==
    /\ phase = "compile" /\ ~ Is(com, "eof")
    /\ com' = Declared(com)
    /\ phase' = IF com'.dead = "no" THEN phase ELSE "dead"
    /\ UNCHANGED <<prog, src, pc, stack, glob, out, tests>>

(* compile_path returns NULL only if the flag is up.                       *)
EndCompile ==
    /\ phase = "compile" /\ Is(com, "eof")
    /\ phase' = IF com.err THEN "stopped" ELSE "run"
    /\ UNCHANGED <<prog, src, com, pc, stack, glob, out, tests>>

-----------------------------------------------------------------------------
(* Values *)

Value(type, term) == [type |-> type, term |-> term]
Old(name) == Value("num", <<"old", name>>)
Stray == Value("stray", <<"?">>)
Stop  == Value("stop", <<>>)

(* A value of the type that was read from another member of the union.     *)
Bits(type) == Value(type, <<"?">>)

(* The type an operator makes of two operands of one type.                 *)
Result(op, type) ==
    CASE op \in Comparisons \cup Equalities
            /\ type \in {"num", "char", "str"} -> "bool"
      [] op \in {"-", "%"} /\ type \in {"num", "char"} -> type
      [] op \in {"*", "/"} /\ type \in {"num", "char"} -> "num"
      [] OTHER -> "stop"

Term(op, l, r) == l.term \o r.term \o <<op>>

(* + looks at the type of its left operand alone, and where that is a      *)
(* number or a character reads the right one as a number; the sum of two   *)
(* strings is an element that points to itself (object_string.c:95).       *)
Add(l, r) ==
    CASE l.type \in {"num", "char"} /\ r.type = "num" ->
            Value(l.type, Term("+", l, r))
      [] l.type \in {"num", "char"} -> Bits(l.type)
      [] l.type = "str" /\ r.type = "str" -> Stray
      [] OTHER -> Stop

(* == of strings is their !=.                                              *)
Symbol(op, type) == IF op = "==" /\ type = "str" THEN "!=" ELSE op

Checked(op, l, r) ==
    IF l.type # r.type \/ Result(op, l.type) = "stop" THEN Stop
    ELSE Value(Result(op, l.type), Term(Symbol(op, l.type), l, r))

(* & and | read both operands as booleans.                                 *)
Logic(op, l, r) ==
    IF l.type = "bool" /\ r.type = "bool" THEN Value("bool", Term(op, l, r))
    ELSE Bits("bool")

Apply(op, l, r) ==
    CASE op = "+" -> Add(l, r)
      [] op \in {"&", "|"} -> Logic(op, l, r)
      [] OTHER -> Checked(op, l, r)

Negate(v) == IF v.type \in {"num", "char"} THEN Value(v.type, v.term \o <<"neg">>)
             ELSE IF v.type = "bool" THEN Value(v.type, v.term \o <<"not">>)
             ELSE Stop

Stepped(op, v) == IF v.type \in {"num", "char"} THEN Value(v.type, v.term \o <<op>>)
                  ELSE Stop

(* The operand is read as a value of the type the source names.            *)
Converted(from, to, v) ==
    IF v.type = from THEN Value(to, v.term \o <<to>>) ELSE Stray

-----------------------------------------------------------------------------
(* The machine *)

Count == stack.count

(* pop of an empty stack reads the cell at the bottom.                     *)
Cell(i) == stack.as[IF i < 1 THEN 1 ELSE i]
Top == Cell(Count)
Below == Cell(Count - 1)
Popped(s, n) == [s EXCEPT !.count = IF @ < n THEN 0 ELSE @ - n]
Pushed(s, v) ==
    [as    |-> IF s.count < Len(s.as) THEN [s.as EXCEPT ![s.count + 1] = v]
               ELSE Append(s.as, v),
     count |-> s.count + 1]

Slot(name) == SelectInSeq(Locals, LAMBDA l : l = name) + 1

Code == com.code[pc]
Running(ops) == phase = "run" /\ pc <= Len(com.code) /\ Code.op \in ops
Go(n) == pc' = n /\ UNCHANGED <<prog, src, com>>

(* The result of an operator takes the place of its n operands, or the     *)
(* operator ends the process.                                              *)
Replace(n, v) ==
    /\ Go(pc + 1)
    /\ IF v = Stop THEN phase' = "stopped" /\ UNCHANGED stack
       ELSE stack' = Pushed(Popped(stack, n), v) /\ UNCHANGED phase
    /\ UNCHANGED <<glob, out, tests>>

Skip == Go(pc + 1) /\ UNCHANGED <<phase, stack, glob, out, tests>>

(* What comes of a stray operand cannot be told.                           *)
Outcomes(operands, v) == IF Stray \in operands THEN {Stray, Stop} ELSE {v}

Constant ==
    \/ Running({"const"}) /\ Replace(0, Value(Code.at, <<Code.to>>))
    \/ Running({"first"}) /\ Replace(0, Stray)

Get == /\ Running({"get"})
       /\ Replace(0, IF Code.at \in Globals THEN glob[Code.at]
                     ELSE stack.as[Slot(Code.at)])

BinaryOp ==
    /\ Running({"+", "-", "&", "|"} \cup Factors \cup Equalities \cup Comparisons)
    /\ \E v \in Outcomes({Below, Top}, Apply(Code.op, Below, Top)) : Replace(2, v)

(* The cell below an empty stack is nobody's.                              *)
UnaryOp ==
    /\ Running({"neg", "inc", "dec"})
    /\ IF Count = 0 THEN Replace(0, Stop) \/ Skip
       ELSE \E v \in Outcomes({Top}, IF Code.op = "neg" THEN Negate(Top)
                                     ELSE Stepped(Code.op, Top)) : Replace(1, v)

CastOp ==
    /\ Running({"cast"})
    /\ \E v \in Outcomes({Top}, Converted(Code.at, Code.to, Top)) : Replace(1, v)

(* A local takes a copy of the top, a global takes the top away.           *)
SetLocal ==
    /\ Running({"set"}) /\ Code.at \notin Globals
    /\ stack' = [stack EXCEPT !.as[Slot(Code.at)] =
                                  IF Count = 0 THEN Stray ELSE Top]
    /\ Go(pc + 1) /\ UNCHANGED <<phase, glob, out, tests>>

SetGlobal ==
    /\ Running({"set"}) /\ Code.at \in Globals
    /\ glob' = [glob EXCEPT ![Code.at] = Top]
    /\ stack' = Popped(stack, 1)
    /\ Go(pc + 1) /\ UNCHANGED <<phase, out, tests>>

(* The answers a test can have: true and false are what they are, another  *)
(* value's bits are anything, but the same each time, if it is one value.  *)
Known(term) == {t \in tests : t[1] = term}
Answers(v) ==
    CASE v.term = <<"true">>  -> {TRUE}
      [] v.term = <<"false">> -> {FALSE}
      [] "?" \in Range(v.term) -> BOOLEAN
      [] Known(v.term) # {} -> {t[2] : t \in Known(v.term)}
      [] OTHER -> BOOLEAN

Test ==
    /\ Running({"jmpf", "jmpt"})
    /\ \E b \in Answers(Top) :
          /\ Go(pc + 1 + IF b = (Code.op = "jmpt") THEN Code.n ELSE 0)
          /\ tests' = tests \cup {<<Top.term, b>>}
    /\ stack' = Popped(stack, 1)
    /\ UNCHANGED <<phase, glob, out>>

PrintTop ==
    /\ Running({"print"})
    /\ out' = Append(out, Top)
    /\ stack' = Popped(stack, 1)
    /\ Go(pc + 1) /\ UNCHANGED <<phase, glob, tests>>

(* None of the values of this model can be called.                         *)
CallOp == Running({"call"}) /\ Replace(0, Stop)

Return ==
    /\ phase = "run" /\ pc > Len(com.code)
    /\ phase' = "done"
    /\ UNCHANGED <<prog, src, com, pc, stack, glob, out, tests>>

-----------------------------------------------------------------------------
(* Sentences: trees, and their text in the usual grammar *)

Node(k, op, v, kids) == [k |-> k, op |-> op, v |-> v, kids |-> kids]
Leaf(t, v)      == Node("leaf", t, v, <<>>)
Bin(op, l, r)   == Node("bin", op, "", <<l, r>>)
Un(op, e)       == Node("un", op, "", <<e>>)
Pre(op, v)      == Node("pre", op, v, <<>>)
Post(op, v)     == Node("post", op, v, <<>>)
Asg(op, v, e)   == Node("asg", op, v, <<e>>)
Cst(from, to, e) == Node("cast", from, to, <<e>>)

Level(e) ==
    CASE e.k = "bin" -> Rule(e.op).prec
      [] e.k \in {"un", "pre"} -> PREC.UNARY
      [] e.k = "post" -> PREC.CALL
      [] e.k \in {"asg", "cast"} -> PREC.ASSIGNMENT
      [] e.k = "leaf" -> PREC.PRIMARY

(* Arithmetic and comparison group to the left, && and || to the right.    *)
RightGroups(e) == e.op \in {"&&", "||"}
LeftLevel(e)  == IF RightGroups(e) THEN Level(e) + 1 ELSE Level(e)
RightLevel(e) == IF RightGroups(e) THEN Level(e) ELSE Level(e) + 1

RECURSIVE Text(_, _)
Text(e, level) ==
    LET bare ==
          CASE e.k = "leaf" -> <<Token(e.op, e.v)>>
            [] e.k = "bin"  -> Text(e.kids[1], LeftLevel(e)) \o <<Sym(e.op)>>
                               \o Text(e.kids[2], RightLevel(e))
            [] e.k = "un"   -> <<Sym(e.op)>> \o Text(e.kids[1], PREC.UNARY)
            [] e.k = "pre"  -> <<Sym(e.op), Token("id", e.v)>>
            [] e.k = "post" -> <<Token("id", e.v), Sym(e.op)>>
            [] e.k = "asg"  -> <<Token("id", e.v), Sym(e.op)>>
                               \o Text(e.kids[1], PREC.ASSIGNMENT)
            [] e.k = "cast" -> <<Sym(e.op), Sym("->"), Sym(e.v)>>
                               \o Text(e.kids[1], PREC.ASSIGNMENT)
    IN  IF Level(e) < level THEN <<Sym("(")>> \o bare \o <<Sym(")")>> ELSE bare

(* A statement is a tree to evaluate or to print, or tokens of no tree.    *)
Expr(e) == [kind |-> "expr", tree |-> e, toks |-> <<>>]
Pout(e) == [kind |-> "pout", tree |-> e, toks |-> <<>>]
Junk(ts) == [kind |-> "junk", tree |-> Leaf("null", "null"), toks |-> ts]

Tokens(s) ==
    CASE s.kind = "expr" -> Text(s.tree, PREC.ASSIGNMENT)
      [] s.kind = "pout" -> <<Sym("pout"), Sym("(")>>
                            \o Text(s.tree, PREC.ASSIGNMENT) \o <<Sym(")")>>
      [] s.kind = "junk" -> s.toks

Source(p) == FlattenSeq([i \in DOMAIN p |-> Append(Tokens(p[i]), Sym(";"))])
             \o <<EOF>>

Init ==
    /\ prog \in Programs
    /\ src = Source(prog)
    /\ com = Compiler
    /\ phase = "compile" /\ pc = 1 /\ out = <<>> /\ tests = {}
    /\ stack = [as |-> <<Value("closure", <<"script">>)>>
                      \o [i \in DOMAIN Locals |-> Old(Locals[i])],
                count |-> Len(Locals) + 1]
    /\ glob = [g \in Globals |-> Old(g)]

Next ==
    \/ Declaration \/ EndCompile
    \/ Constant \/ Get \/ BinaryOp \/ UnaryOp \/ CastOp
    \/ SetLocal \/ SetGlobal \/ Test \/ PrintTop \/ CallOp \/ Return

Spec == Init /\ [][Next]_vars

-----------------------------------------------------------------------------
(* Meaning.  m holds the names' values, the value of the expression, what  *)
(* is printed and left, whether the program stops with an error, and the   *)
(* deviations (see README) that the expression runs into.                  *)

With(m, val, flaws) ==
    [m EXCEPT !.val = val, !.stop = @ \/ val = Stop, !.flaws = @ \cup flaws]

MeantOf(op, l, r) ==
    CASE Stray \in {l, r} -> <<Stray, {}>>
      [] op \in {"&", "|"} /\ {l.type, r.type} # {"bool"} ->
            <<Stray, {"logic"}>>
      [] op = "+" /\ l.type \in {"num", "char"} /\ r.type = "num" ->
            <<Add(l, r), {}>>
      [] op = "+" /\ l.type \in {"num", "char"} -> <<Stray, {"plus"}>>
      [] op = "+" /\ l.type = "str" /\ r.type = "str" ->
            <<Value("str", Term("+", l, r)), {"append"}>>
      [] op = "==" /\ l.type = "str" /\ r.type = "str" -> <<Stray, {"equal"}>>
      [] OTHER -> <<Apply(op, l, r), {}>>

(* ! is for booleans, - for the rest.                                      *)
MeantNegation(op, v) ==
    IF v.type \in {"num", "char", "bool"} /\ (op = "!") # (v.type = "bool")
    THEN <<Stray, {"negation"}>>
    ELSE <<IF v = Stray THEN v ELSE Negate(v), {}>>

MeantCast(from, to, v) ==
    CASE from = to /\ v.type = from -> <<v, {}>>
      [] <<from, to>> \in Casts /\ v.type = from -> <<Converted(from, to, v), {}>>
      [] OTHER -> <<Stray, {"cast"}>>

Assign(m, v, val, used, flaws) ==
    [With(m, val, flaws \cup IF used /\ v \in Globals THEN {"global"} ELSE {})
        EXCEPT !.env = IF val = Stop THEN @ ELSE [@ EXCEPT ![v] = val]]

LastName(e) ==
    LET text == Text(e, PREC.ASSIGNMENT)
    IN  SelectLastInSeq(text, LAMBDA t : t.t = "id")

Retargets(v, e) ==
    LastName(e) # 0 /\ Text(e, PREC.ASSIGNMENT)[LastName(e)].v # v

StepMeant(op, v) == IF v = Stray THEN v ELSE Stepped(op, v)

(* e where the parser stands at level p, as text of at least level q.      *)
Inside(e, p, q) == IF Level(e) < q THEN PREC.ASSIGNMENT ELSE p

RECURSIVE Means(_, _, _, _)
Means(e, p, used, m) ==
    IF m.stop THEN m ELSE
    LET Kid(i, level, q, n) == Means(e.kids[i], Inside(e.kids[i], level, q), TRUE, n)
        Whole == Kid(1, PREC.ASSIGNMENT, PREC.ASSIGNMENT, m)
        left  == Kid(1, p, LeftLevel(e), m)
        right == Kid(2, RightLevel(e), RightLevel(e), left)
        Step  == Assign(m, e.v, StepMeant(StepOp(e.op), m.env[e.v]), used,
                        IF e.k = "post" /\ p > PREC.TERM THEN {"postfix"} ELSE {})
    IN  CASE e.k = "leaf" -> With(m, IF e.op = "id" THEN m.env[e.v]
                                     ELSE Value(LiteralType[e.op], <<e.v>>), {})
          [] e.k = "bin" /\ e.op \in {"and", "or"} -> With(right, Stray, {"word"})
          [] e.k = "bin" /\ RightGroups(e) ->
                IF left.stop THEN left
                ELSE IF (e.op = "||") \in Answers(left.val)
                     THEN With(left, left.val, {"shortcut"}) ELSE right
          [] e.k = "bin" ->
                LET v == MeantOf(e.op, left.val, right.val)
                IN  IF right.stop THEN right ELSE With(right, v[1], v[2])
          [] e.k = "un" ->
                LET kid == Kid(1, PREC.UNARY, PREC.UNARY, m)
                    v   == MeantNegation(e.op, kid.val)
                IN  IF kid.stop THEN kid ELSE With(kid, v[1], v[2])
          [] e.k \in {"pre", "post"} -> Step
          [] e.k = "asg" /\ e.op = "=" ->
                IF Whole.stop THEN Whole ELSE Assign(Whole, e.v, Whole.val, used, {})
          [] e.k = "asg" ->
                LET v == MeantOf(CompoundOp[e.op], m.env[e.v], Whole.val)
                IN  IF Whole.stop THEN Whole
                    ELSE Assign(Whole, e.v, v[1], used,
                                v[2] \cup IF Retargets(e.v, e.kids[1])
                                          THEN {"target"} ELSE {})
          [] e.k = "cast" ->
                LET v == MeantCast(StorageType[e.op], StorageType[e.v], Whole.val)
                IN  IF Whole.stop THEN Whole ELSE With(Whole, v[1], v[2])

(* An assignment to a global leaves nothing, any other expression its      *)
(* value.                                                                  *)
LeavesNone(e) == e.k \in {"asg", "pre", "post"} /\ e.v \in Globals

StatementMeans(m, s) ==
    LET n == Means(s.tree, PREC.ASSIGNMENT, s.kind = "pout", m)
    IN  IF n.stop THEN n
        ELSE IF s.kind = "pout" THEN [n EXCEPT !.out = Append(@, n.val)]
        ELSE IF LeavesNone(s.tree) THEN n
        ELSE [n EXCEPT !.left = Append(@, n.val)]

Meaning ==
    FoldLeft(StatementMeans,
             [env |-> [v \in Names |-> Old(v)], val |-> Stray, stop |-> FALSE,
              flaws |-> {}, out |-> <<>>, left |-> <<>>], prog)

-----------------------------------------------------------------------------
(* Properties *)

Sentences == \A i \in DOMAIN prog : prog[i].kind # "junk"
Ended == phase \in {"done", "stopped"}
Of(v) == IF v \in Globals THEN glob[v] ELSE stack.as[Slot(v)]

(* Type correctness.                                                       *)
TypeOK ==
    /\ com.i \in 1 .. Len(src) /\ pc \in 1 .. Len(com.code) + 1
    /\ phase \in {"compile", "run", "done", "stopped", "dead"}
    /\ stack.count \in 0 .. Len(stack.as) /\ DOMAIN glob = Globals

(* Every sentence of the usual grammar is accepted: whatever the operators *)
(* in it, parse_precedence finds a rule for each token.                    *)
Accepts == Sentences => com.wrong = {} /\ com.dead = "no"

(* A sentence without the deviations computes what it means: its values,   *)
(* assignments and output, in order, with nothing lost from the stack and  *)
(* nothing left but the value of each expression; and it stops with an     *)
(* error exactly if its operands call for one.                             *)
Agrees(m) ==
    /\ m.stop <=> phase = "stopped"
    /\ out = m.out
    /\ \A v \in Names : Of(v) = m.env[v]
    /\ phase = "done" =>
          SubSeq(stack.as, Len(Locals) + 2, Count) = m.left

AsMeant == Sentences /\ Ended /\ Meaning.flaws = {} => Agrees(Meaning)

(* The parser calls through a NULL function only where an operand, or a    *)
(* token in error, is followed by a token that has a precedence but no     *)
(* infix function; a name followed by = is an assignment.                  *)
EndsOperand(t) == t \in {"id", ")"} \cup DOMAIN LiteralType \cup Steps
NullInfix == {"=", "!", "elif"} \cup DOMAIN StorageType
NullRules ==
    com.dead = "null" =>
        \/ com.err
        \/ \E i \in 2 .. Len(src) :
              /\ EndsOperand(src[i - 1].t) /\ src[i].t \in NullInfix
              /\ <<src[i - 1].t, src[i].t>> # <<"id", "=">>

(* After a statement with an error the next one is compiled as if it stood *)
(* alone (the last statement of the program, which is also its first),     *)
(* unless it begins with a token that could go on with the one before.     *)
CodeOf(i) ==
    SubSeq(com.code, com.begun[i],
           IF i = Len(com.begun) THEN Len(com.code) ELSE com.begun[i + 1] - 1)
Resumes ==
    /\ phase \notin {"compile", "dead"} /\ prog[1] = Last(prog)
    /\ Rule(src[1].t).infix = "NULL"
    /\ \A i \in DOMAIN prog : \A j \in DOMAIN prog[i].toks :
          prog[i].toks[j].t \notin Keywords
    => CodeOf(Len(com.begun)) = CodeOf(1)
=============================================================================
