------------------------------- MODULE Session -------------------------------
(***************************************************************************)
(* One machine and what is compiled for it: a file (main.c:82), or the     *)
(* lines of the REPL and of a host (main.c:28, ffi.c:14), each compiled by *)
(* itself.                                                                 *)
(*                                                                         *)
(* A function or class has a number, by which the code refers to it in     *)
(* the array machine.stack.obj; each compilation numbers anew, from behind *)
(* the three natives that are keywords.  In a file the names are the       *)
(* compilation's own.  In a session they are in machine.repl_native, which *)
(* the first line frees and the following ones go on using                 *)
(* (compiler.c:1957): as long as nobody else is given that memory it is    *)
(* what it was, afterwards nothing can be said (phase "lost").             *)
(*                                                                         *)
(* A declaration may stand in the body of a function or in a block: its    *)
(* name and number are taken when it is compiled, but the object is put    *)
(* into the array only by the code around it, if that runs.  A text is     *)
(* flat: what an opening brace begins goes on to its "end".  Loops, and    *)
(* the bodies of methods, are left out.                                    *)
(*                                                                         *)
(* As a name is declared at most once, an object is named by it, and so is *)
(* a function's code.                                                      *)
(***************************************************************************)
EXTENDS Integers, Sequences, FiniteSets, Functions

CONSTANTS Natives,    \* the natives that are keywords, in their order
          Functions_, \* names of functions
          Classes,    \* names of classes, without constructor
          Vars,       \* names of global variables
          Hosted,     \* natives that the host registers
          Texts,      \* texts of files and lines
          Strays,     \* what objc of a function may hold that nobody set
          CAPACITY,   \* names a table holds before it grows
          FRAMES,     \* FRAMES_MAX
          LINES       \* bound: lines of a session

Keywords == Range(Natives)
Names == Functions_ \cup Classes \cup Hosted
Junk == "junk"
Script == "script"

(* func f() {   class A;   clock();   f();   var v = f;   if (...) {   }   *)
Statement ==
    [op : {"function"}, name : Functions_]
    \cup [op : {"class"}, name : Classes]
    \cup [op : {"native"}, name : Keywords]
    \cup [op : {"call"}, name : Functions_ \cup Classes \cup Hosted \cup Vars]
    \cup [op : {"var"}, to : Vars, name : Functions_ \cup Classes \cup Vars]
    \cup [op : {"if", "end"}]

(* Blocks that are open behind statement i.  In one of them a variable is  *)
(* a local, and no subject here.                                           *)
Depth(t, i) ==
    Cardinality({j \in 1 .. i : t[j].op \in {"function", "if"}})
    - Cardinality({j \in 1 .. i : t[j].op = "end"})
Balanced(t) ==
    /\ Depth(t, Len(t)) = 0
    /\ \A i \in DOMAIN t : /\ Depth(t, i) >= 0
                          /\ t[i].op = "var" => Depth(t, i) = 0

ASSUME SessionAssumption ==
    /\ Natives \in Seq(Keywords) /\ Natives # <<>>
    /\ Texts \subseteq Seq(Statement)
    /\ \A t \in Texts : Balanced(t)
    /\ Strays \subseteq Nat
    /\ CAPACITY \in Nat /\ FRAMES \in Nat \ {0} /\ LINES \in Nat
    /\ Junk \notin Names \cup Keywords /\ Script \notin Names

(* No name is declared in two ways.                                        *)
ASSUME NamesAssumption ==
    /\ Functions_ \cap (Classes \cup Hosted \cup Keywords \cup Vars) = {}
    /\ Classes \cap (Hosted \cup Keywords \cup Vars) = {}
    /\ Hosted \cap (Keywords \cup Vars) = {}
    /\ Keywords \cap Vars = {}

VARIABLES mode,      \* "file" or "session"
          phase,     \* "idle", "compile", "run", "ended", "exited", "dead", "lost"
          names,     \* the table of names: type and number
          freed,     \* whether its memory was freed
          obj,       \* machine.stack.obj
          native,    \* machine.count.native
          globals,   \* machine.glob
          frames,    \* machine.count.frame
          at,        \* the function that runs, or Script
          calls,     \* where those that called it go on
          text,      \* the text that is compiled
          next,      \* the statement, or the instruction, that is next
          count,     \* c.base->count.obj
          classes,   \* c.base->stack.class
          open,      \* the compilers that enclose one another, and blocks
          code,      \* the instructions of each function
          lines      \* lines so far

(* History: since when a name's object has been in the array, counted in   *)
(* arrays; the last use of a name and what it got; duplicates of globals   *)
(* reported since the frames were last dropped; the names whose            *)
(* declaration stands in a body or a block.                                *)
VARIABLES gen, stored, used, dups, nested

vars == <<mode, phase, names, freed, obj, native, globals, frames, at, calls,
          text, next, count, classes, open, code, lines,
          gen, stored, used, dups, nested>>
histories == <<gen, stored, used, dups, nested>>
compiler == <<names, text, count, classes, open, code, nested>>
machine == <<obj, native, globals, frames, at, calls>>

First == Len(Natives)
KeywordNames == [k \in Keywords |->
    [type |-> "native", num |-> (CHOOSE i \in 1 .. First : Natives[i] = k) - 1]]

(* An array of so many elements, with the natives in front (define_natives).*)
NewArray(size) == [size |-> size, len |-> size,
                   cells |-> [i \in 0 .. First - 1 |-> Natives[i + 1]]]

(* realloc_stack copies count elements, and count of this stack is 0; len  *)
(* doubles whatever the size.                                              *)
Regrown(size) ==
    IF size = obj.len THEN obj
    ELSE [size |-> size, len |-> 2 * obj.len,
          cells |-> [i \in {} |-> Junk]]

Put(i, n) == [obj EXCEPT !.cells = [j \in DOMAIN @ \cup {i} |->
                                       IF j = i THEN n ELSE @[j]]]

(* What may be read at i: behind the array, or where nobody wrote, it is   *)
(* nobody's.                                                               *)
At(i) == (IF i \in DOMAIN obj.cells THEN {obj.cells[i]} ELSE {Junk})
         \cup (IF i < obj.size THEN {} ELSE {Junk})

With(f, k, v) == [x \in DOMAIN f \cup {k} |-> IF x = k THEN v ELSE f[x]]
None == [name |-> Junk, got |-> Junk]

-----------------------------------------------------------------------------
(* Compilation *)

Begin(t, table) ==
    /\ phase' = "compile" /\ text' = t /\ next' = 1
    /\ code' = [code EXCEPT ![Script] = <<>>] /\ open' = <<>>
    /\ count' = First /\ classes' = [i \in {} |-> Junk]
    /\ names' = table
    /\ used' = None

(* compile, with the names of the session.                                 *)
Line ==
    /\ phase = "idle" /\ lines < LINES
    /\ \E t \in Texts : Begin(t, names)
    /\ lines' = lines + 1
    /\ UNCHANGED <<mode, freed, machine, gen, stored, dups, nested>>

(* The memory of the names that were freed is given to somebody.           *)
Reuse ==
    /\ freed /\ phase \in {"idle", "compile"}
    /\ phase' = "lost"
    /\ UNCHANGED <<mode, freed, compiler, next, machine, lines, gen, stored,
                   used, dups>>

InText(op) == /\ phase = "compile" /\ next <= Len(text)
              /\ text[next].op = op
Name == text[next].name

(* The code that is written to, of the innermost function.                 *)
Into(blocks) == IF blocks = <<>> THEN Script ELSE blocks[Len(blocks)].into
Target == Into(open)
Inner == open[Len(open)]
Outer == SubSeq(open, 1, Len(open) - 1)
Block(op, into, i) == [op |-> op, into |-> into, i |-> i]

Emitted(f, instr) == [code EXCEPT ![f] = Append(@, instr)]
Setting(n, num) == [op |-> "set", num |-> num, name |-> n, to |-> Junk]
Jump(i) == [op |-> "if", num |-> i, name |-> Junk, to |-> Junk]

(* Faulty: the next name gets the same number.                             *)
NumberedSame == count

Numbered == count + 1

(* A second declaration exits; a table that must grow has empty buckets,   *)
(* and realloc_table reads their keys (table.c:106).                       *)
Declare(type, blocks, emitted) ==
    /\ InText(type)
    /\ IF Name \in DOMAIN names
       THEN phase' = "exited" /\ UNCHANGED <<compiler, next>>
       ELSE IF Cardinality(DOMAIN names) >= CAPACITY
       THEN phase' = "dead" /\ UNCHANGED <<compiler, next>>
       ELSE /\ names' = With(names, Name, [type |-> type, num |-> count])
            /\ classes' = IF type = "class" THEN With(classes, count, Name)
                          ELSE classes
            /\ count' = Numbered
            /\ open' = blocks /\ code' = emitted /\ next' = next + 1
            /\ nested' = IF open = <<>> THEN nested ELSE nested \cup {Name}
            /\ UNCHANGED <<text, phase>>
    /\ UNCHANGED <<mode, freed, machine, lines, gen, stored, used, dups>>

(* The function's own compiler writes until its body ends.                 *)
DeclareFunction == Declare("function", Append(open, Block("function", Name, 0)),
                           code)
DeclareClass == Declare("class", open, Emitted(Target, Setting(Name, count)))

Goes(blocks, emitted) ==
    /\ open' = blocks /\ code' = emitted /\ next' = next + 1
    /\ UNCHANGED <<mode, phase, names, freed, text, count, classes, machine,
                   lines, histories>>

(* Behind the body, the closure is put into the array by the code around.  *)
EndFunction ==
    /\ InText("end") /\ open # <<>> /\ Inner.op = "function"
    /\ Goes(Outer, Emitted(Into(Outer),
                           Setting(Inner.into, names[Inner.into].num)))

(* The jump behind the block is patched when that ends.                    *)
If ==
    /\ InText("if")
    /\ Goes(Append(open, Block("if", Target, Len(code[Target]) + 1)),
            Emitted(Target, Jump(1)))

EndIf ==
    /\ InText("end") /\ open # <<>> /\ Inner.op = "if"
    /\ Goes(Outer, [code EXCEPT ![Target] =
                       [@ EXCEPT ![Inner.i] = Jump(Len(code[Target]) + 1)]])

Declared(n, types) == n \in DOMAIN names /\ names[n].type \in types

(* A name within an expression, id: a function or class that was declared  *)
(* is its number, everything else (a registered native too) a global.      *)
Resolved(n) == IF Declared(n, {"function", "class"}) THEN names[n].num ELSE -1

(* A class has an entry in the table of classes only in the compilation    *)
(* that declares it; any other reads a pointer that nobody wrote.          *)
Foreign(n) == /\ Declared(n, {"class"})
              /\ names[n].num \notin DOMAIN classes

Compiled(instr) == code' = Emitted(Target, instr) /\ next' = next + 1

Refer(op, to) ==
    /\ Compiled([op |-> op, num |-> Resolved(Name), name |-> Name, to |-> to])
    /\ phase' = IF Foreign(Name) THEN "lost" ELSE phase
    /\ UNCHANGED <<mode, names, freed, text, count, classes, open, machine,
                   lines, histories>>

CompileCall == InText("call") /\ Refer("call", Junk)
CompileVar == InText("var") /\ open = <<>> /\ Refer("var", text[next].to)

(* parse_native_var_arg: a keyword is looked up among the names.           *)
CompileNative ==
    /\ InText("native")
    /\ Compiled([op |-> "call", num |-> names[Name].num, name |-> Name,
                 to |-> Junk])
    /\ UNCHANGED <<mode, phase, names, freed, text, count, classes, open,
                   machine, lines, histories>>

(* interpret and interpret_path behind the compilation: the script gets a  *)
(* frame, and the array is made (file) or made anew.  The compilation of a *)
(* line has freed the names, and left objc as it was.  Without room for    *)
(* the frame, call fails unseen and the frame in front of the first is     *)
(* used.                                                                   *)
Start ==
    /\ phase = "compile" /\ next > Len(text) /\ open = <<>>
    /\ next' = 1 /\ freed' = TRUE /\ at' = Script /\ calls' = <<>>
    /\ IF frames = FRAMES
       THEN phase' = "dead" /\ UNCHANGED <<obj, frames, gen, stored>>
       ELSE /\ phase' = "run" /\ frames' = frames + 1
            /\ IF mode = "file" THEN obj' = NewArray(count)
               ELSE \E x \in Strays : obj' = Regrown(native + x)
            /\ gen' = IF obj'.len = obj.len THEN gen ELSE gen + 1
            /\ stored' = [n \in DOMAIN stored |->
                  IF mode = "file" /\ n \in Keywords THEN gen' ELSE stored[n]]
    /\ UNCHANGED <<mode, compiler, native, globals, lines, used, dups>>

-----------------------------------------------------------------------------
(* Execution *)

Instr == code[at][next]
Running(op) == phase = "run" /\ next <= Len(code[at]) /\ Instr.op = op
Go == next' = next + 1

(* Faulty: the frames stay.                                                *)
DroppedNot == frames

(* runtime_error: all frames are dropped.                                  *)
Dropped == 0

Error ==
    /\ phase' = IF mode = "file" THEN "exited" ELSE "idle"
    /\ frames' = Dropped /\ dups' = 0
    /\ UNCHANGED <<next, globals, at, calls>>

(* OP_CLOSURE, OP_SET_OBJ: behind the array something else is written to.  *)
Set ==
    /\ Running("set")
    /\ obj' = Put(Instr.num, Instr.name)
    /\ phase' \in {"run"} \cup (IF Instr.num < obj.size THEN {} ELSE {"dead"})
    /\ stored' = [stored EXCEPT ![Instr.name] = gen]
    /\ used' = None
    /\ Go
    /\ UNCHANGED <<mode, compiler, freed, native, globals, frames, at, calls,
                   lines, gen, dups>>

(* OP_JMPF: the condition is any.                                          *)
Branch ==
    /\ Running("if")
    /\ next' \in {next + 1, Instr.num}
    /\ UNCHANGED <<mode, phase, compiler, freed, machine, lines, gen, stored,
                   used, dups>>

(* What the operand of an instruction may be; nothing for a global that    *)
(* has no value.                                                           *)
Fetched ==
    IF Instr.num >= 0 THEN At(Instr.num)
    ELSE IF Instr.name \in DOMAIN globals THEN {globals[Instr.name]} ELSE {}

(* A class is taken from the array without a look at the type; a call of a *)
(* function needs a frame.                                                 *)
AsClass == Instr.num >= 0 /\ Instr.name \in Classes
Enters(v) == Instr.op = "call" /\ v \in Functions_ /\ ~ AsClass

Outcomes(v) ==
    IF v = Junk THEN {"ok", "error", "dead"}
    ELSE IF AsClass THEN IF v \in Classes THEN {"ok"} ELSE {"ok", "dead"}
    ELSE IF \/ Instr.op = "call" /\ v \in Classes
            \/ Enters(v) /\ frames = FRAMES
         THEN {"error"}
    ELSE {"ok"}

Use(v) == used' = IF Instr.num >= 0 THEN [name |-> Instr.name, got |-> v]
                  ELSE None

Undefined ==
    /\ Running("call") \/ Running("var")
    /\ Fetched = {}
    /\ Error
    /\ UNCHANGED <<mode, compiler, freed, obj, native, lines, gen, stored, used>>

(* An object that fails what is done with it.                              *)
Fails ==
    /\ Running("call") \/ Running("var")
    /\ \E v \in Fetched :
          /\ Use(v)
          /\ \/ "error" \in Outcomes(v) /\ Error
             \/ /\ "dead" \in Outcomes(v) /\ phase' = "dead"
                /\ UNCHANGED <<next, globals, frames, at, calls, dups>>
    /\ UNCHANGED <<mode, compiler, freed, obj, native, lines, gen, stored>>

Call ==
    /\ Running("call")
    /\ \E v \in Fetched :
          /\ "ok" \in Outcomes(v) /\ Use(v)
          /\ IF Enters(v)
             THEN /\ calls' = Append(calls, [at |-> at, next |-> next + 1])
                  /\ frames' = frames + 1
                  /\ at' = v /\ next' = 1
             ELSE Go /\ UNCHANGED <<at, calls, frames>>
    /\ UNCHANGED <<mode, phase, compiler, freed, obj, native, globals, lines,
                   gen, stored, dups>>

(* OP_GLOBAL_DEF.  A duplicate is reported without dropping the frame.     *)
Define ==
    /\ Running("var")
    /\ \E v \in Fetched :
          /\ "ok" \in Outcomes(v) /\ Use(v)
          /\ IF Instr.to \in DOMAIN globals
             THEN /\ phase' = IF mode = "file" THEN "exited" ELSE "idle"
                  /\ dups' = dups + 1
                  /\ UNCHANGED <<globals, next>>
             ELSE /\ globals' = With(globals, Instr.to, v)
                  /\ Go
                  /\ UNCHANGED <<phase, dups>>
    /\ UNCHANGED <<mode, compiler, freed, obj, native, frames, at, calls, lines,
                   gen, stored>>

(* OP_RETURN.  Where the script has a frame below, it resumes behind a     *)
(* call that nobody made, where ip_return is NULL.                         *)
Return ==
    /\ phase = "run" /\ next > Len(code[at])
    /\ frames' = frames - 1
    /\ IF calls # <<>>
       THEN LET c == calls[Len(calls)] IN
            /\ at' = c.at /\ next' = c.next
            /\ calls' = SubSeq(calls, 1, Len(calls) - 1)
            /\ UNCHANGED phase
       ELSE /\ phase' = IF frames > 1 THEN "dead"
                        ELSE IF mode = "file" THEN "ended" ELSE "idle"
            /\ UNCHANGED <<at, next, calls>>
    /\ UNCHANGED <<mode, compiler, freed, obj, native, globals, lines,
                   gen, stored, used, dups>>

-----------------------------------------------------------------------------
(* yk_register_native, between two lines: the array is made anew, and the  *)
(* number is machine.count.native.  A name that is taken frees its number  *)
(* as if it were an object.                                                *)
Register(n) ==
    /\ mode = "session" /\ phase = "idle" /\ lines < LINES
    /\ lines' = lines + 1
    /\ IF n \in DOMAIN names \/ Cardinality(DOMAIN names) >= CAPACITY
       THEN phase' = "dead" /\ UNCHANGED <<names, obj, native, gen, stored>>
       ELSE LET grown == Regrown(native + 1) IN
            /\ obj' = [grown EXCEPT !.cells = With(@, native, n)]
            /\ names' = With(names, n, [type |-> "native", num |-> native])
            /\ native' = native + 1
            /\ gen' = IF grown.len = obj.len THEN gen ELSE gen + 1
            /\ stored' = [stored EXCEPT ![n] = gen']
            /\ UNCHANGED phase
    /\ used' = None
    /\ UNCHANGED <<mode, freed, globals, frames, at, calls, text, next, count,
                   classes, open, code, dups, nested>>

-----------------------------------------------------------------------------

Init ==
    /\ mode \in {"file", "session"}
    /\ names = KeywordNames
    /\ text \in IF mode = "file" THEN Texts ELSE {<<>>}
    /\ phase = IF mode = "file" THEN "compile" ELSE "idle"
    /\ obj = NewArray(First)
    /\ native = First
    /\ globals = [v \in {} |-> Junk]
    /\ frames = 0 /\ next = 1 /\ count = First /\ lines = 0
    /\ open = <<>> /\ code = [f \in Functions_ \cup {Script} |-> <<>>]
    /\ at = Script /\ calls = <<>>
    /\ classes = [i \in {} |-> Junk]
    /\ freed = FALSE
    /\ gen = 1 /\ used = None /\ dups = 0 /\ nested = {}
    /\ stored = [n \in Names \cup Keywords |-> IF n \in Keywords THEN 1 ELSE 0]

Next ==
    \/ Line \/ Reuse
    \/ DeclareFunction \/ EndFunction \/ DeclareClass \/ If \/ EndIf
    \/ CompileCall \/ CompileVar \/ CompileNative
    \/ Start
    \/ Set \/ Branch \/ Undefined \/ Fails \/ Call \/ Define \/ Return
    \/ \E n \in Hosted : Register(n)

Spec == Init /\ [][Next]_vars

-----------------------------------------------------------------------------
(* Properties *)

Lost(n)  == stored[n] # gen
Shared(n) == \E m \in DOMAIN names \ {n} : names[m].num = names[n].num
Outside(n) == names[n].num >= obj.size

(* The declaration stands in a body or a block that has not run.           *)
Unwritten(n) == n \in nested /\ stored[n] = 0

(* A name stands for the object that was declared under it, from whichever *)
(* function it is used: in a file unless its declaration stands in a body  *)
(* or a block that has not run; in a session unless the array was made     *)
(* anew since, the name shares its number with one of another line, or the *)
(* number lies behind the array.                                           *)
UsesMeant ==
    LET n == used.name IN
    used.got # n => IF mode = "file" THEN Unwritten(n)
                    ELSE Lost(n) \/ Shared(n) \/ Outside(n)

(* A program dies only of more names than their table holds, or of what    *)
(* nobody wrote: found under a name whose declaration has not run, or in a *)
(* variable that was given that.  A session dies also when the freed       *)
(* memory of its names was given away; after a duplicate global, behind    *)
(* which the next line that ends well resumes in nothing                   *)
(* (virtual_machine.c:711); and when some name no longer stands for an     *)
(* object of its own.                                                      *)
Survives ==
    phase \in {"dead", "lost"} =>
        \/ Cardinality(DOMAIN names) >= CAPACITY
        \/ \E v \in DOMAIN globals : globals[v] = Junk
        \/ mode = "file" /\ Unwritten(used.name)
        \/ /\ mode = "session"
           /\ \/ freed /\ phase = "lost"
              \/ dups > 0
              \/ \E n \in DOMAIN names : Lost(n) \/ Shared(n) \/ Outside(n)
=============================================================================
