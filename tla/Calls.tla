-------------------------------- MODULE Calls --------------------------------
(***************************************************************************)
(* Calling and returning in the virtual machine: the CallFrame array, the  *)
(* parameter prologue of a function, its locals, and the value stack that  *)
(* all activations share (virtual_machine.c: call, call_value, interpret   *)
(* and the instructions of run that move the stack or a frame).            *)
(*                                                                         *)
(* The code that runs is any code the compiler emits for a function: its   *)
(* prologue (OP_SET_LOCAL_PARAM once per parameter, compiler.c:462-479),   *)
(* then operands, locals, calls and a return in any order, never popping   *)
(* below its own operands.  Closing a block and declaring a function are   *)
(* the subject of Scopes.  Values are data, closures (named by function)   *)
(* and natives; an instruction address is abstracted to the function whose *)
(* code it lies in, so jumps inside a function are not steps here.         *)
(***************************************************************************)
EXTENDS ValueStack, Sequences

CONSTANTS Data, Funs, Natives,
          Arity,        \* arity of a function
          Script,       \* the closure of the script itself
          FRAMES_MAX,   \* length of the CallFrame array
          BYTE,         \* 2^8: values of a uint8_t
          MAX_DEPTH,    \* bound: elements on the stack
          MAX_LOCALS,   \* bound: locals of an activation
          MAX_LEFT      \* bound: elements an earlier line left behind

Values == Data \cup Funs \cup Natives
Code   == Funs \cup {Script}

ASSUME CallsAssumption ==
    /\ Arity \in [Funs -> Nat]
    /\ FRAMES_MAX \in Nat \ {0} /\ BYTE \in Nat \ {0}
    /\ MAX_DEPTH \in Nat /\ MAX_LOCALS \in Nat /\ MAX_LEFT \in Nat
    /\ Data # {} /\ Script \notin Values

VARIABLES frames,   \* machine.frames, the active ones
          ip,       \* the function that run's instruction pointer is in
          argc, cargc,   \* machine.count.argc and .cargc
          acts      \* history: what each activation was promised

vars == <<stack, frames, ip, argc, cargc, acts>>

(* An activation as its caller sees it: where it was called from, what was *)
(* on the stack under the callee, and the value each local should have;    *)
(* floor is the lowest operand the compiled code may pop, next the index   *)
(* of the next local, and todo counts the prologue instructions to run.    *)
Act(site, base, floor, next, todo, env) ==
    [site |-> site, base |-> base, floor |-> floor, next |-> next,
     todo |-> todo, env |-> env,
     below |-> [i \in 0 .. base - 1 |-> cells[i]]]

Running == frames # <<>>
frame == frames[Len(frames)]
act   == acts[Len(acts)]

SetAct(a) == acts' = [acts EXCEPT ![Len(acts)] = a]
DropLast(s) == SubSeq(s, 1, Len(s) - 1)

InBody == Running /\ act.todo = 0
HasOperand == InBody /\ count > act.floor
Room == count < MAX_DEPTH

-----------------------------------------------------------------------------
(* interpret: the script's frame, its slots at the bottom of the array,    *)
(* then the push of its closure (virtual_machine.c:147-157).  What earlier *)
(* lines left on the stack stays.                                          *)
Interpret ==
    /\ ~ Running /\ count <= MAX_LEFT
    /\ Push(Script)
    /\ frames' = <<[closure |-> Script, gen |-> gen, slots |-> 0,
                    ip_return |-> Script,
                    return_index |-> (count - 1) % BYTE]>>
    /\ ip' = Script
    /\ acts' = <<Act(Script, 0, count + 1, 1, 0, [i \in {} |-> Junk])>>
    /\ UNCHANGED <<argc, cargc>>

Operand(v) ==
    /\ InBody /\ Room
    /\ Push(v)
    /\ UNCHANGED <<frames, ip, argc, cargc, acts>>

Discard ==
    /\ HasOperand
    /\ Pop
    /\ UNCHANGED <<frames, ip, argc, cargc, acts>>

-----------------------------------------------------------------------------
(* OP_CALL (virtual_machine.c:571-597) *)

(* runtime_error forgets the frames; the stack is left as it is.           *)
Fail == frames' = <<>> /\ acts' = <<>>
        /\ UNCHANGED <<stack, ip, argc, cargc>>

(* Faulty: the callee's own slot is not counted.                           *)
ReturnIndexHigh(n) == (count - n) % BYTE

(* frame->return_index is a uint8_t (includes/virtual_machine.h:31).       *)
ReturnIndex(n) == (count - (n + 1)) % BYTE

(* Faulty: the slots start one element too low.                            *)
SlotsLow(n) == count - (n + 2)

(* frame->slots: the callee and its arguments.                             *)
Slots(n) == count - (n + 1)

(* Faulty: off by one, the frame behind the array may be taken.            *)
FullLate == Len(frames) > FRAMES_MAX

Full == Len(frames) = FRAMES_MAX

Enter(f, n) ==
    /\ frames' = Append(frames, [closure |-> f, gen |-> gen,
                                 slots |-> Slots(n),
                                 ip_return |-> ip,
                                 return_index |-> ReturnIndex(n)])
    /\ ip' = f
    /\ acts' = Append(acts, Act(ip, count - (n + 1), count, n, n,
                         [i \in 0 .. n - 1 |-> cells[count - n + i]]))
    /\ argc' = n /\ cargc' = 1
    /\ UNCHANGED stack

CallNative(n, res) ==
    /\ PushAt(count - (n + 1), res)
    /\ lost' = Displaced(count - (n + 1))
    /\ argc' = n /\ cargc' = 1
    /\ UNCHANGED <<frames, ip, acts>>

Call(n) ==
    /\ InBody /\ count - (n + 1) >= act.floor
    /\ LET callee == cells[count - 1 - n] IN
       \/ /\ callee \in Funs
          /\ IF Arity[callee] # n \/ Full
             THEN Fail ELSE Enter(callee, n)
       \/ /\ callee \in Natives
          /\ \E res \in Data : CallNative(n, res)
       \/ callee \in Data /\ Fail

(* Faulty: the argument count includes the callee.                         *)
ParamSourceLate ==
    IF cargc <= argc /\ cargc > 1
    THEN Read(frame.gen, frame.slots + cargc - 1) ELSE Top

(* OP_SET_LOCAL_PARAM (639-644): the argument moves one slot down, over    *)
(* the callee, the last one from the top of the stack.                     *)
ParamSource ==
    IF cargc < argc THEN Read(frame.gen, frame.slots + cargc) ELSE Top

Param ==
    /\ Running /\ act.todo > 0
    /\ Write(frame.gen, frame.slots + (argc - act.todo), ParamSource)
    /\ cargc' = IF cargc < argc THEN cargc + 1 ELSE cargc
    /\ SetAct([act EXCEPT !.todo = @ - 1])
    /\ UNCHANGED <<count, len, gen, lost, frames, ip, argc>>

-----------------------------------------------------------------------------
(* Locals.  A declaration takes the next index and leaves its initial      *)
(* value on the stack, below the operands to come (compiler.c:481-509).    *)
(* The script keeps index 0 for itself (compiler.c:58).                    *)
SetLocal(i) == Write(frame.gen, frame.slots + i, Top)

Declare ==
    /\ HasOperand /\ act.next < MAX_LOCALS
    /\ SetLocal(act.next)
    /\ SetAct([act EXCEPT
           !.floor = @ + 1, !.next = @ + 1,
           !.env = [i \in DOMAIN @ \cup {act.next} |->
                       IF i = act.next THEN Top ELSE @[i]]])
    /\ UNCHANGED <<count, len, gen, lost, frames, ip, argc, cargc>>

(* OP_SET_LOCAL leaves its operand on the stack (636-638).                 *)
Assign(i) ==
    /\ HasOperand /\ i \in DOMAIN act.env
    /\ SetLocal(i)
    /\ SetAct([act EXCEPT !.env[i] = Top])
    /\ UNCHANGED <<count, len, gen, lost, frames, ip, argc, cargc>>

GetLocal(i) ==
    /\ InBody /\ Room /\ i \in DOMAIN act.env
    /\ Push(Read(frame.gen, frame.slots + i))
    /\ UNCHANGED <<frames, ip, argc, cargc, acts>>

-----------------------------------------------------------------------------
(* OP_RETURN (736-748).  The stack is cut to return_index, whose byte has  *)
(* wrapped when the callee lay BYTE or more elements up: the elements the  *)
(* callers have above it are lost then.                                    *)

(* Faulty: the address of the caller's own caller.                         *)
ResumeOuter == frames[Len(frames) - 1].ip_return

Resume == frame.ip_return

Return ==
    /\ InBody /\ count > act.base
    /\ frames' = DropLast(frames)
    /\ acts' = DropLast(acts)
    /\ IF Len(frames) = 1
       THEN Pop /\ ip' = ip
       ELSE /\ PushAt(frame.return_index, Top)
            /\ lost' = (frame.return_index # act.base
                          \/ Displaced(frame.return_index))
            /\ ip' = Resume
    /\ UNCHANGED <<argc, cargc>>

(* The memory of an array that was freed is somebody else's now.           *)
ReuseOld ==
    /\ \E g \in DOMAIN old : Reuse(g)
    /\ UNCHANGED <<frames, ip, argc, cargc, acts>>

-----------------------------------------------------------------------------
Init ==
    /\ StackInit
    /\ frames = <<>> /\ acts = <<>>
    /\ ip = Script
    /\ argc = 0 /\ cargc = 0

(* What a program does whose activations have lost their elements is not   *)
(* followed.                                                               *)
Next ==
    /\ ~ lost
    /\ \/ Interpret
       \/ \E v \in Values : Operand(v)
       \/ Discard
       \/ \E n \in 0 .. MAX_DEPTH : Call(n)
       \/ Param
       \/ Declare
       \/ \E i \in 0 .. MAX_LOCALS : Assign(i) \/ GetLocal(i)
       \/ Return
       \/ ReuseOld

Spec == Init /\ [][Next]_vars

-----------------------------------------------------------------------------
Elements == Values \cup {Script, Junk}

(* Type correctness of the stack, the frames and the history; no more      *)
(* frames are taken than machine.frames has (virtual_machine.c:99-103).    *)
TypeOK ==
    /\ Len(frames) <= FRAMES_MAX
    /\ count \in Nat /\ len \in Nat /\ gen \in Nat
    /\ cells \in [0 .. Size - 1 -> Elements]
    /\ \A k \in 1 .. Len(frames) :
          /\ frames[k].gen \in 1 .. gen /\ frames[k].slots \in Nat
          /\ frames[k].closure \in Code /\ frames[k].ip_return \in Code
          /\ frames[k].return_index \in 0 .. BYTE - 1
    /\ Len(acts) = Len(frames)
    /\ ip \in Code /\ argc \in Nat /\ cargc \in Nat

(* Whatever an activation and its callees do, the elements its caller had  *)
(* on the stack keep their values until it returns, unless an index has    *)
(* wrapped: return_index at BYTE elements, count and len at WORD.          *)
Intact ==
    \A k \in 1 .. Len(acts) :
        \A i \in 0 .. acts[k].base - 1 : cells[i] = acts[k].below[i]
CallerIntact == ~ lost => Intact

(* A return resumes behind the call, and leaves the stack as the call      *)
(* found it with the callee and its arguments replaced by the result,      *)
(* modulo the width of return_index: a callee that lay BYTE or more        *)
(* elements up is cut to its place modulo BYTE.  (len # Size once the      *)
(* length itself has wrapped.)                                             *)
Returns ==
    Len(frames) > 1 /\ Len(frames') = Len(frames) - 1 /\ Running' =>
        /\ ip' = act.site
        /\ len = Size => /\ count' = (act.base % BYTE) + 1
                         /\ cells'[act.base % BYTE] = Top
ReturnRestores == [][Returns]_vars

(* run reads the constants and the jump table of an instruction from the   *)
(* frame's closure (virtual_machine.c:296-297, 610-614): the instruction   *)
(* pointer must lie in that closure's code.                                *)
CodeMatchesFrame == Running => ip = frame.closure

(* Once its prologue has run, every parameter and local of an activation   *)
(* has the value last given to it, as long as the stack has not grown      *)
(* since its frame was taken and no index has wrapped.                     *)
Holds(k, i) == Read(frames[k].gen, frames[k].slots + i) = acts[k].env[i]

Unmoved ==
    \A k \in 1 .. Len(acts) :
        acts[k].todo = 0 /\ frames[k].gen = gen =>
            \A i \in DOMAIN acts[k].env : Holds(k, i)
LocalsKeptUnmoved == ~ lost => Unmoved
=============================================================================
