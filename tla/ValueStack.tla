----------------------------- MODULE ValueStack -----------------------------
(***************************************************************************)
(* The value stack of the virtual machine (stack.c, realloc_stack of       *)
(* object_memory.c): an array of elements that is replaced by one of twice *)
(* the size when it is full.  count and len are 16-bit (struct stack,      *)
(* includes/object_util.h:179-184): they wrap at WORD.                     *)
(*                                                                         *)
(* Growing frees the old array, but whoever kept a pointer into it goes on *)
(* using that memory: gen numbers the arrays, and old keeps the contents   *)
(* of those that were freed.  An element at or above count is not the      *)
(* program's any more; the model makes it Junk when it is popped, so that  *)
(* whoever still read it would be seen to.                                 *)
(***************************************************************************)
EXTENDS Integers, FiniteSets

CONSTANTS STACK_SIZE,   \* elements of the first array
          WORD,         \* 2^16: values of a uint16_t
          Junk          \* an element that nobody wrote, or that was popped

ASSUME ValueStackAssumption ==
    STACK_SIZE \in Nat \ {0} /\ WORD \in Nat \ {0} /\ STACK_SIZE < WORD

VARIABLES cells,   \* the current array: 0 .. size - 1 -> elements
          count,   \* elements in use
          len,     \* the length the stack believes it has
          gen,     \* number of the current array
          old,     \* contents of the freed arrays
          lost     \* history: an index wrapped, and elements in use were lost

stack == <<cells, count, len, gen, old, lost>>

INC == 2

Fresh(size) == [i \in 0 .. size - 1 |-> Junk]

StackInit ==
    /\ cells = Fresh(STACK_SIZE)
    /\ count = 0
    /\ len = STACK_SIZE
    /\ gen = 1
    /\ old = [g \in {} |-> cells]
    /\ lost = FALSE

(* An array of the given size with e above the lowest n elements: what is  *)
(* left of the current array, or the copy that realloc_stack makes.        *)
Extended(size, n, e) ==
    [i \in 0 .. size - 1 |->
        IF i < n THEN cells[i] ELSE IF i = n THEN e ELSE Junk]

Size == Cardinality(DOMAIN cells)

(* The current array is freed and another takes its place.                 *)
Retire == /\ gen' = gen + 1
          /\ old' = [g \in DOMAIN old \cup {gen} |->
                        IF g = gen THEN cells ELSE old[g]]

(* push, with n elements in use before it (stack.c:37-46).  A stack whose  *)
(* len has wrapped to 0 is freed by realloc_stack (object_memory.c:101-106)*)
(* and push starts an empty one.                                           *)
PushAt(n, e) ==
    IF n + 1 <= len
    THEN /\ cells' = Extended(Size, n, e)
         /\ count' = (n + 1) % WORD
         /\ UNCHANGED <<len, gen, old>>
    ELSE IF len = 0
    THEN /\ cells' = Extended(STACK_SIZE, 0, e)
         /\ count' = 1
         /\ len' = STACK_SIZE
         /\ Retire
    ELSE /\ cells' = Extended(len * INC, n, e)
         /\ count' = (n + 1) % WORD
         /\ len' = (len * INC) % WORD
         /\ Retire

(* The widths of count and len: the element does not come to lie on top of *)
(* the n below it, or count says that nothing is in use.                   *)
Displaced(n) == (n + 1 > len /\ len * INC <= n) \/ n + 1 >= WORD

Push(e) == PushAt(count, e) /\ lost' = Displaced(count)

(* pop of a non-empty stack (stack.c:26).                                  *)
Pop == /\ cells' = [cells EXCEPT ![count - 1] = Junk]
       /\ count' = count - 1
       /\ UNCHANGED <<len, gen, old, lost>>

Top == cells[count - 1]

(* An element reached through a pointer into array g; beyond the end of a  *)
(* freed array lies memory of others.                                      *)
Read(g, i) == IF g = gen THEN cells[i]
              ELSE IF i \in DOMAIN old[g] THEN old[g][i] ELSE Junk

Write(g, i, e) ==
    IF g = gen
    THEN cells' = [cells EXCEPT ![i] = e] /\ UNCHANGED old
    ELSE old' = [old EXCEPT ![g] = [@ EXCEPT ![i] = e]] /\ UNCHANGED cells

(* The heap gives the memory of a freed array to somebody else.            *)
Reuse(g) == /\ old' = [old EXCEPT ![g] = [i \in DOMAIN @ |-> Junk]]
            /\ UNCHANGED <<cells, count, len, gen, lost>>
=============================================================================
