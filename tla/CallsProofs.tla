----------------------------- MODULE CallsProofs -----------------------------
(***************************************************************************)
(* Proofs about Calls for every set of values, arities, widths and bounds. *)
(* The inductive invariant says how the activations are nested on the      *)
(* stack, how frames and history agree, and how far a prologue has got; it *)
(* holds until an index of the stack wraps and elements in use are lost,   *)
(* and the types hold in that last state too.                              *)
(***************************************************************************)
EXTENDS Calls, SequenceTheorems, FiniteSetTheorems, TLAPS

Arrays == UNION {[0 .. n - 1 -> Elements] : n \in Nat}
Envs   == UNION {[D -> Elements] : D \in SUBSET Nat}

Frame == [closure : Code, gen : Nat, slots : Nat, ip_return : Code,
          return_index : Nat]
Activation == [site : Code, base : Nat, floor : Nat, next : Nat,
               todo : Nat, env : Envs, below : Arrays]

StackOK ==
    /\ len \in Nat /\ gen \in Nat \ {0} /\ Size \in Nat
    /\ len <= Size /\ count \in 0 .. Size /\ count < WORD
    /\ cells \in [0 .. Size - 1 -> Elements]
    /\ old \in [1 .. gen - 1 -> Arrays]

Shapes ==
    /\ frames \in Seq(Frame) /\ acts \in Seq(Activation)
    /\ Len(acts) = Len(frames) /\ Len(frames) <= FRAMES_MAX
    /\ ip \in Code /\ argc \in Nat /\ cargc \in Nat

(* Activation k owns the stack from its base up; its locals lie below the  *)
(* operands it may pop, and everything it owns below its callee's base.    *)
Nested(k) ==
    /\ frames[k].gen \in 1 .. gen
    /\ frames[k].slots = acts[k].base
    /\ acts[k].base < acts[k].floor /\ acts[k].floor <= count
    /\ acts[k].base + acts[k].next <= acts[k].floor
    /\ \A i \in DOMAIN acts[k].env : i < acts[k].next
    /\ \A j \in 1 .. k - 1 :
          acts[j].floor <= acts[k].base /\ acts[j].todo = 0

Linked(k) ==
    /\ frames[k].return_index \in 0 .. BYTE - 1
    /\ k > 1 => /\ frames[k].return_index = acts[k].base % BYTE
                /\ frames[k].ip_return = acts[k].site
                /\ acts[k].site = frames[k - 1].closure

(* The first argc - todo arguments have been moved down.                   *)
Moved == argc - act.todo
Source(i) == IF i < Moved THEN i ELSE i + 1
InPrologue ==
    /\ frame.gen = gen
    /\ act.todo <= argc /\ count = act.base + argc + 1
    /\ cargc = IF Moved + 1 < argc THEN Moved + 1 ELSE argc
    /\ DOMAIN act.env = 0 .. argc - 1
    /\ \A i \in 0 .. argc - 1 : cells[act.base + Source(i)] = act.env[i]
Prologue == Running /\ act.todo > 0 => InPrologue

CallsInv ==
    /\ StackOK /\ Shapes
    /\ \A k \in 1 .. Len(acts) : Nested(k) /\ Linked(k)
    /\ Prologue
    /\ Intact /\ CodeMatchesFrame /\ Unmoved

-----------------------------------------------------------------------------
(* The value stack                                                         *)

LEMMA ArraySize ==
    ASSUME NEW array, NEW n \in Nat, array \in [0 .. n - 1 -> Elements]
    PROVE  Cardinality(DOMAIN array) = n
<1>1. DOMAIN array = 0 .. n - 1
  OBVIOUS
<1>2. Cardinality(0 .. n - 1) = n
  BY FS_Interval
<1> QED BY <1>1, <1>2

LEMMA JunkIsElement == Junk \in Elements /\ Values \subseteq Elements
  BY DEF Elements

(* Retiring keeps every array that was retired before.                     *)
LEMMA RetireStep ==
    ASSUME StackOK, Retire
    PROVE  gen' = gen + 1 /\ old' \in [1 .. gen' - 1 -> Arrays]
<1>1. gen \in Nat /\ gen > 0 /\ Size \in Nat
  BY DEF StackOK
<1>2. DOMAIN old = 1 .. gen - 1 /\ \A g \in 1 .. gen - 1 : old[g] \in Arrays
  BY DEF StackOK
<1>3. cells \in Arrays
  BY <1>1 DEF StackOK, Arrays
<1>4. gen' = gen + 1
  BY DEF Retire
<1>5. (1 .. gen - 1) \cup {gen} = 1 .. gen' - 1
  BY <1>1, <1>4
<1>6. old' = [g \in 1 .. gen' - 1 |-> IF g = gen THEN cells ELSE old[g]]
  BY <1>2, <1>5 DEF Retire
<1> QED BY <1>1, <1>2, <1>3, <1>4, <1>6

(* A push writes one element, whether or not it has to grow the array,     *)
(* unless it is displaced.                                                 *)
LEMMA PushAtStep ==
    ASSUME StackOK, NEW n \in 0 .. count, ~ Displaced(n),
           NEW e \in Elements, PushAt(n, e)
    PROVE  /\ StackOK'
           /\ count' = n + 1
           /\ cells'[n] = e
           /\ \A i \in 0 .. n - 1 : cells'[i] = cells[i]
           /\ gen' = gen \/ gen' = gen + 1
<1>1. /\ len \in Nat /\ Size \in Nat /\ len <= Size /\ gen \in Nat /\ gen > 0
      /\ count \in Nat /\ count <= Size
      /\ n \in Nat /\ n <= count /\ WORD \in Nat
      /\ (n + 1 <= len \/ n < 2 * len) /\ n + 1 < WORD
  BY ValueStackAssumption DEF StackOK, Displaced, INC
<1>2. (n + 1) % WORD = n + 1
  BY <1>1
<1>3. ASSUME NEW size \in Nat, size > n, cells' = Extended(size, n, e)
      PROVE  /\ Size' = size /\ cells' \in [0 .. Size' - 1 -> Elements]
             /\ cells'[n] = e
             /\ \A i \in 0 .. n - 1 : cells'[i] = cells[i]
  <2>1. \A i \in 0 .. n - 1 : cells[i] \in Elements
    BY <1>1 DEF StackOK
  <2>2. /\ Extended(size, n, e) \in [0 .. size - 1 -> Elements]
        /\ Extended(size, n, e)[n] = e
        /\ \A i \in 0 .. n - 1 : Extended(size, n, e)[i] = cells[i]
    BY <1>1, <1>3, <2>1, JunkIsElement DEF Extended
  <2>3. Size' = size
    BY <1>3, <2>2, ArraySize DEF Size
  <2> QED BY <1>3, <2>2, <2>3
<1>4. CASE n + 1 <= len
  <2>1. /\ cells' = Extended(Size, n, e) /\ count' = n + 1
        /\ len' = len /\ gen' = gen /\ old' = old
    BY <1>2, <1>4 DEF PushAt
  <2>2. /\ Size' = Size /\ cells' \in [0 .. Size' - 1 -> Elements]
        /\ cells'[n] = e /\ \A i \in 0 .. n - 1 : cells'[i] = cells[i]
    BY <1>1, <1>3, <1>4, <2>1
  <2> QED BY <1>1, <1>4, <2>1, <2>2 DEF StackOK
<1>5. CASE ~ (n + 1 <= len)
  <2>1. len # 0 /\ 2 * len \in Nat /\ n < 2 * len
    BY <1>1, <1>5
  <2>2. /\ cells' = Extended(2 * len, n, e) /\ count' = n + 1
        /\ len' = (2 * len) % WORD /\ Retire
    BY <1>1, <1>2, <1>5, <2>1 DEF PushAt, INC
  <2>3. /\ Size' = 2 * len /\ cells' \in [0 .. Size' - 1 -> Elements]
        /\ cells'[n] = e /\ \A i \in 0 .. n - 1 : cells'[i] = cells[i]
    BY <1>1, <1>3, <2>1, <2>2
  <2>4. gen' = gen + 1 /\ old' \in [1 .. gen' - 1 -> Arrays]
    BY <2>2, RetireStep
  <2>5. len' \in Nat /\ len' <= 2 * len
    <3>1. PICK d \in Nat : d = 2 * len
      BY <2>1
    <3>2. WORD \in Nat \ {0}
      BY ValueStackAssumption
    <3>3. d % WORD \in Nat /\ d % WORD <= d
      BY <3>1, <3>2
    <3> QED BY <2>2, <3>1, <3>3
  <2>6. count' \in 0 .. Size' /\ count' < WORD
    BY <1>1, <2>1, <2>2, <2>3
  <2> QED BY <1>1, <2>1, <2>2, <2>3, <2>4, <2>5, <2>6 DEF StackOK
<1> QED BY <1>4, <1>5

LEMMA PopStep ==
    ASSUME StackOK, count > 0, Pop
    PROVE  /\ StackOK'
           /\ count' = count - 1 /\ gen' = gen
           /\ \A i \in 0 .. count - 2 : cells'[i] = cells[i]
<1>1. /\ count \in Nat /\ Size \in Nat /\ count <= Size
      /\ len' = len /\ gen' = gen /\ old' = old /\ count' = count - 1
      /\ cells' = [cells EXCEPT ![count - 1] = Junk]
      /\ WORD \in Nat
  BY ValueStackAssumption DEF StackOK, Pop
<1>2. cells' \in [0 .. Size - 1 -> Elements]
  BY <1>1, JunkIsElement DEF StackOK
<1>3. Size' = Size
  BY <1>1, <1>2, ArraySize DEF Size
<1> QED BY <1>1, <1>2, <1>3 DEF StackOK

(* A write through a frame's pointer changes that element at most, and the *)
(* current array only if the frame points into it.                         *)
LEMMA WriteStep ==
    ASSUME StackOK, NEW g \in 1 .. gen, NEW i \in Nat, NEW e \in Elements,
           Write(g, i, e), UNCHANGED <<count, len, gen>>
    PROVE  /\ StackOK'
           /\ \A j \in 0 .. Size - 1 : j # i => cells'[j] = cells[j]
           /\ g # gen => cells' = cells
           /\ g = gen /\ i < Size => cells'[i] = e
<1>1. gen \in Nat /\ len \in Nat /\ gen' = gen /\ len' = len
      /\ DOMAIN cells = 0 .. Size - 1 /\ cells \in [0 .. Size - 1 -> Elements]
  BY DEF StackOK
<1>2. CASE g = gen
  <2>1. cells' = [cells EXCEPT ![i] = e] /\ old' = old
    BY <1>2 DEF Write
  <2>2. /\ cells' \in [0 .. Size - 1 -> Elements]
        /\ \A j \in 0 .. Size - 1 : j # i => cells'[j] = cells[j]
        /\ i < Size => cells'[i] = e
    <3> DEFINE next == [cells EXCEPT ![i] = e]
    <3>1. next \in [0 .. Size - 1 -> Elements]
      BY <1>1
    <3>2. \A j \in 0 .. Size - 1 : next[j] = IF j = i THEN e ELSE cells[j]
      BY <1>1
    <3>3. i < Size => i \in 0 .. Size - 1
      BY DEF StackOK
    <3>4. cells' = next
      BY <2>1
    <3> HIDE DEF next
    <3> QED BY <3>1, <3>2, <3>3, <3>4
  <2>4. Size' = Size
    BY <1>1, <2>2, ArraySize DEF Size
  <2>3. StackOK'
    BY <1>1, <2>1, <2>2, <2>4 DEF StackOK
  <2> QED BY <1>2, <2>2, <2>3
<1>3. CASE g # gen
  <2>1. old' = [old EXCEPT ![g] = [@ EXCEPT ![i] = e]] /\ cells' = cells
    BY <1>3 DEF Write
  <2>2. g \in 1 .. gen - 1 /\ old[g] \in Arrays
    BY <1>1, <1>3 DEF StackOK
  <2>3. PICK n \in Nat : old[g] \in [0 .. n - 1 -> Elements]
    BY <2>2 DEF Arrays
  <2>4. [old[g] EXCEPT ![i] = e] \in [0 .. n - 1 -> Elements]
    BY <2>3
  <2>5. [old[g] EXCEPT ![i] = e] \in Arrays
    BY <2>4 DEF Arrays
  <2>6. old' = [old EXCEPT ![g] = [old[g] EXCEPT ![i] = e]]
    BY <2>1
  <2>7. old' \in [1 .. gen - 1 -> Arrays]
    BY <2>2, <2>5, <2>6 DEF StackOK
  <2>8. Size' = Size
    BY <2>1 DEF Size
  <2> QED BY <1>1, <1>3, <2>1, <2>7, <2>8 DEF StackOK
<1> QED BY <1>2, <1>3

LEMMA TopIsElement ==
    ASSUME StackOK, count > 0
    PROVE  Top \in Elements
  BY DEF StackOK, Top

LEMMA ReadIsElement ==
    ASSUME StackOK, NEW g \in 1 .. gen, NEW i \in Nat, g = gen => i < Size
    PROVE  Read(g, i) \in Elements
<1>1. CASE g = gen
  BY <1>1 DEF StackOK, Read
<1>2. CASE g # gen
  <2>1. old[g] \in Arrays
    BY <1>2 DEF StackOK
  <2>2. PICK n \in Nat : old[g] \in [0 .. n - 1 -> Elements]
    BY <2>1 DEF Arrays
  <2> QED BY <1>2, <2>2, JunkIsElement DEF Read
<1> QED BY <1>1, <1>2

-----------------------------------------------------------------------------
(* What the invariant says of every activation, spelled out.               *)
LEMMA Facts ==
    ASSUME CallsInv
    PROVE  /\ gen \in Nat /\ gen > 0 /\ Size \in Nat
           /\ count \in Nat /\ count <= Size
           /\ argc \in Nat /\ cargc \in Nat
           /\ Len(acts) \in Nat /\ Len(frames) = Len(acts)
           /\ Running <=> Len(acts) > 0
           /\ \A k \in 1 .. Len(acts) :
                 /\ acts[k] \in Activation /\ frames[k] \in Frame
                 /\ acts[k].base \in Nat /\ acts[k].floor \in Nat
                 /\ acts[k].next \in Nat /\ acts[k].todo \in Nat
                 /\ acts[k].env \in Envs /\ acts[k].below \in Arrays
                 /\ frames[k].gen \in 1 .. gen
                 /\ frames[k].slots = acts[k].base
                 /\ acts[k].base < acts[k].floor
                 /\ acts[k].floor <= count
                 /\ acts[k].base + acts[k].next <= acts[k].floor
                 /\ \A i \in DOMAIN acts[k].env :
                       i \in Nat /\ i < acts[k].next
                 /\ acts[k].floor <= act.floor
                 /\ k # Len(acts) => /\ acts[k].floor <= act.base
                                     /\ acts[k].todo = 0
<1>1. /\ gen \in Nat /\ gen > 0 /\ Size \in Nat
      /\ count \in Nat /\ count <= Size
  BY DEF CallsInv, StackOK
<1>2. /\ argc \in Nat /\ cargc \in Nat
      /\ Len(acts) \in Nat /\ Len(frames) = Len(acts)
      /\ frames \in Seq(Frame) /\ acts \in Seq(Activation)
      /\ Running <=> Len(acts) > 0
  BY DEF CallsInv, Shapes, Running
<1>3. ASSUME NEW k \in 1 .. Len(acts)
      PROVE  acts[k] \in Activation /\ frames[k] \in Frame
  BY <1>2
<1>4. ASSUME NEW k \in 1 .. Len(acts)
      PROVE  /\ acts[k].base \in Nat /\ acts[k].floor \in Nat
             /\ acts[k].next \in Nat /\ acts[k].todo \in Nat
             /\ acts[k].env \in Envs /\ acts[k].below \in Arrays
  BY <1>3 DEF Activation
<1>5. ASSUME NEW k \in 1 .. Len(acts) PROVE Nested(k)
  BY DEF CallsInv
<1>6. ASSUME NEW k \in 1 .. Len(acts), NEW i \in DOMAIN acts[k].env
      PROVE  i \in Nat
  BY <1>4 DEF Envs
<1>7. ASSUME NEW k \in 1 .. Len(acts)
      PROVE  /\ acts[k].floor <= act.floor
             /\ k # Len(acts) => /\ acts[k].floor <= act.base
                                 /\ acts[k].todo = 0
  <2>1. Len(acts) \in 1 .. Len(acts)
    BY <1>2
  <2>2. CASE k = Len(acts)
    BY <1>4, <2>1, <2>2 DEF act
  <2>3. CASE k # Len(acts)
    <3>1. k \in 1 .. Len(acts) - 1
      BY <1>2, <2>3
    <3>2. acts[k].floor <= act.base /\ acts[k].todo = 0
      BY <1>5, <2>1, <3>1 DEF Nested, act
    <3>3. act.base \in Nat /\ act.floor \in Nat /\ act.base < act.floor
      BY <1>4, <1>5, <2>1 DEF Nested, act
    <3> QED BY <1>4, <3>2, <3>3
  <2> QED BY <2>2, <2>3
<1>8. ASSUME NEW k \in 1 .. Len(acts)
      PROVE  /\ frames[k].gen \in 1 .. gen
             /\ frames[k].slots = acts[k].base
             /\ acts[k].base < acts[k].floor /\ acts[k].floor <= count
             /\ acts[k].base + acts[k].next <= acts[k].floor
             /\ \A i \in DOMAIN acts[k].env : i < acts[k].next
  BY <1>5 DEF Nested
<1> QED BY <1>1, <1>2, <1>3, <1>4, <1>6, <1>7, <1>8

(* Where the saved elements and the locals of an activation lie.           *)
LEMMA Places ==
    ASSUME CallsInv, NEW k \in 1 .. Len(acts)
    PROVE  /\ act.floor \in Nat /\ act.base \in Nat
           /\ \A i \in 0 .. acts[k].base - 1 : i \in 0 .. act.floor - 1
           /\ \A i \in DOMAIN acts[k].env :
                 /\ frames[k].slots + i \in 0 .. act.floor - 1
                 /\ frames[k].slots + i \in 0 .. Size - 1
                 /\ k # Len(acts) => frames[k].slots + i < act.base
<1>1. /\ acts[k].base \in Nat /\ acts[k].floor \in Nat
      /\ acts[k].next \in Nat /\ frames[k].slots = acts[k].base
      /\ acts[k].base < acts[k].floor
      /\ acts[k].base + acts[k].next <= acts[k].floor
      /\ acts[k].floor <= act.floor
      /\ k # Len(acts) => acts[k].floor <= act.base
  BY Facts
<1>2. Len(acts) \in 1 .. Len(acts)
  BY Facts
<1>3. /\ act.floor \in Nat /\ act.base \in Nat /\ act.floor <= count
      /\ count \in Nat /\ Size \in Nat /\ count <= Size
  BY Facts, <1>2 DEF act
<1>4. ASSUME NEW i \in DOMAIN acts[k].env
      PROVE  i \in Nat /\ i < acts[k].next
  BY Facts
<1>5. ASSUME NEW i \in DOMAIN acts[k].env
      PROVE  /\ frames[k].slots + i \in 0 .. act.floor - 1
             /\ frames[k].slots + i \in 0 .. Size - 1
             /\ k # Len(acts) => frames[k].slots + i < act.base
  <2> DEFINE at == acts[k].base + i
  <2>1. at \in Nat /\ at < acts[k].floor
    BY <1>1, <1>4
  <2>2. at = frames[k].slots + i
    BY <1>1
  <2> HIDE DEF at
  <2>3. /\ at \in 0 .. act.floor - 1 /\ at \in 0 .. Size - 1
        /\ k # Len(acts) => at < act.base
    BY <1>1, <1>3, <2>1
  <2> QED BY <2>2, <2>3
<1> QED BY <1>1, <1>3, <1>5

(* A step that moves only operands of the running function.                *)
LEMMA KeepFrames ==
    ASSUME CallsInv, InBody, StackOK', UNCHANGED <<frames, acts, ip>>,
           argc' \in Nat, cargc' \in Nat, act.floor <= count',
           \A i \in 0 .. act.floor - 1 : cells'[i] = cells[i],
           gen' = gen \/ gen' = gen + 1
    PROVE  CallsInv'
<1>1. /\ gen \in Nat /\ count' \in Nat /\ gen' \in Nat
      /\ Len(acts) \in Nat /\ Len(frames) = Len(acts)
  BY Facts DEF StackOK
<1>2. /\ frames' = frames /\ acts' = acts /\ ip' = ip
      /\ Len(acts) > 0 /\ act.todo = 0 /\ act' = act /\ frame' = frame
      /\ act.floor \in Nat
  BY Facts DEF InBody, act, frame
<1>3. Shapes'
  BY <1>2 DEF CallsInv, Shapes
<1>4. ASSUME NEW k \in 1 .. Len(acts) PROVE Nested(k)' /\ Linked(k)'
  <2>1. Nested(k) /\ Linked(k)
    BY DEF CallsInv
  <2>2. acts[k].floor <= count' /\ frames[k].gen \in 1 .. gen'
    BY <1>1, <1>2, Facts
  <2> QED BY <1>2, <2>1, <2>2 DEF Nested, Linked
<1>5. Prologue'
  BY <1>2 DEF Prologue
<1>6. Intact'
  <2> SUFFICES ASSUME NEW k \in 1 .. Len(acts),
                      NEW i \in 0 .. acts[k].base - 1
               PROVE  cells'[i] = acts[k].below[i]
    BY <1>2 DEF Intact
  <2>1. i \in 0 .. act.floor - 1
    BY Places
  <2> QED BY <2>1 DEF CallsInv, Intact
<1>7. CodeMatchesFrame'
  BY <1>2 DEF CallsInv, CodeMatchesFrame, Running
<1>8. Unmoved'
  <2> SUFFICES ASSUME NEW k \in 1 .. Len(acts), acts[k].todo = 0,
                      frames[k].gen = gen', NEW i \in DOMAIN acts[k].env
               PROVE  cells'[frames[k].slots + i] = acts[k].env[i]
    BY <1>2 DEF Unmoved, Holds, Read
  <2>1. gen' = gen
    BY <1>1, Facts
  <2>2. frames[k].slots + i \in 0 .. act.floor - 1
    BY Places
  <2> QED BY <2>1, <2>2 DEF CallsInv, Unmoved, Holds, Read
<1> QED BY <1>2, <1>3, <1>4, <1>5, <1>6, <1>7, <1>8 DEF CallsInv

-----------------------------------------------------------------------------
(* One lemma per action                                                    *)

(* What the guards give: the running activation and its place.             *)
LEMMA RunningFacts ==
    ASSUME CallsInv, Running
    PROVE  /\ Len(acts) \in 1 .. Len(acts)
           /\ act \in Activation /\ frame \in Frame
           /\ act.base \in Nat /\ act.floor \in Nat /\ act.next \in Nat
           /\ act.todo \in Nat /\ act.env \in Envs
           /\ frame.gen \in 1 .. gen /\ frame.slots = act.base
           /\ act.base < act.floor /\ act.floor <= count
           /\ act.base + act.next <= act.floor
           /\ count \in Nat /\ count <= Size /\ Size \in Nat
           /\ gen \in Nat
<1>1. Len(acts) \in 1 .. Len(acts) /\ Len(frames) = Len(acts)
  BY Facts
<1> QED BY <1>1, Facts DEF act, frame

LEMMA OperandStep ==
    ASSUME CallsInv, ~ lost', NEW v \in Values, Operand(v)
    PROVE  CallsInv'
<1>1. /\ InBody /\ Running /\ ~ Displaced(count) /\ PushAt(count, v)
      /\ UNCHANGED <<frames, ip, argc, cargc, acts>>
  BY DEF Operand, InBody, Push
<1>2. StackOK /\ count \in 0 .. count /\ v \in Elements
  BY <1>1, RunningFacts, JunkIsElement DEF CallsInv
<1>3. /\ StackOK' /\ count' = count + 1
      /\ \A i \in 0 .. count - 1 : cells'[i] = cells[i]
      /\ gen' = gen \/ gen' = gen + 1
  BY <1>1, <1>2, PushAtStep
<1>4. act.floor <= count' /\ \A i \in 0 .. act.floor - 1 : cells'[i] = cells[i]
  BY <1>1, <1>3, RunningFacts
<1>5. argc' \in Nat /\ cargc' \in Nat
  BY <1>1, Facts
<1> QED BY <1>1, <1>3, <1>4, <1>5, KeepFrames

LEMMA DiscardStep ==
    ASSUME CallsInv, Discard
    PROVE  CallsInv'
<1>1. /\ InBody /\ Running /\ count > act.floor /\ Pop
      /\ UNCHANGED <<frames, ip, argc, cargc, acts>>
  BY DEF Discard, HasOperand, InBody
<1>2. StackOK /\ count > 0
  BY <1>1, RunningFacts DEF CallsInv
<1>3. /\ StackOK' /\ count' = count - 1 /\ gen' = gen
      /\ \A i \in 0 .. count - 2 : cells'[i] = cells[i]
  BY <1>1, <1>2, PopStep
<1>4. act.floor <= count' /\ \A i \in 0 .. act.floor - 1 : cells'[i] = cells[i]
  BY <1>1, <1>3, RunningFacts
<1>5. argc' \in Nat /\ cargc' \in Nat
  BY <1>1, Facts
<1> QED BY <1>1, <1>3, <1>4, <1>5, KeepFrames

LEMMA GetLocalStep ==
    ASSUME CallsInv, ~ lost', NEW i \in Nat, GetLocal(i)
    PROVE  CallsInv'
<1> DEFINE e == Read(frame.gen, frame.slots + i)
<1>1. /\ InBody /\ Running /\ ~ Displaced(count) /\ PushAt(count, e)
      /\ i \in DOMAIN act.env
      /\ UNCHANGED <<frames, ip, argc, cargc, acts>>
  BY DEF GetLocal, InBody, Push
<1>2. StackOK /\ count \in 0 .. count
  BY <1>1, RunningFacts DEF CallsInv
<1>3. e \in Elements
  <2>1. frames[Len(acts)].slots + i \in 0 .. Size - 1
    BY <1>1, Places, RunningFacts DEF act
  <2>2. frame = frames[Len(acts)] /\ Size \in Nat
    BY <1>1, Facts DEF frame
  <2>3. frame.slots + i \in Nat /\ frame.slots + i < Size
    BY <2>1, <2>2
  <2> QED BY <1>1, <1>2, <2>3, RunningFacts, ReadIsElement
<1>4. /\ StackOK' /\ count' = count + 1
      /\ \A j \in 0 .. count - 1 : cells'[j] = cells[j]
      /\ gen' = gen \/ gen' = gen + 1
  BY <1>1, <1>2, <1>3, PushAtStep
<1>5. act.floor <= count' /\ \A j \in 0 .. act.floor - 1 : cells'[j] = cells[j]
  <2>1. /\ act.floor \in Nat /\ act.floor <= count /\ count \in Nat
    BY <1>1, RunningFacts
  <2>2. act.floor <= count' /\ \A j \in 0 .. act.floor - 1 : j \in 0 .. count - 1
    BY <1>4, <2>1
  <2> QED BY <1>4, <2>2
<1>6. argc' \in Nat /\ cargc' \in Nat
  BY <1>1, Facts
<1> QED BY <1>1, <1>4, <1>5, <1>6, KeepFrames

LEMMA CallNativeStep ==
    ASSUME CallsInv, ~ lost', InBody, NEW n \in Nat, NEW res \in Data,
           count - (n + 1) >= act.floor, CallNative(n, res)
    PROVE  CallsInv'
<1>1. /\ Running /\ PushAt(count - (n + 1), res)
      /\ ~ Displaced(count - (n + 1))
      /\ argc' = n /\ cargc' = 1 /\ UNCHANGED <<frames, ip, acts>>
  BY DEF CallNative, InBody
<1>2. /\ StackOK /\ res \in Elements
      /\ count - (n + 1) \in 0 .. count
  BY <1>1, RunningFacts, JunkIsElement DEF CallsInv, Values
<1>3. /\ StackOK' /\ count' = count - (n + 1) + 1
      /\ \A i \in 0 .. count - (n + 1) - 1 : cells'[i] = cells[i]
      /\ gen' = gen \/ gen' = gen + 1
  BY <1>1, <1>2, PushAtStep
<1>4. act.floor <= count' /\ \A i \in 0 .. act.floor - 1 : cells'[i] = cells[i]
  <2>1. act.floor \in Nat /\ act.floor <= count - (n + 1) /\ count \in Nat
    BY <1>1, RunningFacts
  <2>2. /\ act.floor <= count'
        /\ \A i \in 0 .. act.floor - 1 : i \in 0 .. count - (n + 1) - 1
    BY <1>3, <2>1
  <2> QED BY <1>3, <2>2
<1> QED BY <1>1, <1>3, <1>4, KeepFrames

LEMMA FailStep ==
    ASSUME CallsInv, Fail
    PROVE  CallsInv'
<1>1. /\ frames' = <<>> /\ acts' = <<>> /\ ip' = ip /\ argc' = argc
      /\ cargc' = cargc /\ cells' = cells /\ count' = count
      /\ len' = len /\ gen' = gen /\ old' = old
  BY DEF Fail, stack
<1>2. StackOK'
  BY <1>1 DEF CallsInv, StackOK, Size
<1>3. Shapes'
  BY <1>1, CallsAssumption DEF CallsInv, Shapes
<1>4. Len(acts') = 0 /\ ~ Running'
  BY <1>1 DEF Running
<1>5. Intact' /\ CodeMatchesFrame' /\ Unmoved' /\ Prologue'
  BY <1>4 DEF Intact, CodeMatchesFrame, Unmoved, Prologue
<1> QED BY <1>2, <1>3, <1>4, <1>5 DEF CallsInv

LEMMA InterpretStep ==
    ASSUME CallsInv, ~ lost', Interpret
    PROVE  CallsInv'
<1> DEFINE f == [closure |-> Script, gen |-> gen, slots |-> 0,
                 ip_return |-> Script, return_index |-> (count - 1) % BYTE]
           a == Act(Script, 0, count + 1, 1, 0, [i \in {} |-> Junk])
<1>1. /\ PushAt(count, Script) /\ ~ Displaced(count)
      /\ frames' = <<f>> /\ acts' = <<a>> /\ ip' = Script
      /\ argc' = argc /\ cargc' = cargc
  BY DEF Interpret, Push
<1>2. /\ StackOK /\ count \in Nat /\ gen \in Nat /\ gen > 0
      /\ Script \in Elements /\ BYTE \in Nat /\ BYTE > 0
  BY CallsAssumption, Facts DEF CallsInv, Elements
<1>3. StackOK' /\ count' = count + 1 /\ (gen' = gen \/ gen' = gen + 1)
  BY <1>1, <1>2, PushAtStep
<1>4. /\ f.closure = Script /\ f.gen = gen /\ f.slots = 0
      /\ f.return_index \in 0 .. BYTE - 1
      /\ f \in Frame
  BY <1>2 DEF Frame, Code
<1>5. /\ a.base = 0 /\ a.floor = count + 1 /\ a.next = 1 /\ a.todo = 0
      /\ DOMAIN a.env = {}
  BY DEF Act
<1>6. a \in Activation
  <2>1. [i \in {} |-> Junk] \in Envs
    BY DEF Envs
  <2>2. [i \in 0 .. 0 - 1 |-> cells[i]] \in [0 .. 0 - 1 -> Elements]
    OBVIOUS
  <2>3. [i \in 0 .. 0 - 1 |-> cells[i]] \in Arrays
    BY <2>2 DEF Arrays
  <2> QED BY <1>2, <2>1, <2>3 DEF Act, Activation, Code
<1> HIDE DEF f, a
<1>7. /\ frames' \in Seq(Frame) /\ acts' \in Seq(Activation)
      /\ Len(frames') = 1 /\ Len(acts') = 1
      /\ frames'[1] = f /\ acts'[1] = a
  BY <1>1, <1>4, <1>6
<1>8. Shapes'
  BY <1>1, <1>7, CallsAssumption DEF CallsInv, Shapes, Code
<1>9. Nested(1)' /\ Linked(1)'
  BY <1>2, <1>3, <1>4, <1>5, <1>7 DEF Nested, Linked
<1>10. Intact' /\ CodeMatchesFrame' /\ Unmoved'
  BY <1>1, <1>4, <1>5, <1>7
     DEF Intact, CodeMatchesFrame, Unmoved, frame
<1>11. Prologue'
  BY <1>5, <1>7 DEF Prologue, act
<1> QED BY <1>3, <1>7, <1>8, <1>9, <1>10, <1>11 DEF CallsInv

LEMMA EnterStep ==
    ASSUME CallsInv, InBody, NEW callee \in Funs, NEW n \in Nat,
           count - (n + 1) >= act.floor, ~ Full, Enter(callee, n)
    PROVE  CallsInv'
<1> DEFINE b == count - (n + 1)
           f == [closure |-> callee, gen |-> gen, slots |-> b,
                 ip_return |-> ip, return_index |-> b % BYTE]
           e == [i \in 0 .. n - 1 |-> cells[count - n + i]]
           a == Act(ip, b, count, n, n, e)
           L == Len(acts)
<1>1. /\ frames' = Append(frames, f) /\ acts' = Append(acts, a)
      /\ ip' = callee /\ argc' = n /\ cargc' = 1
      /\ cells' = cells /\ count' = count /\ len' = len /\ gen' = gen
      /\ old' = old
  BY DEF Enter, Slots, ReturnIndex, stack
<1>2. /\ Running /\ act.todo = 0 /\ L \in Nat /\ L > 0 /\ Len(frames) = L
      /\ gen \in Nat /\ gen > 0 /\ Size \in Nat /\ count \in Nat /\ count <= Size
      /\ act.floor \in Nat /\ act.base \in Nat /\ act.base < act.floor
  BY Facts, RunningFacts DEF InBody
<1>3. /\ b \in Nat /\ b + n + 1 = count /\ act.floor <= b
      /\ b % BYTE \in 0 .. BYTE - 1
  <2>1. b \in Nat /\ b + n + 1 = count /\ act.floor <= b
    BY <1>2
  <2>2. BYTE \in Nat \ {0}
    BY CallsAssumption
  <2> HIDE DEF b
  <2> QED BY <2>1, <2>2
<1>4. ip \in Code /\ ip = frames[L].closure
  BY <1>2 DEF CallsInv, Shapes, CodeMatchesFrame, frame
<1>5. /\ f \in Frame /\ f.closure = callee /\ f.gen = gen /\ f.slots = b
      /\ f.ip_return = ip /\ f.return_index = b % BYTE
  BY <1>2, <1>3, <1>4 DEF Frame, Code
<1>6. /\ a.site = ip /\ a.base = b /\ a.floor = count /\ a.next = n
      /\ a.todo = n /\ a.env = e
      /\ a.below = [i \in 0 .. b - 1 |-> cells[i]]
  BY DEF Act
<1>7. a \in Activation
  <2>1. \A i \in 0 .. Size - 1 : cells[i] \in Elements
    BY DEF CallsInv, StackOK
  <2>2. \A i \in 0 .. n - 1 : count - n + i \in 0 .. Size - 1
    BY <1>2, <1>3
  <2>3. e \in [0 .. n - 1 -> Elements] /\ 0 .. n - 1 \in SUBSET Nat
    BY <2>1, <2>2
  <2>4. e \in Envs
    BY <2>3 DEF Envs
  <2>5. \A i \in 0 .. b - 1 : i \in 0 .. Size - 1
    BY <1>2, <1>3
  <2>6. [i \in 0 .. b - 1 |-> cells[i]] \in [0 .. b - 1 -> Elements]
    BY <2>1, <2>5
  <2>7. [i \in 0 .. b - 1 |-> cells[i]] \in Arrays
    BY <1>3, <2>6 DEF Arrays
  <2> HIDE DEF b, e
  <2> QED BY <1>2, <1>3, <1>4, <2>4, <2>7 DEF Act, Activation
<1>8. DOMAIN e = 0 .. n - 1 /\ \A i \in 0 .. n - 1 : e[i] = cells[b + 1 + i]
  BY <1>2, <1>3
<1> HIDE DEF b, f, e, a
<1>9. /\ frames' \in Seq(Frame) /\ acts' \in Seq(Activation)
      /\ Len(frames') = L + 1 /\ Len(acts') = L + 1
      /\ frames'[L + 1] = f /\ acts'[L + 1] = a
      /\ \A k \in 1 .. L : frames'[k] = frames[k] /\ acts'[k] = acts[k]
  BY <1>1, <1>2, <1>5, <1>7 DEF CallsInv, Shapes
<1>10. StackOK'
  BY <1>1 DEF CallsInv, StackOK, Size
<1>11. Shapes'
  <2>1. L + 1 <= FRAMES_MAX
    BY <1>2, CallsAssumption DEF CallsInv, Shapes, Full
  <2> QED BY <1>1, <1>9, <2>1 DEF Shapes, Code
<1>12. ASSUME NEW k \in 1 .. L PROVE Nested(k)' /\ Linked(k)'
  <2>1. Nested(k) /\ Linked(k) /\ \A j \in 1 .. k - 1 : j \in 1 .. L
    BY <1>2 DEF CallsInv
  <2>2. k > 1 => k - 1 \in 1 .. L
    BY <1>2
  <2> QED BY <1>1, <1>9, <2>1, <2>2 DEF Nested, Linked
<1>13. ASSUME NEW k, k = L + 1 PROVE Nested(k)' /\ Linked(k)'
  <2>1. \A j \in 1 .. L : acts[j].floor <= b /\ acts[j].todo = 0
    <3>1. ASSUME NEW j \in 1 .. L PROVE acts[j].floor <= b /\ acts[j].todo = 0
      <4>1. acts[j].floor \in Nat /\ acts[j].floor <= act.floor
        BY Facts
      <4>2. acts[j].todo = 0
        BY <1>2, Facts DEF act
      <4> QED BY <1>2, <1>3, <4>1, <4>2
    <3> QED BY <3>1
  <2>2. /\ acts'[k] = a /\ frames'[k] = f /\ 1 .. k - 1 = 1 .. L
        /\ k - 1 = L /\ k > 1
    BY <1>2, <1>9, <1>13
  <2>3. \A j \in 1 .. k - 1 : acts'[j].floor <= b /\ acts'[j].todo = 0
    BY <1>9, <2>1, <2>2
  <2>4. \A i \in DOMAIN a.env : i < n
    BY <1>6, <1>8
  <2>5. b < count /\ b + n <= count
    BY <1>2, <1>3
  <2>6. Nested(k)'
    BY <1>1, <1>2, <1>5, <1>6, <2>2, <2>3, <2>4, <2>5 DEF Nested
  <2>7. frames'[k - 1] = frames[L]
    BY <1>2, <1>9, <2>2
  <2>8. Linked(k)'
    BY <1>3, <1>4, <1>5, <1>6, <2>2, <2>7 DEF Linked
  <2> QED BY <2>6, <2>8
<1>14. Prologue'
  <2>1. act' = a /\ frame' = f
    BY <1>9 DEF act, frame
  <2>2. ASSUME n > 0 PROVE InPrologue'
    <3>1. Moved' = 0
      BY <1>1, <1>6, <2>1 DEF Moved
    <3>2. \A i \in 0 .. n - 1 : cells[b + (i + 1)] = e[i]
      BY <1>3, <1>8
    <3>3. \A i \in 0 .. argc' - 1 :
             cells'[act'.base + Source(i)'] = act'.env[i]
      BY <1>1, <1>6, <2>1, <3>1, <3>2 DEF Source
    <3>4. /\ frame'.gen = gen' /\ act'.todo <= argc'
          /\ count' = act'.base + argc' + 1
          /\ DOMAIN act'.env = 0 .. argc' - 1
      BY <1>1, <1>3, <1>5, <1>6, <1>8, <2>1
    <3>5. cargc' = IF Moved' + 1 < argc' THEN Moved' + 1 ELSE argc'
      BY <1>1, <2>2, <3>1
    <3> QED
      BY <3>3, <3>4, <3>5 DEF InPrologue
  <2> QED BY <1>6, <2>1, <2>2 DEF Prologue
<1>15. Intact'
  <2> SUFFICES ASSUME NEW k \in 1 .. L + 1,
                      NEW i \in 0 .. acts'[k].base - 1
               PROVE  cells[i] = acts'[k].below[i]
    BY <1>1, <1>9 DEF Intact
  <2>1. CASE k \in 1 .. L
    BY <1>9, <2>1 DEF CallsInv, Intact
  <2>2. CASE k = L + 1
    BY <1>6, <1>9, <2>2
  <2> QED BY <1>2, <2>1, <2>2
<1>16. CodeMatchesFrame'
  BY <1>1, <1>5, <1>9 DEF CodeMatchesFrame, frame
<1>17. Unmoved'
  <2>1. ASSUME NEW k \in 1 .. L, acts[k].todo = 0, frames[k].gen = gen,
               NEW i \in DOMAIN acts[k].env
        PROVE  cells[frames[k].slots + i] = acts[k].env[i]
    BY <2>1 DEF CallsInv, Unmoved, Holds, Read
  <2>2. a.todo = 0 => DOMAIN a.env = {}
    BY <1>6, <1>8
  <2> QED
    BY <1>1, <1>2, <1>9, <2>1, <2>2 DEF Unmoved, Holds, Read
<1>18. \A k \in 1 .. Len(acts') : Nested(k)' /\ Linked(k)'
  <2> SUFFICES ASSUME NEW k \in 1 .. Len(acts')
               PROVE  Nested(k)' /\ Linked(k)'
    OBVIOUS
  <2>1. k \in 1 .. L \/ k = L + 1
    BY <1>2, <1>9
  <2> QED BY <1>12, <1>13, <2>1
<1> QED
  BY <1>10, <1>11, <1>14, <1>15, <1>16, <1>17, <1>18 DEF CallsInv

(* A step that changes only the running activation and elements of it.     *)
LEMMA TopStep ==
    ASSUME CallsInv, Running, NEW a \in Activation,
           acts' = [acts EXCEPT ![Len(acts)] = a],
           UNCHANGED <<frames, ip, count, len, gen>>,
           StackOK', argc' \in Nat, cargc' \in Nat,
           a.base = act.base, a.site = act.site, a.below = act.below,
           a.base < a.floor, a.floor <= count,
           a.base + a.next <= a.floor,
           \A i \in DOMAIN a.env : i < a.next,
           \A i \in 0 .. act.base - 1 : cells'[i] = cells[i],
           Prologue',
           a.todo = 0 /\ frame.gen = gen =>
               \A i \in DOMAIN a.env : cells'[a.base + i] = a.env[i]
    PROVE  CallsInv'
<1> DEFINE L == Len(acts)
<1>1. /\ L \in Nat /\ L > 0 /\ Len(frames) = L /\ L \in 1 .. L
      /\ acts \in Seq(Activation)
  BY Facts DEF CallsInv, Shapes
<1>2. /\ Len(acts') = L /\ acts' \in Seq(Activation) /\ acts'[L] = a
      /\ \A k \in 1 .. L : k # L => acts'[k] = acts[k]
  BY <1>1
<1>3. /\ frames' = frames /\ ip' = ip /\ count' = count /\ gen' = gen
      /\ act = acts[L] /\ frame = frames[L] /\ frame' = frame
  BY <1>1 DEF act, frame
<1> HIDE DEF L
<1>4. Shapes'
  BY <1>1, <1>2, <1>3 DEF CallsInv, Shapes
<1>5. ASSUME NEW k \in 1 .. L PROVE Nested(k)' /\ Linked(k)'
  <2>1. Nested(k) /\ Linked(k)
    BY <1>1 DEF CallsInv, L
  <2>2. /\ acts'[k].base = acts[k].base /\ acts'[k].site = acts[k].site
    BY <1>2, <1>3
  <2>3. /\ acts'[k].base < acts'[k].floor /\ acts'[k].floor <= count
        /\ acts'[k].base + acts'[k].next <= acts'[k].floor
        /\ \A i \in DOMAIN acts'[k].env : i < acts'[k].next
    BY <1>2, <2>1 DEF Nested
  <2>4. \A j \in 1 .. k - 1 : acts'[j] = acts[j]
    BY <1>1, <1>2
  <2>5. Nested(k)'
    BY <1>3, <2>1, <2>2, <2>3, <2>4 DEF Nested
  <2>6. Linked(k)'
    BY <1>3, <2>1, <2>2 DEF Linked
  <2> QED BY <2>5, <2>6
<1>6. Intact'
  <2> SUFFICES ASSUME NEW k \in 1 .. L, NEW i \in 0 .. acts'[k].base - 1
               PROVE  cells'[i] = acts'[k].below[i]
    BY <1>2 DEF Intact
  <2>1. acts'[k].base = acts[k].base /\ acts'[k].below = acts[k].below
    BY <1>2, <1>3
  <2>2. cells[i] = acts[k].below[i]
    BY <2>1 DEF CallsInv, Intact, L
  <2>3. /\ acts[k].base \in Nat /\ acts[k].floor \in Nat
        /\ acts[k].base < acts[k].floor
        /\ k # L => acts[k].floor <= act.base
    BY Facts DEF L
  <2>4. act.base \in Nat
    BY RunningFacts
  <2>5. i \in 0 .. act.base - 1
    BY <1>3, <2>1, <2>3, <2>4
  <2> QED BY <2>1, <2>2, <2>5
<1>7. CodeMatchesFrame'
  BY <1>3 DEF CallsInv, CodeMatchesFrame, Running
<1>8. Unmoved'
  <2> SUFFICES ASSUME NEW k \in 1 .. L, acts'[k].todo = 0,
                      frames[k].gen = gen, NEW i \in DOMAIN acts'[k].env
               PROVE  cells'[frames[k].slots + i] = acts'[k].env[i]
    BY <1>2, <1>3 DEF Unmoved, Holds, Read
  <2>1. CASE k = L
    BY <1>2, <1>3, <2>1, RunningFacts
  <2>2. CASE k # L
    <3>1. acts'[k] = acts[k]
      BY <1>2, <2>2
    <3>2. cells[frames[k].slots + i] = acts[k].env[i]
      BY <3>1 DEF CallsInv, Unmoved, Holds, Read, L
    <3>3. /\ frames[k].slots + i < act.base /\ act.base \in Nat
          /\ frames[k].slots + i \in 0 .. act.floor - 1
      BY <2>2, <3>1, Places DEF L
    <3>4. frames[k].slots + i \in 0 .. act.base - 1
      BY <3>3
    <3> QED BY <3>1, <3>2, <3>4
  <2> QED BY <2>1, <2>2
<1> QED BY <1>2, <1>4, <1>5, <1>6, <1>7, <1>8 DEF CallsInv

LEMMA ReturnStep ==
    ASSUME CallsInv, ~ lost', Return
    PROVE  CallsInv'
<1> DEFINE L == Len(acts)
<1>1. /\ InBody /\ Running /\ act.todo = 0 /\ count > act.base
      /\ frames' = SubSeq(frames, 1, L - 1) /\ acts' = SubSeq(acts, 1, L - 1)
      /\ L \in Nat /\ L > 0 /\ Len(frames) = L /\ L \in 1 .. L
      /\ argc' = argc /\ cargc' = cargc
      /\ act = acts[L] /\ frame = frames[L]
      /\ act.base \in Nat /\ count \in Nat
      /\ frames \in Seq(Frame) /\ acts \in Seq(Activation)
      /\ Len(frames) <= FRAMES_MAX
  BY Facts, RunningFacts
     DEF Return, InBody, DropLast, act, frame, CallsInv, Shapes
<1>2. FRAMES_MAX \in Nat
  BY CallsAssumption
<1>3. /\ Len(frames') = L - 1 /\ Len(acts') = L - 1
      /\ frames' \in Seq(Frame) /\ acts' \in Seq(Activation)
      /\ \A k \in 1 .. L - 1 : frames'[k] = frames[k] /\ acts'[k] = acts[k]
  BY <1>1
<1>4. StackOK /\ count > 0
  BY <1>1 DEF CallsInv
<1>5. CASE L = 1
  <2>1. Pop /\ ip' = ip
    BY <1>1, <1>5 DEF Return
  <2>2. StackOK'
    BY <1>4, <2>1, PopStep
  <2>3. Shapes'
    BY <1>1, <1>2, <1>3, <1>5, <2>1 DEF CallsInv, Shapes
  <2>4. Len(acts') = 0 /\ ~ Running'
    BY <1>3, <1>5 DEF Running
  <2>5. Intact' /\ CodeMatchesFrame' /\ Unmoved' /\ Prologue'
    BY <2>4 DEF Intact, CodeMatchesFrame, Unmoved, Prologue
  <2> QED BY <2>2, <2>3, <2>4, <2>5 DEF CallsInv
<1>6. CASE L > 1
  <2>1. Nested(L) /\ Linked(L)
    BY <1>1 DEF CallsInv
  <2>2. /\ PushAt(act.base, Top) /\ ~ Displaced(act.base)
        /\ ip' = frames[L - 1].closure
    <3>0. Len(frames) # 1
      BY <1>1, <1>6
    <3>1. /\ PushAt(frame.return_index, Top) /\ ip' = frame.ip_return
          /\ lost' = (frame.return_index # act.base
                         \/ Displaced(frame.return_index))
      BY <3>0, Zenon DEF Return, Resume
    <3>2. frame.return_index = act.base /\ ~ Displaced(frame.return_index)
      BY <3>1, Zenon
    <3>3. frame.ip_return = frames[L - 1].closure
      BY <1>1, <1>6, <2>1 DEF Linked
    <3> QED BY <3>1, <3>2, <3>3, Zenon
  <2>3. /\ act.base \in 0 .. count /\ Top \in Elements
    BY <1>1, <1>4, RunningFacts, TopIsElement
  <2>4. /\ StackOK' /\ count' = act.base + 1
        /\ \A i \in 0 .. act.base - 1 : cells'[i] = cells[i]
        /\ gen' = gen \/ gen' = gen + 1
    BY <1>4, <2>2, <2>3, PushAtStep
  <2>0. gen \in Nat
    BY Facts
  <2> HIDE DEF L
  <2>5. /\ gen \in Nat /\ gen' \in Nat /\ L - 1 \in 1 .. L /\ L - 1 # L
    BY <1>1, <1>6, <2>4, <2>0
  <2>6. Shapes'
    <3>1. ip' \in Code
      BY <1>1, <2>2, <2>5, Facts DEF Frame, L
    <3> QED BY <1>1, <1>2, <1>3, <3>1 DEF CallsInv, Shapes
  <2>7. ASSUME NEW k \in 1 .. L - 1 PROVE Nested(k)' /\ Linked(k)'
    <3>1. k \in 1 .. L /\ k # L /\ \A j \in 1 .. k - 1 : j \in 1 .. L - 1
      BY <1>1
    <3>2. Nested(k) /\ Linked(k)
      BY <3>1 DEF CallsInv, L
    <3>3. acts[k].floor <= act.base /\ acts[k].floor \in Nat
      BY <3>1, Facts DEF L
    <3>4. acts[k].floor <= count' /\ frames[k].gen \in 1 .. gen'
      BY <1>1, <2>4, <2>5, <3>2, <3>3 DEF Nested
    <3>5. Nested(k)'
      BY <1>3, <3>1, <3>2, <3>4 DEF Nested
    <3>6. k > 1 => k - 1 \in 1 .. L - 1
      BY <1>1
    <3>7. Linked(k)'
      BY <1>3, <3>2, <3>6 DEF Linked
    <3> QED BY <3>5, <3>7
  <2>8. act' = acts[L - 1] /\ frame' = frames[L - 1] /\ act'.todo = 0
    <3>1. L - 1 \in 1 .. L - 1
      BY <1>1, <1>6
    <3>2. acts[L - 1].todo = 0
      BY <2>5, Facts DEF L
    <3> QED BY <1>3, <3>1, <3>2 DEF act, frame
  <2>9. Prologue'
    BY <2>8 DEF Prologue
  <2>10. CodeMatchesFrame'
    BY <2>2, <2>8 DEF CodeMatchesFrame
  <2>11. Intact'
    <3> SUFFICES ASSUME NEW k \in 1 .. L - 1,
                        NEW i \in 0 .. acts[k].base - 1
                 PROVE  cells'[i] = acts[k].below[i]
      BY <1>3 DEF Intact
    <3>1. k \in 1 .. L /\ k # L
      BY <1>1
    <3>2. cells[i] = acts[k].below[i]
      BY <3>1 DEF CallsInv, Intact, L
    <3>3. /\ acts[k].base \in Nat /\ acts[k].floor \in Nat
          /\ acts[k].base < acts[k].floor /\ acts[k].floor <= act.base
      BY <3>1, Facts DEF L
    <3>4. i \in 0 .. act.base - 1
      BY <1>1, <3>3
    <3> QED BY <2>4, <3>2, <3>4
  <2>12. Unmoved'
    <3> SUFFICES ASSUME NEW k \in 1 .. L - 1, acts[k].todo = 0,
                        frames[k].gen = gen', NEW i \in DOMAIN acts[k].env
                 PROVE  cells'[frames[k].slots + i] = acts[k].env[i]
      BY <1>3 DEF Unmoved, Holds, Read
    <3>1. k \in 1 .. L /\ k # L
      BY <1>1
    <3>2. gen' = gen
      BY <2>4, <2>5, <3>1, Facts DEF L
    <3>3. cells[frames[k].slots + i] = acts[k].env[i]
      BY <3>1, <3>2 DEF CallsInv, Unmoved, Holds, Read, L
    <3>4. /\ frames[k].slots + i < act.base
          /\ frames[k].slots + i \in 0 .. act.floor - 1
      BY <3>1, Places DEF L
    <3>5. frames[k].slots + i \in 0 .. act.base - 1
      BY <1>1, <3>4
    <3> QED BY <2>4, <3>3, <3>5
  <2> QED
    BY <1>3, <2>4, <2>6, <2>7, <2>9, <2>10, <2>11, <2>12 DEF CallsInv
<1> QED BY <1>1, <1>5, <1>6

(* OP_SET_LOCAL_PARAM moves the next argument onto its local.              *)
LEMMA ParamStep ==
    ASSUME CallsInv, Param
    PROVE  CallsInv'
<1> DEFINE a == [act EXCEPT !.todo = @ - 1]
           m == argc - act.todo
           e == ParamSource
<1>1. /\ Running /\ act.todo > 0 /\ Write(frame.gen, frame.slots + m, e)
      /\ cargc' = IF cargc < argc THEN cargc + 1 ELSE cargc
      /\ acts' = [acts EXCEPT ![Len(acts)] = a]
      /\ UNCHANGED <<count, len, gen, frames, ip>> /\ argc' = argc
  BY DEF Param, SetAct
<1>2. /\ StackOK /\ act \in Activation /\ act.todo \in Nat
      /\ act.base \in Nat /\ frame.slots = act.base /\ frame.gen = gen
      /\ gen \in 1 .. gen /\ argc \in Nat /\ cargc \in Nat
      /\ Size \in Nat /\ count \in Nat /\ count <= Size
  BY <1>1, Facts, RunningFacts DEF CallsInv, Prologue, InPrologue
<1>3. /\ act.todo <= argc /\ count = act.base + argc + 1
      /\ cargc = IF m + 1 < argc THEN m + 1 ELSE argc
      /\ DOMAIN act.env = 0 .. argc - 1
  BY <1>1 DEF CallsInv, Prologue, InPrologue, Moved
<1>4. ASSUME NEW i \in 0 .. argc - 1
      PROVE  /\ i < m => cells[act.base + i] = act.env[i]
             /\ i >= m => cells[act.base + (i + 1)] = act.env[i]
  <2>1. cells[act.base + Source(i)] = act.env[i]
    BY <1>1 DEF CallsInv, Prologue, InPrologue
  <2>2. Source(i) = IF i < m THEN i ELSE i + 1
    BY DEF Source, Moved
  <2>3. m \in Int
    BY <1>2
  <2> HIDE DEF m
  <2> QED BY <2>1, <2>2, <2>3
<1>5. m \in 0 .. argc - 1 /\ act.todo = argc - m
  <2>1. act.todo > 0
    BY <1>1, Zenon
  <2>2. act.todo \in Nat /\ argc \in Nat /\ act.todo <= argc
    BY <1>2, <1>3, Zenon
  <2> QED BY <2>1, <2>2
<1> HIDE DEF m
<1>6. e = act.env[m] /\ e \in Elements
  <2>1. cells[act.base + (m + 1)] = act.env[m]
    BY <1>2, <1>4, <1>5
  <2>2. e = cells[act.base + (m + 1)]
    <3>1. CASE cargc < argc
      <4>1. cargc = m + 1
        BY <1>2, <1>3, <1>5, <3>1
      <4> QED BY <1>2, <3>1, <4>1 DEF ParamSource, Read
    <3>2. CASE ~ (cargc < argc)
      <4>1. m + 1 = argc
        BY <1>2, <1>3, <1>5, <3>2
      <4>2. count - 1 = act.base + (m + 1)
        BY <1>2, <1>3, <4>1
      <4> QED BY <3>2, <4>2 DEF ParamSource, Top
    <3> QED BY <3>1, <3>2
  <2>3. act.base + (m + 1) \in 0 .. Size - 1
    BY <1>2, <1>3, <1>5
  <2>4. cells[act.base + (m + 1)] \in Elements
    BY <1>2, <2>3 DEF StackOK
  <2> QED BY <2>1, <2>2, <2>4
<1>7. a \in Activation /\ a = [act EXCEPT !.todo = argc - m - 1]
  <2>1. act.todo - 1 \in Nat /\ act.todo - 1 = argc - m - 1
    BY <1>1, <1>2, <1>5
  <2>2. [act EXCEPT !.todo = act.todo - 1] \in Activation
    BY <1>2, <2>1 DEF Activation
  <2> QED BY <2>1, <2>2
<1>8. /\ a.base = act.base /\ a.site = act.site /\ a.below = act.below
      /\ a.floor = act.floor /\ a.next = act.next /\ a.env = act.env
      /\ a.todo = argc - m - 1
  BY <1>2, <1>7 DEF Activation
<1> HIDE DEF a, e
<1>9. act.base + m \in Nat /\ act.base + m < Size
  BY <1>2, <1>3, <1>5
<1>10. /\ StackOK' /\ cells'[act.base + m] = e
       /\ \A j \in 0 .. Size - 1 : j # act.base + m => cells'[j] = cells[j]
  BY <1>1, <1>2, <1>6, <1>9, WriteStep
<1>11. \A i \in 0 .. act.base - 1 : cells'[i] = cells[i]
  <2>1. \A i \in 0 .. act.base - 1 : i \in 0 .. Size - 1 /\ i # act.base + m
    BY <1>2, <1>3, <1>5
  <2> QED BY <1>10, <2>1
<1>12. ASSUME NEW i \in 0 .. argc - 1
       PROVE  /\ i < m + 1 => cells'[act.base + i] = act.env[i]
              /\ i >= m + 1 => cells'[act.base + (i + 1)] = act.env[i]
  <2>1. act.base + i \in 0 .. Size - 1 /\ act.base + (i + 1) \in 0 .. Size - 1
    <3>1. /\ act.base \in Nat /\ argc \in Nat /\ count \in Nat
          /\ Size \in Nat /\ count <= Size /\ count = act.base + argc + 1
      BY <1>2, <1>3
    <3> DEFINE at == act.base + i
    <3>2. at \in Nat /\ at < act.base + argc
      BY <3>1
    <3> HIDE DEF at
    <3>3. at \in 0 .. Size - 1 /\ at + 1 \in 0 .. Size - 1
      BY <3>1, <3>2
    <3> QED BY <3>1, <3>3 DEF at
  <2>2. CASE i < m
    BY <1>2, <1>4, <1>5, <1>10, <2>1, <2>2
  <2>3. CASE i = m
    BY <1>5, <1>6, <1>10, <2>3
  <2>4. CASE i > m
    <3>1. /\ act.base + (i + 1) # act.base + m /\ i >= m /\ ~ (i < m + 1)
      BY <1>2, <1>5, <2>4
    <3> QED BY <1>4, <1>10, <2>1, <3>1
  <2> QED BY <1>5, <2>2, <2>3, <2>4
<1>13. act' = a /\ frame' = frame
  BY <1>1, RunningFacts, Facts DEF act, frame, CallsInv, Shapes
<1>14. Prologue'
  <2> SUFFICES ASSUME a.todo > 0 PROVE InPrologue'
    BY <1>13 DEF Prologue
  <2>1. Moved' = m + 1
    BY <1>1, <1>2, <1>5, <1>8, <1>13 DEF Moved
  <2>2. m + 1 < argc
    BY <1>2, <1>5, <1>8
  <2>3. \A i \in 0 .. argc' - 1 :
           cells'[act'.base + Source(i)'] = act'.env[i]
    BY <1>1, <1>5, <1>8, <1>12, <1>13, <2>1 DEF Source
  <2>4. cargc' = IF Moved' + 1 < argc' THEN Moved' + 1 ELSE argc'
    BY <1>1, <1>2, <1>3, <1>5, <2>1, <2>2
  <2>5. /\ frame'.gen = gen' /\ act'.todo <= argc'
        /\ count' = act'.base + argc' + 1
        /\ DOMAIN act'.env = 0 .. argc' - 1
    BY <1>1, <1>2, <1>3, <1>5, <1>8, <1>13
  <2> QED BY <2>3, <2>4, <2>5 DEF InPrologue
<1>15. a.todo = 0 => \A i \in DOMAIN a.env : cells'[a.base + i] = a.env[i]
  <2> SUFFICES ASSUME a.todo = 0, NEW i \in 0 .. argc - 1
               PROVE  cells'[act.base + i] = act.env[i]
    BY <1>3, <1>8
  <2>1. i < m + 1
    BY <1>2, <1>5, <1>8
  <2> QED BY <1>12, <2>1
<1>16. /\ a.base < a.floor /\ a.floor <= count
       /\ a.base + a.next <= a.floor /\ \A i \in DOMAIN a.env : i < a.next
  <2>1. \A i \in DOMAIN act.env : i < act.next
    BY <1>1, Facts, RunningFacts DEF act
  <2> QED BY <1>1, <1>8, <2>1, RunningFacts
<1>17. argc' \in Nat /\ cargc' \in Nat
  BY <1>1, <1>2
<1> QED
  BY <1>1, <1>7, <1>8, <1>10, <1>11, <1>14, <1>15, <1>16, <1>17, TopStep

(* A local of the running activation gets the value on top of the stack.   *)
LEMMA LocalStep ==
    ASSUME CallsInv, HasOperand, NEW i \in Nat, NEW floor \in Nat,
           NEW next \in Nat, NEW env \in Envs, SetLocal(i),
           i < next, act.floor <= floor, floor <= count,
           act.base + next <= floor, act.next <= next,
           DOMAIN env = DOMAIN act.env \cup {i}, env[i] = Top,
           \A j \in DOMAIN act.env : j # i => env[j] = act.env[j],
           SetAct([act EXCEPT !.floor = floor, !.next = next, !.env = env]),
           UNCHANGED <<count, len, gen, frames, ip, argc, cargc>>
    PROVE  CallsInv'
<1> DEFINE a == [act EXCEPT !.floor = floor, !.next = next, !.env = env]
<1>1. /\ Running /\ act.todo = 0 /\ count > act.floor
      /\ acts' = [acts EXCEPT ![Len(acts)] = a]
      /\ Write(frame.gen, frame.slots + i, Top)
  BY DEF HasOperand, InBody, SetAct, SetLocal
<1>2. /\ StackOK /\ act \in Activation /\ Len(acts) \in 1 .. Len(acts)
      /\ act.base \in Nat /\ act.floor \in Nat /\ act.base < act.floor
      /\ act.next \in Nat /\ frame.slots = act.base
      /\ frame.gen \in 1 .. gen /\ gen \in Nat
      /\ Size \in Nat /\ count \in Nat /\ count <= Size
      /\ Top \in Elements
  BY <1>1, RunningFacts, TopIsElement DEF CallsInv
<1>3. a \in Activation
  BY <1>2 DEF Activation
<1>4. /\ a.base = act.base /\ a.site = act.site /\ a.below = act.below
      /\ a.floor = floor /\ a.next = next /\ a.env = env
      /\ a.todo = 0
  BY <1>1, <1>2 DEF Activation
<1> HIDE DEF a
<1>5. act.base + i \in Nat /\ act.base + i < Size
  BY <1>2
<1>6. /\ StackOK'
      /\ \A j \in 0 .. Size - 1 : j # act.base + i => cells'[j] = cells[j]
      /\ frame.gen = gen => cells'[act.base + i] = Top
  BY <1>1, <1>2, <1>5, WriteStep
<1>7. \A j \in 0 .. act.base - 1 : cells'[j] = cells[j]
  <2> SUFFICES ASSUME NEW j \in 0 .. act.base - 1
               PROVE  cells'[j] = cells[j]
    OBVIOUS
  <2>1. j \in 0 .. Size - 1 /\ j # act.base + i
    BY <1>2
  <2> QED BY <1>6, <2>1
<1>8. act' = a /\ frame' = frame
  BY <1>1, <1>2, Facts DEF act, frame, CallsInv, Shapes
<1>9. Prologue'
  BY <1>4, <1>8 DEF Prologue
<1>10. ASSUME frame.gen = gen, NEW j \in DOMAIN a.env
       PROVE  cells'[a.base + j] = a.env[j]
  <2>1. CASE j = i
    BY <1>4, <1>6, <1>10, <2>1
  <2>2. CASE j # i
    <3>1. j \in DOMAIN act.env /\ env[j] = act.env[j]
      BY <1>4, <1>10, <2>2
    <3>2. frame = frames[Len(acts)]
      BY Facts DEF frame
    <3>3. act.base + j \in 0 .. Size - 1
      <4>1. frames[Len(acts)].slots + j \in 0 .. Size - 1
        BY <1>2, <3>1, Places DEF act
      <4> QED BY <1>2, <3>2, <4>1
    <3>4. cells[act.base + j] = act.env[j]
      BY <1>1, <1>2, <1>10, <3>1, <3>2
         DEF CallsInv, Unmoved, Holds, Read, act
    <3>5. j \in Nat /\ act.base + j # act.base + i
      BY <1>2, <2>2, <3>1, Facts DEF act
    <3> QED BY <1>4, <1>6, <3>1, <3>3, <3>4, <3>5
  <2> QED BY <2>1, <2>2
<1>11. \A j \in DOMAIN a.env : j < a.next
  <2>1. \A j \in DOMAIN act.env : j \in Nat /\ j < act.next
    BY <1>2, Facts DEF act
  <2> QED BY <1>2, <1>4, <2>1
<1>12. a.base < a.floor /\ a.floor <= count /\ a.base + a.next <= a.floor
  BY <1>2, <1>4
<1>13. argc' \in Nat /\ cargc' \in Nat
  BY Facts
<1> QED
  BY <1>1, <1>3, <1>4, <1>6, <1>7, <1>9, <1>10, <1>11, <1>12, <1>13, TopStep

LEMMA DeclareStep ==
    ASSUME CallsInv, Declare
    PROVE  CallsInv'
<1> DEFINE i == act.next
           env == [j \in DOMAIN act.env \cup {i} |->
                      IF j = i THEN Top ELSE act.env[j]]
<1>1. /\ HasOperand /\ Running /\ count > act.floor /\ SetLocal(i)
      /\ SetAct([act EXCEPT !.floor = act.floor + 1, !.next = i + 1,
                            !.env = env])
      /\ UNCHANGED <<count, len, gen, frames, ip, argc, cargc>>
  BY DEF Declare, HasOperand, InBody
<1>2. /\ i \in Nat /\ act.floor \in Nat /\ act.base \in Nat /\ count \in Nat
      /\ act.base + i <= act.floor /\ act.env \in Envs
      /\ StackOK /\ count > 0 /\ Len(acts) \in 1 .. Len(acts)
  BY <1>1, RunningFacts DEF CallsInv
<1>3. \A j \in DOMAIN act.env : j \in Nat /\ j < i
  BY <1>2, Facts DEF act
<1>4. env \in Envs
  <2>1. PICK D \in SUBSET Nat : act.env \in [D -> Elements]
    BY <1>2 DEF Envs
  <2>2. Top \in Elements
    BY <1>2, TopIsElement
  <2>3. env \in [D \cup {i} -> Elements] /\ D \cup {i} \in SUBSET Nat
    BY <1>2, <2>1, <2>2
  <2> HIDE DEF env
  <2> QED BY <2>3 DEF Envs
<1>5. /\ DOMAIN env = DOMAIN act.env \cup {i} /\ env[i] = Top
      /\ \A j \in DOMAIN act.env : j # i => env[j] = act.env[j]
  OBVIOUS
<1>6. /\ i < i + 1 /\ act.floor <= act.floor + 1 /\ act.floor + 1 <= count
      /\ act.base + (i + 1) <= act.floor + 1 /\ act.next <= i + 1
      /\ i + 1 \in Nat /\ act.floor + 1 \in Nat
  BY <1>1, <1>2
<1> HIDE DEF env
<1> QED BY <1>1, <1>2, <1>4, <1>5, <1>6, LocalStep

LEMMA AssignStep ==
    ASSUME CallsInv, NEW i \in Nat, Assign(i)
    PROVE  CallsInv'
<1> DEFINE env == [act.env EXCEPT ![i] = Top]
<1>1. /\ HasOperand /\ Running /\ count > act.floor /\ SetLocal(i)
      /\ i \in DOMAIN act.env /\ SetAct([act EXCEPT !.env = env])
      /\ UNCHANGED <<count, len, gen, frames, ip, argc, cargc>>
  BY DEF Assign, HasOperand, InBody
<1>2. /\ act \in Activation
      /\ act.floor \in Nat /\ act.next \in Nat /\ count \in Nat
      /\ act.base + act.next <= act.floor /\ act.env \in Envs
      /\ StackOK /\ count > 0 /\ Len(acts) \in 1 .. Len(acts)
  BY <1>1, RunningFacts DEF CallsInv
<1>3. i < act.next
  BY <1>1, <1>2, Facts DEF act
<1>4. PICK D \in SUBSET Nat : act.env \in [D -> Elements]
  BY <1>2 DEF Envs
<1>5. /\ env \in [D -> Elements] /\ env[i] = Top
      /\ DOMAIN env = DOMAIN act.env \cup {i}
      /\ \A j \in DOMAIN act.env : j # i => env[j] = act.env[j]
  BY <1>1, <1>2, <1>4, TopIsElement
<1> HIDE DEF env
<1>6. env \in Envs
  BY <1>5 DEF Envs
<1>7. [act EXCEPT !.floor = act.floor, !.next = act.next, !.env = env]
          = [act EXCEPT !.env = env]
  BY <1>2 DEF Activation
<1>8. SetAct([act EXCEPT !.floor = act.floor, !.next = act.next,
                         !.env = env])
  BY <1>1, <1>7
<1>9. act.floor <= act.floor /\ act.floor <= count /\ act.next <= act.next
  BY <1>1, <1>2
<1> QED BY <1>1, <1>2, <1>3, <1>5, <1>6, <1>8, <1>9, LocalStep

LEMMA CallStep ==
    ASSUME CallsInv, ~ lost', NEW n \in Nat, Call(n)
    PROVE  CallsInv'
<1> DEFINE callee == cells[count - 1 - n]
<1>1. InBody /\ count - (n + 1) >= act.floor
  BY DEF Call
<1>2. CASE Fail
  BY <1>2, FailStep
<1>3. CASE callee \in Funs /\ ~ Full /\ Enter(callee, n)
  BY <1>1, <1>3, EnterStep
<1>4. CASE \E res \in Data : CallNative(n, res)
  BY <1>1, <1>4, CallNativeStep
<1> QED BY <1>2, <1>3, <1>4 DEF Call

-----------------------------------------------------------------------------
LEMMA CallsInit == Init => CallsInv
<1> SUFFICES ASSUME Init PROVE CallsInv
  OBVIOUS
<1>1. /\ cells = Fresh(STACK_SIZE) /\ count = 0 /\ len = STACK_SIZE
      /\ gen = 1 /\ old = [g \in {} |-> cells]
      /\ frames = <<>> /\ acts = <<>> /\ ip = Script
      /\ argc = 0 /\ cargc = 0
  BY DEF Init, StackInit
<1>2. STACK_SIZE \in Nat \ {0} /\ WORD \in Nat \ {0}
  BY ValueStackAssumption
<1>3. Size = STACK_SIZE /\ cells \in [0 .. Size - 1 -> Elements]
  <2>1. cells \in [0 .. STACK_SIZE - 1 -> Elements]
    BY <1>1, JunkIsElement DEF Fresh
  <2> QED BY <1>2, <2>1, ArraySize DEF Size
<1>4. old \in [1 .. gen - 1 -> Arrays]
  BY <1>1
<1>5. StackOK
  BY <1>1, <1>2, <1>3, <1>4 DEF StackOK
<1>6. Shapes
  BY <1>1, CallsAssumption DEF Shapes, Code
<1>7. Len(acts) = 0 /\ ~ Running
  BY <1>1 DEF Running
<1>8. Intact /\ CodeMatchesFrame /\ Unmoved /\ Prologue
  BY <1>7 DEF Intact, CodeMatchesFrame, Unmoved, Prologue
<1> QED BY <1>5, <1>6, <1>7, <1>8 DEF CallsInv

LEMMA ReuseStep ==
    ASSUME CallsInv, ReuseOld
    PROVE  CallsInv'
<1>1. /\ UNCHANGED <<cells, count, len, gen>>
      /\ UNCHANGED <<frames, ip, argc, cargc, acts>>
  BY DEF ReuseOld, Reuse
<1>2. old' \in [1 .. gen - 1 -> Arrays]
  <2>1. PICK g \in DOMAIN old :
            old' = [old EXCEPT ![g] = [i \in DOMAIN @ |-> Junk]]
    BY DEF ReuseOld, Reuse
  <2>2. DOMAIN old = 1 .. gen - 1 /\ old[g] \in Arrays
    BY <2>1 DEF CallsInv, StackOK
  <2>3. PICK n \in Nat : old[g] \in [0 .. n - 1 -> Elements]
    BY <2>2 DEF Arrays
  <2>4. [i \in DOMAIN old[g] |-> Junk] \in [0 .. n - 1 -> Elements]
    BY <2>3, JunkIsElement
  <2>5. [i \in DOMAIN old[g] |-> Junk] \in Arrays
    BY <2>4 DEF Arrays
  <2> QED BY <2>1, <2>2, <2>5 DEF CallsInv, StackOK
<1>3. StackOK'
  BY <1>1, <1>2 DEF CallsInv, StackOK, Size
<1>4. Shapes'
  BY <1>1 DEF CallsInv, Shapes
<1>5. \A k \in 1 .. Len(acts') : Nested(k)' /\ Linked(k)'
  BY <1>1 DEF CallsInv, Nested, Linked
<1>6. Prologue'
  BY <1>1 DEF CallsInv, Prologue, InPrologue, Moved, Source, act, frame, Running
<1>7. Intact' /\ CodeMatchesFrame'
  BY <1>1 DEF CallsInv, Intact, CodeMatchesFrame, frame, Running
<1>8. Unmoved'
  BY <1>1 DEF CallsInv, Unmoved, Holds, Read
<1> QED BY <1>3, <1>4, <1>5, <1>6, <1>7, <1>8 DEF CallsInv

LEMMA CallsNext ==
    ASSUME CallsInv, [Next]_vars, ~ lost'
    PROVE  CallsInv'
<1>1. 0 .. MAX_LOCALS \subseteq Nat /\ 0 .. MAX_DEPTH \subseteq Nat
  OBVIOUS
<1>2. CASE Interpret
  BY <1>2, InterpretStep
<1>3. ASSUME NEW v \in Values, Operand(v) PROVE CallsInv'
  BY <1>3, OperandStep
<1>4. CASE Discard
  BY <1>4, DiscardStep
<1>5. ASSUME NEW n \in 0 .. MAX_DEPTH, Call(n) PROVE CallsInv'
  BY <1>1, <1>5, CallStep
<1>6. CASE Param
  BY <1>6, ParamStep
<1>7. CASE Declare
  BY <1>7, DeclareStep
<1>8. ASSUME NEW i \in 0 .. MAX_LOCALS, Assign(i) PROVE CallsInv'
  BY <1>1, <1>8, AssignStep
<1>9. ASSUME NEW i \in 0 .. MAX_LOCALS, GetLocal(i) PROVE CallsInv'
  BY <1>1, <1>9, GetLocalStep
<1>10. CASE Return
  BY <1>10, ReturnStep
<1>11. CASE ReuseOld
  BY <1>11, ReuseStep
<1>12. CASE UNCHANGED vars
  BY <1>12
     DEF vars, stack, CallsInv, StackOK, Size, Shapes, Nested, Linked, Prologue,
         InPrologue, Moved, Source, Intact, CodeMatchesFrame,
         Unmoved, Holds, Read, act, frame, Running
<1> QED
  BY <1>2, <1>3, <1>4, <1>5, <1>6, <1>7, <1>8, <1>9, <1>10, <1>11,
     <1>12 DEF Next

LEMMA CallsTypes == CallsInv => TypeOK
<1> SUFFICES ASSUME CallsInv PROVE TypeOK
  OBVIOUS
<1>1. ASSUME NEW k \in 1 .. Len(frames)
      PROVE  /\ frames[k].gen \in 1 .. gen /\ frames[k].slots \in Nat
             /\ frames[k].closure \in Code /\ frames[k].ip_return \in Code
             /\ frames[k].return_index \in 0 .. BYTE - 1
  <2>1. k \in 1 .. Len(acts) /\ frames[k] \in Frame
    BY Facts
  <2> QED BY <2>1, Facts DEF CallsInv, Linked, Frame
<1>2. cells \in [0 .. Size - 1 -> Elements]
  BY DEF CallsInv, StackOK
<1>3. /\ Len(frames) <= FRAMES_MAX /\ Len(acts) = Len(frames)
      /\ ip \in Code /\ argc \in Nat /\ cargc \in Nat
  BY DEF CallsInv, Shapes
<1>4. count \in Nat /\ len \in Nat /\ gen \in Nat
  BY Facts DEF CallsInv, StackOK
<1> QED BY <1>1, <1>2, <1>3, <1>4, Zenon DEF TypeOK

LEMMA CallsTypesNext == (CallsInv => TypeOK)'
BY CallsTypes, PTL

-----------------------------------------------------------------------------
(* The last step that is followed, in which an index wraps: the types and  *)
(* the place of the instruction pointer survive it.                        *)
LEMMA PushTypes ==
    ASSUME StackOK, NEW n \in 0 .. count, NEW e \in Elements, PushAt(n, e)
    PROVE  /\ cells' \in [0 .. Size' - 1 -> Elements]
           /\ count' \in Nat /\ len' \in Nat
           /\ gen' = gen \/ gen' = gen + 1
<1>1. /\ Size \in Nat /\ count \in Nat /\ count <= Size /\ n \in Nat
      /\ n <= count /\ len \in Nat /\ gen \in Nat
      /\ cells \in [0 .. Size - 1 -> Elements]
      /\ WORD \in Nat \ {0} /\ STACK_SIZE \in Nat
  BY ValueStackAssumption DEF StackOK
<1>2. ASSUME NEW size \in Nat, NEW m \in 0 .. n,
             cells' = Extended(size, m, e)
      PROVE  cells' \in [0 .. Size' - 1 -> Elements]
  <2>1. Extended(size, m, e) \in [0 .. size - 1 -> Elements]
    BY <1>1, <1>2, JunkIsElement DEF Extended
  <2> QED BY <1>2, <2>1, ArraySize DEF Size
<1>3. (n + 1) % WORD \in Nat
  BY <1>1
<1>4. CASE n + 1 <= len
  BY <1>1, <1>2, <1>3, <1>4 DEF PushAt
<1>5. CASE ~ (n + 1 <= len) /\ len = 0
  BY <1>1, <1>2, <1>5 DEF PushAt, Retire
<1>6. CASE ~ (n + 1 <= len) /\ len # 0
  <2>1. PICK size \in Nat : size = len * INC
    BY <1>1 DEF INC
  <2>2. size % WORD \in Nat
    BY <1>1, <2>1
  <2> QED BY <1>1, <1>2, <1>3, <1>6, <2>1, <2>2 DEF PushAt, Retire
<1> QED BY <1>4, <1>5, <1>6

(* Frames that are the old ones, or a first part of them.                  *)
LEMMA TypesKept ==
    ASSUME CallsInv, NEW m \in 0 .. Len(frames), frames' \in Seq(Frame),
           Len(frames') = m, Len(acts') = m,
           \A k \in 1 .. m : frames'[k] = frames[k],
           cells' \in [0 .. Size' - 1 -> Elements],
           count' \in Nat, len' \in Nat, gen' = gen \/ gen' = gen + 1,
           ip' \in Code, argc' \in Nat, cargc' \in Nat,
           m > 0 => ip' = frames[m].closure
    PROVE  TypeOK' /\ CodeMatchesFrame'
<1>1. /\ gen \in Nat /\ gen' \in Nat /\ m \in Nat /\ m <= FRAMES_MAX
      /\ FRAMES_MAX \in Nat /\ Len(frames) \in Nat
  BY Facts, CallsAssumption DEF CallsInv, Shapes
<1>2. ASSUME NEW k \in 1 .. m
      PROVE  /\ frames'[k].gen \in 1 .. gen' /\ frames'[k].slots \in Nat
             /\ frames'[k].closure \in Code /\ frames'[k].ip_return \in Code
             /\ frames'[k].return_index \in 0 .. BYTE - 1
  <2>1. k \in 1 .. Len(acts)
    BY <1>1, Facts
  <2>2. /\ frames[k] \in Frame /\ frames[k].gen \in 1 .. gen
        /\ frames[k].return_index \in 0 .. BYTE - 1
    BY <2>1, Facts DEF CallsInv, Linked
  <2>3. frames[k].gen \in 1 .. gen'
    BY <1>1, <2>2
  <2> QED BY <2>2, <2>3 DEF Frame
<1>3. TypeOK'
  BY <1>1, <1>2 DEF TypeOK
<1>4. CodeMatchesFrame'
  <2> SUFFICES ASSUME frames' # <<>> PROVE ip' = frames'[m].closure
    BY DEF CodeMatchesFrame, Running, frame
  <2>1. m > 0
    BY <1>1
  <2> QED BY <1>1, <2>1
<1> QED BY <1>3, <1>4

LEMMA LostStep ==
    ASSUME CallsInv, Next, lost'
    PROVE  TypeOK' /\ CodeMatchesFrame'
<1> DEFINE L == Len(frames)
<1>1. /\ L \in Nat /\ L = Len(acts) /\ frames \in Seq(Frame)
      /\ ip \in Code /\ argc \in Nat /\ cargc \in Nat /\ StackOK
      /\ count \in Nat /\ ~ lost /\ L \in 0 .. L
      /\ L > 0 => ip = frames[L].closure
  BY Facts DEF CallsInv, Shapes, Next, CodeMatchesFrame, Running, frame
<1>2. ASSUME NEW n \in 0 .. count, NEW e \in Elements, PushAt(n, e),
             UNCHANGED <<frames, acts, ip>>, argc' \in Nat, cargc' \in Nat
      PROVE  TypeOK' /\ CodeMatchesFrame'
  BY <1>1, <1>2, PushTypes, TypesKept
<1>3. ASSUME NEW v \in Values, Operand(v)
      PROVE  TypeOK' /\ CodeMatchesFrame'
  BY <1>1, <1>2, <1>3, JunkIsElement DEF Operand, Push
<1>4. ASSUME NEW i \in Nat, GetLocal(i)
      PROVE  TypeOK' /\ CodeMatchesFrame'
  <2>1. InBody /\ i \in DOMAIN act.env /\ Running
    BY <1>4 DEF GetLocal, InBody
  <2>2. Read(frame.gen, frame.slots + i) \in Elements
    <3>1. frames[Len(acts)].slots + i \in 0 .. Size - 1
      BY <2>1, Places, RunningFacts DEF act
    <3>2. frame = frames[Len(acts)] /\ Size \in Nat
      BY <2>1, Facts DEF frame
    <3>3. frame.slots + i \in Nat /\ frame.slots + i < Size
      BY <3>1, <3>2
    <3> QED BY <1>1, <2>1, <3>3, RunningFacts, ReadIsElement
  <2> QED BY <1>1, <1>2, <1>4, <2>2 DEF GetLocal, Push
<1>5. ASSUME NEW n \in Nat, Call(n)
      PROVE  TypeOK' /\ CodeMatchesFrame'
  <2>1. ~ Fail /\ \A f : ~ Enter(f, n)
    BY <1>1 DEF Fail, Enter, stack
  <2>2. PICK res \in Data : CallNative(n, res)
    BY <1>5, <2>1 DEF Call
  <2>3. InBody /\ Running /\ count - (n + 1) >= act.floor
    BY <1>5 DEF Call, InBody
  <2>4. count - (n + 1) \in 0 .. count
    BY <1>1, <2>3, RunningFacts
  <2> QED
    BY <1>2, <2>2, <2>4, JunkIsElement DEF CallNative, Values
<1>6. CASE Return
  <2>1. /\ InBody /\ Running /\ L > 0 /\ L # 1 /\ L \in 1 .. Len(acts)
        /\ count > act.base /\ act.base \in Nat
        /\ frames' = SubSeq(frames, 1, L - 1) /\ acts' = SubSeq(acts, 1, L - 1)
        /\ frame = frames[L] /\ act = acts[L] /\ acts \in Seq(Activation)
        /\ argc' = argc /\ cargc' = cargc
    BY <1>1, <1>6, Facts, RunningFacts
       DEF Return, InBody, DropLast, Pop, frame, act, CallsInv, Shapes
  <2>2. PushAt(frame.return_index, Top) /\ ip' = frame.ip_return
    BY <1>6, <2>1 DEF Return, Resume
  <2>3. Linked(L)
    BY <2>1 DEF CallsInv
  <2>4. frame.return_index = act.base % BYTE /\ ip' = frames[L - 1].closure
    BY <1>1, <2>1, <2>2, <2>3 DEF Linked
  <2>5. frame.return_index \in 0 .. count
    <3>1. PICK b \in Nat : b = act.base
      BY <2>1
    <3>2. b % BYTE \in Nat /\ b % BYTE <= b
      BY CallsAssumption
    <3> QED BY <1>1, <2>1, <2>4, <3>1, <3>2
  <2>6. Top \in Elements
    BY <1>1, <2>1, TopIsElement
  <2>7. /\ frames' \in Seq(Frame) /\ Len(frames') = L - 1
        /\ Len(acts') = L - 1 /\ L - 1 \in 0 .. L
        /\ \A k \in 1 .. L - 1 : frames'[k] = frames[k]
    BY <1>1, <2>1
  <2>8. ip' \in Code
    BY <2>1, <2>2, Facts DEF Frame
  <2>9. L - 1 \in 0 .. Len(frames)
    BY <2>7
  <2> HIDE DEF L
  <2> QED
    BY <1>1, <2>1, <2>2, <2>4, <2>5, <2>6, <2>7, <2>8, <2>9, PushTypes,
       TypesKept
<1>7. CASE Interpret
  <2> DEFINE f == [closure |-> Script, gen |-> gen, slots |-> 0,
                   ip_return |-> Script, return_index |-> (count - 1) % BYTE]
  <2>1. /\ PushAt(count, Script) /\ frames' = <<f>> /\ ip' = Script
        /\ Len(acts') = 1 /\ argc' = argc /\ cargc' = cargc
    BY <1>7 DEF Interpret, Push
  <2>2. Script \in Elements /\ BYTE \in Nat /\ BYTE > 0 /\ FRAMES_MAX >= 1
    BY CallsAssumption DEF Elements
  <2>3. /\ cells' \in [0 .. Size' - 1 -> Elements]
        /\ count' \in Nat /\ len' \in Nat
        /\ gen' = gen \/ gen' = gen + 1
    BY <1>1, <2>1, <2>2, PushTypes
  <2>4. gen \in Nat /\ gen > 0
    BY Facts
  <2>5. /\ f.closure = Script /\ f.gen = gen /\ f.slots = 0
        /\ f.ip_return = Script /\ f.return_index \in 0 .. BYTE - 1
    BY <1>1, <2>2
  <2> HIDE DEF f
  <2>6. Len(frames') = 1 /\ frames'[1] = f
    BY <2>1
  <2>7. TypeOK'
    BY <1>1, <2>1, <2>2, <2>3, <2>4, <2>5, <2>6 DEF TypeOK, Code
  <2>8. CodeMatchesFrame'
    BY <2>1, <2>5, <2>6 DEF CodeMatchesFrame, frame
  <2> QED BY <2>7, <2>8
<1>8. /\ ~ Discard /\ ~ Param /\ ~ Declare /\ ~ ReuseOld
      /\ \A i : ~ Assign(i)
  BY <1>1 DEF Discard, Pop, Param, Declare, ReuseOld, Reuse, Assign
<1>9. 0 .. MAX_LOCALS \subseteq Nat /\ 0 .. MAX_DEPTH \subseteq Nat
  OBVIOUS
<1> QED BY <1>3, <1>4, <1>5, <1>6, <1>7, <1>8, <1>9 DEF Next

-----------------------------------------------------------------------------
(* The invariant of the specification.                                     *)
Inv == TypeOK /\ CodeMatchesFrame /\ (~ lost => CallsInv)

LEMMA InvInit == Init => Inv
BY CallsInit, CallsTypes DEF Inv, CallsInv

LEMMA InvNext == Inv /\ [Next]_vars => Inv'
<1> SUFFICES ASSUME Inv, [Next]_vars PROVE Inv'
  OBVIOUS
<1>1. CASE UNCHANGED vars
  <2>1. TypeOK' /\ CodeMatchesFrame' /\ lost' = lost
    BY <1>1 DEF Inv, vars, stack, TypeOK, CodeMatchesFrame, Size, Running,
                frame
  <2>2. ~ lost' => CallsInv'
    BY <2>1, CallsNext DEF Inv
  <2> QED BY <2>1, <2>2 DEF Inv
<1>2. CASE Next
  <2>1. CallsInv
    BY <1>2 DEF Inv, Next
  <2>2. CASE lost'
    BY <1>2, <2>1, <2>2, LostStep DEF Inv
  <2>3. CASE ~ lost'
    <3>1. CallsInv'
      BY <1>2, <2>1, <2>3, CallsNext
    <3>2. TypeOK'
      BY <3>1, CallsTypesNext
    <3> QED BY <3>1, <3>2 DEF Inv, CallsInv
  <2> QED BY <2>2, <2>3
<1> QED BY <1>1, <1>2

LEMMA InvImplies ==
    Inv => TypeOK /\ CallerIntact /\ LocalsKeptUnmoved /\ CodeMatchesFrame
BY DEF Inv, CallsInv, CallerIntact, LocalsKeptUnmoved

(* No write of the machine goes behind the array it is made to, there are  *)
(* never more frames than machine.frames has, and indexes that wrap leave  *)
(* the state well typed.                                                   *)
THEOREM CallsTypeCorrect == Spec => []TypeOK
BY InvInit, InvNext, InvImplies, PTL DEF Spec

(* No call, return or local of any activation touches what its callers     *)
(* keep on the stack, at any depth, until a return is cut by a byte that   *)
(* has wrapped or the stack outgrows its 16-bit length.                    *)
THEOREM CallsKeepCaller == Spec => []CallerIntact
BY InvInit, InvNext, InvImplies, PTL DEF Spec

(* A local keeps the value it was given, whatever is called in between,    *)
(* until the array is replaced while its frame still points into the old.  *)
THEOREM CallsKeepLocals == Spec => []LocalsKeptUnmoved
BY InvInit, InvNext, InvImplies, PTL DEF Spec

(* The instruction pointer stays in the code of the running closure, at    *)
(* every depth.                                                            *)
THEOREM CallsKeepCode == Spec => []CodeMatchesFrame
BY InvInit, InvNext, InvImplies, PTL DEF Spec

(* The result of a return.                                                 *)
LEMMA ReturnFacts ==
    ASSUME CallsInv, Return, Len(frames) > 1
    PROVE  /\ ip' = act.site
           /\ len = Size => /\ count' = (act.base % BYTE) + 1
                            /\ cells'[act.base % BYTE] = Top
<1>1. /\ InBody /\ Running /\ count > act.base /\ act.base \in Nat
      /\ Len(acts) \in 1 .. Len(acts) /\ Len(frames) = Len(acts)
  BY Facts, RunningFacts DEF Return, InBody
<1>2. Linked(Len(acts))
  BY <1>1 DEF CallsInv
<1>3. /\ frame.return_index = act.base % BYTE
      /\ frame.ip_return = act.site
  BY <1>1, <1>2 DEF Linked, frame, act
<1>4. PushAt(act.base % BYTE, Top) /\ ip' = act.site
  BY <1>1, <1>3 DEF Return, Resume
<1>5. PICK n \in Nat : n = act.base % BYTE /\ n <= act.base
  <2>1. PICK b \in Nat : b = act.base
    BY <1>1
  <2>2. b % BYTE \in Nat /\ b % BYTE <= b
    BY CallsAssumption
  <2> QED BY <2>1, <2>2
<1>6. ASSUME len = Size
      PROVE  count' = n + 1 /\ cells'[n] = Top
  <2>1. /\ count \in Nat /\ Size \in Nat /\ count <= Size /\ count < WORD
        /\ WORD \in Nat
    BY ValueStackAssumption DEF CallsInv, StackOK
  <2>2. n + 1 <= len /\ (n + 1) % WORD = n + 1 /\ n \in 0 .. Size - 1
    BY <1>1, <1>5, <1>6, <2>1
  <2>3. cells' = Extended(Size, n, Top) /\ count' = n + 1
    BY <1>4, <1>5, <2>2 DEF PushAt
  <2> QED BY <2>2, <2>3 DEF Extended
<1> QED BY <1>4, <1>5, <1>6

(* Every return resumes behind its call, and leaves the stack as the call  *)
(* found it with the result in place of the callee and its arguments,      *)
(* modulo the width of return_index.                                       *)
THEOREM CallsReturn == Spec => ReturnRestores
<1>1. Inv /\ [Next]_vars => Inv'
  BY InvNext
<1>2. Inv /\ [Next]_vars => [Returns]_vars
  <2> SUFFICES ASSUME CallsInv, Next, Len(frames) > 1,
                      Len(frames') = Len(frames) - 1, Running'
               PROVE  Return
    BY ReturnFacts DEF Returns, Inv, Next
  <2>1. frames' # frames /\ frames' # <<>> /\ frames \in Seq(Frame)
    BY DEF CallsInv, Shapes, Running
  <2>2. ASSUME NEW n, Call(n) PROVE FALSE
    <3>1. \A f : Len(Append(frames, f)) # Len(frames) - 1
      BY <2>1
    <3> QED BY <2>1, <2>2, <3>1 DEF Call, Fail, Enter, CallNative
  <2>3. ~ Interpret
    BY DEF Interpret, Running
  <2> QED
    BY <2>1, <2>2, <2>3
       DEF Next, Operand, Discard, Param, Declare, Assign, GetLocal, ReuseOld
<1> QED BY <1>1, <1>2, InvInit, PTL DEF Spec, ReturnRestores
=============================================================================
