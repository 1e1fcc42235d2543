---------------------------- MODULE ObjectsProofs ----------------------------
(***************************************************************************)
(* Proofs about Objects for every set of classes, names and data and every *)
(* bound.  The inductive invariant says who owns each table, how the open  *)
(* constructions of the activations are stacked on init_field, and, as     *)
(* long as the program is legal, where each operand of each activation     *)
(* lies and which table it leads to.                                       *)
(***************************************************************************)
EXTENDS Objects, SequenceTheorems, TLAPS

Code       == Names \cup {"script"}
Cell       == {Datum(y) : y \in Data} \cup {Obj(i) : i \in Nat}
              \cup {Fn(y) : y \in Code}
Frame      == [closure : Code, return_index : Nat]
Ctor       == [at : Nat, of : Classes, tab : Nat]
Operation  == [to : Nat, held : BOOLEAN]
Activation == [self : Nat, built : BOOLEAN, alloc : BOOLEAN,
               ctors : Seq(Ctor), ops : Seq(Operation), short : BOOLEAN,
               floor : Nat, below : Nat]
Tables     == UNION {[D -> Cell] : D \in SUBSET Names}
Instances   == [class : Classes, fields : Nat]

Types ==
    /\ stack \in Seq(Cell) /\ frames \in Seq(Frame)
    /\ acts \in Seq(Activation) /\ Len(frames) = Len(acts)
    /\ init_field \in Seq(Nat) /\ tables \in Seq(Tables)
    /\ objs \in Seq(Instances)
    /\ caller \in 0 .. Len(objs) /\ looked \in Nat /\ legal \in BOOLEAN

(* Values refer to objects that exist.                                     *)
Sound(v) == IsObj(v) => v[2] \in 1 .. Len(objs)
Known ==
    /\ \A i \in 1 .. Len(stack) : Sound(stack[i])
    /\ \A t \in 1 .. Len(tables) : \A p \in DOMAIN tables[t] :
          Sound(tables[t][p])

Owned ==
    /\ \A i \in 1 .. Len(init_field) : init_field[i] \in 1 .. Len(tables)
    /\ \A i \in 1 .. Len(objs) : objs[i].fields \in 1 .. Len(tables)
    /\ \A i, j \in 1 .. Len(init_field) :
          init_field[i] = init_field[j] => i = j
    /\ \A i, j \in 1 .. Len(objs) : objs[i].fields = objs[j].fields => i = j
    /\ \A i \in 1 .. Len(init_field), j \in 1 .. Len(objs) :
          init_field[i] # objs[j].fields

(* One activation a, whose elements are those from b + 1 to e of the stack *)
(* s, over the objects ob and the table stack f.                           *)
Missing(a) == IF a.short THEN 1 ELSE 0
Opening(a) == IF a.ctors = <<>> THEN 0 ELSE a.ctors[Len(a.ctors)].at
Upper(a)   == a.below + Len(a.ctors)

(* Construction j is the innermost that operand i belongs to.              *)
Inner(a, i, j) ==
    /\ j = 0 \/ a.ctors[j].at <= i
    /\ j = Len(a.ctors) \/ a.ctors[j + 1].at > i

OpFits(a, op, i, v, ob, f) ==
    /\ ~ op.held /\ IsObj(v) => ob[v[2]].fields = op.to
    /\ op.held => /\ op.to = a.self
                  /\ \/ a.below > 0
                     \/ \E j \in 1 .. Len(a.ctors) : a.ctors[j].at <= i
    /\ ~ op.held /\ IsFn(v) /\ op.to # 0 =>
          \A j \in 0 .. Len(a.ctors) :
             Inner(a, i, j) /\ a.below + j > 0 => op.to = f[a.below + j]

Placed(a, b, e, lk) ==
    /\ e >= b + 1 + Len(a.ops) - Missing(a)
    /\ a.short => a.below > 0 /\ lk = 0

Nests(a, f) ==
    /\ Upper(a) <= Len(f)
    /\ \A j \in 1 .. Len(a.ctors) :
          f[a.below + j] = a.ctors[j].tab /\ a.ctors[j].at >= 1
    /\ \A i, j \in 1 .. Len(a.ctors) :
          i < j => a.ctors[i].at < a.ctors[j].at
    /\ a.below > 0 /\ a.self # 0 => a.self = f[a.below]

Holds(a, e, s, ob, f) ==
    \A i \in 1 .. Len(a.ops) :
       OpFits(a, a.ops[i], i, s[e - Len(a.ops) + i], ob, f)

Fits(a, b, e, s, ob, f, lk) ==
    Placed(a, b, e, lk) /\ Nests(a, f) /\ Holds(a, e, s, ob, f)

(* The activations together.                                               *)
Base(k) == frames[k].return_index
End(k)  == IF k = Len(acts) THEN Len(stack) ELSE Base(k + 1)

Stacked ==
    /\ Len(init_field) = Upto(Len(acts))
    /\ \A k \in 1 .. Len(acts) :
          /\ acts[k].below = Upto(k - 1)
          /\ acts[k].below > 0 <=> \E j \in 1 .. k - 1 : acts[j].ctors # <<>>
          /\ \A j \in 1 .. k - 1 : /\ Upper(acts[j]) <= acts[k].below
                                   /\ Base(j) <= Base(k)

Opened ==
    \A k \in 1 .. Len(acts) - 1 :
       /\ ~ acts[k].alloc
       /\ IF acts[k + 1].built
          THEN /\ acts[k].ctors # <<>>
               /\ Len(acts[k].ops) = Opening(acts[k]) - 1
          ELSE Opening(acts[k]) <= Len(acts[k].ops)

(* The top activation; after a return from a constructor its operand is no *)
(* receiver of a property.                                                 *)
Ready(a, s) ==
    /\ a.short => a.ops # <<>>
    /\ Opening(a) <= Len(a.ops)
    /\ a.alloc => /\ a.ctors # <<>> /\ Len(a.ops) = Opening(a)
                  /\ ~ a.ops[Len(a.ops)].held
                  /\ IsFn(s[Len(s)]) => a.ops[Len(a.ops)].to = 0

AllFit ==
    \A k \in 1 .. Len(acts) :
       Fits(acts[k], Base(k), End(k), stack, objs, init_field, looked)

Called ==
    IF looked = 0 THEN caller = 0
    ELSE caller \in 1 .. Len(objs) /\ objs[caller].fields = looked

Deep == /\ Stacked /\ Opened /\ AllFit
        /\ Running => Ready(act, stack)

ObjectsInv == /\ Types /\ Known /\ Owned
              /\ legal => Deep /\ Called

-----------------------------------------------------------------------------
(* Sequences and values                                                    *)

LEMMA Cut ==
    ASSUME NEW S, NEW s \in Seq(S), NEW n \in 0 .. Len(s)
    PROVE  /\ Without(s, n) \in Seq(S)
           /\ Len(Without(s, n)) = Len(s) - n
           /\ \A i \in 1 .. Len(s) - n : Without(s, n)[i] = s[i]
<1>1. Len(s) \in Nat /\ Len(s) - n \in Int /\ 1 \in Int
  OBVIOUS
<1>2. \A i \in 1 .. Len(s) - n : s[i] \in S
  BY ElementOfSeq
<1>3. /\ SubSeq(s, 1, Len(s) - n) \in Seq(S)
      /\ Len(SubSeq(s, 1, Len(s) - n)) =
            IF 1 <= Len(s) - n THEN Len(s) - n - 1 + 1 ELSE 0
      /\ \A i \in 1 .. Len(s) - n - 1 + 1 :
            SubSeq(s, 1, Len(s) - n)[i] = s[1 + i - 1]
  BY <1>1, <1>2, SubSeqProperties
<1> QED BY <1>1, <1>3 DEF Without

LEMMA CutPush ==
    ASSUME NEW S, NEW s \in Seq(S), NEW n \in 0 .. Len(s), NEW v \in S
    PROVE  /\ Append(Without(s, n), v) \in Seq(S)
           /\ Len(Append(Without(s, n), v)) = Len(s) - n + 1
           /\ \A i \in 1 .. Len(s) - n : Append(Without(s, n), v)[i] = s[i]
           /\ Append(Without(s, n), v)[Len(s) - n + 1] = v
<1>1. /\ Without(s, n) \in Seq(S)
      /\ Len(Without(s, n)) = Len(s) - n
      /\ \A i \in 1 .. Len(s) - n : Without(s, n)[i] = s[i]
  BY Cut
<1> QED BY <1>1

LEMMA FrontIsCut ==
    ASSUME NEW S, NEW s \in Seq(S), s # <<>>
    PROVE  /\ Front(s) = Without(s, 1) /\ 1 \in 0 .. Len(s)
           /\ Last(s) = s[Len(s)] /\ s[Len(s)] \in S
<1>1. Len(s) \in Nat \ {0}
  BY EmptySeq
<1>2. s[Len(s)] \in S
  BY <1>1, ElementOfSeq
<1> QED BY <1>1, <1>2 DEF Front, Last, Without

LEMMA CellKinds ==
    /\ \A i \in Nat : Obj(i) \in Cell /\ IsObj(Obj(i)) /\ ~ IsFn(Obj(i))
                      /\ Obj(i)[2] = i
    /\ \A y \in Code : Fn(y) \in Cell /\ ~ IsObj(Fn(y))
    /\ \A y \in Data : Datum(y) \in Cell /\ ~ IsObj(Datum(y))
                       /\ ~ IsFn(Datum(y))
    /\ \A v \in Cell : IsObj(v) => v = Obj(v[2]) /\ v[2] \in Nat
    /\ \A v \in Cell : IsFn(v) => ~ IsObj(v) /\ v[2] \in Code
BY DEF Cell, Obj, Fn, Datum, IsObj, IsFn

LEMMA TopIs ==
    ASSUME Types, Running
    PROVE  /\ Len(acts) \in Nat \ {0} /\ acts # <<>>
           /\ act = acts[Len(acts)] /\ act \in Activation
           /\ frame = frames[Len(acts)] /\ frame \in Frame
           /\ Base(Len(acts)) = frame.return_index
           /\ frame.return_index \in Nat
<1>1. Len(frames) \in Nat \ {0} /\ Len(acts) = Len(frames)
  BY EmptySeq DEF Types, Running
<1>2. acts # <<>>
  BY <1>1
<1>3. /\ act = acts[Len(acts)] /\ act \in Activation
  BY <1>2, FrontIsCut DEF Types, act
<1>4. frame = frames[Len(acts)] /\ frame \in Frame
  BY <1>1, FrontIsCut DEF Types, frame, Running
<1> QED BY <1>1, <1>2, <1>3, <1>4 DEF Base, Frame

(* A step of the top activation leaves the others alone.                   *)
LEMMA TopWritten ==
    ASSUME Types, Running, NEW a \in Activation,
           acts' = [acts EXCEPT ![Len(acts)] = a]
    PROVE  /\ acts' \in Seq(Activation) /\ Len(acts') = Len(acts)
           /\ acts'[Len(acts)] = a
           /\ \A k \in 1 .. Len(acts) - 1 : acts'[k] = acts[k]
<1>1. Len(acts) \in 1 .. Len(acts) /\ acts \in Seq(Activation)
  BY TopIs DEF Types
<1> QED BY <1>1, ExceptSeq

-----------------------------------------------------------------------------
(* One activation                                                          *)

LEMMA Sizes ==
    ASSUME NEW a \in Activation
    PROVE  /\ a.ops \in Seq(Operation) /\ Len(a.ops) \in Nat
           /\ a.ctors \in Seq(Ctor) /\ Len(a.ctors) \in Nat
           /\ a.below \in Nat /\ a.self \in Nat
BY LenProperties DEF Activation

(* Its operands lie on its own part of the stack.                          *)
LEMMA Sites ==
    ASSUME NEW a \in Activation, NEW b \in Nat, NEW e \in Nat, NEW lk,
           Placed(a, b, e, lk)
    PROVE  /\ \A i \in 1 .. Len(a.ops) : e - Len(a.ops) + i \in b + 1 .. e
           /\ e - Len(a.ops) >= b
<1>1. PICK w \in Nat : w = Len(a.ops)
  BY Sizes
<1>2. e >= b + 1 + w - Missing(a)
  BY <1>1 DEF Placed
<1>3. Missing(a) \in {0, 1}
  BY DEF Missing
<1>4. e - w >= b
  BY <1>2, <1>3
<1>5. \A i \in 1 .. w : e - w + i \in b + 1 .. e
  BY <1>4
<1> QED BY <1>1, <1>4, <1>5

(* It keeps when what it stands on is kept.                                *)
Kept(a, b, e, s, ob, f, lk, s2, ob2, f2, lk2) ==
    /\ \A i \in b + 1 .. e : s2[i] = s[i]
    /\ \A i \in b + 1 .. e : IsObj(s[i]) => s[i][2] \in 1 .. Len(ob)
    /\ \A i \in 1 .. Len(ob) : ob2[i] = ob[i]
    /\ Len(f2) >= Upper(a) /\ \A i \in 1 .. Upper(a) : f2[i] = f[i]
    /\ a.below > 0 => lk2 = lk

LEMMA FitMove ==
    ASSUME NEW a \in Activation, NEW b \in Nat, NEW e \in Nat,
           NEW s, NEW ob, NEW f, NEW lk,
           NEW s2, NEW ob2, NEW f2, NEW lk2,
           Fits(a, b, e, s, ob, f, lk),
           Kept(a, b, e, s, ob, f, lk, s2, ob2, f2, lk2)
    PROVE  Fits(a, b, e, s2, ob2, f2, lk2)
<1>0. /\ a.ops \in Seq(Operation) /\ Len(a.ops) \in Nat
      /\ a.ctors \in Seq(Ctor) /\ Len(a.ctors) \in Nat /\ a.below \in Nat
  BY Sizes
<1>k. Kept(a, b, e, s, ob, f, lk, s2, ob2, f2, lk2)
  OBVIOUS
<1>e. \A j \in 0 .. Len(a.ctors) :
         a.below + j > 0 => f2[a.below + j] = f[a.below + j]
  <2>1. PICK u \in Nat : u = a.below
    BY <1>0
  <2>2. PICK v \in Nat : v = Len(a.ctors)
    BY <1>0
  <2>3. \A i \in 1 .. u + v : f2[i] = f[i]
    BY <1>k, <2>1, <2>2 DEF Kept, Upper
  <2>4. \A j \in 0 .. v : u + j > 0 => f2[u + j] = f[u + j]
    BY <2>3
  <2> QED BY <2>1, <2>2, <2>4
<1>f. a.below > 0 => f2[a.below] = f[a.below]
  BY <1>0, <1>e, a.below + 0 = a.below
<1>1. Placed(a, b, e, lk2)
  BY <1>k DEF Kept, Fits, Placed
<1>2. Nests(a, f2)
  <2>1. Nests(a, f)
    BY DEF Fits
  <2>2. ASSUME NEW j \in 1 .. Len(a.ctors)
        PROVE  f2[a.below + j] = f[a.below + j]
    <3>1. j \in 0 .. Len(a.ctors) /\ a.below + j > 0
      BY <1>0
    <3> QED BY <1>e, <3>1
  <2>3. a.below > 0 => f2[a.below] = f[a.below]
    BY <1>f
  <2>4. Upper(a) <= Len(f2)
    BY <1>k DEF Kept
  <2> QED BY <2>1, <2>2, <2>3, <2>4 DEF Nests
<1>3. ASSUME NEW i \in 1 .. Len(a.ops)
      PROVE  OpFits(a, a.ops[i], i, s2[e - Len(a.ops) + i], ob2, f2)
  <2>1. OpFits(a, a.ops[i], i, s[e - Len(a.ops) + i], ob, f)
    BY DEF Fits, Holds
  <2>2. PICK q : q = e - Len(a.ops) + i
    OBVIOUS
  <2>3. q \in b + 1 .. e
    BY <2>2, Sites DEF Fits
  <2>4. s2[q] = s[q] /\ (IsObj(s[q]) => ob2[s[q][2]] = ob[s[q][2]])
    BY <1>k, <2>3 DEF Kept
  <2> QED BY <1>e, <2>1, <2>2, <2>4 DEF OpFits
<1> QED BY <1>1, <1>2, <1>3 DEF Fits, Holds

(* The operands above are popped.                                          *)
LEMMA FitCut ==
    ASSUME NEW a \in Activation, NEW b \in Nat, NEW e \in Nat,
           NEW s, NEW ob, NEW f, NEW lk, NEW s2, NEW n \in 0 .. Len(a.ops),
           Fits(a, b, e, s, ob, f, lk),
           \A i \in b + 1 .. e - n : s2[i] = s[i]
    PROVE  /\ Fits([a EXCEPT !.ops = Without(@, n)], b, e - n, s2, ob, f, lk)
           /\ [a EXCEPT !.ops = Without(@, n)] \in Activation
           /\ e - n \in Nat
<1>0. /\ a.ops \in Seq(Operation) /\ Len(a.ops) \in Nat
      /\ a.ctors \in Seq(Ctor) /\ Len(a.ctors) \in Nat /\ a.below \in Nat
  BY Sizes
<1>a. PICK o : o = Without(a.ops, n)
  OBVIOUS
<1>b. /\ o \in Seq(Operation) /\ Len(o) = Len(a.ops) - n
      /\ \A i \in 1 .. Len(a.ops) - n : o[i] = a.ops[i]
  BY <1>0, <1>a, Cut
<1>c. PICK r : r = [a EXCEPT !.ops = o]
  OBVIOUS
<1>d. /\ r \in Activation /\ r.ops = o /\ r.ctors = a.ctors
      /\ r.below = a.below /\ r.self = a.self /\ r.short = a.short
  BY <1>b, <1>c DEF Activation
<1>p. PICK w \in Nat : w = Len(a.ops)
  BY <1>0
<1>q. Len(r.ops) = w - n /\ n \in 0 .. w
  BY <1>b, <1>d, <1>p
<1>r. e - w >= b /\ Placed(a, b, e, lk)
  BY <1>p, Sites DEF Fits
<1>1. Placed(r, b, e - n, lk)
  <2>1. e >= b + 1 + w - Missing(a) /\ Missing(a) \in {0, 1}
    BY <1>r, <1>p DEF Placed, Missing
  <2>2. e - n >= b + 1 + (w - n) - Missing(a)
    BY <1>q, <2>1
  <2> QED BY <1>d, <1>q, <1>r, <2>2 DEF Placed, Missing
<1>2. Nests(r, f)
  BY <1>d DEF Fits, Nests, Upper
<1>3. ASSUME NEW i \in 1 .. Len(r.ops)
      PROVE  OpFits(r, r.ops[i], i, s2[e - n - Len(r.ops) + i], ob, f)
  <2>0. i \in 1 .. w - n
    BY <1>q
  <2>1. i \in 1 .. Len(a.ops) /\ r.ops[i] = a.ops[i]
    BY <1>b, <1>d, <1>p, <1>q, <2>0
  <2>2. OpFits(a, a.ops[i], i, s[e - Len(a.ops) + i], ob, f)
    BY <2>1 DEF Fits, Holds
  <2>3. e - n - Len(r.ops) + i = e - w + i
    BY <1>q, <2>0
  <2>4. e - w + i \in b + 1 .. e - n
    BY <1>q, <1>r, <2>0
  <2>5. s2[e - w + i] = s[e - w + i]
    BY <2>4
  <2> QED BY <1>d, <1>p, <2>1, <2>2, <2>3, <2>5 DEF OpFits, Inner
<1>4. e - n \in Nat
  BY <1>q, <1>r
<1>5. Fits(r, b, e - n, s2, ob, f, lk)
  BY <1>1, <1>2, <1>3 DEF Fits, Holds
<1> QED BY <1>a, <1>c, <1>d, <1>4, <1>5

(* An operand is pushed.                                                   *)
LEMMA FitPush ==
    ASSUME NEW a \in Activation, NEW b \in Nat, NEW e \in Nat,
           NEW s, NEW ob, NEW f, NEW lk, NEW s2, NEW op \in Operation,
           Fits(a, b, e, s, ob, f, lk),
           \A i \in b + 1 .. e : s2[i] = s[i],
           OpFits(a, op, Len(a.ops) + 1, s2[e + 1], ob, f)
    PROVE  /\ Fits([a EXCEPT !.ops = Append(@, op)],
                   b, e + 1, s2, ob, f, lk)
           /\ [a EXCEPT !.ops = Append(@, op)] \in Activation
<1>0. /\ a.ops \in Seq(Operation) /\ Len(a.ops) \in Nat
      /\ a.ctors \in Seq(Ctor) /\ Len(a.ctors) \in Nat /\ a.below \in Nat
  BY Sizes
<1>a. PICK o : o = Append(a.ops, op)
  OBVIOUS
<1>b. /\ o \in Seq(Operation) /\ Len(o) = Len(a.ops) + 1
      /\ \A i \in 1 .. Len(a.ops) : o[i] = a.ops[i]
      /\ o[Len(a.ops) + 1] = op
  BY <1>0, <1>a
<1>c. PICK r : r = [a EXCEPT !.ops = o]
  OBVIOUS
<1>d. /\ r \in Activation /\ r.ops = o /\ r.ctors = a.ctors
      /\ r.below = a.below /\ r.self = a.self /\ r.short = a.short
  BY <1>b, <1>c DEF Activation
<1>p. PICK w \in Nat : w = Len(a.ops)
  BY <1>0
<1>x. PICK x \in Nat : x = e + 1
  OBVIOUS
<1>q. Len(r.ops) = w + 1
  BY <1>b, <1>d, <1>p
<1>r. e - w >= b /\ Placed(a, b, e, lk)
  BY <1>p, Sites DEF Fits
<1>1. Placed(r, b, e + 1, lk)
  <2>1. e >= b + 1 + w - Missing(a) /\ Missing(a) \in {0, 1}
    BY <1>r, <1>p DEF Placed, Missing
  <2>2. e + 1 >= b + 1 + (w + 1) - Missing(a)
    BY <2>1
  <2> QED BY <1>d, <1>q, <1>r, <2>2 DEF Placed, Missing
<1>2. Nests(r, f)
  BY <1>d DEF Fits, Nests, Upper
<1>3. ASSUME NEW i \in 1 .. Len(r.ops)
      PROVE  OpFits(r, r.ops[i], i, s2[x - Len(r.ops) + i], ob, f)
  <2>0. i \in 1 .. w + 1
    BY <1>q
  <2>3. x - Len(r.ops) + i = e - w + i
    BY <1>q, <1>x, <2>0
  <2>1. CASE i \in 1 .. w
    <3>1. r.ops[i] = a.ops[i]
      BY <2>1, <1>b, <1>d, <1>p
    <3>2. OpFits(a, a.ops[i], i, s[e - w + i], ob, f)
      BY <1>p, <2>1 DEF Fits, Holds
    <3>4. e - w + i \in b + 1 .. e
      BY <1>r, <2>1
    <3>5. s2[e - w + i] = s[e - w + i]
      BY <3>4
    <3> QED BY <1>d, <1>p, <3>1, <3>2, <2>3, <3>5 DEF OpFits, Inner
  <2>2. CASE i = w + 1
    <3>0. e - w + i = e + 1
      BY <2>2
    <3>1. r.ops[i] = op /\ e - w + i = e + 1
      BY <1>b, <1>d, <1>p, <2>2, <3>0
    <3> QED BY <1>d, <1>p, <2>2, <2>3, <3>1 DEF OpFits, Inner
  <2> QED BY <2>0, <2>1, <2>2
<1>5. Holds(r, x, s2, ob, f)
  BY <1>3 DEF Holds
<1>4. Fits(r, b, e + 1, s2, ob, f, lk)
  BY <1>x, <1>1, <1>2, <1>5 DEF Fits
<1> QED BY <1>a, <1>c, <1>d, <1>4

-----------------------------------------------------------------------------
(* All activations                                                         *)

(* The topmost table is that of the innermost open construction.           *)
LEMMA Innermost ==
    ASSUME Types, Running, Deep
    PROVE  /\ Len(init_field) = Upper(act) /\ Len(init_field) \in Nat
           /\ Constructing <=> Len(init_field) > 0
           /\ Redirected <=> Constructing
           /\ ~ Constructing <=> act.below = 0 /\ act.ctors = <<>>
           /\ Fits(act, frame.return_index, Len(stack), stack, objs,
                   init_field, looked)
           /\ Ready(act, stack)
<1>1. /\ Len(acts) \in Nat \ {0} /\ act = acts[Len(acts)]
      /\ act \in Activation /\ Base(Len(acts)) = frame.return_index
  BY TopIs
<1>2. Len(init_field) = Upto(Len(acts))
  BY DEF Deep, Stacked
<1>3. Len(init_field) = Upper(act)
  BY <1>1, <1>2 DEF Upto, Upper
<1>4. act.below \in Nat /\ Len(act.ctors) \in Nat
      /\ act.ctors \in Seq(Ctor)
  BY <1>1, Sizes
<1>5. Len(act.ctors) > 0 <=> act.ctors # <<>>
  BY <1>4, EmptySeq
<1>6. act.below > 0 <=>
         \E j \in 1 .. Len(acts) - 1 : acts[j].ctors # <<>>
  BY <1>1 DEF Deep, Stacked
<1>7. DOMAIN acts = 1 .. Len(acts)
  BY LenProperties DEF Types
<1>8. Constructing <=> act.below > 0 \/ act.ctors # <<>>
  BY <1>1, <1>6, <1>7 DEF Constructing
<1>9. init_field # <<>> <=> Len(init_field) > 0
  BY EmptySeq DEF Types
<1>10. End(Len(acts)) = Len(stack)
  BY DEF End
<1>11. Fits(act, frame.return_index, Len(stack), stack, objs,
            init_field, looked)
  <2>1. Fits(acts[Len(acts)], Base(Len(acts)), End(Len(acts)), stack, objs,
             init_field, looked)
    BY <1>1 DEF Deep, AllFit
  <2> QED BY <2>1, <1>1, <1>10
<1>12. Ready(act, stack)
  BY DEF Deep
<1>13. Len(init_field) \in Nat
  BY DEF Types
<1>14. Constructing <=> Len(init_field) > 0
  BY <1>3, <1>4, <1>5, <1>8 DEF Upper
<1>15. ~ Constructing <=> act.below = 0 /\ act.ctors = <<>>
  BY <1>4, <1>8
<1> QED BY <1>3, <1>9, <1>11, <1>12, <1>13, <1>14, <1>15 DEF Redirected

(* What the other activations stand on ends below the top one.             *)
LEMMA LowerEnds ==
    ASSUME Types, Running, Deep, NEW k \in 1 .. Len(acts) - 1
    PROVE  /\ acts[k] \in Activation
           /\ Base(k) \in Nat /\ End(k) \in Nat /\ End(k) = Base(k + 1)
           /\ End(k) <= frame.return_index
           /\ Upper(acts[k]) <= act.below
           /\ Fits(acts[k], Base(k), End(k), stack, objs, init_field, looked)
<1>1. /\ Len(acts) \in Nat \ {0} /\ act = acts[Len(acts)]
      /\ Base(Len(acts)) = frame.return_index
  BY TopIs
<1>2. k \in 1 .. Len(acts) /\ k + 1 \in 1 .. Len(acts) /\ k # Len(acts)
  BY <1>1
<1>3. acts[k] \in Activation
  BY <1>2, ElementOfSeq DEF Types
<1>4. \A j \in 1 .. Len(acts) : Base(j) \in Nat
  <2>1. \A j \in 1 .. Len(acts) : frames[j] \in Frame
    BY ElementOfSeq DEF Types
  <2> QED BY <2>1 DEF Base, Frame
<1>5. End(k) = Base(k + 1)
  BY <1>2 DEF End
<1>6. Base(k + 1) <= Base(Len(acts))
  <2>1. CASE k + 1 = Len(acts)
    BY <2>1, <1>2, <1>4
  <2>2. CASE k + 1 # Len(acts)
    BY <2>2, <1>1, <1>2 DEF Deep, Stacked
  <2> QED BY <2>1, <2>2
<1>7. Upper(acts[k]) <= acts[Len(acts)].below
  BY <1>1 DEF Deep, Stacked
<1>8. Fits(acts[k], Base(k), End(k), stack, objs, init_field, looked)
  BY <1>2 DEF Deep, AllFit
<1> QED BY <1>1, <1>2, <1>3, <1>4, <1>5, <1>6, <1>7, <1>8

(* A step of the top activation, which becomes a.                          *)
TopStep(a) ==
    /\ acts' = [acts EXCEPT ![Len(acts)] = a] /\ frames' = frames
    /\ a.built = act.built /\ a.below = act.below
    /\ \A i \in 1 .. frame.return_index : stack'[i] = stack[i]
    /\ Len(stack) >= frame.return_index
    /\ \A i \in 1 .. Len(objs) : objs'[i] = objs[i]
    /\ Len(init_field') = Upper(a)
    /\ \A i \in 1 .. act.below : init_field'[i] = init_field[i]
    /\ act.below > 0 => looked' = looked
    /\ Fits(a, frame.return_index, Len(stack'), stack', objs',
            init_field', looked')
    /\ Ready(a, stack')

LEMMA TopKeeps ==
    ASSUME Types, Types', Known, Running, Deep, NEW a \in Activation,
           TopStep(a)
    PROVE  Deep'
<1>t. /\ acts' = [acts EXCEPT ![Len(acts)] = a] /\ frames' = frames
      /\ a.built = act.built /\ a.below = act.below
      /\ \A i \in 1 .. frame.return_index : stack'[i] = stack[i]
      /\ Len(stack) >= frame.return_index
      /\ \A i \in 1 .. Len(objs) : objs'[i] = objs[i]
      /\ Len(init_field') = Upper(a)
      /\ \A i \in 1 .. act.below : init_field'[i] = init_field[i]
      /\ act.below > 0 => looked' = looked
      /\ Fits(a, frame.return_index, Len(stack'), stack', objs',
              init_field', looked')
      /\ Ready(a, stack')
  BY DEF TopStep
<1>n. PICK n \in Nat \ {0} : n = Len(acts)
  BY TopIs
<1>0. /\ act = acts[n] /\ Base(n) = frame.return_index
      /\ frame.return_index \in Nat /\ act \in Activation
  BY <1>n, TopIs
<1>1. /\ Len(acts') = n /\ acts'[n] = a
      /\ \A k \in 1 .. n - 1 : acts'[k] = acts[k]
  BY <1>n, <1>t, TopWritten
<1>2. \A k \in 1 .. n : Base(k)' = Base(k)
  BY <1>t DEF Base
<1>a. End(n)' = Len(stack')
  BY <1>1 DEF End
<1>b. ASSUME NEW k \in 1 .. n - 1
      PROVE  End(k)' = End(k)
  <2>1. k # n /\ k + 1 \in 1 .. n
    OBVIOUS
  <2>2. End(k) = Base(k + 1)
    BY <1>n, <2>1 DEF End
  <2>3. End(k)' = Base(k + 1)'
    BY <1>1, <2>1 DEF End
  <2> QED BY <1>2, <2>1, <2>2, <2>3
<1>3. /\ End(n)' = Len(stack')
      /\ \A k \in 1 .. n - 1 : End(k)' = End(k)
  BY <1>a, <1>b
<1>4. \A k \in 1 .. n : acts'[k].below = acts[k].below
  BY <1>0, <1>1, <1>t
<1>5. \A k \in 1 .. n : Upto(k - 1)' = Upto(k - 1)
  <2> SUFFICES ASSUME NEW k \in 1 .. n PROVE Upto(k - 1)' = Upto(k - 1)
    OBVIOUS
  <2>1. k - 1 = 0 \/ acts'[k - 1] = acts[k - 1]
    BY <1>1
  <2> QED BY <2>1 DEF Upto
<1>6. Stacked'
  <2>1. Len(init_field') = Upto(Len(acts))'
    BY <1>1, <1>t DEF Upto, Upper
  <2>2. ASSUME NEW k \in 1 .. n
        PROVE  /\ acts'[k].below = Upto(k - 1)'
               /\ acts'[k].below > 0 <=>
                     \E j \in 1 .. k - 1 : acts'[j].ctors # <<>>
               /\ \A j \in 1 .. k - 1 :
                     /\ Upper(acts'[j]) <= acts'[k].below
                     /\ Base(j)' <= Base(k)'
    <3>1. /\ acts[k].below = Upto(k - 1)
          /\ acts[k].below > 0 <=>
                \E j \in 1 .. k - 1 : acts[j].ctors # <<>>
          /\ \A j \in 1 .. k - 1 : /\ Upper(acts[j]) <= acts[k].below
                                   /\ Base(j) <= Base(k)
      BY <1>n DEF Deep, Stacked
    <3>2. \A j \in 1 .. k - 1 : /\ j \in 1 .. n - 1 /\ j \in 1 .. n
                                /\ acts'[j] = acts[j] /\ Base(j)' = Base(j)
      BY <1>1, <1>2
    <3>3. acts'[k].below = acts[k].below /\ Base(k)' = Base(k)
          /\ Upto(k - 1)' = Upto(k - 1)
      BY <1>2, <1>4, <1>5
    <3>4. (\E j \in 1 .. k - 1 : acts'[j].ctors # <<>>) <=>
             \E j \in 1 .. k - 1 : acts[j].ctors # <<>>
      BY <3>2
    <3>5. \A j \in 1 .. k - 1 : /\ Upper(acts'[j]) <= acts'[k].below
                                /\ Base(j)' <= Base(k)'
      BY <3>1, <3>2, <3>3
    <3> QED BY <3>1, <3>3, <3>4, <3>5
  <2> QED BY <1>1, <2>1, <2>2 DEF Stacked
<1>7. Opened'
  <2> SUFFICES ASSUME NEW k \in 1 .. n - 1
               PROVE  /\ ~ acts'[k].alloc
                      /\ IF acts'[k + 1].built
                         THEN /\ acts'[k].ctors # <<>>
                              /\ Len(acts'[k].ops) = Opening(acts'[k]) - 1
                         ELSE Opening(acts'[k]) <= Len(acts'[k].ops)
    BY <1>1 DEF Opened
  <2>1. acts'[k + 1].built = acts[k + 1].built
    <3>1. CASE k + 1 = n
      BY <3>1, <1>0, <1>1, <1>t
    <3>2. CASE k + 1 # n
      BY <3>2, <1>1
    <3> QED BY <3>1, <3>2
  <2> QED BY <2>1, <1>1, <1>n DEF Deep, Opened
<1>8. ASSUME NEW k \in 1 .. n
      PROVE  Fits(acts'[k], Base(k)', End(k)', stack', objs',
                  init_field', looked')
  <2>1. CASE k = n
    BY <2>1, <1>0, <1>1, <1>2, <1>3, <1>t
  <2>2. CASE k # n
    <3>1. k \in 1 .. n - 1
      BY <2>2
    <3>2. /\ acts[k] \in Activation
          /\ Base(k) \in Nat /\ End(k) \in Nat
          /\ End(k) <= frame.return_index
          /\ Upper(acts[k]) <= act.below
          /\ Fits(acts[k], Base(k), End(k), stack, objs, init_field, looked)
      BY <3>1, <1>n, LowerEnds
    <3>3. \A i \in Base(k) + 1 .. End(k) :
             i \in 1 .. frame.return_index /\ i \in 1 .. Len(stack)
      <4>1. PICK m \in Nat : m = frame.return_index
        BY <1>0
      <4>2. PICK l \in Nat : l = Len(stack)
        BY DEF Types
      <4>3. PICK b \in Nat, e \in Nat : b = Base(k) /\ e = End(k)
        BY <3>2
      <4>4. e <= m /\ m <= l
        BY <1>t, <3>2, <4>1, <4>2, <4>3
      <4>5. \A i \in b + 1 .. e : i \in 1 .. m /\ i \in 1 .. l
        BY <4>4
      <4> QED BY <4>1, <4>2, <4>3, <4>5
    <3>4. \A i \in Base(k) + 1 .. End(k) : stack'[i] = stack[i]
      BY <1>t, <3>3
    <3>5. \A i \in Base(k) + 1 .. End(k) :
             IsObj(stack[i]) => stack[i][2] \in 1 .. Len(objs)
      BY <3>3 DEF Known, Sound
    <3>6. /\ acts[k].below \in Nat /\ Len(acts[k].ctors) \in Nat
          /\ a.below \in Nat /\ Len(a.ctors) \in Nat
      BY <3>2, Sizes
    <3>7. Upper(a) >= act.below /\ acts[k].below <= Upper(acts[k])
          /\ Upper(acts[k]) \in Nat
      <4>1. PICK u \in Nat, v \in Nat :
               u = acts[k].below /\ v = Len(acts[k].ctors)
        BY <3>6
      <4>2. PICK w \in Nat, z \in Nat : w = a.below /\ z = Len(a.ctors)
        BY <3>6
      <4>3. w + z >= w /\ u <= u + v /\ u + v \in Nat
        OBVIOUS
      <4> QED BY <1>t, <4>1, <4>2, <4>3 DEF Upper
    <3>8. act.below \in Nat
      BY <1>0, Sizes
    <3>9. Len(init_field') >= Upper(acts[k])
      BY <1>t, <3>2, <3>6, <3>7, <3>8
    <3>10. \A i \in 1 .. Upper(acts[k]) : init_field'[i] = init_field[i]
      BY <1>t, <3>2, <3>7, <3>8
    <3>11. acts[k].below > 0 => looked' = looked
      BY <1>t, <3>2, <3>6, <3>7, <3>8
    <3>13. Fits(acts[k], Base(k), End(k), stack', objs', init_field', looked')
      <4>1. Kept(acts[k], Base(k), End(k), stack, objs, init_field, looked,
                 stack', objs', init_field', looked')
        BY <1>t, <3>4, <3>5, <3>9, <3>10, <3>11 DEF Kept
      <4> QED BY <3>2, <4>1, FitMove
    <3> QED BY <3>13, <3>1, <1>1, <1>2, <1>3
  <2> QED BY <2>1, <2>2
<1>9. AllFit'
  BY <1>1, <1>8 DEF AllFit
<1>10. act' = a
  BY <1>1, <1>n DEF act, Last
<1>11. Running' => Ready(act, stack)'
  BY <1>10, <1>t DEF Ready
<1> QED BY <1>6, <1>7, <1>9, <1>11 DEF Deep

LEMMA Pushed ==
    ASSUME NEW S, NEW s \in Seq(S), NEW v \in S
    PROVE  /\ Append(s, v) \in Seq(S) /\ Len(Append(s, v)) = Len(s) + 1
           /\ Append(s, v) # <<>> /\ Append(s, v)[Len(s) + 1] = v
           /\ \A i \in 1 .. Len(s) : Append(s, v)[i] = s[i]
<1>1. Append(s, v) \in Seq(S) /\ Len(Append(s, v)) = Len(s) + 1
  OBVIOUS
<1>2. Len(s) \in Nat
  BY LenProperties
<1>3. Append(s, v) # <<>>
  BY <1>1, <1>2, Len(<<>>) = 0
<1> QED BY <1>1, <1>3

LEMMA OpeningNat ==
    ASSUME NEW a \in Activation
    PROVE  Opening(a) \in Nat
<1>1. a.ctors \in Seq(Ctor)
  BY Sizes
<1>2. CASE a.ctors # <<>>
  <2>1. a.ctors[Len(a.ctors)] \in Ctor
    BY <1>1, <1>2, FrontIsCut
  <2> QED BY <1>2, <2>1 DEF Opening, Ctor
<1> QED BY <1>2 DEF Opening

(* A step starts from here.                                                *)
LEMMA Situation ==
    ASSUME ObjectsInv, Goes
    PROVE  /\ Types /\ Known /\ Owned /\ Deep /\ Called /\ Running /\ legal
           /\ act \in Activation /\ frame.return_index \in Nat
           /\ Len(stack) \in Nat /\ Len(stack) > frame.return_index
           /\ Len(stack) - Len(act.ops) >= frame.return_index
           /\ Open = Opening(act)
           /\ Fits(act, frame.return_index, Len(stack), stack, objs,
                   init_field, looked)
           /\ Ready(act, stack)
<1>1. Types /\ Known /\ Owned /\ Deep /\ Called /\ Running /\ legal
  BY DEF ObjectsInv, Goes
<1>2. act \in Activation /\ frame.return_index \in Nat
  BY <1>1, TopIs
<1>3. Fits(act, frame.return_index, Len(stack), stack, objs,
           init_field, looked) /\ Ready(act, stack)
  BY <1>1, Innermost
<1>4. Placed(act, frame.return_index, Len(stack), looked)
  BY <1>3 DEF Fits
<1>5. Len(stack) \in Nat
  BY <1>1 DEF Types
<1>6. Len(stack) - Len(act.ops) >= frame.return_index
  BY <1>2, <1>4, <1>5, Sites
<1>7. Len(stack) > frame.return_index
  <2>1. PICK w \in Nat : w = Len(act.ops)
    BY <1>2, Sizes
  <2>2. PICK e \in Nat, b \in Nat :
           e = Len(stack) /\ b = frame.return_index
    BY <1>2, <1>5
  <2>3. e >= b + 1 + w - Missing(act)
    BY <1>4, <2>1, <2>2 DEF Placed
  <2>4. act.short => w > 0
    BY <1>2, <1>3, <2>1, Sizes, EmptySeq DEF Ready
  <2>5. CASE act.short
    BY <2>2, <2>3, <2>4, <2>5 DEF Missing
  <2>6. CASE ~ act.short
    BY <2>2, <2>3, <2>6 DEF Missing
  <2> QED BY <2>5, <2>6
<1>8. Open = Opening(act)
  BY DEF Open, Opening, Last
<1> QED BY <1>1, <1>2, <1>3, <1>5, <1>6, <1>7, <1>8

(* A step that replaces n operands by one.                                 *)
LEMMA ReplaceKeeps ==
    ASSUME ObjectsInv, Goes, ~ act.alloc, NEW n \in 0 .. Len(act.ops),
           Len(act.ops) - n >= Open, NEW v \in Cell, NEW op \in Operation,
           Replace(n, v, op), frames' = frames, init_field' = init_field,
           objs' \in Seq(Instances),
           \A i \in 1 .. Len(objs) : objs'[i] = objs[i],
           act.below > 0 => looked' = looked
    PROVE  /\ stack' \in Seq(Cell) /\ acts' \in Seq(Activation)
           /\ Len(acts') = Len(acts)
           /\ Len(stack') = Len(stack) - n + 1 /\ n <= Len(stack)
           /\ \A i \in 1 .. Len(stack) - n : stack'[i] = stack[i]
           /\ stack'[Len(stack) - n + 1] = v
           /\ Types' /\ OpFits(act, op, Len(act.ops) - n + 1, v, objs',
                               init_field)
              => Deep'
<1>1. /\ Types /\ Known /\ Owned /\ Deep /\ Called /\ Running /\ legal
      /\ act \in Activation /\ frame.return_index \in Nat
      /\ Len(stack) \in Nat
      /\ Len(stack) - Len(act.ops) >= frame.return_index
      /\ Open = Opening(act)
      /\ Fits(act, frame.return_index, Len(stack), stack, objs,
              init_field, looked)
      /\ Ready(act, stack)
  BY Situation
<1>2. PICK b \in Nat, e \in Nat, w \in Nat :
         b = frame.return_index /\ e = Len(stack) /\ w = Len(act.ops)
  BY <1>1, Sizes
<1>3. e - w >= b /\ n \in 0 .. w /\ n \in 0 .. e /\ e - n >= b
  BY <1>1, <1>2
<1>4. /\ stack' \in Seq(Cell) /\ Len(stack') = e - n + 1
      /\ \A i \in 1 .. e - n : stack'[i] = stack[i]
      /\ stack'[e - n + 1] = v
  <2>1. stack' = Append(Without(stack, n), v) /\ stack \in Seq(Cell)
    BY <1>1 DEF Replace, Types
  <2> QED BY <1>2, <1>3, <2>1, CutPush
<1>5. Fits(act, b, e, stack, objs', init_field, looked')
  <2>1. \A i \in b + 1 .. e : i \in 1 .. Len(stack)
    BY <1>2
  <2>2. Len(init_field) = Upper(act) /\ Len(init_field) \in Nat
    BY <1>1, Innermost
  <2>3. Kept(act, b, e, stack, objs, init_field, looked,
             stack, objs', init_field, looked')
    BY <1>1, <2>1, <2>2 DEF Kept, Known, Sound
  <2> QED BY <1>1, <1>2, <2>3, FitMove
<1>6. PICK r : r = [act EXCEPT !.ops = Without(@, n)]
  OBVIOUS
<1>7. Fits(r, b, e - n, stack', objs', init_field, looked')
      /\ r \in Activation /\ e - n \in Nat
  <2>1. \A i \in b + 1 .. e - n : stack'[i] = stack[i]
    BY <1>4
  <2>2. n \in 0 .. Len(act.ops)
    OBVIOUS
  <2> QED BY <1>1, <1>5, <1>6, <2>1, <2>2, FitCut
<1>8. Len(r.ops) = w - n /\ r.below = act.below /\ r.ctors = act.ctors
      /\ r.self = act.self /\ r.built = act.built /\ r.alloc = act.alloc
  <2>1. r.ops = Without(act.ops, n)
    BY <1>1, <1>6 DEF Activation
  <2>2. Len(r.ops) = w - n
    BY <1>1, <1>2, <1>3, <2>1, Cut, Sizes
  <2> QED BY <1>1, <1>6, <2>2 DEF Activation
<1>10. PICK a : a = [r EXCEPT !.ops = Append(@, op)]
  OBVIOUS
<1>11. a \in Activation
  <2>1. r.ops \in Seq(Operation)
    BY <1>7, Sizes
  <2>2. PICK q : q = Append(r.ops, op)
    OBVIOUS
  <2>3. q \in Seq(Operation)
    BY <2>1, <2>2, Pushed
  <2> QED BY <1>7, <1>10, <2>2, <2>3 DEF Activation
<1>12. /\ a = [act EXCEPT !.ops = Append(Without(@, n), op)]
       /\ a.ops = Append(r.ops, op)
       /\ a.below = act.below /\ a.ctors = act.ctors
       /\ a.self = act.self /\ a.built = act.built /\ a.alloc = act.alloc
  BY <1>1, <1>6, <1>7, <1>10 DEF Activation
<1>13. acts' = [acts EXCEPT ![Len(acts)] = a]
  BY <1>1, <1>12, TopIs DEF Replace
<1>14. Ready(a, stack')
  <2>1. Len(a.ops) = w - n + 1 /\ a.ops # <<>>
    <3>1. r.ops \in Seq(Operation) /\ a.ops = Append(r.ops, op)
      BY <1>7, <1>12, Sizes
    <3>2. PICK q \in Seq(Operation) : q = r.ops
      BY <3>1
    <3>3. Len(Append(q, op)) = Len(q) + 1 /\ Append(q, op) # <<>>
      BY Pushed
    <3> QED BY <1>8, <3>1, <3>2, <3>3
  <2>2. Opening(a) = Open
    BY <1>1, <1>12 DEF Opening
  <2>3. Opening(a) <= Len(a.ops)
    <3>1. Opening(act) \in Nat
      BY <1>1, OpeningNat
    <3> QED BY <1>1, <1>2, <2>1, <2>2, <3>1
  <2> QED BY <1>12, <2>1, <2>3 DEF Ready
<1>15. ASSUME Types',
              OpFits(act, op, Len(act.ops) - n + 1, v, objs', init_field)
       PROVE  Deep'
  <2>a. OpFits(r, op, Len(r.ops) + 1, stack'[e - n + 1], objs', init_field)
    <3>1. Len(act.ops) - n + 1 = Len(r.ops) + 1
      BY <1>2, <1>8
    <3>2. OpFits(act, op, Len(r.ops) + 1, stack'[e - n + 1], objs',
                 init_field)
      BY <1>4, <1>15, <3>1
    <3> QED BY <1>8, <3>2 DEF OpFits, Inner
  <2>b. Fits(a, b, (e - n) + 1, stack', objs', init_field, looked')
    BY <1>7, <1>10, <2>a, FitPush
  <2>1. Len(init_field) = Upper(act) /\ Upper(a) = Upper(act)
    BY <1>1, <1>12, Innermost DEF Upper
  <2>2. \A i \in 1 .. frame.return_index : stack'[i] = stack[i]
    <3>1. \A i \in 1 .. b : i \in 1 .. e - n
      BY <1>3
    <3> QED BY <1>2, <1>4, <3>1
  <2>3. Len(stack) >= frame.return_index
    BY <1>2, <1>3
  <2>4. Fits(a, frame.return_index, Len(stack'), stack', objs',
             init_field', looked')
    BY <1>2, <1>4, <2>b
  <2>5. TopStep(a)
    BY <1>12, <1>13, <1>14, <2>1, <2>2, <2>3, <2>4 DEF TopStep
  <2> QED BY <1>1, <1>11, <1>15, <2>5, TopKeeps
<1>16. acts' \in Seq(Activation) /\ Len(acts') = Len(acts)
  BY <1>1, <1>11, <1>13, TopWritten
<1> QED BY <1>2, <1>3, <1>4, <1>15, <1>16

-----------------------------------------------------------------------------
(* The actions                                                             *)

(* The heap only grows, so what referred to it still does.                 *)
LEMMA OwnedStays ==
    ASSUME Owned, init_field' = init_field, objs' = objs,
           Len(tables') = Len(tables)
    PROVE  Owned'
BY DEF Owned

LEMMA CalledStays ==
    ASSUME Called, UNCHANGED <<caller, looked>>,
           Len(objs) \in Nat, Len(objs') \in Nat, Len(objs') >= Len(objs),
           \A i \in 1 .. Len(objs) : objs'[i] = objs[i]
    PROVE  Called'
BY DEF Called

LEMMA FailKeeps ==
    ASSUME ObjectsInv, Goes, NEW n \in 0 .. Len(stack), Fail(n),
           caller' \in 0 .. Len(objs), looked' \in Nat,
           legal' => Called'
    PROVE  ObjectsInv'
<1>1. /\ Types /\ Known /\ Owned /\ Deep /\ Running /\ legal
  BY Situation
<1>2. /\ stack' = Without(stack, n) /\ frames' = <<>> /\ acts' = <<>>
      /\ legal' = (legal /\ ~ Constructing)
      /\ init_field' = init_field /\ tables' = tables /\ objs' = objs
  BY DEF Fail, heap
<1>3. /\ stack' \in Seq(Cell) /\ Len(stack') = Len(stack) - n
      /\ \A i \in 1 .. Len(stack) - n : stack'[i] = stack[i]
  BY <1>1, <1>2, Cut DEF Types
<1>4. Types'
  <2>1. frames' \in Seq(Frame) /\ acts' \in Seq(Activation)
        /\ Len(frames') = Len(acts')
    BY <1>2
  <2>2. legal' \in BOOLEAN
    BY <1>2
  <2> QED BY <1>1, <1>2, <1>3, <2>1, <2>2 DEF Types
<1>5. Known'
  <2>1. Len(stack) \in Nat
    BY <1>1 DEF Types
  <2>2. \A i \in 1 .. Len(stack') : stack'[i] = stack[i]
                                   /\ i \in 1 .. Len(stack)
    BY <1>3, <2>1
  <2> QED BY <1>1, <1>2, <2>2 DEF Known, Sound
<1>6. Owned'
  BY <1>1, <1>2, OwnedStays
<1>7. ASSUME legal' = TRUE
      PROVE  Deep'
  <2>1. ~ Constructing
    BY <1>2, <1>7
  <2>2. Len(init_field) = 0
    BY <1>1, <2>1, Innermost
  <2>3. Len(acts') = 0
    BY <1>2
  <2>4. Stacked' /\ Opened' /\ AllFit'
    BY <1>2, <2>2, <2>3 DEF Stacked, Opened, AllFit, Upto
  <2>5. ~ Running'
    BY <1>2 DEF Running
  <2> QED BY <2>4, <2>5 DEF Deep
<1> QED BY <1>4, <1>5, <1>6, <1>7 DEF ObjectsInv, Types

(* The steps that replace operands: what they push is sound.               *)
LEMMA ReplacedKnown ==
    ASSUME Types, Known, NEW n \in 0 .. Len(stack), NEW v,
           Len(stack') = Len(stack) - n + 1,
           \A i \in 1 .. Len(stack) - n : stack'[i] = stack[i],
           stack'[Len(stack) - n + 1] = v, Sound(v)',
           Len(objs') \in Nat, Len(objs') >= Len(objs)
    PROVE  \A i \in 1 .. Len(stack') : Sound(stack[i])'
<1>1. PICK e \in Nat, z \in Nat : e = Len(stack) /\ z = Len(objs)
  BY DEF Types
<1>2. n \in 0 .. e /\ Len(stack') = e - n + 1
  BY <1>1
<1>3. ASSUME NEW i \in 1 .. e - n
      PROVE  Sound(stack[i])'
  <2>1. i \in 1 .. e
    BY <1>2
  <2>2. Sound(stack[i]) /\ stack'[i] = stack[i]
    BY <1>1, <2>1 DEF Known
  <2> QED BY <1>1, <2>2 DEF Sound
<1>4. Sound(stack[e - n + 1])'
  BY <1>1 DEF Sound
<1>5. \A i \in 1 .. e - n + 1 : i \in 1 .. e - n \/ i = e - n + 1
  BY <1>2
<1> QED BY <1>2, <1>3, <1>4, <1>5

LEMMA MeansWell ==
    ASSUME Types, NEW v \in Cell, Sound(v)
    PROVE  /\ Means(v) \in Operation /\ Means(v).held = FALSE
           /\ IsObj(v) => Means(v).to = objs[v[2]].fields
           /\ ~ IsObj(v) => Means(v).to = 0
           /\ \A a, i, f : OpFits(a, Means(v), i, v, objs, f)
<1>1. IsObj(v) => objs[v[2]].fields \in Nat
  <2>1. ASSUME IsObj(v)
        PROVE  objs[v[2]] \in Instances
    BY <2>1, ElementOfSeq DEF Types, Sound
  <2> QED BY <2>1 DEF Instances
<1>2. Means(v) \in Operation /\ Means(v).held = FALSE
      /\ Means(v).to = IF IsObj(v) THEN objs[v[2]].fields ELSE 0
  BY <1>1 DEF Means, Op, Operation
<1>3. IsFn(v) => ~ IsObj(v)
  BY CellKinds
<1> QED BY <1>2, <1>3 DEF OpFits

LEMMA OperandKeeps ==
    ASSUME ObjectsInv,
           NEW v \in {Datum(y) : y \in Data} \cup {Obj(i) : i \in DOMAIN objs},
           Operand(v)
    PROVE  ObjectsInv'
<1>0. /\ Goes /\ ~ act.alloc /\ Replace(0, v, Means(v))
      /\ UNCHANGED <<frames, init_field, tables, objs, caller, looked, legal>>
  BY DEF Operand, Instr, heap
<1>1. /\ Types /\ Known /\ Owned /\ Called /\ legal
      /\ act \in Activation /\ Open = Opening(act) /\ Ready(act, stack)
  BY <1>0, Situation
<1>2. v \in Cell /\ Sound(v)
  <2>1. DOMAIN objs = 1 .. Len(objs) /\ Len(objs) \in Nat
    BY <1>1, LenProperties DEF Types
  <2>2. CASE v \in {Datum(y) : y \in Data}
    BY <2>2, CellKinds DEF Sound
  <2>3. CASE v \in {Obj(i) : i \in DOMAIN objs}
    <3>1. PICK i \in 1 .. Len(objs) : v = Obj(i)
      BY <2>1, <2>3
    <3>2. i \in Nat
      BY <2>1
    <3> QED BY <3>1, <3>2, CellKinds DEF Sound
  <2> QED BY <2>2, <2>3
<1>3. /\ Means(v) \in Operation
      /\ \A a, i, f : OpFits(a, Means(v), i, v, objs, f)
  BY <1>1, <1>2, MeansWell
<1>4. 0 \in 0 .. Len(act.ops) /\ Len(act.ops) - 0 >= Open
  BY <1>1, Sizes, OpeningNat DEF Ready
<1>5. /\ stack' \in Seq(Cell) /\ acts' \in Seq(Activation)
      /\ Len(acts') = Len(acts)
      /\ Len(stack') = Len(stack) - 0 + 1 /\ 0 <= Len(stack)
      /\ \A i \in 1 .. Len(stack) - 0 : stack'[i] = stack[i]
      /\ stack'[Len(stack) - 0 + 1] = v
      /\ Types' /\ OpFits(act, Means(v), Len(act.ops) - 0 + 1, v, objs',
                          init_field) => Deep'
  BY <1>0, <1>1, <1>2, <1>3, <1>4, ReplaceKeeps DEF Types
<1>6. Types'
  BY <1>0, <1>1, <1>5 DEF Types
<1>7. Known'
  <2>1. Sound(v)'
    BY <1>0, <1>2 DEF Sound
  <2>2. 0 \in 0 .. Len(stack) /\ Len(objs') \in Nat /\ Len(objs') >= Len(objs)
    BY <1>0, <1>1, <1>5 DEF Types
  <2>3. \A i \in 1 .. Len(stack') : Sound(stack[i])'
    BY <1>1, <1>5, <2>1, <2>2, ReplacedKnown
  <2> QED BY <1>0, <1>1, <2>3 DEF Known, Sound
<1>8. Owned'
  BY <1>0, <1>1, OwnedStays
<1>9. Deep'
  BY <1>0, <1>3, <1>5, <1>6
<1>10. Called'
  BY <1>0, <1>1 DEF Called
<1> QED BY <1>6, <1>7, <1>8, <1>9, <1>10 DEF ObjectsInv

(* The table of a class is new, and nothing in it is an object.            *)
LEMMA CopyWell ==
    ASSUME NEW c \in Classes
    PROVE  /\ Copy(c) \in Tables
           /\ \A p \in DOMAIN Copy(c) : ~ IsObj(Copy(c)[p])
<1>1. Methods[c] \in SUBSET Names
  BY ObjectsAssumption
<1>2. \A p \in Methods[c] : Fn(p) \in Cell /\ ~ IsObj(Fn(p))
  BY <1>1, CellKinds DEF Code
<1>3. Copy(c) \in [Methods[c] -> Cell] /\ DOMAIN Copy(c) = Methods[c]
      /\ \A p \in Methods[c] : Copy(c)[p] = Fn(p)
  BY <1>2 DEF Copy
<1> QED BY <1>1, <1>2, <1>3 DEF Tables

LEMMA AllocPlainKeeps ==
    ASSUME ObjectsInv, NEW c \in Classes, AllocPlain(c)
    PROVE  ObjectsInv'
<1>0. /\ Goes /\ ~ act.alloc
      /\ tables' = Append(tables, Copy(c))
      /\ objs' = Append(objs, Instance(c, Len(tables')))
      /\ Replace(0, Obj(Len(objs')), Op(Len(tables')))
      /\ UNCHANGED <<frames, init_field, caller, looked, legal>>
  BY DEF AllocPlain, Instr
<1>1. /\ Types /\ Known /\ Owned /\ Called /\ legal
      /\ act \in Activation /\ Open = Opening(act) /\ Ready(act, stack)
  BY <1>0, Situation
<1>2. /\ Copy(c) \in Tables
      /\ \A p \in DOMAIN Copy(c) : ~ IsObj(Copy(c)[p])
  BY CopyWell
<1>3. /\ tables' \in Seq(Tables) /\ Len(tables') = Len(tables) + 1
      /\ tables'[Len(tables) + 1] = Copy(c)
      /\ \A t \in 1 .. Len(tables) : tables'[t] = tables[t]
      /\ Len(tables) \in Nat
  BY <1>0, <1>1, <1>2, Pushed DEF Types
<1>4. /\ Instance(c, Len(tables')) \in Instances
      /\ Instance(c, Len(tables')).fields = Len(tables) + 1
  BY <1>3 DEF Instance, Instances
<1>5. /\ objs' \in Seq(Instances) /\ Len(objs') = Len(objs) + 1
      /\ objs'[Len(objs) + 1].fields = Len(tables) + 1
      /\ \A i \in 1 .. Len(objs) : objs'[i] = objs[i]
      /\ Len(objs) \in Nat
  BY <1>0, <1>1, <1>4, Pushed DEF Types
<1>6. PICK v : v = Obj(Len(objs'))
  OBVIOUS
<1>7. v \in Cell /\ IsObj(v) /\ ~ IsFn(v) /\ v[2] = Len(objs) + 1
  BY <1>5, <1>6, CellKinds
<1>8. PICK op : op = Op(Len(tables'))
  OBVIOUS
<1>9. op \in Operation /\ \A i : OpFits(act, op, i, v, objs', init_field)
  <2>1. op.to = Len(tables) + 1 /\ op.held = FALSE /\ op \in Operation
    BY <1>3, <1>8 DEF Op, Operation
  <2> QED BY <1>5, <1>7, <2>1 DEF OpFits
<1>10. 0 \in 0 .. Len(act.ops) /\ Len(act.ops) - 0 >= Open
  BY <1>1, Sizes, OpeningNat DEF Ready
<1>11. /\ stack' \in Seq(Cell) /\ acts' \in Seq(Activation)
       /\ Len(acts') = Len(acts)
       /\ Len(stack') = Len(stack) - 0 + 1 /\ 0 <= Len(stack)
       /\ \A i \in 1 .. Len(stack) - 0 : stack'[i] = stack[i]
       /\ stack'[Len(stack) - 0 + 1] = v
       /\ Types' /\ OpFits(act, op, Len(act.ops) - 0 + 1, v, objs',
                           init_field) => Deep'
  <2>1. Replace(0, v, op)
    BY <1>0, <1>6, <1>8
  <2> QED BY <1>0, <1>1, <1>5, <1>7, <1>9, <1>10, <2>1, ReplaceKeeps
<1>12. Types'
  BY <1>0, <1>1, <1>3, <1>5, <1>11 DEF Types
<1>13. Known'
  <2>1. Sound(v)'
    BY <1>5, <1>7 DEF Sound
  <2>2. 0 \in 0 .. Len(stack) /\ Len(objs') \in Nat /\ Len(objs') >= Len(objs)
    BY <1>1, <1>5, <1>11 DEF Types
  <2>3. \A i \in 1 .. Len(stack') : Sound(stack[i])'
    BY <1>1, <1>11, <2>1, <2>2, ReplacedKnown
  <2>4. ASSUME NEW t \in 1 .. Len(tables'), NEW p \in DOMAIN tables'[t]
        PROVE  Sound(tables[t][p])'
    <3>1. CASE t = Len(tables) + 1
      BY <1>2, <1>3, <3>1 DEF Sound
    <3>2. CASE t # Len(tables) + 1
      <4>1. t \in 1 .. Len(tables) /\ tables'[t] = tables[t]
        BY <1>3, <3>2
      <4>2. Sound(tables[t][p])
        BY <1>1, <4>1 DEF Known
      <4> QED BY <1>5, <4>1, <4>2 DEF Sound
    <3> QED BY <3>1, <3>2
  <2> QED BY <2>3, <2>4 DEF Known
<1>14. Owned'
  <2>1. PICK z \in Nat, t \in Nat : z = Len(objs) /\ t = Len(tables)
    BY <1>3, <1>5
  <2>2. \A i \in 1 .. z + 1 :
           \/ i \in 1 .. z /\ objs'[i].fields = objs[i].fields
              /\ objs'[i].fields \in 1 .. t
           \/ i = z + 1 /\ objs'[i].fields = t + 1
    BY <1>1, <1>5, <2>1 DEF Owned
  <2>3. \A i \in 1 .. Len(init_field) : init_field[i] \in 1 .. t
    BY <1>1, <2>1 DEF Owned
  <2>4. t + 1 \notin 1 .. t /\ t + 1 \in 1 .. t + 1
        /\ 1 .. t \subseteq 1 .. t + 1
    BY <2>1
  <2>5. \A i, j \in 1 .. z + 1 : objs'[i].fields = objs'[j].fields => i = j
    BY <1>1, <2>1, <2>2, <2>4 DEF Owned
  <2>6. \A i \in 1 .. Len(init_field), j \in 1 .. z + 1 :
           init_field[i] # objs'[j].fields
    BY <1>1, <2>1, <2>2, <2>3, <2>4 DEF Owned
  <2>7. Len(objs') = z + 1 /\ Len(tables') = t + 1 /\ init_field' = init_field
    BY <1>0, <1>3, <1>5, <2>1
  <2>8. /\ \A i \in 1 .. Len(init_field') : init_field'[i] \in 1 .. Len(tables')
        /\ \A i \in 1 .. Len(objs') : objs'[i].fields \in 1 .. Len(tables')
    BY <2>2, <2>3, <2>4, <2>7
  <2>9. \A i, j \in 1 .. Len(init_field) :
           init_field[i] = init_field[j] => i = j
    BY <1>1 DEF Owned
  <2> QED BY <2>5, <2>6, <2>7, <2>8, <2>9 DEF Owned
<1>15. Deep'
  BY <1>9, <1>11, <1>12
<1>16. Called'
  BY <1>0, <1>1, <1>5, CalledStays
<1> QED BY <1>12, <1>13, <1>14, <1>15, <1>16 DEF ObjectsInv

(* What a property access finds is in a table of the heap.                 *)
LEMMA TargetThere ==
    ASSUME Types, Known, Owned, NEW v \in Cell, Sound(v), Accepts(v)
    PROVE  /\ Target(v) \in 1 .. Len(tables)
           /\ tables[Target(v)] \in Tables
           /\ ~ Redirected => IsObj(v)
           /\ \A p \in DOMAIN tables[Target(v)] :
                 tables[Target(v)][p] \in Cell /\ Sound(tables[Target(v)][p])
<1>1. Target(v) \in 1 .. Len(tables)
  <2>1. CASE Redirected
    <3>1. init_field # <<>> /\ init_field \in Seq(Nat)
      BY <2>1 DEF Redirected, Types
    <3>2. Len(init_field) \in 1 .. Len(init_field)
      BY <3>1, EmptySeq
    <3> QED BY <2>1, <3>1, <3>2, FrontIsCut DEF Owned, Target
  <2>2. CASE ~ Redirected
    BY <2>2 DEF Accepts, Sound, Owned, Target
  <2> QED BY <2>1, <2>2
<1>2. tables[Target(v)] \in Tables
  BY <1>1, ElementOfSeq DEF Types
<1>3. \A p \in DOMAIN tables[Target(v)] : tables[Target(v)][p] \in Cell
  BY <1>2 DEF Tables
<1> QED BY <1>1, <1>2, <1>3 DEF Known, Accepts

(* The operands that a property access takes from the stack.               *)
LEMMA TopOperand ==
    ASSUME ObjectsInv, Goes, NEW n \in {0, 1}, Len(act.ops) > n
    PROVE  /\ act.ops[Len(act.ops) - n] \in Operation
           /\ Len(stack) > n
           /\ stack[Len(stack) - n] \in Cell /\ Sound(stack[Len(stack) - n])
           /\ OpFits(act, act.ops[Len(act.ops) - n], Len(act.ops) - n,
                     stack[Len(stack) - n], objs, init_field)
<1>1. /\ Types /\ Known /\ act \in Activation /\ frame.return_index \in Nat
      /\ Len(stack) - Len(act.ops) >= frame.return_index
      /\ Fits(act, frame.return_index, Len(stack), stack, objs,
              init_field, looked)
  BY Situation
<1>2. PICK b \in Nat, e \in Nat, w \in Nat :
         b = frame.return_index /\ e = Len(stack) /\ w = Len(act.ops)
  BY <1>1, Sizes DEF Types
<1>3. e - w >= b /\ w - n \in 1 .. w /\ e - n \in 1 .. e
      /\ e - w + (w - n) = e - n
  BY <1>1, <1>2
<1>4. act.ops[w - n] \in Operation
  BY <1>1, <1>2, <1>3, Sizes, ElementOfSeq
<1>5. stack[e - n] \in Cell /\ Sound(stack[e - n])
  BY <1>1, <1>2, <1>3, ElementOfSeq DEF Types, Known
<1>6. OpFits(act, act.ops[w - n], w - n, stack[e - w + (w - n)], objs,
             init_field)
  BY <1>1, <1>2, <1>3 DEF Fits, Holds
<1>7. e > n
  BY <1>3
<1> QED BY <1>2, <1>3, <1>4, <1>5, <1>6, <1>7

(* A held operand is there only during a construction, and then its table  *)
(* is the topmost if the activation has none of its own.                   *)
LEMMA HeldMeans ==
    ASSUME ObjectsInv, Goes, NEW op, NEW i, NEW v,
           OpFits(act, op, i, v, objs, init_field)
    PROVE  /\ op.held => Constructing
           /\ op.held /\ act.ctors = <<>> /\ op.to # 0 =>
                 op.to = init_field[act.below] /\ act.below > 0
<1>1. /\ Types /\ Running /\ Deep /\ act \in Activation
      /\ Fits(act, frame.return_index, Len(stack), stack, objs,
              init_field, looked)
  BY Situation
<1>2. act.ctors = <<>> => 1 .. Len(act.ctors) = {}
  OBVIOUS
<1>3. op.held => act.below > 0 \/ act.ctors # <<>>
  BY <1>2 DEF OpFits
<1>4. ~ Constructing <=> act.below = 0 /\ act.ctors = <<>>
  BY <1>1, Innermost
<1>5. act.below \in Nat
  BY <1>1, Sizes
<1>6. act.below > 0 /\ act.self # 0 => act.self = init_field[act.below]
  BY <1>1 DEF Fits, Nests
<1> QED BY <1>3, <1>4, <1>5, <1>6 DEF OpFits

LEMMA GetPropKeeps ==
    ASSUME ObjectsInv, NEW p, GetProp(p)
    PROVE  ObjectsInv'
<1>1. /\ Goes /\ ~ act.alloc /\ Len(act.ops) - 1 >= Open
  BY DEF GetProp, Has, Instr
<1>2. /\ Types /\ Known /\ Owned /\ Deep /\ Called /\ Running /\ legal
      /\ act \in Activation /\ Open = Opening(act)
  BY <1>1, Situation
<1>3. Len(act.ops) > 0 /\ 1 \in 0 .. Len(act.ops)
  BY <1>1, <1>2, Sizes, OpeningNat
<1>4. PICK v : v = Last(stack)
  OBVIOUS
<1>5. PICK r : r = Last(act.ops)
  OBVIOUS
<1>6. /\ r \in Operation /\ v \in Cell /\ Sound(v)
      /\ Len(stack) > 0 /\ v = stack[Len(stack)]
      /\ OpFits(act, r, Len(act.ops), v, objs, init_field)
  <2>1. /\ act.ops[Len(act.ops) - 0] \in Operation
        /\ Len(stack) > 0
        /\ stack[Len(stack) - 0] \in Cell /\ Sound(stack[Len(stack) - 0])
        /\ OpFits(act, act.ops[Len(act.ops) - 0], Len(act.ops) - 0,
                  stack[Len(stack) - 0], objs, init_field)
    BY <1>1, <1>3, TopOperand
  <2>2. Len(act.ops) - 0 = Len(act.ops) /\ Len(stack) - 0 = Len(stack)
    BY <1>2, Sizes DEF Types
  <2>3. v = stack[Len(stack)] /\ r = act.ops[Len(act.ops)]
    BY <1>4, <1>5 DEF Last
  <2> QED BY <2>1, <2>2, <2>3
<1>7. 1 \in 0 .. Len(stack)
  BY <1>2, <1>6 DEF Types
<1>8. CASE ~ Accepts(v)
  <2>1. Fail(1) /\ UNCHANGED <<caller, looked>>
    BY <1>4, <1>8 DEF GetProp
  <2>2. UNCHANGED objs
    BY <2>1 DEF Fail, heap
  <2>3. caller' \in 0 .. Len(objs) /\ looked' \in Nat /\ Called'
    BY <1>2, <2>1, <2>2 DEF Types, Called
  <2> QED BY <1>1, <1>7, <2>1, <2>3, FailKeeps
<1>9. CASE Accepts(v)
  <2>1. /\ caller' = Caller(v)
        /\ looked' = IF Constructing THEN looked ELSE r.to
        /\ LET t == tables[Target(v)] IN
           IF p \notin DOMAIN t THEN Fail(1)
           ELSE /\ Replace(1, t[p], IF IsFn(t[p]) THEN Op(r.to)
                                                  ELSE Means(t[p]))
                /\ Legal(OwnAccess(r))
                /\ UNCHANGED <<frames, heap>>
    BY <1>4, <1>5, <1>9 DEF GetProp
  <2>2. UNCHANGED <<init_field, tables, objs>>
    BY <2>1 DEF Fail, heap
  <2>3. Redirected <=> Constructing
    BY <1>2, Innermost
  <2>4. looked' \in Nat
    BY <1>2, <1>6, <2>1 DEF Types, Operation
  <2>5. ~ Redirected => IsObj(v)
    BY <1>9 DEF Accepts
  <2>6. caller' \in 0 .. Len(objs)
    BY <1>2, <1>6, <2>1, <2>5 DEF Types, Caller, Sound
  <2>7. Called'
    <3>1. CASE Constructing
      BY <1>2, <2>1, <2>2, <2>3, <3>1 DEF Called, Caller
    <3>2. CASE ~ Constructing
      <4>1. r.held = FALSE
        <5>1. r.held => Constructing
          BY <1>1, <1>6, HeldMeans
        <5> QED BY <3>2, <5>1, <1>6 DEF Operation
      <4>2. IsObj(v) /\ v[2] \in 1 .. Len(objs)
        BY <1>6, <2>3, <2>5, <3>2 DEF Sound
      <4>3. objs[v[2]].fields = r.to
        BY <1>6, <4>1, <4>2 DEF OpFits
      <4>4. caller' = v[2] /\ looked' = r.to
        BY <2>1, <2>3, <3>2 DEF Caller
      <4>5. r.to # 0
        BY <1>2, <4>2, <4>3 DEF Owned, Types
      <4> QED BY <2>2, <4>2, <4>3, <4>4, <4>5 DEF Called
    <3> QED BY <3>1, <3>2
  <2>8. CASE p \notin DOMAIN tables[Target(v)]
    BY <1>1, <1>7, <2>1, <2>4, <2>6, <2>7, <2>8, FailKeeps
  <2>9. CASE p \in DOMAIN tables[Target(v)]
    <3>1. PICK w : w = tables[Target(v)][p]
      OBVIOUS
    <3>2. w \in Cell /\ Sound(w)
      BY <1>2, <1>6, <1>9, <2>9, <3>1, TargetThere
    <3>3. PICK op : op = IF IsFn(w) THEN Op(r.to) ELSE Means(w)
      OBVIOUS
    <3>4. /\ Replace(1, w, op) /\ Legal(OwnAccess(r))
          /\ frames' = frames
      BY <2>1, <2>9, <3>1, <3>3
    <3>5. op \in Operation
      <4>1. Op(r.to) \in Operation
        BY <1>6 DEF Op, Operation
      <4> QED BY <1>2, <3>2, <3>3, <4>1, MeansWell
    <3>6. act.below > 0 => looked' = looked
      <4>1. act.below > 0 => Constructing
        BY <1>2, Innermost, Sizes
      <4> QED BY <2>1, <4>1
    <3>7. objs' \in Seq(Instances) /\ init_field' = init_field
          /\ \A i \in 1 .. Len(objs) : objs'[i] = objs[i]
      BY <1>2, <2>2 DEF Types
    <3>8. /\ stack' \in Seq(Cell) /\ acts' \in Seq(Activation)
          /\ Len(acts') = Len(acts)
          /\ Len(stack') = Len(stack) - 1 + 1
          /\ \A i \in 1 .. Len(stack) - 1 : stack'[i] = stack[i]
          /\ stack'[Len(stack) - 1 + 1] = w
          /\ Types' /\ OpFits(act, op, Len(act.ops) - 1 + 1, w, objs',
                              init_field) => Deep'
      BY <1>1, <1>3, <3>2, <3>4, <3>5, <3>6, <3>7, ReplaceKeeps
    <3>9. legal' = (legal /\ OwnAccess(r))
      BY <3>4 DEF Legal
    <3>10. legal' \in BOOLEAN
      BY <3>9
    <3>11. Types'
      BY <1>2, <2>2, <2>4, <2>6, <3>4, <3>8, <3>10 DEF Types
    <3>12. Known'
      <4>1. Sound(w)'
        BY <2>2, <3>2 DEF Sound
      <4>2. Len(objs') \in Nat /\ Len(objs') >= Len(objs)
        BY <1>2, <2>2 DEF Types
      <4>3. \A i \in 1 .. Len(stack') : Sound(stack[i])'
        BY <1>2, <1>7, <3>8, <4>1, <4>2, ReplacedKnown
      <4> QED BY <1>2, <2>2, <4>3 DEF Known, Sound
    <3>13. Owned'
      BY <1>2, <2>2, OwnedStays
    <3>14. ASSUME legal' = TRUE
           PROVE  OpFits(act, op, Len(act.ops) - 1 + 1, w, objs', init_field)
      <4>1. OwnAccess(r)
        BY <3>9, <3>14
      <4>2. CASE IsFn(w)
        <5>1. op.to = r.to /\ op.held = FALSE /\ ~ IsObj(w)
          BY <3>2, <3>3, <4>2, CellKinds DEF Op
        <5>2. CASE Constructing /\ r.to # 0
          <6>1. /\ act.ctors = <<>> /\ r.to = init_field[act.below]
                /\ act.below \in Nat
            BY <1>1, <1>2, <1>6, <4>1, <5>2, HeldMeans, Sizes DEF OwnAccess
          <6>2. 0 .. Len(act.ctors) = {0} /\ act.below + 0 = act.below
            BY <6>1
          <6> QED BY <5>1, <6>1, <6>2 DEF OpFits
        <5>3. CASE ~ Constructing
          <6>1. act.below = 0 /\ act.ctors = <<>>
            BY <1>2, <5>3, Innermost
          <6>2. 0 .. Len(act.ctors) = {0} /\ act.below + 0 = 0
            BY <6>1
          <6> QED BY <5>1, <6>1, <6>2 DEF OpFits
        <5>4. CASE r.to = 0
          BY <5>1, <5>4 DEF OpFits
        <5> QED BY <5>2, <5>3, <5>4
      <4>3. CASE ~ IsFn(w)
        BY <1>2, <2>2, <3>2, <3>3, <4>3, MeansWell
      <4> QED BY <4>2, <4>3
    <3>15. legal' = TRUE => Deep'
      BY <3>8, <3>11, <3>14
    <3> QED BY <2>7, <3>10, <3>11, <3>12, <3>13, <3>15 DEF ObjectsInv
  <2> QED BY <2>8, <2>9
<1> QED BY <1>8, <1>9

(* What lies above the site of the innermost construction is its own.      *)
LEMMA InnerTop ==
    ASSUME NEW a \in Activation, NEW f, Nests(a, f), NEW i \in Nat,
           i >= Opening(a)
    PROVE  \A j \in 0 .. Len(a.ctors) : Inner(a, i, j) <=> j = Len(a.ctors)
<1>1. PICK n \in Nat : n = Len(a.ctors)
  BY Sizes
<1>2. n = 0 <=> a.ctors = <<>>
  BY <1>1, Sizes, EmptySeq
<1>3. n > 0 => Opening(a) = a.ctors[n].at
  BY <1>1, <1>2 DEF Opening
<1>4. \A j \in 1 .. n : a.ctors[j].at \in Nat
  <2>1. \A j \in 1 .. n : a.ctors[j] \in Ctor
    BY <1>1, Sizes, ElementOfSeq
  <2> QED BY <2>1 DEF Ctor
<1>5. \A j \in 1 .. n : a.ctors[j].at <= i
  <2> SUFFICES ASSUME NEW j \in 1 .. n PROVE a.ctors[j].at <= i
    OBVIOUS
  <2>1. j = n \/ a.ctors[j].at < a.ctors[n].at
    BY <1>1 DEF Nests
  <2> QED BY <2>1, <1>3, <1>4
<1>6. \A j \in 0 .. n : j # n => j + 1 \in 1 .. n
  OBVIOUS
<1>7. \A j \in 0 .. n : j # n => ~ (a.ctors[j + 1].at > i)
  BY <1>4, <1>5, <1>6
<1>8. n = 0 \/ a.ctors[n].at <= i
  BY <1>5
<1> QED BY <1>1, <1>7, <1>8 DEF Inner

LEMMA SetPropKeeps ==
    ASSUME ObjectsInv, NEW p \in Fields, SetProp(p)
    PROVE  ObjectsInv'
<1>1. /\ Goes /\ ~ act.alloc /\ Len(act.ops) - 2 >= Open
      /\ UNCHANGED <<caller, looked>>
  BY DEF SetProp, Has, Instr
<1>2. /\ Types /\ Known /\ Owned /\ Deep /\ Called /\ Running /\ legal
      /\ act \in Activation /\ Open = Opening(act)
  BY <1>1, Situation
<1>3. Len(act.ops) > 1 /\ Len(act.ops) > 0 /\ 2 \in 0 .. Len(act.ops)
  BY <1>1, <1>2, Sizes, OpeningNat
<1>4. PICK v, w : v = stack[Len(stack) - 1] /\ w = Last(stack)
  OBVIOUS
<1>5. PICK r, x : r = act.ops[Len(act.ops) - 1] /\ x = Last(act.ops)
  OBVIOUS
<1>6. /\ x \in Operation /\ w \in Cell /\ Sound(w)
      /\ OpFits(act, x, Len(act.ops), w, objs, init_field)
      /\ v \in Cell /\ Sound(v) /\ Len(stack) > 1
  <2>1. /\ act.ops[Len(act.ops) - 0] \in Operation
        /\ stack[Len(stack) - 0] \in Cell /\ Sound(stack[Len(stack) - 0])
        /\ OpFits(act, act.ops[Len(act.ops) - 0], Len(act.ops) - 0,
                  stack[Len(stack) - 0], objs, init_field)
    BY <1>1, <1>3, TopOperand
  <2>2. Len(act.ops) - 0 = Len(act.ops) /\ Len(stack) - 0 = Len(stack)
    BY <1>2, Sizes DEF Types
  <2>3. w = stack[Len(stack)] /\ x = act.ops[Len(act.ops)]
    BY <1>4, <1>5 DEF Last
  <2>4. Len(stack) > 1 /\ stack[Len(stack) - 1] \in Cell
        /\ Sound(stack[Len(stack) - 1])
    BY <1>1, <1>3, TopOperand
  <2> QED BY <1>4, <2>1, <2>2, <2>3, <2>4
<1>7. 2 \in 0 .. Len(stack)
  BY <1>2, <1>6 DEF Types
<1>8. CASE ~ Accepts(v)
  <2>1. Fail(2)
    BY <1>4, <1>8 DEF SetProp
  <2>2. UNCHANGED objs
    BY <2>1 DEF Fail, heap
  <2>3. caller' \in 0 .. Len(objs) /\ looked' \in Nat /\ Called'
    BY <1>1, <1>2, <2>2 DEF Types, Called
  <2> QED BY <1>1, <1>7, <2>1, <2>3, FailKeeps
<1>9. CASE Accepts(v)
  <2>1. /\ tables' = [tables EXCEPT ![Target(v)] =
              [q \in DOMAIN @ \cup {p} |-> IF q = p THEN w ELSE @[q]]]
        /\ Replace(2, w, x)
        /\ Legal(OwnAccess(r) /\ ~ x.held)
        /\ UNCHANGED <<frames, init_field, objs>>
    BY <1>4, <1>5, <1>9 DEF SetProp
  <2>2. PICK g : g = Target(v)
    OBVIOUS
  <2>3. /\ g \in 1 .. Len(tables) /\ tables[g] \in Tables
        /\ \A q \in DOMAIN tables[g] :
              tables[g][q] \in Cell /\ Sound(tables[g][q])
    BY <1>2, <1>6, <1>9, <2>2, TargetThere
  <2>4. PICK t : t = [q \in DOMAIN tables[g] \cup {p} |->
                        IF q = p THEN w ELSE tables[g][q]]
    OBVIOUS
  <2>5. t \in Tables /\ \A q \in DOMAIN t : Sound(t[q])
    <3>1. DOMAIN tables[g] \cup {p} \in SUBSET Names
      BY <2>3, ObjectsAssumption DEF Tables
    <3>2. t \in [DOMAIN tables[g] \cup {p} -> Cell]
      BY <1>6, <2>3, <2>4
    <3>3. \A q \in DOMAIN t : Sound(t[q])
      BY <1>6, <2>3, <2>4
    <3> QED BY <3>1, <3>2, <3>3 DEF Tables
  <2>6. /\ tables' \in Seq(Tables) /\ Len(tables') = Len(tables)
        /\ \A k \in 1 .. Len(tables) :
              tables'[k] = IF k = g THEN t ELSE tables[k]
    <3>1. tables' = [tables EXCEPT ![g] = t]
      BY <2>1, <2>2, <2>4
    <3>2. tables \in Seq(Tables)
      BY <1>2 DEF Types
    <3> QED BY <2>3, <2>5, <3>1, <3>2, ExceptSeq
  <2>7. objs' \in Seq(Instances) /\ init_field' = init_field
        /\ \A i \in 1 .. Len(objs) : objs'[i] = objs[i]
    BY <1>2, <2>1 DEF Types
  <2>8. /\ stack' \in Seq(Cell) /\ acts' \in Seq(Activation)
        /\ Len(acts') = Len(acts)
        /\ Len(stack') = Len(stack) - 2 + 1
        /\ \A i \in 1 .. Len(stack) - 2 : stack'[i] = stack[i]
        /\ stack'[Len(stack) - 2 + 1] = w
        /\ Types' /\ OpFits(act, x, Len(act.ops) - 2 + 1, w, objs',
                            init_field) => Deep'
    BY <1>1, <1>3, <1>6, <2>1, <2>7, ReplaceKeeps
  <2>9. legal' = (legal /\ OwnAccess(r) /\ ~ x.held)
    BY <2>1 DEF Legal
  <2>10. legal' \in BOOLEAN
    BY <2>9
  <2>11. Types'
    BY <1>1, <1>2, <2>1, <2>6, <2>8, <2>10 DEF Types
  <2>12. Known'
    <3>1. Sound(w)'
      BY <1>6, <2>1 DEF Sound
    <3>2. Len(objs') \in Nat /\ Len(objs') >= Len(objs)
      BY <1>2, <2>1 DEF Types
    <3>3. \A i \in 1 .. Len(stack') : Sound(stack[i])'
      BY <1>2, <1>7, <2>8, <3>1, <3>2, ReplacedKnown
    <3>4. ASSUME NEW k \in 1 .. Len(tables'), NEW q \in DOMAIN tables'[k]
          PROVE  Sound(tables[k][q])'
      <4>1. Sound(tables'[k][q])
        BY <1>2, <2>5, <2>6 DEF Known
      <4> QED BY <2>1, <4>1 DEF Sound
    <3> QED BY <3>3, <3>4 DEF Known
  <2>13. Owned'
    BY <1>2, <2>1, <2>6, OwnedStays
  <2>14. ASSUME legal' = TRUE
         PROVE  OpFits(act, x, Len(act.ops) - 2 + 1, w, objs', init_field)
    <3>1. x.held = FALSE
      BY <1>6, <2>9, <2>14 DEF Operation
    <3>2. PICK l \in Nat : l = Len(act.ops)
      BY <1>2, Sizes
    <3>3. l >= Open /\ l - 2 + 1 >= Open /\ l - 2 + 1 \in Nat
      BY <1>1, <1>2, <1>3, <3>2, OpeningNat
    <3>4. Nests(act, init_field)
      BY <1>2, Innermost DEF Fits
    <3>5. \A j \in 0 .. Len(act.ctors) :
             Inner(act, l - 2 + 1, j) <=> Inner(act, l, j)
      BY <1>2, <3>2, <3>3, <3>4, InnerTop
    <3> QED BY <1>6, <2>1, <3>1, <3>2, <3>5 DEF OpFits
  <2>15. Called'
    BY <1>1, <1>2, <2>1 DEF Called
  <2> QED BY <2>8, <2>10, <2>11, <2>12, <2>13, <2>14, <2>15 DEF ObjectsInv
<1> QED BY <1>8, <1>9

(* A step that pops an operand or none and keeps everything else.          *)
LEMMA DiscardKeeps ==
    ASSUME ObjectsInv, Discard
    PROVE  ObjectsInv'
<1>1. /\ Goes /\ ~ act.alloc /\ Len(act.ops) - 1 >= Open
      /\ stack' = Front(stack)
      /\ acts' = [acts EXCEPT ![Len(acts)].ops = Front(@)]
      /\ legal' = (legal /\ ~ Last(act.ops).held
                         /\ (act.short => Len(act.ops) > 1))
      /\ UNCHANGED <<frames, init_field, tables, objs, caller, looked>>
  BY DEF Discard, Has, Instr, heap, Legal
<1>2. /\ Types /\ Known /\ Owned /\ Deep /\ Called /\ Running /\ legal
      /\ act \in Activation /\ frame.return_index \in Nat
      /\ Len(stack) \in Nat /\ Len(stack) > frame.return_index
      /\ Len(stack) - Len(act.ops) >= frame.return_index
      /\ Open = Opening(act)
      /\ Fits(act, frame.return_index, Len(stack), stack, objs,
              init_field, looked)
  BY <1>1, Situation
<1>3. PICK b \in Nat, e \in Nat, w \in Nat :
         b = frame.return_index /\ e = Len(stack) /\ w = Len(act.ops)
  BY <1>2, Sizes
<1>4. e - w >= b /\ w >= 1 /\ 1 \in 0 .. w /\ 1 \in 0 .. e /\ e - 1 >= b
      /\ e - 1 \in Nat
  BY <1>1, <1>2, <1>3, OpeningNat
<1>5. stack' = Without(stack, 1)
  BY <1>1 DEF Front, Without
<1>6. /\ stack' \in Seq(Cell) /\ Len(stack') = e - 1
      /\ \A i \in 1 .. e - 1 : stack'[i] = stack[i]
  BY <1>2, <1>3, <1>4, <1>5, Cut DEF Types
<1>7. PICK a : a = [act EXCEPT !.ops = Without(@, 1)]
  OBVIOUS
<1>8. /\ Fits(a, b, e - 1, stack', objs, init_field, looked)
      /\ a \in Activation
  <2>1. \A i \in b + 1 .. e - 1 : i \in 1 .. e - 1
    OBVIOUS
  <2>2. \A i \in b + 1 .. e - 1 : stack'[i] = stack[i]
    BY <1>6, <2>1
  <2>3. 1 \in 0 .. Len(act.ops)
    BY <1>3, <1>4
  <2> QED BY <1>2, <1>3, <1>7, <2>2, <2>3, FitCut
<1>9. /\ a.ops = Without(act.ops, 1)
      /\ a.below = act.below /\ a.ctors = act.ctors /\ a.short = act.short
      /\ a.self = act.self /\ a.built = act.built /\ a.alloc = act.alloc
  BY <1>2, <1>7 DEF Activation
<1>10. a.ops \in Seq(Operation) /\ Len(a.ops) = w - 1
  BY <1>2, <1>3, <1>4, <1>9, Cut, Sizes
<1>11. acts' = [acts EXCEPT ![Len(acts)] = a]
  <2>1. acts' = [acts EXCEPT ![Len(acts)] =
                   [acts[Len(acts)] EXCEPT !.ops = Front(@)]]
    BY <1>1
  <2>2. Front(act.ops) = Without(act.ops, 1)
    BY DEF Front, Without
  <2> QED BY <1>2, <1>7, <2>1, <2>2, TopIs
<1>12. /\ acts' \in Seq(Activation) /\ Len(acts') = Len(acts)
  BY <1>2, <1>8, <1>11, TopWritten
<1>13. legal' \in BOOLEAN
  BY <1>1
<1>14. Types'
  BY <1>1, <1>2, <1>6, <1>12, <1>13 DEF Types
<1>15. Known'
  <2>1. \A i \in 1 .. e - 1 : i \in 1 .. e
    BY <1>3
  <2>2. \A i \in 1 .. e - 1 : Sound(stack[i]) /\ stack'[i] = stack[i]
    BY <1>2, <1>3, <1>6, <2>1 DEF Known
  <2>3. \A i \in 1 .. Len(stack') : Sound(stack[i])'
    BY <1>1, <1>6, <2>2 DEF Sound
  <2> QED BY <1>1, <1>2, <2>3 DEF Known, Sound
<1>16. Owned'
  BY <1>1, <1>2, OwnedStays
<1>17. Called'
  BY <1>1, <1>2 DEF Called
<1>18. ASSUME legal' = TRUE
       PROVE  Deep'
  <2>1. act.short => w > 1
    BY <1>1, <1>3, <1>18
  <2>2. a.short => a.ops # <<>>
    BY <1>9, <1>10, <2>1, EmptySeq
  <2>3. Opening(a) <= Len(a.ops)
    <3>1. Opening(a) = Opening(act)
      BY <1>9 DEF Opening
    <3> QED BY <1>1, <1>2, <1>3, <1>10, <3>1
  <2>4. Ready(a, stack')
    BY <1>1, <1>9, <2>2, <2>3 DEF Ready
  <2>5. Len(init_field) = Upper(act) /\ Upper(a) = Upper(act)
    BY <1>2, <1>9, Innermost DEF Upper
  <2>6. \A i \in 1 .. frame.return_index : stack'[i] = stack[i]
    <3>1. \A i \in 1 .. b : i \in 1 .. e - 1
      BY <1>4
    <3> QED BY <1>3, <1>6, <3>1
  <2>7. Len(stack) >= frame.return_index
    BY <1>2
  <2>8. Fits(a, frame.return_index, Len(stack'), stack', objs',
             init_field', looked')
    BY <1>1, <1>3, <1>6, <1>8
  <2>9. TopStep(a)
    BY <1>1, <1>9, <1>11, <2>4, <2>5, <2>6, <2>7, <2>8 DEF TopStep
  <2> QED BY <1>2, <1>8, <1>14, <2>9, TopKeeps
<1> QED BY <1>13, <1>14, <1>15, <1>16, <1>17, <1>18 DEF ObjectsInv

LEMMA EndStatementKeeps ==
    ASSUME ObjectsInv, EndStatement
    PROVE  ObjectsInv'
<1>1. /\ Goes /\ ~ act.alloc /\ act.ctors = <<>>
      /\ acts' = [acts EXCEPT ![Len(acts)].ops = <<>>,
                              ![Len(acts)].short = FALSE]
      /\ UNCHANGED <<stack, frames, init_field, tables, objs, caller, looked,
                     legal>>
  BY DEF EndStatement, Has, Instr, heap
<1>2. /\ Types /\ Known /\ Owned /\ Deep /\ Called /\ Running /\ legal
      /\ act \in Activation /\ frame.return_index \in Nat
      /\ Len(stack) \in Nat /\ Len(stack) > frame.return_index
      /\ Fits(act, frame.return_index, Len(stack), stack, objs,
              init_field, looked)
  BY <1>1, Situation
<1>3. PICK a : a = [act EXCEPT !.ops = <<>>, !.short = FALSE]
  OBVIOUS
<1>4. /\ a.ops = <<>> /\ a.short = FALSE
      /\ a.below = act.below /\ a.ctors = act.ctors
      /\ a.self = act.self /\ a.built = act.built /\ a.alloc = act.alloc
      /\ a \in Activation
  <2>1. <<>> \in Seq(Operation)
    OBVIOUS
  <2> QED BY <1>2, <1>3, <2>1 DEF Activation
<1>5. acts' = [acts EXCEPT ![Len(acts)] = a]
  <2>1. Len(acts) \in 1 .. Len(acts) /\ act = acts[Len(acts)]
        /\ acts \in Seq(Activation)
    BY <1>2, TopIs DEF Types
  <2> QED BY <1>1, <1>3, <2>1
<1>6. acts' \in Seq(Activation) /\ Len(acts') = Len(acts)
  BY <1>2, <1>4, <1>5, TopWritten
<1>7. Types'
  BY <1>1, <1>2, <1>6 DEF Types
<1>8. Known' /\ Owned' /\ Called'
  BY <1>1, <1>2 DEF Known, Owned, Called, Sound
<1>9. Fits(a, frame.return_index, Len(stack), stack, objs, init_field, looked)
  <2>1. Placed(a, frame.return_index, Len(stack), looked)
    BY <1>2, <1>4 DEF Placed, Missing
  <2>2. Nests(a, init_field)
    BY <1>2, <1>4 DEF Fits, Nests, Upper
  <2>3. Holds(a, Len(stack), stack, objs, init_field)
    BY <1>4 DEF Holds
  <2> QED BY <2>1, <2>2, <2>3 DEF Fits
<1>10. Ready(a, stack)
  BY <1>1, <1>4 DEF Ready, Opening
<1>11. Len(init_field) = Upper(act) /\ Upper(a) = Upper(act)
  BY <1>2, <1>4, Innermost DEF Upper
<1>12. Len(stack) >= frame.return_index
  BY <1>2
<1>13. TopStep(a)
  BY <1>1, <1>4, <1>5, <1>9, <1>10, <1>11, <1>12 DEF TopStep
<1>14. Deep'
  BY <1>2, <1>4, <1>7, <1>13, TopKeeps
<1> QED BY <1>7, <1>8, <1>14 DEF ObjectsInv

LEMMA ThisKeeps ==
    ASSUME ObjectsInv, This
    PROVE  ObjectsInv'
<1>1. /\ Goes /\ ~ act.alloc /\ act.self # 0
      /\ stack' = IF caller # 0 THEN Append(stack, Obj(caller)) ELSE stack
      /\ acts' = [acts EXCEPT ![Len(acts)].short = (looked = 0),
                              ![Len(acts)].ops =
                     Append(@, [to |-> act.self, held |-> Constructing])]
      /\ legal' = (legal /\ IF Constructing THEN looked = 0 => act.ops = <<>>
                                            ELSE looked = act.self)
      /\ UNCHANGED <<frames, init_field, tables, objs, caller, looked>>
  BY DEF This, Instr, heap, Legal
<1>2. /\ Types /\ Known /\ Owned /\ Deep /\ Called /\ Running /\ legal
      /\ act \in Activation /\ frame.return_index \in Nat
      /\ Len(stack) \in Nat /\ Len(stack) > frame.return_index
      /\ Len(stack) - Len(act.ops) >= frame.return_index
      /\ Open = Opening(act)
      /\ Fits(act, frame.return_index, Len(stack), stack, objs,
              init_field, looked)
      /\ Ready(act, stack)
  BY <1>1, Situation
<1>3. PICK b \in Nat, e \in Nat, w \in Nat :
         b = frame.return_index /\ e = Len(stack) /\ w = Len(act.ops)
  BY <1>2, Sizes
<1>4. PICK c \in BOOLEAN, s \in BOOLEAN :
         (c <=> Constructing) /\ (s <=> looked = 0)
  OBVIOUS
<1>5. PICK op : op = [to |-> act.self, held |-> Constructing]
  OBVIOUS
<1>6. op \in Operation /\ op.to = act.self /\ (op.held <=> Constructing)
  BY <1>2, <1>5, Sizes DEF Operation, Constructing
<1>7. PICK h : h = [act EXCEPT !.ops = Append(@, op)]
  OBVIOUS
<1>8. PICK q : q = Append(act.ops, op)
  OBVIOUS
<1>9. q \in Seq(Operation) /\ Len(q) = w + 1 /\ q # <<>>
      /\ q[w + 1] = op /\ \A i \in 1 .. w : q[i] = act.ops[i]
  BY <1>2, <1>3, <1>6, <1>8, Sizes, Pushed
<1>10. PICK a : a = [act EXCEPT !.short = (looked = 0), !.ops = q]
  OBVIOUS
<1>11. /\ a \in Activation /\ a.ops = q /\ (a.short <=> looked = 0)
       /\ a.below = act.below /\ a.ctors = act.ctors
       /\ a.self = act.self /\ a.built = act.built /\ a.alloc = act.alloc
  BY <1>2, <1>9, <1>10 DEF Activation
<1>12. acts' = [acts EXCEPT ![Len(acts)] = a]
  <2>1. Len(acts) \in 1 .. Len(acts) /\ act = acts[Len(acts)]
        /\ acts \in Seq(Activation)
    BY <1>2, TopIs DEF Types
  <2>2. acts' = [acts EXCEPT ![Len(acts)] =
                   [acts[Len(acts)] EXCEPT !.short = (looked = 0),
                      !.ops = Append(@, op)]]
    BY <1>1, <1>5, <2>1
  <2> QED BY <1>8, <1>10, <2>1, <2>2
<1>13. /\ acts' \in Seq(Activation) /\ Len(acts') = Len(acts)
  BY <1>2, <1>11, <1>12, TopWritten
<1>14. caller # 0 => Obj(caller) \in Cell /\ IsObj(Obj(caller))
                     /\ Obj(caller)[2] = caller /\ ~ IsFn(Obj(caller))
  BY <1>2, CellKinds DEF Types
<1>15. /\ stack' \in Seq(Cell) /\ Len(stack') \in Nat
       /\ Len(stack') = IF caller # 0 THEN e + 1 ELSE e
       /\ \A i \in 1 .. e : stack'[i] = stack[i]
       /\ caller # 0 => stack'[e + 1] = Obj(caller)
  <2>1. CASE caller = 0
    BY <1>1, <1>2, <1>3, <2>1 DEF Types
  <2>2. CASE caller # 0
    BY <1>1, <1>2, <1>3, <1>14, <2>2, Pushed DEF Types
  <2> QED BY <2>1, <2>2
<1>16. legal' \in BOOLEAN
  BY <1>1
<1>17. Types'
  BY <1>1, <1>2, <1>13, <1>15, <1>16 DEF Types
<1>18. Known'
  <2>1. \A i \in 1 .. e : Sound(stack[i]) /\ stack'[i] = stack[i]
    BY <1>2, <1>3, <1>15 DEF Known
  <2>2. caller # 0 => Sound(stack'[e + 1])
    BY <1>2, <1>14, <1>15 DEF Types, Sound
  <2>3. \A i \in 1 .. Len(stack') : i \in 1 .. e \/ (caller # 0 /\ i = e + 1)
    BY <1>15
  <2>4. \A i \in 1 .. Len(stack') : Sound(stack'[i])
    BY <2>1, <2>2, <2>3
  <2> QED BY <1>1, <1>2, <2>4 DEF Known, Sound
<1>19. Owned'
  BY <1>1, <1>2, OwnedStays
<1>20. Called'
  BY <1>1, <1>2 DEF Called
<1>21. looked = 0 <=> caller = 0
  BY <1>2 DEF Called, Types
<1>22. ~ Constructing <=> act.below = 0 /\ act.ctors = <<>>
  BY <1>2, Innermost
<1>23. act.below \in Nat
  BY <1>2, Sizes
<1>24. ASSUME legal' = TRUE
       PROVE  Fits(a, b, Len(stack'), stack', objs, init_field, looked)
  (* Something is pushed.                                                  *)
  <2>1. CASE looked # 0
    <3>1. caller \in 1 .. Len(objs) /\ objs[caller].fields = looked
      BY <1>2, <2>1 DEF Called
    <3>2. stack'[e + 1] = Obj(caller) /\ Len(stack') = e + 1
      BY <1>15, <1>21, <2>1
    <3>3. PICK v : v = stack'[e + 1]
      OBVIOUS
    <3>4. IsObj(v) /\ v[2] = caller /\ ~ IsFn(v)
      BY <1>14, <1>21, <2>1, <3>2, <3>3
    <3>5. OpFits(act, op, w + 1, v, objs, init_field)
      <4>1. CASE ~ Constructing
        <5>1. looked = act.self
          BY <1>1, <1>24, <4>1
        <5> QED BY <1>6, <3>1, <3>4, <4>1, <5>1 DEF OpFits
      <4>2. CASE Constructing
        <5>1. act.below > 0 \/ act.ctors # <<>>
          BY <1>22, <1>23, <4>2
        <5>2. act.ctors # <<>> =>
                 \E j \in 1 .. Len(act.ctors) : act.ctors[j].at <= w + 1
          <6> SUFFICES ASSUME act.ctors # <<>>
                       PROVE  \E j \in 1 .. Len(act.ctors) :
                                 act.ctors[j].at <= w + 1
            OBVIOUS
          <6>1. Len(act.ctors) \in 1 .. Len(act.ctors)
            BY <1>2, Sizes, EmptySeq
          <6>2. Opening(act) = act.ctors[Len(act.ctors)].at
            BY DEF Opening
          <6>3. Opening(act) <= w /\ Opening(act) \in Nat
            BY <1>2, <1>3, OpeningNat DEF Ready
          <6>4. act.ctors[Len(act.ctors)].at <= w + 1
            BY <6>2, <6>3
          <6> QED BY <6>1, <6>4
        <5> QED BY <1>6, <4>2, <5>1, <5>2 DEF OpFits
      <4> QED BY <4>1, <4>2
    <3>6. act.short = FALSE
      BY <1>2, <2>1 DEF Fits, Placed, Activation
    <3>7. a = h
      <4>1. a.short = FALSE
        BY <1>11, <2>1 DEF Activation
      <4> QED BY <1>2, <1>7, <1>8, <1>10, <1>11, <3>6, <4>1 DEF Activation
    <3>8. Fits(h, b, e + 1, stack', objs, init_field, looked)
      <4>1. \A i \in b + 1 .. e : i \in 1 .. e
        OBVIOUS
      <4>2. \A i \in b + 1 .. e : stack'[i] = stack[i]
        BY <1>15, <4>1
      <4>3. OpFits(act, op, Len(act.ops) + 1, stack'[e + 1], objs, init_field)
        BY <1>3, <3>3, <3>5
      <4> QED BY <1>2, <1>3, <1>6, <1>7, <4>2, <4>3, FitPush
    <3> QED BY <3>2, <3>7, <3>8
  (* Nothing is: the statement begins, and a construction is open below.   *)
  <2>2. CASE looked = 0
    <3>1. Constructing /\ act.ops = <<>> /\ w = 0
      <4>1. IF Constructing THEN looked = 0 => act.ops = <<>>
                            ELSE looked = act.self
        BY <1>1, <1>24
      <4>2. Constructing /\ act.ops = <<>>
        BY <1>1, <2>2, <4>1
      <4> QED BY <1>3, <4>2
    <3>2. act.ctors = <<>>
      <4>1. Opening(act) <= 0
        BY <1>2, <1>3, <3>1 DEF Ready
      <4>2. ASSUME act.ctors # <<>>
            PROVE  Opening(act) >= 1
        <5>1. Len(act.ctors) \in 1 .. Len(act.ctors)
          BY <1>2, <4>2, Sizes, EmptySeq
        <5> QED BY <1>2, <4>2, <5>1 DEF Opening, Fits, Nests
      <4> QED BY <1>2, <4>1, <4>2, OpeningNat
    <3>3. act.below > 0
      BY <1>22, <1>23, <3>1, <3>2
    <3>4. stack' = stack /\ Len(stack') = e
      BY <1>1, <1>3, <1>21, <2>2
    <3>5. Placed(a, b, e, looked)
      <4>1. Len(a.ops) = 1 /\ Missing(a) = 1
        BY <1>9, <1>11, <2>2, <3>1 DEF Missing
      <4>2. e > b
        BY <1>2, <1>3
      <4>3. e >= b + 1 + 1 - 1
        BY <4>2
      <4> QED BY <1>11, <2>2, <3>3, <4>1, <4>3 DEF Placed
    <3>6. Nests(a, init_field)
      BY <1>2, <1>11 DEF Fits, Nests, Upper
    <3>7. Len(a.ops) = 1 /\ a.ops[1] = op
      BY <1>9, <1>11, <3>1
    <3>8. \A i, v : OpFits(a, op, i, v, objs, init_field)
      BY <1>6, <1>11, <3>1, <3>3 DEF OpFits
    <3>9. Holds(a, e, stack', objs, init_field)
      BY <3>7, <3>8 DEF Holds
    <3> QED BY <3>4, <3>5, <3>6, <3>9 DEF Fits
  <2> QED BY <2>1, <2>2
<1>25. ASSUME legal' = TRUE
       PROVE  Deep'
  <2>1. Opening(a) <= Len(a.ops)
    <3>1. Opening(a) = Opening(act)
      BY <1>11 DEF Opening
    <3>2. Opening(act) <= w /\ Opening(act) \in Nat
      BY <1>2, <1>3, OpeningNat DEF Ready
    <3> QED BY <1>9, <1>11, <3>1, <3>2
  <2>2. Ready(a, stack')
    BY <1>1, <1>9, <1>11, <2>1 DEF Ready
  <2>3. Len(init_field) = Upper(act) /\ Upper(a) = Upper(act)
    BY <1>2, <1>11, Innermost DEF Upper
  <2>4. \A i \in 1 .. frame.return_index : stack'[i] = stack[i]
    <3>1. \A i \in 1 .. b : i \in 1 .. e
      BY <1>2, <1>3
    <3> QED BY <1>3, <1>15, <3>1
  <2>5. Len(stack) >= frame.return_index
    BY <1>2
  <2>6. Fits(a, frame.return_index, Len(stack'), stack', objs',
             init_field', looked')
    BY <1>1, <1>3, <1>24, <1>25
  <2>7. TopStep(a)
    BY <1>1, <1>11, <1>12, <2>2, <2>3, <2>4, <2>5, <2>6 DEF TopStep
  <2> QED BY <1>2, <1>11, <1>17, <2>7, TopKeeps
<1> QED BY <1>16, <1>17, <1>18, <1>19, <1>20, <1>25 DEF ObjectsInv

(* A construction begins; the operand it is kept at comes next.            *)
Opens(a, b, e, s, ob, f, lk, c) ==
    /\ Fits(a, b, e, s, ob, f, lk) /\ Len(f) = Upper(a)
    /\ c.at = Len(a.ops) + 1 /\ Opening(a) <= Len(a.ops)
HasOpened(a, b, e, s, ob, f, lk, c, o, g) ==
    /\ o = [a EXCEPT !.ctors = Append(@, c)] /\ g = Append(f, c.tab)
    /\ o \in Activation /\ o.ops = a.ops /\ o.below = a.below
    /\ o.short = a.short /\ o.alloc = a.alloc /\ o.built = a.built
    /\ Len(g) = Upper(o) /\ Opening(o) = Len(a.ops) + 1
    /\ Fits(o, b, e, s, ob, g, lk)
    /\ \A op, v : op.to = c.tab /\ ~ op.held /\ ~ IsObj(v) =>
          OpFits(o, op, Len(a.ops) + 1, v, ob, g)

LEMMA FitOpen ==
    ASSUME NEW a \in Activation, NEW b \in Nat, NEW e \in Nat,
           NEW s, NEW ob, NEW f \in Seq(Nat), NEW lk, NEW c \in Ctor,
           Opens(a, b, e, s, ob, f, lk, c)
    PROVE  \E o, g : HasOpened(a, b, e, s, ob, f, lk, c, o, g)
<1> SUFFICES ASSUME NEW t \in Nat, c.tab = t,
                    Fits(a, b, e, s, ob, f, lk), Len(f) = Upper(a),
                    c.at = Len(a.ops) + 1, Opening(a) <= Len(a.ops)
             PROVE  \E o, g : HasOpened(a, b, e, s, ob, f, lk, c, o, g)
  BY DEF Opens, Ctor
<1>1. PICK n \in Nat, w \in Nat, u \in Nat :
         n = Len(a.ctors) /\ w = Len(a.ops) /\ u = a.below
  BY Sizes
<1>2. a.ctors \in Seq(Ctor)
  BY Sizes
<1>3. PICK q : q = Append(a.ctors, c)
  OBVIOUS
<1>4. /\ q \in Seq(Ctor) /\ Len(q) = n + 1 /\ q # <<>>
      /\ q[n + 1] = c /\ \A j \in 1 .. n : q[j] = a.ctors[j]
  <2>1. PICK z \in Seq(Ctor) : z = a.ctors
    BY <1>2
  <2>2. /\ Append(z, c) \in Seq(Ctor) /\ Len(Append(z, c)) = Len(z) + 1
        /\ Append(z, c) # <<>> /\ Append(z, c)[Len(z) + 1] = c
        /\ \A i \in 1 .. Len(z) : Append(z, c)[i] = z[i]
    BY Pushed
  <2> QED BY <1>1, <1>3, <2>1, <2>2
<1>5. PICK o : o = [a EXCEPT !.ctors = q]
  OBVIOUS
<1>6. /\ o \in Activation /\ o.ops = a.ops /\ o.below = a.below
      /\ o.short = a.short /\ o.alloc = a.alloc /\ o.built = a.built
      /\ o.ctors = q /\ o.self = a.self
  BY <1>4, <1>5 DEF Activation
<1>7. PICK g : g = Append(f, t)
  OBVIOUS
<1>8. /\ Len(f) = u + n /\ Len(g) = u + n + 1 /\ g[u + n + 1] = t
      /\ \A j \in 1 .. u + n : g[j] = f[j]
  <2>1. Len(f) = u + n
    BY <1>1 DEF Upper
  <2>2. PICK S : S = Nat
    OBVIOUS
  <2>3. f \in Seq(S) /\ t \in S
    BY <2>2
  <2>4. /\ Len(Append(f, t)) = Len(f) + 1
        /\ Append(f, t)[Len(f) + 1] = t
        /\ \A i \in 1 .. Len(f) : Append(f, t)[i] = f[i]
    BY <2>3, Pushed
  <2> QED BY <1>7, <2>1, <2>4
<1>9. Upper(o) = u + n + 1
  <2>1. n + 1 = Len(o.ctors) /\ o.below = u
    BY <1>1, <1>4, <1>6
  <2>2. u + (n + 1) = u + n + 1
    OBVIOUS
  <2> QED BY <2>1, <2>2 DEF Upper
<1>10. Opening(o) = w + 1
  BY <1>1, <1>4, <1>6 DEF Opening
<1>11. \A j \in 1 .. n : a.ctors[j].at \in Nat /\ a.ctors[j].at <= w
  <2> SUFFICES ASSUME NEW j \in 1 .. n
               PROVE  a.ctors[j].at \in Nat /\ a.ctors[j].at <= w
    OBVIOUS
  <2>0. n \in 1 .. n
    OBVIOUS
  <2>1. a.ctors[j] \in Ctor /\ a.ctors[n] \in Ctor /\ n \in 1 .. n
    BY <1>1, <1>2, <2>0, ElementOfSeq
  <2>2. j = n \/ a.ctors[j].at < a.ctors[n].at
    <3>1. \A k, m \in 1 .. n : k < m => a.ctors[k].at < a.ctors[m].at
      BY <1>1 DEF Fits, Nests
    <3>2. j = n \/ j < n
      OBVIOUS
    <3> QED BY <2>0, <3>1, <3>2
  <2>3. Opening(a) = a.ctors[n].at
    BY <1>1, <2>1, EmptySeq DEF Opening
  <2>4. PICK x \in Nat, y \in Nat : x = a.ctors[j].at /\ y = a.ctors[n].at
    BY <2>1 DEF Ctor
  <2>5. y <= w
    BY <1>1, <2>3, <2>4
  <2>6. x <= w
    BY <2>2, <2>4, <2>5
  <2> QED BY <2>4, <2>6
<1>12. \A j \in 0 .. n : u + j > 0 => g[u + j] = f[u + j]
  BY <1>8
<1>13. Nests(o, g)
  <2>0. Nests(a, f)
    BY DEF Fits
  <2>1. Upper(o) <= Len(g)
    BY <1>8, <1>9
  <2>2. ASSUME NEW j \in 1 .. n + 1
        PROVE  g[u + j] = q[j].tab /\ q[j].at >= 1
    <3>1. CASE j \in 1 .. n
      <4>1. f[u + j] = a.ctors[j].tab /\ a.ctors[j].at >= 1
        BY <1>1, <2>0, <3>1 DEF Nests
      <4>2. j \in 0 .. n /\ u + j > 0
        BY <3>1
      <4> QED BY <1>4, <1>12, <3>1, <4>1, <4>2
    <3>2. CASE j = n + 1
      <4>1. u + j = u + n + 1 /\ w + 1 >= 1
        BY <3>2
      <4> QED BY <1>1, <1>4, <1>8, <3>2, <4>1
    <3> QED BY <3>1, <3>2
  <2>3. ASSUME NEW i \in 1 .. n + 1, NEW j \in 1 .. n + 1, i < j
        PROVE  q[i].at < q[j].at
    <3>1. CASE j \in 1 .. n
      <4>1. i \in 1 .. n
        BY <2>3, <3>1
      <4>2. a.ctors[i].at < a.ctors[j].at
        BY <1>1, <2>0, <2>3, <3>1, <4>1 DEF Nests
      <4> QED BY <1>4, <3>1, <4>1, <4>2
    <3>2. CASE j = n + 1
      <4>1. i \in 1 .. n
        BY <2>3, <3>2
      <4>2. a.ctors[i].at < w + 1
        BY <1>11, <4>1
      <4>3. q[i] = a.ctors[i] /\ q[j].at = w + 1
        BY <1>1, <1>4, <3>2, <4>1
      <4> QED BY <4>2, <4>3
    <3>3. j \in 1 .. n \/ j = n + 1
      OBVIOUS
    <3> QED BY <3>1, <3>2, <3>3
  <2>4. u > 0 /\ a.self # 0 => a.self = g[u]
    <3>1. u > 0 => g[u] = f[u]
      BY <1>8
    <3> QED BY <1>1, <2>0, <3>1 DEF Nests
  <2> QED BY <1>1, <1>4, <1>6, <2>1, <2>2, <2>3, <2>4 DEF Nests
<1>14. Placed(o, b, e, lk)
  BY <1>6 DEF Fits, Placed, Missing
<1>15. ASSUME NEW i \in 1 .. w
       PROVE  OpFits(o, a.ops[i], i, s[e - w + i], ob, g)
  <2>1. OpFits(a, a.ops[i], i, s[e - w + i], ob, f)
    BY <1>1 DEF Fits, Holds
  <2>2. (\E j \in 1 .. n : a.ctors[j].at <= i)
           => \E j \in 1 .. n + 1 : q[j].at <= i
    <3>1. \A j \in 1 .. n : j \in 1 .. n + 1 /\ q[j] = a.ctors[j]
      BY <1>4
    <3> QED BY <3>1
  <2>3. ASSUME NEW j \in 0 .. n + 1, Inner(o, i, j)
        PROVE  j \in 0 .. n /\ Inner(a, i, j)
    <3>1. j # n + 1
      <4>1. ~ (w + 1 <= i)
        OBVIOUS
      <4>2. j = n + 1 => q[j].at = w + 1 /\ j # 0
        BY <1>1, <1>4
      <4> QED BY <1>6, <2>3, <4>1, <4>2 DEF Inner
    <3>2. j \in 0 .. n
      BY <3>1
    <3>3. j = 0 \/ a.ctors[j].at <= i
      <4>1. j # 0 => j \in 1 .. n
        BY <3>2
      <4> QED BY <1>4, <1>6, <2>3, <4>1 DEF Inner
    <3>4. j = n \/ a.ctors[j + 1].at > i
      <4>1. j # n => j + 1 \in 1 .. n
        BY <3>2
      <4>2. j # Len(q)
        BY <1>4, <3>1
      <4>3. q[j + 1].at > i
        BY <1>6, <2>3, <4>2 DEF Inner
      <4> QED BY <1>4, <4>1, <4>3
    <3> QED BY <1>1, <3>2, <3>3, <3>4 DEF Inner
  <2> QED BY <1>1, <1>4, <1>6, <1>12, <2>1, <2>2, <2>3 DEF OpFits
<1>16. Fits(o, b, e, s, ob, g, lk)
  <2>1. Holds(o, e, s, ob, g)
    BY <1>1, <1>6, <1>15 DEF Holds
  <2> QED BY <1>13, <1>14, <2>1 DEF Fits
<1>17. ASSUME NEW op, NEW v, op.to = t, ~ op.held, ~ IsObj(v)
       PROVE  OpFits(o, op, w + 1, v, ob, g)
  <2>1. \A j \in 0 .. n + 1 : Inner(o, w + 1, j) => j = n + 1
    BY <1>4, <1>6, <1>10, <1>13, InnerTop
  <2>2. g[u + (n + 1)] = t
    BY <1>8
  <2>3. \A j \in 0 .. n + 1 :
           Inner(o, w + 1, j) /\ u + j > 0 => op.to = g[u + j]
    BY <1>17, <2>1, <2>2
  <2> QED BY <1>1, <1>4, <1>6, <1>17, <2>3 DEF OpFits
<1> QED BY <1>1, <1>3, <1>5, <1>6, <1>7, <1>8, <1>9, <1>10, <1>16, <1>17
           DEF HasOpened

(* A construction is complete: its table is the topmost.                   *)
Closes(a, b, e, s, ob, f, lk) ==
    /\ Fits(a, b, e, s, ob, f, lk) /\ Len(f) = Upper(a)
    /\ a.ctors # <<>> /\ Len(a.ops) = Opening(a)
    /\ ~ a.ops[Len(a.ops)].held
    /\ IsFn(s[e]) => a.ops[Len(a.ops)].to = 0
HasClosed(a, b, e, s, ob, f, lk, o, g) ==
    /\ o = [a EXCEPT !.ctors = Front(@), !.alloc = FALSE] /\ g = Front(f)
    /\ o \in Activation /\ o.ops = a.ops /\ o.below = a.below
    /\ o.short = a.short /\ ~ o.alloc /\ o.built = a.built
    /\ Len(g) = Upper(o) /\ Opening(o) <= Len(a.ops)
    /\ Fits(o, b, e, s, ob, g, lk)
    /\ f # <<>> /\ Last(f) = Last(a.ctors).tab
    /\ Last(a.ctors) \in Ctor

LEMMA FitClose ==
    ASSUME NEW a \in Activation, NEW b \in Nat, NEW e \in Nat,
           NEW s, NEW ob, NEW f \in Seq(Nat), NEW lk,
           Closes(a, b, e, s, ob, f, lk)
    PROVE  \E o, g : HasClosed(a, b, e, s, ob, f, lk, o, g)
<1> SUFFICES ASSUME Fits(a, b, e, s, ob, f, lk), Len(f) = Upper(a),
                    a.ctors # <<>>, Len(a.ops) = Opening(a),
                    ~ a.ops[Len(a.ops)].held,
                    IsFn(s[e]) => a.ops[Len(a.ops)].to = 0
             PROVE  \E o, g : HasClosed(a, b, e, s, ob, f, lk, o, g)
  BY DEF Closes
<1>1. PICK n \in Nat, w \in Nat, u \in Nat :
         n = Len(a.ctors) /\ w = Len(a.ops) /\ u = a.below
  BY Sizes
<1>2. a.ctors \in Seq(Ctor) /\ n > 0
  BY <1>1, Sizes, EmptySeq
<1>3. PICK q : q = Front(a.ctors)
  OBVIOUS
<1>4. /\ q \in Seq(Ctor) /\ Len(q) = n - 1
      /\ \A j \in 1 .. n - 1 : q[j] = a.ctors[j]
      /\ Last(a.ctors) = a.ctors[n] /\ a.ctors[n] \in Ctor
  <2>1. PICK z \in Seq(Ctor) : z = a.ctors
    BY <1>2
  <2>2. /\ Front(z) = Without(z, 1) /\ 1 \in 0 .. Len(z)
        /\ Last(z) = z[Len(z)] /\ z[Len(z)] \in Ctor
    BY <2>1, FrontIsCut
  <2>3. /\ Without(z, 1) \in Seq(Ctor) /\ Len(Without(z, 1)) = Len(z) - 1
        /\ \A i \in 1 .. Len(z) - 1 : Without(z, 1)[i] = z[i]
    BY <2>2, Cut
  <2> QED BY <1>1, <1>3, <2>1, <2>2, <2>3
<1>5. PICK o : o = [a EXCEPT !.ctors = q, !.alloc = FALSE]
  OBVIOUS
<1>6. /\ o \in Activation /\ o.ops = a.ops /\ o.below = a.below
      /\ o.short = a.short /\ o.alloc = FALSE /\ o.built = a.built
      /\ o.ctors = q /\ o.self = a.self
  BY <1>4, <1>5 DEF Activation
<1>7. PICK g : g = Front(f)
  OBVIOUS
<1>8. /\ Len(f) = u + n /\ f # <<>> /\ Len(g) = u + n - 1
      /\ Last(f) = f[u + n]
      /\ \A j \in 1 .. u + n - 1 : g[j] = f[j]
  <2>1. Len(f) = u + n
    BY <1>1 DEF Upper
  <2>2. f # <<>>
    BY <1>2, <2>1, EmptySeq
  <2>3. PICK S : S = Nat
    OBVIOUS
  <2>4. f \in Seq(S)
    BY <2>3
  <2>5. /\ Front(f) = Without(f, 1) /\ 1 \in 0 .. Len(f)
        /\ Last(f) = f[Len(f)]
    BY <2>2, <2>4, FrontIsCut
  <2>6. /\ Len(Without(f, 1)) = Len(f) - 1
        /\ \A i \in 1 .. Len(f) - 1 : Without(f, 1)[i] = f[i]
    BY <2>4, <2>5, Cut
  <2> QED BY <1>7, <2>1, <2>2, <2>5, <2>6
<1>9. Upper(o) = u + n - 1
  BY <1>1, <1>4, <1>6 DEF Upper
<1>10. w = a.ctors[n].at
  BY <1>1 DEF Opening
<1>11. Nests(a, f)
  BY DEF Fits
<1>12. \A j \in 0 .. n - 1 : u + j > 0 => g[u + j] = f[u + j]
  BY <1>8
<1>13. Opening(o) <= w
  <2>1. CASE q = <<>>
    BY <1>6, <2>1 DEF Opening
  <2>2. CASE q # <<>>
    <3>1. n - 1 \in 1 .. n - 1
      BY <1>2, <1>4, <2>2, EmptySeq
    <3>2. Opening(o) = a.ctors[n - 1].at
      <4>1. Opening(o) = q[n - 1].at
        BY <1>4, <1>6, <2>2 DEF Opening
      <4> QED BY <1>4, <3>1, <4>1
    <3>3. a.ctors[n - 1].at < a.ctors[n].at
      <4>1. \A k, m \in 1 .. n : k < m => a.ctors[k].at < a.ctors[m].at
        BY <1>1, <1>11 DEF Nests
      <4>2. n - 1 \in 1 .. n /\ n \in 1 .. n /\ n - 1 < n
        BY <3>1
      <4> QED BY <4>1, <4>2
    <3>4. a.ctors[n - 1].at \in Nat
      <4>1. a.ctors[n - 1] \in Ctor
        BY <1>1, <1>2, <3>1, ElementOfSeq
      <4> QED BY <4>1 DEF Ctor
    <3> QED BY <1>10, <3>2, <3>3, <3>4
  <2> QED BY <2>1, <2>2
<1>14. Nests(o, g)
  <2>1. \A j \in 1 .. n - 1 : g[u + j] = q[j].tab /\ q[j].at >= 1
    <3> SUFFICES ASSUME NEW j \in 1 .. n - 1
                 PROVE  g[u + j] = q[j].tab /\ q[j].at >= 1
      OBVIOUS
    <3>1. j \in 1 .. n /\ j \in 0 .. n - 1 /\ u + j > 0
      OBVIOUS
    <3> QED BY <1>1, <1>4, <1>11, <1>12, <3>1 DEF Nests
  <2>2. \A i, j \in 1 .. n - 1 : i < j => q[i].at < q[j].at
    <3>1. \A i \in 1 .. n - 1 : i \in 1 .. n
      OBVIOUS
    <3> QED BY <1>1, <1>4, <1>11, <3>1 DEF Nests
  <2>3. u > 0 /\ a.self # 0 => a.self = g[u]
    <3>1. u > 0 => g[u] = f[u]
      BY <1>2, <1>8
    <3> QED BY <1>1, <1>11, <3>1 DEF Nests
  <2>4. Upper(o) <= Len(g)
    BY <1>8, <1>9
  <2> QED BY <1>1, <1>4, <1>6, <2>1, <2>2, <2>3, <2>4 DEF Nests
<1>15. Placed(o, b, e, lk)
  BY <1>6 DEF Fits, Placed, Missing
<1>16. ASSUME NEW i \in 1 .. w
       PROVE  OpFits(o, a.ops[i], i, s[e - w + i], ob, g)
  <2>1. OpFits(a, a.ops[i], i, s[e - w + i], ob, f)
    BY <1>1 DEF Fits, Holds
  <2>2. a.ops[i].held /\ (\E j \in 1 .. n : a.ctors[j].at <= i)
           => \E j \in 1 .. n - 1 : q[j].at <= i
    <3> SUFFICES ASSUME a.ops[i].held, NEW j \in 1 .. n, a.ctors[j].at <= i
                 PROVE  \E k \in 1 .. n - 1 : q[k].at <= i
      OBVIOUS
    <3>1. i # w
      BY <1>1
    <3>2. j # n
      BY <1>10, <3>1
    <3>3. j \in 1 .. n - 1
      BY <3>2
    <3> QED BY <1>4, <3>3
  <2>3. ASSUME NEW j \in 0 .. n - 1, Inner(o, i, j), i # w
        PROVE  j \in 0 .. n /\ Inner(a, i, j)
    <3>1. j = 0 \/ a.ctors[j].at <= i
      <4>1. j # 0 => j \in 1 .. n - 1
        OBVIOUS
      <4> QED BY <1>4, <1>6, <2>3, <4>1 DEF Inner
    <3>2. a.ctors[j + 1].at > i
      <4>1. CASE j = n - 1
        <5>1. w > i
          BY <2>3
        <5>2. j + 1 = n
          BY <4>1
        <5> QED BY <1>10, <5>1, <5>2
      <4>2. CASE j # n - 1
        <5>1. j + 1 \in 1 .. n - 1
          BY <4>2
        <5>2. q[j + 1].at > i
          BY <1>4, <1>6, <2>3, <4>2 DEF Inner
        <5> QED BY <1>4, <5>1, <5>2
      <4> QED BY <4>1, <4>2
    <3> QED BY <3>1, <3>2 DEF Inner
  <2>5. IsFn(s[e - w + i]) /\ i = w => a.ops[i].to = 0
    <3>1. i = w => e - w + i = e
      OBVIOUS
    <3> QED BY <1>1, <3>1
  <2>6. ASSUME ~ a.ops[i].held, IsFn(s[e - w + i]), a.ops[i].to # 0,
               NEW j \in 0 .. n - 1, Inner(o, i, j), u + j > 0
        PROVE  a.ops[i].to = g[u + j]
    <3>1. i # w
      BY <2>5, <2>6
    <3>2. j \in 0 .. n /\ Inner(a, i, j)
      BY <2>3, <2>6, <3>1
    <3>3. a.ops[i].to = f[u + j]
      BY <1>1, <2>1, <2>6, <3>2 DEF OpFits
    <3> QED BY <1>12, <2>6, <3>3
  <2> QED BY <1>1, <1>4, <1>6, <2>1, <2>2, <2>6 DEF OpFits
<1>17. Fits(o, b, e, s, ob, g, lk)
  <2>1. Holds(o, e, s, ob, g)
    BY <1>1, <1>6, <1>16 DEF Holds
  <2> QED BY <1>14, <1>15, <2>1 DEF Fits
<1>18. Last(f) = Last(a.ctors).tab
  <2>1. n \in 1 .. n
    BY <1>2
  <2> QED BY <1>1, <1>4, <1>8, <1>11, <2>1 DEF Nests
<1> QED BY <1>1, <1>3, <1>4, <1>5, <1>6, <1>7, <1>8, <1>9, <1>13, <1>17,
           <1>18 DEF HasClosed

LEMMA ClassKeeps ==
    ASSUME ObjectsInv, NEW c \in HasInit, Class(c)
    PROVE  ObjectsInv'
<1>1. /\ Goes /\ ~ act.alloc
      /\ tables' = Append(tables, Copy(c))
      /\ init_field' = Append(init_field, Len(tables'))
      /\ stack' = Append(stack, Fn(init))
      /\ acts' = [acts EXCEPT
            ![Len(acts)].ops = Append(@, Op(Len(tables'))),
            ![Len(acts)].ctors = Append(@, [at |-> Len(act.ops) + 1, of |-> c,
                                            tab |-> Len(tables')])]
      /\ UNCHANGED <<frames, objs, caller, looked, legal>>
  BY DEF Class, Instr, PushItab
<1>2. /\ Types /\ Known /\ Owned /\ Deep /\ Called /\ Running /\ legal
      /\ act \in Activation /\ frame.return_index \in Nat
      /\ Len(stack) \in Nat /\ Len(stack) > frame.return_index
      /\ Fits(act, frame.return_index, Len(stack), stack, objs,
              init_field, looked)
      /\ Ready(act, stack)
  BY <1>1, Situation
<1>3. c \in Classes /\ init \in Code
  BY ObjectsAssumption DEF Code
<1>4. PICK b \in Nat, e \in Nat, w \in Nat, t \in Nat :
         /\ b = frame.return_index /\ e = Len(stack) /\ w = Len(act.ops)
         /\ t = Len(tables) + 1
  <2>1. Len(tables) \in Nat /\ Len(act.ops) \in Nat
    BY <1>2, Sizes DEF Types
  <2> QED BY <1>2, <2>1
<1>5. /\ tables' \in Seq(Tables) /\ Len(tables') = t
      /\ tables'[t] = Copy(c)
      /\ \A k \in 1 .. Len(tables) : tables'[k] = tables[k]
      /\ Len(tables) \in Nat
  BY <1>1, <1>2, <1>3, <1>4, CopyWell, Pushed DEF Types
<1>6. PICK x : x = [at |-> Len(act.ops) + 1, of |-> c, tab |-> t]
  OBVIOUS
<1>7. x \in Ctor /\ x.at = Len(act.ops) + 1 /\ x.tab = t
  BY <1>3, <1>4, <1>6 DEF Ctor
<1>10. Len(init_field) = Upper(act)
  BY <1>2, Innermost
<1>8. PICK o, f : HasOpened(act, b, e, stack, objs, init_field, looked, x,
                            o, f)
  <2>1. Opening(act) <= Len(act.ops) /\ init_field \in Seq(Nat)
    BY <1>2 DEF Ready, Types
  <2>2. Opens(act, b, e, stack, objs, init_field, looked, x)
    BY <1>2, <1>4, <1>7, <1>10, <2>1 DEF Opens
  <2> QED BY <1>2, <1>7, <2>1, <2>2, FitOpen
<1>11. /\ o = [act EXCEPT !.ctors = Append(@, x)]
       /\ f = Append(init_field, t)
       /\ o \in Activation /\ o.ops = act.ops /\ o.below = act.below
       /\ o.short = act.short /\ o.alloc = act.alloc /\ o.built = act.built
       /\ Len(f) = Upper(o) /\ Opening(o) = Len(act.ops) + 1
       /\ Fits(o, b, e, stack, objs, f, looked)
       /\ \A p, v : p.to = t /\ ~ p.held /\ ~ IsObj(v) =>
             OpFits(o, p, Len(act.ops) + 1, v, objs, f)
  BY <1>7, <1>8 DEF HasOpened
<1>12. PICK op : op = Op(t)
  OBVIOUS
<1>13. op \in Operation /\ op.to = t /\ op.held = FALSE
  BY <1>12 DEF Op, Operation
<1>14. PICK a : a = [o EXCEPT !.ops = Append(@, op)]
  OBVIOUS
<1>15. /\ stack' \in Seq(Cell) /\ Len(stack') = e + 1
       /\ stack'[e + 1] = Fn(init) /\ ~ IsObj(Fn(init))
       /\ \A i \in 1 .. e : stack'[i] = stack[i]
  BY <1>1, <1>2, <1>3, <1>4, CellKinds, Pushed DEF Types
<1>16. Fits(a, b, e + 1, stack', objs, f, looked) /\ a \in Activation
  <2>1. \A i \in b + 1 .. e : i \in 1 .. e
    OBVIOUS
  <2>2. \A i \in b + 1 .. e : stack'[i] = stack[i]
    BY <1>15, <2>1
  <2>3. OpFits(o, op, Len(act.ops) + 1, Fn(init), objs, f)
    BY <1>11, <1>13, <1>15
  <2>4. OpFits(o, op, Len(o.ops) + 1, stack'[e + 1], objs, f)
    BY <1>11, <1>15, <2>3
  <2>5. Fits(o, b, e, stack, objs, f, looked) /\ o \in Activation
        /\ op \in Operation
    BY <1>11, <1>13
  <2> QED BY <1>14, <2>2, <2>4, <2>5, FitPush
<1>17. PICK q : q = Append(act.ops, op)
  OBVIOUS
<1>18. q \in Seq(Operation) /\ Len(q) = w + 1 /\ q # <<>>
  BY <1>2, <1>4, <1>13, <1>17, Sizes, Pushed
<1>19. /\ a.ops = q /\ a.below = act.below /\ a.ctors = o.ctors
       /\ a.alloc = act.alloc /\ a.built = act.built
  BY <1>11, <1>14, <1>17, <1>18 DEF Activation
<1>20. acts' = [acts EXCEPT ![Len(acts)] = a]
  <2>1. Len(acts) \in 1 .. Len(acts) /\ act = acts[Len(acts)]
        /\ acts \in Seq(Activation)
    BY <1>2, TopIs DEF Types
  <2>2. a = [act EXCEPT !.ops = Append(@, op), !.ctors = Append(@, x)]
    <3>1. o = [act EXCEPT !.ctors = Append(@, x)] /\ o.ops = act.ops
      BY <1>11
    <3> QED BY <1>14, <3>1
  <2>3. Op(Len(tables')) = op
        /\ [at |-> Len(act.ops) + 1, of |-> c, tab |-> Len(tables')] = x
    BY <1>5, <1>6, <1>12
  <2>4. acts' = [acts EXCEPT ![Len(acts)] =
                   [acts[Len(acts)] EXCEPT !.ops = Append(@, op),
                                           !.ctors = Append(@, x)]]
    BY <1>1, <2>1, <2>3
  <2> QED BY <2>1, <2>2, <2>4
<1>21. /\ acts' \in Seq(Activation) /\ Len(acts') = Len(acts)
  BY <1>2, <1>16, <1>20, TopWritten
<1>22. init_field' = f
  BY <1>1, <1>5, <1>11
<1>23. /\ f \in Seq(Nat) /\ Len(f) = Len(init_field) + 1
       /\ f[Len(init_field) + 1] = t
       /\ \A i \in 1 .. Len(init_field) : f[i] = init_field[i]
       /\ Len(init_field) \in Nat
  <2>1. PICK S : S = Nat
    OBVIOUS
  <2>2. init_field \in Seq(S) /\ t \in S
    BY <1>2, <2>1 DEF Types
  <2>3. /\ Append(init_field, t) \in Seq(S)
        /\ Len(Append(init_field, t)) = Len(init_field) + 1
        /\ Append(init_field, t)[Len(init_field) + 1] = t
        /\ \A i \in 1 .. Len(init_field) :
              Append(init_field, t)[i] = init_field[i]
    BY <2>2, Pushed
  <2>4. Len(init_field) \in Nat
    BY <1>2 DEF Types
  <2> QED BY <1>11, <2>1, <2>3, <2>4
<1>24. Types'
  BY <1>1, <1>2, <1>5, <1>15, <1>21, <1>22, <1>23 DEF Types
<1>25. Known'
  <2>1. \A i \in 1 .. e : Sound(stack'[i])
    BY <1>2, <1>4, <1>15 DEF Known
  <2>2. Sound(stack'[e + 1])
    BY <1>15 DEF Sound
  <2>3. \A i \in 1 .. e + 1 : i \in 1 .. e \/ i = e + 1
    OBVIOUS
  <2>4. \A i \in 1 .. Len(stack') : Sound(stack'[i])
    BY <1>15, <2>1, <2>2, <2>3
  <2>5. ASSUME NEW k \in 1 .. Len(tables'), NEW p \in DOMAIN tables'[k]
        PROVE  Sound(tables'[k][p])
    <3>1. CASE k = t
      BY <1>3, <1>5, <3>1, CopyWell DEF Sound
    <3>2. CASE k # t
      <4>1. k \in 1 .. Len(tables)
        BY <1>4, <1>5, <3>2
      <4> QED BY <1>2, <1>5, <4>1 DEF Known
    <3> QED BY <3>1, <3>2
  <2> QED BY <1>1, <2>4, <2>5 DEF Known, Sound
<1>26. Owned'
  <2>1. PICK z \in Nat : z = Len(init_field)
    BY <1>23
  <2>2. /\ \A i \in 1 .. z : init_field[i] \in 1 .. t - 1
        /\ \A i \in 1 .. Len(objs) : objs[i].fields \in 1 .. t - 1
        /\ \A i, j \in 1 .. z : init_field[i] = init_field[j] => i = j
        /\ \A i, j \in 1 .. Len(objs) :
              objs[i].fields = objs[j].fields => i = j
        /\ \A i \in 1 .. z, j \in 1 .. Len(objs) :
              init_field[i] # objs[j].fields
    <3>1. t - 1 = Len(tables)
      BY <1>4, <1>5
    <3> QED BY <1>2, <2>1, <3>1 DEF Owned
  <2>3. t \notin 1 .. t - 1 /\ t \in 1 .. t /\ 1 .. t - 1 \subseteq 1 .. t
    BY <1>4, <1>5
  <2>4. \A i \in 1 .. z + 1 : \/ i \in 1 .. z /\ f[i] = init_field[i]
                              \/ i = z + 1 /\ f[i] = t
    BY <1>23, <2>1
  <2>5. \A i, j \in 1 .. z + 1 : f[i] = f[j] => i = j
    BY <2>2, <2>3, <2>4
  <2>6. \A i \in 1 .. z + 1, j \in 1 .. Len(objs) : f[i] # objs[j].fields
    BY <2>2, <2>3, <2>4
  <2>7. /\ \A i \in 1 .. z + 1 : f[i] \in 1 .. t
        /\ \A i \in 1 .. Len(objs) : objs[i].fields \in 1 .. t
    BY <2>2, <2>3, <2>4
  <2>8. Len(f) = z + 1 /\ init_field' = f /\ Len(tables') = t /\ objs' = objs
    BY <1>1, <1>5, <1>22, <1>23, <2>1
  <2> QED BY <2>2, <2>5, <2>6, <2>7, <2>8 DEF Owned
<1>27. Called'
  BY <1>1, <1>2 DEF Called
<1>28. Deep'
  <2>1. Opening(a) = w + 1
    BY <1>4, <1>11, <1>19 DEF Opening
  <2>2. Ready(a, stack')
    BY <1>1, <1>18, <1>19, <2>1 DEF Ready
  <2>3. Len(f) = Upper(a)
    BY <1>11, <1>19 DEF Upper
  <2>4. \A i \in 1 .. act.below : f[i] = init_field[i]
    <3>1. PICK u \in Nat, n \in Nat :
             u = act.below /\ n = Len(act.ctors)
      BY <1>2, Sizes
    <3>2. Len(init_field) = u + n
      BY <1>10, <3>1 DEF Upper
    <3>3. \A i \in 1 .. u : i \in 1 .. u + n
      OBVIOUS
    <3> QED BY <1>23, <3>1, <3>2, <3>3
  <2>5. \A i \in 1 .. frame.return_index : stack'[i] = stack[i]
    <3>1. \A i \in 1 .. b : i \in 1 .. e
      BY <1>2, <1>4
    <3> QED BY <1>4, <1>15, <3>1
  <2>6. Len(stack) >= frame.return_index
    BY <1>2
  <2>7. Fits(a, frame.return_index, Len(stack'), stack', objs',
             init_field', looked')
    BY <1>1, <1>4, <1>15, <1>16, <1>22
  <2>8. TopStep(a)
    BY <1>1, <1>19, <1>20, <1>22, <2>2, <2>3, <2>4, <2>5, <2>6, <2>7
       DEF TopStep
  <2> QED BY <1>2, <1>16, <1>24, <2>8, TopKeeps
<1> QED BY <1>24, <1>25, <1>26, <1>27, <1>28 DEF ObjectsInv

LEMMA AllocBuiltKeeps ==
    ASSUME ObjectsInv, AllocBuilt
    PROVE  ObjectsInv'
<1>1. /\ Goes /\ act.alloc
      /\ objs' = Append(objs, Instance(Last(act.ctors).of, Last(init_field)))
      /\ init_field' = Front(init_field)
      /\ stack' = Append(stack, Obj(Len(objs')))
      /\ acts' = [acts EXCEPT
            ![Len(acts)].ops = Append(@, Op(Last(act.ctors).tab)),
            ![Len(acts)].ctors = Front(@),
            ![Len(acts)].alloc = FALSE]
      /\ UNCHANGED <<frames, tables, caller, looked, legal>>
  BY DEF AllocBuilt, PopItab
<1>2. /\ Types /\ Known /\ Owned /\ Deep /\ Called /\ Running /\ legal
      /\ act \in Activation /\ frame.return_index \in Nat
      /\ Len(stack) \in Nat /\ Len(stack) > frame.return_index
      /\ Len(stack) - Len(act.ops) >= frame.return_index
      /\ Fits(act, frame.return_index, Len(stack), stack, objs,
              init_field, looked)
      /\ Ready(act, stack)
  BY <1>1, Situation
<1>3. PICK b \in Nat, e \in Nat, w \in Nat, z \in Nat :
         /\ b = frame.return_index /\ e = Len(stack) /\ w = Len(act.ops)
         /\ z = Len(objs)
  BY <1>2, Sizes DEF Types
<1>6. PICK x : x = Last(act.ctors)
  OBVIOUS
<1>7. Len(init_field) = Upper(act) /\ init_field \in Seq(Nat)
  BY <1>2, Innermost DEF Types
<1>5. PICK o, f : HasClosed(act, b, e, stack, objs, init_field, looked, o, f)
  <2>1. /\ act.ctors # <<>> /\ Len(act.ops) = Opening(act)
        /\ ~ act.ops[Len(act.ops)].held
        /\ IsFn(stack[Len(stack)]) => act.ops[Len(act.ops)].to = 0
    BY <1>1, <1>2 DEF Ready
  <2>2. Closes(act, b, e, stack, objs, init_field, looked)
    BY <1>2, <1>3, <1>7, <2>1 DEF Closes
  <2> QED BY <1>2, <1>7, <2>2, FitClose
<1>8. /\ o = [act EXCEPT !.ctors = Front(@), !.alloc = FALSE]
      /\ f = Front(init_field)
      /\ o \in Activation /\ o.ops = act.ops /\ o.below = act.below
      /\ o.short = act.short /\ ~ o.alloc /\ o.built = act.built
      /\ Len(f) = Upper(o) /\ Opening(o) <= Len(act.ops)
      /\ Fits(o, b, e, stack, objs, f, looked)
      /\ init_field # <<>> /\ Last(init_field) = x.tab /\ x \in Ctor
  BY <1>5, <1>6 DEF HasClosed
<1>9. PICK l \in Nat : l = Len(init_field)
  BY <1>2 DEF Types
<1>10. /\ f \in Seq(Nat) /\ Len(f) = l - 1 /\ l >= 1
       /\ Last(init_field) = init_field[l] /\ init_field[l] \in Nat
       /\ \A i \in 1 .. l - 1 : f[i] = init_field[i]
  <2>1. PICK S : S = Nat
    OBVIOUS
  <2>2. init_field \in Seq(S)
    BY <1>7, <2>1
  <2>3. /\ Front(init_field) = Without(init_field, 1)
        /\ 1 \in 0 .. Len(init_field)
        /\ Last(init_field) = init_field[Len(init_field)]
        /\ init_field[Len(init_field)] \in S
    BY <1>8, <2>2, FrontIsCut
  <2>4. /\ Without(init_field, 1) \in Seq(S)
        /\ Len(Without(init_field, 1)) = Len(init_field) - 1
        /\ \A i \in 1 .. Len(init_field) - 1 :
              Without(init_field, 1)[i] = init_field[i]
    BY <2>2, <2>3, Cut
  <2> QED BY <1>8, <1>9, <2>1, <2>3, <2>4
<1>11. PICK y : y = Instance(x.of, Last(init_field))
  OBVIOUS
<1>12. y \in Instances /\ y.fields = init_field[l]
  BY <1>8, <1>10, <1>11 DEF Instance, Instances, Ctor
<1>13. /\ objs' \in Seq(Instances) /\ Len(objs') = z + 1
       /\ objs'[z + 1] = y /\ \A i \in 1 .. z : objs'[i] = objs[i]
  BY <1>1, <1>2, <1>3, <1>6, <1>11, <1>12, Pushed DEF Types
<1>14. PICK v : v = Obj(z + 1)
  OBVIOUS
<1>15. v \in Cell /\ IsObj(v) /\ ~ IsFn(v) /\ v[2] = z + 1
  BY <1>14, CellKinds
<1>16. /\ stack' \in Seq(Cell) /\ Len(stack') = e + 1 /\ stack'[e + 1] = v
       /\ \A i \in 1 .. e : stack'[i] = stack[i]
  BY <1>1, <1>2, <1>3, <1>13, <1>14, <1>15, Pushed DEF Types
<1>17. Fits(o, b, e, stack, objs', f, looked)
  <2>1. \A i \in b + 1 .. e : i \in 1 .. e
    OBVIOUS
  <2>2. \A i \in b + 1 .. e : IsObj(stack[i]) => stack[i][2] \in 1 .. Len(objs)
    BY <1>2, <1>3, <2>1 DEF Known, Sound
  <2>3. \A i \in 1 .. Len(objs) : objs'[i] = objs[i]
    BY <1>3, <1>13
  <2>4. Upper(o) <= Len(f) /\ Len(f) >= Upper(o)
    BY <1>8, <1>10, <1>9
  <2>5. Kept(o, b, e, stack, objs, f, looked, stack, objs', f, looked)
    BY <2>2, <2>3, <2>4 DEF Kept
  <2> QED BY <1>8, <2>5, FitMove
<1>18. PICK op : op = Op(x.tab)
  OBVIOUS
<1>19. op \in Operation /\ op.to = x.tab /\ op.held = FALSE
  BY <1>8, <1>18 DEF Op, Operation, Ctor
<1>20. OpFits(o, op, Len(o.ops) + 1, stack'[e + 1], objs', f)
  <2>1. objs'[v[2]].fields = x.tab
    BY <1>8, <1>10, <1>12, <1>13, <1>15
  <2> QED BY <1>15, <1>16, <1>19, <2>1 DEF OpFits
<1>21. PICK a : a = [o EXCEPT !.ops = Append(@, op)]
  OBVIOUS
<1>22. Fits(a, b, e + 1, stack', objs', f, looked) /\ a \in Activation
  <2>1. \A i \in b + 1 .. e : i \in 1 .. e
    OBVIOUS
  <2>2. \A i \in b + 1 .. e : stack'[i] = stack[i]
    BY <1>16, <2>1
  <2>3. o \in Activation /\ op \in Operation
    BY <1>8, <1>19
  <2> QED BY <1>17, <1>20, <1>21, <2>2, <2>3, FitPush
<1>23. PICK q : q = Append(act.ops, op)
  OBVIOUS
<1>24. q \in Seq(Operation) /\ Len(q) = w + 1 /\ q # <<>>
  BY <1>2, <1>3, <1>19, <1>23, Sizes, Pushed
<1>25. /\ a.ops = q /\ a.below = act.below /\ a.ctors = o.ctors
       /\ a.alloc = FALSE /\ a.built = act.built
  BY <1>8, <1>21, <1>23, <1>24 DEF Activation
<1>26. acts' = [acts EXCEPT ![Len(acts)] = a]
  <2>1. Len(acts) \in 1 .. Len(acts) /\ act = acts[Len(acts)]
        /\ acts \in Seq(Activation)
    BY <1>2, TopIs DEF Types
  <2>2. a = [act EXCEPT !.ops = Append(@, op), !.ctors = Front(@),
                        !.alloc = FALSE]
    <3>1. /\ o = [act EXCEPT !.ctors = Front(@), !.alloc = FALSE]
          /\ o.ops = act.ops
      BY <1>8
    <3> QED BY <1>21, <3>1
  <2>3. Op(Last(act.ctors).tab) = op
    BY <1>6, <1>18
  <2>4. acts' = [acts EXCEPT ![Len(acts)] =
                   [acts[Len(acts)] EXCEPT !.ops = Append(@, op),
                      !.ctors = Front(@), !.alloc = FALSE]]
    BY <1>1, <2>1, <2>3
  <2> QED BY <2>1, <2>2, <2>4
<1>27. /\ acts' \in Seq(Activation) /\ Len(acts') = Len(acts)
  BY <1>2, <1>22, <1>26, TopWritten
<1>28. init_field' = f
  BY <1>1, <1>8
<1>29. Types'
  <2>1. caller' \in 0 .. Len(objs')
    BY <1>1, <1>2, <1>3, <1>13 DEF Types
  <2> QED BY <1>1, <1>2, <1>10, <1>13, <1>16, <1>27, <1>28, <2>1 DEF Types
<1>30. Known'
  <2>1. \A i \in 1 .. e : Sound(stack[i]) /\ stack'[i] = stack[i]
    BY <1>2, <1>3, <1>16 DEF Known
  <2>2. \A i \in 1 .. e : Sound(stack[i])'
    BY <1>3, <1>13, <2>1 DEF Sound
  <2>3. Sound(stack[e + 1])'
    BY <1>13, <1>15, <1>16 DEF Sound
  <2>4. \A i \in 1 .. e + 1 : i \in 1 .. e \/ i = e + 1
    OBVIOUS
  <2>5. \A i \in 1 .. Len(stack') : Sound(stack[i])'
    BY <1>16, <2>2, <2>3, <2>4
  <2>6. ASSUME NEW t \in 1 .. Len(tables'), NEW p \in DOMAIN tables'[t]
        PROVE  Sound(tables[t][p])'
    <3>1. Sound(tables[t][p])
      BY <1>1, <1>2 DEF Known
    <3>2. Len(objs) = z /\ Len(objs') = z + 1 /\ tables' = tables
      BY <1>1, <1>3, <1>13
    <3> QED BY <3>1, <3>2 DEF Sound
  <2> QED BY <2>5, <2>6 DEF Known
<1>31. Owned'
  <2>1. /\ \A i \in 1 .. l : init_field[i] \in 1 .. Len(tables)
        /\ \A i \in 1 .. z : objs[i].fields \in 1 .. Len(tables)
        /\ \A i, j \in 1 .. l : init_field[i] = init_field[j] => i = j
        /\ \A i, j \in 1 .. z : objs[i].fields = objs[j].fields => i = j
        /\ \A i \in 1 .. l, j \in 1 .. z : init_field[i] # objs[j].fields
    BY <1>2, <1>3, <1>9 DEF Owned
  <2>2. l \in 1 .. l /\ \A i \in 1 .. l - 1 : i \in 1 .. l /\ i # l
    BY <1>10
  <2>3. \A i \in 1 .. z + 1 :
           \/ i \in 1 .. z /\ objs'[i] = objs[i]
           \/ i = z + 1 /\ objs'[i].fields = init_field[l]
    BY <1>12, <1>13
  <2>4. \A i \in 1 .. l - 1 : f[i] = init_field[i] /\ i \in 1 .. l
    BY <1>10, <2>2
  <2>5. \A i, j \in 1 .. l - 1 : f[i] = f[j] => i = j
    BY <2>1, <2>4
  <2>6. \A i, j \in 1 .. z + 1 : objs'[i].fields = objs'[j].fields => i = j
    BY <2>1, <2>2, <2>3
  <2>7. \A i \in 1 .. l - 1, j \in 1 .. z + 1 : f[i] # objs'[j].fields
    BY <2>1, <2>2, <2>3, <2>4
  <2>8. /\ \A i \in 1 .. l - 1 : f[i] \in 1 .. Len(tables)
        /\ \A i \in 1 .. z + 1 : objs'[i].fields \in 1 .. Len(tables)
    BY <2>1, <2>2, <2>3, <2>4
  <2>9. Len(f) = l - 1 /\ init_field' = f /\ tables' = tables
        /\ Len(objs') = z + 1
    BY <1>1, <1>10, <1>13, <1>28
  <2> QED BY <2>5, <2>6, <2>7, <2>8, <2>9 DEF Owned
<1>32. Called'
  BY <1>1, <1>2, <1>3, <1>13, CalledStays
<1>33. Deep'
  <2>1. Opening(a) = Opening(o) /\ Opening(o) \in Nat /\ Opening(o) <= w
    BY <1>3, <1>8, <1>25, OpeningNat DEF Opening
  <2>2. Ready(a, stack')
    BY <1>24, <1>25, <2>1 DEF Ready
  <2>3. Len(f) = Upper(a)
    BY <1>8, <1>25 DEF Upper
  <2>4. \A i \in 1 .. act.below : f[i] = init_field[i]
    <3>1. PICK u \in Nat, n \in Nat : u = o.below /\ n = Len(o.ctors)
      BY <1>8, Sizes
    <3>2. l - 1 = u + n
      BY <1>8, <1>10, <3>1 DEF Upper
    <3>3. \A i \in 1 .. u : i \in 1 .. l - 1
      BY <3>2
    <3> QED BY <1>8, <1>10, <3>1, <3>3
  <2>5. \A i \in 1 .. frame.return_index : stack'[i] = stack[i]
    <3>1. \A i \in 1 .. b : i \in 1 .. e
      BY <1>2, <1>3
    <3> QED BY <1>3, <1>16, <3>1
  <2>6. Len(stack) >= frame.return_index
    BY <1>2
  <2>7. Fits(a, frame.return_index, Len(stack'), stack', objs',
             init_field', looked')
    BY <1>1, <1>3, <1>16, <1>22, <1>28
  <2>8. \A i \in 1 .. Len(objs) : objs'[i] = objs[i]
    BY <1>3, <1>13
  <2>9. TopStep(a)
    BY <1>1, <1>25, <1>26, <1>28, <2>2, <2>3, <2>4, <2>5, <2>6, <2>7, <2>8
       DEF TopStep
  <2> QED BY <1>2, <1>22, <1>29, <2>9, TopKeeps
<1> QED BY <1>29, <1>30, <1>31, <1>32, <1>33 DEF ObjectsInv

LEMMA InterpretKeeps ==
    ASSUME ObjectsInv, Interpret
    PROVE  ObjectsInv'
<1>1. /\ ~ Running /\ stack' = Append(stack, Fn("script"))
      /\ frames' = <<[closure |-> "script", return_index |-> Len(stack)]>>
      /\ acts' = <<Act(0, FALSE, Len(stack'))>>
      /\ UNCHANGED <<init_field, tables, objs, caller, looked, legal>>
  BY DEF Interpret, heap
<1>2. Types /\ Known /\ Owned /\ (legal => Deep /\ Called)
  BY DEF ObjectsInv
<1>3. PICK e \in Nat : e = Len(stack)
  BY <1>2 DEF Types
<1>4. Fn("script") \in Cell /\ ~ IsObj(Fn("script"))
  BY CellKinds DEF Code
<1>5. /\ stack' \in Seq(Cell) /\ Len(stack') = e + 1
      /\ stack'[e + 1] = Fn("script") /\ \A i \in 1 .. e : stack'[i] = stack[i]
  BY <1>1, <1>2, <1>3, <1>4, Pushed DEF Types
<1>6. PICK a : a = Act(0, FALSE, Len(stack'))
  OBVIOUS
<1>7. /\ a \in Activation /\ a.self = 0 /\ a.alloc = FALSE
      /\ a.ctors = <<>> /\ a.ops = <<>> /\ a.short = FALSE
      /\ a.below = Len(init_field)
  <2>1. Len(init_field) \in Nat /\ e + 1 \in Nat
    BY <1>2 DEF Types
  <2>2. <<>> \in Seq(Ctor) /\ <<>> \in Seq(Operation)
    OBVIOUS
  <2> QED BY <1>5, <1>6, <2>1, <2>2 DEF Act, Activation
<1>8. acts' = <<a>>
  BY <1>1, <1>6
<1>9. acts' \in Seq(Activation) /\ Len(acts') = 1 /\ acts'[1] = a
  BY <1>7, <1>8
<1>10. PICK r : r = [closure |-> "script", return_index |-> e]
  OBVIOUS
<1>11. r \in Frame /\ r.return_index = e
  BY <1>10 DEF Frame, Code
<1>12. frames' \in Seq(Frame) /\ Len(frames') = 1 /\ frames'[1] = r
  BY <1>1, <1>3, <1>10, <1>11
<1>13. Types'
  BY <1>1, <1>2, <1>5, <1>9, <1>12 DEF Types
<1>14. Known'
  <2>1. \A i \in 1 .. e : Sound(stack'[i])
    BY <1>2, <1>3, <1>5 DEF Known
  <2>2. Sound(stack'[e + 1])
    BY <1>4, <1>5 DEF Sound
  <2>3. \A i \in 1 .. e + 1 : i \in 1 .. e \/ i = e + 1
    OBVIOUS
  <2>4. \A i \in 1 .. Len(stack') : Sound(stack'[i])
    BY <1>5, <2>1, <2>2, <2>3
  <2> QED BY <1>1, <1>2, <2>4 DEF Known, Sound
<1>15. Owned'
  BY <1>1, <1>2, OwnedStays
<1>16. ASSUME legal' = TRUE
       PROVE  Deep' /\ Called'
  <2>1. Deep /\ Called
    BY <1>1, <1>2, <1>16
  <2>2. Called'
    BY <1>1, <2>1 DEF Called
  <2>3. Len(acts) = 0 /\ Len(init_field) = 0
    <3>1. frames = <<>>
      BY <1>1 DEF Running
    <3>2. Len(acts) = 0
      BY <1>2, <3>1 DEF Types
    <3> QED BY <2>1, <3>2 DEF Deep, Stacked, Upto
  <2>4. a.below = 0 /\ Len(a.ctors) = 0 /\ Len(a.ops) = 0
    BY <1>7, <2>3
  <2>5. Upto(1)' = 0 /\ Upto(0)' = 0
    BY <1>9, <2>4 DEF Upto
  <2>6. Stacked'
    <3>1. ASSUME NEW k \in 1 .. 1
          PROVE  /\ acts'[k].below = Upto(k - 1)'
                 /\ acts'[k].below > 0 <=>
                       \E j \in 1 .. k - 1 : acts'[j].ctors # <<>>
                 /\ \A j \in 1 .. k - 1 :
                       /\ Upper(acts'[j]) <= acts'[k].below
                       /\ Base(j)' <= Base(k)'
      <4>1. k = 1 /\ k - 1 = 0 /\ 1 .. k - 1 = {}
        OBVIOUS
      <4> QED BY <1>9, <2>4, <2>5, <4>1
    <3>2. Len(init_field') = Upto(Len(acts))'
      BY <1>1, <1>9, <2>3, <2>5 DEF Upto
    <3> QED BY <1>9, <3>1, <3>2 DEF Stacked, Upto
  <2>7. Opened'
    <3>1. 1 .. Len(acts') - 1 = {}
      BY <1>9
    <3> QED BY <3>1 DEF Opened
  <2>8. Fits(a, e, e + 1, stack', objs', init_field', looked')
    <3>1. Placed(a, e, e + 1, looked')
      BY <1>7, <2>4 DEF Placed, Missing
    <3>2. Nests(a, init_field')
      BY <1>1, <2>3, <2>4 DEF Nests, Upper
    <3>3. Holds(a, e + 1, stack', objs', init_field')
      BY <2>4 DEF Holds
    <3> QED BY <3>1, <3>2, <3>3 DEF Fits
  <2>9. AllFit'
    <3>1. End(1)' = e + 1 /\ Base(1)' = e
      BY <1>5, <1>9, <1>11, <1>12 DEF End, Base
    <3>2. ASSUME NEW k \in 1 .. 1
          PROVE  Fits(acts'[k], Base(k)', End(k)', stack', objs',
                      init_field', looked')
      <4>1. k = 1
        OBVIOUS
      <4> QED BY <1>9, <2>8, <3>1, <4>1
    <3> QED BY <1>9, <3>2 DEF AllFit
  <2>10. act' = a
    BY <1>8 DEF act, Last
  <2>11. Ready(a, stack')
    BY <1>7, <2>4 DEF Ready, Opening
  <2> QED BY <2>2, <2>6, <2>7, <2>9, <2>10, <2>11 DEF Deep
<1> QED BY <1>13, <1>14, <1>15, <1>16 DEF ObjectsInv, Types

(* A call puts an activation on top, a return takes it off.                *)
LEMMA LowerKeeps ==
    ASSUME Types, Known, Running, Deep, NEW k \in 1 .. Len(acts) - 1,
           \A i \in 1 .. frame.return_index : stack'[i] = stack[i],
           Len(stack) >= frame.return_index,
           objs' = objs, init_field' = init_field, looked' = looked
    PROVE  Fits(acts[k], Base(k), End(k), stack', objs', init_field', looked')
<1>1. /\ acts[k] \in Activation
      /\ Base(k) \in Nat /\ End(k) \in Nat
      /\ End(k) <= frame.return_index
      /\ Upper(acts[k]) <= act.below
      /\ Fits(acts[k], Base(k), End(k), stack, objs, init_field, looked)
  BY LowerEnds
<1>2. frame.return_index \in Nat /\ act \in Activation
  BY TopIs
<1>3. \A i \in Base(k) + 1 .. End(k) :
         i \in 1 .. frame.return_index /\ i \in 1 .. Len(stack)
  <2>1. PICK m \in Nat, l \in Nat : m = frame.return_index /\ l = Len(stack)
    BY <1>2 DEF Types
  <2>2. PICK b \in Nat, e \in Nat : b = Base(k) /\ e = End(k)
    BY <1>1
  <2>3. e <= m /\ m <= l
    BY <1>1, <2>1, <2>2
  <2>4. \A i \in b + 1 .. e : i \in 1 .. m /\ i \in 1 .. l
    BY <2>3
  <2> QED BY <2>1, <2>2, <2>4
<1>4. \A i \in Base(k) + 1 .. End(k) :
         IsObj(stack[i]) => stack[i][2] \in 1 .. Len(objs)
  BY <1>3 DEF Known, Sound
<1>5. Len(init_field) >= Upper(acts[k])
  <2>1. Len(init_field) = Upper(act)
    BY Innermost
  <2>2. PICK u \in Nat, v \in Nat : u = act.below /\ v = Len(act.ctors)
    BY <1>2, Sizes
  <2>3. PICK x \in Nat, y \in Nat :
           x = acts[k].below /\ y = Len(acts[k].ctors)
    BY <1>1, Sizes
  <2>4. x + y <= u
    BY <1>1, <2>2, <2>3 DEF Upper
  <2>5. x + y <= u + v
    BY <2>4
  <2> QED BY <2>1, <2>2, <2>3, <2>5 DEF Upper
<1>6. Kept(acts[k], Base(k), End(k), stack, objs, init_field, looked,
           stack', objs', init_field', looked')
  BY <1>3, <1>4, <1>5 DEF Kept
<1> QED BY <1>1, <1>6, FitMove

EnterStep(c, a, r) ==
    /\ acts' = Append([acts EXCEPT ![Len(acts)] = c], a)
    /\ frames' = Append(frames, r)
    /\ r.return_index \in Nat /\ r.return_index >= frame.return_index
    /\ Len(stack) >= r.return_index
    /\ \A i \in 1 .. r.return_index : stack'[i] = stack[i]
    /\ objs' = objs /\ init_field' = init_field /\ looked' = looked
    /\ c.below = act.below /\ c.ctors = act.ctors /\ c.built = act.built
    /\ ~ c.alloc
    /\ IF a.built THEN c.ctors # <<>> /\ Len(c.ops) = Opening(c) - 1
                  ELSE Opening(c) <= Len(c.ops)
    /\ a.ctors = <<>> /\ a.below = Len(init_field)
    /\ Fits(c, frame.return_index, r.return_index, stack', objs', init_field',
            looked')
    /\ Fits(a, r.return_index, Len(stack'), stack', objs', init_field',
            looked')
    /\ Ready(a, stack')

LEMMA EnterKeeps ==
    ASSUME Types, Types', Known, Running, Deep,
           NEW c \in Activation, NEW a \in Activation, NEW r \in Frame,
           EnterStep(c, a, r)
    PROVE  Deep'
<1>t. /\ acts' = Append([acts EXCEPT ![Len(acts)] = c], a)
      /\ frames' = Append(frames, r)
      /\ r.return_index \in Nat /\ r.return_index >= frame.return_index
      /\ Len(stack) >= r.return_index
      /\ \A i \in 1 .. r.return_index : stack'[i] = stack[i]
      /\ objs' = objs /\ init_field' = init_field /\ looked' = looked
      /\ c.below = act.below /\ c.ctors = act.ctors /\ c.built = act.built
      /\ ~ c.alloc
      /\ IF a.built THEN c.ctors # <<>> /\ Len(c.ops) = Opening(c) - 1
                    ELSE Opening(c) <= Len(c.ops)
      /\ a.ctors = <<>> /\ a.below = Len(init_field)
      /\ Fits(c, frame.return_index, r.return_index, stack', objs',
              init_field', looked')
      /\ Fits(a, r.return_index, Len(stack'), stack', objs', init_field',
              looked')
      /\ Ready(a, stack')
  BY DEF EnterStep
<1>n. PICK n \in Nat \ {0} : n = Len(acts)
  BY TopIs
<1>0. /\ act = acts[n] /\ Base(n) = frame.return_index
      /\ frame.return_index \in Nat /\ act \in Activation
  BY <1>n, TopIs
<1>1. /\ Len(acts') = n + 1 /\ acts'[n + 1] = a /\ acts'[n] = c
      /\ \A k \in 1 .. n - 1 : acts'[k] = acts[k]
  <2>1. PICK z : z = [acts EXCEPT ![n] = c]
    OBVIOUS
  <2>2. z \in Seq(Activation) /\ Len(z) = n /\ z[n] = c
        /\ \A k \in 1 .. n - 1 : z[k] = acts[k]
    <3>1. n \in 1 .. Len(acts) /\ acts \in Seq(Activation)
      BY <1>n DEF Types
    <3> QED BY <1>n, <2>1, <3>1, ExceptSeq
  <2>3. /\ Len(Append(z, a)) = Len(z) + 1 /\ Append(z, a)[Len(z) + 1] = a
        /\ \A k \in 1 .. Len(z) : Append(z, a)[k] = z[k]
    BY <2>2, Pushed
  <2>4. n \in 1 .. n /\ \A k \in 1 .. n - 1 : k \in 1 .. n
    OBVIOUS
  <2>5. acts' = Append(z, a)
    BY <1>n, <1>t, <2>1
  <2> QED BY <2>2, <2>3, <2>4, <2>5
<1>2. /\ Base(n + 1)' = r.return_index
      /\ \A k \in 1 .. n : Base(k)' = Base(k)
  <2>1. frames \in Seq(Frame) /\ Len(frames) = n
    BY <1>n DEF Types
  <2>2. /\ frames'[n + 1] = r
        /\ \A k \in 1 .. n : frames'[k] = frames[k]
    BY <1>t, <2>1, Pushed
  <2> QED BY <2>2 DEF Base
<1>3. /\ End(n + 1)' = Len(stack') /\ End(n)' = r.return_index
      /\ \A k \in 1 .. n - 1 : End(k)' = End(k)
  <2>1. End(n + 1)' = Len(stack')
    BY <1>1 DEF End
  <2>2. End(n)' = Base(n + 1)'
    BY <1>1 DEF End
  <2>3. ASSUME NEW k \in 1 .. n - 1
        PROVE  End(k)' = End(k)
    <3>1. k # n /\ k # n + 1 /\ k + 1 \in 1 .. n
      OBVIOUS
    <3>2. End(k) = Base(k + 1)
      BY <1>n, <3>1 DEF End
    <3>3. End(k)' = Base(k + 1)'
      BY <1>1, <3>1 DEF End
    <3> QED BY <1>2, <3>1, <3>2, <3>3
  <2> QED BY <1>2, <2>1, <2>2, <2>3
<1>4. \A k \in 1 .. n : /\ acts'[k].below = acts[k].below
                        /\ acts'[k].ctors = acts[k].ctors
                        /\ acts'[k].built = acts[k].built
  <2>1. \A k \in 1 .. n : k \in 1 .. n - 1 \/ k = n
    OBVIOUS
  <2> QED BY <1>0, <1>1, <1>t, <2>1
<1>5. \A k \in 0 .. n : Upto(k)' = Upto(k)
  <2> SUFFICES ASSUME NEW k \in 0 .. n PROVE Upto(k)' = Upto(k)
    OBVIOUS
  <2>1. k = 0 \/ k \in 1 .. n
    OBVIOUS
  <2> QED BY <1>4, <2>1 DEF Upto
<1>6. Len(init_field) = Upto(n) /\ Upto(n + 1)' = Len(init_field)
  <2>1. Len(init_field) = Upto(n)
    BY <1>n DEF Deep, Stacked
  <2>2. Len(a.ctors) = 0 /\ Len(init_field) \in Nat
    BY <1>t DEF Types
  <2>3. n + 1 # 0
    OBVIOUS
  <2> QED BY <1>1, <1>t, <2>1, <2>2, <2>3 DEF Upto
<1>7. Stacked'
  <2>1. Len(init_field') = Upto(Len(acts))'
    <3>1. Len(init_field') = Upto(n + 1)'
      BY <1>6, <1>t
    <3>2. Upto(Len(acts))' = Upto(n + 1)'
      BY <1>1 DEF Upto
    <3> QED BY <3>1, <3>2
  <2>2. ASSUME NEW k \in 1 .. n
        PROVE  /\ acts'[k].below = Upto(k - 1)'
               /\ acts'[k].below > 0 <=>
                     \E j \in 1 .. k - 1 : acts'[j].ctors # <<>>
               /\ \A j \in 1 .. k - 1 :
                     /\ Upper(acts'[j]) <= acts'[k].below
                     /\ Base(j)' <= Base(k)'
    <3>1. /\ acts[k].below = Upto(k - 1)
          /\ acts[k].below > 0 <=>
                \E j \in 1 .. k - 1 : acts[j].ctors # <<>>
          /\ \A j \in 1 .. k - 1 : /\ Upper(acts[j]) <= acts[k].below
                                   /\ Base(j) <= Base(k)
      BY <1>n DEF Deep, Stacked
    <3>2. \A j \in 1 .. k - 1 : /\ j \in 1 .. n
                                /\ Upper(acts'[j]) = Upper(acts[j])
                                /\ acts'[j].ctors = acts[j].ctors
                                /\ Base(j)' = Base(j)
      <4>1. \A j \in 1 .. k - 1 : j \in 1 .. n
        OBVIOUS
      <4> QED BY <1>2, <1>4, <4>1 DEF Upper
    <3>3. acts'[k].below = acts[k].below /\ Base(k)' = Base(k)
          /\ Upto(k - 1)' = Upto(k - 1)
      BY <1>2, <1>4, <1>5
    <3>4. (\E j \in 1 .. k - 1 : acts'[j].ctors # <<>>) <=>
             \E j \in 1 .. k - 1 : acts[j].ctors # <<>>
      BY <3>2
    <3>5. \A j \in 1 .. k - 1 : /\ Upper(acts'[j]) <= acts'[k].below
                                /\ Base(j)' <= Base(k)'
      BY <3>1, <3>2, <3>3
    <3> QED BY <3>1, <3>3, <3>4, <3>5
  <2>3. /\ a.below = Upto(n)'
        /\ a.below > 0 <=> \E j \in 1 .. n : acts'[j].ctors # <<>>
    <3>1. DOMAIN acts = 1 .. n
      BY <1>n, LenProperties DEF Types
    <3>2. Constructing <=> \E j \in 1 .. n : acts'[j].ctors # <<>>
      BY <1>4, <3>1 DEF Constructing
    <3>3. Constructing <=> Len(init_field) > 0
      BY Innermost
    <3>4. n \in 0 .. n
      OBVIOUS
    <3> QED BY <1>5, <1>6, <1>t, <3>2, <3>3, <3>4
  <2>4. ASSUME NEW j \in 1 .. n
        PROVE  Upper(acts'[j]) <= a.below /\ Base(j)' <= Base(n + 1)'
    <3>1. PICK u \in Nat, v \in Nat : u = act.below /\ v = Len(act.ctors)
      BY <1>0, Sizes
    <3>2. a.below = u + v /\ Upper(act) = u + v
      BY <1>0, <1>n, <1>6, <1>t, <3>1 DEF Upto, Upper
    <3>3. Upper(acts'[j]) = Upper(acts[j]) /\ Base(j)' = Base(j)
      BY <1>2, <1>4 DEF Upper
    <3>4. PICK b \in Nat, q \in Nat :
             b = frame.return_index /\ q = r.return_index
      BY <1>0, <1>t
    <3>5. b <= q
      BY <1>t, <3>4
    <3>6. CASE j = n
      BY <1>0, <1>2, <3>2, <3>3, <3>4, <3>5, <3>6
    <3>7. CASE j # n
      <4>1. j \in 1 .. n - 1
        BY <3>7
      <4>2. Upper(acts[j]) <= u /\ acts[j] \in Activation
        BY <1>n, <3>1, <4>1, LowerEnds
      <4>3. PICK x \in Nat, y \in Nat :
               x = acts[j].below /\ y = Len(acts[j].ctors)
        BY <4>2, Sizes
      <4>4. x + y <= u + v
        BY <4>2, <4>3 DEF Upper
      <4>5. Base(j) <= b /\ Base(j) \in Nat
        <5>1. n \in 1 .. n /\ j \in 1 .. n - 1
          BY <4>1
        <5>2. Base(j) <= Base(n)
          BY <1>n, <5>1 DEF Deep, Stacked
        <5>3. Base(j) \in Nat
          BY <1>n, <4>1, LowerEnds
        <5> QED BY <1>0, <3>4, <5>2, <5>3
      <4>6. Base(j) <= q
        BY <3>5, <4>5
      <4> QED BY <1>2, <3>2, <3>3, <3>4, <4>3, <4>4, <4>6 DEF Upper
    <3> QED BY <3>6, <3>7
  <2>5. ASSUME NEW k \in 1 .. n + 1
        PROVE  /\ acts'[k].below = Upto(k - 1)'
               /\ acts'[k].below > 0 <=>
                     \E j \in 1 .. k - 1 : acts'[j].ctors # <<>>
               /\ \A j \in 1 .. k - 1 :
                     /\ Upper(acts'[j]) <= acts'[k].below
                     /\ Base(j)' <= Base(k)'
    <3>1. CASE k = n + 1
      <4>1. k - 1 = n
        BY <3>1
      <4> QED BY <1>1, <2>3, <2>4, <3>1, <4>1
    <3>2. k = n + 1 \/ k \in 1 .. n
      OBVIOUS
    <3> QED BY <2>2, <3>1, <3>2
  <2> QED BY <1>1, <2>1, <2>5 DEF Stacked
<1>8. Opened'
  <2>1. ASSUME NEW k \in 1 .. n
        PROVE  /\ ~ acts'[k].alloc
               /\ IF acts'[k + 1].built
                  THEN /\ acts'[k].ctors # <<>>
                       /\ Len(acts'[k].ops) = Opening(acts'[k]) - 1
                  ELSE Opening(acts'[k]) <= Len(acts'[k].ops)
    <3>1. CASE k = n
      BY <1>1, <1>t, <3>1
    <3>2. CASE k # n
      <4>1. k \in 1 .. n - 1 /\ k + 1 \in 1 .. n
        BY <3>2
      <4>2. acts'[k] = acts[k] /\ acts'[k + 1].built = acts[k + 1].built
        BY <1>1, <1>4, <4>1
      <4> QED BY <1>n, <4>1, <4>2 DEF Deep, Opened
    <3> QED BY <3>1, <3>2
  <2>2. Len(acts') - 1 = n
    BY <1>1
  <2> QED BY <2>1, <2>2 DEF Opened
<1>9. AllFit'
  <2>1. ASSUME NEW k \in 1 .. n + 1
        PROVE  Fits(acts'[k], Base(k)', End(k)', stack', objs', init_field',
                    looked')
    <3>1. CASE k = n + 1
      BY <1>1, <1>2, <1>3, <1>t, <3>1
    <3>2. CASE k = n
      <4>1. n \in 1 .. n
        OBVIOUS
      <4> QED BY <1>0, <1>1, <1>2, <1>3, <1>t, <3>2, <4>1
    <3>3. CASE k \in 1 .. n - 1
      <4>1. \A i \in 1 .. frame.return_index : stack'[i] = stack[i]
        <5>1. PICK b \in Nat, q \in Nat :
                 b = frame.return_index /\ q = r.return_index
          BY <1>0, <1>t
        <5>2. \A i \in 1 .. b : i \in 1 .. q
          BY <1>t, <5>1
        <5> QED BY <1>t, <5>1, <5>2
      <4>2. Len(stack) >= frame.return_index
        <5>1. PICK b \in Nat, q \in Nat, e \in Nat :
                 b = frame.return_index /\ q = r.return_index /\ e = Len(stack)
          BY <1>0, <1>t DEF Types
        <5>2. e >= b
          BY <1>t, <5>1
        <5> QED BY <5>1, <5>2
      <4>3. Fits(acts[k], Base(k), End(k), stack', objs', init_field',
                 looked')
        BY <1>n, <1>t, <3>3, <4>1, <4>2, LowerKeeps
      <4>4. k \in 1 .. n
        BY <3>3
      <4> QED BY <1>1, <1>2, <1>3, <3>3, <4>3, <4>4
    <3> QED BY <3>1, <3>2, <3>3
  <2> QED BY <1>1, <2>1 DEF AllFit
<1>10. act' = a
  BY <1>1 DEF act, Last
<1> QED BY <1>7, <1>8, <1>9, <1>10, <1>t DEF Deep

LeaveStep(c) ==
    /\ Len(acts) > 1 /\ act.ctors = <<>>
    /\ acts' = [Front(acts) EXCEPT ![Len(acts) - 1] = c]
    /\ frames' = Front(frames)
    /\ Len(stack) >= frame.return_index
    /\ \A i \in 1 .. frame.return_index : stack'[i] = stack[i]
    /\ objs' = objs /\ init_field' = init_field /\ looked' = looked
    /\ c.below = acts[Len(acts) - 1].below
    /\ c.ctors = acts[Len(acts) - 1].ctors
    /\ c.built = acts[Len(acts) - 1].built
    /\ Fits(c, Base(Len(acts) - 1), Len(stack'), stack', objs', init_field',
            looked')
    /\ Ready(c, stack')

LEMMA LeaveKeeps ==
    ASSUME Types, Types', Known, Running, Deep, NEW c \in Activation,
           LeaveStep(c)
    PROVE  Deep'
<1>t. /\ Len(acts) > 1 /\ act.ctors = <<>>
      /\ acts' = [Front(acts) EXCEPT ![Len(acts) - 1] = c]
      /\ frames' = Front(frames)
      /\ Len(stack) >= frame.return_index
      /\ \A i \in 1 .. frame.return_index : stack'[i] = stack[i]
      /\ objs' = objs /\ init_field' = init_field /\ looked' = looked
      /\ c.below = acts[Len(acts) - 1].below
      /\ c.ctors = acts[Len(acts) - 1].ctors
      /\ c.built = acts[Len(acts) - 1].built
      /\ Fits(c, Base(Len(acts) - 1), Len(stack'), stack', objs',
              init_field', looked')
      /\ Ready(c, stack')
  BY DEF LeaveStep
<1>n. PICK n \in Nat \ {0} : n + 1 = Len(acts)
  <2>1. PICK m \in Nat : m = Len(acts)
    BY DEF Types
  <2>2. m - 1 \in Nat \ {0} /\ m - 1 + 1 = m
    BY <1>t, <2>1
  <2> QED BY <2>1, <2>2
<1>0. /\ act = acts[n + 1] /\ Len(acts) - 1 = n
      /\ act \in Activation /\ frame.return_index \in Nat
      /\ Base(n + 1) = frame.return_index
  BY <1>n, TopIs
<1>1. /\ Len(acts') = n /\ acts'[n] = c
      /\ \A k \in 1 .. n - 1 : acts'[k] = acts[k]
  <2>1. acts \in Seq(Activation) /\ acts # <<>>
    BY TopIs DEF Types
  <2>2. Front(acts) = Without(acts, 1) /\ 1 \in 0 .. Len(acts)
    BY <2>1, FrontIsCut
  <2>3. PICK z : z = Front(acts)
    OBVIOUS
  <2>4. z \in Seq(Activation) /\ Len(z) = n
        /\ \A k \in 1 .. n : z[k] = acts[k]
    <3>1. /\ Without(acts, 1) \in Seq(Activation)
          /\ Len(Without(acts, 1)) = Len(acts) - 1
          /\ \A k \in 1 .. Len(acts) - 1 : Without(acts, 1)[k] = acts[k]
      BY <2>1, <2>2, Cut
    <3> QED BY <1>0, <2>2, <2>3, <3>1
  <2>5. acts' = [z EXCEPT ![n] = c] /\ n \in 1 .. n
    <3>1. acts' = [Front(acts) EXCEPT ![Len(acts) - 1] = c]
      BY <1>t
    <3>2. acts' = [Front(acts) EXCEPT ![n] = c]
      BY <1>0, <3>1
    <3> QED BY <2>3, <3>2
  <2>6. \A k \in 1 .. n - 1 : k \in 1 .. n /\ k # n
    OBVIOUS
  <2> QED BY <2>4, <2>5, <2>6, ExceptSeq
<1>2. \A k \in 1 .. n : Base(k)' = Base(k)
  <2>1. frames \in Seq(Frame) /\ Len(frames) = n + 1
    BY <1>n DEF Types
  <2>2. frames # <<>>
    BY DEF Running
  <2>3. Front(frames) = Without(frames, 1) /\ 1 \in 0 .. Len(frames)
    BY <2>1, <2>2, FrontIsCut
  <2>4. \A k \in 1 .. n : frames'[k] = frames[k]
    <3>1. \A k \in 1 .. Len(frames) - 1 : Without(frames, 1)[k] = frames[k]
      BY <2>1, <2>3, Cut
    <3> QED BY <1>t, <2>1, <2>3, <3>1
  <2> QED BY <2>4 DEF Base
<1>3. /\ End(n)' = Len(stack')
      /\ \A k \in 1 .. n - 1 : End(k)' = End(k)
  <2>1. End(n)' = Len(stack')
    BY <1>1 DEF End
  <2>2. ASSUME NEW k \in 1 .. n - 1
        PROVE  End(k)' = End(k)
    <3>1. k # n /\ k # n + 1 /\ k + 1 \in 1 .. n
      OBVIOUS
    <3>2. End(k) = Base(k + 1)
      BY <1>n, <3>1 DEF End
    <3>3. End(k)' = Base(k + 1)'
      BY <1>1, <3>1 DEF End
    <3> QED BY <1>2, <3>1, <3>2, <3>3
  <2> QED BY <2>1, <2>2
<1>4. \A k \in 1 .. n : /\ acts'[k].below = acts[k].below
                        /\ acts'[k].ctors = acts[k].ctors
                        /\ acts'[k].built = acts[k].built
  <2>1. \A k \in 1 .. n : k \in 1 .. n - 1 \/ k = n
    OBVIOUS
  <2> QED BY <1>0, <1>1, <1>t, <2>1
<1>5. \A k \in 0 .. n : Upto(k)' = Upto(k)
  <2> SUFFICES ASSUME NEW k \in 0 .. n PROVE Upto(k)' = Upto(k)
    OBVIOUS
  <2>1. k = 0 \/ k \in 1 .. n
    OBVIOUS
  <2> QED BY <1>4, <2>1 DEF Upto
<1>6. Stacked'
  <2>1. Len(init_field') = Upto(Len(acts))'
    <3>1. Len(init_field) = act.below
      <4>1. Len(act.ctors) = 0 /\ act.below \in Nat
        BY <1>0, <1>t, Sizes
      <4> QED BY <4>1, Innermost DEF Upper
    <3>2. n + 1 \in 1 .. Len(acts) /\ n + 1 - 1 = n
      BY <1>n
    <3>3. act.below = Upto(n)
      BY <1>0, <3>2 DEF Deep, Stacked
    <3>4. n \in 0 .. n /\ n # 0
      OBVIOUS
    <3>5. Upto(Len(acts))' = Upto(n)'
      BY <1>1 DEF Upto
    <3> QED BY <1>5, <1>t, <3>1, <3>3, <3>4, <3>5
  <2>2. ASSUME NEW k \in 1 .. n
        PROVE  /\ acts'[k].below = Upto(k - 1)'
               /\ acts'[k].below > 0 <=>
                     \E j \in 1 .. k - 1 : acts'[j].ctors # <<>>
               /\ \A j \in 1 .. k - 1 :
                     /\ Upper(acts'[j]) <= acts'[k].below
                     /\ Base(j)' <= Base(k)'
    <3>0. k \in 1 .. Len(acts)
      BY <1>n
    <3>1. /\ acts[k].below = Upto(k - 1)
          /\ acts[k].below > 0 <=>
                \E j \in 1 .. k - 1 : acts[j].ctors # <<>>
          /\ \A j \in 1 .. k - 1 : /\ Upper(acts[j]) <= acts[k].below
                                   /\ Base(j) <= Base(k)
      BY <3>0 DEF Deep, Stacked
    <3>2. \A j \in 1 .. k - 1 : /\ j \in 1 .. n
                                /\ Upper(acts'[j]) = Upper(acts[j])
                                /\ acts'[j].ctors = acts[j].ctors
                                /\ Base(j)' = Base(j)
      <4>1. \A j \in 1 .. k - 1 : j \in 1 .. n
        OBVIOUS
      <4> QED BY <1>2, <1>4, <4>1 DEF Upper
    <3>3. acts'[k].below = acts[k].below /\ Base(k)' = Base(k)
          /\ Upto(k - 1)' = Upto(k - 1)
      BY <1>2, <1>4, <1>5
    <3>4. (\E j \in 1 .. k - 1 : acts'[j].ctors # <<>>) <=>
             \E j \in 1 .. k - 1 : acts[j].ctors # <<>>
      BY <3>2
    <3>5. \A j \in 1 .. k - 1 : /\ Upper(acts'[j]) <= acts'[k].below
                                /\ Base(j)' <= Base(k)'
      BY <3>1, <3>2, <3>3
    <3> QED BY <3>1, <3>3, <3>4, <3>5
  <2> QED BY <1>1, <2>1, <2>2 DEF Stacked
<1>7. Opened'
  <2> SUFFICES ASSUME NEW k \in 1 .. n - 1
               PROVE  /\ ~ acts'[k].alloc
                      /\ IF acts'[k + 1].built
                         THEN /\ acts'[k].ctors # <<>>
                              /\ Len(acts'[k].ops) = Opening(acts'[k]) - 1
                         ELSE Opening(acts'[k]) <= Len(acts'[k].ops)
    BY <1>1 DEF Opened
  <2>1. k + 1 \in 1 .. n /\ k \in 1 .. Len(acts) - 1
    BY <1>n
  <2>2. acts'[k] = acts[k] /\ acts'[k + 1].built = acts[k + 1].built
    BY <1>1, <1>4, <2>1
  <2> QED BY <2>1, <2>2 DEF Deep, Opened
<1>8. AllFit'
  <2>1. ASSUME NEW k \in 1 .. n
        PROVE  Fits(acts'[k], Base(k)', End(k)', stack', objs', init_field',
                    looked')
    <3>1. CASE k = n
      BY <1>0, <1>1, <1>2, <1>3, <1>t, <3>1
    <3>2. CASE k # n
      <4>1. k \in 1 .. n - 1 /\ k \in 1 .. Len(acts) - 1
        BY <1>0, <3>2
      <4>2. Fits(acts[k], Base(k), End(k), stack', objs', init_field',
                 looked')
        BY <1>t, <4>1, LowerKeeps
      <4> QED BY <1>1, <1>2, <1>3, <4>1, <4>2
    <3> QED BY <3>1, <3>2
  <2> QED BY <1>1, <2>1 DEF AllFit
<1>9. act' = c
  BY <1>1 DEF act, Last
<1> QED BY <1>6, <1>7, <1>8, <1>9, <1>t DEF Deep

(* The callee's slot goes, the last argument is there twice.               *)
LEMMA PrologueIs ==
    ASSUME NEW S, stack \in Seq(S), NEW n \in Nat, Len(stack) > n
    PROVE  /\ Prologue(n) \in Seq(S) /\ Len(Prologue(n)) = Len(stack)
           /\ \A i \in 1 .. Len(stack) - (n + 1) : Prologue(n)[i] = stack[i]
           /\ \A i \in 1 .. Len(stack) : \E j \in 1 .. Len(stack) :
                 Prologue(n)[i] = stack[j]
<1>1. PICK e \in Nat : e = Len(stack)
  BY LenProperties
<1>2. CASE n = 0
  BY <1>2 DEF Prologue
<1>3. CASE n # 0
  <2>1. PICK x : x = Without(stack, n + 1)
    OBVIOUS
  <2>2. /\ x \in Seq(S) /\ Len(x) = e - (n + 1)
        /\ \A i \in 1 .. e - (n + 1) : x[i] = stack[i]
    <3>1. n + 1 \in 0 .. Len(stack)
      BY <1>1
    <3> QED BY <1>1, <2>1, <3>1, Cut
  <2>3. PICK y : y = SubSeq(stack, e - n + 1, e)
    OBVIOUS
  <2>4. /\ y \in Seq(S) /\ Len(y) = n
        /\ \A i \in 1 .. n : y[i] = stack[e - n + i]
    <3>1. \A i \in e - n + 1 .. e : stack[i] \in S
      <4>1. \A i \in e - n + 1 .. e : i \in 1 .. e
        BY <1>1
      <4> QED BY <1>1, <4>1, ElementOfSeq
    <3>2. /\ e - n + 1 \in Int /\ e \in Int /\ e - n + 1 <= e
          /\ e - (e - n + 1) + 1 = n
          /\ \A i \in 1 .. n : e - n + 1 + i - 1 = e - n + i
      BY <1>1, <1>3
    <3>3. PICK m \in Int : m = e - n + 1
      BY <3>2
    <3>4. /\ SubSeq(stack, m, e) \in Seq(S)
          /\ Len(SubSeq(stack, m, e)) = IF m <= e THEN e - m + 1 ELSE 0
          /\ \A i \in 1 .. e - m + 1 :
                SubSeq(stack, m, e)[i] = stack[m + i - 1]
      BY <3>1, <3>2, <3>3, SubSeqProperties
    <3>5. m <= e /\ e - m + 1 = n /\ \A i \in 1 .. n : m + i - 1 = e - n + i
      BY <3>2, <3>3
    <3> QED BY <2>3, <3>3, <3>4, <3>5
  <2>5. y # <<>> /\ Last(y) = y[n] /\ y[n] \in S
    <3>1. y # <<>>
      BY <1>3, <2>4
    <3> QED BY <2>4, <3>1, FrontIsCut
  <2>6. PICK z : z = x \o y
    OBVIOUS
  <2>7. /\ z \in Seq(S) /\ Len(z) = e - 1
        /\ \A i \in 1 .. e - 1 :
              z[i] = IF i <= e - (n + 1) THEN x[i] ELSE y[i - (e - (n + 1))]
    <3>1. e - (n + 1) + n = e - 1
      OBVIOUS
    <3>2. /\ x \o y \in Seq(S) /\ Len(x \o y) = Len(x) + Len(y)
          /\ \A i \in 1 .. Len(x) + Len(y) :
                (x \o y)[i] = IF i <= Len(x) THEN x[i] ELSE y[i - Len(x)]
      BY <2>2, <2>4, ConcatProperties
    <3>3. Len(x) = e - (n + 1) /\ Len(x) + Len(y) = e - 1
      BY <2>2, <2>4, <3>1
    <3> QED BY <2>6, <3>2, <3>3
  <2>8. Prologue(n) = Append(z, y[n])
    <3>1. Prologue(n) = z \o <<y[n]>>
      BY <1>1, <1>3, <2>1, <2>3, <2>5, <2>6 DEF Prologue
    <3> QED BY <2>5, <2>7, <3>1
  <2>9. /\ Prologue(n) \in Seq(S) /\ Len(Prologue(n)) = e
        /\ Prologue(n)[e] = y[n]
        /\ \A i \in 1 .. e - 1 : Prologue(n)[i] = z[i]
    <3>1. e - 1 + 1 = e
      OBVIOUS
    <3> QED BY <2>5, <2>7, <2>8, <3>1, Pushed
  <2>10. \A i \in 1 .. e - (n + 1) : Prologue(n)[i] = stack[i]
    <3>1. \A i \in 1 .. e - (n + 1) : i \in 1 .. e - 1 /\ i <= e - (n + 1)
      OBVIOUS
    <3> QED BY <2>2, <2>7, <2>9, <3>1
  <2>11. ASSUME NEW i \in 1 .. e
         PROVE  \E j \in 1 .. e : Prologue(n)[i] = stack[j]
    <3>1. CASE i = e
      <4>1. n \in 1 .. n /\ e - n + n \in 1 .. e
        BY <1>1, <1>3, <3>1
      <4> QED BY <2>4, <2>9, <3>1, <4>1
    <3>2. CASE i <= e - (n + 1)
      <4>1. i \in 1 .. e - (n + 1)
        BY <3>2
      <4> QED BY <2>10, <4>1
    <3>3. CASE i # e /\ ~ i <= e - (n + 1)
      <4>1. /\ i \in 1 .. e - 1 /\ i - (e - (n + 1)) \in 1 .. n
            /\ e - n + (i - (e - (n + 1))) \in 1 .. e
        BY <1>1, <3>3
      <4>2. Prologue(n)[i] = y[i - (e - (n + 1))]
        BY <2>7, <2>9, <3>3, <4>1
      <4> QED BY <2>4, <4>1, <4>2
    <3> QED BY <3>1, <3>2, <3>3
  <2> QED BY <1>1, <2>9, <2>10, <2>11
<1> QED BY <1>2, <1>3

LEMMA CallKeeps ==
    ASSUME ObjectsInv, NEW n \in Nat, Call(n)
    PROVE  ObjectsInv'
<1>1. /\ Goes /\ ~ act.alloc /\ Len(act.ops) - n >= Open
      /\ Len(act.ops) > n /\ Len(stack) > n
      /\ UNCHANGED <<caller, looked>>
  BY DEF Call, Has, Instr
<1>2. /\ Types /\ Known /\ Owned /\ Deep /\ Called /\ Running /\ legal
      /\ act \in Activation /\ frame.return_index \in Nat
      /\ Len(stack) \in Nat /\ Len(stack) > frame.return_index
      /\ Len(stack) - Len(act.ops) >= frame.return_index
      /\ Open = Opening(act)
      /\ Fits(act, frame.return_index, Len(stack), stack, objs,
              init_field, looked)
      /\ Ready(act, stack)
  BY <1>1, Situation
<1>3. PICK v : v = stack[Len(stack) - n]
  OBVIOUS
<1>4. PICK built : built = (act.ctors # <<>> /\ Len(act.ops) - n = Open)
  OBVIOUS
<1>5. CASE ~ IsFn(v) \/ Full
  <2>1. Fail(0)
    BY <1>3, <1>5 DEF Call
  <2>2. 0 \in 0 .. Len(stack)
    BY <1>2
  <2>3. caller' \in 0 .. Len(objs) /\ looked' \in Nat
    BY <1>1, <1>2 DEF Types
  <2>4. Called'
    BY <1>1, <1>2, <2>1 DEF Called, Fail, heap
  <2> QED BY <1>1, <2>1, <2>2, <2>3, <2>4, FailKeeps
<1>6. CASE IsFn(v) /\ ~ Full
  <2>1. /\ frames' = Append(frames, [closure |-> v[2],
                                     return_index |-> ReturnIndex(n)])
        /\ stack' = Prologue(n)
        /\ acts' = Append([acts EXCEPT ![Len(acts)].ops = Without(@, n + 1)],
                          Act(act.ops[Len(act.ops) - n].to, built,
                              Len(stack')))
        /\ legal' = (legal /\ \A i \in Len(act.ops) - n .. Len(act.ops) :
                                 ~ act.ops[i].held)
        /\ init_field' = init_field /\ tables' = tables /\ objs' = objs
    BY <1>3, <1>4, <1>6 DEF Call, Legal, heap
  <2>2. PICK b \in Nat, e \in Nat, w \in Nat :
           b = frame.return_index /\ e = Len(stack) /\ w = Len(act.ops)
    BY <1>2, Sizes
  <2>3. PICK q \in Nat, at \in Nat : q = e - (n + 1) /\ at = w - n
    <3>1. w > n /\ e > n
      BY <1>1, <2>2
    <3>2. e - (n + 1) \in Nat /\ w - n \in Nat
      BY <3>1
    <3> QED BY <3>2
  <2>4. /\ e - w >= b /\ w > n /\ e > n /\ q >= b /\ e >= q + 1 /\ e >= q
        /\ at \in 1 .. w /\ at >= Open /\ n + 1 \in 0 .. w
        /\ e - n \in 1 .. e /\ e - w + at = e - n
    BY <1>1, <1>2, <2>2, <2>3
  <2>5. /\ stack' \in Seq(Cell) /\ Len(stack') = e
        /\ \A i \in 1 .. q : stack'[i] = stack[i]
        /\ \A i \in 1 .. e : \E j \in 1 .. e : stack'[i] = stack[j]
    BY <1>1, <1>2, <2>1, <2>2, <2>3, PrologueIs DEF Types
  <2>6. v = stack[e - n] /\ v \in Cell /\ v[2] \in Code
    <3>1. v = stack[e - n]
      BY <1>3, <2>2
    <3>2. v \in Cell
      BY <1>2, <2>2, <2>4, <3>1, ElementOfSeq DEF Types
    <3> QED BY <1>6, <3>1, <3>2, CellKinds
  <2>7. PICK op : op = act.ops[at]
    OBVIOUS
  <2>8. op \in Operation /\ op.to \in Nat
    <3>1. op \in Operation
      BY <1>2, <2>2, <2>4, <2>7, Sizes, ElementOfSeq
    <3> QED BY <3>1 DEF Operation
  <2>9. OpFits(act, op, at, v, objs, init_field)
    BY <1>2, <2>2, <2>4, <2>6, <2>7 DEF Fits, Holds
  <2>10. PICK r : r = [closure |-> v[2], return_index |-> q]
    OBVIOUS
  <2>11. r \in Frame /\ r.return_index = q
    BY <2>6, <2>10 DEF Frame
  <2>12. frames' = Append(frames, r)
    BY <2>1, <2>2, <2>3, <2>10 DEF ReturnIndex
  <2>13. PICK c : c = [act EXCEPT !.ops = Without(@, n + 1)]
    OBVIOUS
  <2>14. c \in Activation
         /\ Fits(c, b, q, stack', objs, init_field, looked)
    <3>1. \A i \in b + 1 .. q : i \in 1 .. q
      OBVIOUS
    <3>2. \A i \in b + 1 .. e - (n + 1) : stack'[i] = stack[i]
      BY <2>3, <2>5, <3>1
    <3>3. n + 1 \in 0 .. Len(act.ops)
      BY <2>2, <2>4
    <3>4. Fits(act, b, e, stack, objs, init_field, looked)
      BY <1>2, <2>2
    <3> QED BY <1>2, <2>3, <2>13, <3>2, <3>3, <3>4, FitCut
  <2>15. /\ c.ops = Without(act.ops, n + 1)
         /\ c.below = act.below /\ c.ctors = act.ctors
         /\ c.built = act.built /\ c.alloc = act.alloc
    BY <1>2, <2>13 DEF Activation
  <2>16. Len(c.ops) = w - (n + 1)
    <3>1. act.ops \in Seq(Operation) /\ n + 1 \in 0 .. Len(act.ops)
      BY <1>2, <2>2, <2>4, Sizes
    <3> QED BY <2>2, <2>15, <3>1, Cut
  <2>17. PICK a : a = Act(op.to, built, e)
    OBVIOUS
  <2>18. /\ a \in Activation /\ a.self = op.to /\ a.built = built
         /\ a.alloc = FALSE /\ a.ctors = <<>> /\ a.ops = <<>>
         /\ a.short = FALSE /\ a.below = Len(init_field)
    <3>1. Len(init_field) \in Nat
      BY <1>2 DEF Types
    <3>2. <<>> \in Seq(Ctor) /\ <<>> \in Seq(Operation)
      OBVIOUS
    <3>3. built \in BOOLEAN
      BY <1>4
    <3> QED BY <2>8, <2>17, <3>1, <3>2, <3>3 DEF Act, Activation
  <2>19. acts' = Append([acts EXCEPT ![Len(acts)] = c], a)
    <3>1. Len(acts) \in 1 .. Len(acts) /\ act = acts[Len(acts)]
          /\ acts \in Seq(Activation)
      BY <1>2, TopIs DEF Types
    <3>2. [acts EXCEPT ![Len(acts)].ops = Without(@, n + 1)] =
             [acts EXCEPT ![Len(acts)] = c]
      BY <2>13, <3>1
    <3>3. Act(act.ops[Len(act.ops) - n].to, built, Len(stack')) = a
      BY <2>2, <2>3, <2>5, <2>7, <2>17
    <3> QED BY <2>1, <3>2, <3>3
  <2>20. Types'
    <3>1. frames \in Seq(Frame) /\ acts \in Seq(Activation)
          /\ Len(acts) \in 1 .. Len(acts) /\ Len(frames) = Len(acts)
      BY <1>2, TopIs DEF Types
    <3>2. frames' \in Seq(Frame) /\ Len(frames') = Len(frames) + 1
      BY <2>11, <2>12, <3>1, Pushed
    <3>3. PICK z : z = [acts EXCEPT ![Len(acts)] = c]
      OBVIOUS
    <3>4. z \in Seq(Activation) /\ Len(z) = Len(acts)
      BY <2>14, <3>1, <3>3, ExceptSeq
    <3>5. Append(z, a) \in Seq(Activation) /\ Len(Append(z, a)) = Len(z) + 1
      BY <2>18, <3>4, Pushed
    <3>6. acts' \in Seq(Activation) /\ Len(frames') = Len(acts')
      BY <2>19, <3>1, <3>2, <3>3, <3>4, <3>5
    <3>7. legal' \in BOOLEAN
      BY <2>1
    <3> QED BY <1>1, <1>2, <2>1, <2>5, <3>2, <3>6, <3>7 DEF Types
  <2>21. Known'
    <3>1. \A j \in 1 .. e : Sound(stack[j])
      BY <1>2, <2>2 DEF Known
    <3>2. \A i \in 1 .. Len(stack') : Sound(stack[i])'
      BY <2>1, <2>5, <3>1 DEF Sound
    <3> QED BY <1>2, <2>1, <3>2 DEF Known, Sound
  <2>22. Owned'
    BY <1>2, <2>1, OwnedStays
  <2>23. Called'
    BY <1>1, <1>2, <2>1 DEF Called
  <2>24. ASSUME legal' = TRUE
         PROVE  Deep'
    <3>1. ~ op.held
      <4>1. \A i \in at .. w : ~ act.ops[i].held
        BY <2>1, <2>2, <2>3, <2>24
      <4>2. at \in at .. w
        BY <2>4
      <4> QED BY <2>7, <4>1, <4>2
    <3>2. a.below > 0 /\ a.self # 0 => a.self = init_field[a.below]
      <4> SUFFICES ASSUME Len(init_field) > 0, op.to # 0
                   PROVE  op.to = init_field[Len(init_field)]
        BY <2>18
      <4>1. PICK u \in Nat, m \in Nat : u = act.below /\ m = Len(act.ctors)
        BY <1>2, Sizes
      <4>2. Len(init_field) = u + m
        BY <1>2, <4>1, Innermost DEF Upper
      <4>3. Inner(act, at, m)
        <5>1. act.ctors # <<>> => act.ctors[m].at <= at
          BY <1>2, <2>4, <4>1 DEF Opening
        <5>2. m = 0 \/ act.ctors # <<>>
          BY <1>2, <4>1, Sizes, EmptySeq
        <5> QED BY <4>1, <5>1, <5>2 DEF Inner
      <4>4. m \in 0 .. m /\ u + m > 0
        BY <4>2
      <4> QED BY <1>6, <2>9, <3>1, <4>1, <4>2, <4>3, <4>4 DEF OpFits
    <3>3. Fits(a, q, e, stack', objs, init_field, looked)
      <4>1. Len(a.ops) = 0 /\ Len(a.ctors) = 0 /\ Len(init_field) \in Nat
        BY <1>2, <2>18 DEF Types
      <4>2. Placed(a, q, e, looked)
        BY <2>4, <2>18, <4>1 DEF Placed, Missing
      <4>3. Nests(a, init_field)
        <5>1. Upper(a) <= Len(init_field)
          BY <2>18, <4>1 DEF Upper
        <5> QED BY <3>2, <4>1, <5>1 DEF Nests
      <4>4. Holds(a, e, stack', objs, init_field)
        BY <4>1 DEF Holds
      <4> QED BY <4>2, <4>3, <4>4 DEF Fits
    <3>4. Ready(a, stack')
      <4>1. Opening(a) = 0 /\ Len(a.ops) = 0
        BY <2>18 DEF Opening
      <4> QED BY <2>18, <4>1 DEF Ready
    <3>5. IF a.built THEN c.ctors # <<>> /\ Len(c.ops) = Opening(c) - 1
                     ELSE Opening(c) <= Len(c.ops)
      <4>1. PICK o \in Nat : o = Opening(act)
        BY <1>2, OpeningNat
      <4>2. Opening(c) = o /\ o <= at
        BY <1>2, <2>4, <2>15, <4>1 DEF Opening
      <4>3. CASE built
        <5>1. act.ctors # <<>> /\ at = o
          BY <1>2, <1>4, <2>2, <2>3, <4>1, <4>3
        <5>2. w - (n + 1) = o - 1
          BY <2>3, <5>1
        <5> QED BY <2>15, <2>16, <2>18, <4>2, <4>3, <5>1, <5>2
      <4>4. CASE ~ built
        <5>1. act.ctors = <<>> \/ at # o
          BY <1>2, <1>4, <2>2, <2>3, <4>1, <4>4
        <5>2. act.ctors = <<>> => o = 0
          BY <4>1 DEF Opening
        <5>3. o <= w - (n + 1)
          BY <2>3, <2>4, <4>2, <5>1, <5>2
        <5> QED BY <2>16, <2>18, <4>2, <4>4, <5>3
      <4> QED BY <4>3, <4>4
    <3>6. EnterStep(c, a, r)
      <4>1. q >= frame.return_index /\ Len(stack) >= q
        BY <2>2, <2>4
      <4>2. Fits(c, frame.return_index, r.return_index, stack', objs',
                 init_field', looked')
        BY <1>1, <2>1, <2>2, <2>11, <2>14
      <4>3. Fits(a, r.return_index, Len(stack'), stack', objs', init_field',
                 looked')
        BY <1>1, <2>1, <2>5, <2>11, <3>3
      <4> QED BY <1>1, <2>1, <2>5, <2>11, <2>12, <2>15, <2>18, <2>19, <3>4,
                 <3>5, <4>1, <4>2, <4>3 DEF EnterStep
    <3> QED BY <1>2, <2>11, <2>14, <2>18, <2>20, <3>6, EnterKeeps
  <2> QED BY <2>20, <2>21, <2>22, <2>23, <2>24 DEF ObjectsInv, Types
<1> QED BY <1>5, <1>6

(* The last activation of a run is gone.                                   *)
LEMMA DeepWhenIdle ==
    ASSUME acts' = <<>>, frames' = <<>>, Len(init_field') = 0
    PROVE  Deep'
<1>1. Len(acts') = 0
  OBVIOUS
<1>2. Stacked' /\ Opened' /\ AllFit'
  BY <1>1 DEF Stacked, Opened, AllFit, Upto
<1>3. ~ Running'
  BY DEF Running
<1> QED BY <1>2, <1>3 DEF Deep

LEMMA ReturnKeeps ==
    ASSUME ObjectsInv, Return
    PROVE  ObjectsInv'
<1>1. /\ Goes /\ ~ act.alloc /\ act.ctors = <<>> /\ frames' = Front(frames)
      /\ UNCHANGED <<init_field, tables, objs, caller, looked>>
  BY DEF Return, Instr, heap
<1>2. /\ Types /\ Known /\ Owned /\ Deep /\ Called /\ Running /\ legal
      /\ act \in Activation /\ frame.return_index \in Nat
      /\ Len(stack) \in Nat /\ Len(stack) > frame.return_index
  BY <1>1, Situation
<1>3. PICK n \in Nat \ {0} : n = Len(acts) /\ n = Len(frames)
  BY <1>2, TopIs DEF Types
<1>4. PICK b \in Nat, e \in Nat : b = frame.return_index /\ e = Len(stack)
  BY <1>2
<1>5. e > b /\ act = acts[n]
  BY <1>2, <1>3, <1>4, TopIs
<1>6. /\ frames' \in Seq(Frame) /\ Len(frames') = n - 1
  <2>1. frames \in Seq(Frame) /\ frames # <<>>
    BY <1>2 DEF Types, Running
  <2>2. Front(frames) = Without(frames, 1) /\ 1 \in 0 .. Len(frames)
    BY <2>1, FrontIsCut
  <2>3. Without(frames, 1) \in Seq(Frame)
        /\ Len(Without(frames, 1)) = Len(frames) - 1
    BY <2>1, <2>2, Cut
  <2> QED BY <1>1, <1>3, <2>2, <2>3
<1>7. Len(init_field) = act.below
  <2>1. Len(act.ctors) = 0 /\ act.below \in Nat
    BY <1>1, <1>2, Sizes
  <2> QED BY <1>2, <2>1, Innermost DEF Upper
<1>8. Owned' /\ Called'
  BY <1>1, <1>2, OwnedStays DEF Called
<1>9. CASE n = 1
  <2>1. stack' = Front(stack) /\ acts' = <<>> /\ legal' = legal
    BY <1>3, <1>9 DEF Return
  <2>2. /\ stack' \in Seq(Cell) /\ Len(stack') = e - 1
        /\ \A i \in 1 .. e - 1 : stack'[i] = stack[i]
    <3>1. stack \in Seq(Cell) /\ stack # <<>>
      BY <1>2, <1>4, <1>5 DEF Types
    <3>2. Front(stack) = Without(stack, 1) /\ 1 \in 0 .. Len(stack)
      BY <3>1, FrontIsCut
    <3>3. /\ Without(stack, 1) \in Seq(Cell)
          /\ Len(Without(stack, 1)) = Len(stack) - 1
          /\ \A i \in 1 .. Len(stack) - 1 : Without(stack, 1)[i] = stack[i]
      BY <3>1, <3>2, Cut
    <3> QED BY <1>4, <2>1, <3>2, <3>3
  <2>3. Types'
    <3>1. acts' \in Seq(Activation) /\ Len(acts') = 0
      BY <2>1
    <3>2. Len(frames') = 0
      BY <1>6, <1>9
    <3> QED BY <1>1, <1>2, <1>6, <2>1, <2>2, <3>1, <3>2 DEF Types
  <2>4. Known'
    <3>1. \A i \in 1 .. e - 1 : i \in 1 .. e
      OBVIOUS
    <3>2. \A i \in 1 .. e - 1 : Sound(stack[i]) /\ stack'[i] = stack[i]
      BY <1>2, <1>4, <2>2, <3>1 DEF Known
    <3>3. \A i \in 1 .. Len(stack') : Sound(stack[i])'
      BY <1>1, <2>2, <3>2 DEF Sound
    <3> QED BY <1>1, <1>2, <3>3 DEF Known, Sound
  <2>5. Deep'
    <3>1. act.below = 0
      <4>1. n \in 1 .. Len(acts) /\ n - 1 = 0
        BY <1>3, <1>9
      <4>2. acts[n].below = Upto(n - 1)
        BY <1>2, <4>1 DEF Deep, Stacked
      <4> QED BY <1>5, <4>1, <4>2 DEF Upto
    <3>2. frames' = <<>>
      <4>1. Len(frames') = 0
        BY <1>6, <1>9
      <4> QED BY <1>6, <4>1, EmptySeq
    <3> QED BY <1>1, <1>7, <2>1, <3>1, <3>2, DeepWhenIdle
  <2> QED BY <1>2, <1>8, <2>1, <2>3, <2>4, <2>5 DEF ObjectsInv
<1>10. CASE n # 1
  <2>1. PICK v : v = Result
    OBVIOUS
  <2>2. PICK m \in Nat \ {0} : m = n - 1
    BY <1>10
  <2>3. /\ stack' = Append(SubSeq(stack, 1, frame.return_index), v)
        /\ acts' = [Front(acts) EXCEPT
              ![Len(acts) - 1].ops = Append(@, Means(v)),
              ![Len(acts) - 1].alloc = act.built]
        /\ legal' = (legal /\ (act.ops # <<>> => ~ Last(act.ops).held))
    BY <1>3, <1>10, <2>1 DEF Return, Legal
  <2>4. v \in Cell /\ Sound(v)
    <3>1. stack \in Seq(Cell) /\ stack # <<>>
      BY <1>2, <1>4, <1>5 DEF Types
    <3>2. v = stack[b + 1] \/ v = stack[e]
      BY <1>4, <2>1, <3>1, FrontIsCut DEF Result
    <3>3. b + 1 \in 1 .. e /\ e \in 1 .. e
      BY <1>5
    <3> QED BY <1>2, <1>4, <3>1, <3>2, <3>3, ElementOfSeq DEF Known
  <2>5. /\ stack' \in Seq(Cell) /\ Len(stack') = b + 1 /\ stack'[b + 1] = v
        /\ \A i \in 1 .. b : stack'[i] = stack[i]
    <3>1. e - b \in 0 .. e /\ e - (e - b) = b
      BY <1>5
    <3>2. stack \in Seq(Cell)
      BY <1>2 DEF Types
    <3>3. PICK k \in 0 .. e : k = e - b
      BY <3>1
    <3>4. /\ Append(Without(stack, k), v) \in Seq(Cell)
          /\ Len(Append(Without(stack, k), v)) = Len(stack) - k + 1
          /\ \A i \in 1 .. Len(stack) - k :
                Append(Without(stack, k), v)[i] = stack[i]
          /\ Append(Without(stack, k), v)[Len(stack) - k + 1] = v
      BY <1>4, <2>4, <3>2, CutPush
    <3>5. Len(stack) - k = b
      BY <1>4, <3>1, <3>3
    <3>6. stack' = Append(Without(stack, k), v)
      BY <1>4, <2>3, <3>5 DEF Without
    <3> QED BY <3>4, <3>5, <3>6
  <2>6. PICK op : op = Means(v)
    OBVIOUS
  <2>7. /\ op \in Operation /\ op.held = FALSE
        /\ ~ IsObj(v) => op.to = 0
        /\ \A a, i, f : OpFits(a, op, i, v, objs, f)
    BY <1>2, <2>4, <2>6, MeansWell
  <2>8. PICK d : d = acts[m]
    OBVIOUS
  <2>9. m \in 1 .. Len(acts) - 1 /\ m + 1 = n /\ m = Len(acts) - 1
    BY <1>3, <2>2
  <2>10. /\ d \in Activation /\ Base(m) \in Nat
         /\ Fits(d, Base(m), b, stack, objs, init_field, looked)
    <3>1. /\ acts[m] \in Activation /\ Base(m) \in Nat
          /\ End(m) = Base(m + 1)
          /\ Fits(acts[m], Base(m), End(m), stack, objs, init_field, looked)
      BY <1>2, <2>9, LowerEnds
    <3>2. Base(m + 1) = b
      BY <1>2, <1>3, <1>4, <2>9, TopIs
    <3> QED BY <2>8, <3>1, <3>2
  <2>11. PICK x : x = [d EXCEPT !.ops = Append(@, op)]
    OBVIOUS
  <2>12. /\ x \in Activation
         /\ Fits(x, Base(m), b + 1, stack', objs, init_field, looked)
    <3>1. \A i \in Base(m) + 1 .. b : i \in 1 .. b
      BY <2>10
    <3>2. \A i \in Base(m) + 1 .. b : stack'[i] = stack[i]
      BY <2>5, <3>1
    <3>3. OpFits(d, op, Len(d.ops) + 1, stack'[b + 1], objs, init_field)
      BY <2>5, <2>7
    <3> QED BY <2>7, <2>10, <2>11, <3>2, <3>3, FitPush
  <2>13. PICK l \in Nat, o \in Nat : l = Len(d.ops) /\ o = Opening(d)
    BY <2>10, Sizes, OpeningNat
  <2>14. /\ x.ops = Append(d.ops, op) /\ x.ops \in Seq(Operation)
         /\ Len(x.ops) = l + 1 /\ x.ops[l + 1] = op /\ x.ops # <<>>
    <3>1. PICK z \in Seq(Operation) : z = d.ops
      BY <2>10, Sizes
    <3>2. /\ Append(z, op) \in Seq(Operation) /\ Len(Append(z, op)) = Len(z) + 1
          /\ Append(z, op) # <<>> /\ Append(z, op)[Len(z) + 1] = op
      BY <2>7, Pushed
    <3>3. x.ops = Append(d.ops, op)
      BY <2>10, <2>11 DEF Activation
    <3> QED BY <2>13, <3>1, <3>2, <3>3
  <2>15. /\ x.below = d.below /\ x.ctors = d.ctors /\ x.built = d.built
         /\ x.short = d.short /\ x.self = d.self
    BY <2>10, <2>11 DEF Activation
  <2>16. PICK c : c = [x EXCEPT !.alloc = act.built]
    OBVIOUS
  <2>17. /\ c \in Activation /\ c.ops = x.ops /\ c.ctors = x.ctors
         /\ c.below = x.below /\ c.built = x.built /\ c.short = x.short
         /\ c.self = x.self /\ c.alloc = act.built
    <3>1. act.built \in BOOLEAN
      BY <1>2 DEF Activation
    <3> QED BY <2>12, <2>16, <3>1 DEF Activation
  <2>18. Fits(c, Base(m), b + 1, stack', objs, init_field, looked)
    <3>1. Placed(c, Base(m), b + 1, looked)
      BY <2>12, <2>17 DEF Fits, Placed, Missing
    <3>2. Nests(c, init_field)
      BY <2>12, <2>17 DEF Fits, Nests, Upper
    <3>3. Holds(c, b + 1, stack', objs, init_field)
      <4>1. ASSUME NEW i \in 1 .. Len(x.ops), NEW y,
                   OpFits(x, x.ops[i], i, y, objs, init_field)
            PROVE  OpFits(c, x.ops[i], i, y, objs, init_field)
        BY <2>17, <4>1 DEF OpFits, Inner
      <4>2. PICK z : z = b + 1
        OBVIOUS
      <4>3. Holds(x, z, stack', objs, init_field)
        BY <2>12, <4>2 DEF Fits
      <4>4. Holds(c, z, stack', objs, init_field)
        BY <2>17, <4>1, <4>3 DEF Holds
      <4> QED BY <4>2, <4>4
    <3> QED BY <3>1, <3>2, <3>3 DEF Fits
  <2>19. acts' = [Front(acts) EXCEPT ![Len(acts) - 1] = c]
    <3>1. acts \in Seq(Activation) /\ acts # <<>>
      BY <1>2, TopIs DEF Types
    <3>2. Front(acts) = Without(acts, 1) /\ 1 \in 0 .. Len(acts)
      BY <3>1, FrontIsCut
    <3>3. /\ Without(acts, 1) \in Seq(Activation)
          /\ Len(Without(acts, 1)) = Len(acts) - 1
          /\ \A k \in 1 .. Len(acts) - 1 : Without(acts, 1)[k] = acts[k]
      BY <3>1, <3>2, Cut
    <3>4. PICK z \in Seq(Activation) : z = Front(acts)
      BY <3>2, <3>3
    <3>5. Len(z) = m /\ z[m] = d /\ m \in 1 .. Len(z)
      BY <2>8, <2>9, <3>2, <3>3, <3>4
    <3>6. acts' = [z EXCEPT ![m].ops = Append(@, op), ![m].alloc = act.built]
      <4>1. Len(acts) - 1 = m
        BY <2>9
      <4> QED BY <2>3, <2>6, <3>4, <4>1
    <3>7. c = [[d EXCEPT !.ops = Append(@, op)] EXCEPT !.alloc = act.built]
      BY <2>11, <2>16
    <3>8. acts' = [z EXCEPT ![m] = c]
      BY <3>5, <3>6, <3>7
    <3> QED BY <2>9, <3>4, <3>8
  <2>20. acts' \in Seq(Activation) /\ Len(acts') = m
    <3>1. acts \in Seq(Activation) /\ acts # <<>>
      BY <1>2, TopIs DEF Types
    <3>2. Front(acts) = Without(acts, 1) /\ 1 \in 0 .. Len(acts)
      BY <3>1, FrontIsCut
    <3>3. Without(acts, 1) \in Seq(Activation)
          /\ Len(Without(acts, 1)) = Len(acts) - 1
      BY <3>1, <3>2, Cut
    <3>4. PICK z \in Seq(Activation) : z = Front(acts) /\ Len(z) = m
      BY <2>9, <3>2, <3>3
    <3>5. m \in 1 .. Len(z) /\ acts' = [z EXCEPT ![m] = c]
      BY <2>9, <2>19, <3>4
    <3> QED BY <2>17, <3>4, <3>5, ExceptSeq
  <2>21. Types'
    <3>1. legal' \in BOOLEAN
      BY <2>3
    <3>2. Len(frames') = Len(acts')
      BY <1>6, <2>2, <2>20
    <3> QED BY <1>1, <1>2, <1>6, <2>5, <2>20, <3>1, <3>2 DEF Types
  <2>22. Known'
    <3>1. \A i \in 1 .. b + 1 : i \in 1 .. e
      BY <1>5
    <3>2. \A i \in 1 .. b + 1 : i \in 1 .. b \/ i = b + 1
      OBVIOUS
    <3>3. \A i \in 1 .. b + 1 : Sound(stack'[i])
      BY <1>2, <1>4, <2>4, <2>5, <3>1, <3>2 DEF Known
    <3>4. \A i \in 1 .. Len(stack') : Sound(stack[i])'
      BY <1>1, <2>5, <3>3 DEF Sound
    <3> QED BY <1>1, <1>2, <3>4 DEF Known, Sound
  <2>23. Ready(c, stack')
    <3>1. /\ act.built => d.ctors # <<>> /\ l = o - 1
          /\ ~ act.built => o <= l
      <4>1. IF acts[m + 1].built
            THEN /\ acts[m].ctors # <<>>
                 /\ Len(acts[m].ops) = Opening(acts[m]) - 1
            ELSE Opening(acts[m]) <= Len(acts[m].ops)
        BY <1>2, <2>9 DEF Deep, Opened
      <4> QED BY <1>5, <2>8, <2>9, <2>13, <4>1
    <3>2. Opening(c) = o /\ Len(c.ops) = l + 1 /\ c.ops # <<>>
      BY <2>13, <2>14, <2>15, <2>17 DEF Opening
    <3>3. o <= l + 1 /\ (act.built => l + 1 = o)
      BY <3>1
    <3>4. ~ c.ops[Len(c.ops)].held
      BY <2>7, <2>14, <2>17, <3>2
    <3>5. IsFn(stack'[Len(stack')]) => c.ops[Len(c.ops)].to = 0
      BY <2>4, <2>5, <2>7, <2>14, <2>17, <3>2, CellKinds
    <3> QED BY <2>15, <2>17, <3>1, <3>2, <3>3, <3>4, <3>5 DEF Ready
  <2>24. Deep'
    <3>1. Len(stack) >= frame.return_index
      BY <1>2
    <3>2. Len(acts) > 1
      BY <1>3, <1>10
    <3>3. Fits(c, Base(Len(acts) - 1), Len(stack'), stack', objs',
               init_field', looked')
      BY <1>1, <2>5, <2>9, <2>18
    <3>4. /\ c.below = acts[Len(acts) - 1].below
          /\ c.ctors = acts[Len(acts) - 1].ctors
          /\ c.built = acts[Len(acts) - 1].built
      BY <2>8, <2>9, <2>15, <2>17
    <3>5. LeaveStep(c)
      BY <1>1, <1>4, <2>5, <2>19, <2>23, <3>1, <3>2, <3>3, <3>4 DEF LeaveStep
    <3> QED BY <1>2, <2>17, <2>21, <3>5, LeaveKeeps
  <2> QED BY <1>8, <2>21, <2>22, <2>24 DEF ObjectsInv
<1> QED BY <1>9, <1>10

LEMMA InitKeeps ==
    ASSUME Init
    PROVE  ObjectsInv
<1>1. /\ stack = <<>> /\ frames = <<>> /\ init_field = <<>>
      /\ tables = <<>> /\ objs = <<>> /\ caller = 0
      /\ acts = <<>> /\ looked = 0 /\ legal = TRUE
  BY DEF Init
<1>2. /\ Len(stack) = 0 /\ Len(init_field) = 0 /\ Len(tables) = 0
      /\ Len(objs) = 0 /\ Len(acts) = 0 /\ Len(frames) = 0
  BY <1>1
<1>3. /\ stack \in Seq(Cell) /\ frames \in Seq(Frame)
      /\ acts \in Seq(Activation) /\ init_field \in Seq(Nat)
      /\ tables \in Seq(Tables) /\ objs \in Seq(Instances)
  BY <1>1
<1>4. Types
  BY <1>1, <1>2, <1>3 DEF Types
<1>5. Known /\ Owned /\ Called
  BY <1>1, <1>2 DEF Known, Owned, Called
<1>6. Stacked /\ Opened /\ AllFit /\ ~ Running
  BY <1>1, <1>2 DEF Stacked, Opened, AllFit, Upto, Running
<1> QED BY <1>4, <1>5, <1>6 DEF ObjectsInv, Deep

LEMMA NextKeeps ==
    ASSUME ObjectsInv, [Next]_vars
    PROVE  ObjectsInv'
<1>1. CASE Interpret
  BY <1>1, InterpretKeeps
<1>2. ASSUME NEW v \in {Datum(d) : d \in Data}
                          \cup {Obj(i) : i \in DOMAIN objs},
             Operand(v)
      PROVE  ObjectsInv'
  BY <1>2, OperandKeeps
<1>3. CASE Discard
  BY <1>3, DiscardKeeps
<1>4. CASE EndStatement
  BY <1>4, EndStatementKeeps
<1>5. ASSUME NEW c \in HasInit, Class(c)
      PROVE  ObjectsInv'
  BY <1>5, ClassKeeps
<1>6. CASE AllocBuilt
  BY <1>6, AllocBuiltKeeps
<1>7. ASSUME NEW c \in Classes, AllocPlain(c)
      PROVE  ObjectsInv'
  BY <1>7, AllocPlainKeeps
<1>8. CASE This
  BY <1>8, ThisKeeps
<1>9. ASSUME NEW p \in Read, GetProp(p)
      PROVE  ObjectsInv'
  BY <1>9, GetPropKeeps
<1>10. ASSUME NEW p \in Fields, SetProp(p)
       PROVE  ObjectsInv'
  BY <1>10, SetPropKeeps
<1>11. ASSUME NEW n \in 0 .. MAX_ARGS, Call(n)
       PROVE  ObjectsInv'
  <2>1. n \in Nat
    OBVIOUS
  <2> QED BY <1>11, <2>1, CallKeeps
<1>12. CASE Return
  BY <1>12, ReturnKeeps
<1>13. CASE UNCHANGED vars
  <2>1. UNCHANGED <<stack, frames, init_field, tables, objs, caller, acts,
                    looked, legal>>
    BY <1>13 DEF vars, heap
  <2>2. Types' /\ Known' /\ Owned' /\ Called' = Called
    BY <2>1 DEF ObjectsInv, Types, Known, Owned, Called, Sound
  <2>3. Stacked' = Stacked /\ Opened' = Opened /\ AllFit' = AllFit
    BY <2>1 DEF Stacked, Opened, AllFit, Upto, Base, End
  <2>4. Running' = Running /\ Ready(act, stack)' = Ready(act, stack)
    BY <2>1 DEF Running, act
  <2> QED BY <2>1, <2>2, <2>3, <2>4 DEF ObjectsInv, Deep
<1> QED BY <1>1, <1>2, <1>3, <1>4, <1>5, <1>6, <1>7, <1>8, <1>9, <1>10,
           <1>11, <1>12, <1>13 DEF Next

(* The invariant holds in every reachable state.                           *)
LEMMA ObjectsInvariant == Spec => []ObjectsInv
<1>1. Init => ObjectsInv
  BY InitKeeps
<1>2. ObjectsInv /\ [Next]_vars => ObjectsInv'
  BY NextKeeps
<1> QED BY <1>1, <1>2, PTL DEF Spec

-----------------------------------------------------------------------------
(* The properties                                                          *)

(* No table has two owners, among the instances and the constructions that *)
(* are filling one, even after runtime errors have abandoned some of them: *)
(* property TablesOwned, for any number of classes, objects and calls.     *)
THEOREM ObjectsOwnTables == Spec => []TablesOwned
<1>1. ObjectsInv => TablesOwned
  <2> SUFFICES ASSUME Types, Owned PROVE TablesOwned
    BY DEF ObjectsInv
  <2>1. PICK l \in Nat, z \in Nat : l = Len(init_field) /\ z = Len(objs)
    BY DEF Types
  <2>2. DOMAIN objs = 1 .. z
    BY <2>1, LenProperties DEF Types
  <2>3. PICK g : g = [i \in 1 .. z |-> objs[i].fields]
    OBVIOUS
  <2>4. \A i \in 1 .. z : objs[i].fields \in Nat
    <3>1. \A i \in 1 .. z : objs[i] \in Instances
      BY <2>1, ElementOfSeq DEF Types
    <3> QED BY <3>1 DEF Instances
  <2>5. PICK S : S = Nat
    OBVIOUS
  <2>6. g \in Seq(S) /\ Len(g) = z /\ \A i \in 1 .. z : g[i] = objs[i].fields
    BY <2>3, <2>4, <2>5
  <2>7. PICK h : h = init_field \o g
    OBVIOUS
  <2>8. init_field \in Seq(S)
    BY <2>5 DEF Types
  <2>9. /\ h \in Seq(S) /\ Len(h) = l + z
        /\ \A i \in 1 .. l + z :
              h[i] = IF i <= l THEN init_field[i] ELSE g[i - l]
    <3>1. /\ init_field \o g \in Seq(S)
          /\ Len(init_field \o g) = Len(init_field) + Len(g)
          /\ \A i \in 1 .. Len(init_field) + Len(g) :
                (init_field \o g)[i] = IF i <= Len(init_field)
                   THEN init_field[i] ELSE g[i - Len(init_field)]
      BY <2>6, <2>8, ConcatProperties
    <3> QED BY <2>1, <2>6, <2>7, <3>1
  <2>10. \A i \in 1 .. l + z :
            \/ i \in 1 .. l /\ h[i] = init_field[i]
            \/ i - l \in 1 .. z /\ h[i] = objs[i - l].fields
    BY <2>6, <2>9
  <2>11. \A i, j \in 1 .. l + z : h[i] = h[j] => i = j
    <3> SUFFICES ASSUME NEW i \in 1 .. l + z, NEW j \in 1 .. l + z,
                        h[i] = h[j]
                 PROVE  i = j
      OBVIOUS
    <3>1. CASE i \in 1 .. l /\ h[i] = init_field[i]
      <4>1. ~ (j - l \in 1 .. z /\ h[j] = objs[j - l].fields)
        BY <2>1, <3>1 DEF Owned
      <4>2. j \in 1 .. l /\ h[j] = init_field[j]
        BY <2>10, <4>1
      <4> QED BY <2>1, <3>1, <4>2 DEF Owned
    <3>2. CASE i - l \in 1 .. z /\ h[i] = objs[i - l].fields
      <4>1. ~ (j \in 1 .. l /\ h[j] = init_field[j])
        BY <2>1, <3>2 DEF Owned
      <4>2. j - l \in 1 .. z /\ h[j] = objs[j - l].fields
        BY <2>10, <4>1
      <4>3. i - l = j - l
        BY <2>1, <3>2, <4>2 DEF Owned
      <4> QED BY <4>3
    <3> QED BY <2>10, <3>1, <3>2
  <2>12. DOMAIN h = 1 .. l + z
    BY <2>9, LenProperties
  <2>13. IsInjective(h)
    BY <2>11, <2>12 DEF IsInjective
  <2>14. h = init_field \o [i \in DOMAIN objs |-> objs[i].fields]
    BY <2>2, <2>3, <2>7
  <2> QED BY <2>13, <2>14 DEF TablesOwned
<1> QED BY <1>1, ObjectsInvariant, PTL

(* The tables of the open constructions, and no others, are on init_field, *)
(* in the order of the activations that began them: property               *)
(* ConstructorsNest, however deep constructors call and construct.         *)
THEOREM ObjectsNest == Spec => []ConstructorsNest
<1>1. ObjectsInv => ConstructorsNest
  <2> SUFFICES ASSUME Types, Deep PROVE ConstructorsNest
    BY DEF ObjectsInv, ConstructorsNest
  <2>1. DOMAIN acts = 1 .. Len(acts)
    BY LenProperties DEF Types
  <2>2. /\ Len(init_field) = Upto(Len(acts))
        /\ \A k \in 1 .. Len(acts) : acts[k].below = Upto(k - 1)
    BY DEF Deep, Stacked
  <2>3. ASSUME NEW k \in 1 .. Len(acts), NEW j \in DOMAIN acts[k].ctors
        PROVE  init_field[acts[k].below + j] = acts[k].ctors[j].tab
    <3>1. acts[k] \in Activation
      BY ElementOfSeq DEF Types
    <3>2. j \in 1 .. Len(acts[k].ctors)
      BY <3>1, Sizes, LenProperties
    <3> QED BY <3>2 DEF Deep, AllFit, Fits, Nests
  <2> QED BY <2>1, <2>2, <2>3 DEF ConstructorsNest
<1> QED BY <1>1, ObjectsInvariant, PTL

(* In a legal program `this` leads to the object it means: during          *)
(* constructions because every property goes to the topmost table, which   *)
(* is that of the constructor that runs or called, otherwise because its   *)
(* method was looked up in that object last: property ThisIsReceiver.      *)
THEOREM ObjectsThis == Spec => []ThisIsReceiver
<1>1. ObjectsInv => ThisIsReceiver
  <2> SUFFICES ASSUME ObjectsInv, legal, Running, act.self # 0,
                      act.ctors = <<>>, Constructing \/ looked = act.self
               PROVE  Accepts(Obj(caller)) /\ Target(Obj(caller)) = act.self
    BY DEF ThisIsReceiver
  <2>1. /\ Types /\ Deep /\ Called /\ act \in Activation
        /\ Fits(act, frame.return_index, Len(stack), stack, objs,
                init_field, looked)
    BY Situation DEF Goes
  <2>2. caller \in Nat
    BY <2>1 DEF Types
  <2>3. CASE Constructing
    <3>1. Redirected /\ Len(init_field) = Upper(act) /\ Len(init_field) > 0
      BY <2>1, <2>3, Innermost
    <3>2. Len(act.ctors) = 0 /\ act.below \in Nat
      BY <2>1, Sizes
    <3>3. Len(init_field) = act.below /\ act.below > 0
      BY <3>1, <3>2 DEF Upper
    <3>4. act.self = init_field[act.below]
      BY <2>1, <3>3 DEF Fits, Nests
    <3>5. Last(init_field) = init_field[Len(init_field)]
      BY DEF Last
    <3> QED BY <3>1, <3>3, <3>4, <3>5 DEF Accepts, Target
  <2>4. CASE ~ Constructing
    <3>1. ~ Redirected /\ looked = act.self
      BY <2>1, <2>4, Innermost
    <3>2. objs[caller].fields = act.self
      BY <2>1, <3>1 DEF Called
    <3> QED BY <2>2, <3>1, <3>2, CellKinds DEF Accepts, Target
  <2> QED BY <2>3, <2>4
<1> QED BY <1>1, ObjectsInvariant, PTL

(* A legal program finds each operand of its statement at its place and    *)
(* never reaches below its frame, although OP_THIS may push nothing:       *)
(* property OperandsAsMeant.                                               *)
THEOREM ObjectsOperands == Spec => []OperandsAsMeant
<1>1. ObjectsInv => OperandsAsMeant
  <2> SUFFICES ASSUME ObjectsInv, legal, Running
               PROVE  /\ Len(stack) > frame.return_index
                      /\ \A i \in DOMAIN act.ops :
                            LET v == stack[Len(stack) - (Len(act.ops) - i)] IN
                            ~ act.ops[i].held /\ IsObj(v) =>
                               objs[v[2]].fields = act.ops[i].to
    BY DEF OperandsAsMeant
  <2>1. /\ Types /\ act \in Activation /\ Len(stack) \in Nat
        /\ Len(stack) > frame.return_index
        /\ Fits(act, frame.return_index, Len(stack), stack, objs,
                init_field, looked)
    BY Situation DEF Goes
  <2>2. PICK e \in Nat, w \in Nat : e = Len(stack) /\ w = Len(act.ops)
    BY <2>1, Sizes
  <2>3. DOMAIN act.ops = 1 .. w
    BY <2>1, <2>2, Sizes, LenProperties
  <2>4. ASSUME NEW i \in 1 .. w
        PROVE  ~ act.ops[i].held /\ IsObj(stack[e - (w - i)]) =>
                  objs[stack[e - (w - i)][2]].fields = act.ops[i].to
    <3>1. OpFits(act, act.ops[i], i, stack[e - w + i], objs, init_field)
      BY <2>1, <2>2 DEF Fits, Holds
    <3>2. e - w + i = e - (w - i)
      OBVIOUS
    <3> QED BY <3>1, <3>2 DEF OpFits
  <2> QED BY <2>1, <2>2, <2>3, <2>4
<1> QED BY <1>1, ObjectsInvariant, PTL

(* Beside the invariant: the bounds that no handler tests twice.           *)
Bounds == Len(frames) <= FRAMES_MAX /\ looked <= Len(tables)

LEMMA FramesBounded ==
    ASSUME ObjectsInv, Bounds, [Next]_vars
    PROVE  Len(frames') <= FRAMES_MAX
<1>1. /\ frames \in Seq(Frame) /\ Len(frames) \in Nat
      /\ FRAMES_MAX \in Nat /\ FRAMES_MAX >= 1 /\ Len(frames) <= FRAMES_MAX
  BY ObjectsAssumption DEF ObjectsInv, Types, Bounds
<1>2. CASE UNCHANGED frames
  BY <1>1, <1>2
<1>3. CASE Interpret
  <2>1. PICK r : frames' = <<r>>
    BY <1>3 DEF Interpret
  <2> QED BY <1>1, <2>1
<1>4. ASSUME NEW n, Fail(n)
      PROVE  Len(frames') <= FRAMES_MAX
  <2>1. Len(frames') = 0
    BY <1>4 DEF Fail
  <2> QED BY <1>1, <2>1
<1>5. ASSUME NEW n \in Nat, Call(n)
      PROVE  Len(frames') <= FRAMES_MAX
  <2>1. \/ Fail(0)
        \/ ~ Full /\ \E r : frames' = Append(frames, r)
    BY <1>5 DEF Call
  <2>2. ASSUME ~ Full, NEW r, frames' = Append(frames, r)
        PROVE  Len(frames') <= FRAMES_MAX
    <3>1. Len(frames) # FRAMES_MAX
      BY <2>2 DEF Full
    <3>2. PICK S : S = Frame \cup {r}
      OBVIOUS
    <3>3. frames \in Seq(S) /\ r \in S
      BY <1>1, <3>2, SeqMonotonic
    <3>4. Len(frames') = Len(frames) + 1
      BY <2>2, <3>3, Pushed
    <3> QED BY <1>1, <3>1, <3>4
  <2> QED BY <1>4, <2>1, <2>2
<1>6. CASE Return
  <2>1. frames' = Front(frames) /\ frames # <<>>
    BY <1>6 DEF Return, Instr, Goes, Running
  <2>2. Front(frames) = Without(frames, 1) /\ 1 \in 0 .. Len(frames)
    BY <1>1, <2>1, FrontIsCut
  <2>3. Len(Without(frames, 1)) = Len(frames) - 1
    BY <1>1, <2>2, Cut
  <2> QED BY <1>1, <2>1, <2>2, <2>3
<1>7. ASSUME NEW p, GetProp(p) \/ SetProp(p)
      PROVE  Fail(1) \/ Fail(2) \/ UNCHANGED frames
  BY <1>7 DEF GetProp, SetProp
<1>8. CASE \E v \in {Datum(d) : d \in Data} \cup {Obj(i) : i \in DOMAIN objs} :
              Operand(v)
  BY <1>2, <1>8 DEF Operand
<1>9. CASE Discard \/ EndStatement \/ AllocBuilt \/ This
  BY <1>2, <1>9 DEF Discard, EndStatement, AllocBuilt, This
<1>10. CASE (\E c \in HasInit : Class(c)) \/ \E c \in Classes : AllocPlain(c)
  BY <1>2, <1>10 DEF Class, AllocPlain
<1>11. CASE \E n \in 0 .. MAX_ARGS : Call(n)
  BY <1>5, <1>11
<1>12. CASE UNCHANGED vars
  BY <1>2, <1>12 DEF vars
<1> QED BY <1>2, <1>3, <1>4, <1>6, <1>7, <1>8, <1>9, <1>10, <1>11, <1>12
           DEF Next

LEMMA LookedBounded ==
    ASSUME ObjectsInv, ObjectsInv', Bounds, [Next]_vars
    PROVE  looked' <= Len(tables')
<1>1. /\ tables \in Seq(Tables) /\ Len(tables) \in Nat /\ looked \in Nat
      /\ looked <= Len(tables)
  BY DEF ObjectsInv, Types, Bounds
<1>2. \A x : Len(tables) <= Len(Append(tables, x))
  <2> SUFFICES ASSUME NEW x PROVE Len(tables) <= Len(Append(tables, x))
    OBVIOUS
  <2>1. PICK S : S = Tables \cup {x}
    OBVIOUS
  <2>2. tables \in Seq(S) /\ x \in S
    BY <1>1, <2>1, SeqMonotonic
  <2>3. Len(Append(tables, x)) = Len(tables) + 1
    BY <2>2, Pushed
  <2> QED BY <1>1, <2>3
<1>3. CASE UNCHANGED <<looked, tables>>
  BY <1>1, <1>3
<1>4. CASE looked' = looked /\ \E x : tables' = Append(tables, x)
  <2>1. PICK x : tables' = Append(tables, x)
    BY <1>4
  <2>2. Len(tables) <= Len(tables')
    BY <1>2, <2>1
  <2>3. Len(tables') \in Nat
    BY DEF ObjectsInv, Types
  <2> QED BY <1>1, <1>4, <2>2, <2>3
<1>5. ASSUME NEW p, GetProp(p)
      PROVE  looked' <= Len(tables')
  <2>1. Goes /\ ~ act.alloc /\ Len(act.ops) - 1 >= Open
    BY <1>5 DEF GetProp, Has, Instr
  <2>2. /\ Types /\ Known /\ Owned /\ Deep /\ act \in Activation
        /\ Open = Opening(act) /\ Running
    BY <2>1, Situation
  <2>3. Len(act.ops) > 0
    BY <2>1, <2>2, Sizes, OpeningNat
  <2>4. tables' = tables
    BY <1>5 DEF GetProp, Fail, heap
  <2>5. CASE looked' = looked
    BY <1>3, <2>4, <2>5
  <2>6. CASE looked' # looked
    <3>1. PICK v, r : v = Last(stack) /\ r = Last(act.ops)
      OBVIOUS
    <3>2. ~ Constructing /\ Accepts(v) /\ looked' = r.to
      BY <1>5, <2>6, <3>1 DEF GetProp
    <3>3. /\ r \in Operation /\ v \in Cell /\ Sound(v)
          /\ OpFits(act, r, Len(act.ops), v, objs, init_field)
      <4>1. /\ act.ops[Len(act.ops) - 0] \in Operation
            /\ stack[Len(stack) - 0] \in Cell /\ Sound(stack[Len(stack) - 0])
            /\ OpFits(act, act.ops[Len(act.ops) - 0], Len(act.ops) - 0,
                      stack[Len(stack) - 0], objs, init_field)
        BY <2>1, <2>3, TopOperand
      <4>2. Len(act.ops) - 0 = Len(act.ops) /\ Len(stack) - 0 = Len(stack)
        BY <2>2, Sizes DEF Types
      <4>3. v = stack[Len(stack)] /\ r = act.ops[Len(act.ops)]
        BY <3>1 DEF Last
      <4> QED BY <4>1, <4>2, <4>3
    <3>4. IsObj(v)
      BY <2>2, <3>2, Innermost DEF Accepts
    <3>5. ~ r.held
      BY <2>1, <3>2, <3>3, HeldMeans
    <3>6. r.to = objs[v[2]].fields /\ v[2] \in 1 .. Len(objs)
      BY <3>3, <3>4, <3>5 DEF OpFits, Sound
    <3>7. r.to \in 1 .. Len(tables)
      BY <2>2, <3>6 DEF Owned
    <3> QED BY <1>1, <2>4, <3>2, <3>7
  <2> QED BY <2>5, <2>6
<1>6. ASSUME NEW p, SetProp(p)
      PROVE  looked' <= Len(tables')
  <2>1. looked' = looked
    BY <1>6 DEF SetProp
  <2>2. \/ tables' = tables
        \/ \E k, z : tables' = [tables EXCEPT ![k] = z]
    BY <1>6 DEF SetProp, Fail, heap
  <2>3. DOMAIN tables' = DOMAIN tables
    BY <2>2
  <2>4. Len(tables') = Len(tables)
    <3>1. tables' \in Seq(Tables) /\ Len(tables') \in Nat
      BY DEF ObjectsInv, Types
    <3>2. 1 .. Len(tables') = 1 .. Len(tables)
      BY <1>1, <2>3, <3>1, LenProperties
    <3> QED BY <1>1, <3>1, <3>2
  <2> QED BY <1>1, <2>1, <2>4
<1>7. CASE Interpret
  BY <1>3, <1>7 DEF Interpret, heap
<1>8. CASE \E v \in {Datum(d) : d \in Data} \cup {Obj(i) : i \in DOMAIN objs} :
              Operand(v)
  BY <1>3, <1>8 DEF Operand, heap
<1>9. CASE Discard \/ EndStatement \/ AllocBuilt \/ This
  BY <1>3, <1>9 DEF Discard, EndStatement, AllocBuilt, This, heap
<1>10. CASE (\E c \in HasInit : Class(c)) \/ \E c \in Classes : AllocPlain(c)
  BY <1>4, <1>10 DEF Class, AllocPlain
<1>11. CASE \E n \in 0 .. MAX_ARGS : Call(n)
  BY <1>3, <1>11 DEF Call, Fail, heap
<1>12. CASE Return
  BY <1>3, <1>12 DEF Return, heap
<1>13. CASE UNCHANGED vars
  BY <1>3, <1>13 DEF vars, heap
<1> QED BY <1>5, <1>6, <1>7, <1>8, <1>9, <1>10, <1>11, <1>12, <1>13 DEF Next

(* Type correctness: the machine never has more frames than the array      *)
(* holds, and what init_field, the instances and the remembered receiver   *)
(* refer to exists: property TypeOK.                                       *)
THEOREM ObjectsTypes == Spec => []TypeOK
<1>1. Init => ObjectsInv /\ Bounds
  <2> SUFFICES ASSUME Init PROVE ObjectsInv /\ Bounds
    OBVIOUS
  <2>1. ObjectsInv
    BY InitKeeps
  <2>2. Len(frames) = 0 /\ looked = 0 /\ Len(tables) = 0
    BY DEF Init
  <2> QED BY <2>1, <2>2, ObjectsAssumption DEF Bounds
<1>2. ObjectsInv /\ Bounds /\ [Next]_vars => (ObjectsInv /\ Bounds)'
  <2> SUFFICES ASSUME ObjectsInv, Bounds, [Next]_vars
               PROVE  ObjectsInv' /\ Bounds'
    OBVIOUS
  <2>1. ObjectsInv'
    BY NextKeeps
  <2> QED BY <2>1, FramesBounded, LookedBounded DEF Bounds
<1>3. ObjectsInv /\ Bounds => TypeOK
  <2> SUFFICES ASSUME Types, Owned, Bounds PROVE TypeOK
    BY DEF ObjectsInv
  <2>1. /\ DOMAIN tables = 1 .. Len(tables) /\ DOMAIN objs = 1 .. Len(objs)
        /\ DOMAIN init_field = 1 .. Len(init_field)
        /\ Len(tables) \in Nat /\ Len(objs) \in Nat
    BY LenProperties DEF Types
  <2>2. ToSet(init_field) \subseteq DOMAIN tables
    BY <2>1 DEF Owned, ToSet
  <2>3. \A i \in DOMAIN objs : /\ objs[i].class \in Classes
                               /\ objs[i].fields \in DOMAIN tables
    <3>1. \A i \in DOMAIN objs : objs[i] \in Instances
      BY <2>1, ElementOfSeq DEF Types
    <3> QED BY <2>1, <3>1 DEF Owned, Instances
  <2>4. \A i \in DOMAIN tables : DOMAIN tables[i] \subseteq Names
    <3>1. \A i \in DOMAIN tables : tables[i] \in Tables
      BY <2>1, ElementOfSeq DEF Types
    <3> QED BY <3>1 DEF Tables
  <2>5. caller \in DOMAIN objs \cup {0} /\ looked \in 0 .. Len(tables)
    BY <2>1 DEF Types, Bounds
  <2> QED BY <2>2, <2>3, <2>4, <2>5 DEF TypeOK, Types, Bounds
<1> QED BY <1>1, <1>2, <1>3, PTL DEF Spec

==============================================================================
