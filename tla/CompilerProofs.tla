--------------------------- MODULE CompilerProofs ---------------------------
(***************************************************************************)
(* Proofs about the two parts of the compiler that need no code to run.    *)
(*                                                                         *)
(* Scopes, for every set of names, nesting of blocks and size of the       *)
(* stack: in a script whose locals are all initialised and whose blocks    *)
(* pop no more than their locals, the list of locals is the tail of the    *)
(* declarations in scope, so that the search from its end finds what the   *)
(* program means.                                                          *)
(*                                                                         *)
(* Scanner, for every source: what was read is counted in scan.line up to  *)
(* the first text whose line breaks are missed, and a word has the type    *)
(* that the cases of id_type come to.                                      *)
(***************************************************************************)
EXTENDS Scopes, Scanner, FiniteSetTheorems, SequenceTheorems,
        WellFoundedInduction, TLAPS

(* What a record of the list, a declaration and an element may be.         *)
Records      == [name : Names \cup {Garbage}, depth : Nat]
Declarations == [name : Names, scope : Nat, val : Literals \cup {Nil}]
Elements     == Literals \cup {Nil, Junk}

(* The first record stays the one that init_compiler reserves.             *)
ListOK ==
    /\ list \in [0 .. MAX_LOCALS -> Records]
    /\ list[0] = [name |-> Garbage, depth |-> 0]
    /\ nlocal \in 1 .. MAX_LOCALS + 1

StackOK ==
    /\ cells \in [0 .. MAX_CELLS -> Elements]
    /\ count \in 0 .. MAX_CELLS
    /\ globs \in [Names -> Literals \cup {Unset}]

(* Without functions the locals are those of the open blocks, outermost    *)
(* first.                                                                  *)
Nested ==
    funs = 0 => \A i \in 1 .. nlocal - 1 :
                   /\ list[i].name \in Names
                   /\ list[i].depth \in 1 .. scope
                   /\ \A j \in i .. nlocal - 1 : list[i].depth <= list[j].depth

(* The declarations in scope: the globals, then the locals.                *)
G == Len(env) - (nlocal - 1)

LocalsMatch ==
    \A i \in 1 .. nlocal - 1 :
        /\ env[G + i].name = list[i].name
        /\ env[G + i].scope = list[i].depth
        /\ env[G + i].val = cells[i]

GlobalsMatch ==
    /\ \A i \in 1 .. G : /\ env[i].scope = 0 /\ env[i].val \in Literals
                         /\ globs[env[i].name] = env[i].val
    /\ \A i, j \in 1 .. G : env[i].name = env[j].name => i = j
    /\ \A n \in Names : globs[n] # Unset => \E i \in 1 .. G : env[i].name = n

Matches == /\ funs = 0 /\ nlocal <= count
           /\ G >= 0 /\ LocalsMatch /\ GlobalsMatch

ScopesInv ==
    /\ ListOK /\ StackOK /\ Nested
    /\ scope \in 0 .. MAX_SCOPE /\ funs \in Nat /\ plain \in BOOLEAN
    /\ consts \in Seq(Nat) /\ env \in Seq(Declarations)
    /\ plain => Matches

-----------------------------------------------------------------------------
(* Numbers                                                                 *)

LEMMA NatMin ==
    ASSUME NEW S \in SUBSET Nat, S # {}
    PROVE  \E x \in S : \A y \in S : x <= y
<1>1. PICK R : R = OpToRel(<, Nat)
  OBVIOUS
<1>2. IsWellFoundedOn(R, Nat)
  BY <1>1, NatLessThanWellFounded
<1>3. PICK x \in S : \A y \in S : ~ (<<y, x>> \in R)
  BY <1>2, WFMin
<1>4. \A y \in S : y < x => <<y, x>> \in R
  BY <1>1 DEF OpToRel
<1>5. \A y \in S : ~ (y < x)
  BY <1>3, <1>4, Zenon
<1> QED BY <1>5

(* A set of numbers below a bound has a greatest element.                  *)
LEMMA BoundedMax ==
    ASSUME NEW S \in SUBSET Int, NEW u \in Int, S # {}, \A y \in S : y <= u
    PROVE  \E x \in S : \A y \in S : y <= x
<1>1. PICK T : T = {n \in Nat : u - n \in S}
  OBVIOUS
<1>2. \A y \in S : u - y \in T
  BY <1>1
<1>3. PICK n \in T : \A k \in T : n <= k
  BY <1>1, <1>2, NatMin
<1>4. \A y \in S : n <= u - y
  BY <1>2, <1>3
<1> QED BY <1>1, <1>3, <1>4

LEMMA MaxIs ==
    ASSUME NEW S \in SUBSET Int, NEW u \in Int, S # {}, \A y \in S : y <= u
    PROVE  Max(S) \in S /\ \A y \in S : y <= Max(S)
<1>1. \E x \in S : \A y \in S : y <= x
  BY BoundedMax
<1>2. \E x \in S : \A y \in S : x >= y
  BY <1>1
<1> QED BY <1>2 DEF Max

LEMMA MinOfTwo ==
    ASSUME NEW a \in Int, NEW b \in Int
    PROVE  Min({a, b}) \in {a, b} /\ Min({a, b}) <= a /\ Min({a, b}) <= b
<1>1. \E x \in {a, b} : \A y \in {a, b} : x <= y
  <2>1. CASE a <= b
    BY <2>1
  <2>2. CASE b <= a
    BY <2>2
  <2> QED BY <2>1, <2>2
<1>2. Min({a, b}) \in {a, b} /\ \A y \in {a, b} : Min({a, b}) <= y
  BY <1>1 DEF Min
<1> QED BY <1>2

-----------------------------------------------------------------------------
(* What a name stands for                                                  *)

(* resolve_local finds the last local of a name, and never the reserved    *)
(* record.                                                                 *)
LEMMA ResolveFacts ==
    ASSUME ScopesInv, NEW n \in Names
    PROVE  /\ Resolve(n) \in {-1} \cup 1 .. nlocal - 1
           /\ Resolve(n) # -1 => list[Resolve(n)].name = n
           /\ \A i \in 1 .. nlocal - 1 : list[i].name = n => i <= Resolve(n)
<1> DEFINE found == {i \in 0 .. nlocal - 1 : list[i].name = n}
<1>1. nlocal \in Int /\ list[0].name # n
  BY ScopesAssumption DEF ScopesInv, ListOK
<1>2. CASE found = {}
  <2>1. Resolve(n) = -1
    BY <1>2 DEF Resolve
  <2> QED BY <1>1, <1>2, <2>1
<1>3. CASE found # {}
  <2>1. Resolve(n) = Max(found)
    BY <1>3 DEF Resolve
  <2>2. found \in SUBSET Int /\ \A y \in found : y <= nlocal
    BY <1>1
  <2>3. Max(found) \in found /\ \A y \in found : y <= Max(found)
    BY <1>1, <1>3, <2>2, MaxIs
  <2>4. Max(found) # 0
    BY <1>1, <2>3
  <2> QED BY <1>1, <2>1, <2>3, <2>4
<1> QED BY <1>2, <1>3

LEMMA BindingFacts ==
    ASSUME ScopesInv, NEW n \in Names, Declared(n)
    PROVE  /\ Max(Bindings(n)) \in 1 .. Len(env)
           /\ env[Max(Bindings(n))].name = n
           /\ \A i \in 1 .. Len(env) : env[i].name = n => i <= Max(Bindings(n))
<1>1. Len(env) \in Int
  BY DEF ScopesInv
<1>2. Bindings(n) \in SUBSET Int /\ \A y \in Bindings(n) : y <= Len(env)
  BY <1>1 DEF Bindings
<1>3. Max(Bindings(n)) \in Bindings(n)
      /\ \A y \in Bindings(n) : y <= Max(Bindings(n))
  <2>1. Bindings(n) # {}
    BY DEF Declared
  <2> QED BY <1>1, <1>2, <2>1, MaxIs
<1> QED BY <1>3 DEF Bindings

(* The local that is found is the innermost declaration; a name without    *)
(* one is a global, or nothing.                                            *)
LEMMA Innermost ==
    ASSUME ScopesInv, plain, NEW n \in Names
    PROVE  /\ Resolve(n) # -1 => Declared(n)
                                 /\ Max(Bindings(n)) = G + Resolve(n)
           /\ Resolve(n) = -1 /\ Declared(n) => Max(Bindings(n)) \in 1 .. G
           /\ ~ Declared(n) => Resolve(n) = -1 /\ globs[n] = Unset
<1>0. Matches
  BY Zenon DEF ScopesInv
<1>1. /\ nlocal \in Nat \ {0} /\ Len(env) \in Nat /\ G \in Nat
      /\ Len(env) = G + (nlocal - 1)
  BY <1>0 DEF ScopesInv, ListOK, Matches, G
<1>2. \A i \in 1 .. nlocal - 1 : env[G + i].name = list[i].name
  BY <1>0 DEF Matches, LocalsMatch
<1>3. CASE Resolve(n) # -1
  <2> DEFINE r == Resolve(n)
  <2>1. r \in 1 .. nlocal - 1 /\ env[G + r].name = n
    BY <1>2, <1>3, ResolveFacts
  <2>2. G + r \in Bindings(n)
    BY <1>1, <2>1 DEF Bindings
  <2>3. Declared(n)
    BY <2>2 DEF Declared
  <2>4. /\ Max(Bindings(n)) \in G + r .. Len(env)
        /\ env[Max(Bindings(n))].name = n
    BY <1>1, <2>1, <2>3, BindingFacts
  <2>5. Max(Bindings(n)) - G \in 1 .. nlocal - 1
        /\ list[Max(Bindings(n)) - G].name = n
    <3>1. Max(Bindings(n)) - G \in 1 .. nlocal - 1
      BY <1>1, <2>1, <2>4
    <3>2. G + (Max(Bindings(n)) - G) = Max(Bindings(n))
      BY <1>1, <2>4
    <3> QED BY <1>2, <2>4, <3>1, <3>2
  <2>6. Max(Bindings(n)) - G <= r
    BY <2>5, ResolveFacts
  <2> QED BY <1>1, <1>3, <2>1, <2>3, <2>4, <2>6
<1>4. CASE Resolve(n) = -1
  <2>1. \A i \in 1 .. nlocal - 1 : list[i].name # n
    BY <1>1, <1>4, ResolveFacts
  <2>2. \A k \in 1 .. Len(env) : env[k].name = n => k \in 1 .. G
    <3> SUFFICES ASSUME NEW k \in 1 .. Len(env), k > G
                 PROVE  env[k].name # n
      BY <1>1
    <3>1. k - G \in 1 .. nlocal - 1 /\ G + (k - G) = k
      BY <1>1
    <3> QED BY <1>2, <2>1, <3>1
  <2>3. Declared(n) => Max(Bindings(n)) \in 1 .. G
    BY <2>2, BindingFacts
  <2>4. ~ Declared(n) => globs[n] = Unset
    <3>1. SUFFICES ASSUME globs[n] # Unset  PROVE Declared(n)
      OBVIOUS
    <3>2. PICK i \in 1 .. G : env[i].name = n
      BY <1>0, <3>1 DEF Matches, GlobalsMatch
    <3>3. i \in Bindings(n)
      BY <1>1, <3>2 DEF Bindings
    <3> QED BY <3>3 DEF Declared
  <2> QED BY <1>4, <2>3, <2>4
<1> QED BY <1>3, <1>4

LEMMA NamesAreRight ==
    ASSUME ScopesInv
    PROVE  NamesResolve
<1> SUFFICES ASSUME plain, NEW n \in Names
             PROVE  Value(n) = Meant(n)
  BY DEF NamesResolve
<1>0. Matches
  BY Zenon DEF ScopesInv
<1>1. CASE Resolve(n) # -1
  <2>1. Declared(n) /\ Max(Bindings(n)) = G + Resolve(n)
    BY <1>1, Innermost
  <2>2. Resolve(n) \in 1 .. nlocal - 1
    BY <1>1, ResolveFacts
  <2>3. env[G + Resolve(n)].val = cells[Resolve(n)]
    BY <1>0, <2>2 DEF Matches, LocalsMatch
  <2> QED BY <1>1, <2>1, <2>3 DEF Value, Meant
<1>2. CASE Resolve(n) = -1 /\ Declared(n)
  <2>1. Max(Bindings(n)) \in 1 .. G
    BY <1>2, Innermost
  <2>2. env[Max(Bindings(n))].name = n
    BY <1>2, BindingFacts
  <2>3. globs[n] = env[Max(Bindings(n))].val
    BY <1>0, <2>1, <2>2 DEF Matches, GlobalsMatch
  <2> QED BY <1>2, <2>3 DEF Value, Meant
<1>3. CASE ~ Declared(n)
  BY <1>3, Innermost DEF Value, Meant
<1> QED BY <1>1, <1>2, <1>3

-----------------------------------------------------------------------------
(* The steps keep the invariant                                            *)

LEMMA ConstantType ==
    ASSUME consts \in Seq(Nat), NEW cs \in Seq(Nat), Constant(cs)
    PROVE  consts' \in Seq(Nat)
<1> DEFINE all == consts \o cs
           u == MAX_LOCALS - 1
           m == Min({Len(all), u})
<1>1. all \in Seq(Nat) /\ Len(all) \in Nat
  OBVIOUS
<1> HIDE DEF all
<1>2. m \in 0 .. Len(all)
  <2>1. u \in Nat /\ u \in Int /\ Len(all) \in Int
    BY <1>1, ScopesAssumption
  <2> HIDE DEF u
  <2>2. m \in {Len(all), u} /\ m <= Len(all)
    BY <2>1, MinOfTwo, Zenon
  <2> QED BY <1>1, <2>1, <2>2
<1> HIDE DEF m
<1>3. SubSeq(all, 1, m) \in Seq(Nat)
  BY <1>1, <1>2
<1>4. consts' = SubSeq(all, 1, m)
  BY DEF Constant, all, m, u
<1> QED BY <1>3, <1>4

LEMMA StackSteps ==
    ASSUME StackOK, Room, NEW v \in Literals \cup {Nil}
    PROVE  /\ Leave(v) => StackOK'
           /\ \A i \in Int : SetLocal(i, v) => StackOK'
           /\ \A n \in Names : SetGlobal(n, v) /\ v \in Literals => StackOK'
<1>1. count \in Nat /\ count < MAX_CELLS /\ MAX_CELLS \in Nat
  BY ScopesAssumption DEF StackOK, Room
<1>2. v \in Elements
  BY DEF Elements
<1>3. Leave(v) => StackOK'
  BY <1>1, <1>2 DEF Leave, StackOK
<1>4. ASSUME NEW i \in Int, SetLocal(i, v)  PROVE StackOK'
  <2>1. PICK once : once = [cells EXCEPT ![count] = v]
    OBVIOUS
  <2>2. once \in [0 .. MAX_CELLS -> Elements]
    BY <1>1, <1>2, <2>1 DEF StackOK
  <2>3. cells' = [once EXCEPT ![i] = v]
    BY <1>4, <2>1 DEF SetLocal
  <2>4. cells' \in [0 .. MAX_CELLS -> Elements]
    BY <1>2, <2>2, <2>3
  <2>5. count' \in 0 .. MAX_CELLS /\ globs' = globs
    BY <1>1, <1>4 DEF SetLocal
  <2> QED BY <2>4, <2>5 DEF StackOK
<1>5. \A n \in Names : SetGlobal(n, v) /\ v \in Literals => StackOK'
  BY <1>1, <1>2 DEF SetGlobal, StackOK, Elements
<1> QED BY <1>3, <1>4, <1>5

LEMMA InitHolds == Init => ScopesInv
<1> SUFFICES ASSUME Init PROVE ScopesInv
  OBVIOUS
<1> USE DEF Init
<1>1. ListOK /\ Nested
  <2>1. MAX_LOCALS \in Nat /\ nlocal = 1 /\ 1 .. nlocal - 1 = {}
    BY ScopesAssumption
  <2>2. [name |-> Garbage, depth |-> 0] \in Records
    BY DEF Records
  <2> QED BY <2>1, <2>2 DEF ListOK, Nested
<1>2. StackOK
  BY ScopesAssumption DEF StackOK, Elements
<1>3. Len(env) = 0 /\ G = 0
  BY DEF G
<1>4. Matches
  BY <1>3 DEF Matches, LocalsMatch, GlobalsMatch
<1>5. /\ scope \in 0 .. MAX_SCOPE /\ funs \in Nat
      /\ consts \in Seq(Nat) /\ env \in Seq(Declarations)
  BY ScopesAssumption
<1>6. plain \in BOOLEAN
  BY Zenon
<1> QED BY <1>1, <1>2, <1>4, <1>5, <1>6, Zenon DEF ScopesInv

(* Nothing that Matches looks at changes, but for elements above count and *)
(* for count itself, which does not fall.                                  *)
LEMMA MatchesStay ==
    ASSUME ScopesInv, Matches, count' \in Nat, count' >= count,
           UNCHANGED <<list, nlocal, funs, globs, env>>,
           \A i \in 0 .. count - 1 : cells'[i] = cells[i]
    PROVE  Matches'
<1>1. nlocal \in Nat \ {0} /\ count \in Nat /\ nlocal <= count
  BY DEF ScopesInv, ListOK, StackOK, Matches
<1>2. G' = G
  BY DEF G
<1>3. LocalsMatch'
  <2>1. \A i \in 1 .. nlocal - 1 : cells'[i] = cells[i]
    BY <1>1
  <2> QED BY <1>2, <2>1 DEF Matches, LocalsMatch
<1>4. GlobalsMatch'
  BY <1>2 DEF Matches, GlobalsMatch
<1> QED BY <1>1, <1>2, <1>3, <1>4 DEF Matches

LEMMA BeginHolds ==
    ASSUME ScopesInv, Begin
    PROVE  ScopesInv'
<1>1. /\ scope \in Nat /\ scope' = scope + 1 /\ scope' \in 0 .. MAX_SCOPE
      /\ UNCHANGED <<list, nlocal, consts, funs, cells, count, globs, env>>
      /\ plain' = plain /\ nlocal \in Nat
  BY ScopesAssumption DEF ScopesInv, ListOK, Begin, state
<1>2. ListOK' /\ StackOK'
  BY <1>1 DEF ScopesInv, ListOK, StackOK
<1>3. Nested'
  BY <1>1 DEF ScopesInv, Nested
<1>4. funs' \in Nat /\ consts' \in Seq(Nat) /\ env' \in Seq(Declarations)
  BY <1>1 DEF ScopesInv
<1>5. Matches => Matches'
  <2>1. G' = G
    BY <1>1 DEF G
  <2> QED BY <1>1, <2>1 DEF Matches, LocalsMatch, GlobalsMatch
<1>6. plain' \in BOOLEAN /\ (plain' => Matches')
  BY <1>1, <1>5, Zenon DEF ScopesInv
<1> QED BY <1>1, <1>2, <1>3, <1>4, <1>6, Zenon DEF ScopesInv

(* A statement that leaves or drops a temporary.                           *)
LEMMA TemporaryHolds ==
    ASSUME ScopesInv, Room, NEW v \in Elements,
           cells' = [cells EXCEPT ![count] = v],
           count' \in {count, count + 1}, NEW cs \in Seq(Nat), Constant(cs),
           UNCHANGED <<list, nlocal, scope, funs, globs, env>>, plain' = plain
    PROVE  ScopesInv'
<1>1. /\ count \in Nat /\ count < MAX_CELLS /\ MAX_CELLS \in Nat
      /\ cells \in [0 .. MAX_CELLS -> Elements]
  BY ScopesAssumption DEF ScopesInv, StackOK, Room
<1>2. StackOK'
  BY <1>1 DEF ScopesInv, StackOK
<1>3. ListOK' /\ Nested' /\ scope' \in 0 .. MAX_SCOPE /\ funs' \in Nat
      /\ env' \in Seq(Declarations)
  BY DEF ScopesInv, ListOK, Nested
<1>4. consts' \in Seq(Nat)
  BY ConstantType DEF ScopesInv
<1>5. Matches => Matches'
  BY <1>1, MatchesStay
<1>6. plain' \in BOOLEAN /\ (plain' => Matches')
  BY <1>5, Zenon DEF ScopesInv
<1> QED BY <1>2, <1>3, <1>4, <1>6, Zenon DEF ScopesInv

LEMMA StatementHolds ==
    ASSUME ScopesInv, NEW v \in Literals, Statement(v) \/ Pout(v)
    PROVE  ScopesInv'
<1>1. v \in Elements /\ Junk \in Elements /\ <<v>> \in Seq(Nat)
  BY ScopesAssumption DEF Elements
<1>2. CASE Statement(v)
  <2>1. /\ Room /\ Constant(<<v>>) /\ cells' = [cells EXCEPT ![count] = v]
        /\ count' = count + 1 /\ plain' = plain
        /\ UNCHANGED <<list, nlocal, scope, funs, globs, env>>
    BY <1>2 DEF Statement, Leave
  <2> QED BY <1>1, <2>1, TemporaryHolds
<1>3. CASE Pout(v)
  <2>1. /\ Room /\ Constant(<<v>>) /\ cells' = [cells EXCEPT ![count] = Junk]
        /\ count' = count /\ plain' = plain
        /\ UNCHANGED <<list, nlocal, scope, funs, globs, env>>
    BY <1>3 DEF Pout
  <2> QED BY <1>1, <2>1, TemporaryHolds
<1> QED BY <1>2, <1>3

LEMMA DeclareNothingHolds ==
    ASSUME ScopesInv, DeclareNothing
    PROVE  ScopesInv'
<1>1. /\ Room /\ Constant(<<0>>) /\ cells' = [cells EXCEPT ![count] = Nil]
      /\ count' = count + 1 /\ plain' = plain
      /\ UNCHANGED <<list, nlocal, scope, funs, globs, env>>
  BY DEF DeclareNothing, Leave
<1>2. Nil \in Elements /\ <<0>> \in Seq(Nat)
  BY DEF Elements
<1> QED BY <1>1, <1>2, TemporaryHolds

LEMMA FunctionHolds ==
    ASSUME ScopesInv, Function
    PROVE  ScopesInv'
<1>1. nlocal \in 1 .. MAX_LOCALS - 1 /\ MAX_LOCALS \in Nat /\ nlocal # 0
  BY ScopesAssumption DEF ScopesInv, ListOK, Function
<1>2. ListOK'
  BY <1>1 DEF ScopesInv, ListOK, Function, Records
<1>3. StackOK' /\ scope' \in 0 .. MAX_SCOPE /\ funs' \in Nat /\ funs' # 0
      /\ env' \in Seq(Declarations)
  BY DEF ScopesInv, StackOK, Function, state
<1>4. Nested'
  BY <1>3 DEF Nested
<1>5. consts' \in Seq(Nat)
  <2>1. <<0>> \in Seq(Nat) /\ Constant(<<0>>) /\ consts \in Seq(Nat)
    BY DEF Function, ScopesInv
  <2> QED BY <2>1, ConstantType
<1>6. plain' = FALSE
  BY Zenon DEF Function
<1> QED BY <1>2, <1>3, <1>4, <1>5, <1>6, Zenon DEF ScopesInv

(* var n = v; and var n; in a block: the declaration and the record go to  *)
(* the ends of their lists, and the value into the record's element.       *)
LEMMA AddHolds ==
    ASSUME ScopesInv, Room, scope > 0, NEW n \in Names,
           NEW v \in Literals \cup {Nil}, AddLocal(n), Bind(n, v),
           StackOK', UNCHANGED <<scope, funs, globs>>, consts' \in Seq(Nat),
           plain' \in BOOLEAN, plain' => plain,
           Matches /\ plain' => /\ count' = count + 1 /\ cells'[nlocal] = v
                                /\ \A i \in 0 .. nlocal - 1 :
                                      cells'[i] = cells[i]
    PROVE  ScopesInv'
<1> DEFINE b == [name |-> n, scope |-> scope, val |-> v]
           r == [name |-> n, depth |-> scope]
<1>1. /\ nlocal \in 1 .. MAX_LOCALS - 1 /\ MAX_LOCALS \in Nat
      /\ nlocal' = nlocal + 1 /\ scope \in Nat
      /\ list \in [0 .. MAX_LOCALS -> Records]
      /\ list' = [list EXCEPT ![nlocal] = r]
  BY ScopesAssumption DEF ScopesInv, ListOK, AddLocal
<1>2. b \in Declarations /\ r \in Records /\ r.name = n /\ r.depth = scope
      /\ b.name = n /\ b.scope = scope /\ b.val = v
  BY <1>1 DEF Declarations, Records
<1>3. env' = Append(env, b) /\ env \in Seq(Declarations)
  BY DEF Bind, ScopesInv
<1> HIDE DEF b, r
<1>4. ListOK'
  BY <1>1, <1>2 DEF ScopesInv, ListOK
<1>5. /\ list'[nlocal] = r
      /\ \A i \in 0 .. nlocal - 1 : list'[i] = list[i]
  BY <1>1
<1>6. Nested'
  <2> SUFFICES ASSUME funs = 0, NEW i \in 1 .. nlocal
               PROVE  /\ list'[i].name \in Names
                      /\ list'[i].depth \in 1 .. scope
                      /\ \A j \in i .. nlocal :
                            list'[i].depth <= list'[j].depth
    BY <1>1 DEF Nested
  <2>1. CASE i = nlocal
    <3>1. \A j \in i .. nlocal : j = nlocal
      BY <1>1, <2>1
    <3>2. list'[i].name = n /\ list'[i].depth = scope
      BY <1>2, <1>5, <2>1
    <3> QED BY <1>1, <2>1, <3>1, <3>2
  <2>2. CASE i \in 1 .. nlocal - 1
    <3>1. /\ list[i].name \in Names /\ list[i].depth \in 1 .. scope
          /\ \A j \in i .. nlocal - 1 : list[i].depth <= list[j].depth
      BY <2>2 DEF ScopesInv, Nested
    <3>2. list'[i] = list[i]
      BY <1>1, <1>5, <2>2
    <3>3. ASSUME NEW j \in i .. nlocal
          PROVE  list'[i].depth <= list'[j].depth
      <4>1. CASE j = nlocal
        BY <1>1, <1>2, <1>5, <3>1, <3>2, <4>1
      <4>2. CASE j \in i .. nlocal - 1
        BY <1>1, <1>5, <2>2, <3>1, <3>2, <4>2
      <4> QED BY <1>1, <2>2, <4>1, <4>2
    <3> QED BY <3>1, <3>2, <3>3
  <2> QED BY <1>1, <2>1, <2>2
<1>7. /\ env' \in Seq(Declarations) /\ Len(env') = Len(env) + 1
      /\ env'[Len(env) + 1] = b
      /\ \A k \in 1 .. Len(env) : env'[k] = env[k]
  BY <1>2, <1>3
<1>8. Matches /\ plain' => Matches'
  <2> SUFFICES ASSUME Matches, plain' PROVE Matches'
    OBVIOUS
  <2>1. /\ G \in Nat /\ Len(env) = G + (nlocal - 1) /\ Len(env) \in Nat
        /\ count \in Nat /\ nlocal <= count
    BY <1>1, <1>3 DEF Matches, G, ScopesInv, StackOK
  <2>2. G' = G
    BY <1>1, <1>7, <2>1 DEF G
  <2>3. count' = count + 1 /\ cells'[nlocal] = v
        /\ \A i \in 0 .. nlocal - 1 : cells'[i] = cells[i]
    OBVIOUS
  <2>4. LocalsMatch'
    <3> SUFFICES ASSUME NEW i \in 1 .. nlocal
                 PROVE  /\ env'[G + i].name = list'[i].name
                        /\ env'[G + i].scope = list'[i].depth
                        /\ env'[G + i].val = cells'[i]
      BY <1>1, <2>2 DEF LocalsMatch
    <3>1. CASE i = nlocal
      <4>1. G + i = Len(env) + 1
        BY <1>1, <2>1, <3>1
      <4> QED BY <1>2, <1>5, <1>7, <2>3, <3>1, <4>1
    <3>2. CASE i \in 1 .. nlocal - 1
      <4>1. G + i \in 1 .. Len(env)
        BY <1>1, <2>1, <3>2
      <4>2. env'[G + i] = env[G + i] /\ list'[i] = list[i]
            /\ cells'[i] = cells[i]
        BY <1>1, <1>5, <1>7, <2>3, <3>2, <4>1
      <4> QED BY <3>2, <4>2 DEF Matches, LocalsMatch
    <3> QED BY <1>1, <3>1, <3>2
  <2>5. GlobalsMatch'
    <3>1. \A i \in 1 .. G : env'[i] = env[i]
      BY <1>1, <1>7, <2>1
    <3> QED BY <2>2, <3>1 DEF Matches, GlobalsMatch
  <2> QED BY <1>1, <2>1, <2>2, <2>3, <2>4, <2>5 DEF Matches
<1>9. plain' => Matches'
  BY <1>8, Zenon DEF ScopesInv
<1>10. scope' \in 0 .. MAX_SCOPE /\ funs' \in Nat
  BY DEF ScopesInv
<1> QED BY <1>4, <1>6, <1>7, <1>9, <1>10, Zenon DEF ScopesInv

LEMMA DeclareLocalHolds ==
    ASSUME ScopesInv, NEW n \in Names, NEW v \in Literals, DeclareLocal(n, v)
    PROVE  ScopesInv'
<1>1. /\ scope > 0 /\ Room /\ AddLocal(n) /\ Bind(n, v) /\ SetLocal(nlocal, v)
      /\ Constant(<<v>>) /\ UNCHANGED <<scope, funs>> /\ globs' = globs
  BY DEF DeclareLocal, SetLocal
<1>2. nlocal \in Int /\ nlocal >= 1
  BY DEF ScopesInv, ListOK
<1>3. StackOK'
  BY <1>1, <1>2, StackSteps DEF ScopesInv
<1>4. consts' \in Seq(Nat)
  <2>1. <<v>> \in Seq(Nat) /\ consts \in Seq(Nat)
    BY ScopesAssumption DEF ScopesInv
  <2> QED BY <1>1, <2>1, ConstantType
<1>5. Matches => /\ count' = count + 1 /\ cells'[nlocal] = v
                 /\ \A i \in 0 .. nlocal - 1 : cells'[i] = cells[i]
  <2> SUFFICES ASSUME Matches
               PROVE  /\ count' = count + 1 /\ cells'[nlocal] = v
                      /\ \A i \in 0 .. nlocal - 1 : cells'[i] = cells[i]
    OBVIOUS
  <2>1. /\ nlocal <= count /\ count \in Nat /\ count < MAX_CELLS
        /\ MAX_CELLS \in Nat /\ cells \in [0 .. MAX_CELLS -> Elements]
    BY <1>1, ScopesAssumption DEF Matches, ScopesInv, StackOK, Room
  <2>2. cells' = [cells EXCEPT ![count] = v, ![nlocal] = v]
        /\ count' = count + 1
    BY <1>1 DEF SetLocal
  <2> QED BY <1>2, <2>1, <2>2
<1>6. plain' \in BOOLEAN /\ (plain' => plain)
  BY Zenon DEF DeclareLocal, ScopesInv
<1> QED BY <1>1, <1>3, <1>4, <1>5, <1>6, AddHolds

LEMMA DeclareBareHolds ==
    ASSUME ScopesInv, NEW n \in Names, DeclareBare(n)
    PROVE  ScopesInv'
<1>1. /\ scope > 0 /\ Room /\ AddLocal(n) /\ Bind(n, Nil) /\ Leave(Nil)
      /\ UNCHANGED <<scope, funs, consts>> /\ globs' = globs
  BY DEF DeclareBare, Leave
<1>2. nlocal \in Int /\ nlocal >= 1
  BY DEF ScopesInv, ListOK
<1>3. StackOK'
  BY <1>1, StackSteps DEF ScopesInv
<1>4. consts' \in Seq(Nat)
  BY <1>1 DEF ScopesInv
<1>5. plain' \in BOOLEAN /\ (plain' => plain) /\ (plain' => count = nlocal)
  BY Zenon DEF DeclareBare, ScopesInv
<1>6. count = nlocal => /\ count' = count + 1 /\ cells'[nlocal] = Nil
                        /\ \A i \in 0 .. nlocal - 1 : cells'[i] = cells[i]
  <2>1. /\ count \in Nat /\ count < MAX_CELLS
        /\ MAX_CELLS \in Nat /\ cells \in [0 .. MAX_CELLS -> Elements]
    BY <1>1, ScopesAssumption DEF ScopesInv, StackOK, Room
  <2>2. cells' = [cells EXCEPT ![count] = Nil] /\ count' = count + 1
    BY <1>1 DEF Leave
  <2> QED BY <1>2, <2>1, <2>2
<1> QED BY <1>1, <1>3, <1>4, <1>5, <1>6, AddHolds

(* var n = v; at the top: there no local is in scope, so the new           *)
(* declaration is the last of the globals.                                 *)
LEMMA DeclareGlobalHolds ==
    ASSUME ScopesInv, NEW n \in Names, NEW v \in Literals, DeclareGlobal(n, v)
    PROVE  ScopesInv'
<1> DEFINE b == [name |-> n, scope |-> scope, val |-> v]
<1>1. /\ scope = 0 /\ Room /\ globs[n] = Unset /\ SetGlobal(n, v)
      /\ Constant(<<0, v>>) /\ env' = Append(env, b)
      /\ UNCHANGED <<list, nlocal, scope, funs>>
  BY DEF DeclareGlobal, Bind
<1>2. b \in Declarations /\ b.name = n /\ b.scope = 0 /\ b.val = v
  BY <1>1 DEF Declarations
<1> HIDE DEF b
<1>3. /\ count \in Nat /\ count < MAX_CELLS /\ MAX_CELLS \in Nat
      /\ cells \in [0 .. MAX_CELLS -> Elements]
      /\ globs \in [Names -> Literals \cup {Unset}]
      /\ env \in Seq(Declarations) /\ nlocal \in 1 .. MAX_LOCALS + 1
      /\ MAX_LOCALS \in Nat
  BY <1>1, ScopesAssumption DEF ScopesInv, StackOK, ListOK, Room
<1>4. StackOK'
  BY <1>1, StackSteps DEF ScopesInv
<1>5. ListOK' /\ Nested' /\ scope' \in 0 .. MAX_SCOPE /\ funs' \in Nat
  BY <1>1 DEF ScopesInv, ListOK, Nested
<1>6. consts' \in Seq(Nat)
  <2>1. <<0, v>> \in Seq(Nat) /\ consts \in Seq(Nat)
    BY ScopesAssumption DEF ScopesInv
  <2> QED BY <1>1, <2>1, ConstantType
<1>7. /\ env' \in Seq(Declarations) /\ Len(env') = Len(env) + 1
      /\ env'[Len(env) + 1] = b
      /\ \A k \in 1 .. Len(env) : env'[k] = env[k]
  BY <1>1, <1>2, <1>3
<1>8. Matches => Matches'
  <2> SUFFICES ASSUME Matches PROVE Matches'
    OBVIOUS
  <2>1. nlocal = 1
    <3>1. \A i \in 1 .. nlocal - 1 : list[i].depth \in 1 .. 0
      BY <1>1 DEF ScopesInv, Nested, Matches
    <3>2. nlocal > 1 => 1 \in 1 .. nlocal - 1
      BY <1>3
    <3> QED BY <1>3, <3>1, <3>2
  <2>2. G = Len(env) /\ G' = Len(env) + 1 /\ Len(env) \in Nat
    BY <1>1, <1>3, <1>7, <2>1 DEF G
  <2>3. /\ \A i \in 1 .. Len(env) : /\ env[i].scope = 0
                                    /\ env[i].val \in Literals
                                    /\ globs[env[i].name] = env[i].val
        /\ \A i, j \in 1 .. Len(env) : env[i].name = env[j].name => i = j
        /\ \A m \in Names : globs[m] # Unset =>
              \E i \in 1 .. Len(env) : env[i].name = m
    BY <2>2 DEF Matches, GlobalsMatch
  <2>4. \A i \in 1 .. Len(env) : env[i].name \in Names /\ env[i].name # n
    <3>1. \A i \in 1 .. Len(env) : env[i] \in Declarations
      BY <1>3
    <3>2. \A i \in 1 .. Len(env) : env[i].name \in Names
      BY <3>1 DEF Declarations
    <3>3. Unset \notin Literals
      BY ScopesAssumption
    <3> QED BY <1>1, <2>3, <3>2, <3>3
  <2>5. globs' = [globs EXCEPT ![n] = v]
    BY <1>1 DEF SetGlobal
  <2>6. GlobalsMatch'
    <3>1. ASSUME NEW i \in 1 .. G'
          PROVE  /\ env'[i].scope = 0 /\ env'[i].val \in Literals
                 /\ globs'[env'[i].name] = env'[i].val
      <4>1. CASE i = Len(env) + 1
        BY <1>2, <1>3, <1>7, <2>5, <4>1
      <4>2. CASE i \in 1 .. Len(env)
        BY <1>3, <1>7, <2>3, <2>4, <2>5, <4>2
      <4> QED BY <2>2, <4>1, <4>2
    <3>2. ASSUME NEW i \in 1 .. G', NEW j \in 1 .. G',
                 env'[i].name = env'[j].name
          PROVE  i = j
      <4>1. \A k \in 1 .. G' : k = Len(env) + 1 \/ k \in 1 .. Len(env)
        BY <2>2
      <4> QED BY <1>2, <1>7, <2>3, <2>4, <3>2, <4>1
    <3>3. ASSUME NEW m \in Names, globs'[m] # Unset
          PROVE  \E i \in 1 .. G' : env'[i].name = m
      <4>1. CASE m = n
        BY <1>2, <1>7, <2>2, <4>1
      <4>2. CASE m # n
        <5>1. globs[m] # Unset
          BY <1>3, <2>5, <3>3, <4>2
        <5>2. PICK i \in 1 .. Len(env) : env[i].name = m
          BY <2>3, <5>1
        <5> QED BY <1>7, <2>2, <5>2
      <4> QED BY <4>1, <4>2
    <3> QED BY <3>1, <3>2, <3>3 DEF GlobalsMatch
  <2>7. LocalsMatch'
    BY <1>1, <2>1 DEF LocalsMatch
  <2>8. funs' = 0 /\ nlocal' <= count'
    BY <1>1 DEF SetGlobal, Matches
  <2> QED BY <2>2, <2>6, <2>7, <2>8 DEF Matches
<1>9. plain' \in BOOLEAN /\ (plain' => Matches')
  BY <1>8, Zenon DEF ScopesInv, DeclareGlobal
<1> QED BY <1>4, <1>5, <1>6, <1>7, <1>9, Zenon DEF ScopesInv

(* The declaration that an assignment means and the place its code writes  *)
(* to are those of one variable.                                           *)
LEMMA AssignMatches ==
    ASSUME ScopesInv, plain, NEW n \in Names, NEW v \in Literals, Assign(n, v)
    PROVE  Matches'
<1> DEFINE m == Max(Bindings(n))
<1>1. /\ Declared(n) /\ Room /\ UNCHANGED <<list, nlocal, funs>>
      /\ env' = [env EXCEPT ![m].val = v]
  BY DEF Assign
<1>2. m \in 1 .. Len(env) /\ env[m].name = n
  BY <1>1, BindingFacts
<1>3. (Resolve(n) # -1 => m = G + Resolve(n)) /\ (Resolve(n) = -1 => m \in 1 .. G)
  BY <1>1, Innermost
<1> HIDE DEF m
<1>4. Matches
  BY Zenon DEF ScopesInv
<1>5. /\ count \in Nat /\ count < MAX_CELLS /\ MAX_CELLS \in Nat
      /\ cells \in [0 .. MAX_CELLS -> Elements]
      /\ globs \in [Names -> Literals \cup {Unset}]
      /\ env \in Seq(Declarations) /\ nlocal \in Nat \ {0}
      /\ Len(env) \in Nat /\ G \in Nat /\ nlocal <= count
      /\ Len(env) = G + (nlocal - 1)
  BY <1>1, <1>4, ScopesAssumption
     DEF ScopesInv, StackOK, ListOK, Room, Matches, G
<1>6. /\ Len(env') = Len(env)
      /\ \A k \in 1 .. Len(env) : /\ k # m => env'[k] = env[k]
                                  /\ env'[k].name = env[k].name
                                  /\ env'[k].scope = env[k].scope
      /\ env'[m].val = v
  BY <1>1, <1>2, <1>5 DEF Declarations
<1>7. G' = G
  BY <1>1, <1>6 DEF G
<1>8. CASE Resolve(n) # -1
  <2> DEFINE r == Resolve(n)
  <2>1. r \in 1 .. nlocal - 1 /\ m = G + r
    BY <1>3, <1>8, ResolveFacts
  <2>2. /\ cells' = [cells EXCEPT ![count] = v, ![r] = v]
        /\ count' = count + 1 /\ globs' = globs
    BY <1>8 DEF Assign, SetLocal
  <2> HIDE DEF r
  <2>3. cells'[r] = v /\ \A i \in 1 .. nlocal - 1 : i # r => cells'[i] = cells[i]
    BY <1>5, <2>1, <2>2
  <2>4. LocalsMatch'
    <3> SUFFICES ASSUME NEW i \in 1 .. nlocal - 1
                 PROVE  /\ env'[G + i].name = list[i].name
                        /\ env'[G + i].scope = list[i].depth
                        /\ env'[G + i].val = cells'[i]
      BY <1>1, <1>7 DEF LocalsMatch
    <3>1. /\ env[G + i].name = list[i].name /\ env[G + i].scope = list[i].depth
          /\ env[G + i].val = cells[i]
      BY <1>4 DEF Matches, LocalsMatch
    <3>2. G + i \in 1 .. Len(env) /\ (G + i = m <=> i = r)
      BY <1>5, <2>1
    <3> QED BY <1>6, <2>3, <3>1, <3>2
  <2>5. GlobalsMatch'
    <3>1. \A i \in 1 .. G : i \in 1 .. Len(env) /\ i # m
      <4>1. PICK g, l : g = G /\ l = Len(env)
        OBVIOUS
      <4>2. /\ g \in Nat /\ l \in Nat /\ g <= l
            /\ m > g /\ m \in Int
        BY <1>5, <2>1, <4>1
      <4>3. \A i \in 1 .. g : i \in 1 .. l /\ i # m
        BY <4>2
      <4> QED BY <4>1, <4>3
    <3>2. \A i \in 1 .. G : env'[i] = env[i]
      BY <1>6, <3>1, Zenon
    <3> QED BY <1>4, <1>7, <2>2, <3>2 DEF Matches, GlobalsMatch
  <2> QED BY <1>1, <1>4, <1>5, <1>7, <2>2, <2>4, <2>5 DEF Matches
<1>9. CASE Resolve(n) = -1
  <2>1. m \in 1 .. G
    BY <1>3, <1>9
  <2>2. /\ cells' = [cells EXCEPT ![count] = Junk]
        /\ count' = count /\ globs' = [globs EXCEPT ![n] = v]
    BY <1>9 DEF Assign, SetGlobal
  <2>3. LocalsMatch'
    <3> SUFFICES ASSUME NEW i \in 1 .. nlocal - 1
                 PROVE  /\ env'[G + i].name = list[i].name
                        /\ env'[G + i].scope = list[i].depth
                        /\ env'[G + i].val = cells'[i]
      BY <1>1, <1>7 DEF LocalsMatch
    <3>1. /\ env[G + i].name = list[i].name /\ env[G + i].scope = list[i].depth
          /\ env[G + i].val = cells[i]
      BY <1>4 DEF Matches, LocalsMatch
    <3>2. env'[G + i] = env[G + i] /\ cells'[i] = cells[i]
      BY <1>5, <1>6, <2>1, <2>2
    <3> QED BY <3>1, <3>2
  <2>4. GlobalsMatch'
    <3>1. /\ \A i \in 1 .. G : /\ env[i].scope = 0 /\ env[i].val \in Literals
                               /\ globs[env[i].name] = env[i].val
          /\ \A i, j \in 1 .. G : env[i].name = env[j].name => i = j
          /\ \A k \in Names : globs[k] # Unset =>
                \E i \in 1 .. G : env[i].name = k
      BY <1>4 DEF Matches, GlobalsMatch
    <3>2. 1 .. G \subseteq 1 .. Len(env)
      BY <1>5
    <3>3. ASSUME NEW i \in 1 .. G
          PROVE  /\ env'[i].scope = 0 /\ env'[i].val \in Literals
                 /\ globs'[env'[i].name] = env'[i].val
      <4>1. CASE i = m
        BY <1>2, <1>5, <1>6, <2>2, <3>1, <4>1
      <4>2. CASE i # m
        <5>1. env'[i] = env[i] /\ env[i].name # n
          BY <1>2, <1>6, <2>1, <3>1, <3>2, <4>2
        <5>2. env[i] \in Declarations
          BY <1>5, <3>2
        <5>3. env[i].name \in Names
          BY <5>2 DEF Declarations
        <5>4. globs'[env[i].name] = globs[env[i].name]
          BY <1>5, <2>2, <5>1, <5>3
        <5> QED BY <3>1, <5>1, <5>4
      <4> QED BY <4>1, <4>2
    <3>4. \A i, j \in 1 .. G : env'[i].name = env'[j].name => i = j
      BY <1>6, <3>1, <3>2
    <3>5. ASSUME NEW k \in Names, globs'[k] # Unset
          PROVE  \E i \in 1 .. G : env'[i].name = k
      <4>1. CASE k = n
        BY <1>2, <1>6, <2>1, <4>1
      <4>2. CASE k # n
        <5>1. globs[k] # Unset
          BY <1>5, <2>2, <3>5, <4>2
        <5>2. PICK i \in 1 .. G : env[i].name = k
          BY <3>1, <5>1
        <5> QED BY <1>6, <3>2, <5>2
      <4> QED BY <4>1, <4>2
    <3> QED BY <1>7, <3>3, <3>4, <3>5 DEF GlobalsMatch
  <2> QED BY <1>1, <1>4, <1>5, <1>7, <2>2, <2>3, <2>4 DEF Matches
<1> QED BY <1>8, <1>9

LEMMA AssignHolds ==
    ASSUME ScopesInv, NEW n \in Names, NEW v \in Literals, Assign(n, v)
    PROVE  ScopesInv'
<1>1. Declared(n) /\ Room /\ UNCHANGED <<list, nlocal, scope, funs>>
  BY DEF Assign
<1>2. Max(Bindings(n)) \in 1 .. Len(env)
  BY <1>1, BindingFacts
<1>3. Resolve(n) \in Int
  BY ResolveFacts DEF ScopesInv, ListOK
<1>4. env' \in Seq(Declarations)
  <2>1. PICK m \in 1 .. Len(env) : env' = [env EXCEPT ![m].val = v]
    BY <1>2 DEF Assign
  <2>2. env \in Seq(Declarations)
    BY DEF ScopesInv
  <2>3. [env[m] EXCEPT !.val = v] \in Declarations
    <3>1. \A d \in Declarations : [d EXCEPT !.val = v] \in Declarations
      BY DEF Declarations
    <3> QED BY <2>2, <3>1
  <2>4. env' = [env EXCEPT ![m] = [env[m] EXCEPT !.val = v]]
    BY <2>1
  <2> QED BY <2>2, <2>3, <2>4
<1>5. StackOK'
  <2>1. CASE Resolve(n) # -1
    BY <1>1, <1>3, <2>1, StackSteps DEF Assign, ScopesInv
  <2>2. CASE Resolve(n) = -1
    BY <1>1, <2>2, StackSteps DEF Assign, ScopesInv
  <2> QED BY <2>1, <2>2
<1>6. consts' \in Seq(Nat)
  <2>1. <<v>> \in Seq(Nat) /\ <<0, v>> \in Seq(Nat) /\ consts \in Seq(Nat)
    BY ScopesAssumption DEF ScopesInv
  <2>2. Constant(<<v>>) \/ Constant(<<0, v>>)
    BY Zenon DEF Assign
  <2> QED BY <2>1, <2>2, ConstantType
<1>7. ListOK' /\ Nested' /\ scope' \in 0 .. MAX_SCOPE /\ funs' \in Nat
  BY <1>1 DEF ScopesInv, ListOK, Nested
<1>8. plain' = plain
  BY Zenon DEF Assign
<1>9. plain' \in BOOLEAN /\ (plain' => Matches')
  BY <1>8, AssignMatches, Zenon DEF ScopesInv
<1> QED BY <1>4, <1>5, <1>6, <1>7, <1>9, Zenon DEF ScopesInv

LEMMA KeptFacts ==
    ASSUME ScopesInv, scope > 0, NEW top, top = Max(Kept \cup {-1}) + 1
    PROVE  /\ top \in 1 .. nlocal /\ list[top - 1].depth < scope
           /\ \A i \in 0 .. nlocal - 1 : list[i].depth < scope => i < top
<1>1. nlocal \in Int /\ nlocal >= 1 /\ list[0].depth = 0
  BY ScopesAssumption DEF ScopesInv, ListOK
<1>2. PICK S : S = Kept \cup {-1}
  OBVIOUS
<1>3. S \in SUBSET Int /\ (\A y \in S : y <= nlocal) /\ 0 \in S
  BY <1>1, <1>2 DEF Kept
<1>4. \A i \in S : i # -1 => i \in 0 .. nlocal - 1 /\ list[i].depth < scope
  BY <1>2 DEF Kept
<1>5. \A i \in 0 .. nlocal - 1 : list[i].depth < scope => i \in S
  BY <1>2 DEF Kept
<1>6. PICK m : m = Max(S)
  OBVIOUS
<1>7. m \in S /\ \A y \in S : y <= m
  BY <1>1, <1>3, <1>6, MaxIs
<1>8. m \in 0 .. nlocal - 1 /\ list[m].depth < scope
  BY <1>3, <1>4, <1>7
<1>9. top = m + 1
  BY <1>2, <1>6
<1>10. \A i \in 0 .. nlocal - 1 : list[i].depth < scope => i <= m
  BY <1>5, <1>7
<1>11. top \in 1 .. nlocal /\ top - 1 = m
  BY <1>1, <1>8, <1>9
<1>12. list[top - 1].depth < scope
  BY <1>8, <1>11
<1>13. \A i \in 0 .. nlocal - 1 : list[i].depth < scope => i < top
  BY <1>1, <1>8, <1>9, <1>10
<1> QED BY <1>11, <1>12, <1>13

LEMMA OuterFacts ==
    ASSUME ScopesInv, NEW k,
           k = Max({i \in 1 .. Len(env) : env[i].scope < scope} \cup {0})
    PROVE  /\ k \in 0 .. Len(env)
           /\ k # 0 => env[k].scope < scope
           /\ \A i \in 1 .. Len(env) : env[i].scope < scope => i <= k
<1>1. Len(env) \in Nat /\ Len(env) \in Int
  BY DEF ScopesInv
<1>2. PICK S : S = {i \in 1 .. Len(env) : env[i].scope < scope} \cup {0}
  OBVIOUS
<1>3. S \in SUBSET Int /\ (\A y \in S : y <= Len(env)) /\ 0 \in S
  BY <1>1, <1>2
<1>4. \A i \in S : i # 0 => i \in 1 .. Len(env) /\ env[i].scope < scope
  BY <1>2
<1>5. \A i \in 1 .. Len(env) : env[i].scope < scope => i \in S
  BY <1>2
<1>6. k \in S /\ \A y \in S : y <= k
  <2>1. k = Max(S)
    BY <1>2
  <2> QED BY <1>1, <1>3, <2>1, MaxIs
<1>7. k \in 0 .. Len(env)
  <2>1. k \in Int /\ k <= Len(env) /\ 0 <= k
    BY <1>3, <1>6
  <2> QED BY <1>1, <2>1
<1>8. k # 0 => env[k].scope < scope
  BY <1>4, <1>6, Zenon
<1>9. \A i \in 1 .. Len(env) : env[i].scope < scope => i <= k
  BY <1>5, <1>6, Zenon
<1> QED BY <1>7, <1>8, <1>9, Zenon

(* end_scope: the records it stops at begin the list, and the declarations *)
(* of the outer blocks begin env.                                          *)
LEMMA EndHolds ==
    ASSUME ScopesInv, End
    PROVE  ScopesInv'
<1> DEFINE top   == Max(Kept \cup {-1}) + 1
           outer == {i \in 1 .. Len(env) : env[i].scope < scope}
           k     == Max(outer \cup {0})
<1>1. /\ scope > 0 /\ scope' = scope - 1 /\ nlocal' = top
      /\ env' = SubSeq(env, 1, k) /\ UNCHANGED <<list, consts, funs, globs>>
  BY DEF End
<1>2. PICK p \in Popped(nlocal - top) :
         /\ p <= count /\ count' = count - p
         /\ cells' = [i \in DOMAIN cells |->
                        IF i < count - p THEN cells[i] ELSE Junk]
         /\ plain' = (plain /\ p <= nlocal - top)
  BY Zenon DEF End
<1>3. /\ nlocal \in 1 .. MAX_LOCALS + 1 /\ MAX_LOCALS \in Nat
      /\ scope \in 0 .. MAX_SCOPE /\ MAX_SCOPE \in Nat
      /\ count \in 0 .. MAX_CELLS /\ MAX_CELLS \in Nat
      /\ cells \in [0 .. MAX_CELLS -> Elements]
      /\ env \in Seq(Declarations) /\ Len(env) \in Nat
      /\ consts \in Seq(Nat) /\ list[0].depth = 0
  BY ScopesAssumption DEF ScopesInv, ListOK, StackOK
<1>4. /\ top \in 1 .. nlocal /\ list[top - 1].depth < scope
      /\ \A i \in 0 .. nlocal - 1 : list[i].depth < scope => i < top
  BY <1>1, KeptFacts
<1>5. /\ k \in 0 .. Len(env)
      /\ k # 0 => env[k].scope < scope
      /\ \A i \in 1 .. Len(env) : env[i].scope < scope => i <= k
  BY OuterFacts
<1> HIDE DEF top, k, outer
<1>6. p \in Nat
  <2>1. nlocal - top \in Nat
    BY <1>3, <1>4
  <2>2. CASE nlocal - top <= 1
    BY <2>1, <2>2 DEF Popped
  <2>3. CASE nlocal - top > 1 /\ nlocal - top - 1 < Len(consts)
    BY <1>3, <2>1, <2>3 DEF Popped
  <2>4. CASE nlocal - top > 1 /\ ~ (nlocal - top - 1 < Len(consts))
    BY <1>3, <2>1, <2>4 DEF Popped
  <2> QED BY <2>1, <2>2, <2>3, <2>4
<1>7. StackOK'
  BY <1>1, <1>2, <1>3, <1>6 DEF ScopesInv, StackOK, Elements
<1>8. ListOK'
  BY <1>1, <1>3, <1>4 DEF ScopesInv, ListOK
<1>9. Nested'
  <2> SUFFICES ASSUME funs = 0, NEW i \in 1 .. top - 1
               PROVE  /\ list[i].name \in Names /\ list[i].depth \in 1 .. scope - 1
                      /\ \A j \in i .. top - 1 : list[i].depth <= list[j].depth
    BY <1>1 DEF Nested
  <2>1. i \in 1 .. nlocal - 1 /\ i .. top - 1 \subseteq i .. nlocal - 1
        /\ top - 1 \in i .. nlocal - 1
    BY <1>3, <1>4
  <2>2. /\ list[i].name \in Names /\ list[i].depth \in 1 .. scope
        /\ \A j \in i .. nlocal - 1 : list[i].depth <= list[j].depth
        /\ list[top - 1].depth \in 1 .. scope
    <3>1. top - 1 \in 1 .. nlocal - 1
      BY <1>3, <1>4
    <3> QED BY <2>1, <3>1 DEF ScopesInv, Nested
  <2>3. list[i].depth <= list[top - 1].depth
    BY <2>1, <2>2
  <2>4. list[i].depth \in 1 .. scope - 1
    BY <1>3, <1>4, <2>2, <2>3
  <2>5. \A j \in i .. top - 1 : list[i].depth <= list[j].depth
    BY <2>1, <2>2
  <2> QED BY <2>2, <2>4, <2>5
<1>10. /\ env' \in Seq(Declarations) /\ Len(env') = k
       /\ \A i \in 1 .. k : env'[i] = env[i]
  BY <1>1, <1>3, <1>5
<1>11. Matches /\ p <= nlocal - top => Matches'
  <2> SUFFICES ASSUME Matches, p <= nlocal - top PROVE Matches'
    OBVIOUS
  <2>1. /\ G \in Nat /\ Len(env) = G + (nlocal - 1) /\ nlocal <= count
    BY <1>3 DEF Matches, G
  <2>2. \A i \in 1 .. nlocal - 1 : /\ env[G + i].name = list[i].name
                                  /\ env[G + i].scope = list[i].depth
                                  /\ env[G + i].val = cells[i]
    BY DEF Matches, LocalsMatch
  <2>3. k = G + (top - 1)
    <3>1. ASSUME k > G + (top - 1)  PROVE FALSE
      <4>1. k - G \in 0 .. nlocal - 1 /\ k - G \in 1 .. nlocal - 1
            /\ G + (k - G) = k /\ k # 0
        BY <1>3, <1>4, <1>5, <2>1, <3>1
      <4>2. list[k - G].depth < scope
        BY <1>5, <2>2, <4>1
      <4>3. k - G < top
        BY <1>4, <4>1, <4>2
      <4> QED BY <1>3, <1>4, <1>5, <2>1, <3>1, <4>3
    <3>2. k >= G + (top - 1)
      <4>1. CASE top = 1
        <5>1. G # 0 => G \in 1 .. Len(env) /\ env[G].scope = 0
          BY <1>3, <2>1 DEF Matches, GlobalsMatch
        <5> QED BY <1>1, <1>3, <1>5, <2>1, <4>1, <5>1
      <4>2. CASE top > 1
        <5>1. top - 1 \in 1 .. nlocal - 1 /\ G + (top - 1) \in 1 .. Len(env)
          BY <1>3, <1>4, <2>1, <4>2
        <5>2. env[G + (top - 1)].scope < scope
          BY <1>4, <2>2, <5>1
        <5> QED BY <1>5, <5>1, <5>2
      <4> QED BY <1>4, <4>1, <4>2
    <3> QED BY <1>3, <1>4, <1>5, <2>1, <3>1, <3>2
  <2>4. G' = G /\ 1 .. G \subseteq 1 .. k
    BY <1>1, <1>3, <1>4, <1>10, <2>1, <2>3 DEF G
  <2>5. LocalsMatch'
    <3> SUFFICES ASSUME NEW i \in 1 .. top - 1
                 PROVE  /\ env'[G + i].name = list[i].name
                        /\ env'[G + i].scope = list[i].depth
                        /\ env'[G + i].val = cells'[i]
      BY <1>1, <2>4 DEF LocalsMatch
    <3>1. i \in 1 .. nlocal - 1 /\ G + i \in 1 .. k
      BY <1>3, <1>4, <2>1, <2>3
    <3>2. cells'[i] = cells[i]
      <4>1. i \in 0 .. MAX_CELLS /\ i < count - p
        BY <1>3, <1>4, <1>6, <2>1
      <4> QED BY <1>2, <1>3, <4>1
    <3> QED BY <1>10, <2>2, <3>1, <3>2
  <2>6. GlobalsMatch'
    <3>1. \A i \in 1 .. G : env'[i] = env[i]
      BY <1>10, <2>4
    <3>2. G' = G /\ globs' = globs
      BY <1>1, <2>4
    <3> QED BY <3>1, <3>2 DEF Matches, GlobalsMatch
  <2>7. funs' = 0 /\ nlocal' <= count'
    BY <1>1, <1>2, <1>3, <1>4, <1>6, <2>1 DEF Matches
  <2> QED BY <2>1, <2>4, <2>5, <2>6, <2>7 DEF Matches
<1>12. plain' \in BOOLEAN /\ (plain' => Matches')
  BY <1>2, <1>11, Zenon DEF ScopesInv
<1>13. scope' \in 0 .. MAX_SCOPE /\ funs' \in Nat /\ consts' \in Seq(Nat)
  BY <1>1, <1>3 DEF ScopesInv
<1> QED BY <1>7, <1>8, <1>9, <1>10, <1>12, <1>13, Zenon DEF ScopesInv

LEMMA StutterHolds ==
    ASSUME ScopesInv, UNCHANGED vars
    PROVE  ScopesInv'
<1>1. /\ UNCHANGED <<list, nlocal, scope, consts, funs, cells, count, globs, env>>
      /\ plain' = plain
  BY Zenon DEF vars, code, state
<1>2. ListOK' /\ StackOK' /\ Nested' /\ scope' \in 0 .. MAX_SCOPE /\ funs' \in Nat
      /\ consts' \in Seq(Nat) /\ env' \in Seq(Declarations)
  BY <1>1 DEF ScopesInv, ListOK, StackOK, Nested
<1>3. Matches => Matches'
  <2>1. G' = G
    BY <1>1 DEF G
  <2> QED BY <1>1, <2>1 DEF Matches, LocalsMatch, GlobalsMatch
<1>4. plain' \in BOOLEAN /\ (plain' => Matches')
  BY <1>1, <1>3, Zenon DEF ScopesInv
<1> QED BY <1>2, <1>4, Zenon DEF ScopesInv

LEMMA StepHolds == ScopesInv /\ [Next]_vars => ScopesInv'
<1> SUFFICES ASSUME ScopesInv, [Next]_vars PROVE ScopesInv'
  OBVIOUS
<1>1. CASE Begin
  BY <1>1, BeginHolds
<1>2. CASE End
  BY <1>2, EndHolds
<1>3. ASSUME NEW n \in Names, NEW v \in Literals,
             DeclareLocal(n, v) \/ DeclareGlobal(n, v) \/ Assign(n, v)
      PROVE  ScopesInv'
  BY <1>3, DeclareLocalHolds, DeclareGlobalHolds, AssignHolds, Zenon
<1>4. ASSUME NEW n \in Names, DeclareBare(n)
      PROVE  ScopesInv'
  BY <1>4, DeclareBareHolds
<1>5. CASE DeclareNothing
  BY <1>5, DeclareNothingHolds
<1>6. ASSUME NEW v \in Literals, Pout(v) \/ Statement(v)
      PROVE  ScopesInv'
  BY <1>6, StatementHolds, Zenon
<1>7. CASE Function
  BY <1>7, FunctionHolds
<1>8. CASE UNCHANGED vars
  BY <1>8, StutterHolds
<1> QED BY <1>1, <1>2, <1>3, <1>4, <1>5, <1>6, <1>7, <1>8, Zenon DEF Next

(* The inductive invariant of the block scopes.                            *)
THEOREM ScopesInvariant == Spec => []ScopesInv
<1> QED BY InitHolds, StepHolds, PTL DEF Spec

(* The list of locals and the stack stay within their types, and without   *)
(* functions every record in use belongs to a block that is open.          *)
THEOREM ScopesTypes == Spec => []TypeOK
<1>1. ASSUME ScopesInv PROVE TypeOK
  <2>1. /\ nlocal \in 1 .. MAX_LOCALS + 1 /\ MAX_LOCALS \in Nat
        /\ scope \in 0 .. MAX_SCOPE /\ MAX_SCOPE \in Nat
        /\ list[0].depth = 0
    BY <1>1, ScopesAssumption DEF ScopesInv, ListOK
  <2>2. ASSUME funs = 0, NEW i \in 0 .. nlocal - 1  PROVE list[i].depth <= scope
    <3>1. CASE i = 0
      BY <2>1, <3>1
    <3>2. CASE i \in 1 .. nlocal - 1
      <4>1. list[i].depth \in 1 .. scope
        BY <1>1, <2>2, <3>2 DEF ScopesInv, Nested
      <4> QED BY <2>1, <4>1
    <3> QED BY <2>1, <3>1, <3>2
  <2>3. /\ nlocal \in 0 .. MAX_LOCALS + 1 /\ count \in 0 .. MAX_CELLS
        /\ \A i \in DOMAIN cells : cells[i] \in Literals \cup {Nil, Junk}
    BY <1>1, <2>1 DEF ScopesInv, StackOK, Elements
  <2>4. plain \in BOOLEAN
    BY <1>1, Zenon DEF ScopesInv
  <2> QED BY <2>1, <2>2, <2>3, <2>4, Zenon DEF TypeOK
<1> QED BY <1>1, ScopesInvariant, PTL

(* In a script without functions, uninitialised variables where something  *)
(* is left on the stack and blocks that pop too much, every name reads the *)
(* value last given to its innermost declaration in scope, and nothing     *)
(* when there is none: resolve_local's search from the end of the list and *)
(* declare_var's positions mean the same variables as the program.         *)
THEOREM NamesResolveAlways == Spec => []NamesResolve
<1>1. ScopesInv => NamesResolve
  BY NamesAreRight
<1> QED BY <1>1, ScopesInvariant, PTL

-----------------------------------------------------------------------------
(* Blocks: what end_scope drops and what declare_var reports               *)

(* Every declaration of an open block has its record, with nothing of an   *)
(* outer block above it.                                                   *)
RecordOf(k, i) ==
    /\ list[i].name = env[k].name /\ list[i].depth = env[k].scope
    /\ \A j \in i .. nlocal - 1 :
          list[j].depth = 0 \/ list[j].depth >= env[k].scope
Recorded ==
    \A k \in 1 .. Len(env) :
        env[k].scope > 0 => \E i \in 1 .. nlocal - 1 : RecordOf(k, i)

Sorted ==
    /\ \A k \in 1 .. Len(env) : env[k].scope <= scope
    /\ \A k, l \in 1 .. Len(env) : k <= l => env[k].scope <= env[l].scope

(* Above the last record of a function lie the locals of the open blocks.  *)
Free(i) == \A j \in i .. nlocal - 1 : list[j].depth # 0
Owner(i) == \E k \in 1 .. Len(env) :
               env[k].name = list[i].name /\ env[k].scope = list[i].depth
Owned ==
    \A i \in 1 .. nlocal - 1 : Free(i) =>
        /\ list[i].depth <= scope /\ Owner(i)
        /\ \A j \in i .. nlocal - 1 : list[i].depth <= list[j].depth

(* What block b found lies below its own records.                          *)
Above(b) ==
    open[b].nlocal # None =>
        /\ open[b].nlocal \in 1 .. nlocal
        /\ list[open[b].nlocal - 1].depth < b
        /\ \A i \in open[b].nlocal .. nlocal - 1 : list[i].depth >= b
Even(b) ==
    open[b].count # None =>
        /\ open[b].nlocal # None
        /\ count = open[b].count + (nlocal - open[b].nlocal)
Entries == [nlocal : Int, count : Int]
Opened ==
    /\ open \in Seq(Entries) /\ Len(open) = scope
    /\ list[nlocal - 1].depth <= scope
    /\ \A b \in 1 .. scope : Above(b) /\ Even(b)

BlocksInv == Recorded /\ Sorted /\ Owned /\ Opened

(* What the types of the state say for these parts.                        *)
LEMMA BlockTypes ==
    ASSUME ScopesInv
    PROVE  /\ nlocal \in Nat /\ nlocal > 0 /\ nlocal <= MAX_LOCALS + 1
           /\ MAX_LOCALS \in Nat /\ scope \in Nat
           /\ list \in [0 .. MAX_LOCALS -> Records]
           /\ list[0].depth = 0 /\ list[0].name = Garbage
           /\ \A i \in 0 .. nlocal - 1 : list[i].depth \in Nat
           /\ env \in Seq(Declarations) /\ Len(env) \in Nat
           /\ \A k \in 1 .. Len(env) : env[k].scope \in Nat
           /\ count \in Nat
<1>1. /\ nlocal \in 1 .. MAX_LOCALS + 1 /\ MAX_LOCALS \in Nat
      /\ scope \in 0 .. MAX_SCOPE /\ count \in 0 .. MAX_CELLS
      /\ list \in [0 .. MAX_LOCALS -> Records]
      /\ list[0] = [name |-> Garbage, depth |-> 0]
      /\ env \in Seq(Declarations)
  BY ScopesAssumption DEF ScopesInv, ListOK, StackOK
<1>2. \A i \in 0 .. nlocal - 1 : list[i] \in Records
  BY <1>1
<1>3. \A k \in 1 .. Len(env) : env[k] \in Declarations
  BY <1>1
<1> QED BY <1>1, <1>2, <1>3 DEF Records, Declarations

LEMMA OpenIs ==
    ASSUME BlocksInv, NEW b \in 1 .. scope
    PROVE  /\ open[b] \in Entries /\ Above(b) /\ Even(b)
           /\ open[b].nlocal \in Int /\ open[b].count \in Int
<1>1. open \in Seq(Entries) /\ Len(open) = scope /\ Above(b) /\ Even(b)
  BY DEF BlocksInv, Opened
<1>2. open[b] \in Entries
  BY <1>1
<1> QED BY <1>1, <1>2 DEF Entries

LEMMA MappedSeq ==
    ASSUME NEW s \in Seq(Entries), NEW t, t = [i \in DOMAIN s |-> t[i]],
           \A i \in 1 .. Len(s) : t[i] \in Entries
    PROVE  t \in Seq(Entries) /\ Len(t) = Len(s)
<1>1. DOMAIN s = 1 .. Len(s) /\ Len(s) \in Nat
  OBVIOUS
<1>2. t \in [1 .. Len(s) -> Entries]
  BY <1>1
<1> QED BY <1>1, <1>2

LEMMA EntryIs ==
    ASSUME NEW a \in Int, NEW c \in Int
    PROVE  /\ [nlocal |-> a, count |-> c] \in Entries
           /\ [nlocal |-> a, count |-> c].nlocal = a
           /\ [nlocal |-> a, count |-> c].count = c
<1>1. [nlocal |-> a, count |-> c] \in Entries
  BY DEF Entries
<1>2. [nlocal |-> a, count |-> c].nlocal = a
  OBVIOUS
<1>3. [nlocal |-> a, count |-> c].count = c
  OBVIOUS
<1> QED BY <1>1, <1>2, <1>3

LEMMA EntryWithout ==
    ASSUME NEW x \in Entries, NEW c \in Int
    PROVE  /\ [x EXCEPT !.count = c] \in Entries
           /\ [x EXCEPT !.count = c].nlocal = x.nlocal
           /\ [x EXCEPT !.count = c].count = c
<1>1. [x EXCEPT !.count = c] \in Entries
  BY DEF Entries
<1>2. [x EXCEPT !.count = c].nlocal = x.nlocal
  BY DEF Entries
<1>3. [x EXCEPT !.count = c].count = c
  BY DEF Entries
<1> QED BY <1>1, <1>2, <1>3

LEMMA UnevenFacts ==
    ASSUME NEW s \in Seq(Entries)
    PROVE  /\ Uneven(s) \in Seq(Entries) /\ Len(Uneven(s)) = Len(s)
           /\ \A i \in 1 .. Len(s) : /\ Uneven(s)[i].nlocal = s[i].nlocal
                                     /\ Uneven(s)[i].count = None
<1>1. \A i \in 1 .. Len(s) : s[i] \in Entries
  OBVIOUS
<1>2. \A i \in 1 .. Len(s) : Uneven(s)[i] = [s[i] EXCEPT !.count = None]
  BY DEF Uneven
<1>3. \A i \in 1 .. Len(s) : /\ Uneven(s)[i] \in Entries
                              /\ Uneven(s)[i].nlocal = s[i].nlocal
                              /\ Uneven(s)[i].count = None
  <2>1. None \in Int
    BY DEF None
  <2> TAKE i \in 1 .. Len(s)
  <2>2. PICK x \in Entries : x = s[i]
    BY <1>1
  <2>3. Uneven(s)[i] = [x EXCEPT !.count = None]
    BY <1>2, <2>2
  <2> HIDE DEF Entries, None
  <2>4. /\ [x EXCEPT !.count = None] \in Entries
        /\ [x EXCEPT !.count = None].nlocal = x.nlocal
        /\ [x EXCEPT !.count = None].count = None
    BY <2>1, EntryWithout
  <2> QED BY <2>2, <2>3, <2>4
<1>4. Uneven(s) = [i \in DOMAIN s |-> Uneven(s)[i]]
  BY DEF Uneven
<1> QED BY <1>3, <1>4, MappedSeq

LEMMA TakenFacts ==
    ASSUME NEW s \in Seq(Entries)
    PROVE  /\ Taken(s) \in Seq(Entries) /\ Len(Taken(s)) = Len(s)
           /\ \A i \in 1 .. Len(s) : /\ Taken(s)[i].nlocal = None
                                     /\ Taken(s)[i].count = None
<1>1. \A i \in 1 .. Len(s) : Taken(s)[i] = [nlocal |-> None, count |-> None]
  BY DEF Taken
<1>2. \A i \in 1 .. Len(s) : Taken(s)[i] \in Entries
  BY <1>1 DEF Entries, None
<1>3. Taken(s) = [i \in DOMAIN s |-> Taken(s)[i]]
  BY DEF Taken
<1>4. \A i \in 1 .. Len(s) : /\ Taken(s)[i].nlocal = None
                              /\ Taken(s)[i].count = None
  <2>1. None \in Int
    BY DEF None
  <2> QED BY <1>1, <2>1, EntryIs
<1>5. Taken(s) \in Seq(Entries) /\ Len(Taken(s)) = Len(s)
  BY <1>2, <1>3, MappedSeq
<1> QED BY <1>4, <1>5

LEMMA InitBlocks == Init => BlocksInv
<1> SUFFICES ASSUME Init PROVE BlocksInv
  OBVIOUS
<1>1. Len(env) = 0 /\ nlocal = 1 /\ scope = 0 /\ Len(open) = 0
  BY DEF Init
<1>2. list[0].depth = 0
  BY ScopesAssumption DEF Init
<1>3. open \in Seq(Entries)
  BY DEF Init
<1> QED BY <1>1, <1>2, <1>3 DEF BlocksInv, Recorded, Sorted, Owned, Opened

(* A step that changes values only, and possibly the height of the stack.  *)
LEMMA ValuesBlocks ==
    ASSUME ScopesInv, BlocksInv, UNCHANGED <<list, nlocal, scope>>,
           Len(env') = Len(env),
           \A k \in 1 .. Len(env) : /\ env'[k].name = env[k].name
                                    /\ env'[k].scope = env[k].scope,
           (open' = open /\ (count' = count \/ scope = 0))
              \/ open' = Uneven(open)
    PROVE  BlocksInv'
<1>1. Recorded'
  BY DEF BlocksInv, Recorded, RecordOf
<1>2. Sorted'
  BY DEF BlocksInv, Sorted
<1>3. Owned'
  <2>1. \A i \in 1 .. nlocal - 1 : (Free(i)' => Free(i)) /\ (Owner(i) => Owner(i)')
    BY DEF Free, Owner
  <2> QED BY <2>1 DEF BlocksInv, Owned
<1>4. Opened'
  <2>1. CASE open' = open /\ (count' = count \/ scope = 0)
    BY <2>1 DEF BlocksInv, Opened, Above, Even
  <2>2. CASE open' = Uneven(open)
    <3>1. open \in Seq(Entries) /\ Len(open) = scope
      BY DEF BlocksInv, Opened
    <3>2. /\ open' \in Seq(Entries) /\ Len(open') = scope
          /\ \A b \in 1 .. scope : /\ open'[b].nlocal = open[b].nlocal
                                   /\ open'[b].count = None
      BY <2>2, <3>1, UnevenFacts
    <3>3. \A b \in 1 .. scope : Above(b) => Above(b)'
      BY <3>2 DEF Above
    <3>4. \A b \in 1 .. scope : Even(b)'
      BY <3>2 DEF Even
    <3> QED BY <3>2, <3>3, <3>4 DEF BlocksInv, Opened
  <2> QED BY <2>1, <2>2
<1> QED BY <1>1, <1>2, <1>3, <1>4 DEF BlocksInv

LEMMA BeginBlocks ==
    ASSUME ScopesInv, BlocksInv, Begin
    PROVE  BlocksInv'
<1>1. /\ scope' = scope + 1 /\ open' = Append(open, Found)
      /\ UNCHANGED <<list, nlocal, env, count>>
  BY DEF Begin, state
<1>2. /\ open \in Seq(Entries) /\ Len(open) = scope
      /\ scope \in Nat /\ nlocal \in Nat /\ nlocal > 0 /\ count \in Nat
      /\ list[nlocal - 1].depth <= scope
      /\ list[nlocal - 1].depth \in Nat
  BY BlockTypes DEF BlocksInv, Opened
<1>3. Recorded'
  BY <1>1 DEF BlocksInv, Recorded, RecordOf
<1>4. Sorted'
  BY <1>1, <1>2, BlockTypes DEF BlocksInv, Sorted
<1>5. Owned'
  <2>1. \A i \in 1 .. nlocal - 1 : (Free(i)' => Free(i)) /\ (Owner(i) => Owner(i)')
    BY <1>1 DEF Free, Owner
  <2>2. \A i \in 1 .. nlocal - 1 : list[i].depth <= scope => list[i].depth <= scope'
    BY <1>1, <1>2, BlockTypes
  <2> QED BY <1>1, <2>1, <2>2 DEF BlocksInv, Owned
<1>6. Opened'
  <2>1. Found \in Entries /\ Found.nlocal = nlocal
        /\ Found.count = count
    BY <1>2, EntryIs DEF Found
  <2>2. /\ open' \in Seq(Entries)
        /\ Len(open') = scope + 1 /\ open'[scope + 1] = Found
        /\ \A b \in 1 .. scope : open'[b] = open[b]
    BY <1>1, <1>2, <2>1
  <2>3. ASSUME NEW b \in 1 .. scope + 1
        PROVE  Above(b)' /\ Even(b)'
    <3>1. CASE b = scope + 1
      <4>1. Above(b)'
        BY <1>1, <1>2, <2>1, <2>2, <3>1 DEF Above
      <4>2. Even(b)'
        BY <1>1, <1>2, <2>1, <2>2, <3>1 DEF Even, None
      <4> QED BY <4>1, <4>2
    <3>2. CASE b \in 1 .. scope
      BY <1>1, <2>2, <3>2 DEF BlocksInv, Opened, Above, Even
    <3> QED BY <1>2, <3>1, <3>2
  <2> QED BY <1>1, <1>2, <2>2, <2>3 DEF Opened
<1> QED BY <1>3, <1>4, <1>5, <1>6 DEF BlocksInv

(* A new record on top of the list: a local of the block, or the record of *)
(* a function.                                                             *)
LEMMA TopRecord ==
    ASSUME ScopesInv, NEW x, nlocal < MAX_LOCALS,
           list' = [list EXCEPT ![nlocal] = x], nlocal' = nlocal + 1
    PROVE  /\ list'[nlocal] = x
           /\ \A i \in 0 .. nlocal - 1 : list'[i] = list[i]
           /\ \A i \in 0 .. nlocal : i = nlocal \/ i \in 0 .. nlocal - 1
           /\ nlocal' - 1 = nlocal
BY BlockTypes

LEMMA AddBlocks ==
    ASSUME ScopesInv, BlocksInv, scope > 0, NEW n \in Names,
           NEW v, AddLocal(n), Bind(n, v),
           scope' = scope, open' = open, count' = count + 1
    PROVE  BlocksInv'
<1> DEFINE x == [name |-> n, depth |-> scope]
           d == [name |-> n, scope |-> scope, val |-> v]
           e == Len(env) + 1
<1>1. /\ list' = [list EXCEPT ![nlocal] = x] /\ nlocal' = nlocal + 1
      /\ nlocal < MAX_LOCALS /\ env' = Append(env, d)
  BY DEF AddLocal, Bind
<1>2. x.name = n /\ x.depth = scope /\ d.name = n /\ d.scope = scope
  OBVIOUS
<1> HIDE DEF x, d
<1>3. /\ list'[nlocal] = x /\ nlocal' - 1 = nlocal
      /\ \A i \in 0 .. nlocal - 1 : list'[i] = list[i]
      /\ \A i \in 0 .. nlocal : i = nlocal \/ i \in 0 .. nlocal - 1
  BY <1>1, TopRecord
<1>4. /\ nlocal \in Nat /\ nlocal > 0 /\ scope \in Nat /\ Len(env) \in Nat
      /\ \A i \in 0 .. nlocal - 1 : list[i].depth \in Nat
      /\ \A k \in 1 .. Len(env) : env[k].scope \in Nat
  BY BlockTypes
<1>5. /\ Len(env') = e /\ env'[e] = d /\ e \in Nat
      /\ \A k \in 1 .. Len(env) : env'[k] = env[k]
      /\ \A k \in 1 .. e : k = e \/ k \in 1 .. Len(env)
  BY <1>1, BlockTypes
<1> HIDE DEF e
<1>6. Recorded'
  <2> SUFFICES ASSUME NEW k \in 1 .. e, env'[k].scope > 0
               PROVE  \E i \in 1 .. nlocal : RecordOf(k, i)'
    BY <1>1, <1>3, <1>5 DEF Recorded
  <2>1. CASE k = e
    <3>1. PICK i \in 1 .. nlocal : i = nlocal
      BY <1>4
    <3>2. /\ list'[i].name = env'[k].name /\ env'[k].scope = scope
          /\ list'[i].depth = env'[k].scope
      BY <1>2, <1>3, <1>5, <2>1, <3>1
    <3>3. list'[i].depth >= env'[k].scope
      BY <1>4, <3>2
    <3>4. \A j \in i .. nlocal' - 1 : j = i
      BY <1>3, <1>4, <3>1
    <3>5. RecordOf(k, i)'
      BY <3>2, <3>3, <3>4 DEF RecordOf
    <3> QED BY <3>5
  <2>2. CASE k \in 1 .. Len(env)
    <3>1. PICK i \in 1 .. nlocal - 1 : RecordOf(k, i)
      BY <1>5, <2>2 DEF BlocksInv, Recorded
    <3>2. env'[k] = env[k] /\ env[k].scope \in Nat /\ env[k].scope <= scope
      BY <1>4, <1>5, <2>2 DEF BlocksInv, Sorted
    <3>3. list'[i] = list[i] /\ i \in 1 .. nlocal
      BY <1>3, <1>4
    <3>4. ASSUME NEW j \in i .. nlocal
          PROVE  list'[j].depth = 0 \/ list'[j].depth >= env[k].scope
      <4>1. CASE j = nlocal
        BY <1>2, <1>3, <1>4, <3>2, <4>1
      <4>2. CASE j # nlocal
        <5>1. j \in i .. nlocal - 1 /\ j \in 0 .. nlocal - 1
          BY <1>4, <4>2
        <5> QED BY <1>3, <3>1, <5>1 DEF RecordOf
      <4> QED BY <4>1, <4>2
    <3>5. RecordOf(k, i)'
      BY <1>3, <3>1, <3>2, <3>3, <3>4 DEF RecordOf
    <3> QED BY <3>3, <3>5
  <2> QED BY <1>5, <2>1, <2>2
<1>7. Sorted'
  <2>1. \A k \in 1 .. e : env'[k].scope \in Nat /\ env'[k].scope <= scope
    BY <1>2, <1>4, <1>5 DEF BlocksInv, Sorted
  <2>2. ASSUME NEW k \in 1 .. e, NEW l \in 1 .. e, k <= l
        PROVE  env'[k].scope <= env'[l].scope
    <3>1. CASE l = e
      BY <1>2, <1>5, <2>1, <3>1
    <3>2. CASE l \in 1 .. Len(env)
      <4>1. k \in 1 .. Len(env)
        BY <1>4, <1>5, <2>2, <3>2
      <4> QED BY <1>5, <2>2, <3>2, <4>1 DEF BlocksInv, Sorted
    <3> QED BY <1>5, <3>1, <3>2
  <2> QED BY <1>5, <2>1, <2>2 DEF Sorted
<1>8. Owned'
  <2> SUFFICES ASSUME NEW i \in 1 .. nlocal, Free(i)'
               PROVE  /\ list'[i].depth <= scope /\ Owner(i)'
                      /\ \A j \in i .. nlocal :
                            list'[i].depth <= list'[j].depth
    BY <1>1, <1>3 DEF Owned
  <2>1. CASE i = nlocal
    <3>1. \A j \in i .. nlocal : j = nlocal
      BY <1>4, <2>1
    <3>2. list'[i].depth = scope /\ list'[i].name = n
      BY <1>2, <1>3, <2>1
    <3>3. Owner(i)'
      <4>1. e \in 1 .. Len(env')
        BY <1>4, <1>5 DEF e
      <4> QED BY <1>2, <1>5, <3>2, <4>1 DEF Owner
    <3> QED BY <1>4, <2>1, <3>1, <3>2, <3>3
  <2>2. CASE i # nlocal
    <3>1. i \in 1 .. nlocal - 1 /\ i \in 0 .. nlocal - 1
      BY <1>4, <2>2
    <3>2. Free(i)
      <4>1. \A j \in i .. nlocal - 1 : j \in i .. nlocal /\ j \in 0 .. nlocal - 1
        BY <1>4, <3>1
      <4>2. \A j \in i .. nlocal - 1 : list'[j].depth # 0
        BY <1>3, <4>1 DEF Free
      <4> QED BY <1>3, <4>1, <4>2 DEF Free
    <3>3. /\ list[i].depth <= scope /\ Owner(i)
          /\ \A j \in i .. nlocal - 1 : list[i].depth <= list[j].depth
      BY <3>1, <3>2 DEF BlocksInv, Owned
    <3>4. list'[i] = list[i]
      BY <1>3, <3>1
    <3>5. Owner(i)'
      <4>1. PICK k \in 1 .. Len(env) :
               env[k].name = list[i].name /\ env[k].scope = list[i].depth
        BY <3>3 DEF Owner
      <4>2. k \in 1 .. Len(env')
        BY <1>4, <1>5 DEF e
      <4> QED BY <1>5, <3>4, <4>1, <4>2 DEF Owner
    <3>6. ASSUME NEW j \in i .. nlocal
          PROVE  list'[i].depth <= list'[j].depth
      <4>1. CASE j = nlocal
        BY <1>2, <1>3, <3>3, <3>4, <4>1
      <4>2. CASE j # nlocal
        <5>1. j \in i .. nlocal - 1 /\ j \in 0 .. nlocal - 1
          BY <1>4, <4>2
        <5> QED BY <1>3, <3>3, <3>4, <5>1
      <4> QED BY <4>1, <4>2
    <3> QED BY <3>3, <3>4, <3>5, <3>6
  <2> QED BY <2>1, <2>2
<1>9. Opened'
  <2>1. ASSUME NEW b \in 1 .. scope  PROVE Above(b)' /\ Even(b)'
    <3>1. open' = open /\ Above(b) /\ Even(b)
      BY DEF BlocksInv, Opened
    <3>2. Above(b)'
      <4> SUFFICES ASSUME open[b].nlocal # None
                   PROVE  /\ open[b].nlocal \in 1 .. nlocal + 1
                          /\ list'[open[b].nlocal - 1].depth < b
                          /\ \A i \in open[b].nlocal .. nlocal :
                                list'[i].depth >= b
        BY <1>1, <1>3, <3>1 DEF Above
      <4>1. PICK o : o = open[b].nlocal
        OBVIOUS
      <4>2. /\ o \in 1 .. nlocal /\ list[o - 1].depth < b
            /\ \A i \in o .. nlocal - 1 : list[i].depth >= b
        BY <3>1, <4>1 DEF Above
      <4>3. o - 1 \in 0 .. nlocal - 1 /\ o \in 1 .. nlocal + 1
        BY <1>4, <4>2
      <4>4. ASSUME NEW i \in o .. nlocal  PROVE list'[i].depth >= b
        <5>1. CASE i = nlocal
          BY <1>2, <1>3, <1>4, <5>1
        <5>2. CASE i # nlocal
          <6>1. i \in o .. nlocal - 1 /\ i \in 0 .. nlocal - 1
            BY <1>4, <4>2, <5>2
          <6> QED BY <1>3, <4>2, <6>1
        <5> QED BY <5>1, <5>2
      <4> QED BY <1>3, <4>1, <4>2, <4>3, <4>4
    <3>3. Even(b)'
      <4>1. PICK o, c : o = open[b].nlocal /\ c = open[b].count
        OBVIOUS
      <4>2. /\ count \in Nat /\ o \in Int /\ c \in Int
            /\ c # None => o # None /\ count = c + (nlocal - o)
        BY <4>1, BlockTypes, OpenIs DEF Even
      <4>3. c # None => o # None /\ count' = c + (nlocal' - o)
        BY <1>1, <1>4, <4>2
      <4> QED BY <3>1, <4>1, <4>3 DEF Even
    <3> QED BY <3>2, <3>3
  <2>2. list'[nlocal' - 1].depth <= scope'
    BY <1>2, <1>3, <1>4
  <2> QED BY <2>1, <2>2 DEF BlocksInv, Opened
<1> QED BY <1>6, <1>7, <1>8, <1>9 DEF BlocksInv

LEMMA FunctionBlocks ==
    ASSUME ScopesInv, BlocksInv, Function
    PROVE  BlocksInv'
<1> DEFINE x == [list[nlocal] EXCEPT !.depth = 0]
<1>1. /\ list' = [list EXCEPT ![nlocal] = x] /\ nlocal' = nlocal + 1
      /\ nlocal < MAX_LOCALS /\ open' = Taken(open)
      /\ UNCHANGED <<scope, env>>
  BY DEF Function
<1>2. x.depth = 0
  <2>1. list[nlocal] \in Records
    BY <1>1, BlockTypes
  <2> QED BY <2>1 DEF Records
<1> HIDE DEF x
<1>3. /\ list'[nlocal] = x /\ nlocal' - 1 = nlocal
      /\ \A i \in 0 .. nlocal - 1 : list'[i] = list[i]
      /\ \A i \in 0 .. nlocal : i = nlocal \/ i \in 0 .. nlocal - 1
  BY <1>1, TopRecord
<1>4. nlocal \in Nat /\ nlocal > 0 /\ scope \in Nat
  BY BlockTypes
<1>5. Recorded'
  <2> SUFFICES ASSUME NEW k \in 1 .. Len(env), env[k].scope > 0
               PROVE  \E i \in 1 .. nlocal : RecordOf(k, i)'
    BY <1>1, <1>3 DEF Recorded
  <2>1. PICK i \in 1 .. nlocal - 1 : RecordOf(k, i)
    BY DEF BlocksInv, Recorded
  <2>2. i \in 1 .. nlocal /\ list'[i] = list[i]
    BY <1>3, <1>4
  <2>3. ASSUME NEW j \in i .. nlocal
        PROVE  list'[j].depth = 0 \/ list'[j].depth >= env[k].scope
    <3>1. CASE j = nlocal
      BY <1>2, <1>3, <3>1
    <3>2. CASE j # nlocal
      <4>1. j \in i .. nlocal - 1 /\ j \in 0 .. nlocal - 1
        BY <1>4, <3>2
      <4> QED BY <1>3, <2>1, <4>1 DEF RecordOf
    <3> QED BY <3>1, <3>2
  <2>4. RecordOf(k, i)'
    BY <1>1, <1>3, <2>1, <2>2, <2>3 DEF RecordOf
  <2> QED BY <2>2, <2>4
<1>6. Sorted'
  BY <1>1 DEF BlocksInv, Sorted
<1>7. Owned'
  <2> SUFFICES ASSUME NEW i \in 1 .. nlocal, Free(i)' PROVE FALSE
    BY <1>1, <1>3 DEF Owned
  <2>1. nlocal \in i .. nlocal
    BY <1>4
  <2> QED BY <1>2, <1>3, <2>1 DEF Free
<1>8. Opened'
  <2>1. open \in Seq(Entries) /\ Len(open) = scope
    BY DEF BlocksInv, Opened
  <2>2. /\ open' \in Seq(Entries) /\ Len(open') = scope
        /\ \A b \in 1 .. scope : /\ open'[b].nlocal = None
                                 /\ open'[b].count = None
    BY <1>1, <2>1, TakenFacts
  <2>3. list'[nlocal' - 1].depth <= scope'
    BY <1>1, <1>2, <1>3, <1>4
  <2>4. \A b \in 1 .. scope : Above(b)' /\ Even(b)'
    BY <2>2 DEF Above, Even
  <2> QED BY <1>1, <2>2, <2>3, <2>4 DEF Opened
<1> QED BY <1>5, <1>6, <1>7, <1>8 DEF BlocksInv

(* The end of a block drops exactly the records above the last one that    *)
(* lies outside it.                                                        *)
LEMMA EndFacts ==
    ASSUME ScopesInv, BlocksInv, End
    PROVE  /\ scope > 0 /\ scope' = scope - 1 /\ list' = list
           /\ nlocal' \in 1 .. nlocal /\ list[nlocal' - 1].depth < scope
           /\ \A i \in 0 .. nlocal - 1 : list[i].depth < scope => i < nlocal'
           /\ Len(env') \in 0 .. Len(env)
           /\ \A k \in 1 .. Len(env') : env'[k] = env[k] /\ env[k].scope < scope
           /\ \A k \in 1 .. Len(env) : env[k].scope < scope => k <= Len(env')
           /\ nlocal - nlocal' <= 1 => /\ count' = count - (nlocal - nlocal')
                                       /\ open' = SubSeq(open, 1, scope - 1)
           /\ nlocal - nlocal' > 1 =>
                 open' = Uneven(SubSeq(open, 1, scope - 1))
<1> DEFINE top   == Max(Kept \cup {-1}) + 1
           outer == {i \in 1 .. Len(env) : env[i].scope < scope}
           k     == Max(outer \cup {0})
<1>1. /\ scope > 0 /\ scope' = scope - 1 /\ nlocal' = top /\ list' = list
      /\ env' = SubSeq(env, 1, k)
      /\ open' = IF nlocal - top <= 1 THEN SubSeq(open, 1, Len(open) - 1)
                 ELSE Uneven(SubSeq(open, 1, Len(open) - 1))
  BY DEF End
<1>2. PICK p \in Popped(nlocal - top) : count' = count - p
  BY Zenon DEF End
<1>3. /\ top \in 1 .. nlocal /\ list[top - 1].depth < scope
      /\ \A i \in 0 .. nlocal - 1 : list[i].depth < scope => i < top
  BY <1>1, KeptFacts
<1>4. /\ k \in 0 .. Len(env)
      /\ k # 0 => env[k].scope < scope
      /\ \A i \in 1 .. Len(env) : env[i].scope < scope => i <= k
  BY OuterFacts
<1> HIDE DEF top, k, outer
<1>5. nlocal \in Nat /\ Len(env) \in Nat /\ env \in Seq(Declarations)
      /\ \A i \in 1 .. Len(env) : env[i].scope \in Nat
  BY BlockTypes
<1>6. Len(env') = k /\ \A i \in 1 .. k : env'[i] = env[i]
  BY <1>1, <1>4, <1>5
<1>7. ASSUME NEW i \in 1 .. k  PROVE env[i].scope < scope
  <2>1. k # 0 /\ i \in 1 .. Len(env) /\ k \in 1 .. Len(env) /\ i <= k
    BY <1>4, <1>5
  <2>2. env[i].scope <= env[k].scope
    BY <2>1 DEF BlocksInv, Sorted
  <2>3. scope \in Nat
    BY BlockTypes
  <2> QED BY <1>4, <1>5, <2>1, <2>2, <2>3
<1>8. nlocal - top <= 1 => count' = count - (nlocal - top)
  BY <1>2, <1>3, <1>5 DEF Popped
<1>9. Len(open) = scope
  BY DEF BlocksInv, Opened
<1>10. nlocal - top \in Int
  BY <1>3, <1>5
<1> QED BY <1>1, <1>3, <1>4, <1>6, <1>7, <1>8, <1>9, <1>10

LEMMA EndBlocks ==
    ASSUME ScopesInv, BlocksInv, End
    PROVE  BlocksInv'
<1>1. PICK m : m = nlocal'
  OBVIOUS
<1>2. /\ scope > 0 /\ scope' = scope - 1 /\ list' = list
      /\ m \in 1 .. nlocal /\ list[m - 1].depth < scope
      /\ \A i \in 0 .. nlocal - 1 : list[i].depth < scope => i < m
      /\ Len(env') \in 0 .. Len(env)
      /\ \A k \in 1 .. Len(env') : env'[k] = env[k] /\ env[k].scope < scope
      /\ \A k \in 1 .. Len(env) : env[k].scope < scope => k <= Len(env')
      /\ nlocal - m <= 1 => /\ count' = count - (nlocal - m)
                            /\ open' = SubSeq(open, 1, scope - 1)
      /\ nlocal - m > 1 => open' = Uneven(SubSeq(open, 1, scope - 1))
  BY <1>1, EndFacts
<1>3. /\ nlocal \in Nat /\ nlocal > 0 /\ scope \in Nat /\ Len(env) \in Nat
      /\ m \in Nat /\ m <= nlocal /\ m > 0
      /\ \A i \in 0 .. nlocal - 1 : list[i].depth \in Nat
      /\ \A k \in 1 .. Len(env) : env[k].scope \in Nat
      /\ count \in Nat
  BY <1>2, BlockTypes
<1>4. \A k \in 1 .. Len(env') : k \in 1 .. Len(env)
  BY <1>2, <1>3
<1>5. Recorded'
  <2> SUFFICES ASSUME NEW k \in 1 .. Len(env'), env[k].scope > 0
               PROVE  \E i \in 1 .. m - 1 : RecordOf(k, i)'
    BY <1>1, <1>2 DEF Recorded
  <2>1. PICK i \in 1 .. nlocal - 1 : RecordOf(k, i)
    BY <1>4 DEF BlocksInv, Recorded
  <2>2. list[i].depth < scope /\ i < m /\ i \in 1 .. m - 1
    <3>1. i \in 0 .. nlocal - 1
      BY <1>3
    <3>2. list[i].depth < scope
      BY <1>2, <2>1 DEF RecordOf
    <3> QED BY <1>2, <1>3, <3>1, <3>2
  <2>3. i .. m - 1 \subseteq i .. nlocal - 1
    BY <1>3
  <2>4. RecordOf(k, i)'
    BY <1>1, <1>2, <2>1, <2>3 DEF RecordOf
  <2> QED BY <2>2, <2>4
<1>6. Sorted'
  <2>1. \A k \in 1 .. Len(env') : env'[k].scope <= scope - 1
    BY <1>2, <1>3, <1>4
  <2>2. \A k, l \in 1 .. Len(env') : k <= l => env'[k].scope <= env'[l].scope
    BY <1>2, <1>4 DEF BlocksInv, Sorted
  <2> QED BY <1>2, <2>1, <2>2 DEF Sorted
<1>7. Owned'
  <2> SUFFICES ASSUME NEW i \in 1 .. m - 1, Free(i)'
               PROVE  /\ list[i].depth <= scope - 1 /\ Owner(i)'
                      /\ \A j \in i .. m - 1 : list[i].depth <= list[j].depth
    BY <1>1, <1>2 DEF Owned
  <2>1. i \in 1 .. nlocal - 1 /\ m - 1 \in i .. nlocal - 1
        /\ i .. m - 1 \subseteq i .. nlocal - 1
        /\ m - 1 \in 0 .. nlocal - 1 /\ i \in 0 .. nlocal - 1
    BY <1>3
  <2>2. Free(i)
    <3> SUFFICES ASSUME NEW j \in i .. nlocal - 1 PROVE list[j].depth # 0
      BY DEF Free
    <3>1. CASE j < m
      <4>1. j \in i .. m - 1
        BY <1>3, <3>1
      <4> QED BY <1>1, <1>2, <4>1 DEF Free
    <3>2. CASE ~ (j < m)
      <4>1. j \in 0 .. nlocal - 1
        BY <1>3
      <4>2. ~ (list[j].depth < scope)
        BY <1>2, <3>2, <4>1
      <4> QED BY <1>2, <1>3, <4>2
    <3> QED BY <3>1, <3>2
  <2>3. /\ list[i].depth <= scope /\ Owner(i)
        /\ \A j \in i .. nlocal - 1 : list[i].depth <= list[j].depth
    BY <2>1, <2>2 DEF BlocksInv, Owned
  <2>4. list[i].depth <= list[m - 1].depth
    BY <2>1, <2>3
  <2>5. list[i].depth < scope
    BY <1>2, <1>3, <2>1, <2>4
  <2>6. list[i].depth <= scope - 1
    BY <1>3, <2>1, <2>5
  <2>7. Owner(i)'
    <3>1. PICK k \in 1 .. Len(env) :
             env[k].name = list[i].name /\ env[k].scope = list[i].depth
      BY <2>3 DEF Owner
    <3>2. k \in 1 .. Len(env')
      BY <1>2, <1>3, <2>5, <3>1
    <3> QED BY <1>2, <3>1, <3>2 DEF Owner
  <2> QED BY <2>1, <2>3, <2>6, <2>7
<1>8. Opened'
  <2>1. PICK rest : rest = SubSeq(open, 1, scope - 1)
    OBVIOUS
  <2>2. open \in Seq(Entries) /\ Len(open) = scope
    BY DEF BlocksInv, Opened
  <2>3. /\ rest \in Seq(Entries) /\ Len(rest) = scope - 1
        /\ \A b \in 1 .. scope - 1 : rest[b] = open[b]
    <3>1. PICK u : u = scope - 1
      OBVIOUS
    <3>2. u \in Nat /\ u <= Len(open) /\ 1 \in Nat
      BY <1>2, <1>3, <2>2, <3>1
    <3>3. rest = SubSeq(open, 1, u)
      BY <2>1, <3>1
    <3>4. rest \in Seq(Entries) /\ Len(rest) = u
          /\ \A b \in 1 .. u : rest[b] = open[b]
      BY <2>2, <3>2, <3>3
    <3> QED BY <3>1, <3>4
  <2>4. /\ open' \in Seq(Entries) /\ Len(open') = scope - 1
        /\ \A b \in 1 .. scope - 1 :
              /\ open'[b].nlocal = open[b].nlocal
              /\ nlocal - m <= 1 => open'[b].count = open[b].count
              /\ nlocal - m > 1 => open'[b].count = None
    <3>1. CASE nlocal - m <= 1
      <4>1. open' = rest /\ ~ (nlocal - m > 1)
        BY <1>2, <1>3, <2>1, <3>1
      <4> QED BY <2>3, <4>1, <3>1
    <3>2. CASE nlocal - m > 1
      <4>1. open' = Uneven(rest) /\ ~ (nlocal - m <= 1)
        BY <1>2, <1>3, <2>1, <3>2
      <4>2. /\ Uneven(rest) \in Seq(Entries)
            /\ Len(Uneven(rest)) = scope - 1
            /\ \A b \in 1 .. scope - 1 :
                  /\ Uneven(rest)[b].nlocal = rest[b].nlocal
                  /\ Uneven(rest)[b].count = None
        BY <2>3, UnevenFacts
      <4> QED BY <2>3, <4>1, <4>2
    <3> QED BY <1>3, <3>1, <3>2
  <2>5. ASSUME NEW b \in 1 .. scope - 1  PROVE Above(b)' /\ Even(b)'
    <3>1. b \in 1 .. scope /\ b < scope /\ b \in Nat
      BY <1>3
    <3>2. Above(b) /\ Even(b)
      BY <3>1 DEF BlocksInv, Opened
    <3>3. PICK o : o = open[b].nlocal
      OBVIOUS
    <3>4. open'[b].nlocal = o
      BY <2>4, <3>3
    <3>5. o # None => /\ o \in 1 .. m /\ list[o - 1].depth < b
                      /\ \A i \in o .. m - 1 : list[i].depth >= b
      <4> SUFFICES ASSUME o # None
                   PROVE  /\ o \in 1 .. m /\ list[o - 1].depth < b
                          /\ \A i \in o .. m - 1 : list[i].depth >= b
        OBVIOUS
      <4>1. /\ o \in 1 .. nlocal /\ list[o - 1].depth < b
            /\ \A i \in o .. nlocal - 1 : list[i].depth >= b
        BY <3>2, <3>3 DEF Above
      <4>2. o - 1 \in 0 .. nlocal - 1 /\ list[o - 1].depth \in Nat
        BY <1>3, <4>1
      <4>3. o - 1 < m
        BY <1>2, <1>3, <3>1, <4>1, <4>2
      <4>4. o \in 1 .. m /\ o .. m - 1 \subseteq o .. nlocal - 1
        BY <1>3, <4>1, <4>3
      <4> QED BY <4>1, <4>4
    <3>6. Above(b)'
      BY <1>1, <1>2, <3>4, <3>5 DEF Above
    <3>7. Even(b)'
      <4>1. CASE nlocal - m > 1
        BY <2>4, <4>1 DEF Even
      <4>2. CASE nlocal - m <= 1
        <5>1. open'[b].count = open[b].count /\ count' = count - (nlocal - m)
          BY <1>2, <2>4, <4>2
        <5>2. PICK c : c = open[b].count
          OBVIOUS
        <5>3. /\ o \in Int /\ c \in Int
              /\ c # None => o # None /\ count = c + (nlocal - o)
          BY <3>1, <3>2, <3>3, <5>2, OpenIs DEF Even
        <5>4. c # None => o # None /\ count' = c + (m - o)
          BY <1>3, <5>1, <5>3
        <5> QED BY <1>1, <3>4, <5>1, <5>2, <5>4 DEF Even
      <4> QED BY <1>3, <4>1, <4>2
    <3> QED BY <3>6, <3>7
  <2>6. list'[nlocal' - 1].depth <= scope'
    <3>1. m - 1 \in 0 .. nlocal - 1
      BY <1>3
    <3>2. list[m - 1].depth \in Nat
      BY <1>3, <3>1
    <3> QED BY <1>1, <1>2, <1>3, <3>2
  <2> QED BY <1>2, <2>4, <2>5, <2>6 DEF Opened
<1> QED BY <1>5, <1>6, <1>7, <1>8 DEF BlocksInv

LEMMA DeclareBlocks ==
    ASSUME ScopesInv, BlocksInv, NEW n \in Names, NEW v \in Literals,
           DeclareLocal(n, v) \/ DeclareGlobal(n, v) \/ Assign(n, v)
    PROVE  BlocksInv'
<1>1. CASE DeclareLocal(n, v)
  <2>1. /\ scope > 0 /\ AddLocal(n) /\ Bind(n, v)
        /\ scope' = scope /\ open' = open /\ count' = count + 1
    BY <1>1 DEF DeclareLocal, SetLocal
  <2> QED BY <2>1, AddBlocks
<1>2. CASE DeclareGlobal(n, v)
  <2> DEFINE d == [name |-> n, scope |-> 0, val |-> v]
             e == Len(env) + 1
  <2>1. /\ scope = 0 /\ env' = Append(env, d)
        /\ UNCHANGED <<list, nlocal, scope, open>>
    BY <1>2 DEF DeclareGlobal, Bind
  <2>2. d.scope = 0
    OBVIOUS
  <2> HIDE DEF d
  <2>3. /\ Len(env') = e /\ env'[e] = d /\ e \in Nat /\ Len(env) \in Nat
        /\ \A k \in 1 .. Len(env) : env'[k] = env[k] /\ env[k].scope \in Nat
        /\ \A k \in 1 .. e : k = e \/ k \in 1 .. Len(env)
    BY <2>1, BlockTypes
  <2>4. Recorded'
    <3> SUFFICES ASSUME NEW k \in 1 .. e, env'[k].scope > 0
                 PROVE  \E i \in 1 .. nlocal - 1 : RecordOf(k, i)'
      BY <2>1, <2>3 DEF Recorded
    <3>1. k \in 1 .. Len(env)
      BY <2>2, <2>3
    <3>2. PICK i \in 1 .. nlocal - 1 : RecordOf(k, i)
      BY <2>3, <3>1 DEF BlocksInv, Recorded
    <3>3. RecordOf(k, i)'
      BY <2>1, <2>3, <3>1, <3>2 DEF RecordOf
    <3> QED BY <3>3
  <2>5. \A k \in 1 .. e : env'[k].scope = 0
    BY <2>1, <2>2, <2>3 DEF BlocksInv, Sorted
  <2>6. Sorted'
    BY <2>1, <2>3, <2>5 DEF Sorted
  <2>7. Owned'
    <3>1. \A i \in 1 .. nlocal - 1 : Free(i)' => Free(i)
      BY <2>1 DEF Free
    <3>2. \A i \in 1 .. nlocal - 1 : Owner(i) => Owner(i)'
      <4> SUFFICES ASSUME NEW i \in 1 .. nlocal - 1, Owner(i) PROVE Owner(i)'
        OBVIOUS
      <4>1. PICK k \in 1 .. Len(env) :
               env[k].name = list[i].name /\ env[k].scope = list[i].depth
        BY DEF Owner
      <4>2. k \in 1 .. Len(env')
        BY <2>3
      <4> QED BY <2>1, <2>3, <4>1, <4>2 DEF Owner
    <3> QED BY <2>1, <3>1, <3>2 DEF BlocksInv, Owned
  <2>8. Opened'
    BY <2>1 DEF BlocksInv, Opened
  <2> QED BY <2>4, <2>6, <2>7, <2>8 DEF BlocksInv
<1>3. CASE Assign(n, v)
  <2>1. UNCHANGED <<list, nlocal, scope>>
    BY <1>3 DEF Assign
  <2>2. (open' = open /\ count' = count) \/ open' = Uneven(open)
    BY <1>3 DEF Assign, SetGlobal
  <2>3. PICK m : m = Max(Bindings(n))
    OBVIOUS
  <2>4. env' = [env EXCEPT ![m].val = v] /\ m \in 1 .. Len(env)
    BY <1>3, <2>3, BindingFacts DEF Assign
  <2>5. env \in Seq(Declarations) /\ env[m] \in Declarations
    BY <2>4, BlockTypes
  <2>6. /\ Len(env') = Len(env)
        /\ \A k \in 1 .. Len(env) : /\ env'[k].name = env[k].name
                                    /\ env'[k].scope = env[k].scope
    BY <2>4, <2>5 DEF Declarations
  <2> QED BY <2>1, <2>2, <2>6, ValuesBlocks
<1> QED BY <1>1, <1>2, <1>3

LEMMA StepBlocks == ScopesInv /\ BlocksInv /\ [Next]_vars => BlocksInv'
<1> SUFFICES ASSUME ScopesInv, BlocksInv, [Next]_vars PROVE BlocksInv'
  OBVIOUS
<1>1. CASE Begin
  BY <1>1, BeginBlocks
<1>2. CASE End
  BY <1>2, EndBlocks
<1>3. ASSUME NEW n \in Names, NEW v \in Literals,
             DeclareLocal(n, v) \/ DeclareGlobal(n, v) \/ Assign(n, v)
      PROVE  BlocksInv'
  BY <1>3, DeclareBlocks
<1>4. ASSUME NEW n \in Names, DeclareBare(n)
      PROVE  BlocksInv'
  <2>1. /\ scope > 0 /\ AddLocal(n) /\ Bind(n, Nil)
        /\ scope' = scope /\ open' = open /\ count' = count + 1
    BY <1>4 DEF DeclareBare, Leave
  <2> QED BY <2>1, AddBlocks
<1>5. CASE DeclareNothing
  <2>1. /\ scope = 0 /\ UNCHANGED <<list, nlocal, scope, env, open>>
    BY <1>5 DEF DeclareNothing
  <2> QED BY <2>1, ValuesBlocks
<1>6. ASSUME NEW v \in Literals, Pout(v) \/ Statement(v)
      PROVE  BlocksInv'
  <2>1. /\ UNCHANGED <<list, nlocal, scope, env>>
        /\ (open' = open /\ count' = count) \/ open' = Uneven(open)
    BY <1>6 DEF Pout, Statement
  <2> QED BY <2>1, ValuesBlocks
<1>7. CASE Function
  BY <1>7, FunctionBlocks
<1>8. CASE UNCHANGED vars
  <2>1. UNCHANGED <<list, nlocal, scope, env, open, count>>
    BY <1>8 DEF vars, code, state
  <2> QED BY <2>1, ValuesBlocks
<1> QED BY <1>1, <1>2, <1>3, <1>4, <1>5, <1>6, <1>7, <1>8, Zenon DEF Next

THEOREM BlocksInvariant == Spec => []BlocksInv
<1> QED BY InitBlocks, StepBlocks, ScopesInvariant, PTL DEF Spec

(* For every script, functions and errors included: declare_var reports    *)
(* every duplicate of a block, and what it reports wrongly it reports by   *)
(* way of the record that init_compiler took for a function.               *)
THEOREM DuplicatesReportedAlways == Spec => []DuplicatesReported
<1>1. ScopesInv /\ BlocksInv => DuplicatesReported
  <2> SUFFICES ASSUME ScopesInv, BlocksInv, scope > 0, NEW n \in Names
               PROVE  /\ DeclaredHere(n) => Duplicate(n)
                      /\ Duplicate(n) => DeclaredHere(n) \/ UnderFunction(n)
    BY DEF DuplicatesReported
  <2>1. /\ nlocal \in Nat /\ nlocal > 0 /\ scope \in Nat
        /\ list[0].name # n
        /\ \A i \in 0 .. nlocal - 1 : list[i].depth \in Nat
    BY BlockTypes, ScopesAssumption
  <2>2. ASSUME DeclaredHere(n)  PROVE Duplicate(n)
    <3>1. PICK k \in 1 .. Len(env) : env[k].name = n /\ env[k].scope = scope
      BY <2>2 DEF DeclaredHere
    <3>2. PICK i \in 1 .. nlocal - 1 : RecordOf(k, i)
      BY <3>1 DEF BlocksInv, Recorded
    <3>3. ASSUME NEW j \in i .. nlocal - 1  PROVE ~ Outer(j)
      <4>1. list[j].depth = 0 \/ list[j].depth >= scope
        BY <3>1, <3>2 DEF RecordOf
      <4>2. list[j].depth \in Nat
        BY <2>1
      <4> QED BY <2>1, <4>1, <4>2 DEF Outer
    <3>4. i \in 0 .. nlocal - 1 /\ list[i].name = n
      BY <2>1, <3>1, <3>2 DEF RecordOf
    <3> QED BY <3>3, <3>4 DEF Duplicate
  <2>3. ASSUME Duplicate(n), ~ UnderFunction(n)  PROVE DeclaredHere(n)
    <3>1. PICK i \in 0 .. nlocal - 1 :
             list[i].name = n /\ ~ \E j \in i .. nlocal - 1 : Outer(j)
      BY <2>3 DEF Duplicate
    <3>2. i \in 1 .. nlocal - 1 /\ i \in i .. nlocal - 1
      BY <2>1, <3>1
    <3>3. \A j \in i .. nlocal - 1 : list[j].depth # 0
      BY <2>3, <3>1, <3>2 DEF UnderFunction
    <3>4. Free(i)
      BY <3>3 DEF Free
    <3>5. list[i].depth <= scope /\ Owner(i)
      BY <3>2, <3>4 DEF BlocksInv, Owned
    <3>6. list[i].depth = scope
      BY <2>1, <3>1, <3>2, <3>3, <3>5 DEF Outer
    <3> QED BY <3>1, <3>5, <3>6 DEF Owner, DeclaredHere
  <2> QED BY <2>2, <2>3
<1> QED BY <1>1, ScopesInvariant, BlocksInvariant, PTL

(* For every nesting of blocks: end_scope takes the list back to what the  *)
(* block found, unless a function's record came into it, and the stack too *)
(* where it pops a single element and nothing else was left.               *)
THEOREM BlocksRestoreAlways == Spec => BlocksRestore
<1> DEFINE found == open[Len(open)]
           Restored == /\ found.nlocal # None => nlocal' = found.nlocal
                       /\ found.count # None /\ nlocal - nlocal' <= 1
                             => count' = found.count
<1>1. ScopesInv /\ BlocksInv /\ [Next]_vars => [scope' < scope => Restored]_vars
  <2> SUFFICES ASSUME ScopesInv, BlocksInv, Next, scope' < scope
               PROVE  Restored
    BY Zenon
  <2>1. scope \in Nat
    BY BlockTypes
  <2>2. End
    <3>1. ~ (scope' = scope) /\ ~ (scope' = scope + 1)
      BY <2>1
    <3> QED BY <3>1, Zenon DEF Next, Begin, DeclareLocal, DeclareGlobal,
            Assign, DeclareBare, DeclareNothing, Pout, Statement, Function
  <2>3. /\ scope > 0 /\ nlocal' \in 1 .. nlocal
        /\ list[nlocal' - 1].depth < scope
        /\ \A i \in 0 .. nlocal - 1 : list[i].depth < scope => i < nlocal'
        /\ nlocal - nlocal' <= 1 => count' = count - (nlocal - nlocal')
    BY <2>2, EndFacts
  <2>4. /\ Len(open) = scope /\ Above(scope) /\ Even(scope)
        /\ open \in Seq(Entries)
    BY <2>1, <2>3 DEF BlocksInv, Opened
  <2>5. found = open[scope] /\ found.nlocal \in Int /\ found.count \in Int
    <3>1. scope \in 1 .. scope
      BY <2>1, <2>3
    <3> QED BY <2>4, <3>1, OpenIs
  <2> HIDE DEF found
  <2>6. /\ found.nlocal # None =>
              /\ found.nlocal \in 1 .. nlocal
              /\ list[found.nlocal - 1].depth < scope
              /\ \A i \in found.nlocal .. nlocal - 1 : list[i].depth >= scope
        /\ found.count # None =>
              /\ found.nlocal # None
              /\ count = found.count + (nlocal - found.nlocal)
    BY <2>4, <2>5 DEF Above, Even
  <2>7. PICK o, m : o = found.nlocal /\ m = nlocal'
    OBVIOUS
  <2>8. nlocal \in Nat /\ m \in 1 .. nlocal /\ o \in Int /\ found.count \in Int
        /\ \A i \in 0 .. nlocal - 1 : list[i].depth \in Nat
    BY <2>3, <2>5, <2>7, BlockTypes
  <2>9. ASSUME o # None  PROVE m = o
    <3>0. o \in 1 .. nlocal
      BY <2>6, <2>7, <2>9
    <3>1. o \in 1 .. nlocal /\ o - 1 \in 0 .. nlocal - 1 /\ m - 1 \in 0 .. nlocal - 1
      BY <2>8, <3>0
    <3>2. o - 1 < m
      BY <2>3, <2>6, <2>7, <2>9, <3>1
    <3>3. ~ (m - 1 >= o)
      <4> SUFFICES ASSUME m - 1 >= o PROVE FALSE
        OBVIOUS
      <4>1. m - 1 \in o .. nlocal - 1
        BY <2>8, <3>1
      <4>2. list[m - 1].depth >= scope /\ list[m - 1].depth < scope
        BY <2>3, <2>6, <2>7, <2>9, <4>1
      <4>3. list[m - 1].depth \in Nat
        BY <2>8, <3>1
      <4> QED BY <2>1, <4>2, <4>3
    <3> QED BY <2>8, <3>1, <3>2, <3>3
  <2> QED BY <2>3, <2>6, <2>7, <2>8, <2>9
<1> QED BY <1>1, ScopesInvariant, BlocksInvariant, PTL DEF Spec, BlocksRestore

-----------------------------------------------------------------------------
(* Scanner                                                                 *)

LEMMA MinIs ==
    ASSUME NEW S \in SUBSET Nat, S # {}
    PROVE  Min(S) \in S /\ \A y \in S : Min(S) <= y
<1>1. \E x \in S : \A y \in S : x <= y
  BY NatMin
<1> QED BY <1>1 DEF Min

-----------------------------------------------------------------------------
(* Characters and lines of a source                                        *)

IsSource == src \in Seq(STRING) /\ \A i \in DOMAIN src : src[i] # NUL

(* The NUL lies at Edge and nowhere within the source.                     *)
LEMMA Characters ==
    ASSUME IsSource
    PROVE  /\ Edge \in Nat \ {0} /\ DOMAIN src = 1 .. Edge - 1
           /\ \A i \in Int : At(i) = NUL <=> i \notin 1 .. Edge - 1
<1>1. Len(src) \in Nat /\ DOMAIN src = 1 .. Len(src)
  BY DEF IsSource
<1>2. Edge = Len(src) + 1
  BY DEF Edge
<1> QED BY <1>1, <1>2 DEF IsSource, At

LEMMA NulIsNoMark ==
    NUL \notin {"\n", "/", "*", "\\", ".", "\"", "'", Tick}
BY Zenon DEF NUL, Tick

(* Where a skipping loop stops.                                            *)
LEMMA BehindFacts ==
    ASSUME IsSource, NEW S, NUL \notin S, NEW i \in 1 .. Edge
    PROVE  /\ Behind(S, i) \in i .. Edge /\ At(Behind(S, i)) \notin S
           /\ \A j \in i .. Behind(S, i) - 1 : At(j) \in S
<1> DEFINE T == {j \in i .. Edge : At(j) \notin S}
<1>1. Edge \in Nat /\ T \in SUBSET Nat
  BY Characters
<1>2. Edge \in T
  BY <1>1, Characters
<1>3. Min(T) \in T /\ \A y \in T : Min(T) <= y
  BY <1>1, <1>2, MinIs
<1>4. Behind(S, i) = Min(T)
  BY DEF Behind
<1> QED BY <1>1, <1>3, <1>4

LEMMA NextFacts ==
    ASSUME IsSource, NEW S, NEW i \in 1 .. Edge
    PROVE  /\ Next_(S, i) \in i .. Edge /\ At(Next_(S, i)) \in S \cup {NUL}
           /\ \A j \in i .. Next_(S, i) - 1 : At(j) \notin S \cup {NUL}
<1> DEFINE T == {j \in i .. Edge : At(j) \in S \cup {NUL}}
<1>1. Edge \in Nat /\ T \in SUBSET Nat
  BY Characters
<1>2. Edge \in T
  BY <1>1, Characters
<1>3. Min(T) \in T /\ \A y \in T : Min(T) <= y
  BY <1>1, <1>2, MinIs
<1>4. Next_(S, i) = Min(T)
  BY DEF Next_
<1> QED BY <1>1, <1>3, <1>4

Breaks(i, j) == {k \in i .. j : At(k) = "\n"}

LEMMA LinesNat ==
    ASSUME NEW i \in Int, NEW j \in Int
    PROVE  /\ IsFiniteSet(Breaks(i, j)) /\ Lines(i, j) \in Nat
           /\ Lines(i, j) = Cardinality(Breaks(i, j))
<1>1. IsFiniteSet(i .. j)
  BY FS_Interval
<1>2. Breaks(i, j) \in SUBSET (i .. j)
  BY DEF Breaks
<1>3. IsFiniteSet(Breaks(i, j))
  BY <1>1, <1>2, FS_Subset
<1>4. Cardinality(Breaks(i, j)) \in Nat
  BY <1>3, FS_CardinalityType
<1> QED BY <1>3, <1>4 DEF Lines, Breaks

LEMMA LinesType == \A i, j \in Int : Lines(i, j) \in Nat
BY LinesNat

LEMMA LinesBound ==
    ASSUME NEW i \in Int, NEW j \in Int, i <= j + 1
    PROVE  Lines(i, j) \in Nat /\ Lines(i, j) <= j + 1 - i
<1>1. Breaks(i, j) \subseteq i .. j
  BY DEF Breaks
<1>2. IsFiniteSet(i .. j) /\ Cardinality(i .. j) = j + 1 - i
  BY FS_Interval
<1>3. Cardinality(Breaks(i, j)) <= Cardinality(i .. j)
  BY <1>1, <1>2, FS_Subset
<1> QED BY <1>2, <1>3, LinesNat

LEMMA LinesAdd ==
    ASSUME NEW i \in Int, NEW k \in Int, NEW j \in Int, i <= k, k <= j + 1
    PROVE  Lines(i, j) = Lines(i, k - 1) + Lines(k, j)
<1>1. Breaks(i, j) = Breaks(i, k - 1) \cup Breaks(k, j)
  BY DEF Breaks
<1>2. Breaks(i, k - 1) \cap Breaks(k, j) = {}
  BY DEF Breaks
<1>3. /\ IsFiniteSet(Breaks(i, k - 1)) /\ IsFiniteSet(Breaks(k, j))
      /\ Lines(i, k - 1) = Cardinality(Breaks(i, k - 1))
      /\ Lines(k, j) = Cardinality(Breaks(k, j))
      /\ Lines(i, j) = Cardinality(Breaks(i, j))
      /\ Lines(i, k - 1) \in Nat /\ Lines(k, j) \in Nat
  BY LinesNat
<1>4. Cardinality(Breaks(i, k - 1) \cup Breaks(k, j))
        = Lines(i, k - 1) + Lines(k, j) - Cardinality({})
  BY <1>2, <1>3, FS_Union
<1>5. Cardinality({}) = 0
  BY FS_EmptySet
<1> QED BY <1>1, <1>3, <1>4, <1>5

LEMMA LinesNone ==
    ASSUME NEW i \in Int, NEW j \in Int
    PROVE  Lines(i, j) = 0 <=> \A k \in i .. j : At(k) # "\n"
<1>1. Breaks(i, j) = {} <=> \A k \in i .. j : At(k) # "\n"
  BY DEF Breaks
<1> QED BY <1>1, LinesNat, FS_EmptySet

LEMMA LinesOne ==
    ASSUME NEW i \in Int
    PROVE  Lines(i, i) = BreakAt(i)
<1>1. CASE At(i) = "\n"
  <2>1. Breaks(i, i) = {i}
    BY <1>1 DEF Breaks
  <2>2. Cardinality({i}) = 1
    BY FS_Singleton
  <2> QED BY <1>1, <2>1, <2>2, LinesNat DEF BreakAt
<1>2. CASE At(i) # "\n"
  BY <1>2, LinesNone DEF BreakAt
<1> QED BY <1>1, <1>2

-----------------------------------------------------------------------------
(* Strings                                                                 *)

LEMMA CappedFacts ==
    ASSUME IsSource, NEW i \in Int, i >= 0
    PROVE  /\ Capped(i) = IF i <= Edge + 1 THEN i ELSE Edge + 1
           /\ Capped(i) \in Nat /\ Capped(i) <= Edge + 1 /\ Capped(i) <= i
<1>1. Edge \in Nat
  BY Characters
<1>2. Min({i, Edge + 1}) \in {i, Edge + 1} /\ Min({i, Edge + 1}) <= i
      /\ Min({i, Edge + 1}) <= Edge + 1
  BY <1>1, MinOfTwo
<1> QED BY <1>1, <1>2 DEF Capped

(* The functions that InString and InBlock compute, from position b on.    *)
StringFrom(q, b, f) ==
    f = [i \in b .. Edge + 1 |->
          IF At(i) \in {q, NUL} THEN [at |-> i, nl |-> 0]
          ELSE IF At(i) # "\\" THEN f[i + 1]
          ELSE [f[Capped(i + 2)] EXCEPT
                   !.nl = @ + (IF At(i + 1) = "n" THEN 1 ELSE 0)]]

LEMMA StringFromExists ==
    ASSUME IsSource, NEW q, NEW b \in 1 .. Edge + 1
    PROVE  \E f : StringFrom(q, b, f)
<1> DEFINE P(k) == \E f : StringFrom(q, k, f)
<1>0. Edge \in Nat
  BY Characters
<1>1. P(Edge + 1)
  <2>1. At(Edge + 1) = NUL
    BY <1>0, Characters
  <2>2. StringFrom(q, Edge + 1, [i \in Edge + 1 .. Edge + 1 |->
                                    [at |-> i, nl |-> 0]])
    BY <1>0, <2>1 DEF StringFrom
  <2> QED BY <2>2
<1>2. ASSUME NEW k \in 1 .. Edge, P(k + 1) PROVE P(k)
  <2>1. PICK f : StringFrom(q, k + 1, f)
    BY <1>2
  <2> DEFINE new == IF At(k) \in {q, NUL} THEN [at |-> k, nl |-> 0]
                    ELSE IF At(k) # "\\" THEN f[k + 1]
                    ELSE [f[Capped(k + 2)] EXCEPT
                             !.nl = @ + (IF At(k + 1) = "n" THEN 1 ELSE 0)]
             g == [i \in k .. Edge + 1 |-> IF i = k THEN new ELSE f[i]]
  <2>2. \A i \in k + 1 .. Edge + 1 : g[i] = f[i] /\ i # k
    BY <1>0
  <2>3. \A i \in k .. Edge : Capped(i + 2) \in i + 1 .. Edge + 1
    <3> SUFFICES ASSUME NEW i \in k .. Edge
                 PROVE  Capped(i + 2) \in i + 1 .. Edge + 1
      OBVIOUS
    <3> QED BY <1>0, CappedFacts
  <2>4. \A i \in k .. Edge + 1 : At(i) \notin {q, NUL} => i \in k .. Edge
    BY <1>0, Characters
  <2>5. \A i \in k .. Edge + 1 :
           g[i] = IF At(i) \in {q, NUL} THEN [at |-> i, nl |-> 0]
                  ELSE IF At(i) # "\\" THEN g[i + 1]
                  ELSE [g[Capped(i + 2)] EXCEPT
                           !.nl = @ + (IF At(i + 1) = "n" THEN 1 ELSE 0)]
    <3> SUFFICES ASSUME NEW i \in k .. Edge + 1
                 PROVE  g[i] = IF At(i) \in {q, NUL} THEN [at |-> i, nl |-> 0]
                               ELSE IF At(i) # "\\" THEN g[i + 1]
                               ELSE [g[Capped(i + 2)] EXCEPT
                                 !.nl = @ + (IF At(i + 1) = "n" THEN 1 ELSE 0)]
      OBVIOUS
    <3>1. At(i) \notin {q, NUL} => g[i + 1] = f[i + 1]
                                   /\ g[Capped(i + 2)] = f[Capped(i + 2)]
      <4> SUFFICES ASSUME i \in k .. Edge
                   PROVE  g[i + 1] = f[i + 1]
                          /\ g[Capped(i + 2)] = f[Capped(i + 2)]
        BY <2>4
      <4>1. i + 1 \in k + 1 .. Edge + 1 /\ Capped(i + 2) \in k + 1 .. Edge + 1
        BY <1>0, <2>3
      <4> QED BY <2>2, <4>1
    <3>2. CASE i = k
      <4>1. g[i] = new
        BY <1>0, <3>2
      <4> HIDE DEF g
      <4> QED BY <3>1, <3>2, <4>1
    <3>3. CASE i # k
      <4>1. g[i] = f[i] /\ i \in k + 1 .. Edge + 1
        BY <1>0, <2>2, <3>3
      <4>2. f[i] = IF At(i) \in {q, NUL} THEN [at |-> i, nl |-> 0]
                   ELSE IF At(i) # "\\" THEN f[i + 1]
                   ELSE [f[Capped(i + 2)] EXCEPT
                            !.nl = @ + (IF At(i + 1) = "n" THEN 1 ELSE 0)]
        BY <2>1, <4>1 DEF StringFrom
      <4> HIDE DEF g
      <4> QED BY <3>1, <4>1, <4>2
    <3> QED BY <3>2, <3>3
  <2>6. g = [i \in k .. Edge + 1 |-> g[i]]
    OBVIOUS
  <2> HIDE DEF g
  <2>7. StringFrom(q, k, g)
    BY <2>5, <2>6 DEF StringFrom
  <2> QED BY <2>7
<1> HIDE DEF P
<1>3. PICK S : S = {k \in b .. Edge + 1 : P(k)}
  OBVIOUS
<1>4. PICK m \in S : \A y \in S : m <= y
  <2>1. S \in SUBSET Nat /\ Edge + 1 \in S
    BY <1>0, <1>1, <1>3
  <2> QED BY <2>1, NatMin
<1>5. m = b
  <2> SUFFICES ASSUME m # b PROVE FALSE
    OBVIOUS
  <2>1. m - 1 \in 1 .. Edge /\ m - 1 >= b /\ (m - 1) + 1 = m
    BY <1>0, <1>3, <1>4
  <2>2. P(m)
    BY <1>3, <1>4
  <2>3. P(m - 1)
    BY <1>2, <2>1, <2>2
  <2> QED BY <1>0, <1>3, <1>4, <2>1, <2>3
<1> QED BY <1>3, <1>4, <1>5 DEF P

LEMMA InStringUnfolds ==
    ASSUME NEW q, NEW b, NEW g, StringFrom(q, b, g)
    PROVE  \E f : StringFrom(q, b, f) /\ InString(q, b) = f[b]
<1> DEFINE f == CHOOSE h : StringFrom(q, b, h)
<1>1. StringFrom(q, b, f)
  BY Zenon
<1>2. InString(q, b) = f[b]
  BY Zenon DEF InString, StringFrom
<1> QED BY <1>1, <1>2, Zenon

(* Where a string ends, and that only a backslash hides what lies behind.  *)
StringResult(q, i, r) ==
    /\ r = [at |-> r.at, nl |-> r.nl]
    /\ r.at \in i .. Edge + 1 /\ r.nl \in Nat /\ At(r.at) \in {q, NUL}
    /\ i + r.nl <= r.at
    /\ r.at = Edge + 1 /\ i <= Edge => i < Edge /\ At(Edge - 1) = "\\"
    /\ (\A j \in i .. Edge - 1 : At(j) # "\\") => r.nl = 0

LEMMA StringFacts ==
    ASSUME IsSource, NEW q, NEW b \in 1 .. Edge + 1, NEW f,
           StringFrom(q, b, f)
    PROVE  \A i \in b .. Edge + 1 : StringResult(q, i, f[i])
<1>0. Edge \in Nat
  BY Characters
<1>1. PICK S : S = {i \in b .. Edge + 1 : ~ StringResult(q, i, f[i])}
  OBVIOUS
<1> SUFFICES ASSUME S # {} PROVE FALSE
  BY <1>1
<1>2. PICK i \in S : \A j \in S : j <= i
  <2>1. S \in SUBSET Int /\ \A y \in S : y <= Edge + 1
    BY <1>0, <1>1
  <2> QED BY <1>0, <2>1, BoundedMax
<1>3. i \in b .. Edge + 1 /\ ~ StringResult(q, i, f[i])
  BY <1>1, <1>2
<1>4. \A j \in i + 1 .. Edge + 1 : StringResult(q, j, f[j])
  BY <1>0, <1>1, <1>2, <1>3
<1>5. f[i] = IF At(i) \in {q, NUL} THEN [at |-> i, nl |-> 0]
             ELSE IF At(i) # "\\" THEN f[i + 1]
             ELSE [f[Capped(i + 2)] EXCEPT
                      !.nl = @ + (IF At(i + 1) = "n" THEN 1 ELSE 0)]
  BY <1>3 DEF StringFrom
<1>6. CASE At(i) \in {q, NUL}
  <2>1. f[i].at = i /\ f[i].nl = 0 /\ f[i] = [at |-> i, nl |-> 0]
    BY <1>5, <1>6
  <2>2. i = Edge + 1 => ~ (i <= Edge)
    BY <1>0
  <2>3. StringResult(q, i, f[i])
    BY <1>0, <1>3, <1>6, <2>1, <2>2 DEF StringResult
  <2> QED BY <1>3, <2>3
<1>7. CASE At(i) \notin {q, NUL} /\ At(i) # "\\"
  <2>1. f[i] = f[i + 1] /\ i \in 1 .. Edge - 1
    BY <1>0, <1>3, <1>5, <1>7, Characters
  <2>2. StringResult(q, i + 1, f[i + 1])
    BY <1>0, <1>4, <2>1
  <2>3. StringResult(q, i, f[i])
    BY <1>0, <2>1, <2>2 DEF StringResult
  <2> QED BY <1>3, <2>3
<1>8. CASE At(i) \notin {q, NUL} /\ At(i) = "\\"
  <2>1. i \in 1 .. Edge - 1
    BY <1>0, <1>3, <1>8, Characters
  <2>2. PICK k : k = Capped(i + 2)
    OBVIOUS
  <2>3. k \in i + 1 .. Edge + 1 /\ (k = Edge + 1 => i = Edge - 1)
    BY <1>0, <2>1, <2>2, CappedFacts
  <2>4. StringResult(q, k, f[k])
    BY <1>4, <2>3
  <2>5. f[i] = [f[k] EXCEPT !.nl = @ + (IF At(i + 1) = "n" THEN 1 ELSE 0)]
    BY <1>5, <1>8, <2>2
  <2>6. f[k] = [at |-> f[k].at, nl |-> f[k].nl]
    BY <2>4 DEF StringResult
  <2>7. /\ f[i].at = f[k].at /\ f[i] = [at |-> f[i].at, nl |-> f[i].nl]
        /\ f[i].nl = f[k].nl + (IF At(i + 1) = "n" THEN 1 ELSE 0)
    BY <2>5, <2>6
  <2>8. f[i].nl \in Nat
    BY <2>4, <2>7 DEF StringResult
  <2>9. f[i].at = Edge + 1 => i < Edge /\ At(Edge - 1) = "\\"
    BY <1>0, <1>8, <2>1, <2>3, <2>4, <2>7 DEF StringResult
  <2>10. /\ f[i].at \in i .. Edge + 1 /\ At(f[i].at) \in {q, NUL}
         /\ i + f[i].nl <= f[i].at
    BY <1>0, <2>1, <2>3, <2>4, <2>7 DEF StringResult
  <2>11. ~ \A j \in i .. Edge - 1 : At(j) # "\\"
    BY <1>8, <2>1
  <2>12. StringResult(q, i, f[i])
    BY <2>7, <2>8, <2>9, <2>10, <2>11 DEF StringResult
  <2> QED BY <1>3, <2>12
<1> QED BY <1>6, <1>7, <1>8

LEMMA InStringFacts ==
    ASSUME IsSource, NEW q, NEW b \in 1 .. Edge + 1
    PROVE  StringResult(q, b, InString(q, b))
<1>1. PICK g : StringFrom(q, b, g)
  BY StringFromExists
<1>2. PICK f : StringFrom(q, b, f) /\ InString(q, b) = f[b]
  BY <1>1, InStringUnfolds
<1>3. b \in b .. Edge + 1
  BY Characters
<1> QED BY <1>2, <1>3, StringFacts

-----------------------------------------------------------------------------
(* Comments                                                                *)

(* Where a comment ends: behind the position it is looked for from.        *)
BlockEnd(i, r) ==
    /\ r = [at |-> r.at, nl |-> r.nl]
    /\ r.at \in i .. Edge + 1 /\ r.nl \in Nat /\ (i <= Edge => r.at > i)
    /\ i + r.nl <= r.at

BlockStep(i, f) ==
    IF i >= Edge THEN [at |-> Capped(i + 2), nl |-> 0]
    ELSE IF Opens(i)
    THEN LET inner == f[i + 1]
             rest  == f[Capped(inner.at + 1)]
         IN  [at |-> rest.at, nl |-> inner.nl + rest.nl]
    ELSE IF Closes(i) THEN [at |-> i + 2, nl |-> 0]
    ELSE [f[i + 1] EXCEPT !.nl = @ + (IF At(i) = "\n" THEN 1 ELSE 0)]

BlockFrom(b, f) == f = [i \in b .. Edge + 1 |-> BlockStep(i, f)]

(* One step, given where the comments that begin further on end.           *)
LEMMA BlockStepEnds ==
    ASSUME IsSource, NEW i \in 1 .. Edge + 1, NEW f,
           \A j \in i + 1 .. Edge + 1 : BlockEnd(j, f[j])
    PROVE  /\ BlockEnd(i, BlockStep(i, f))
           /\ i < Edge => Capped(f[i + 1].at + 1) \in i + 1 .. Edge + 1
<1>0. Edge \in Nat
  BY Characters
<1>1. CASE i >= Edge
  <2>1. Capped(i + 2) = Edge + 1
    BY <1>0, <1>1, CappedFacts
  <2>2. BlockStep(i, f) = [at |-> Edge + 1, nl |-> 0]
    BY <1>1, <2>1 DEF BlockStep
  <2> QED BY <1>0, <1>1, <2>2 DEF BlockEnd
<1>2. CASE i < Edge
  <2>1. /\ f[i + 1].at \in i + 1 .. Edge + 1 /\ f[i + 1].nl \in Nat
        /\ f[i + 1] = [at |-> f[i + 1].at, nl |-> f[i + 1].nl]
        /\ f[i + 1].at > i + 1
    BY <1>0, <1>2 DEF BlockEnd
  <2>2. PICK k : k = Capped(f[i + 1].at + 1)
    OBVIOUS
  <2>3. k \in i + 1 .. Edge + 1
    BY <1>0, <1>2, <2>1, <2>2, CappedFacts
  <2>4. f[k].at \in k .. Edge + 1 /\ f[k].nl \in Nat /\ k + f[k].nl <= f[k].at
    BY <2>3 DEF BlockEnd
  <2>8. /\ i + 1 + f[i + 1].nl <= f[i + 1].at
        /\ f[i + 1].at <= k
    BY <1>0, <1>2, <2>1, <2>2, CappedFacts DEF BlockEnd
  <2>5. CASE Opens(i)
    <3>1. BlockStep(i, f) = [at |-> f[k].at, nl |-> f[i + 1].nl + f[k].nl]
      BY <1>0, <1>2, <2>2, <2>5 DEF BlockStep
    <3>2. f[k].at \in i .. Edge + 1 /\ f[k].at > i
      BY <1>0, <2>3, <2>4
    <3>3. /\ f[i + 1].nl + f[k].nl \in Nat
          /\ i + (f[i + 1].nl + f[k].nl) <= f[k].at
      BY <2>1, <2>3, <2>4, <2>8
    <3>4. BlockEnd(i, BlockStep(i, f))
      BY <3>1, <3>2, <3>3 DEF BlockEnd
    <3> QED BY <2>2, <2>3, <3>4
  <2>6. CASE ~ Opens(i) /\ Closes(i)
    <3>1. BlockStep(i, f) = [at |-> i + 2, nl |-> 0]
      BY <1>0, <1>2, <2>6 DEF BlockStep
    <3> QED BY <1>0, <1>2, <2>2, <2>3, <3>1 DEF BlockEnd
  <2>7. CASE ~ Opens(i) /\ ~ Closes(i)
    <3>1. BlockStep(i, f) =
             [f[i + 1] EXCEPT !.nl = @ + (IF At(i) = "\n" THEN 1 ELSE 0)]
      BY <1>0, <1>2, <2>7 DEF BlockStep
    <3>2. BlockStep(i, f) =
             [at |-> f[i + 1].at,
              nl |-> f[i + 1].nl + (IF At(i) = "\n" THEN 1 ELSE 0)]
      BY <2>1, <3>1
    <3> QED BY <1>0, <1>2, <2>1, <2>2, <2>3, <2>8, <3>2 DEF BlockEnd
  <2> QED BY <2>5, <2>6, <2>7
<1> QED BY <1>0, <1>1, <1>2

LEMMA BlockFromExists ==
    ASSUME IsSource, NEW b \in 1 .. Edge + 1
    PROVE  \E f : /\ BlockFrom(b, f)
                  /\ \A i \in b .. Edge + 1 : BlockEnd(i, f[i])
<1> DEFINE P(k) == \E f : /\ BlockFrom(k, f)
                          /\ \A i \in k .. Edge + 1 : BlockEnd(i, f[i])
<1>0. Edge \in Nat
  BY Characters
<1>1. P(Edge + 1)
  <2>1. PICK r : r = [at |-> Capped(Edge + 3), nl |-> 0]
    OBVIOUS
  <2>2. PICK g : g = [i \in Edge + 1 .. Edge + 1 |-> r]
    OBVIOUS
  <2>3. \A i \in Edge + 1 .. Edge + 1 : i = Edge + 1 /\ g[i] = r
                                        /\ i >= Edge /\ i + 2 = Edge + 3
    BY <1>0, <2>2
  <2>4. BlockFrom(Edge + 1, g)
    <3>1. BlockStep(Edge + 1, g) = r
      BY <1>0, <2>1 DEF BlockStep
    <3>2. \A i \in Edge + 1 .. Edge + 1 : BlockStep(i, g) = r
      BY <2>3, <3>1
    <3> QED BY <2>2, <3>2 DEF BlockFrom
  <2>5. Capped(Edge + 3) = Edge + 1
    BY <1>0, CappedFacts
  <2>6. BlockEnd(Edge + 1, r)
    BY <1>0, <2>1, <2>5 DEF BlockEnd
  <2> QED BY <2>3, <2>4, <2>6
<1>2. ASSUME NEW k \in 1 .. Edge, P(k + 1) PROVE P(k)
  <2>1. PICK f : /\ BlockFrom(k + 1, f)
                 /\ \A i \in k + 1 .. Edge + 1 : BlockEnd(i, f[i])
    BY <1>2
  <2>2. PICK new : new = BlockStep(k, f)
    OBVIOUS
  <2>3. PICK g : g = [i \in k .. Edge + 1 |-> IF i = k THEN new ELSE f[i]]
    OBVIOUS
  <2>4. (\A i \in k + 1 .. Edge + 1 : g[i] = f[i]) /\ g[k] = new
        /\ g = [i \in k .. Edge + 1 |-> g[i]]
    BY <1>0, <2>3
  <2>5. BlockEnd(k, new)
    BY <1>0, <2>1, <2>2, BlockStepEnds
  <2>6. \A i \in k .. Edge + 1 : BlockEnd(i, g[i])
    <3> SUFFICES ASSUME NEW i \in k .. Edge + 1 PROVE BlockEnd(i, g[i])
      OBVIOUS
    <3>1. i = k \/ i \in k + 1 .. Edge + 1
      BY <1>0
    <3> QED BY <2>1, <2>4, <2>5, <3>1
  <2>7. \A i \in k .. Edge + 1 : BlockStep(i, g) = BlockStep(i, f)
    <3> SUFFICES ASSUME NEW i \in k .. Edge + 1
                 PROVE  BlockStep(i, g) = BlockStep(i, f)
      OBVIOUS
    <3>1. CASE i >= Edge
      BY <3>1 DEF BlockStep
    <3>2. CASE i < Edge
      <4>1. i + 1 \in k + 1 .. Edge + 1
        BY <1>0, <3>2
      <4>2. \A j \in i + 1 .. Edge + 1 : BlockEnd(j, f[j])
        BY <1>0, <2>1
      <4>3. Capped(f[i + 1].at + 1) \in k + 1 .. Edge + 1
        <5>1. i \in 1 .. Edge + 1
          BY <1>0
        <5>2. Capped(f[i + 1].at + 1) \in i + 1 .. Edge + 1
          BY <3>2, <4>2, <5>1, BlockStepEnds
        <5> QED BY <1>0, <5>2
      <4>4. g[i + 1] = f[i + 1]
            /\ g[Capped(f[i + 1].at + 1)] = f[Capped(f[i + 1].at + 1)]
        BY <2>4, <4>1, <4>3
      <4>5. PICK u : u = f[i + 1]
        OBVIOUS
      <4>6. PICK v : v = f[Capped(u.at + 1)]
        OBVIOUS
      <4>7. g[i + 1] = u /\ g[Capped(u.at + 1)] = v
        BY <4>4, <4>5, <4>6
      <4>8. CASE Opens(i)
        <5>1. BlockStep(i, f) = [at |-> v.at, nl |-> u.nl + v.nl]
          BY <1>0, <3>2, <4>5, <4>6, <4>8 DEF BlockStep
        <5>2. BlockStep(i, g) = [at |-> v.at, nl |-> u.nl + v.nl]
          BY <1>0, <3>2, <4>7, <4>8 DEF BlockStep
        <5> QED BY <5>1, <5>2
      <4>9. CASE ~ Opens(i)
        <5>1. BlockStep(i, f) =
                 IF Closes(i) THEN [at |-> i + 2, nl |-> 0]
                 ELSE [u EXCEPT !.nl = @ + (IF At(i) = "\n" THEN 1 ELSE 0)]
          BY <1>0, <3>2, <4>5, <4>9 DEF BlockStep
        <5>2. BlockStep(i, g) =
                 IF Closes(i) THEN [at |-> i + 2, nl |-> 0]
                 ELSE [u EXCEPT !.nl = @ + (IF At(i) = "\n" THEN 1 ELSE 0)]
          BY <1>0, <3>2, <4>7, <4>9 DEF BlockStep
        <5> QED BY <5>1, <5>2
      <4> QED BY <4>8, <4>9
    <3> QED BY <1>0, <3>1, <3>2
  <2>8. \A i \in k .. Edge + 1 : g[i] = BlockStep(i, g)
    <3> SUFFICES ASSUME NEW i \in k .. Edge + 1 PROVE g[i] = BlockStep(i, g)
      OBVIOUS
    <3>1. CASE i = k
      BY <2>2, <2>4, <2>7, <3>1
    <3>2. CASE i # k
      <4>1. i \in k + 1 .. Edge + 1
        BY <1>0, <3>2
      <4>2. f[i] = BlockStep(i, f)
        BY <2>1, <4>1 DEF BlockFrom
      <4> QED BY <2>4, <2>7, <4>1, <4>2
    <3> QED BY <3>1, <3>2
  <2>9. BlockFrom(k, g)
    BY <2>4, <2>8 DEF BlockFrom
  <2> QED BY <2>6, <2>9
<1> HIDE DEF P
<1>3. PICK S : S = {k \in b .. Edge + 1 : P(k)}
  OBVIOUS
<1>4. PICK m \in S : \A y \in S : m <= y
  <2>1. S \in SUBSET Nat /\ Edge + 1 \in S
    BY <1>0, <1>1, <1>3
  <2> QED BY <2>1, NatMin
<1>5. m = b
  <2> SUFFICES ASSUME m # b PROVE FALSE
    OBVIOUS
  <2>1. m - 1 \in 1 .. Edge /\ m - 1 >= b /\ (m - 1) + 1 = m
    BY <1>0, <1>3, <1>4
  <2>2. P(m)
    BY <1>3, <1>4
  <2>3. P(m - 1)
    BY <1>2, <2>1, <2>2
  <2> QED BY <1>0, <1>3, <1>4, <2>1, <2>3
<1> QED BY <1>3, <1>4, <1>5 DEF P

LEMMA InBlockUnfolds ==
    ASSUME NEW b, NEW g, BlockFrom(Capped(b), g), Capped(b) = b
    PROVE  \E f : BlockFrom(b, f) /\ InBlock(b) = f[b]
<1>1. PICK f : f = CHOOSE h : BlockFrom(b, h)
  OBVIOUS
<1>2. BlockFrom(b, f)
  BY <1>1, Zenon
<1>3. InBlock(b) = f[Capped(b)]
  BY <1>1, Zenon DEF InBlock, BlockFrom, BlockStep
<1> QED BY <1>2, <1>3, Zenon

(* Without a comment in it, a comment counts its line breaks, and goes on  *)
(* to the end of the source only past no closing mark.                     *)
BlockResult(i, r) ==
    (\A j \in i .. r.at - 2 : ~ Opens(j)) =>
        /\ r.nl = Lines(i, r.at - 1)
        /\ r.at = Edge + 1 => \A j \in i .. Edge - 2 : ~ Closes(j)

LEMMA BlockFacts ==
    ASSUME IsSource, NEW b \in 1 .. Edge + 1, NEW f, BlockFrom(b, f)
    PROVE  \A i \in b .. Edge + 1 : BlockEnd(i, f[i]) /\ BlockResult(i, f[i])
<1> DEFINE Good(i) == BlockEnd(i, f[i]) /\ BlockResult(i, f[i])
<1>0. Edge \in Nat
  BY Characters
<1>1. PICK S : S = {i \in b .. Edge + 1 : ~ Good(i)}
  OBVIOUS
<1> SUFFICES ASSUME S # {} PROVE FALSE
  BY <1>1
<1>2. PICK i \in S : \A j \in S : j <= i
  <2>1. S \in SUBSET Int /\ \A y \in S : y <= Edge + 1
    BY <1>0, <1>1
  <2> QED BY <1>0, <2>1, BoundedMax
<1>3. i \in b .. Edge + 1 /\ ~ Good(i)
  BY <1>1, <1>2
<1>4. \A j \in i + 1 .. Edge + 1 : Good(j)
  BY <1>0, <1>1, <1>2, <1>3
<1>5. f[i] = BlockStep(i, f)
  BY <1>3 DEF BlockFrom
<1>6. BlockEnd(i, f[i])
  BY <1>0, <1>3, <1>4, <1>5, BlockStepEnds
<1>7. CASE i >= Edge
  <2>1. Capped(i + 2) = Edge + 1
    BY <1>0, <1>3, <1>7, CappedFacts
  <2>2. f[i] = [at |-> Edge + 1, nl |-> 0]
    BY <1>5, <1>7, <2>1 DEF BlockStep
  <2>3. \A j \in i .. Edge : At(j) # "\n"
    <3>1. \A j \in i .. Edge : At(j) = NUL
      BY <1>0, <1>3, <1>7, Characters
    <3> QED BY <3>1, NulIsNoMark
  <2>4. Lines(i, Edge) = 0
    BY <1>0, <1>3, <2>3, LinesNone
  <2>5. (Edge + 1) - 1 = Edge /\ \A j \in i .. Edge - 2 : FALSE
    BY <1>0, <1>3, <1>7
  <2>6. BlockResult(i, f[i])
    BY <2>2, <2>4, <2>5 DEF BlockResult
  <2> QED BY <1>3, <1>6, <2>6
<1>8. CASE i < Edge /\ Opens(i)
  <2>1. i \in 1 .. Edge - 1 /\ i + 1 \in 1 .. Edge - 1
    <3>1. At(i + 1) # NUL
      BY <1>8, NulIsNoMark DEF Opens
    <3> QED BY <1>0, <1>3, <1>8, <3>1, Characters
  <2>2. Good(i + 1)
    BY <1>0, <1>4, <2>1
  <2>3. f[i + 1].at \in i + 2 .. Edge + 1
    BY <1>0, <2>1, <2>2 DEF BlockEnd
  <2>4. PICK k : k = Capped(f[i + 1].at + 1)
    OBVIOUS
  <2>5. k \in i + 3 .. Edge + 1 \/ k = Edge + 1
    <3>1. PICK x : x = f[i + 1].at + 1
      OBVIOUS
    <3>2. x \in Int /\ x >= i + 3 /\ x >= 0 /\ k = Capped(x)
      BY <1>0, <2>1, <2>3, <2>4, <3>1
    <3>3. Capped(x) = IF x <= Edge + 1 THEN x ELSE Edge + 1
      BY <3>2, CappedFacts
    <3> QED BY <1>0, <2>1, <3>2, <3>3
  <2>6. k \in i + 3 .. Edge + 1
    BY <1>0, <2>1, <2>5
  <2>7. Good(k)
    BY <1>0, <1>4, <2>1, <2>6
  <2>8. f[i].at = f[k].at
    <3>1. BlockStep(i, f) = [at |-> f[k].at, nl |-> f[i + 1].nl + f[k].nl]
      BY <1>0, <1>8, <2>1, <2>4 DEF BlockStep
    <3> QED BY <1>5, <3>1
  <2>9. f[i].at - 2 >= i /\ f[i].at \in Int
    BY <1>0, <2>1, <2>6, <2>7, <2>8 DEF BlockEnd
  <2>10. ~ \A j \in i .. f[i].at - 2 : ~ Opens(j)
    BY <1>8, <2>1, <2>9
  <2>11. BlockResult(i, f[i])
    BY <2>10 DEF BlockResult
  <2> QED BY <1>3, <1>6, <2>11
<1>9. CASE i < Edge /\ ~ Opens(i) /\ Closes(i)
  <2>1. i \in 1 .. Edge - 1 /\ i + 1 \in 1 .. Edge - 1
    <3>1. At(i + 1) # NUL
      BY <1>9, NulIsNoMark DEF Closes
    <3> QED BY <1>0, <1>3, <1>9, <3>1, Characters
  <2>2. f[i] = [at |-> i + 2, nl |-> 0]
    BY <1>0, <1>5, <1>9, <2>1 DEF BlockStep
  <2>3. \A j \in i .. i + 1 : At(j) # "\n"
    <3>1. \A j \in i .. i + 1 : j = i \/ j = i + 1
      BY <2>1
    <3> QED BY <1>9, <3>1 DEF Closes
  <2>4. Lines(i, i + 1) = 0
    BY <2>1, <2>3, LinesNone
  <2>5. (i + 2) - 1 = i + 1 /\ i + 2 # Edge + 1
    BY <1>0, <2>1
  <2>6. BlockResult(i, f[i])
    BY <2>2, <2>4, <2>5 DEF BlockResult
  <2> QED BY <1>3, <1>6, <2>6
<1>10. CASE i < Edge /\ ~ Opens(i) /\ ~ Closes(i)
  <2>1. i \in 1 .. Edge - 1 /\ i + 1 \in i + 1 .. Edge + 1
    BY <1>0, <1>3, <1>10
  <2>2. Good(i + 1)
    BY <1>4, <2>1
  <2>3. PICK a, n : f[i + 1] = [at |-> a, nl |-> n]
    BY <2>2 DEF BlockEnd
  <2>4. a \in i + 2 .. Edge + 1 /\ n \in Nat
    BY <1>0, <2>1, <2>2, <2>3 DEF BlockEnd
  <2>5. f[i] = [at |-> a, nl |-> n + BreakAt(i)]
    <3>1. f[i] = [f[i + 1] EXCEPT
                     !.nl = @ + (IF At(i) = "\n" THEN 1 ELSE 0)]
      BY <1>0, <1>5, <1>10, <2>1 DEF BlockStep
    <3> QED BY <2>3, <3>1 DEF BreakAt
  <2>6. ASSUME \A j \in i .. a - 2 : ~ Opens(j)
        PROVE  /\ n + BreakAt(i) = Lines(i, a - 1)
               /\ a = Edge + 1 => \A j \in i .. Edge - 2 : ~ Closes(j)
    <3>1. \A j \in i + 1 .. a - 2 : ~ Opens(j)
      BY <2>1, <2>4, <2>6
    <3>2. /\ n = Lines(i + 1, a - 1)
          /\ a = Edge + 1 => \A j \in i + 1 .. Edge - 2 : ~ Closes(j)
      BY <2>2, <2>3, <3>1 DEF BlockResult
    <3>3. Lines(i, a - 1) = Lines(i, (i + 1) - 1) + Lines(i + 1, a - 1)
      BY <2>1, <2>4, LinesAdd
    <3>4. Lines(i, (i + 1) - 1) = BreakAt(i)
      BY <2>1, LinesOne
    <3>5. BreakAt(i) \in Nat
      BY DEF BreakAt
    <3>6. n + BreakAt(i) = Lines(i, a - 1)
      BY <2>4, <3>2, <3>3, <3>4, <3>5
    <3>7. \A j \in i .. Edge - 2 : j = i \/ j \in i + 1 .. Edge - 2
      BY <1>0, <2>1
    <3> QED BY <1>10, <3>2, <3>6, <3>7
  <2>7. BlockResult(i, f[i])
    BY <2>5, <2>6 DEF BlockResult
  <2> QED BY <1>3, <1>6, <2>7
<1> QED BY <1>0, <1>3, <1>7, <1>8, <1>9, <1>10

LEMMA InBlockFacts ==
    ASSUME IsSource, NEW b \in 1 .. Edge
    PROVE  BlockEnd(b, InBlock(b)) /\ BlockResult(b, InBlock(b))
<1>0. Edge \in Nat
  BY Characters
<1>1. Capped(b) = b /\ b \in b .. Edge + 1
  BY <1>0, CappedFacts
<1>2. PICK g : BlockFrom(b, g)
  BY <1>0, BlockFromExists
<1>3. PICK f : BlockFrom(b, f) /\ InBlock(b) = f[b]
  BY <1>1, <1>2, InBlockUnfolds
<1> QED BY <1>0, <1>1, <1>3, BlockFacts

-----------------------------------------------------------------------------
(* Operators                                                               *)

Marks == {"(", ")", "[", "]", "{", "}", ",", ".", ";", ":", "?", "/", "*", "-",
          "+", "%", "&", "|", "!", "=", ">", "<"}

LEMMA MarksAreNoBreaks == \A c \in Marks : c # "\n"
BY Zenon DEF Marks

LEMMA OperatorShape ==
    ASSUME NEW t \in Operators
    PROVE  Len(t) \in 1 .. 3 /\ \A k \in 1 .. Len(t) : t[k] # "\n"
<1>1. \E c, d, e \in Marks : t \in {<<c>>, <<c, d>>, <<c, d, e>>}
  <2>1. CASE \E c \in Marks : t = <<c>>
    BY <2>1, Zenon
  <2>2. CASE \E c, d \in Marks : t = <<c, d>>
    BY <2>2, Zenon
  <2>3. CASE \E c, d, e \in Marks : t = <<c, d, e>>
    BY <2>3, Zenon
  <2>4. "=" \in Marks
    BY Zenon DEF Marks
  <2>5. \/ \E c \in Marks : t = <<c>>
        \/ \E c, d \in Marks : t = <<c, d>>
        \/ \E c, d, e \in Marks : t = <<c, d, e>>
    <3>1. CASE t \in {<<c>> : c \in Marks}
      BY <3>1, Zenon
    <3>2. CASE t \in {<<c, "=">> : c \in {"/", "*", "-", "+", "%", "&", "|",
                                          "!", "=", ">", "<"}}
      <4>1. {"/", "*", "-", "+", "%", "&", "|", "!", "=", ">", "<"} \subseteq Marks
        BY ZenonT(60) DEF Marks
      <4>2. PICK c \in Marks : t = <<c, "=">>
        BY <3>2, <4>1, Zenon
      <4> QED BY <4>2, <2>4, Zenon
    <3>3. CASE t \in {<<c, c>> : c \in {"?", "-", "+", "&", "|"}}
      <4>1. {"?", "-", "+", "&", "|"} \subseteq Marks
        BY ZenonT(60) DEF Marks
      <4>2. PICK c \in Marks : t = <<c, c>>
        BY <3>3, <4>1, Zenon
      <4> QED BY <4>2, Zenon
    <3>4. CASE t \in {<<"-", ">">>, <<"!", "=", "=">>, <<"=", "=", "=">>}
      <4>1. {"-", ">", "!"} \subseteq Marks
        BY ZenonT(60) DEF Marks
      <4> QED BY <3>4, <4>1, <2>4, Zenon
    <3> QED BY <3>1, <3>2, <3>3, <3>4, Zenon DEF Operators, Marks
  <2> QED BY <2>1, <2>2, <2>3, <2>5, Zenon
<1>2. PICK c, d, e \in Marks : t \in {<<c>>, <<c, d>>, <<c, d, e>>}
  BY <1>1, Zenon
<1>3. c # "\n" /\ d # "\n" /\ e # "\n"
  BY MarksAreNoBreaks
<1> QED BY <1>2, <1>3

(* An operator that is found lies within the source, on one line.          *)
LEMMA OperatorFound ==
    ASSUME IsSource, start \in 1 .. Edge, NEW t \in OperatorsHere
    PROVE  /\ Len(t) \in 1 .. 3 /\ start + Len(t) <= Edge
           /\ \A j \in start .. start + Len(t) - 1 : At(j) # "\n"
<1> DEFINE e == start + Len(t) - 1
<1>0. Edge \in Nat /\ Len(src) = Edge - 1 /\ src \in Seq(STRING)
  BY Characters DEF Edge, IsSource
<1>1. Len(t) \in 1 .. 3 /\ \A k \in 1 .. Len(t) : t[k] # "\n"
  BY OperatorShape, Zenon DEF OperatorsHere
<1>2. SubSeq(src, start, Min({e, Len(src)})) = t
  BY DEF OperatorsHere, Text
<1>3. PICK m : m = Min({e, Len(src)})
  OBVIOUS
<1>4. m \in {e, Len(src)} /\ m <= e /\ m <= Len(src) /\ m \in Int
  <2>1. e \in Int /\ Len(src) \in Int
    BY <1>0, <1>1
  <2> QED BY <1>3, <2>1, MinOfTwo
<1>5. /\ Len(SubSeq(src, start, m)) = IF start <= m THEN m - start + 1 ELSE 0
      /\ \A k \in 1 .. m - start + 1 :
            SubSeq(src, start, m)[k] = src[start + k - 1]
  BY <1>0, <1>4, SubSeqProperties
<1>6. m - start + 1 = Len(t)
  <2>1. SubSeq(src, start, m) = t
    BY <1>2, <1>3, Zenon
  <2>2. Len(t) = IF start <= m THEN m - start + 1 ELSE 0
    BY <1>5, <2>1, Zenon
  <2> QED BY <1>0, <1>1, <1>4, <2>2
<1>7. \A j \in start .. e : At(j) # "\n"
  <2> SUFFICES ASSUME NEW j \in start .. e PROVE At(j) # "\n"
    OBVIOUS
  <2>1. j - start + 1 \in 1 .. Len(t) /\ start + (j - start + 1) - 1 = j
    BY <1>1
  <2>2. t[j - start + 1] = src[j]
    BY <1>2, <1>3, <1>5, <1>6, <2>1
  <2>3. At(j) = src[j]
    BY <1>0, <1>1, <1>4, <1>6, Characters DEF At
  <2> QED BY <1>1, <2>1, <2>2, <2>3
<1> QED BY <1>0, <1>1, <1>4, <1>6, <1>7

LEMMA LongestOperator ==
    ASSUME IsSource, start \in 1 .. Edge, OperatorsHere # {}
    PROVE  \E t \in OperatorsHere : Max({Len(u) : u \in OperatorsHere}) = Len(t)
<1> DEFINE S == {Len(u) : u \in OperatorsHere}
<1>1. S \in SUBSET Int /\ S # {} /\ \A y \in S : y <= 3
  <2>1. \A u \in OperatorsHere : Len(u) \in 1 .. 3
    BY OperatorFound
  <2>2. \A y \in S : \E u \in OperatorsHere : y = Len(u)
    BY Zenon
  <2>3. S # {}
    BY Zenon
  <2>4. \A y \in S : y \in 1 .. 3
    BY <2>1, <2>2, Zenon
  <2> HIDE DEF S
  <2>5. \A y \in S : y \in Int /\ y <= 3
    BY <2>4
  <2> QED BY <2>3, <2>5
<1>2. Max(S) \in S
  <2> HIDE DEF S
  <2> QED BY <1>1, MaxIs
<1> QED BY <1>2, Zenon

-----------------------------------------------------------------------------
(* The rows of id_type                                                     *)

RowLetters == {"a", "b", "c", "d", "e", "f", "i", "n", "o", "p", "r", "s", "t",
               "v", "w"}

LEMMA RowFrom == \A k \in 1 .. 40 : Rows[k].from \in RowLetters
BY DEF Rows, Row, Any, RowLetters

LEMMA Unwanted == Wanted = (1 .. 40) \ {8, 14}
BY DEF Rows, Row, Any, Wanted

(* The rows of a letter lie together.                                      *)
RowRanges ==
    {<<1, 2>>, <<3, 4>>, <<5, 9>>, <<10, 10>>, <<11, 15>>, <<16, 19>>,
     <<20, 21>>, <<22, 23>>, <<24, 24>>, <<25, 26>>, <<27, 29>>, <<30, 35>>,
     <<36, 38>>, <<39, 39>>, <<40, 40>>}

LetterIn(c, r) ==
    \A m \in 1 .. 40 : Rows[m].from = c <=> m \in r[1] .. r[2]

LEMMA LetterRows ==
    /\ LetterIn("a", <<1, 2>>)
    /\ LetterIn("b", <<3, 4>>)
    /\ LetterIn("c", <<5, 9>>)
    /\ LetterIn("d", <<10, 10>>)
    /\ LetterIn("e", <<11, 15>>)
    /\ LetterIn("f", <<16, 19>>)
    /\ LetterIn("i", <<20, 21>>)
    /\ LetterIn("n", <<22, 23>>)
    /\ LetterIn("o", <<24, 24>>)
    /\ LetterIn("p", <<25, 26>>)
    /\ LetterIn("r", <<27, 29>>)
    /\ LetterIn("s", <<30, 35>>)
    /\ LetterIn("t", <<36, 38>>)
    /\ LetterIn("v", <<39, 39>>)
    /\ LetterIn("w", <<40, 40>>)
BY DEF Rows, Row, Any, LetterIn

HasRange(c) == \E r \in RowRanges : LetterIn(c, r)

LEMMA LetterRange == \A k \in 1 .. 40 : HasRange(Rows[k].from)
<1>1. HasRange("a")
  BY LetterRows, Zenon DEF HasRange, RowRanges
<1>2. HasRange("b")
  BY LetterRows, Zenon DEF HasRange, RowRanges
<1>3. HasRange("c")
  BY LetterRows, Zenon DEF HasRange, RowRanges
<1>4. HasRange("d")
  BY LetterRows, Zenon DEF HasRange, RowRanges
<1>5. HasRange("e")
  BY LetterRows, Zenon DEF HasRange, RowRanges
<1>6. HasRange("f")
  BY LetterRows, Zenon DEF HasRange, RowRanges
<1>7. HasRange("i")
  BY LetterRows, Zenon DEF HasRange, RowRanges
<1>8. HasRange("n")
  BY LetterRows, Zenon DEF HasRange, RowRanges
<1>9. HasRange("o")
  BY LetterRows, Zenon DEF HasRange, RowRanges
<1>10. HasRange("p")
  BY LetterRows, Zenon DEF HasRange, RowRanges
<1>11. HasRange("r")
  BY LetterRows, Zenon DEF HasRange, RowRanges
<1>12. HasRange("s")
  BY LetterRows, Zenon DEF HasRange, RowRanges
<1>13. HasRange("t")
  BY LetterRows, Zenon DEF HasRange, RowRanges
<1>14. HasRange("v")
  BY LetterRows, Zenon DEF HasRange, RowRanges
<1>15. HasRange("w")
  BY LetterRows, Zenon DEF HasRange, RowRanges
<1>16. \A c \in RowLetters : HasRange(c)
  BY <1>1, <1>2, <1>3, <1>4, <1>5, <1>6, <1>7, <1>8,
     <1>9, <1>10, <1>11, <1>12, <1>13, <1>14, <1>15, Zenon DEF RowLetters
<1> QED BY <1>16, RowFrom

(* What a word spelled as row k shows in its second and third letter, and  *)
(* that row j does not decide on such a word.                              *)
SecondOf(r) == IF r.n = 1 THEN r.rest[1] ELSE r.second

ThirdOf(r) == IF r.n = 2 THEN r.rest[1] ELSE r.third

Differ(j, k) ==
     \/ Rows[j].second \notin {Any, SecondOf(Rows[k])}
     \/ Rows[k].n > 1 /\ Rows[j].third \notin {Any, ThirdOf(Rows[k])}

EarlierDiffer(r) ==
    \A k \in r[1] .. r[2] :
        k \in Wanted => \A j \in r[1] .. k - 1 : Differ(j, k)

LEMMA RangesDiffer == \A r \in RowRanges : EarlierDiffer(r)
<1>1. EarlierDiffer(<<1, 2>>)
  <2>1. \A j \in 1 .. 1 : Differ(j, 2)
    BY DEF Rows, Row, Any, SecondOf, ThirdOf, Differ
  <2> QED BY <2>1, Unwanted DEF EarlierDiffer
<1>2. EarlierDiffer(<<3, 4>>)
  <2>1. \A j \in 3 .. 3 : Differ(j, 4)
    BY DEF Rows, Row, Any, SecondOf, ThirdOf, Differ
  <2> QED BY <2>1, Unwanted DEF EarlierDiffer
<1>3. EarlierDiffer(<<5, 9>>)
  <2>1. \A j \in 5 .. 5 : Differ(j, 6)
    BY DEF Rows, Row, Any, SecondOf, ThirdOf, Differ
  <2>2. \A j \in 5 .. 6 : Differ(j, 7)
    BY DEF Rows, Row, Any, SecondOf, ThirdOf, Differ
  <2>3. \A j \in 5 .. 8 : Differ(j, 9)
    BY DEF Rows, Row, Any, SecondOf, ThirdOf, Differ
  <2> QED BY <2>1, <2>2, <2>3, Unwanted DEF EarlierDiffer
<1>4. EarlierDiffer(<<11, 15>>)
  <2>1. \A j \in 11 .. 11 : Differ(j, 12)
    BY DEF Rows, Row, Any, SecondOf, ThirdOf, Differ
  <2>2. \A j \in 11 .. 12 : Differ(j, 13)
    BY DEF Rows, Row, Any, SecondOf, ThirdOf, Differ
  <2>3. \A j \in 11 .. 14 : Differ(j, 15)
    BY DEF Rows, Row, Any, SecondOf, ThirdOf, Differ
  <2> QED BY <2>1, <2>2, <2>3, Unwanted DEF EarlierDiffer
<1>5. EarlierDiffer(<<16, 19>>)
  <2>1. \A j \in 16 .. 16 : Differ(j, 17)
    BY DEF Rows, Row, Any, SecondOf, ThirdOf, Differ
  <2>2. \A j \in 16 .. 17 : Differ(j, 18)
    BY DEF Rows, Row, Any, SecondOf, ThirdOf, Differ
  <2>3. \A j \in 16 .. 18 : Differ(j, 19)
    BY DEF Rows, Row, Any, SecondOf, ThirdOf, Differ
  <2> QED BY <2>1, <2>2, <2>3, Unwanted DEF EarlierDiffer
<1>6. EarlierDiffer(<<20, 21>>)
  <2>1. \A j \in 20 .. 20 : Differ(j, 21)
    BY DEF Rows, Row, Any, SecondOf, ThirdOf, Differ
  <2> QED BY <2>1, Unwanted DEF EarlierDiffer
<1>7. EarlierDiffer(<<22, 23>>)
  <2>1. \A j \in 22 .. 22 : Differ(j, 23)
    BY DEF Rows, Row, Any, SecondOf, ThirdOf, Differ
  <2> QED BY <2>1, Unwanted DEF EarlierDiffer
<1>8. EarlierDiffer(<<25, 26>>)
  <2>1. \A j \in 25 .. 25 : Differ(j, 26)
    BY DEF Rows, Row, Any, SecondOf, ThirdOf, Differ
  <2> QED BY <2>1, Unwanted DEF EarlierDiffer
<1>9. EarlierDiffer(<<27, 29>>)
  <2>1. \A j \in 27 .. 27 : Differ(j, 28)
    BY DEF Rows, Row, Any, SecondOf, ThirdOf, Differ
  <2>2. \A j \in 27 .. 28 : Differ(j, 29)
    BY DEF Rows, Row, Any, SecondOf, ThirdOf, Differ
  <2> QED BY <2>1, <2>2, Unwanted DEF EarlierDiffer
<1>10. EarlierDiffer(<<30, 35>>)
  <2>1. \A j \in 30 .. 30 : Differ(j, 31)
    BY DEF Rows, Row, Any, SecondOf, ThirdOf, Differ
  <2>2. \A j \in 30 .. 31 : Differ(j, 32)
    BY DEF Rows, Row, Any, SecondOf, ThirdOf, Differ
  <2>3. \A j \in 30 .. 32 : Differ(j, 33)
    BY DEF Rows, Row, Any, SecondOf, ThirdOf, Differ
  <2>4. \A j \in 30 .. 33 : Differ(j, 34)
    BY DEF Rows, Row, Any, SecondOf, ThirdOf, Differ
  <2>5. \A j \in 30 .. 34 : Differ(j, 35)
    BY DEF Rows, Row, Any, SecondOf, ThirdOf, Differ
  <2> QED BY <2>1, <2>2, <2>3, <2>4, <2>5, Unwanted DEF EarlierDiffer
<1>11. EarlierDiffer(<<36, 38>>)
  <2>1. \A j \in 36 .. 36 : Differ(j, 37)
    BY DEF Rows, Row, Any, SecondOf, ThirdOf, Differ
  <2>2. \A j \in 36 .. 37 : Differ(j, 38)
    BY DEF Rows, Row, Any, SecondOf, ThirdOf, Differ
  <2> QED BY <2>1, <2>2, Unwanted DEF EarlierDiffer
<1>12. \A a \in {10, 24, 39, 40} : EarlierDiffer(<<a, a>>)
  BY DEF EarlierDiffer
<1> QED BY <1>1, <1>2, <1>3, <1>4, <1>5, <1>6, <1>7, <1>8, <1>9, <1>10,
           <1>11, <1>12, Zenon DEF RowRanges

LEMMA Earlier ==
    ASSUME NEW k \in Wanted, NEW j \in 1 .. k - 1, Rows[j].from = Rows[k].from
    PROVE  Differ(j, k)
<1>1. k \in 1 .. 40 /\ j \in 1 .. 40
  BY Unwanted
<1>2. PICK r \in RowRanges : LetterIn(Rows[k].from, r)
  BY <1>1, LetterRange DEF HasRange
<1>3. r[1] \in Int /\ r[2] \in Int
  BY DEF RowRanges
<1>4. k \in r[1] .. r[2] /\ j \in r[1] .. r[2]
  BY <1>1, <1>2, Zenon DEF LetterIn
<1>6. k \in r[1] .. r[2] /\ j \in r[1] .. k - 1
  BY <1>1, <1>3, <1>4
<1>5. EarlierDiffer(r)
  BY RangesDiffer
<1> QED BY <1>6, <1>5, Zenon DEF EarlierDiffer

LEMMA SameLetter ==
    ASSUME NEW k \in 1 .. 40, NEW i \in 1 .. k, NEW j \in i .. k,
           Rows[i].from = Rows[k].from
    PROVE  Rows[j].from = Rows[k].from
<1>1. PICK r \in RowRanges : LetterIn(Rows[k].from, r)
  BY LetterRange DEF HasRange
<1>2. r[1] \in Int /\ r[2] \in Int
  BY DEF RowRanges
<1>3. k \in 1 .. 40 /\ i \in 1 .. 40 /\ j \in 1 .. 40
  OBVIOUS
<1>4. k \in r[1] .. r[2] /\ i \in r[1] .. r[2]
  BY <1>1, <1>3, Zenon DEF LetterIn
<1>5. j \in r[1] .. r[2]
  BY <1>2, <1>3, <1>4
<1> QED BY <1>1, <1>3, <1>5, Zenon DEF LetterIn

(* What a case falls to, up to the next one without letters to look at.    *)
LastCase(t) == Rows[t].second = Any /\ Rows[t].third = Any

GroupRows(g, a, t) == LastCase(t) /\ \A i \in a .. t : Rows[i].from \in g

LEMMA RowGroups ==
    /\ GroupRows(Groups[1], 1, 10) /\ GroupRows(Groups[2], 11, 21)
    /\ GroupRows(Groups[3], 22, 24) /\ GroupRows(Groups[4], 25, 29)
    /\ GroupRows({"s"}, 30, 35) /\ GroupRows(Groups[5], 36, 39)
    /\ GroupRows({"w"}, 40, 40)
BY DEF Rows, Row, Any, Groups, GroupRows, LastCase

IsGroup(g) == (\E i \in DOMAIN Groups : g = Groups[i]) \/ (\E c : g = {c})

(* From row k on the search stops before it leaves the cases that k's      *)
(* falls through to.                                                       *)
Falls(k) ==
    \E t \in k .. 40 :
        LastCase(t) /\ \A i \in k .. t : FallsTo(Rows[k].from, Rows[i].from)

LEMMA GroupFalls ==
    ASSUME NEW g, IsGroup(g), NEW x \in g, NEW y \in g
    PROVE  FallsTo(x, y)
<1>1. CASE \E i \in DOMAIN Groups : g = Groups[i]
  <2>1. PICK i \in DOMAIN Groups : g = Groups[i]
    BY <1>1
  <2>2. {x, y} \subseteq Groups[i]
    BY <2>1
  <2> QED BY <2>2, Zenon DEF FallsTo
<1>2. CASE \E c : g = {c}
  <2>1. x = y
    BY <1>2
  <2> QED BY <2>1, Zenon DEF FallsTo
<1> QED BY <1>1, <1>2 DEF IsGroup

LEMMA GroupRowsFall ==
    ASSUME NEW g, IsGroup(g), NEW a \in 1 .. 40, NEW t \in 1 .. 40,
           GroupRows(g, a, t)
    PROVE  \A k \in a .. t : Falls(k)
<1> SUFFICES ASSUME NEW k \in a .. t PROVE Falls(k)
  OBVIOUS
<1>1. t \in k .. 40 /\ LastCase(t)
  BY DEF GroupRows
<1>2. Rows[k].from \in g /\ \A i \in k .. t : Rows[i].from \in g
  BY DEF GroupRows
<1>3. \A i \in k .. t : FallsTo(Rows[k].from, Rows[i].from)
  BY <1>2, GroupFalls
<1> QED BY <1>1, <1>3 DEF Falls

LEMMA RowFalls == \A k \in 1 .. 40 : Falls(k)
<1>1. /\ IsGroup(Groups[1]) /\ IsGroup(Groups[2]) /\ IsGroup(Groups[3])
      /\ IsGroup(Groups[4]) /\ IsGroup(Groups[5])
      /\ IsGroup({"s"}) /\ IsGroup({"w"})
  <2>1. DOMAIN Groups = 1 .. 5
    BY DEF Groups
  <2>2. \A i \in 1 .. 5 : IsGroup(Groups[i])
    BY <2>1, Zenon DEF IsGroup
  <2>3. IsGroup({"s"}) /\ IsGroup({"w"})
    BY Zenon DEF IsGroup
  <2> QED BY <2>2, <2>3
<1>2. \A k \in 1 .. 10 : Falls(k)
  BY <1>1, RowGroups, GroupRowsFall
<1>3. \A k \in 11 .. 21 : Falls(k)
  BY <1>1, RowGroups, GroupRowsFall
<1>4. \A k \in 22 .. 24 : Falls(k)
  BY <1>1, RowGroups, GroupRowsFall
<1>5. \A k \in 25 .. 29 : Falls(k)
  BY <1>1, RowGroups, GroupRowsFall
<1>6. \A k \in 30 .. 35 : Falls(k)
  BY <1>1, RowGroups, GroupRowsFall
<1>7. \A k \in 36 .. 39 : Falls(k)
  BY <1>1, RowGroups, GroupRowsFall
<1>8. \A k \in 40 .. 40 : Falls(k)
  BY <1>1, RowGroups, GroupRowsFall
<1> QED BY <1>2, <1>3, <1>4, <1>5, <1>6, <1>7, <1>8

LEMMA RowShape ==
    \A k \in 1 .. 40 :
        /\ Rows[k].n \in 1 .. 3 /\ Len(Rows[k].rest) \in 1 .. 6
        /\ Rows[k].n > 1 => Rows[k].second # Any
        /\ Rows[k].n > 2 => Rows[k].third # Any
BY DEF Rows, Row, Any

LEMMA RowOwn ==
    \A k \in 1 .. 40 :
        /\ Rows[k].second \in {Any, SecondOf(Rows[k])}
        /\ Rows[k].third # Any =>
               Rows[k].n > 1 /\ Rows[k].third = ThirdOf(Rows[k])
BY DEF Rows, Row, Any, SecondOf, ThirdOf

WordTypes == {Rows[k].token : k \in DOMAIN Rows} \cup {"ID"}

LEMMA RowTokens ==
    /\ DOMAIN Rows = 1 .. 40 /\ Len(Rows) = 40
    /\ \A k \in 1 .. 40 :
          Rows[k].token \notin {"NONE", "ID", "NUMBER", "OP", "STR", "FMT_STR",
                               "CHAR", "LINE_COMMENT", "NLINE_COMMENT", "ERR",
                               "EOF"}
BY DEF Rows, Row, Any

(* The letters behind those that the cases compare are a sequence.         *)
IsList(s) == \E S : s \in Seq(S)

LEMMA TupleIsList ==
    \A a, b, c, d, e, f :
        /\ IsList(<<a>>) /\ IsList(<<a, b>>) /\ IsList(<<a, b, c>>)
        /\ IsList(<<a, b, c, d>>) /\ IsList(<<a, b, c, d, e, f>>)
<1> TAKE a, b, c, d, e, f
<1>1. PICK S : S = {a, b, c, d, e, f}
  OBVIOUS
<1>2. /\ <<a>> \in Seq(S) /\ <<a, b>> \in Seq(S) /\ <<a, b, c>> \in Seq(S)
      /\ <<a, b, c, d>> \in Seq(S) /\ <<a, b, c, d, e, f>> \in Seq(S)
  BY <1>1
<1> QED BY <1>2, Zenon DEF IsList

Rests ==
    {<<"r", "a", "y">>, <<"d">>, <<"e", "a", "k">>, <<"o", "l">>,
     <<"s", "e">>, <<"c", "k">>, <<"s", "s">>, <<"a", "r">>,
     <<"e", "f", "a", "u", "l", "t">>, <<"c", "h">>, <<"e">>, <<"f">>,
     <<"p", "o", "r", "t">>, <<"r">>, <<"l", "s", "e">>, <<"e", "e">>,
     <<"l", "e">>, <<"l">>, <<"m">>, <<"i", "m", "e">>, <<"u", "t">>,
     <<"u", "r", "n">>, <<"i", "t", "c", "h">>, <<"p", "e", "r">>,
     <<"u", "a", "r", "e">>, <<"r", "i", "n", "g">>, <<"a", "c", "k">>,
     <<"b", "l", "e">>, <<"i", "s">>, <<"u", "e">>,
     <<"h", "i", "l", "e">>}

LEMMA RestIsList == \A k \in 1 .. 40 : IsList(Rows[k].rest)
<1>1. \A k \in 1 .. 40 : Rows[k].rest \in Rests
  BY DEF Rows, Row, Any, Rests
<1>2. \A s \in Rests : IsList(s)
  BY TupleIsList, Zenon DEF Rests
<1> QED BY <1>1, <1>2

LEMMA SpelledFacts ==
    ASSUME NEW k \in 1 .. 40
    PROVE  LET r == Rows[k]
               s == Spelled(r)
           IN  /\ IsList(s) /\ Len(s) = r.n + Len(r.rest)
               /\ s[1] = r.from
               /\ r.n > 1 => s[2] = r.second
               /\ r.n > 2 => s[3] = r.third
               /\ \A i \in 1 .. Len(r.rest) : s[r.n + i] = r.rest[i]
<1>1. PICK r : r = Rows[k]
  OBVIOUS
<1>2. PICK T : r.rest \in Seq(T)
  BY <1>1, RestIsList DEF IsList
<1>3. PICK S : S = T \cup {r.from, r.second, r.third}
  OBVIOUS
<1>4. PICK u : u = <<r.from, r.second, r.third>>
  OBVIOUS
<1>5. /\ r.n \in 1 .. 3 /\ Len(r.rest) \in Nat /\ r.rest \in Seq(S)
  <2>1. T \subseteq S
    BY <1>3
  <2>2. r.rest \in Seq(S)
    BY <1>2, <2>1, SeqMonotonic
  <2>3. r.n \in 1 .. 3 /\ Len(r.rest) \in 1 .. 6
    BY <1>1, RowShape
  <2> QED BY <2>2, <2>3
<1>6. u \in Seq(S) /\ Len(u) = 3
  BY <1>3, <1>4
<1>7. PICK v : v = SubSeq(u, 1, r.n)
  OBVIOUS
<1>8. v \in Seq(S) /\ Len(v) = r.n /\ \A i \in 1 .. r.n : v[i] = u[i]
  <2>1. r.n \in 1 - 1 .. Len(u) /\ 1 \in 1 .. Len(u) + 1
    BY <1>5, <1>6
  <2>2. PICK n : n = r.n
    OBVIOUS
  <2>3. /\ v \in Seq(S) /\ Len(v) = IF 1 <= n THEN n - 1 + 1 ELSE 0
        /\ \A i \in 1 .. n - 1 + 1 : v[i] = u[1 + i - 1]
    BY <1>6, <1>7, <2>1, <2>2, SubSeqProperties
  <2> QED BY <1>5, <2>2, <2>3
<1>9. Spelled(r) = v \o r.rest
  BY <1>4, <1>7, Zenon DEF Spelled
<1>10. /\ Spelled(r) \in Seq(S) /\ Len(Spelled(r)) = r.n + Len(r.rest)
       /\ \A i \in 1 .. r.n + Len(r.rest) :
             Spelled(r)[i] = IF i <= r.n THEN v[i] ELSE r.rest[i - r.n]
  BY <1>5, <1>8, <1>9, ConcatProperties
<1>11. /\ Spelled(r)[1] = r.from
       /\ r.n > 1 => Spelled(r)[2] = r.second
       /\ r.n > 2 => Spelled(r)[3] = r.third
  BY <1>4, <1>5, <1>8, <1>10
<1>12. ASSUME NEW i \in 1 .. Len(r.rest)
       PROVE  Spelled(r)[r.n + i] = r.rest[i]
  <2>1. /\ r.n + i \in 1 .. r.n + Len(r.rest) /\ ~ (r.n + i <= r.n)
        /\ (r.n + i) - r.n = i
    BY <1>5
  <2> QED BY <1>10, <2>1
<1>13. IsList(Spelled(r))
  BY <1>10, Zenon DEF IsList
<1> QED BY <1>1, <1>10, <1>11, <1>12, <1>13

(* The case that decides on a word, from the word's own one on.            *)
DecidedBy(w, k) ==
    \E a \in 1 .. k :
        /\ Rows[a].from = LetterAt(w, 1)
        /\ \A i \in 1 .. a - 1 : Rows[i].from # LetterAt(w, 1)
        /\ Decides(Rows[k], w)
        /\ \A j \in a .. k - 1 : ~ Decides(Rows[j], w)

LEMMA IdTypeFacts ==
    ASSUME NEW w
    PROVE  \/ /\ IdType(w) = "ID"
              /\ \A i \in 1 .. 40 : Rows[i].from # LetterAt(w, 1)
           \/ \E k \in 1 .. 40 :
                /\ DecidedBy(w, k)
                /\ IdType(w) = IF IsRest(Rows[k], w) THEN Rows[k].token
                               ELSE "ID"
<1>1. PICK own : own = {k \in DOMAIN Rows : Rows[k].from = LetterAt(w, 1)}
  OBVIOUS
<1>2. CASE own = {}
  <2>1. IdType(w) = "ID"
    BY <1>1, <1>2, Zenon DEF IdType
  <2> QED BY <1>1, <1>2, <2>1, RowTokens
<1>3. CASE own # {}
  <2>1. PICK a : a = Min(own)
    OBVIOUS
  <2>2. own \subseteq 1 .. 40 /\ own \in SUBSET Nat
    BY <1>1, RowTokens
  <2>3. a \in own /\ \A i \in own : a <= i
    BY <1>3, <2>1, <2>2, MinIs
  <2>4. /\ a \in 1 .. 40 /\ Rows[a].from = LetterAt(w, 1)
        /\ \A i \in 1 .. a - 1 : Rows[i].from # LetterAt(w, 1)
    BY <1>1, <2>2, <2>3, RowTokens
  <2>5. PICK D : D = {k \in a .. Len(Rows) : Decides(Rows[k], w)}
    OBVIOUS
  <2>6. PICK k : k = Min(D)
    OBVIOUS
  <2>7. k \in D /\ \A j \in D : k <= j
    <3>1. PICK t \in a .. 40 : LastCase(t)
      BY <2>4, RowFalls DEF Falls
    <3>2. Decides(Rows[t], w)
      BY <3>1, Zenon DEF Decides, LastCase
    <3>3. t \in D /\ D \in SUBSET Nat
      BY <2>4, <2>5, <3>1, <3>2, RowTokens
    <3> QED BY <2>6, <3>3, MinIs
  <2>8. /\ k \in 1 .. 40 /\ a \in 1 .. k /\ Decides(Rows[k], w)
        /\ \A j \in a .. k - 1 : ~ Decides(Rows[j], w)
    BY <2>4, <2>5, <2>7, RowTokens
  <2>9. DecidedBy(w, k)
    BY <2>4, <2>8, Zenon DEF DecidedBy
  <2>10. IdType(w) = IF IsRest(Rows[k], w) THEN Rows[k].token ELSE "ID"
    BY <1>1, <1>3, <2>1, <2>5, <2>6, Zenon DEF IdType
  <2> QED BY <2>8, <2>9, <2>10
<1> QED BY <1>2, <1>3

(* A word that a case takes for its keyword is the keyword but for its     *)
(* first letter, from which the case is reached.                           *)
LEMMA MisreadFacts ==
    ASSUME NEW S, NEW w \in Seq(S), NEW k \in 1 .. 40, DecidedBy(w, k),
           IsRest(Rows[k], w)
    PROVE  LET s == Spelled(Rows[k])
           IN  /\ Len(s) = Len(w) /\ FallsTo(LetterAt(w, 1), Rows[k].from)
               /\ SubSeq(w, 2, Len(w)) = SubSeq(s, 2, Len(s))
<1>1. PICK r : r = Rows[k]
  OBVIOUS
<1>2. PICK s : s = Spelled(r)
  OBVIOUS
<1>3. /\ IsList(s) /\ Len(s) = r.n + Len(r.rest)
      /\ r.n > 1 => s[2] = r.second
      /\ r.n > 2 => s[3] = r.third
      /\ \A i \in 1 .. Len(r.rest) : s[r.n + i] = r.rest[i]
  BY <1>1, <1>2, SpelledFacts
<1>4. /\ r.n \in 1 .. 3 /\ Len(r.rest) \in 1 .. 6
      /\ r.n > 1 => r.second # Any
      /\ r.n > 2 => r.third # Any
  BY <1>1, RowShape
<1>5. Len(w) = r.n + Len(r.rest) /\ SubSeq(w, r.n + 1, Len(w)) = r.rest
  BY <1>1, Zenon DEF IsRest
<1>9. PICK n, q, m : n = r.n /\ q = Len(r.rest) /\ m = Len(w)
  OBVIOUS
<1>10. n \in 1 .. 3 /\ q \in 1 .. 6 /\ m = n + q /\ m \in Nat /\ Len(s) = m
  <2>1. n \in 1 .. 3 /\ q \in 1 .. 6 /\ m = n + q /\ Len(s) = n + q
    BY <1>3, <1>4, <1>5, <1>9, Zenon
  <2> QED BY <2>1
<1>6. FallsTo(LetterAt(w, 1), Rows[k].from)
  <2>1. PICK a \in 1 .. k : /\ Rows[a].from = LetterAt(w, 1)
                            /\ \A j \in a .. k - 1 : ~ Decides(Rows[j], w)
    BY DEF DecidedBy
  <2>2. PICK t \in a .. 40 :
           /\ LastCase(t)
           /\ \A i \in a .. t : FallsTo(Rows[a].from, Rows[i].from)
    <3>1. a \in 1 .. 40
      BY <2>1
    <3>2. Falls(a)
      BY <3>1, RowFalls
    <3> QED BY <3>2 DEF Falls
  <2>3. Decides(Rows[t], w)
    BY <2>2, Zenon DEF Decides, LastCase
  <2>4. k \in a .. t
    BY <2>1, <2>2, <2>3
  <2> QED BY <2>1, <2>2, <2>4
<1>7. ASSUME NEW i \in 2 .. Len(w) PROVE w[i] = s[i]
  <2>1. CASE i > r.n
    <3>1. i \in 2 .. m /\ i > n
      BY <1>9, <2>1
    <3>2. \A j \in n + 1 .. m : j \in 1 .. m
      BY <1>10
    <3>3. \A j \in n + 1 .. m : w[j] \in S
      BY <1>9, <3>2, ElementOfSeq
    <3>4. \A j \in 1 .. m - (n + 1) + 1 :
             SubSeq(w, n + 1, m)[j] = w[n + 1 + j - 1]
      BY <1>10, <3>3, SubSeqProperties
    <3>5. PICK d : d = i - n
      OBVIOUS
    <3>6. /\ d \in 1 .. m - (n + 1) + 1 /\ d \in 1 .. q
          /\ n + 1 + d - 1 = i /\ n + d = i
      BY <1>10, <3>1, <3>5
    <3>7. SubSeq(w, n + 1, m)[d] = w[i]
      BY <3>4, <3>6
    <3>8. s[i] = r.rest[d]
      BY <1>3, <1>9, <3>6
    <3> QED BY <1>5, <1>9, <3>7, <3>8
  <2>2. CASE i <= r.n
    <3>1. /\ r.second \in {Any, LetterAt(w, 2)}
          /\ r.third \in {Any, LetterAt(w, 3)}
      BY <1>1, Zenon DEF DecidedBy, Decides
    <3>2. (i = 2 /\ r.n > 1) \/ (i = 3 /\ r.n > 2)
      <4>1. n \in 1 .. 3 /\ i \in 2 .. m /\ i <= n
        BY <1>9, <1>10, <2>2
      <4>2. (i = 2 /\ n > 1) \/ (i = 3 /\ n > 2)
        BY <1>10, <4>1
      <4> QED BY <1>9, <4>2
    <3>3. LetterAt(w, i) = w[i]
      BY DEF LetterAt
    <3> QED BY <1>3, <1>4, <3>1, <3>2, <3>3
  <2>3. r.n \in 1 .. 3 /\ i \in Int
    BY <1>4, <1>9, <1>10
  <2> QED BY <2>1, <2>2, <2>3
<1>8. SubSeq(w, 2, Len(w)) = SubSeq(s, 2, Len(s))
  <2>1. PICK T : s \in Seq(T)
    BY <1>3 DEF IsList
  <2>2. m = Len(w)
    BY <1>9
  <2>3. m \in 2 .. 9 /\ Len(s) = m
    BY <1>10
  <2>4. PICK x : x = SubSeq(w, 2, m)
    OBVIOUS
  <2>5. PICK y : y = SubSeq(s, 2, m)
    OBVIOUS
  <2>6. \A j \in 2 .. m : w[j] \in S
    BY <2>2, <2>3
  <2>7. \A j \in 2 .. m : s[j] \in T
    BY <2>1, <2>3
  <2>8. /\ x \in Seq(S) /\ Len(x) = m - 2 + 1
        /\ \A i \in 1 .. m - 2 + 1 : x[i] = w[2 + i - 1]
    BY <2>3, <2>4, <2>6, SubSeqProperties
  <2>9. /\ y \in Seq(T) /\ Len(y) = m - 2 + 1
        /\ \A i \in 1 .. m - 2 + 1 : y[i] = s[2 + i - 1]
    BY <2>3, <2>5, <2>7, SubSeqProperties
  <2>10. \A i \in 1 .. m - 2 + 1 : 2 + i - 1 \in 2 .. Len(w)
    BY <2>2, <2>3
  <2>11. \A i \in 1 .. Len(x) : x[i] = y[i]
    BY <1>7, <2>8, <2>9, <2>10
  <2>12. x \in Seq(S \cup T) /\ y \in Seq(S \cup T)
    BY <2>8, <2>9, SeqMonotonic
  <2>13. x = y
    BY <2>8, <2>9, <2>11, <2>12, SeqEqual
  <2> QED BY <2>2, <2>3, <2>4, <2>5, <2>13
<1> QED BY <1>1, <1>2, <1>3, <1>5, <1>6, <1>8

(* No case before its own decides on a keyword.                            *)
LEMMA KeywordKnown ==
    ASSUME NEW k \in Wanted
    PROVE  IdType(Spelled(Rows[k])) = Rows[k].token
<1>1. k \in 1 .. 40
  BY Unwanted
<1>2. PICK r : r = Rows[k]
  OBVIOUS
<1>3. PICK w : w = Spelled(r)
  OBVIOUS
<1>4. /\ IsList(w) /\ Len(w) = r.n + Len(r.rest) /\ w[1] = r.from
      /\ r.n > 1 => w[2] = r.second
      /\ r.n > 2 => w[3] = r.third
      /\ \A i \in 1 .. Len(r.rest) : w[r.n + i] = r.rest[i]
  BY <1>1, <1>2, <1>3, SpelledFacts
<1>5. r.n \in 1 .. 3 /\ Len(r.rest) \in 1 .. 6
  BY <1>1, <1>2, RowShape
<1>12. PICK n, q, m : n = r.n /\ q = Len(r.rest) /\ m = Len(w)
  OBVIOUS
<1>13. n \in 1 .. 3 /\ q \in 1 .. 6 /\ m = n + q /\ m \in Nat
  <2>1. n \in 1 .. 3 /\ q \in 1 .. 6 /\ m = n + q
    BY <1>4, <1>5, <1>12, Zenon
  <2> QED BY <2>1
<1>6. /\ LetterAt(w, 1) = r.from /\ LetterAt(w, 2) = SecondOf(r)
      /\ r.n > 1 => LetterAt(w, 3) = ThirdOf(r)
  <2>1. LetterAt(w, 1) = w[1] /\ LetterAt(w, 2) = w[2]
        /\ (r.n > 1 => LetterAt(w, 3) = w[3])
    <3>1. 1 <= m /\ 2 <= m /\ (n > 1 => 3 <= m)
      BY <1>13
    <3> QED BY <1>12, <3>1 DEF LetterAt
  <2>2. w[2] = SecondOf(r)
    BY <1>4, <1>5 DEF SecondOf
  <2>3. r.n > 1 => w[3] = ThirdOf(r)
    BY <1>4, <1>5 DEF ThirdOf
  <2> QED BY <1>4, <2>1, <2>2, <2>3
<1>7. Decides(r, w)
  <2>1. /\ r.second \in {Any, SecondOf(r)}
        /\ r.third # Any => r.n > 1 /\ r.third = ThirdOf(r)
    BY <1>1, <1>2, RowOwn
  <2> QED BY <1>6, <2>1 DEF Decides
<1>8. ASSUME NEW j \in 1 .. k - 1, Rows[j].from = r.from
      PROVE  ~ Decides(Rows[j], w)
  <2>1. Differ(j, k)
    BY <1>2, <1>8, Earlier
  <2> QED BY <1>2, <1>6, <2>1, Zenon DEF Differ, Decides
<1>9. IsRest(r, w)
  <2>1. PICK S : w \in Seq(S)
    BY <1>4 DEF IsList
  <2>2. PICK T : r.rest \in Seq(T)
    BY <1>1, <1>2, RestIsList DEF IsList
  <2>3. n = r.n /\ q = Len(r.rest)
    BY <1>12
  <2>4. m = Len(w)
    BY <1>12
  <2>5. n \in 1 .. 3 /\ m = n + q /\ m \in Nat /\ q \in 1 .. 6
    BY <1>13
  <2>6. PICK x : x = SubSeq(w, n + 1, m)
    OBVIOUS
  <2>7. \A i \in n + 1 .. m : w[i] \in S
    <3>1. \A i \in n + 1 .. m : i \in 1 .. m
      BY <2>5
    <3> QED BY <2>1, <2>4, <3>1, ElementOfSeq
  <2>8. /\ x \in Seq(S) /\ Len(x) = m - (n + 1) + 1
        /\ \A i \in 1 .. m - (n + 1) + 1 : x[i] = w[n + 1 + i - 1]
    <3>1. n + 1 \in Int /\ m \in Int /\ n + 1 <= m
      BY <2>5
    <3> QED BY <2>6, <2>7, <3>1, SubSeqProperties
  <2>9. m - (n + 1) + 1 = Len(r.rest)
    BY <2>3, <2>5
  <2>10. \A i \in 1 .. Len(x) : x[i] = r.rest[i]
    <3>1. \A i \in 1 .. Len(x) : n + 1 + i - 1 = n + i /\ i \in 1 .. Len(r.rest)
      BY <2>3, <2>5, <2>8, <2>9
    <3> QED BY <1>4, <2>3, <2>8, <2>9, <3>1
  <2>11. x \in Seq(S \cup T) /\ r.rest \in Seq(S \cup T)
    BY <2>2, <2>8, SeqMonotonic
  <2>12. x = r.rest
    BY <2>8, <2>9, <2>10, <2>11, SeqEqual
  <2> QED BY <1>4, <2>3, <2>4, <2>6, <2>12 DEF IsRest
<1>10. PICK d \in 1 .. 40 :
          /\ DecidedBy(w, d)
          /\ IdType(w) = IF IsRest(Rows[d], w) THEN Rows[d].token ELSE "ID"
  <2>1. Rows[k].from = LetterAt(w, 1)
    BY <1>2, <1>6
  <2> QED BY <1>1, <2>1, IdTypeFacts
<1>11. d = k
  <2>1. PICK a \in 1 .. d :
           /\ Rows[a].from = LetterAt(w, 1)
           /\ \A i \in 1 .. a - 1 : Rows[i].from # LetterAt(w, 1)
           /\ Decides(Rows[d], w)
           /\ \A j \in a .. d - 1 : ~ Decides(Rows[j], w)
    BY <1>10, Zenon DEF DecidedBy
  <2>2. a <= k
    BY <1>1, <1>2, <1>6, <2>1
  <2>3. ~ (k < d)
    BY <1>1, <1>2, <1>7, <2>1, <2>2
  <2>4. CASE d < k
    <3>1. d \in 1 .. k - 1 /\ a \in 1 .. k /\ d \in a .. k
      BY <1>1, <2>1, <2>2, <2>4
    <3>2. Rows[a].from = Rows[k].from
      BY <1>2, <1>6, <2>1
    <3>3. Rows[d].from = r.from
      BY <1>1, <1>2, <3>1, <3>2, SameLetter
    <3> QED BY <1>8, <2>1, <3>1, <3>3
  <2> QED BY <1>1, <2>3, <2>4
<1> QED BY <1>2, <1>3, <1>9, <1>10, <1>11

-----------------------------------------------------------------------------
(* The invariant: what was read is counted, up to the first text whose     *)
(* lines are miscounted.                                                   *)
ScanInv ==
    /\ src \in Sources
    /\ current \in 1 .. Edge + 1 /\ line \in Nat
    /\ cur.type # "NONE" => cur.to = current - 1 /\ cur.line = line
    /\ cur.type = "EOF" => cur.from = Edge /\ current = Edge
    /\ ~ odd => line = 1 + Lines(1, current - 1)
    /\ StaysInside

(* How a token may go past the end of the source.                          *)
MayLeave(type, from, hidden) ==
    \/ type = "LINE_COMMENT" /\ Lines(from, Len(src)) = 0
    \/ /\ type = "NLINE_COMMENT"
       /\ hidden \/ \A i \in from + 2 .. Len(src) - 1 : ~ Closes(i)
    \/ type = "CHAR"
    \/ type = "ERR" /\ At(Len(src)) = "\\"

LEMMA ScanSource == ScanInv => IsSource
BY ScannerAssumption DEF ScanInv, IsSource

LEMMA StartFacts ==
    ASSUME ScanInv, Scans
    PROVE  /\ start \in current .. Edge /\ start \in 1 .. Edge
           /\ first = At(start) /\ first \notin Space
           /\ first # NUL => start \in 1 .. Edge - 1
           /\ first = NUL => start = Edge
<1>1. IsSource /\ Edge \in Nat
  BY ScanSource, Characters
<1>2. current \in 1 .. Edge
  BY <1>1 DEF ScanInv, Scans
<1>3. NUL \notin Space
  BY Zenon DEF NUL, Space
<1>4. start \in current .. Edge /\ At(start) \notin Space
  BY <1>1, <1>2, <1>3, BehindFacts DEF start
<1> QED BY <1>1, <1>2, <1>4, Characters DEF first

LEMMA TokenKeeps ==
    ASSUME ScanInv, Scans, NEW type, NEW at \in Int, NEW nl \in Nat,
           Token(type, at, nl), at >= start, type # "NONE",
           ~ odd' => ~ odd /\ nl = Lines(start, Capped(at) - 1),
           type = "EOF" => start = Edge /\ at = Edge,
           Capped(at) = Edge + 1 => MayLeave(type, start, odd')
    PROVE  ScanInv'
<1>1. IsSource /\ Edge \in Nat /\ Len(src) = Edge - 1
  BY ScanSource, Characters DEF Edge
<1>2. start \in current .. Edge /\ start \in 1 .. Edge /\ current \in 1 .. Edge
  BY <1>1, StartFacts DEF ScanInv, Scans
<1>3. PICK c : c = Capped(at)
  OBVIOUS
<1>4. c \in start .. Edge + 1 /\ (at <= Edge => c = at)
  BY <1>1, <1>2, <1>3, CappedFacts
<1>5. /\ src' = src /\ current' = c
      /\ line' = line + Lines(current, start - 1) + nl
      /\ cur' = [type |-> type, from |-> start, to |-> c - 1, line |-> line']
  BY <1>3 DEF Token
<1>6. PICK n : n = Lines(current, start - 1)
  OBVIOUS
<1>7. n \in Nat /\ line \in Nat
  BY <1>2, <1>6, LinesNat DEF ScanInv
<1>8. ASSUME ~ odd' PROVE line' = 1 + Lines(1, c - 1)
  <2>1. ~ odd /\ nl = Lines(start, c - 1)
    BY <1>3, <1>8, Zenon
  <2>2. line = 1 + Lines(1, current - 1)
    BY <2>1, Zenon DEF ScanInv
  <2>3. Lines(1, start - 1) = Lines(1, current - 1) + n
    BY <1>2, <1>6, LinesAdd
  <2>4. Lines(1, c - 1) = Lines(1, start - 1) + nl
    BY <1>1, <1>2, <1>4, <2>1, LinesAdd
  <2>5. Lines(1, current - 1) \in Nat
    <3>1. current - 1 \in Int
      BY <1>2
    <3> QED BY <3>1, LinesType
  <2> QED BY <1>5, <1>6, <1>7, <2>2, <2>3, <2>4, <2>5
<1>9. Edge' = Edge /\ src' \in Sources
  BY <1>5 DEF Edge, ScanInv
<1>10. current' \in 1 .. Edge' + 1 /\ line' \in Nat
  BY <1>1, <1>2, <1>4, <1>5, <1>6, <1>7, <1>9
<1>11. /\ cur'.type # "NONE" => cur'.to = current' - 1 /\ cur'.line = line'
       /\ cur'.type = "EOF" => cur'.from = Edge' /\ current' = Edge'
  BY <1>1, <1>4, <1>5, <1>9
<1>12. \A i, j : Lines(i, j)' = Lines(i, j)
  BY <1>5 DEF Lines, At
<1>13. \A i : At(i)' = At(i) /\ Closes(i)' = Closes(i)
  BY <1>5 DEF At, Closes
<1>14. (~ odd => line = 1 + Lines(1, current - 1))'
  <2>1. ~ odd' => line' = 1 + Lines(1, current' - 1)
    BY <1>5, <1>8, Zenon
  <2> QED BY <1>5, <2>1, Zenon DEF Lines, At
<1>15. StaysInside'
  <2>1. current' > Edge => MayLeave(type, start, odd')
    BY <1>1, <1>3, <1>4, <1>5
  <2>2. current' > Edge' =>
           \/ cur'.type = "LINE_COMMENT" /\ Lines(cur'.from, Len(src')) = 0
           \/ /\ cur'.type = "NLINE_COMMENT"
              /\ \/ odd'
                 \/ \A i \in cur'.from + 2 .. Len(src') - 1 : ~ Closes(i)
           \/ cur'.type = "CHAR"
           \/ cur'.type = "ERR" /\ At(Len(src')) = "\\"
    BY <1>5, <1>9, <2>1, Zenon DEF MayLeave
  <2> QED BY <1>5, <1>9, <1>13, <2>2, Zenon DEF StaysInside, Lines, At, Closes
<1> QED BY <1>9, <1>10, <1>11, <1>14, <1>15, Zenon DEF ScanInv

LEMMA AtEndKeeps == ScanInv /\ AtEnd => ScanInv'
<1> SUFFICES ASSUME ScanInv, AtEnd PROVE ScanInv'
  OBVIOUS
<1>1. Scans /\ first = NUL /\ Token("EOF", start, 0) /\ UNCHANGED odd
  BY Zenon DEF AtEnd, Plain
<1>2. start = Edge /\ start \in 1 .. Edge
  BY <1>1, StartFacts
<1>3. IsSource /\ Edge \in Nat /\ Capped(start) = start
  BY <1>2, ScanSource, Characters, CappedFacts
<1>4. Lines(start, Capped(start) - 1) = 0
  BY <1>2, <1>3, LinesNone
<1>5. ~ odd' => ~ odd /\ 0 = Lines(start, Capped(start) - 1)
  BY <1>1, <1>4, Zenon
<1>6. Capped(start) # Edge + 1
  BY <1>2, <1>3
<1> QED BY <1>1, <1>2, <1>3, <1>5, <1>6, TokenKeeps

(* A token within one line.                                                *)
LEMMA LinelessKeeps ==
    ASSUME ScanInv, Scans, NEW type, NEW at \in start .. Edge, first # NUL,
           Token(type, at, 0), UNCHANGED odd, type \notin {"NONE", "EOF"},
           \A j \in start .. at - 1 : At(j) # "\n"
    PROVE  ScanInv'
<1>1. start \in 1 .. Edge /\ IsSource /\ Edge \in Nat
  BY StartFacts, ScanSource, Characters
<1>2. Capped(at) = at
  BY <1>1, CappedFacts
<1>3. Lines(start, at - 1) = 0
  BY <1>1, LinesNone
<1>4. ~ odd' => ~ odd /\ 0 = Lines(start, Capped(at) - 1)
  BY <1>2, <1>3, Zenon
<1>5. Capped(at) # Edge + 1 /\ at >= start /\ at \in Int
  BY <1>1, <1>2
<1> QED BY <1>4, <1>5, TokenKeeps

LEMMA NoBreaks ==
    /\ "\n" \notin Letters \cup Digits
    /\ NUL \notin Letters \cup Digits
    /\ "." \notin Space /\ "\n" \in Space
BY Zenon DEF Letters, Digits, NUL, Space

(* What id_type answers is a token, and neither of these two.              *)
LEMMA IdTypeIsWord == \A w : IdType(w) \in WordTypes
<1> SUFFICES ASSUME NEW w PROVE IdType(w) \in WordTypes
  OBVIOUS
<1>1. \A k \in 1 .. 40 : Rows[k].token \in WordTypes
  BY RowTokens, Zenon DEF WordTypes
<1>2. "ID" \in WordTypes
  BY Zenon DEF WordTypes
<1> QED BY <1>1, <1>2, IdTypeFacts

LEMMA WordTypesFacts ==
    /\ WordTypes \subseteq Types
    /\ \A t \in {"NONE", "NUMBER", "OP", "STR", "FMT_STR", "CHAR",
                 "LINE_COMMENT", "NLINE_COMMENT", "ERR", "EOF"} :
          t \in Types /\ t \notin WordTypes
<1>1. WordTypes \subseteq Types
  BY Zenon DEF WordTypes, Types
<1>2. ASSUME NEW t \in {"NONE", "NUMBER", "OP", "STR", "FMT_STR", "CHAR",
                        "LINE_COMMENT", "NLINE_COMMENT", "ERR", "EOF"}
      PROVE  t \in Types /\ t \notin WordTypes
  <2>1. t \in Types
    BY Zenon DEF Types
  <2>2. \A k \in 1 .. 40 : Rows[k].token # t
    BY RowTokens
  <2>3. t # "ID"
    OBVIOUS
  <2> QED BY <2>1, <2>2, <2>3, RowTokens, Zenon DEF WordTypes
<1> QED BY <1>1, <1>2

LEMMA WordKeeps == ScanInv /\ Word => ScanInv'
<1> SUFFICES ASSUME ScanInv, Word PROVE ScanInv'
  OBVIOUS
<1>1. PICK type : type = IdType(Text(start, WordEnd - 1))
  OBVIOUS
<1>2. /\ Scans /\ first \in Letters /\ UNCHANGED odd
      /\ Token(type, WordEnd, 0) /\ type \notin {"NONE", "EOF"}
  <2>1. type \in WordTypes
    BY <1>1, IdTypeIsWord
  <2>2. type \notin {"NONE", "EOF"}
    BY <2>1, WordTypesFacts
  <2> QED BY <1>1, <2>2, Zenon DEF Word, Plain
<1>3. IsSource /\ Edge \in Nat /\ first # NUL
  BY <1>2, ScanSource, Characters, NoBreaks, Zenon
<1>4. start \in 1 .. Edge - 1 /\ start + 1 \in 1 .. Edge /\ first = At(start)
  BY <1>2, <1>3, StartFacts
<1>5. /\ WordEnd \in start + 1 .. Edge
      /\ \A j \in start + 1 .. WordEnd - 1 : At(j) \in Letters \cup Digits
  BY <1>3, <1>4, NoBreaks, BehindFacts DEF WordEnd
<1>6. \A j \in start .. WordEnd - 1 : At(j) # "\n"
  <2>1. \A j \in start .. WordEnd - 1 : j = start \/ j \in start + 1 .. WordEnd - 1
    BY <1>4, <1>5
  <2> QED BY <1>2, <1>4, <1>5, <2>1, NoBreaks, Zenon
<1>7. WordEnd \in start .. Edge
  BY <1>4, <1>5
<1> QED BY <1>2, <1>3, <1>6, <1>7, LinelessKeeps

LEMMA NumberKeeps == ScanInv /\ Number => ScanInv'
<1> SUFFICES ASSUME ScanInv, Number PROVE ScanInv'
  OBVIOUS
<1>1. PICK k : k = Behind(Digits, start)
  OBVIOUS
<1>2. PICK e : e = IF At(k) = "." /\ At(k + 1) \in Digits
                   THEN Behind(Digits, k + 1) ELSE k
  OBVIOUS
<1>3. Scans /\ first \in Digits /\ UNCHANGED odd /\ Token("NUMBER", e, 0)
  BY <1>1, <1>2, Zenon DEF Number, Plain
<1>4. IsSource /\ Edge \in Nat /\ first # NUL
  BY <1>3, ScanSource, Characters, NoBreaks, Zenon
<1>5. start \in 1 .. Edge - 1
  BY <1>3, <1>4, StartFacts
<1>6. k \in start .. Edge /\ \A j \in start .. k - 1 : At(j) \in Digits
  <2>1. start \in 1 .. Edge /\ NUL \notin Digits
    BY <1>4, <1>5, NoBreaks
  <2> QED BY <1>1, <1>4, <2>1, BehindFacts
<1>7. e \in start .. Edge /\ \A j \in start .. e - 1 : At(j) # "\n"
  <2>1. CASE At(k) = "." /\ At(k + 1) \in Digits
    <3>1. k + 1 \in 1 .. Edge
      <4>1. At(k) # NUL
        BY <2>1, NulIsNoMark
      <4>2. k \in 1 .. Edge - 1
        BY <1>4, <1>5, <1>6, <4>1, Characters
      <4> QED BY <1>4, <4>2
    <3>2. /\ e \in k + 1 .. Edge
          /\ \A j \in k + 1 .. e - 1 : At(j) \in Digits
      <4>1. e = Behind(Digits, k + 1)
        BY <1>2, <2>1
      <4> QED BY <1>4, <3>1, <4>1, NoBreaks, BehindFacts
    <3>3. \A j \in start .. e - 1 : j \in start .. k - 1 \/ j = k
                                    \/ j \in k + 1 .. e - 1
      BY <1>5, <1>6, <3>2
    <3>4. \A j \in start .. e - 1 : At(j) # "\n"
      BY <1>6, <2>1, <3>2, <3>3, NoBreaks
    <3> QED BY <1>5, <1>6, <3>2, <3>4
  <2>2. CASE ~ (At(k) = "." /\ At(k + 1) \in Digits)
    <3>1. e = k
      BY <1>2, <2>2
    <3> QED BY <1>6, <3>1, NoBreaks
  <2> QED BY <2>1, <2>2
<1> QED BY <1>3, <1>4, <1>7, LinelessKeeps

LEMMA OperatorKeeps == ScanInv /\ Operator => ScanInv'
<1> SUFFICES ASSUME ScanInv, Operator PROVE ScanInv'
  OBVIOUS
<1>1. PICK m : m = Max({Len(t) : t \in OperatorsHere})
  OBVIOUS
<1>2. Scans /\ OperatorsHere # {} /\ UNCHANGED odd /\ Token("OP", start + m, 0)
  BY <1>1, Zenon DEF Operator, Plain
<1>3. IsSource /\ Edge \in Nat /\ start \in 1 .. Edge
  BY <1>2, ScanSource, Characters, StartFacts
<1>4. PICK t \in OperatorsHere : m = Len(t)
  BY <1>1, <1>2, <1>3, LongestOperator
<1>5. /\ m \in 1 .. 3 /\ start + m <= Edge
      /\ \A j \in start .. start + m - 1 : At(j) # "\n"
  BY <1>3, <1>4, OperatorFound
<1>6. PICK at : at = start + m
  OBVIOUS
<1>7. /\ at \in start .. Edge /\ start # Edge
      /\ \A j \in start .. at - 1 : At(j) # "\n"
  BY <1>3, <1>5, <1>6
<1>8. first # NUL
  BY <1>2, <1>7, StartFacts
<1> QED BY <1>2, <1>6, <1>7, <1>8, LinelessKeeps

LEMMA UnknownKeeps == ScanInv /\ Unknown => ScanInv'
<1> SUFFICES ASSUME ScanInv, Unknown PROVE ScanInv'
  OBVIOUS
<1>1. Scans /\ first # NUL /\ UNCHANGED odd /\ Token("ERR", start + 1, 0)
  BY Zenon DEF Unknown, Plain
<1>2. IsSource /\ Edge \in Nat /\ start \in 1 .. Edge - 1
      /\ first = At(start) /\ first \notin Space
  BY <1>1, ScanSource, Characters, StartFacts
<1>3. \A j \in start .. (start + 1) - 1 : At(j) # "\n"
  <2>1. \A j \in start .. (start + 1) - 1 : j = start
    BY <1>2
  <2> QED BY <1>2, <2>1, NoBreaks
<1>4. start + 1 \in start .. Edge
  BY <1>2
<1> QED BY <1>1, <1>3, <1>4, LinelessKeeps

LEMMA LineCommentKeeps == ScanInv /\ LineComment => ScanInv'
<1> SUFFICES ASSUME ScanInv, LineComment PROVE ScanInv'
  OBVIOUS
<1>1. PICK e : e = Next_({"\n"}, start + 1)
  OBVIOUS
<1>2. /\ Scans /\ first = "/" /\ UNCHANGED odd
      /\ Token("LINE_COMMENT", e + 1, BreakAt(e))
  BY <1>1, Zenon DEF LineComment, Plain, IsComment
<1>3. IsSource /\ Edge \in Nat /\ first # NUL /\ first # "\n"
  BY <1>2, ScanSource, Characters, NulIsNoMark
<1>4. start \in 1 .. Edge - 1 /\ start + 1 \in 1 .. Edge /\ first = At(start)
  BY <1>2, <1>3, StartFacts
<1>5. /\ e \in start + 1 .. Edge
      /\ \A j \in start + 1 .. e - 1 : At(j) \notin {"\n"} \cup {NUL}
      /\ At(e) \in {"\n"} \cup {NUL}
  BY <1>1, <1>3, <1>4, NextFacts
<1>6. \A j \in start .. e - 1 : At(j) # "\n"
  <2>1. \A j \in start .. e - 1 : j = start \/ j \in start + 1 .. e - 1
    BY <1>4, <1>5
  <2> QED BY <1>3, <1>4, <1>5, <2>1
<1>7. Capped(e + 1) = e + 1 /\ e + 1 \in Int /\ e + 1 >= start
  BY <1>3, <1>4, <1>5, CappedFacts
<1>8. Lines(start, (e + 1) - 1) = BreakAt(e) /\ BreakAt(e) \in Nat
  <2>1. Lines(start, e) = Lines(start, e - 1) + Lines(e, e)
    BY <1>4, <1>5, LinesAdd
  <2>2. Lines(start, e - 1) = 0
    BY <1>4, <1>5, <1>6, LinesNone
  <2>3. Lines(e, e) = BreakAt(e) /\ BreakAt(e) \in Nat
    BY <1>5, LinesOne DEF BreakAt
  <2>4. (e + 1) - 1 = e
    BY <1>5
  <2> QED BY <2>1, <2>2, <2>3, <2>4
<1>9. ~ odd' => ~ odd /\ BreakAt(e) = Lines(start, Capped(e + 1) - 1)
  BY <1>2, <1>7, <1>8, Zenon
<1>10. Capped(e + 1) = Edge + 1 => MayLeave("LINE_COMMENT", start, odd')
  <2> SUFFICES ASSUME e = Edge
               PROVE  Lines(start, Len(src)) = 0
    BY <1>3, <1>5, <1>7 DEF MayLeave
  <2>1. Len(src) = e - 1
    BY <1>3, Characters DEF Edge, IsSource
  <2> QED BY <1>4, <1>5, <1>6, <2>1, LinesNone
<1> QED BY <1>2, <1>7, <1>8, <1>9, <1>10, TokenKeeps

LEMMA BlockCommentKeeps == ScanInv /\ BlockComment => ScanInv'
<1> SUFFICES ASSUME ScanInv, BlockComment PROVE ScanInv'
  OBVIOUS
<1>1. PICK e : e = InBlock(start + 2)
  OBVIOUS
<1>2. /\ Scans /\ first = "/" /\ At(start + 1) = "*"
      /\ Token("NLINE_COMMENT", e.at, e.nl)
      /\ odd' = (odd \/ \E i \in start + 2 .. e.at - 2 : Opens(i))
  BY <1>1, Zenon DEF BlockComment, IsComment
<1>3. IsSource /\ Edge \in Nat /\ first # NUL /\ At(start + 1) # NUL
  BY <1>2, ScanSource, Characters, NulIsNoMark
<1>4. start \in 1 .. Edge - 1 /\ first = At(start)
  BY <1>2, <1>3, StartFacts
<1>5. start + 1 \in 1 .. Edge - 1 /\ start + 2 \in 1 .. Edge
  BY <1>3, <1>4, Characters
<1>6. BlockEnd(start + 2, e) /\ BlockResult(start + 2, e)
  BY <1>1, <1>3, <1>5, InBlockFacts
<1>7. e.at \in start + 3 .. Edge + 1 /\ e.nl \in Nat
  BY <1>3, <1>4, <1>5, <1>6 DEF BlockEnd
<1>8. Capped(e.at) = e.at /\ e.at \in Int /\ e.at >= start
  BY <1>3, <1>4, <1>7, CappedFacts
<1>9. Lines(start, start + 1) = 0
  <2>1. \A j \in start .. start + 1 : j = start \/ j = start + 1
    BY <1>4
  <2>2. \A j \in start .. start + 1 : At(j) # "\n"
    BY <1>2, <1>4, <2>1
  <2> QED BY <1>4, <2>2, LinesNone
<1>10. ASSUME ~ odd'
       PROVE  /\ ~ odd /\ e.nl = Lines(start + 2, e.at - 1)
              /\ e.at = Edge + 1 => \A j \in start + 2 .. Edge - 2 : ~ Closes(j)
  <2>1. ~ odd /\ \A i \in start + 2 .. e.at - 2 : ~ Opens(i)
    BY <1>2, <1>10, Zenon
  <2> QED BY <1>6, <2>1, Zenon DEF BlockResult
<1>11. ~ odd' => ~ odd /\ e.nl = Lines(start, Capped(e.at) - 1)
  <2> SUFFICES ASSUME ~ odd' PROVE ~ odd /\ e.nl = Lines(start, e.at - 1)
    BY <1>8, Zenon
  <2>1. ~ odd /\ e.nl = Lines(start + 2, e.at - 1)
    BY <1>10, Zenon
  <2>2. Lines(start, e.at - 1) = Lines(start, (start + 2) - 1)
                                 + Lines(start + 2, e.at - 1)
    BY <1>4, <1>7, LinesAdd
  <2>3. (start + 2) - 1 = start + 1
    BY <1>4
  <2>4. e.nl = Lines(start, e.at - 1)
    BY <1>7, <1>9, <2>1, <2>2, <2>3
  <2> QED BY <2>1, <2>4, Zenon
<1>12. Capped(e.at) = Edge + 1 => MayLeave("NLINE_COMMENT", start, odd')
  <2> SUFFICES ASSUME e.at = Edge + 1, ~ odd'
               PROVE  \A i \in start + 2 .. Len(src) - 1 : ~ Closes(i)
    BY <1>8, Zenon DEF MayLeave
  <2>1. Len(src) - 1 = Edge - 2
    BY <1>3 DEF Edge, IsSource
  <2> QED BY <1>10, <2>1, Zenon
<1> QED BY <1>2, <1>7, <1>8, <1>11, <1>12, TokenKeeps

LEMMA StringKeeps == ScanInv /\ String => ScanInv'
<1> SUFFICES ASSUME ScanInv, String PROVE ScanInv'
  OBVIOUS
<1>1. PICK e : e = InString(first, start + 1)
  OBVIOUS
<1>2. PICK type : type = IF At(e.at) = NUL THEN "ERR"
                         ELSE IF first = Tick THEN "FMT_STR" ELSE "STR"
  OBVIOUS
<1>3. /\ Scans /\ first # NUL /\ Token(type, Shut(e.at), e.nl)
      /\ odd' = (odd \/ \E i \in start .. Len(src) : At(i) \in {"\\", "\n"})
  <2>1. first \in {"\"", Tick} => first # NUL
    BY NulIsNoMark, Zenon
  <2> QED BY <1>1, <1>2, <2>1, Zenon DEF String
<1>4. IsSource /\ Edge \in Nat /\ Len(src) = Edge - 1
  BY ScanSource, Characters DEF Edge, IsSource
<1>5. start \in 1 .. Edge - 1 /\ start + 1 \in 1 .. Edge /\ first = At(start)
  BY <1>3, <1>4, StartFacts
<1>6. StringResult(first, start + 1, e)
  BY <1>1, <1>4, <1>5, InStringFacts
<1>7. /\ e.at \in start + 1 .. Edge + 1 /\ e.nl \in Nat
      /\ At(e.at) \in {first, NUL}
      /\ e.at = Edge + 1 => At(Edge - 1) = "\\"
  BY <1>5, <1>6 DEF StringResult
<1>8. PICK at : at = Shut(e.at)
  OBVIOUS
<1>9. /\ at \in start + 1 .. Edge + 1
      /\ at = Edge + 1 => e.at = Edge + 1 /\ At(e.at) = NUL
  <2>1. CASE At(e.at) = NUL
    BY <1>7, <1>8, <2>1 DEF Shut
  <2>2. CASE At(e.at) # NUL
    <3>1. e.at \in 1 .. Edge - 1 /\ at = e.at + 1
      BY <1>4, <1>5, <1>7, <1>8, <2>2, Characters DEF Shut
    <3> QED BY <1>4, <1>5, <1>7, <3>1
  <2> QED BY <2>1, <2>2
<1>10. Capped(at) = at /\ at \in Int /\ at >= start
  BY <1>4, <1>5, <1>9, CappedFacts
<1>11. type \notin {"NONE", "EOF"} /\ (At(e.at) = NUL => type = "ERR")
  BY <1>2
<1>12. ~ odd' => ~ odd /\ e.nl = Lines(start, Capped(at) - 1)
  <2> SUFFICES ASSUME ~ odd' PROVE ~ odd /\ e.nl = Lines(start, at - 1)
    BY <1>10, Zenon
  <2>1. ~ odd /\ \A i \in start .. Len(src) : At(i) \notin {"\\", "\n"}
    BY <1>3, Zenon
  <2>2. e.nl = 0
    <3>1. \A j \in start + 1 .. Edge - 1 : At(j) # "\\"
      BY <1>4, <1>5, <2>1
    <3> QED BY <1>6, <3>1, Zenon DEF StringResult
  <2>3. \A j \in start .. at - 1 : At(j) # "\n"
    <3> SUFFICES ASSUME NEW j \in start .. at - 1 PROVE At(j) # "\n"
      OBVIOUS
    <3>1. j \in start .. Len(src) \/ j = Edge
      BY <1>4, <1>5, <1>9
    <3>2. At(Edge) = NUL
      BY <1>4, Characters
    <3> QED BY <2>1, <3>1, <3>2, NulIsNoMark
  <2>4. Lines(start, at - 1) = 0
    BY <1>5, <1>9, <2>3, LinesNone
  <2> QED BY <2>1, <2>2, <2>4, Zenon
<1>13. Capped(at) = Edge + 1 => MayLeave(type, start, odd')
  BY <1>4, <1>7, <1>9, <1>10, <1>11 DEF MayLeave
<1>14. /\ Token(type, at, e.nl) /\ e.nl \in Nat /\ type # "NONE"
       /\ type = "EOF" => start = Edge /\ at = Edge
  BY <1>3, <1>7, <1>8, <1>11
<1> QED BY <1>3, <1>10, <1>12, <1>13, <1>14, TokenKeeps

LEMMA CharacterKeeps == ScanInv /\ Character => ScanInv'
<1> SUFFICES ASSUME ScanInv, Character PROVE ScanInv'
  OBVIOUS
<1>1. PICK at : at = start + 3
  OBVIOUS
<1>2. /\ Scans /\ Token("CHAR", at, 0)
      /\ odd' = (odd \/ Lines(start, start + 2) > 0)
  BY <1>1, Zenon DEF Character
<1>3. IsSource /\ Edge \in Nat /\ start \in 1 .. Edge
  BY <1>2, ScanSource, Characters, StartFacts
<1>4. PICK c : c = Capped(at)
  OBVIOUS
<1>5. c \in start .. start + 3 /\ at \in Int /\ at >= start
  BY <1>1, <1>3, <1>4, CappedFacts
<1>6. ~ odd' => ~ odd /\ 0 = Lines(start, Capped(at) - 1)
  <2> SUFFICES ASSUME ~ odd' PROVE ~ odd /\ 0 = Lines(start, c - 1)
    BY <1>4, Zenon
  <2>1. ~ odd /\ ~ (Lines(start, start + 2) > 0)
    BY <1>2, Zenon
  <2>2. Lines(start, start + 2) \in Nat
    BY <1>3, LinesType
  <2>3. \A j \in start .. start + 2 : At(j) # "\n"
    BY <1>3, <2>1, <2>2, LinesNone
  <2>4. \A j \in start .. c - 1 : At(j) # "\n"
    BY <1>3, <1>5, <2>3
  <2>5. Lines(start, c - 1) = 0
    BY <1>3, <1>5, <2>4, LinesNone
  <2> QED BY <2>1, <2>5, Zenon
<1>7. Capped(at) = Edge + 1 => MayLeave("CHAR", start, odd')
  BY DEF MayLeave
<1> QED BY <1>2, <1>5, <1>6, <1>7, TokenKeeps

LEMMA ScanInvInit == ScanInit => ScanInv
<1> SUFFICES ASSUME ScanInit PROVE ScanInv
  OBVIOUS
<1>1. /\ src \in Sources /\ current = 1 /\ line = 1
      /\ cur.type = "NONE"
  BY DEF ScanInit, NoToken
<1>2. IsSource /\ Edge \in Nat \ {0}
  BY <1>1, ScannerAssumption, Characters DEF IsSource
<1>3. Lines(1, current - 1) = 0
  BY <1>1, LinesNone
<1>4. StaysInside
  BY <1>1, <1>2 DEF StaysInside
<1>5. current \in 1 .. Edge + 1 /\ line \in Nat /\ line = 1 + Lines(1, current - 1)
  BY <1>1, <1>2, <1>3
<1> QED BY <1>1, <1>4, <1>5, Zenon DEF ScanInv

LEMMA ScanInvStutters == ScanInv /\ UNCHANGED scanVars => ScanInv'
<1> SUFFICES ASSUME ScanInv, UNCHANGED scanVars PROVE ScanInv'
  OBVIOUS
<1>1. /\ src' = src /\ current' = current /\ line' = line /\ cur' = cur
      /\ odd' = odd
  BY Zenon DEF scanVars
<1>2. StaysInside'
  BY <1>1, Zenon DEF ScanInv, StaysInside, Edge, Lines, At, Closes
<1>3. /\ src' \in Sources
      /\ current' \in 1 .. Edge' + 1 /\ line' \in Nat
      /\ cur'.type # "NONE" => cur'.to = current' - 1 /\ cur'.line = line'
      /\ cur'.type = "EOF" => cur'.from = Edge' /\ current' = Edge'
  BY <1>1, Zenon DEF ScanInv, Edge
<1>4. (~ odd => line = 1 + Lines(1, current - 1))'
  BY <1>1, Zenon DEF ScanInv, Lines, At
<1> QED BY <1>2, <1>3, <1>4, Zenon DEF ScanInv

LEMMA ScanInvNext == ScanInv /\ [ScanNext]_scanVars => ScanInv'
<1>1. ScanInv /\ Done => ScanInv'
  BY ScanInvStutters, Zenon DEF Done
<1> QED BY <1>1, AtEndKeeps, WordKeeps, NumberKeeps, OperatorKeeps,
           LineCommentKeeps, BlockCommentKeeps, StringKeeps, CharacterKeeps,
           UnknownKeeps, ScanInvStutters, Zenon DEF ScanNext

-----------------------------------------------------------------------------
(* The second invariant: a token has a character at least, holds no more   *)
(* line breaks than characters, and is what id_type says of its text if it *)
(* is a word.                                                              *)
ReadInv ==
    /\ {pre.type, cur.type} \subseteq Types
    /\ line \in 1 .. current
    /\ cur.type = "NONE" => cur = NoToken
    /\ cur.type \notin {"NONE", "EOF"} => cur.from <= cur.to
    /\ cur.type # "NONE" => /\ cur.from \in 1 .. Edge /\ pre.to \in Int
                            /\ pre.to < cur.from
    /\ cur.type \in WordTypes => /\ cur.to <= Edge - 1
                                 /\ IdType(Text(cur.from, cur.to)) = cur.type

LEMMA TokenReads ==
    ASSUME ScanInv, ReadInv, Scans, NEW type \in Types, NEW at \in Int,
           NEW nl \in Nat, Token(type, at, nl), type # "NONE", at >= start,
           type # "EOF" => at > start, nl <= Capped(at) - start,
           type \in WordTypes => /\ at <= Edge
                                 /\ IdType(Text(start, at - 1)) = type
    PROVE  ReadInv'
<1>1. IsSource /\ Edge \in Nat
  BY ScanSource, Characters
<1>2. start \in current .. Edge /\ start \in 1 .. Edge /\ current \in 1 .. Edge
  BY <1>1, StartFacts DEF ScanInv, Scans
<1>3. PICK c : c = Capped(at)
  OBVIOUS
<1>4. /\ c \in start .. Edge + 1 /\ (at <= Edge => c = at)
      /\ (at > start => c > start)
  BY <1>1, <1>2, <1>3, CappedFacts
<1>5. /\ src' = src /\ current' = c
      /\ line' = line + Lines(current, start - 1) + nl
      /\ cur' = [type |-> type, from |-> start, to |-> c - 1, line |-> line']
      /\ pre' = IF cur.type = "ERR" THEN pre ELSE cur
  BY <1>3 DEF Token
<1>6. PICK n : n = Lines(current, start - 1)
  OBVIOUS
<1>7. n \in Nat /\ n <= start - current
  BY <1>2, <1>6, LinesBound
<1>8. line' \in 1 .. current'
  <2>1. line \in 1 .. current /\ nl <= c - start
    BY <1>3 DEF ReadInv
  <2>2. line' = line + n + nl /\ current' = c
    BY <1>5, <1>6
  <2> QED BY <1>2, <1>4, <1>7, <2>1, <2>2
<1>9. Edge' = Edge
  BY <1>5 DEF Edge
<1>10. pre'.type \in Types /\ cur'.type \in Types
  BY <1>5 DEF ReadInv
<1>11. pre'.to \in Int /\ pre'.to < start
  <2>1. CASE cur.type = "NONE"
    <3>1. cur = NoToken
      BY <2>1 DEF ReadInv
    <3>2. pre'.to = 0
      BY <1>5, <2>1, <3>1 DEF NoToken
    <3> QED BY <1>2, <3>2
  <2>2. CASE cur.type # "NONE" /\ cur.type # "ERR"
    <3>1. pre'.to = current - 1
      BY <1>5, <2>2 DEF ScanInv
    <3> QED BY <1>2, <3>1
  <2>3. CASE cur.type = "ERR"
    <3>1. /\ pre.to \in Int /\ pre.to < cur.from /\ cur.from \in 1 .. Edge
          /\ cur.from <= cur.to /\ cur.to = current - 1 /\ pre' = pre
      BY <1>5, <2>3 DEF ScanInv, ReadInv
    <3> QED BY <1>1, <1>2, <3>1
  <2> QED BY <2>1, <2>2, <2>3
<1>12. cur'.type \notin {"NONE", "EOF"} => cur'.from <= cur'.to
  BY <1>2, <1>4, <1>5
<1>13. cur'.type \in WordTypes =>
          cur'.to <= Edge' - 1 /\ IdType(Text(cur'.from, cur'.to)) = cur'.type
  <2> SUFFICES ASSUME type \in WordTypes
               PROVE  /\ cur'.to <= Edge' - 1
                      /\ IdType(Text(cur'.from, cur'.to)) = cur'.type
    BY <1>5
  <2>1. at <= Edge /\ IdType(Text(start, at - 1)) = type
    OBVIOUS
  <2> QED BY <1>1, <1>4, <1>5, <1>9, <2>1
<1>14. IdType(Text(cur.from, cur.to))' = IdType(Text(cur'.from, cur'.to))
  BY <1>5, Zenon DEF Text, IdType, LetterAt, Decides, IsRest
<1>15. cur'.type # "NONE" /\ cur'.from = start
  BY <1>5
<1> QED BY <1>2, <1>8, <1>9, <1>10, <1>11, <1>12, <1>13, <1>14, <1>15
        DEF ReadInv

(* A token of some type that is no word, with no line break that counts.   *)
LEMMA PlainReads ==
    ASSUME ScanInv, ReadInv, Scans, NEW type \in Types, NEW at \in Int,
           Token(type, at, 0), type \notin {"NONE", "EOF"} \cup WordTypes,
           at > start
    PROVE  ReadInv'
<1>1. IsSource /\ Edge \in Nat /\ start \in 1 .. Edge
  BY StartFacts, ScanSource, Characters
<1>2. 0 <= Capped(at) - start /\ at >= start
  BY <1>1, CappedFacts
<1> QED BY <1>2, TokenReads

LEMMA AtEndReads == ScanInv /\ ReadInv /\ AtEnd => ReadInv'
<1> SUFFICES ASSUME ScanInv, ReadInv, AtEnd PROVE ReadInv'
  OBVIOUS
<1>1. Scans /\ first = NUL /\ Token("EOF", start, 0)
  BY Zenon DEF AtEnd
<1>2. IsSource /\ Edge \in Nat /\ start \in 1 .. Edge
  BY <1>1, ScanSource, Characters, StartFacts
<1>3. 0 <= Capped(start) - start
  BY <1>2, CappedFacts
<1> QED BY <1>1, <1>2, <1>3, WordTypesFacts, TokenReads

LEMMA WordReads == ScanInv /\ ReadInv /\ Word => ReadInv'
<1> SUFFICES ASSUME ScanInv, ReadInv, Word PROVE ReadInv'
  OBVIOUS
<1>1. PICK type : type = IdType(Text(start, WordEnd - 1))
  OBVIOUS
<1>2. Scans /\ first \in Letters /\ Token(type, WordEnd, 0)
  BY <1>1, Zenon DEF Word
<1>3. type \in WordTypes /\ type \in Types /\ type \notin {"NONE", "EOF"}
  BY <1>1, IdTypeIsWord, WordTypesFacts
<1>4. IsSource /\ Edge \in Nat /\ first # NUL
  BY <1>2, ScanSource, Characters, NoBreaks, Zenon
<1>5. start \in 1 .. Edge - 1 /\ start + 1 \in 1 .. Edge
  BY <1>2, <1>4, StartFacts
<1>6. WordEnd \in start + 1 .. Edge
  BY <1>4, <1>5, NoBreaks, BehindFacts DEF WordEnd
<1>7. /\ 0 <= Capped(WordEnd) - start /\ WordEnd > start /\ WordEnd >= start
      /\ WordEnd <= Edge /\ WordEnd \in Int
  BY <1>4, <1>5, <1>6, CappedFacts
<1> QED BY <1>1, <1>2, <1>3, <1>7, TokenReads

LEMMA NumberReads == ScanInv /\ ReadInv /\ Number => ReadInv'
<1> SUFFICES ASSUME ScanInv, ReadInv, Number PROVE ReadInv'
  OBVIOUS
<1>1. PICK k : k = Behind(Digits, start)
  OBVIOUS
<1>2. PICK e : e = IF At(k) = "." /\ At(k + 1) \in Digits
                   THEN Behind(Digits, k + 1) ELSE k
  OBVIOUS
<1>3. Scans /\ first \in Digits /\ Token("NUMBER", e, 0)
  BY <1>1, <1>2, Zenon DEF Number
<1>4. IsSource /\ Edge \in Nat /\ start \in 1 .. Edge /\ first = At(start)
  BY <1>3, ScanSource, Characters, StartFacts
<1>5. k \in start .. Edge /\ At(k) \notin Digits
  BY <1>1, <1>4, NoBreaks, BehindFacts
<1>6. k > start
  BY <1>3, <1>4, <1>5
<1>7. e \in k .. Edge
  <2>1. CASE At(k) = "." /\ At(k + 1) \in Digits
    <3>4. At(k) # NUL
      BY <2>1, NulIsNoMark
    <3>1. k \in 1 .. Edge - 1
      BY <1>4, <1>5, <3>4, Characters
    <3>2. k + 1 \in 1 .. Edge
      BY <1>4, <3>1
    <3>3. e \in k + 1 .. Edge
      BY <1>2, <1>4, <2>1, <3>2, NoBreaks, BehindFacts
    <3> QED BY <1>4, <1>5, <3>3
  <2>2. CASE ~ (At(k) = "." /\ At(k + 1) \in Digits)
    <3>1. e = k
      BY <1>2, <2>2
    <3> QED BY <1>4, <1>5, <3>1
  <2> QED BY <2>1, <2>2
<1>8. e \in Int /\ e > start
  BY <1>4, <1>5, <1>6, <1>7
<1> QED BY <1>3, <1>8, WordTypesFacts, PlainReads

LEMMA OperatorReads == ScanInv /\ ReadInv /\ Operator => ReadInv'
<1> SUFFICES ASSUME ScanInv, ReadInv, Operator PROVE ReadInv'
  OBVIOUS
<1>1. PICK m : m = Max({Len(t) : t \in OperatorsHere})
  OBVIOUS
<1>2. Scans /\ OperatorsHere # {} /\ Token("OP", start + m, 0)
  BY <1>1, Zenon DEF Operator
<1>3. IsSource /\ Edge \in Nat /\ start \in 1 .. Edge
  BY <1>2, ScanSource, Characters, StartFacts
<1>4. PICK t \in OperatorsHere : m = Len(t)
  BY <1>1, <1>2, <1>3, LongestOperator
<1>5. m \in 1 .. 3
  BY <1>3, <1>4, OperatorFound
<1>6. start + m \in Int /\ start + m > start
  BY <1>3, <1>5
<1> QED BY <1>2, <1>6, WordTypesFacts, PlainReads

LEMMA LineCommentReads == ScanInv /\ ReadInv /\ LineComment => ReadInv'
<1> SUFFICES ASSUME ScanInv, ReadInv, LineComment PROVE ReadInv'
  OBVIOUS
<1>1. PICK e : e = Next_({"\n"}, start + 1)
  OBVIOUS
<1>2. Scans /\ first = "/" /\ Token("LINE_COMMENT", e + 1, BreakAt(e))
  BY <1>1, Zenon DEF LineComment, IsComment
<1>3. IsSource /\ Edge \in Nat /\ first # NUL
  BY <1>2, ScanSource, Characters, NulIsNoMark
<1>4. start \in 1 .. Edge - 1 /\ start + 1 \in 1 .. Edge
  BY <1>2, <1>3, StartFacts
<1>5. e \in start + 1 .. Edge
  BY <1>1, <1>3, <1>4, NextFacts
<1>6. /\ e + 1 \in Int /\ e + 1 > start /\ e + 1 >= start
      /\ BreakAt(e) \in Nat /\ BreakAt(e) <= Capped(e + 1) - start
  BY <1>3, <1>4, <1>5, CappedFacts DEF BreakAt
<1> QED BY <1>2, <1>6, WordTypesFacts, TokenReads

LEMMA BlockCommentReads == ScanInv /\ ReadInv /\ BlockComment => ReadInv'
<1> SUFFICES ASSUME ScanInv, ReadInv, BlockComment PROVE ReadInv'
  OBVIOUS
<1>1. PICK e : e = InBlock(start + 2)
  OBVIOUS
<1>2. /\ Scans /\ first = "/" /\ At(start + 1) = "*"
      /\ Token("NLINE_COMMENT", e.at, e.nl)
  BY <1>1, Zenon DEF BlockComment, IsComment
<1>3. IsSource /\ Edge \in Nat /\ first # NUL /\ At(start + 1) # NUL
  BY <1>2, ScanSource, Characters, NulIsNoMark
<1>4. start \in 1 .. Edge - 1
  BY <1>2, <1>3, StartFacts
<1>5. start + 2 \in 1 .. Edge
  BY <1>3, <1>4, Characters
<1>6. BlockEnd(start + 2, e)
  BY <1>1, <1>3, <1>5, InBlockFacts
<1>7. e.at \in start + 3 .. Edge + 1 /\ e.nl \in Nat /\ start + 2 + e.nl <= e.at
  BY <1>3, <1>4, <1>5, <1>6 DEF BlockEnd
<1>8. /\ e.at \in Int /\ e.at > start /\ e.at >= start
      /\ e.nl <= Capped(e.at) - start
  BY <1>3, <1>4, <1>7, CappedFacts
<1> QED BY <1>2, <1>7, <1>8, WordTypesFacts, TokenReads

LEMMA StringReads == ScanInv /\ ReadInv /\ String => ReadInv'
<1> SUFFICES ASSUME ScanInv, ReadInv, String PROVE ReadInv'
  OBVIOUS
<1>1. PICK e : e = InString(first, start + 1)
  OBVIOUS
<1>2. PICK type : type = IF At(e.at) = NUL THEN "ERR"
                         ELSE IF first = Tick THEN "FMT_STR" ELSE "STR"
  OBVIOUS
<1>3. Scans /\ first # NUL /\ Token(type, Shut(e.at), e.nl)
  <2>1. first \in {"\"", Tick} => first # NUL
    BY NulIsNoMark, Zenon
  <2> QED BY <1>1, <1>2, <2>1, Zenon DEF String
<1>4. IsSource /\ Edge \in Nat
  BY ScanSource, Characters
<1>5. start \in 1 .. Edge - 1 /\ start + 1 \in 1 .. Edge
  BY <1>3, <1>4, StartFacts
<1>6. StringResult(first, start + 1, e)
  BY <1>1, <1>4, <1>5, InStringFacts
<1>7. /\ e.at \in start + 1 .. Edge + 1 /\ e.nl \in Nat
      /\ start + 1 + e.nl <= e.at
  BY <1>5, <1>6 DEF StringResult
<1>8. PICK at : at = Shut(e.at)
  OBVIOUS
<1>9. at \in e.at .. e.at + 1
  BY <1>4, <1>5, <1>7, <1>8 DEF Shut
<1>10. /\ at \in Int /\ at > start /\ at >= start
       /\ e.nl <= Capped(at) - start
  BY <1>4, <1>5, <1>7, <1>9, CappedFacts
<1>11. type \in {"ERR", "FMT_STR", "STR"}
  BY <1>2
<1>12. type \in Types /\ type \notin WordTypes /\ type \notin {"NONE", "EOF"}
  BY <1>11, WordTypesFacts
<1>13. Token(type, at, e.nl)
  BY <1>3, <1>8
<1> QED BY <1>3, <1>7, <1>10, <1>12, <1>13, TokenReads

LEMMA OthersRead == ScanInv /\ ReadInv /\ (Character \/ Unknown) => ReadInv'
<1> SUFFICES ASSUME ScanInv, ReadInv, Character \/ Unknown PROVE ReadInv'
  OBVIOUS
<1>1. /\ Scans
      /\ \/ Token("CHAR", start + 3, 0)
         \/ Token("ERR", start + 1, 0)
  BY Zenon DEF Character, Unknown
<1>2. start \in Int
  BY <1>1, ScanSource, Characters, StartFacts
<1>3. /\ start + 3 \in Int /\ start + 3 > start
      /\ start + 1 \in Int /\ start + 1 > start
  BY <1>2
<1> QED BY <1>1, <1>3, WordTypesFacts, PlainReads

LEMMA ReadInvInit == ScanInit => ReadInv
<1> SUFFICES ASSUME ScanInit PROVE ReadInv
  OBVIOUS
<1>1. /\ current = 1 /\ line = 1 /\ cur = NoToken /\ pre = NoToken
      /\ NoToken.type = "NONE"
  BY DEF ScanInit, NoToken
<1> QED BY <1>1, WordTypesFacts DEF ReadInv

LEMMA ReadInvStutters == ReadInv /\ UNCHANGED scanVars => ReadInv'
<1> SUFFICES ASSUME ReadInv, UNCHANGED scanVars PROVE ReadInv'
  OBVIOUS
<1>1. /\ src' = src /\ current' = current /\ line' = line /\ cur' = cur
      /\ pre' = pre
  BY Zenon DEF scanVars
<1> QED BY <1>1, Zenon DEF ReadInv, Edge, Text, IdType, LetterAt, Decides, IsRest

LEMMA ReadInvNext == ScanInv /\ ReadInv /\ [ScanNext]_scanVars => ReadInv'
<1>1. ReadInv /\ Done => ReadInv'
  BY ReadInvStutters, Zenon DEF Done
<1> QED BY <1>1, AtEndReads, WordReads, NumberReads, OperatorReads,
           LineCommentReads, BlockCommentReads, StringReads, OthersRead,
           ReadInvStutters, Zenon DEF ScanNext

-----------------------------------------------------------------------------
(* In every state of the scanner what was read is counted, and the tokens  *)
(* are what was read.                                                      *)
THEOREM ScannerInvariant == ScanSpec => [](ScanInv /\ ReadInv)
<1>1. ScanInit => ScanInv /\ ReadInv
  BY ScanInvInit, ReadInvInit
<1>2. ScanInv /\ ReadInv /\ [ScanNext]_scanVars => (ScanInv /\ ReadInv)'
  BY ScanInvNext, ReadInvNext
<1> QED BY <1>1, <1>2, PTL DEF ScanSpec

(* Type correctness of the scanner, and its progress: every token but EOF  *)
(* takes a character, behind those of the token before it.                 *)
THEOREM ScannerTypes == ScanSpec => []ScanTypeOK
<1>1. ScanInv /\ ReadInv => ScanTypeOK
  BY Zenon DEF ScanInv, ReadInv, ScanTypeOK
<1> QED BY <1>1, ScannerInvariant, PTL

(* A token carries the line it ends on (scan.line of scanner.c), up to the *)
(* first text whose line breaks the scanner does not count.                *)
THEOREM LinesRightAlways == ScanSpec => []LinesRight
<1>1. ScanInv /\ ReadInv => LinesRight
  <2> SUFFICES ASSUME ScanInv, ReadInv, cur.type # "NONE", ~ odd
               PROVE  cur.line = 1 + Lines(1, IF cur.type = "EOF" THEN cur.from
                                              ELSE cur.to)
    BY Zenon DEF LinesRight
  <2>1. /\ cur.to = current - 1 /\ cur.line = line
        /\ line = 1 + Lines(1, current - 1)
    BY Zenon DEF ScanInv
  <2>2. CASE cur.type = "EOF"
    <3>1. cur.from = Edge /\ current = Edge
      BY <2>2 DEF ScanInv
    <3>2. IsSource /\ Edge \in Nat \ {0}
      BY ScanSource, Characters
    <3>3. Lines(1, Edge) = Lines(1, Edge - 1) + Lines(Edge, Edge)
      BY <3>2, LinesAdd
    <3>4. Lines(Edge, Edge) = 0
      <4>1. At(Edge) = NUL
        BY <3>2, Characters
      <4>2. BreakAt(Edge) = 0
        BY <4>1, NulIsNoMark DEF BreakAt
      <4>3. Edge \in Int
        BY <3>2
      <4> QED BY <4>2, <4>3, LinesOne
    <3>5. Lines(1, Edge - 1) \in Nat
      BY <3>2, LinesType
    <3> QED BY <2>1, <2>2, <3>1, <3>3, <3>4, <3>5
  <2>3. CASE cur.type # "EOF"
    BY <2>1, <2>3
  <2> QED BY <2>2, <2>3
<1> QED BY <1>1, ScannerInvariant, PTL

(* The scanner goes past the end of the source only through a comment that *)
(* the end cuts off, a character literal, or a string that ends in a       *)
(* backslash.                                                              *)
THEOREM StaysInsideAlways == ScanSpec => []StaysInside
<1>1. ScanInv /\ ReadInv => StaysInside
  BY Zenon DEF ScanInv
<1> QED BY <1>1, ScannerInvariant, PTL

(* A name that id_type takes for a keyword is that keyword but for its     *)
(* first letter, whose case falls through to the keyword's own.            *)
THEOREM MisreadByTailAlways == ScanSpec => []MisreadByTail
<1>1. ScanInv /\ ReadInv => MisreadByTail
  <2> SUFFICES ASSUME ScanInv, ReadInv,
                      cur.type \in {Rows[k].token : k \in DOMAIN Rows}
               PROVE  MisreadByTail
    BY Zenon DEF MisreadByTail
  <2>1. PICK w : w = Text(cur.from, cur.to)
    OBVIOUS
  <2>2. IdType(w) = cur.type /\ cur.type # "ID" /\ cur.from \in 1 .. Edge
        /\ cur.from <= cur.to /\ cur.to <= Edge - 1
    BY <2>1, RowTokens, WordTypesFacts DEF ReadInv, WordTypes
  <2>3. w \in Seq(STRING)
    <3>1. IsSource /\ Edge \in Nat /\ DOMAIN src = 1 .. Edge - 1
      BY ScanSource, Characters
    <3>2. PICK m : m = Min({cur.to, Len(src)})
      OBVIOUS
    <3>3. Len(src) = Edge - 1 /\ cur.to \in Int
      <4>1. cur.type # "NONE" /\ current \in Int
        BY <3>1, WordTypesFacts DEF ScanInv, WordTypes
      <4>2. cur.to = current - 1
        BY <4>1 DEF ScanInv
      <4> QED BY <3>1, <4>1, <4>2 DEF Edge, IsSource
    <3>4. m \in Int /\ m <= Edge - 1
      <4>1. PICK t, l : t = cur.to /\ l = Len(src)
        OBVIOUS
      <4>2. t \in Int /\ l \in Int /\ l = Edge - 1
        BY <3>1, <3>3, <4>1
      <4>3. Min({t, l}) \in {t, l} /\ Min({t, l}) <= l
        BY <4>2, MinOfTwo
      <4>4. m = Min({t, l})
        BY <3>2, <4>1, Zenon
      <4> QED BY <4>2, <4>3, <4>4
    <3>5. PICK f : f = cur.from
      OBVIOUS
    <3>6. f \in Int /\ \A i \in f .. m : src[i] \in STRING
      BY <2>2, <3>1, <3>4, <3>5 DEF IsSource
    <3>7. SubSeq(src, f, m) \in Seq(STRING)
      BY <3>4, <3>6, SubSeqProperties
    <3> QED BY <2>1, <3>2, <3>5, <3>7, Zenon DEF Text
  <2>4. PICK k \in 1 .. 40 : DecidedBy(w, k) /\ IsRest(Rows[k], w)
                             /\ Rows[k].token = cur.type
    BY <2>2, IdTypeFacts, Zenon
  <2>5. LET s == Spelled(Rows[k])
        IN  /\ Len(s) = Len(w) /\ FallsTo(LetterAt(w, 1), Rows[k].from)
            /\ SubSeq(w, 2, Len(w)) = SubSeq(s, 2, Len(s))
    BY <2>3, <2>4, MisreadFacts
  <2> QED BY <2>1, <2>4, <2>5, RowTokens, Zenon DEF MisreadByTail
<1> QED BY <1>1, ScannerInvariant, PTL

(* A keyword is never read as a name: no case of id_type before its own    *)
(* decides on it.                                                          *)
THEOREM KeywordsKnownAlways == ScanSpec => []KeywordsKnown
<1>1. ScanInv /\ ReadInv => KeywordsKnown
  <2> SUFFICES ASSUME ReadInv, cur.type = "ID", NEW k \in Wanted,
                      Text(cur.from, cur.to) = Spelled(Rows[k])
               PROVE  FALSE
    BY Zenon DEF KeywordsKnown
  <2>1. IdType(Text(cur.from, cur.to)) = "ID"
    BY Zenon DEF ReadInv, WordTypes
  <2>2. Rows[k].token = "ID"
    BY <2>1, KeywordKnown
  <2> QED BY <2>2, RowTokens, Unwanted
<1> QED BY <1>1, ScannerInvariant, PTL
=============================================================================
