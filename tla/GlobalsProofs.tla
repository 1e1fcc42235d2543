---------------------------- MODULE GlobalsProofs ----------------------------
(***************************************************************************)
(* For all texts, names and numbers of rounds: what assignments replace is *)
(* freed (Reclaims), and values go wrong from known causes only, never in  *)
(* a disciplined program (SeesItsValues).                                  *)
(***************************************************************************)
EXTENDS Globals, TLAPS

(* Where a string is that nobody has forgotten.                            *)
Known(r) == r \in freed \cup Held(glob, local) \cup loose

GlobalsInv ==
    /\ DOMAIN glob \subseteq Vars /\ DOMAIN local \subseteq Locals
    /\ \A n : Fresh(n) \in DOMAIN lens => Known(Fresh(n))

(* A string is not a number, and one string only is numbered n.            *)
LEMMA FreshIs ==
    ASSUME NEW n, NEW m
    PROVE  Fresh(n) # Number /\ (Fresh(n) = Fresh(m) => n = m)
BY DEF Fresh, Number

(* The value of a name that is found is held.                              *)
LEMMA FoundHeld ==
    ASSUME GlobalsInv, NEW v \in Found
    PROVE  Val(v) \in Held(glob, local)
<1>1. CASE v \in Locals
  <2>1. v \in DOMAIN local
    BY <1>1, GlobalsAssumption DEF GlobalsInv, Found
  <2> QED BY <1>1, <2>1 DEF Val, Held
<1>2. CASE v \notin Locals
  <2>1. v \in DOMAIN glob
    BY <1>2 DEF GlobalsInv, Found
  <2> QED BY <1>2, <2>1 DEF Val, Held
<1> QED BY <1>1, <1>2

(* Evaluating an operand adds at most the string it makes.                 *)
LEMMA EffectsKept ==
    ASSUME NEW e, NEW gone, NEW looks, NEW held, Effects(e, gone, looks, held)
    PROVE  /\ freed \cup gone \subseteq freed'
           /\ \A r \in DOMAIN lens' :
                 r \in DOMAIN lens \/ (e.kind = "fresh" /\ r = Value(e))
<1>1. CASE e.kind = "fresh"
  <2>1. Value(e) = Fresh(Now)
    BY <1>1 DEF Value
  <2>2. DOMAIN lens' = DOMAIN lens \cup {Fresh(Now)}
    BY <1>1 DEF Effects, With
  <2> QED BY <1>1, <2>1, <2>2 DEF Effects
<1>2. CASE e.kind # "fresh"
  BY <1>2 DEF Effects
<1> QED BY <1>1, <1>2

LEMMA AssignKeeps == ASSUME GlobalsInv, Assign PROVE GlobalsInv'
<1> DEFINE e == Here.from
           v == Here.to
<1>1. /\ v \in Vars /\ glob' = Stored(v, Value(e)) /\ local' = local
      /\ Effects(e, Replaced(v) \cup OldKey(v), Casts(e), Held(glob', local))
      /\ loose' = loose \cup {glob[n].val : n \in Chained(v)}
  BY DEF Assign
<1>2. DOMAIN glob' = (DOMAIN glob \cup {v}) \ Chained(v)
  BY <1>1 DEF Stored
<1>3. v \notin Chained(v) /\ v \in DOMAIN glob'
  BY <1>2 DEF Chained
<1>4. glob'[v].val = Value(e)
  BY <1>1, <1>3 DEF Stored
<1>5. \A w \in DOMAIN glob' \ {v} : glob'[w] = glob[w] /\ w \in DOMAIN glob
  BY <1>1, <1>2 DEF Stored
<1>6. Value(e) \in Held(glob', local')
  BY <1>3, <1>4 DEF Held
<1>7. ASSUME NEW n, Known(Fresh(n)) PROVE Known(Fresh(n))'
  <2>1. freed \subseteq freed' /\ Replaced(v) \subseteq freed' /\ loose \subseteq loose'
    BY <1>1, EffectsKept
  <2>2. CASE Fresh(n) \in freed \cup loose
    BY <2>1, <2>2 DEF Known
  <2>3. ASSUME NEW w \in DOMAIN local, Fresh(n) = local[w]
        PROVE  Known(Fresh(n))'
    BY <1>1, <2>3 DEF Known, Held
  <2>4. ASSUME NEW w \in DOMAIN glob, Fresh(n) = glob[w].val
        PROVE  Known(Fresh(n))'
    <3>1. CASE w = v
      <4>1. Fresh(n) \in Replaced(v)
        BY <2>4, <3>1, FreshIs DEF Replaced
      <4> QED BY <2>1, <4>1 DEF Known
    <3>2. CASE w \in Chained(v)
      BY <1>1, <2>4, <3>2 DEF Known
    <3>3. CASE w # v /\ w \notin Chained(v)
      <4>1. w \in DOMAIN glob' \ {v}
        BY <1>2, <3>3
      <4>2. glob'[w].val = Fresh(n)
        BY <1>5, <2>4, <4>1
      <4>3. Fresh(n) \in Held(glob', local')
        BY <4>1, <4>2 DEF Held
      <4> QED BY <4>3 DEF Known
    <3> QED BY <3>1, <3>2, <3>3
  <2> QED BY <1>7, <2>2, <2>3, <2>4 DEF Known, Held
<1>8. DOMAIN glob' \subseteq Vars /\ DOMAIN local' \subseteq Locals
  BY <1>1, <1>2 DEF GlobalsInv
<1>9. ASSUME NEW n, Fresh(n) \in DOMAIN lens' PROVE Known(Fresh(n))'
  <2>1. CASE Fresh(n) \in DOMAIN lens
    BY <1>7, <2>1 DEF GlobalsInv
  <2>2. CASE Fresh(n) = Value(e)
    BY <1>6, <2>2 DEF Known
  <2> QED BY <1>1, <1>9, <2>1, <2>2, EffectsKept
<1> QED BY <1>8, <1>9 DEF GlobalsInv

LEMMA AssignLocalKeeps == ASSUME GlobalsInv, AssignLocal PROVE GlobalsInv'
<1> DEFINE e == Here.from
           v == Here.to
<1>1. /\ v \in Locals /\ local' = With(local, v, Value(e)) /\ glob' = glob
      /\ Effects(e, {}, Casts(e), Held(glob, local'))
      /\ loose' = loose \cup {local[n] : n \in {v} \cap DOMAIN local}
  BY DEF AssignLocal
<1>2. DOMAIN local' = DOMAIN local \cup {v}
  BY <1>1 DEF With
<1>3. local'[v] = Value(e) /\ \A w \in DOMAIN local \ {v} : local'[w] = local[w]
  BY <1>1 DEF With
<1>4. Value(e) \in Held(glob', local')
  BY <1>2, <1>3 DEF Held
<1>5. ASSUME NEW n, Known(Fresh(n)) PROVE Known(Fresh(n))'
  <2>1. freed \subseteq freed' /\ loose \subseteq loose'
    BY <1>1, EffectsKept
  <2>2. ASSUME NEW w \in DOMAIN local, Fresh(n) = local[w]
        PROVE  Known(Fresh(n))'
    <3>1. CASE w = v
      BY <1>1, <2>2, <3>1 DEF Known
    <3>2. CASE w # v
      <4>1. Fresh(n) \in Held(glob', local')
        BY <1>2, <1>3, <2>2, <3>2 DEF Held
      <4> QED BY <4>1 DEF Known
    <3> QED BY <3>1, <3>2
  <2>3. ASSUME NEW w \in DOMAIN glob, Fresh(n) = glob[w].val
        PROVE  Known(Fresh(n))'
    BY <1>1, <2>3 DEF Known, Held
  <2> QED BY <1>5, <2>1, <2>2, <2>3 DEF Known, Held
<1>6. DOMAIN glob' \subseteq Vars /\ DOMAIN local' \subseteq Locals
  BY <1>1, <1>2 DEF GlobalsInv
<1>7. ASSUME NEW n, Fresh(n) \in DOMAIN lens' PROVE Known(Fresh(n))'
  <2>1. CASE Fresh(n) \in DOMAIN lens
    BY <1>5, <2>1 DEF GlobalsInv
  <2>2. CASE Fresh(n) = Value(e)
    BY <1>4, <2>2 DEF Known
  <2> QED BY <1>1, <1>7, <2>1, <2>2, EffectsKept
<1> QED BY <1>6, <1>7 DEF GlobalsInv

(* A step that keeps the variables and forgets nothing.                    *)
LEMMA Quiet ==
    ASSUME GlobalsInv, glob' = glob, local' = local,
           freed \subseteq freed', loose \subseteq loose',
           \A n : Fresh(n) \in DOMAIN lens' =>
                    Fresh(n) \in DOMAIN lens \/ Known(Fresh(n))'
    PROVE  GlobalsInv'
<1>1. \A n : Known(Fresh(n)) => Known(Fresh(n))'
  BY DEF Known
<1> QED BY <1>1 DEF GlobalsInv

LEMMA PrintKeeps == ASSUME GlobalsInv, PrintTop PROVE GlobalsInv'
<1> DEFINE e == Here.from
<1>1. PICK looks :
        /\ Effects(e, {}, looks, Held(glob, local))
        /\ loose' = IF e.kind = "fresh" THEN loose \cup {Value(e)} ELSE loose
        /\ glob' = glob /\ local' = local
  BY DEF PrintTop
<1>2. freed \subseteq freed'
  BY <1>1, EffectsKept
<1>3. ASSUME NEW n, Fresh(n) \in DOMAIN lens', Fresh(n) \notin DOMAIN lens
      PROVE  Known(Fresh(n))'
  <2>1. e.kind = "fresh" /\ Fresh(n) = Value(e)
    BY <1>1, <1>3, EffectsKept
  <2> QED BY <1>1, <2>1 DEF Known
<1> QED BY <1>1, <1>2, <1>3, Quiet

LEMMA RemoveKeeps == ASSUME GlobalsInv, Remove PROVE GlobalsInv'
<1>1. /\ Effects(Nothing, {Val(Here.name)} \ {Number}, {}, Held(glob, local))
      /\ glob' = glob /\ local' = local /\ loose' = loose
  BY DEF Remove
<1>2. freed \subseteq freed' /\ lens' = lens
  BY <1>1 DEF Effects, Nothing
<1> QED BY <1>1, <1>2, Quiet

LEMMA PushKeeps == ASSUME GlobalsInv, Push PROVE GlobalsInv'
<1> DEFINE r == Val(Here.name)
<1>1. /\ Here.name \in Found /\ lens' = With(lens, r, LenOf(r) + 1)
      /\ glob' = glob /\ local' = local /\ freed' = freed /\ loose' = loose
  BY DEF Push
<1>2. r \in Held(glob, local)
  BY <1>1, FoundHeld
<1>3. DOMAIN lens' = DOMAIN lens \cup {r}
  BY <1>1 DEF With
<1>4. \A n : Fresh(n) = r => Known(Fresh(n))'
  BY <1>1, <1>2 DEF Known
<1> QED BY <1>1, <1>3, <1>4, Quiet

LEMMA BlockKeeps == ASSUME GlobalsInv, BlockEnds PROVE GlobalsInv'
<1>1. /\ glob' = glob /\ freed' = freed /\ lens' = lens
      /\ DOMAIN local' = {} /\ loose' = loose \cup {local[v] : v \in DOMAIN local}
  BY DEF BlockEnds
<1>2. \A n : Known(Fresh(n)) => Known(Fresh(n))'
  BY <1>1 DEF Known, Held
<1> QED BY <1>1, <1>2 DEF GlobalsInv

LEMMA InitInv == Init => GlobalsInv
<1> SUFFICES ASSUME Init PROVE GlobalsInv
  OBVIOUS
<1>1. \A n : Fresh(n) \notin DOMAIN lens
  BY DEF Init, Fresh, Literal
<1>2. DOMAIN glob = {} /\ DOMAIN local = {}
  BY DEF Init
<1> QED BY <1>1, <1>2 DEF GlobalsInv

LEMMA NextInv == GlobalsInv /\ [Next]_vars => GlobalsInv'
<1> SUFFICES ASSUME GlobalsInv, [Next]_vars PROVE GlobalsInv'
  OBVIOUS
<1>1. CASE Assign
  BY <1>1, AssignKeeps
<1>2. CASE AssignLocal
  BY <1>2, AssignLocalKeeps
<1>3. CASE PrintTop
  BY <1>3, PrintKeeps
<1>4. CASE Remove
  BY <1>4, RemoveKeeps
<1>5. CASE Push
  BY <1>5, PushKeeps
<1>6. CASE Fails
  <2>1. /\ glob' = glob /\ local' = local /\ freed' = freed /\ loose' = loose
        /\ lens' = lens
    BY <1>6 DEF Fails
  <2> QED BY <2>1, Quiet
<1>7. CASE Again \/ Done
  BY <1>7, BlockKeeps DEF Again, Done
<1>8. CASE UNCHANGED vars
  <2>1. /\ glob' = glob /\ local' = local /\ freed' = freed /\ loose' = loose
        /\ lens' = lens
    BY <1>8 DEF vars, history
  <2> QED BY <2>1, Quiet
<1> QED BY <1>1, <1>2, <1>3, <1>4, <1>5, <1>6, <1>7, <1>8 DEF Next

(* Whatever a text does, in whatever buckets its names fall: a string made *)
(* at run time is freed, or some variable has it, or it was printed, the   *)
(* value of a local, or in the chain of a global that was overwritten.     *)
THEOREM GlobalsReclaim == Spec => []Reclaims
<1>1. GlobalsInv => Reclaims
  BY DEF GlobalsInv, Reclaims, Known
<1> QED BY <1>1, InitInv, NextInv, PTL DEF Spec

-----------------------------------------------------------------------------
(* What is so whatever went before: where the text is, which statement a   *)
(* stored key is from, that a key was freed only if its statement ran, and *)
(* that statements in front of the block run once.                         *)
IsValue(r) == \/ r = Number
              \/ \E i \in 1 .. Len(text) : r = Literal(i)
              \/ \E n \in 1 .. Len(length) : r = Fresh(n)

Place ==
    /\ text \in Seq(Statement)
    /\ loop \in 1 .. Len(text) + 1 /\ pc \in 1 .. Len(text) + 1
    /\ \A i \in 1 .. Len(text) :
          /\ i >= loop /\ text[i].op = "var" => text[i].to \in Locals
          /\ i < loop => Mentions(text[i]) \cap Locals = {}

Numbered ==
    /\ length \in Seq(Nat) /\ lens \in [DOMAIN lens -> Nat]
    /\ ran \in [1 .. Len(text) -> Nat]
    /\ \A i \in 1 .. Len(text) : i >= pc /\ i < loop => ran[i] = 0
    /\ \A i \in 1 .. Len(text) : Literal(i) \in DOMAIN lens
    /\ \A n : Fresh(n) \in DOMAIN lens \cup freed => n \in 1 .. Len(length)

Keyed ==
    /\ DOMAIN glob \subseteq Vars /\ DOMAIN local \subseteq Locals
    /\ heads \subseteq DOMAIN glob
    /\ together => \A v, w \in heads : v = w
    /\ \A v \in DOMAIN glob : LET i == glob[v].key IN
          i \in 1 .. Len(text) /\ text[i].to = v /\ ran[i] > 0
    /\ \A i : KeyOf(i) \in freed => i \in 1 .. Len(text) /\ ran[i] > 0
    /\ \A v \in Found : IsValue(Val(v))

(* What is so until one of the causes occurs: a variable has the object it *)
(* means, of the length it should be; a literal nobody freed or pushed to  *)
(* is empty; the keys of the table are there.                              *)
Fit(r, n) ==
    r # Number => /\ r \notin freed /\ r \in DOMAIN lens
                  /\ n \in 1 .. Len(length) /\ lens[r] = length[n]

Clean ==
    /\ \A v \in Found : v \in DOMAIN meant /\ Fit(Val(v), meant[v])
    /\ \A v, w \in Found :
          Val(v) # Number /\ Val(w) # Number /\ meant[v] = meant[w] => Val(v) = Val(w)
    /\ \A i \in (1 .. Len(text)) \ spent :
          Literal(i) \notin freed /\ lens[Literal(i)] = 0
    /\ \A v \in DOMAIN glob : KeyOf(glob[v].key) \notin freed
    /\ DOMAIN meant \cap Vars \subseteq DOMAIN glob

(* What is so in a disciplined program: an object has one owner, the       *)
(* variable its statement assigns to.                                      *)
Owned ==
    /\ \A v \in Found : \A i \in 1 .. Len(text) :
          Val(v) = Literal(i) => /\ text[i].to = v
                                 /\ v \in Vars => i < pc /\ i < loop
    /\ \A v, w \in Found : Val(v) # Number /\ Val(v) = Val(w) => v = w
    /\ \A i \in spent : i \in 1 .. Len(text) /\ i < pc /\ i < loop

SeesInv ==
    /\ Place /\ Numbered /\ Keyed
    /\ wrong # {} => causes # {}
    /\ phase = "run" => wrong = {}
    /\ phase = "run" /\ causes = {} => Clean
    /\ Disciplined => causes = {} /\ Owned

-----------------------------------------------------------------------------
(* Evaluating an operand                                                   *)

LEMMA Objects ==
    ASSUME NEW i, NEW j
    PROVE  /\ Literal(i) # Number /\ Fresh(i) # Number /\ KeyOf(i) # Number
           /\ Literal(i) # Fresh(j) /\ Literal(i) # KeyOf(j) /\ Fresh(i) # KeyOf(j)
           /\ (Literal(i) = Literal(j) => i = j) /\ (KeyOf(i) = KeyOf(j) => i = j)
BY DEF Literal, Fresh, KeyOf, Number

Evaluable(e) == Bound(e) /\ (e.kind = "cast" => Val(e.name) # Number)

(* What is freed beside what the operand eats: values, and keys of         *)
(* statements that ran.                                                    *)
Freeable(gone) ==
    \A r \in gone : \/ IsValue(r)
                    \/ \E i \in 1 .. Len(text) : r = KeyOf(i) /\ ran[i] > 0

LEMMA EatenValue ==
    ASSUME Keyed, NEW e, Evaluable(e), NEW r \in Eaten(e)
    PROVE  IsValue(r) /\ e.kind = "cast" /\ r = Val(e.name) /\ e.name \in Found
<1>1. e.kind = "cast" /\ r = Val(e.name) /\ e.name \in Found
  BY DEF Eaten, Evaluable, Bound, Names
<1> QED BY <1>1 DEF Keyed

LEMMA LengthAfter ==
    ASSUME Numbered, NEW e, NEW gone, NEW looks, NEW held,
           Effects(e, gone, looks, held)
    PROVE  /\ length' \in Seq(Nat) /\ Len(length) \in Nat
           /\ Len(length') = IF Makes(e) THEN Now ELSE Len(length)
           /\ \A n \in 1 .. Len(length) : length'[n] = length[n]
           /\ Makes(e) => length'[Now] = 0
<1>1. length \in Seq(Nat) /\ Len(length) \in Nat
  BY DEF Numbered
<1>2. CASE Makes(e)
  <2>1. length' = Append(length, 0)
    BY <1>2 DEF Effects
  <2> QED BY <1>1, <1>2, <2>1 DEF Now
<1>3. CASE ~ Makes(e)
  <2>1. length' = length
    BY <1>3 DEF Effects
  <2> QED BY <1>1, <1>3, <2>1
<1> QED BY <1>2, <1>3

LEMMA ValuesStay ==
    ASSUME Numbered, NEW e, NEW gone, NEW looks, NEW held,
           Effects(e, gone, looks, held), text' = text, NEW r, IsValue(r)
    PROVE  IsValue(r)'
<1>1. Len(length) \in Nat /\ Len(length') \in Nat /\ Len(length) <= Len(length')
  BY LengthAfter DEF Now
<1>2. 1 .. Len(length) \subseteq 1 .. Len(length')
  BY <1>1
<1> QED BY <1>2 DEF IsValue

LEMMA NewIsValue ==
    ASSUME Numbered, Keyed, NEW e, NEW gone, NEW looks, NEW held, Evaluable(e),
           Effects(e, gone, looks, held), text' = text, pc \in 1 .. Len(text),
           NEW r, r = Value(e)
    PROVE  IsValue(r)'
<1>1. CASE e.kind = "literal"
  BY <1>1 DEF Value, IsValue
<1>2. CASE e.kind = "fresh"
  <2>1. Makes(e) /\ r = Fresh(Now)
    BY <1>2 DEF Value, Makes
  <2>2. Len(length') = Now /\ Now \in 1 .. Now
    BY <2>1, LengthAfter DEF Now
  <2> QED BY <2>1, <2>2 DEF IsValue
<1>3. CASE e.kind = "name"
  <2>1. r = Val(e.name) /\ e.name \in Found
    BY <1>3 DEF Value, Evaluable, Bound, Names
  <2>2. IsValue(r)
    BY <2>1 DEF Keyed
  <2> QED BY <2>2, ValuesStay
<1>4. CASE e.kind \notin {"literal", "fresh", "name"}
  BY <1>4 DEF Value, IsValue
<1> QED BY <1>1, <1>2, <1>3, <1>4

LEMMA LensAfter ==
    ASSUME Numbered, NEW e, NEW gone, NEW looks, NEW held,
           Effects(e, gone, looks, held)
    PROVE  /\ lens' \in [DOMAIN lens' -> Nat]
           /\ DOMAIN lens \subseteq DOMAIN lens'
           /\ \A r \in DOMAIN lens : lens'[r] = lens[r]
           /\ e.kind = "fresh" => Fresh(Now) \in DOMAIN lens' /\ lens'[Fresh(Now)] = 0
           /\ \A r \in DOMAIN lens' : r \in DOMAIN lens \/ (e.kind = "fresh" /\ r = Fresh(Now))
<1>1. lens \in [DOMAIN lens -> Nat]
  BY DEF Numbered
<1>2. CASE e.kind = "fresh"
  <2>1. lens' = With(lens, Fresh(Now), 0)
    BY <1>2 DEF Effects
  <2>2. Fresh(Now) \notin DOMAIN lens
    <3>1. Len(length) \in Nat
      BY DEF Numbered
    <3> QED BY <3>1 DEF Numbered, Now
  <2> QED BY <1>1, <1>2, <2>1, <2>2 DEF With
<1>3. CASE e.kind # "fresh"
  <2>1. lens' = lens
    BY <1>3 DEF Effects
  <2> QED BY <1>1, <1>3, <2>1
<1> QED BY <1>2, <1>3

LEMMA NumberedAfter ==
    ASSUME Place, Numbered, Keyed, NEW e, NEW gone, NEW looks, NEW held,
           Evaluable(e), Effects(e, gone, looks, held), Freeable(gone),
           pc \in 1 .. Len(text), pc' = pc + 1, UNCHANGED <<text, loop>>
    PROVE  /\ Place' /\ Numbered'
           /\ \A i : KeyOf(i) \in freed' => i \in 1 .. Len(text) /\ ran'[i] > 0
           /\ \A i \in 1 .. Len(text) : ran[i] > 0 => ran'[i] > 0
           /\ ran'[pc] > 0
<1>1. /\ Len(text) \in Nat /\ pc + 1 \in 1 .. Len(text) + 1
      /\ ran \in [1 .. Len(text) -> Nat] /\ ran' = [ran EXCEPT ![pc] = @ + 1]
  BY DEF Place, Numbered, Effects
<1>2. /\ ran' \in [1 .. Len(text) -> Nat] /\ ran'[pc] = ran[pc] + 1
      /\ \A i \in 1 .. Len(text) : i # pc => ran'[i] = ran[i]
  BY <1>1
<1>3. Place'
  BY <1>1 DEF Place
<1>4. \A i \in 1 .. Len(text) : i >= pc' /\ i < loop' => ran'[i] = 0
  BY <1>1, <1>2 DEF Numbered, Place
<1>5. \A i \in 1 .. Len(text) : Literal(i) \in DOMAIN lens'
  BY LensAfter DEF Numbered
<1>6. ASSUME NEW n, Fresh(n) \in DOMAIN lens' \cup freed'
      PROVE  n \in 1 .. Len(length')
  <2>1. /\ length' \in Seq(Nat) /\ Len(length) \in Nat
        /\ Len(length') = IF Makes(e) THEN Now ELSE Len(length)
    BY LengthAfter
  <2>2. 1 .. Len(length) \subseteq 1 .. Len(length')
    BY <2>1 DEF Now
  <2>3. CASE n \in 1 .. Len(length)
    BY <2>2, <2>3
  <2>4. CASE Fresh(n) \in DOMAIN lens \cup freed
    BY <2>3, <2>4 DEF Numbered
  <2>5. CASE e.kind = "fresh" /\ Fresh(n) = Fresh(Now)
    <3>1. n = Now
      BY <2>5, FreshIs
    <3>2. Makes(e)
      BY <2>5 DEF Makes
    <3> QED BY <2>1, <3>1, <3>2 DEF Now
  <2>6. ASSUME IsValue(Fresh(n)) PROVE n \in 1 .. Len(length)
    <3>1. PICK m \in 1 .. Len(length) : Fresh(n) = Fresh(m)
      BY <2>6, Objects DEF IsValue
    <3> QED BY <3>1, FreshIs
  <2>7. CASE Fresh(n) \in Eaten(e)
    BY <2>3, <2>6, <2>7, EatenValue
  <2>8. CASE Fresh(n) \in gone
    BY <2>3, <2>6, <2>8, Objects DEF Freeable
  <2>9. freed' = freed \cup Eaten(e) \cup gone
    BY DEF Effects
  <2> QED BY <1>6, <2>4, <2>5, <2>7, <2>8, <2>9, LensAfter
<1>7. Numbered'
  <2>1. length' \in Seq(Nat) /\ lens' \in [DOMAIN lens' -> Nat]
    BY LengthAfter, LensAfter
  <2> QED BY <1>2, <1>4, <1>5, <1>6, <2>1 DEF Numbered
<1>8. ASSUME NEW i, KeyOf(i) \in freed' PROVE i \in 1 .. Len(text) /\ ran'[i] > 0
  <2>1. ~ IsValue(KeyOf(i))
    BY Objects DEF IsValue
  <2>2. KeyOf(i) \in freed \cup gone
    BY <1>8, <2>1, EatenValue DEF Effects
  <2>3. i \in 1 .. Len(text) /\ ran[i] > 0
    <3>1. CASE KeyOf(i) \in freed
      BY <3>1 DEF Keyed
    <3>2. CASE KeyOf(i) \in gone
      BY <2>1, <3>2, Objects DEF Freeable
    <3> QED BY <2>2, <3>1, <3>2
  <2> QED BY <1>1, <1>2, <2>3
<1>9. \A i \in 1 .. Len(text) : ran[i] > 0 => ran'[i] > 0
  BY <1>1, <1>2
<1> QED BY <1>1, <1>2, <1>3, <1>7, <1>8, <1>9

-----------------------------------------------------------------------------
(* While no cause has occurred                                             *)

LEMMA NoCause ==
    ASSUME Keyed, NEW e, NEW gone, NEW looks, NEW held, Evaluable(e),
           Effects(e, gone, looks, held), causes' = {}
    PROVE  /\ causes = {} /\ Eaten(e) = {} /\ gone \cap held = {}
           /\ e.kind # "cast"
           /\ e.kind = "literal" => pc \notin spent
           /\ Here.op = "set" /\ Here.to \in Vars => ~ (ran[pc] > 0)
           /\ Here.op = "set" => Chained(Here.to) = {}
           /\ freed' = freed \cup gone
<1>1. /\ causes = {} /\ Eaten(e) \cap Held(glob, local) = {} /\ gone \cap held = {}
      /\ e.kind = "literal" => pc \notin spent
      /\ Here.op = "set" /\ Here.to \in Vars => ~ (ran[pc] > 0)
      /\ Here.op = "set" => Chained(Here.to) = {}
  <2>1. causes' = causes
         \cup (IF Eaten(e) \cap Held(glob, local) = {} /\ gone \cap held = {}
               THEN {} ELSE {"shared"})
         \cup (IF e.kind = "literal" /\ pc \in spent THEN {"literal"} ELSE {})
         \cup (IF Here.op = "set" /\ Here.to \in Vars /\ ran[pc] > 0 THEN {"again"} ELSE {})
         \cup (IF Here.op = "set" /\ Chained(Here.to) # {} THEN {"chain"} ELSE {})
    BY DEF Effects
  <2> QED BY <2>1
<1>2. ASSUME e.kind = "cast" PROVE FALSE
  <2>1. Val(e.name) \in Eaten(e) /\ e.name \in Found
    BY <1>2 DEF Eaten, Evaluable, Bound, Names
  <2>2. Val(e.name) \in Held(glob, local)
    <3>1. CASE e.name \in Locals
      <4>1. e.name \in DOMAIN local
        BY <2>1, <3>1, GlobalsAssumption DEF Keyed, Found
      <4> QED BY <3>1, <4>1 DEF Val, Held
    <3>2. CASE e.name \notin Locals
      <4>1. e.name \in DOMAIN glob
        BY <2>1, <3>2 DEF Keyed, Found
      <4> QED BY <3>2, <4>1 DEF Val, Held
    <3> QED BY <3>1, <3>2
  <2> QED BY <1>1, <2>1, <2>2
<1>3. Eaten(e) = {}
  BY <1>2 DEF Eaten
<1> QED BY <1>1, <1>2, <1>3 DEF Effects

LEMMA FitStays ==
    ASSUME Numbered, NEW e, NEW gone, NEW looks, NEW held,
           Effects(e, gone, looks, held), freed' = freed \cup gone,
           NEW r, NEW n, Fit(r, n), r \notin gone
    PROVE  Fit(r, n)'
<1> SUFFICES ASSUME r # Number
             PROVE  /\ r \notin freed' /\ r \in DOMAIN lens'
                    /\ n \in 1 .. Len(length') /\ lens'[r] = length'[n]
  BY DEF Fit
<1>1. r \notin freed /\ r \in DOMAIN lens /\ n \in 1 .. Len(length)
      /\ lens[r] = length[n]
  BY DEF Fit
<1>2. lens'[r] = lens[r] /\ r \in DOMAIN lens'
  BY <1>1, LensAfter
<1>3. length'[n] = length[n]
  BY <1>1, LengthAfter
<1>4. n \in 1 .. Len(length')
  <2>1. Len(length) \in Nat /\ Len(length') \in Nat /\ Len(length) <= Len(length')
    BY LengthAfter DEF Now
  <2> QED BY <1>1, <2>1
<1> QED BY <1>1, <1>2, <1>3, <1>4

LEMMA NewFits ==
    ASSUME Place, Numbered, Keyed, Clean,
           NEW e, NEW gone, NEW looks, NEW held, Evaluable(e),
           Effects(e, gone, looks, held), causes' = {}, pc \in 1 .. Len(text),
           NEW r, NEW n, r = Value(e), n = Meaning(e), r \notin gone
    PROVE  Fit(r, n)'
<1>1. /\ e.kind # "cast" /\ (e.kind = "literal" => pc \notin spent)
      /\ freed' = freed \cup gone
  BY NoCause
<1>2. Len(length) \in Nat /\ (Makes(e) => Len(length') = Now /\ length'[Now] = 0)
      /\ Now \in 1 .. Now /\ Now > Len(length)
  <2>1. length \in Seq(Nat)
    BY DEF Numbered
  <2> QED BY <2>1, LengthAfter DEF Now
<1>3. CASE e.kind = "literal"
  <2>1. r = Literal(pc) /\ n = Now /\ Makes(e)
    BY <1>3 DEF Value, Meaning, Makes
  <2>2. r \notin freed /\ lens[r] = 0
    BY <1>1, <1>3, <2>1 DEF Clean
  <2>3. r \in DOMAIN lens
    BY <2>1 DEF Numbered
  <2>4. r \in DOMAIN lens' /\ lens'[r] = lens[r]
    BY <2>3, LensAfter
  <2> QED BY <1>1, <1>2, <2>1, <2>2, <2>4 DEF Fit
<1>4. CASE e.kind = "fresh"
  <2>1. r = Fresh(Now) /\ n = Now /\ Makes(e)
    BY <1>4 DEF Value, Meaning, Makes
  <2>2. r \notin freed
    BY <1>2, <2>1 DEF Numbered
  <2>3. r \in DOMAIN lens' /\ lens'[r] = 0
    BY <1>4, <2>1, LensAfter
  <2> QED BY <1>1, <1>2, <2>1, <2>2, <2>3 DEF Fit
<1>5. CASE e.kind = "name"
  <2>1. r = Val(e.name) /\ n = meant[e.name] /\ e.name \in Found
    BY <1>5 DEF Value, Meaning, Evaluable, Bound, Names, Makes
  <2>2. Fit(r, n)
    BY <2>1 DEF Clean
  <2>3. Fit(r, n)'
    BY <1>1, <2>2, FitStays
  <2> QED BY <2>3
<1>6. CASE e.kind \notin {"literal", "fresh", "name"}
  <2>1. r = Number /\ n = 0
    BY <1>6 DEF Value, Meaning, Makes
  <2> QED BY <1>2, <2>1 DEF Fit
<1> QED BY <1>3, <1>4, <1>5, <1>6

(* What is looked at is what is meant.                                     *)
LEMMA NothingSeen ==
    ASSUME Place, Numbered, Keyed, Clean,
           NEW e, NEW gone, NEW looks, NEW held, Evaluable(e),
           Effects(e, gone, looks, held), causes' = {}, pc \in 1 .. Len(text)
    PROVE  Casts(e) = {} /\ Look(Value(e), Meaning(e)) = {}
<1>1. /\ e.kind # "cast" /\ (e.kind = "literal" => pc \notin spent)
  BY NoCause
<1>2. length \in Seq(Nat) /\ Len(length) \in Nat /\ Now > Len(length)
  <2>1. length \in Seq(Nat)
    BY DEF Numbered
  <2> QED BY <2>1 DEF Now
<1>3. CASE e.kind = "literal"
  <2>1. Value(e) = Literal(pc) /\ Meaning(e) = Now
    BY <1>3 DEF Value, Meaning, Makes
  <2>2. Literal(pc) \notin freed /\ lens[Literal(pc)] = 0
    BY <1>1, <1>3 DEF Clean
  <2> QED BY <1>1, <2>1, <2>2 DEF Look, LenOf, Casts
<1>4. CASE e.kind = "fresh"
  <2>1. Value(e) = Fresh(Now) /\ Meaning(e) = Now
    BY <1>4 DEF Value, Meaning, Makes
  <2>2. Fresh(Now) \notin freed /\ Fresh(Now) \notin DOMAIN lens
    BY <1>2 DEF Numbered
  <2> QED BY <1>1, <2>1, <2>2 DEF Look, LenOf, Casts
<1>5. CASE e.kind = "name"
  <2>1. PICK r, n : /\ r = Val(e.name) /\ n = meant[e.name] /\ e.name \in Found
                    /\ Value(e) = r /\ Meaning(e) = n
    BY <1>5 DEF Value, Meaning, Evaluable, Bound, Names, Makes
  <2>2. Fit(r, n)
    BY <2>1 DEF Clean
  <2>3. Look(r, n) = {}
    BY <1>2, <2>2 DEF Look, LenOf, Fit
  <2> QED BY <1>1, <2>1, <2>3 DEF Casts
<1>6. CASE e.kind \notin {"literal", "fresh", "name"}
  BY <1>1, <1>6 DEF Value, Look, Casts
<1> QED BY <1>3, <1>4, <1>5, <1>6

(* An object that is still held fits, whoever was assigned to.             *)
LEMMA FitsAfter ==
    ASSUME Place, Numbered, Keyed, Clean,
           NEW e, NEW gone, NEW looks, NEW held, Evaluable(e),
           Effects(e, gone, looks, held), causes' = {}, pc \in 1 .. Len(text),
           NEW v, NEW r, NEW n, r = Value(e), n = Meaning(e),
           \A w \in Found' :
              /\ w \in DOMAIN meant'
              /\ \/ w = v /\ Val(w)' = r /\ meant'[w] = n
                 \/ w \in Found /\ Val(w)' = Val(w) /\ meant'[w] = meant[w]
              /\ Val(w)' \notin gone
    PROVE  /\ \A w \in Found' : w \in DOMAIN meant' /\ Fit(Val(w), meant[w])'
           /\ \A w, x \in Found' :
                 Val(w)' # Number /\ Val(x)' # Number /\ meant'[w] = meant'[x]
                    => Val(w)' = Val(x)'
<1>1. freed' = freed \cup gone
  BY NoCause
<1>2. ASSUME NEW w \in Found' PROVE Fit(Val(w), meant[w])'
  <2>1. PICK s, m : s = Val(w)' /\ m = meant'[w]
    OBVIOUS
  <2>2. CASE s = r /\ m = n
    <3>1. r \notin gone
      BY <2>1, <2>2
    <3>2. Fit(r, n)'
      BY <3>1, NewFits
    <3> QED BY <2>1, <2>2, <3>2 DEF Fit
  <2>3. CASE w \in Found /\ s = Val(w) /\ m = meant[w]
    <3>1. Fit(s, m) /\ s \notin gone
      BY <2>1, <2>3 DEF Clean
    <3>2. Fit(s, m)'
      BY <1>1, <3>1, FitStays
    <3> QED BY <2>1, <3>2 DEF Fit
  <2> QED BY <2>1, <2>2, <2>3
<1>3. ASSUME NEW w \in Found, Val(w) # Number, r # Number, meant[w] = n, r \notin gone
      PROVE  Val(w) = r
  <2>1. n \in 1 .. Len(length)
    BY <1>3 DEF Clean, Fit
  <2>2. length \in Seq(Nat)
    BY DEF Numbered
  <2>3. ~ Makes(e)
    BY <2>1, <2>2 DEF Meaning, Now
  <2>4. e.kind = "name"
    BY <1>3, <2>3, NoCause DEF Value, Makes
  <2>5. e.name \in Found /\ r = Val(e.name) /\ n = meant[e.name]
    BY <2>4 DEF Value, Meaning, Makes, Evaluable, Bound, Names
  <2> QED BY <1>3, <2>5 DEF Clean
<1>4. ASSUME NEW w \in Found', NEW x \in Found', Val(w)' # Number, Val(x)' # Number,
             meant'[w] = meant'[x]
      PROVE  Val(w)' = Val(x)'
  <2>1. CASE Val(w)' = r /\ meant'[w] = n
    <3>1. CASE Val(x)' = r
      BY <2>1, <3>1
    <3>2. CASE x \in Found /\ Val(x)' = Val(x) /\ meant'[x] = meant[x]
      <4>1. r \notin gone
        BY <2>1
      <4> QED BY <1>3, <1>4, <2>1, <3>2, <4>1
    <3> QED BY <3>1, <3>2
  <2>2. CASE w \in Found /\ Val(w)' = Val(w) /\ meant'[w] = meant[w]
    <3>1. CASE Val(x)' = r /\ meant'[x] = n
      <4>1. r \notin gone
        BY <3>1
      <4> QED BY <1>3, <1>4, <2>2, <3>1, <4>1
    <3>2. CASE x \in Found /\ Val(x)' = Val(x) /\ meant'[x] = meant[x]
      BY <1>4, <2>2, <3>2 DEF Clean
    <3> QED BY <3>1, <3>2
  <2> QED BY <2>1, <2>2
<1> QED BY <1>2, <1>4

LEMMA LiteralsAfter ==
    ASSUME Place, Numbered, Keyed, Clean,
           NEW e, NEW gone, NEW looks, NEW held, Evaluable(e),
           Effects(e, gone, looks, held), causes' = {}, text' = text
    PROVE  /\ \A i \in (1 .. Len(text')) \ spent' :
                 Literal(i) \notin freed' /\ lens'[Literal(i)] = 0
<1> SUFFICES ASSUME NEW i \in (1 .. Len(text)) \ spent'
             PROVE  Literal(i) \notin freed' /\ lens'[Literal(i)] = 0
  OBVIOUS
<1>1. freed' = freed \cup gone
  BY NoCause
<1>2. i \notin spent /\ Literal(i) \notin gone
  BY DEF Effects
<1>3. Literal(i) \notin freed /\ lens[Literal(i)] = 0 /\ Literal(i) \in DOMAIN lens
  BY <1>2 DEF Clean, Numbered
<1> QED BY <1>1, <1>2, <1>3, LensAfter

(* In a disciplined program no cause occurs, if nothing held is freed.     *)
LEMMA DisciplinedCauses ==
    ASSUME Place, Numbered, Disciplined, Owned, causes = {},
           NEW e, NEW gone, NEW looks, NEW held,
           Effects(e, gone, looks, held), e.kind # "cast", pc \in 1 .. Len(text),
           gone \cap held = {}
    PROVE  causes' = {}
<1>1. Eaten(e) = {}
  BY DEF Eaten
<1>2. pc \notin spent
  BY DEF Owned, Place
<1>3. ~ (Here.op = "set" /\ Here.to \in Vars /\ ran[pc] > 0)
  <2> SUFFICES ASSUME Here.op = "set", Here.to \in Vars, ran[pc] > 0 PROVE FALSE
    OBVIOUS
  <2>1. ~ (pc >= loop)
    BY GlobalsAssumption DEF Disciplined, Here
  <2>2. pc < loop /\ pc >= pc
    BY <2>1 DEF Place
  <2> QED BY <2>2 DEF Numbered
<1>4. Chained(Here.to) = {}
  BY DEF Disciplined, Chained, Mates
<1> QED BY <1>1, <1>2, <1>3, <1>4 DEF Effects

LEMMA NewLiteral ==
    ASSUME NEW e, Names(e) = {}, NEW i, Value(e) = Literal(i)
    PROVE  i = pc /\ e.kind = "literal"
<1>1. e.kind \notin {"name", "cast"}
  BY DEF Names
<1>2. e.kind # "fresh"
  BY Objects DEF Value
<1>3. e.kind = "literal"
  BY <1>1, <1>2, Objects DEF Value
<1> QED BY <1>3, Objects DEF Value

(* In a disciplined program nobody has what an operand makes, but a local  *)
(* that has it from the same statement.                                    *)
LEMMA NewOwner ==
    ASSUME Place, Numbered, Keyed, Owned, pc \in 1 .. Len(text),
           NEW e, Names(e) = {}, Value(e) # Number,
           NEW w \in Found, Val(w) = Value(e)
    PROVE  text[pc].to = w /\ w \notin Vars
<1>1. CASE e.kind = "literal"
  <2>1. Val(w) = Literal(pc)
    BY <1>1 DEF Value
  <2>2. text[pc].to = w /\ (w \in Vars => pc < pc)
    BY <2>1 DEF Owned
  <2>3. pc \in Int
    BY DEF Place
  <2> QED BY <2>2, <2>3
<1>2. CASE e.kind = "fresh"
  <2>1. Val(w) = Fresh(Now)
    BY <1>2 DEF Value
  <2>2. IsValue(Val(w))
    BY DEF Keyed
  <2>3. PICK n \in 1 .. Len(length) : Fresh(Now) = Fresh(n)
    BY <2>1, <2>2, Objects DEF IsValue
  <2>4. Now = n /\ Len(length) \in Nat
    BY <2>3, FreshIs DEF Numbered
  <2> QED BY <2>4 DEF Now
<1>3. CASE e.kind \notin {"literal", "fresh"}
  BY <1>3 DEF Value, Names
<1> QED BY <1>1, <1>2, <1>3

-----------------------------------------------------------------------------
(* The statements                                                          *)

LEMMA VarsNotLocals == \A v \in Vars : v \notin Locals
BY GlobalsAssumption

LEMMA HeldIs ==
    ASSUME Keyed, NEW r
    PROVE  r \in Held(glob, local) <=> \E v \in Found : r = Val(v)
<1>1. ASSUME r \in Held(glob, local) PROVE \E v \in Found : r = Val(v)
  <2>1. CASE \E v \in DOMAIN glob : r = glob[v].val
    BY <2>1, VarsNotLocals DEF Keyed, Found, Val
  <2>2. CASE \E v \in DOMAIN local : r = local[v]
    BY <2>2 DEF Keyed, Found, Val
  <2> QED BY <1>1, <2>1, <2>2 DEF Held
<1>2. ASSUME NEW v \in Found, r = Val(v) PROVE r \in Held(glob, local)
  <2>1. CASE v \in Locals
    BY <1>2, <2>1, VarsNotLocals DEF Keyed, Found, Val, Held
  <2>2. CASE v \notin Locals
    BY <1>2, <2>2 DEF Keyed, Found, Val, Held
  <2> QED BY <2>1, <2>2
<1> QED BY <1>1, <1>2

HeldAll == \A r : r \in Held(glob, local) <=> \E v \in Found : r = Val(v)

LEMMA HeldAre == Keyed => HeldAll
BY HeldIs DEF HeldAll

LEMMA AssignFacts ==
    ASSUME SeesInv, Assign, NEW v, v = Here.to, NEW e, e = Here.from
    PROVE  /\ Place /\ Numbered /\ Keyed /\ pc \in 1 .. Len(text)
           /\ phase = "run" /\ wrong = {}
           /\ v \in Vars /\ v \notin Locals /\ text[pc].to = v
           /\ Here.op \in {"var", "set"}
           /\ Here.op = "var" => v \notin DOMAIN glob /\ pc < loop
           /\ Evaluable(e) /\ Freeable(Replaced(v) \cup OldKey(v))
           /\ pc' = pc + 1 /\ UNCHANGED <<text, loop, together, local>>
           /\ Effects(e, Replaced(v) \cup OldKey(v), Casts(e), Held(glob', local))
           /\ DOMAIN glob' = (DOMAIN glob \cup {v}) \ Chained(v)
           /\ v \in DOMAIN glob'
           /\ glob'[v].val = Value(e)
           /\ glob'[v].key = IF v \in DOMAIN glob \ heads THEN glob[v].key ELSE pc
           /\ \A w \in DOMAIN glob' \ {v} : w \in DOMAIN glob /\ glob'[w] = glob[w]
<1>1. Place /\ Numbered /\ Keyed /\ phase = "run" /\ wrong = {}
  BY DEF SeesInv, Assign, At
<1>2. pc \in 1 .. Len(text) /\ text[pc].op \in {"var", "set"} /\ Here = text[pc]
  BY <1>1 DEF Assign, At, Place, Here
<1>3. v \in Vars /\ v \notin Locals
  BY VarsNotLocals DEF Assign
<1>4. ASSUME Here.op = "var" PROVE v \notin DOMAIN glob /\ pc < loop
  BY <1>1, <1>2, <1>3, <1>4 DEF Assign, Place
<1>5. Evaluable(e)
  <2>1. Bound(e) /\ ~ CastsNumber
    BY DEF Assign
  <2> QED BY <1>2, <2>1 DEF Evaluable, CastsNumber
<1>6. ASSUME NEW r \in Replaced(v) \cup OldKey(v)
      PROVE  IsValue(r) \/ \E i \in 1 .. Len(text) : r = KeyOf(i) /\ ran[i] > 0
  <2>1. CASE r \in Replaced(v)
    <3>1. v \in DOMAIN glob /\ r = glob[v].val
      BY <2>1 DEF Replaced
    <3>2. v \in Found /\ r = Val(v)
      BY <1>3, <3>1 DEF Found, Val
    <3> QED BY <1>1, <3>2 DEF Keyed
  <2>2. CASE r \in OldKey(v)
    BY <1>1, <2>2 DEF OldKey, Keyed
  <2> QED BY <1>6, <2>1, <2>2
<1>7. /\ pc' = pc + 1 /\ UNCHANGED <<text, loop, together, local>>
      /\ Effects(e, Replaced(v) \cup OldKey(v), Casts(e), Held(glob', local))
      /\ glob' = Stored(v, Value(e))
  BY DEF Assign, Go, program
<1>8. /\ DOMAIN glob' = (DOMAIN glob \cup {v}) \ Chained(v)
      /\ v \in DOMAIN glob'
      /\ glob'[v].val = Value(e)
      /\ glob'[v].key = IF v \in DOMAIN glob \ heads THEN glob[v].key ELSE pc
      /\ \A w \in DOMAIN glob' \ {v} : w \in DOMAIN glob /\ glob'[w] = glob[w]
  <2>1. v \notin Chained(v)
    BY DEF Chained
  <2> QED BY <1>7, <2>1 DEF Stored
<1> QED BY <1>1, <1>2, <1>3, <1>4, <1>5, <1>6, <1>7, <1>8 DEF Freeable

(* Afterwards a name has the new value or keeps its own.                   *)
LEMMA AssignFound ==
    ASSUME SeesInv, Assign, NEW v, v = Here.to, NEW e, e = Here.from
    PROVE  \A w \in Found' :
              \/ w = v /\ Val(w)' = Value(e)
              \/ w # v /\ w \in Found /\ Val(w)' = Val(w)
<1> SUFFICES ASSUME NEW w \in Found'
             PROVE  \/ w = v /\ Val(w)' = Value(e)
                    \/ w # v /\ w \in Found /\ Val(w)' = Val(w)
  OBVIOUS
<1>1. w \in DOMAIN glob' \/ w \in DOMAIN local
  BY AssignFacts DEF Found
<1>2. CASE w = v
  BY <1>2, AssignFacts DEF Val
<1>3. CASE w # v /\ w \in DOMAIN glob'
  <2>1. w \in DOMAIN glob /\ glob'[w] = glob[w] /\ w \notin Locals
    BY <1>3, AssignFacts, VarsNotLocals DEF Keyed
  <2> QED BY <1>3, <2>1 DEF Found, Val
<1>4. CASE w # v /\ w \in DOMAIN local
  BY <1>4, AssignFacts DEF Found, Val, Keyed
<1> QED BY <1>1, <1>2, <1>3, <1>4

LEMMA AssignKeyed ==
    ASSUME SeesInv, Assign
    PROVE  Place' /\ Numbered' /\ Keyed'
<1>1. PICK v, e : v = Here.to /\ e = Here.from
  OBVIOUS
<1> DEFINE gone == Replaced(v) \cup OldKey(v)
<1>2. /\ Place /\ Numbered /\ Keyed /\ pc \in 1 .. Len(text)
      /\ v \in Vars /\ text[pc].to = v
      /\ Evaluable(e) /\ Freeable(gone)
      /\ pc' = pc + 1 /\ UNCHANGED <<text, loop, together, local>>
      /\ Effects(e, gone, Casts(e), Held(glob', local))
  BY <1>1, AssignFacts
<1>3. /\ DOMAIN glob' = (DOMAIN glob \cup {v}) \ Chained(v)
      /\ v \in DOMAIN glob'
      /\ glob'[v].key = IF v \in DOMAIN glob \ heads THEN glob[v].key ELSE pc
      /\ \A w \in DOMAIN glob' \ {v} : w \in DOMAIN glob /\ glob'[w] = glob[w]
  BY <1>1, AssignFacts
<1>4. /\ Place' /\ Numbered'
      /\ \A i : KeyOf(i) \in freed' => i \in 1 .. Len(text) /\ ran'[i] > 0
      /\ \A i \in 1 .. Len(text) : ran[i] > 0 => ran'[i] > 0
      /\ ran'[pc] > 0
  BY <1>2, NumberedAfter
<1>5. heads' \subseteq DOMAIN glob' /\ (together => \A x, w \in heads' : x = w)
  <2>1. heads' = IF Mates(v) \cap heads = {} THEN heads \cup {v} ELSE heads
    BY <1>1 DEF Assign
  <2>2. heads \cap Chained(v) = {}
    BY <1>2 DEF Chained, Mates, Keyed
  <2>3. heads \subseteq DOMAIN glob' /\ heads \subseteq Vars
    BY <1>2, <1>3, <2>2 DEF Keyed
  <2>4. together => \A x, w \in heads' : x = w
    BY <1>2, <2>1, <2>3 DEF Mates, Keyed
  <2> QED BY <1>3, <2>1, <2>3, <2>4
<1>6. ASSUME NEW w \in DOMAIN glob'
      PROVE  /\ glob'[w].key \in 1 .. Len(text) /\ text[glob'[w].key].to = w
             /\ ran'[glob'[w].key] > 0
  <2>1. CASE w = v /\ glob'[v].key = pc
    BY <1>2, <1>4, <2>1
  <2>2. CASE w \in DOMAIN glob /\ glob'[w].key = glob[w].key
    BY <1>2, <1>4, <2>2 DEF Keyed
  <2> QED BY <1>3, <2>1, <2>2
<1>7. ASSUME NEW w \in Found' PROVE IsValue(Val(w))'
  <2>1. PICK r : r = Val(w)'
    OBVIOUS
  <2>2. CASE r = Value(e)
    <3>1. IsValue(r)'
      BY <1>2, <2>2, NewIsValue
    <3> QED BY <2>1, <3>1 DEF IsValue
  <2>3. CASE w \in Found /\ r = Val(w)
    <3>1. IsValue(r)
      BY <1>2, <2>3 DEF Keyed
    <3>2. IsValue(r)'
      BY <1>2, <3>1, ValuesStay
    <3> QED BY <2>1, <3>2 DEF IsValue
  <2> QED BY <1>1, <2>1, <2>2, <2>3, AssignFound
<1>8. DOMAIN glob' \subseteq Vars /\ DOMAIN local' \subseteq Locals
  BY <1>2, <1>3 DEF Keyed
<1>9. Keyed'
  <2>1. \A w \in Found' : IsValue(Val(w))'
    BY <1>7 DEF IsValue
  <2>2. text' = text /\ together' = together
    BY <1>2
  <2> QED BY <1>4, <1>5, <1>6, <1>8, <2>1, <2>2 DEF Keyed
<1> QED BY <1>4, <1>9

LEMMA AssignClean ==
    ASSUME SeesInv, Assign, causes' = {}
    PROVE  wrong' = {} /\ Clean'
<1>1. PICK v, e : v = Here.to /\ e = Here.from
  OBVIOUS
<1> DEFINE gone == Replaced(v) \cup OldKey(v)
<1>2. /\ Place /\ Numbered /\ Keyed /\ pc \in 1 .. Len(text)
      /\ phase = "run" /\ v \in Vars /\ v \notin Locals /\ text[pc].to = v
      /\ Here.op \in {"var", "set"}
      /\ Here.op = "var" => v \notin DOMAIN glob /\ pc < loop
      /\ Evaluable(e)
      /\ pc' = pc + 1 /\ UNCHANGED <<text, loop, together, local>>
      /\ Effects(e, gone, Casts(e), Held(glob', local))
  BY <1>1, AssignFacts
<1>3. /\ DOMAIN glob' = (DOMAIN glob \cup {v}) \ Chained(v)
      /\ v \in DOMAIN glob'
      /\ glob'[v].key = IF v \in DOMAIN glob \ heads THEN glob[v].key ELSE pc
      /\ \A w \in DOMAIN glob' \ {v} : w \in DOMAIN glob /\ glob'[w] = glob[w]
  BY <1>1, AssignFacts
<1>4. /\ causes = {} /\ Eaten(e) = {} /\ gone \cap Held(glob', local) = {}
      /\ Here.op = "set" => ~ (ran[pc] > 0) /\ Chained(v) = {}
      /\ freed' = freed \cup gone
  BY <1>1, <1>2, NoCause
<1>5. Clean
  BY <1>2, <1>4 DEF SeesInv
<1>6. meant' = With(meant, v, Meaning(e))
  BY <1>1 DEF Assign
<1>7. ASSUME NEW w \in Found'
      PROVE  /\ w \in DOMAIN meant'
             /\ \/ w = v /\ Val(w)' = Value(e) /\ meant'[w] = Meaning(e)
                \/ w \in Found /\ Val(w)' = Val(w) /\ meant'[w] = meant[w]
             /\ Val(w)' \notin gone
  <2>1. Val(w)' \in Held(glob', local')
    <3>1. Keyed'
      BY AssignKeyed
    <3>2. (Keyed => HeldAll)'
      BY HeldAre, PTL
    <3> QED BY <3>1, <3>2 DEF HeldAll
  <2>2. Val(w)' \notin gone
    BY <1>2, <1>4, <2>1
  <2>3. CASE w = v /\ Val(w)' = Value(e)
    BY <1>6, <2>2, <2>3 DEF With
  <2>4. CASE w # v /\ w \in Found /\ Val(w)' = Val(w)
    <3>1. w \in DOMAIN meant
      BY <1>5, <2>4 DEF Clean
    <3> QED BY <1>6, <2>2, <2>4, <3>1 DEF With
  <2> QED BY <1>1, <2>3, <2>4, AssignFound
<1>8. PICK r, n : r = Value(e) /\ n = Meaning(e)
  OBVIOUS
<1>9. \A w \in Found' :
         /\ w \in DOMAIN meant'
         /\ \/ w = v /\ Val(w)' = r /\ meant'[w] = n
            \/ w \in Found /\ Val(w)' = Val(w) /\ meant'[w] = meant[w]
         /\ Val(w)' \notin gone
  BY <1>7, <1>8
<1>10. /\ \A w \in Found' : w \in DOMAIN meant' /\ Fit(Val(w), meant[w])'
       /\ \A w, x \in Found' :
             Val(w)' # Number /\ Val(x)' # Number /\ meant'[w] = meant'[x]
                => Val(w)' = Val(x)'
  <2> HIDE DEF gone
  <2> QED BY <1>2, <1>5, <1>8, <1>9, FitsAfter
<1>11. \A i \in (1 .. Len(text')) \ spent' :
          Literal(i) \notin freed' /\ lens'[Literal(i)] = 0
  <2> HIDE DEF gone
  <2> QED BY <1>2, <1>5, LiteralsAfter
<1>12. v \in DOMAIN glob => Val(v) = glob[v].val /\ v \in Found
  BY <1>2 DEF Val, Found
<1>13. ~ (ran[pc] > 0)
  BY <1>2, <1>4 DEF Numbered, Place
<1>14. ASSUME NEW w \in DOMAIN glob' PROVE KeyOf(glob'[w].key) \notin freed'
  <2>1. \A k : KeyOf(k) \notin Replaced(v)
    <3>1. \A r1 \in Replaced(v) : IsValue(r1)
      BY <1>2, <1>12 DEF Keyed, Replaced
    <3> QED BY <3>1, Objects DEF IsValue
  <2>2. CASE w # v
    <3>1. w \in DOMAIN glob /\ glob'[w].key = glob[w].key
      BY <1>3, <2>2
    <3>2. KeyOf(glob[w].key) \notin freed
      BY <1>5, <3>1 DEF Clean
    <3>3. KeyOf(glob[w].key) \notin OldKey(v)
      <4> SUFFICES ASSUME KeyOf(glob[w].key) \in OldKey(v) PROVE FALSE
        OBVIOUS
      <4>1. v \in DOMAIN glob /\ glob[w].key = glob[v].key
        BY <1>2, Objects DEF OldKey, Keyed
      <4> QED BY <1>2, <2>2, <3>1, <4>1 DEF Keyed
    <3> QED BY <1>4, <2>1, <3>1, <3>2, <3>3
  <2>3. CASE w = v /\ v \in DOMAIN glob \ heads
    <3>1. OldKey(v) = {} /\ glob'[v].key = glob[v].key
      BY <1>3, <2>3 DEF OldKey
    <3>2. KeyOf(glob[v].key) \notin freed
      BY <1>5, <2>3 DEF Clean
    <3> QED BY <1>4, <2>1, <2>3, <3>1, <3>2
  <2>4. CASE w = v /\ v \notin DOMAIN glob \ heads
    <3>1. glob'[w].key = pc
      BY <1>3, <2>4
    <3>2. KeyOf(pc) \notin freed
      BY <1>2, <1>13 DEF Keyed
    <3>3. KeyOf(pc) \notin OldKey(v)
      <4> SUFFICES ASSUME KeyOf(pc) \in OldKey(v) PROVE FALSE
        OBVIOUS
      <4>1. v \in DOMAIN glob /\ pc = glob[v].key
        BY <1>2, Objects DEF OldKey, Keyed
      <4> QED BY <1>2, <1>13, <4>1 DEF Keyed
    <3> QED BY <1>4, <2>1, <3>1, <3>2, <3>3
  <2> QED BY <2>2, <2>3, <2>4
<1>15. DOMAIN meant' \cap Vars \subseteq DOMAIN glob'
  <2>1. Chained(v) = {}
    BY <1>2, <1>4 DEF Chained, Keyed
  <2>2. DOMAIN meant' = DOMAIN meant \cup {v}
    BY <1>6 DEF With
  <2> QED BY <1>3, <1>5, <2>1, <2>2 DEF Clean
<1>16. Clean'
  BY <1>2, <1>10, <1>11, <1>14, <1>15 DEF Clean
<1>17. wrong' = {}
  <2>1. Casts(e) = {}
    <3> HIDE DEF gone
    <3> QED BY <1>2, <1>5, NothingSeen
  <2>2. gone \cap freed = {}
    <3>1. Replaced(v) \cap freed = {}
      BY <1>5, <1>12 DEF Clean, Fit, Replaced
    <3>2. OldKey(v) \cap freed = {}
      BY <1>2, <1>5 DEF Clean, OldKey, Keyed
    <3> QED BY <3>1, <3>2
  <2> QED BY <1>2, <1>4, <2>1, <2>2 DEF Effects
<1> QED BY <1>16, <1>17

LEMMA AssignOwned ==
    ASSUME SeesInv, Assign, Disciplined
    PROVE  causes' = {} /\ Owned'
<1>1. PICK v, e : v = Here.to /\ e = Here.from
  OBVIOUS
<1> DEFINE gone == Replaced(v) \cup OldKey(v)
<1>2. /\ Place /\ Numbered /\ Keyed /\ pc \in 1 .. Len(text)
      /\ v \in Vars /\ v \notin Locals /\ text[pc].to = v
      /\ Here.op \in {"var", "set"} /\ (Here.op = "var" => pc < loop)
      /\ pc' = pc + 1 /\ UNCHANGED <<text, loop, together, local>>
      /\ Effects(e, gone, Casts(e), Held(glob', local))
  BY <1>1, AssignFacts
<1>3. Owned /\ causes = {} /\ Names(e) = {} /\ e.kind # "cast" /\ pc < loop
  <2>1. Names(e) = {}
    BY <1>1, <1>2 DEF Disciplined, Here
  <2>2. e.kind # "cast"
    BY <2>1 DEF Names
  <2>3. pc < loop
    BY <1>1, <1>2 DEF Disciplined, Here, Place
  <2> QED BY <2>1, <2>2, <2>3 DEF SeesInv
<1>4. v \in DOMAIN glob => Val(v) = glob[v].val /\ v \in Found
  BY <1>2 DEF Val, Found
<1>5. \A w \in Found' : \/ w = v /\ Val(w)' = Value(e)
                        \/ w # v /\ w \in Found /\ Val(w)' = Val(w)
  BY <1>1, AssignFound
<1>6. \A w \in Found : Value(e) # Number => Val(w) # Value(e)
  <2> SUFFICES ASSUME NEW w \in Found, Value(e) # Number, Val(w) = Value(e)
               PROVE  FALSE
    OBVIOUS
  <2>1. text[pc].to = w /\ w \notin Vars
    BY <1>2, <1>3, NewOwner
  <2> QED BY <1>2, <2>1
<1>7. gone \cap Held(glob', local) = {}
  <2> SUFFICES ASSUME NEW x \in gone, x \in Held(glob', local') PROVE FALSE
    BY <1>2
  <2>1. Keyed'
    BY AssignKeyed
  <2>2. PICK w \in Found' : x = Val(w)'
    <3>1. (Keyed => HeldAll)'
      BY HeldAre, PTL
    <3> QED BY <2>1, <3>1 DEF HeldAll
  <2>3. IsValue(Val(w))'
    BY <2>1, <2>2 DEF Keyed
  <2>4. x \notin OldKey(v)
    BY <2>2, <2>3, Objects DEF OldKey, IsValue
  <2>5. v \in Found /\ x = Val(v) /\ x # Number
    BY <1>4, <2>4 DEF Replaced
  <2>6. CASE w = v /\ Val(w)' = Value(e)
    BY <1>6, <2>2, <2>5, <2>6
  <2>7. CASE w # v /\ w \in Found /\ Val(w)' = Val(w)
    BY <1>3, <2>2, <2>5, <2>7 DEF Owned
  <2> QED BY <1>5, <2>6, <2>7
<1>8. causes' = {}
  <2> HIDE DEF gone
  <2> QED BY <1>2, <1>3, <1>7, DisciplinedCauses
<1>9. ASSUME NEW w \in Found', NEW i \in 1 .. Len(text), Val(w)' = Literal(i)
      PROVE  text[i].to = w /\ (w \in Vars => i < pc + 1 /\ i < loop)
  <2>1. CASE w = v /\ Val(w)' = Value(e)
    <3>0. Value(e) = Literal(i)
      BY <1>9, <2>1
    <3>1. i = pc
      BY <1>3, <3>0, NewLiteral
    <3> QED BY <1>2, <1>3, <2>1, <3>1
  <2>2. CASE w # v /\ w \in Found /\ Val(w)' = Val(w)
    <3>1. Val(w) = Literal(i)
      BY <1>9, <2>2
    <3>2. text[i].to = w /\ (w \in Vars => i < pc /\ i < loop)
      BY <1>3, <2>2, <3>1 DEF Owned
    <3> QED BY <1>2, <3>2
  <2> QED BY <1>5, <2>1, <2>2
<1>10. ASSUME NEW w \in Found', NEW x \in Found', Val(w)' # Number, Val(w)' = Val(x)'
       PROVE  w = x
  <2>1. CASE w = v /\ Val(w)' = Value(e)
    BY <1>5, <1>6, <1>10, <2>1
  <2>2. CASE w # v /\ w \in Found /\ Val(w)' = Val(w)
    <3>1. CASE x = v /\ Val(x)' = Value(e)
      BY <1>6, <1>10, <2>2, <3>1
    <3>2. CASE x # v /\ x \in Found /\ Val(x)' = Val(x)
      BY <1>3, <1>10, <2>2, <3>2 DEF Owned
    <3> QED BY <1>5, <3>1, <3>2
  <2> QED BY <1>5, <2>1, <2>2
<1>11. ASSUME NEW i \in spent'
       PROVE  i \in 1 .. Len(text) /\ i < pc + 1 /\ i < loop
  <2>1. CASE i \in spent
    <3>1. i \in 1 .. Len(text) /\ i < pc /\ i < loop
      BY <1>3, <2>1 DEF Owned
    <3> QED BY <1>2, <3>1
  <2>2. CASE i \in 1 .. Len(text) /\ Literal(i) \in Eaten(e) \cup gone
    <3>1. Eaten(e) = {}
      BY <1>3 DEF Eaten
    <3>2. Literal(i) \in Replaced(v)
      BY <2>2, <3>1, Objects DEF OldKey
    <3>3. v \in Found /\ Val(v) = Literal(i)
      BY <1>4, <3>2 DEF Replaced
    <3> QED BY <1>2, <1>3, <2>2, <3>3 DEF Owned
  <2>3. spent' = spent \cup {k \in 1 .. Len(text) : Literal(k) \in Eaten(e) \cup gone}
    BY <1>2 DEF Effects
  <2> QED BY <2>1, <2>2, <2>3
<1>12. Owned'
  BY <1>2, <1>9, <1>10, <1>11 DEF Owned
<1> QED BY <1>8, <1>12

(* What SeesInv says of a step that is not a new way to go wrong.          *)
SeesStep ==
    /\ Place' /\ Numbered' /\ Keyed'
    /\ causes' = {} => wrong' = {} /\ Clean'
    /\ Disciplined => causes' = {} /\ Owned'
    /\ wrong' = {} \/ phase' # "run"
    /\ UNCHANGED program

LEMMA StepKeeps == SeesStep => SeesInv'
<1>1. ASSUME UNCHANGED program PROVE Disciplined' <=> Disciplined
  <2>1. text' = text /\ loop' = loop /\ together' = together
    BY <1>1 DEF program
  <2>2. ASSUME Disciplined PROVE Disciplined'
    BY <2>1, <2>2, Zenon DEF Disciplined
  <2>3. ASSUME Disciplined' PROVE Disciplined
    BY <2>1, <2>3, Zenon DEF Disciplined
  <2> QED BY <2>2, <2>3
<1> QED BY <1>1 DEF SeesStep, SeesInv

LEMMA GoStops == Go => UNCHANGED program /\ (wrong' = {} \/ phase' # "run")
BY DEF Go

LEMMA AssignSees == ASSUME SeesInv, Assign PROVE SeesInv'
<1>1. Go
  BY DEF Assign
<1> QED BY <1>1, AssignKeyed, AssignClean, AssignOwned, GoStops, StepKeeps DEF SeesStep

LEMMA AssignLocalSees == ASSUME SeesInv, AssignLocal PROVE SeesInv'
<1>1. PICK v, e : v = Here.to /\ e = Here.from
  OBVIOUS
<1>2. /\ Place /\ Numbered /\ Keyed /\ phase = "run" /\ pc \in 1 .. Len(text)
      /\ v \in Locals /\ v \notin Vars /\ text[pc].to = v
      /\ Here.op \in {"var", "set"} /\ Here = text[pc]
  BY <1>1, VarsNotLocals DEF SeesInv, AssignLocal, At, Place, Here
<1>3. /\ pc' = pc + 1 /\ UNCHANGED <<text, loop, together, glob, heads>>
      /\ Effects(e, {}, Casts(e), Held(glob, local'))
      /\ local' = With(local, v, Value(e)) /\ meant' = With(meant, v, Meaning(e))
      /\ Go
  BY <1>1 DEF AssignLocal, Go, program
<1>4. Evaluable(e)
  <2>1. Bound(e) /\ ~ CastsNumber
    BY <1>1 DEF AssignLocal
  <2> QED BY <1>1, <1>2, <2>1 DEF Evaluable, CastsNumber
<1>5. Freeable({})
  BY DEF Freeable
<1>6. /\ Place' /\ Numbered'
      /\ \A i : KeyOf(i) \in freed' => i \in 1 .. Len(text) /\ ran'[i] > 0
      /\ \A i \in 1 .. Len(text) : ran[i] > 0 => ran'[i] > 0
  BY <1>2, <1>3, <1>4, <1>5, NumberedAfter
<1>7. DOMAIN local' = DOMAIN local \cup {v} /\ local'[v] = Value(e)
      /\ \A w \in DOMAIN local \ {v} : local'[w] = local[w]
  BY <1>3 DEF With
<1>8. ASSUME NEW w \in Found'
      PROVE  \/ w = v /\ Val(w)' = Value(e)
             \/ w # v /\ w \in Found /\ Val(w)' = Val(w)
  <2>1. w \in DOMAIN glob \/ w \in DOMAIN local'
    BY <1>3 DEF Found
  <2>2. CASE w = v
    BY <1>2, <1>7, <2>2 DEF Val
  <2>3. CASE w # v /\ w \in DOMAIN glob
    BY <1>2, <1>3, <2>3, VarsNotLocals DEF Keyed, Val, Found
  <2>4. CASE w # v /\ w \in DOMAIN local
    BY <1>2, <1>7, <2>4 DEF Keyed, Val, Found
  <2> QED BY <1>7, <2>1, <2>2, <2>3, <2>4
<1>9. Keyed'
  <2>1. ASSUME NEW w \in Found' PROVE IsValue(Val(w))'
    <3>1. PICK r : r = Val(w)'
      OBVIOUS
    <3>2. CASE r = Value(e)
      <4>1. IsValue(r)'
        BY <1>2, <1>3, <1>4, <3>2, NewIsValue
      <4> QED BY <3>1, <4>1 DEF IsValue
    <3>3. CASE w \in Found /\ r = Val(w)
      <4>1. IsValue(r)
        BY <1>2, <3>3 DEF Keyed
      <4>2. IsValue(r)'
        BY <1>2, <1>3, <4>1, ValuesStay
      <4> QED BY <3>1, <4>2 DEF IsValue
    <3> QED BY <1>8, <3>1, <3>2, <3>3
  <2>2. DOMAIN local' \subseteq Locals
    BY <1>2, <1>7 DEF Keyed
  <2> QED BY <1>2, <1>3, <1>6, <2>1, <2>2 DEF Keyed
<1>10. ASSUME causes' = {} PROVE wrong' = {} /\ Clean'
  <2>1. causes = {} /\ freed' = freed \cup {} /\ Eaten(e) = {}
    BY <1>2, <1>3, <1>4, <1>10, NoCause
  <2>2. Clean
    BY <1>2, <2>1 DEF SeesInv
  <2>3. PICK r, n : r = Value(e) /\ n = Meaning(e)
    OBVIOUS
  <2>4. \A w \in Found' :
           /\ w \in DOMAIN meant'
           /\ \/ w = v /\ Val(w)' = r /\ meant'[w] = n
              \/ w \in Found /\ Val(w)' = Val(w) /\ meant'[w] = meant[w]
           /\ Val(w)' \notin {}
    <3> SUFFICES ASSUME NEW w \in Found'
                 PROVE  /\ w \in DOMAIN meant'
                        /\ \/ w = v /\ Val(w)' = r /\ meant'[w] = n
                           \/ w \in Found /\ Val(w)' = Val(w) /\ meant'[w] = meant[w]
      OBVIOUS
    <3>1. CASE w = v /\ Val(w)' = Value(e)
      BY <1>3, <2>3, <3>1 DEF With
    <3>2. CASE w # v /\ w \in Found /\ Val(w)' = Val(w)
      <4>1. w \in DOMAIN meant
        BY <2>2, <3>2 DEF Clean
      <4> QED BY <1>3, <3>2, <4>1 DEF With
    <3> QED BY <1>8, <3>1, <3>2
  <2>5. /\ \A w \in Found' : w \in DOMAIN meant' /\ Fit(Val(w), meant[w])'
        /\ \A w, x \in Found' :
              Val(w)' # Number /\ Val(x)' # Number /\ meant'[w] = meant'[x]
                 => Val(w)' = Val(x)'
    <3>1. PICK gone : gone = {}
      OBVIOUS
    <3>2. Effects(e, gone, Casts(e), Held(glob, local'))
      BY <1>3, <3>1
    <3>3. \A w \in Found' :
             /\ w \in DOMAIN meant'
             /\ \/ w = v /\ Val(w)' = r /\ meant'[w] = n
                \/ w \in Found /\ Val(w)' = Val(w) /\ meant'[w] = meant[w]
             /\ Val(w)' \notin gone
      BY <2>4, <3>1
    <3> QED BY <1>2, <1>4, <1>10, <2>2, <2>3, <3>2, <3>3, FitsAfter
  <2>6. \A i \in (1 .. Len(text')) \ spent' :
           Literal(i) \notin freed' /\ lens'[Literal(i)] = 0
    BY <1>2, <1>3, <1>4, <1>10, <2>2, LiteralsAfter
  <2>7. \A w \in DOMAIN glob' : KeyOf(glob'[w].key) \notin freed'
    BY <1>3, <2>1, <2>2 DEF Clean
  <2>8. DOMAIN meant' \cap Vars \subseteq DOMAIN glob'
    <3>1. DOMAIN meant' = DOMAIN meant \cup {v}
      BY <1>3 DEF With
    <3> QED BY <1>2, <1>3, <2>2, <3>1 DEF Clean
  <2>9. wrong' = {}
    <3>1. Casts(e) = {}
      BY <1>2, <1>3, <1>4, <1>10, <2>2, NothingSeen
    <3> QED BY <1>3, <2>1, <3>1 DEF Effects
  <2> QED BY <1>3, <2>5, <2>6, <2>7, <2>8, <2>9 DEF Clean
<1>11. ASSUME Disciplined PROVE causes' = {} /\ Owned'
  <2>1. Owned /\ causes = {} /\ Names(e) = {} /\ e.kind # "cast"
    <3>1. Names(e) = {}
      BY <1>1, <1>2, <1>11 DEF Disciplined
    <3> QED BY <1>11, <3>1 DEF SeesInv, Names
  <2>2. causes' = {}
    BY <1>2, <1>3, <1>11, <2>1, DisciplinedCauses
  <2>3. \A w \in Found : w # v /\ Value(e) # Number => Val(w) # Value(e)
    <3> SUFFICES ASSUME NEW w \in Found, w # v, Value(e) # Number, Val(w) = Value(e)
                 PROVE  FALSE
      OBVIOUS
    <3>1. text[pc].to = w
      BY <1>2, <2>1, NewOwner
    <3> QED BY <1>2, <3>1
  <2>4. ASSUME NEW w \in Found', NEW i \in 1 .. Len(text), Val(w)' = Literal(i)
        PROVE  text[i].to = w /\ (w \in Vars => i < pc + 1 /\ i < loop)
    <3>1. CASE w = v /\ Val(w)' = Value(e)
      <4>1. Value(e) = Literal(i)
        BY <2>4, <3>1
      <4>2. i = pc
        BY <2>1, <4>1, NewLiteral
      <4> QED BY <1>2, <3>1, <4>2
    <3>2. CASE w # v /\ w \in Found /\ Val(w)' = Val(w)
      <4>1. Val(w) = Literal(i)
        BY <2>4, <3>2
      <4>2. text[i].to = w /\ (w \in Vars => i < pc /\ i < loop)
        BY <2>1, <3>2, <4>1 DEF Owned
      <4> QED BY <1>2, <4>2
    <3> QED BY <1>8, <3>1, <3>2
  <2>5. ASSUME NEW w \in Found', NEW x \in Found', Val(w)' # Number, Val(w)' = Val(x)'
        PROVE  w = x
    <3>1. CASE w = v /\ Val(w)' = Value(e)
      BY <1>8, <2>3, <2>5, <3>1
    <3>2. CASE w # v /\ w \in Found /\ Val(w)' = Val(w)
      <4>1. CASE x = v /\ Val(x)' = Value(e)
        BY <2>3, <2>5, <3>2, <4>1
      <4>2. CASE x # v /\ x \in Found /\ Val(x)' = Val(x)
        BY <2>1, <2>5, <3>2, <4>2 DEF Owned
      <4> QED BY <1>8, <4>1, <4>2
    <3> QED BY <1>8, <3>1, <3>2
  <2>6. ASSUME NEW i \in spent' PROVE i \in 1 .. Len(text) /\ i < pc + 1 /\ i < loop
    <3>1. i \in spent
      BY <1>3, <2>1, <2>6 DEF Effects, Eaten
    <3>2. i \in 1 .. Len(text) /\ i < pc /\ i < loop
      BY <2>1, <3>1 DEF Owned
    <3> QED BY <1>2, <3>2
  <2> QED BY <1>3, <2>2, <2>4, <2>5, <2>6 DEF Owned
<1> QED BY <1>3, <1>6, <1>9, <1>10, <1>11, GoStops, StepKeeps DEF SeesStep

(* A step that evaluates an operand and leaves the variables alone.        *)
LEMMA QuietSees ==
    ASSUME Place, Numbered, Keyed, phase = "run", SeesInv, pc \in 1 .. Len(text),
           NEW e, NEW gone, NEW looks, Effects(e, gone, looks, Held(glob, local)),
           Evaluable(e), Freeable(gone), \A k : KeyOf(k) \notin gone,
           pc' = pc + 1, UNCHANGED <<text, loop, together, glob, heads, local, meant>>
    PROVE  /\ Place' /\ Numbered' /\ Keyed'
           /\ causes' = {} => Clean'
           /\ Disciplined /\ e.kind # "cast" /\ gone = {} => causes' = {} /\ Owned'
<1>1. /\ Place' /\ Numbered'
      /\ \A i : KeyOf(i) \in freed' => i \in 1 .. Len(text) /\ ran'[i] > 0
      /\ \A i \in 1 .. Len(text) : ran[i] > 0 => ran'[i] > 0
  BY NumberedAfter
<1>2. Found' = Found /\ \A w : Val(w)' = Val(w)
  BY DEF Found, Val
<1>3. Keyed'
  <2>1. ASSUME NEW w \in Found' PROVE IsValue(Val(w))'
    <3>1. PICK r : r = Val(w)'
      OBVIOUS
    <3>2. IsValue(r)
      BY <1>2, <3>1 DEF Keyed
    <3>3. IsValue(r)'
      BY <3>2, ValuesStay
    <3> QED BY <3>1, <3>3 DEF IsValue
  <2> QED BY <1>1, <2>1 DEF Keyed
<1>4. ASSUME causes' = {} PROVE Clean'
  <2>1. /\ causes = {} /\ freed' = freed \cup gone
        /\ gone \cap Held(glob, local) = {}
    BY <1>4, NoCause
  <2>2. Clean
    BY <2>1 DEF SeesInv
  <2>3. PICK r, n, v : r = Value(e) /\ n = Meaning(e)
    OBVIOUS
  <2>4. \A w \in Found' :
           /\ w \in DOMAIN meant'
           /\ \/ w = v /\ Val(w)' = r /\ meant'[w] = n
              \/ w \in Found /\ Val(w)' = Val(w) /\ meant'[w] = meant[w]
           /\ Val(w)' \notin gone
    <3> SUFFICES ASSUME NEW w \in Found
                 PROVE  w \in DOMAIN meant /\ Val(w) \notin gone
      BY <1>2
    <3>1. Val(w) \in Held(glob, local)
      BY HeldIs
    <3> QED BY <2>1, <2>2, <3>1 DEF Clean
  <2>5. /\ \A w \in Found' : w \in DOMAIN meant' /\ Fit(Val(w), meant[w])'
        /\ \A w, x \in Found' :
              Val(w)' # Number /\ Val(x)' # Number /\ meant'[w] = meant'[x]
                 => Val(w)' = Val(x)'
    BY <1>4, <2>2, <2>3, <2>4, FitsAfter
  <2>6. \A i \in (1 .. Len(text')) \ spent' :
           Literal(i) \notin freed' /\ lens'[Literal(i)] = 0
    BY <1>4, <2>2, LiteralsAfter
  <2>7. \A w \in DOMAIN glob' : KeyOf(glob'[w].key) \notin freed'
    BY <2>1, <2>2 DEF Clean
  <2>8. DOMAIN meant' \cap Vars \subseteq DOMAIN glob'
    BY <2>2 DEF Clean
  <2> QED BY <2>5, <2>6, <2>7, <2>8 DEF Clean
<1>5. ASSUME Disciplined, e.kind # "cast", gone = {} PROVE causes' = {} /\ Owned'
  <2>1. Owned /\ causes = {} /\ gone \cap Held(glob, local) = {}
    BY <1>5 DEF SeesInv
  <2>2. causes' = {}
    BY <1>5, <2>1, DisciplinedCauses
  <2>3. spent' = spent
    BY <1>5 DEF Effects, Eaten
  <2>4. pc \in Nat /\ text' = text /\ loop' = loop
    OBVIOUS
  <2>5. ASSUME NEW w \in Found, NEW i \in 1 .. Len(text), Val(w) = Literal(i)
        PROVE  text[i].to = w /\ (w \in Vars => i < pc + 1 /\ i < loop)
    <3>1. text[i].to = w /\ (w \in Vars => i < pc /\ i < loop)
      BY <2>1, <2>5 DEF Owned
    <3> QED BY <2>4, <3>1
  <2>6. ASSUME NEW i \in spent PROVE i \in 1 .. Len(text) /\ i < pc + 1 /\ i < loop
    <3>1. i \in 1 .. Len(text) /\ i < pc /\ i < loop
      BY <2>1, <2>6 DEF Owned
    <3> QED BY <2>4, <3>1
  <2>7. \A v, w \in Found : Val(v) # Number /\ Val(v) = Val(w) => v = w
    BY <2>1 DEF Owned
  <2> QED BY <1>2, <2>2, <2>3, <2>4, <2>5, <2>6, <2>7 DEF Owned
<1> QED BY <1>1, <1>3, <1>4, <1>5

LEMMA Running == SeesInv /\ phase = "run" /\ pc <= Len(text) =>
                 Place /\ Numbered /\ Keyed /\ pc \in 1 .. Len(text) /\ wrong = {}
BY DEF SeesInv, Place

LEMMA NothingFreeable == Freeable({}) /\ \A k : KeyOf(k) \notin {}
BY DEF Freeable

LEMMA PrintSees == ASSUME SeesInv, PrintTop PROVE SeesInv'
<1>1. PICK e : e = Here.from
  OBVIOUS
<1>2. PICK looks : looks = IF e.kind = "cast" THEN Casts(e)
                           ELSE Look(Value(e), Meaning(e))
  OBVIOUS
<1>3. /\ Place /\ Numbered /\ Keyed /\ phase = "run" /\ pc \in 1 .. Len(text)
      /\ Here.op = "print" /\ Here = text[pc]
  BY Running DEF PrintTop, At, Here
<1>4. /\ pc' = pc + 1 /\ UNCHANGED <<text, loop, together, glob, heads, local, meant>>
      /\ Effects(e, {}, looks, Held(glob, local)) /\ Go
  BY <1>1, <1>2 DEF PrintTop, Go, program
<1>5. Evaluable(e)
  <2>1. Bound(e) /\ ~ CastsNumber
    BY <1>1 DEF PrintTop
  <2> QED BY <1>1, <1>3, <2>1 DEF Evaluable, CastsNumber
<1>6. /\ Place' /\ Numbered' /\ Keyed'
      /\ causes' = {} => Clean'
      /\ Disciplined /\ e.kind # "cast" => causes' = {} /\ Owned'
  BY <1>3, <1>4, <1>5, NothingFreeable, QuietSees
<1>7. Disciplined => e.kind # "cast"
  BY <1>1, <1>3 DEF Disciplined
<1>8. ASSUME causes' = {} PROVE wrong' = {}
  <2>1. causes = {} /\ Eaten(e) = {}
    BY <1>3, <1>4, <1>5, <1>8, NoCause
  <2>2. Clean
    BY <1>3, <2>1 DEF SeesInv
  <2>3. Casts(e) = {} /\ Look(Value(e), Meaning(e)) = {}
    BY <1>3, <1>4, <1>5, <1>8, <2>2, NothingSeen
  <2> QED BY <1>2, <1>4, <2>1, <2>3 DEF Effects
<1> QED BY <1>4, <1>6, <1>7, <1>8, GoStops, StepKeeps DEF SeesStep

LEMMA RemoveSees == ASSUME SeesInv, Remove PROVE SeesInv'
<1>1. PICK r, gone : r = Val(Here.name) /\ gone = {r} \ {Number}
  OBVIOUS
<1>2. /\ Place /\ Numbered /\ Keyed /\ phase = "run" /\ pc \in 1 .. Len(text)
      /\ Here.op = "rm" /\ Here = text[pc] /\ Here.name \in Found
  BY Running DEF Remove, At, Here
<1>3. /\ pc' = pc + 1 /\ UNCHANGED <<text, loop, together, glob, heads, local, meant>>
      /\ Effects(Nothing, gone, {}, Held(glob, local)) /\ Go
  BY <1>1 DEF Remove, Go, program
<1>4. Evaluable(Nothing) /\ Nothing.kind # "cast"
  BY DEF Nothing, Evaluable, Bound, Names
<1>5. IsValue(r)
  BY <1>1, <1>2 DEF Keyed
<1>6. Freeable(gone) /\ \A k : KeyOf(k) \notin gone
  BY <1>1, <1>5, Objects DEF Freeable, IsValue
<1>7. /\ Place' /\ Numbered' /\ Keyed'
      /\ causes' = {} => Clean'
  BY <1>2, <1>3, <1>4, <1>6, QuietSees
<1>8. ~ Disciplined
  BY <1>2 DEF Disciplined
<1>9. ASSUME causes' = {} PROVE wrong' = {}
  <2>1. gone \cap Held(glob, local) = {} /\ Eaten(Nothing) = {}
    BY <1>2, <1>3, <1>4, <1>9, NoCause
  <2>2. r \in Held(glob, local)
    BY <1>1, <1>2, HeldIs
  <2>3. gone = {}
    BY <1>1, <2>1, <2>2
  <2> QED BY <1>3, <2>1, <2>3 DEF Effects
<1> QED BY <1>3, <1>7, <1>8, <1>9, GoStops, StepKeeps DEF SeesStep

(* Pushing to an object nobody has under another meaning.                  *)
LEMMA PushSees == ASSUME SeesInv, Push PROVE SeesInv'
<1>1. PICK v, r, n : v = Here.name /\ r = Val(v) /\ n = meant[v]
  OBVIOUS
<1>2. /\ Place /\ Numbered /\ Keyed /\ phase = "run" /\ pc \in 1 .. Len(text)
      /\ Here.op = "push" /\ Here = text[pc] /\ v \in Found /\ r # Number
  BY <1>1, Running DEF Push, At, Here
<1>3. /\ pc' = pc + 1
      /\ UNCHANGED <<text, loop, together, glob, heads, local, meant, freed>>
      /\ lens' = With(lens, r, LenOf(r) + 1)
      /\ length' = [length EXCEPT ![n] = @ + 1]
      /\ wrong' = Look(r, n)
      /\ spent' = spent \cup {i \in 1 .. Len(text) : Literal(i) = r}
      /\ causes' = IF \A w \in Found : Val(w) = r => meant[w] = n THEN causes
                   ELSE causes \cup {"literal"}
      /\ ran' = [ran EXCEPT ![pc] = @ + 1]
      /\ Go
  BY <1>1 DEF Push, Go, program
<1>4. Found' = Found /\ \A w : Val(w)' = Val(w)
  BY <1>3 DEF Found, Val
<1>5. IsValue(r) /\ LenOf(r) \in Nat /\ length \in Seq(Nat)
      /\ lens \in [DOMAIN lens -> Nat] /\ ran \in [1 .. Len(text) -> Nat]
  BY <1>1, <1>2 DEF Keyed, Numbered, LenOf
<1>6. /\ length' \in Seq(Nat) /\ Len(length') = Len(length) /\ Len(length) \in Nat
      /\ \A m \in 1 .. Len(length) :
            length'[m] = IF m = n THEN length[m] + 1 ELSE length[m]
  <2>1. PICK N \in Nat : N = Len(length) /\ length \in [1 .. N -> Nat]
    BY <1>5
  <2>2. /\ length' \in [1 .. N -> Nat]
        /\ \A m \in 1 .. N : length'[m] = IF m = n THEN length[m] + 1 ELSE length[m]
    <3>1. PICK g, S : /\ g = length' /\ S = 1 .. N /\ length \in [S -> Nat]
                      /\ g = [length EXCEPT ![n] = @ + 1]
      BY <1>3, <2>1
    <3>2. g \in [S -> Nat] /\ \A m \in S : g[m] = IF m = n THEN length[m] + 1 ELSE length[m]
      <4>1. CASE n \in S
        BY <3>1, <4>1
      <4>2. CASE n \notin S
        BY <3>1, <4>2
      <4> QED BY <4>1, <4>2
    <3> QED BY <3>1, <3>2
  <2>3. length' \in Seq(Nat) /\ Len(length') = N
    BY <2>1, <2>2
  <2> QED BY <2>1, <2>2, <2>3
<1>7. /\ lens' \in [DOMAIN lens' -> Nat] /\ DOMAIN lens' = DOMAIN lens \cup {r}
      /\ lens'[r] = LenOf(r) + 1
      /\ \A x \in DOMAIN lens : x # r => lens'[x] = lens[x]
  BY <1>3, <1>5 DEF With
<1>8. /\ ran' \in [1 .. Len(text) -> Nat]
      /\ \A i \in 1 .. Len(text) : ran'[i] = IF i = pc THEN ran[i] + 1 ELSE ran[i]
  <2>1. PICK g, S : /\ g = ran' /\ S = 1 .. Len(text) /\ ran \in [S -> Nat]
                    /\ g = [ran EXCEPT ![pc] = @ + 1]
    BY <1>3, <1>5
  <2>2. g \in [S -> Nat] /\ \A i \in S : g[i] = IF i = pc THEN ran[i] + 1 ELSE ran[i]
    BY <1>2, <2>1
  <2> QED BY <2>1, <2>2
<1>9. Place'
  BY <1>2, <1>3 DEF Place
<1>10. Numbered'
  <2>1. \A i \in 1 .. Len(text) : i >= pc' /\ i < loop' => ran'[i] = 0
    BY <1>2, <1>3, <1>8 DEF Numbered, Place
  <2>2. ASSUME NEW m, Fresh(m) \in DOMAIN lens' \cup freed'
        PROVE  m \in 1 .. Len(length')
    <3>1. CASE Fresh(m) = r
      <4>1. PICK k \in 1 .. Len(length) : Fresh(m) = Fresh(k)
        BY <1>5, <3>1, Objects DEF IsValue
      <4> QED BY <1>6, <4>1, FreshIs
    <3>2. CASE Fresh(m) # r
      BY <1>2, <1>3, <1>6, <1>7, <2>2, <3>2 DEF Numbered
    <3> QED BY <3>1, <3>2
  <2>3. \A i \in 1 .. Len(text) : Literal(i) \in DOMAIN lens'
    BY <1>2, <1>7 DEF Numbered
  <2> QED BY <1>3, <1>6, <1>7, <1>8, <2>1, <2>2, <2>3 DEF Numbered
<1>11. Keyed'
  <2>1. ASSUME NEW w \in Found' PROVE IsValue(Val(w))'
    <3>1. PICK x : x = Val(w)'
      OBVIOUS
    <3>2. IsValue(x)
      BY <1>2, <1>4, <3>1 DEF Keyed
    <3>3. IsValue(x)'
      BY <1>3, <1>6, <3>2 DEF IsValue
    <3> QED BY <3>1, <3>3 DEF IsValue
  <2>2. \A i \in 1 .. Len(text) : ran[i] > 0 => ran'[i] > 0
    BY <1>5, <1>8
  <2> QED BY <1>2, <1>3, <2>1, <2>2 DEF Keyed
<1>12. ASSUME causes' = {} PROVE wrong' = {} /\ Clean'
  <2>1. causes = {} /\ \A w \in Found : Val(w) = r => meant[w] = n
    BY <1>3, <1>12
  <2>2. Clean
    BY <1>2, <2>1 DEF SeesInv
  <2>3. Fit(r, n)
    BY <1>1, <1>2, <2>2 DEF Clean
  <2>4. /\ r \notin freed /\ r \in DOMAIN lens /\ n \in 1 .. Len(length)
        /\ lens[r] = length[n] /\ LenOf(r) = length[n] /\ n # Now
    BY <1>2, <1>6, <2>3 DEF Fit, LenOf, Now
  <2>5. ASSUME NEW w \in Found PROVE w \in DOMAIN meant /\ Fit(Val(w), meant[w])'
    <3>1. PICK x, m : x = Val(w) /\ m = meant[w]
      OBVIOUS
    <3>2. w \in DOMAIN meant /\ Fit(x, m)
      BY <2>2, <3>1 DEF Clean
    <3>3. CASE x = r
      <4>1. m = n
        BY <2>1, <3>1, <3>3
      <4> QED BY <1>3, <1>4, <1>6, <1>7, <2>4, <3>1, <3>2, <3>3, <4>1 DEF Fit
    <3>4. CASE x # r /\ x # Number
      <4>1. m # n
        BY <1>1, <1>2, <2>2, <3>1, <3>4 DEF Clean
      <4> QED BY <1>3, <1>4, <1>6, <1>7, <3>1, <3>2, <3>4, <4>1 DEF Fit
    <3>5. CASE x = Number
      BY <1>4, <3>1, <3>2, <3>5 DEF Fit
    <3> QED BY <3>3, <3>4, <3>5
  <2>6. ASSUME NEW i \in (1 .. Len(text)) \ spent'
        PROVE  Literal(i) \notin freed /\ lens'[Literal(i)] = 0
    <3>1. i \notin spent /\ Literal(i) # r
      BY <1>3, <2>6
    <3>2. Literal(i) \in DOMAIN lens
      BY <1>2 DEF Numbered
    <3> QED BY <1>7, <2>2, <3>1, <3>2 DEF Clean
  <2>7. wrong' = {}
    BY <1>3, <2>4 DEF Look
  <2> QED BY <1>3, <1>4, <2>2, <2>5, <2>6, <2>7 DEF Clean
<1>13. ASSUME Disciplined PROVE causes' = {} /\ Owned'
  <2>1. Owned /\ causes = {}
    BY <1>13 DEF SeesInv
  <2>2. pc < loop
    BY <1>2, <1>13 DEF Disciplined, Place
  <2>3. v \in Vars
    <3>1. Mentions(Here) = {v}
      BY <1>1, <1>2 DEF Mentions
    <3>2. v \notin Locals
      BY <1>2, <2>2, <3>1 DEF Place
    <3> QED BY <1>2, <3>2 DEF Keyed, Found
  <2>4. causes' = {}
    BY <1>1, <1>2, <1>3, <2>1 DEF Owned
  <2>5. ASSUME NEW i \in spent' PROVE i \in 1 .. Len(text) /\ i < pc /\ i < loop
    <3>1. CASE i \in spent
      BY <2>1, <3>1 DEF Owned
    <3>2. CASE i \in 1 .. Len(text) /\ Literal(i) = r
      BY <1>1, <1>2, <2>1, <2>3, <3>2 DEF Owned
    <3> QED BY <1>3, <3>1, <3>2
  <2>6. \A i \in 1 .. Len(text) : i < pc => i < pc + 1
    BY <1>2
  <2>7. ASSUME NEW w \in Found, NEW i \in 1 .. Len(text), Val(w) = Literal(i)
        PROVE  text[i].to = w /\ (w \in Vars => i < pc + 1 /\ i < loop)
    BY <2>1, <2>6, <2>7 DEF Owned
  <2>8. \A w, x \in Found : Val(w) # Number /\ Val(w) = Val(x) => w = x
    BY <2>1 DEF Owned
  <2>9. \A i \in spent' : i \in 1 .. Len(text) /\ i < pc + 1 /\ i < loop
    BY <2>5, <2>6
  <2> QED BY <1>3, <1>4, <2>4, <2>7, <2>8, <2>9 DEF Owned
<1> QED BY <1>3, <1>9, <1>10, <1>11, <1>12, <1>13, GoStops, StepKeeps DEF SeesStep

(* An error ends the text; a name is lost only with the chain of another.  *)
LEMMA FailsSees == ASSUME SeesInv, Fails PROVE SeesInv'
<1>1. /\ phase = "run" /\ phase' = "ended"
      /\ UNCHANGED <<program, pc, left, glob, heads, local, freed, lens, meant,
                     length, ran, spent, loose, causes>>
      /\ wrong' = {} \/ (DOMAIN meant \cap Vars) \ Found # {}
  BY DEF Fails
<1>2. Place' /\ Numbered' /\ Keyed'
  BY <1>1 DEF SeesInv, Place, Numbered, Keyed, Found, Val, IsValue, program
<1>3. causes' = {} => wrong' = {} /\ Clean
  BY <1>1 DEF SeesInv, Clean, Found
<1>4. Clean => Clean'
  BY <1>1 DEF Clean, Found, Val, Fit, program
<1>5. Disciplined => causes' = {} /\ Owned'
  BY <1>1 DEF SeesInv, Owned, Found, Val, program
<1>6. phase' # "run" /\ UNCHANGED program
  BY <1>1
<1> QED BY <1>2, <1>3, <1>4, <1>5, <1>6, StepKeeps DEF SeesStep

(* The block gives up its locals.                                          *)
LEMMA BlockSees ==
    ASSUME SeesInv, BlockEnds,
           pc' = pc \/ (pc' = loop /\ loop <= Len(text))
    PROVE  SeesInv'
<1>1. /\ phase = "run" /\ pc > Len(text) /\ DOMAIN local' = {}
      /\ UNCHANGED <<text, loop, together, glob, heads, freed, lens, meant, length,
                     wrong, ran, spent, causes>>
  BY DEF BlockEnds, program
<1>2. Place /\ Numbered /\ Keyed /\ wrong = {}
  BY <1>1 DEF SeesInv
<1>3. \A w \in Found' : w \in DOMAIN glob /\ w \in Found /\ Val(w)' = Val(w)
  BY <1>1, <1>2, VarsNotLocals DEF Found, Val, Keyed
<1>4. Place' /\ Numbered'
  <2>1. pc \in Int /\ loop \in Int /\ loop \in 1 .. Len(text) + 1 /\ Len(text) \in Nat
    BY <1>2 DEF Place
  <2>2. \A i \in 1 .. Len(text) : ~ (i >= pc' /\ i < loop)
    BY <1>1, <2>1
  <2>3. Place'
    BY <1>1, <1>2, <2>1 DEF Place
  <2> QED BY <1>1, <1>2, <2>2, <2>3 DEF Numbered
<1>5. Keyed'
  <2>1. \A w \in Found' : IsValue(Val(w))'
    BY <1>1, <1>2, <1>3 DEF Keyed, IsValue
  <2> QED BY <1>1, <1>2, <2>1 DEF Keyed
<1>6. Clean => Clean'
  <2> SUFFICES ASSUME Clean PROVE Clean'
    OBVIOUS
  <2>1. \A w \in Found' : w \in DOMAIN meant' /\ Fit(Val(w), meant[w])'
    BY <1>1, <1>3 DEF Clean, Fit
  <2> QED BY <1>1, <1>3, <2>1 DEF Clean
<1>7. ASSUME Disciplined PROVE Owned'
  <2>1. Owned
    BY <1>7 DEF SeesInv
  <2>2. pc' \in Int /\ loop <= pc'
    BY <1>1, <1>2 DEF Place
  <2>3. ASSUME NEW i \in 1 .. Len(text), i < loop PROVE i < pc'
    BY <1>2, <2>2, <2>3 DEF Place
  <2>4. ASSUME NEW w \in Found', NEW i \in 1 .. Len(text), Val(w)' = Literal(i)
        PROVE  text[i].to = w /\ (w \in Vars => i < pc' /\ i < loop)
    BY <1>3, <2>1, <2>3, <2>4 DEF Owned
  <2>5. \A v, w \in Found' : Val(v)' # Number /\ Val(v)' = Val(w)' => v = w
    BY <1>3, <2>1 DEF Owned
  <2>6. \A i \in spent : i \in 1 .. Len(text) /\ i < pc' /\ i < loop
    BY <2>1, <2>3 DEF Owned
  <2> QED BY <1>1, <2>4, <2>5, <2>6 DEF Owned
<1>8. Disciplined => causes' = {}
  BY <1>1 DEF SeesInv
<1>9. causes' = {} => wrong' = {} /\ Clean'
  BY <1>1, <1>2, <1>6 DEF SeesInv
<1>10. wrong' = {} /\ UNCHANGED program
  BY <1>1, <1>2 DEF program
<1> QED BY <1>4, <1>5, <1>7, <1>8, <1>9, <1>10, StepKeeps DEF SeesStep

LEMMA StutterSees == ASSUME SeesInv, UNCHANGED vars PROVE SeesInv'
<1>1. /\ UNCHANGED <<text, loop, together, pc, left, glob, heads, local, freed, lens>>
      /\ UNCHANGED <<phase, meant, length, wrong, ran, spent, loose, causes>>
  BY DEF vars, program, history
<1>2. Place' /\ Numbered' /\ Keyed'
  BY <1>1 DEF SeesInv, Place, Numbered, Keyed, Found, Val, IsValue
<1>3. Clean => Clean'
  BY <1>1 DEF Clean, Found, Val, Fit
<1>4. Owned => Owned'
  BY <1>1 DEF Owned, Found, Val
<1>5. Disciplined' => Disciplined
  BY <1>1, Zenon DEF Disciplined
<1> QED BY <1>1, <1>2, <1>3, <1>4, <1>5 DEF SeesInv

LEMMA InitSees == ASSUME Init PROVE SeesInv
<1>1. /\ text \in Seq(Statement) /\ Len(text) \in Nat
      /\ loop \in 1 .. Len(text) + 1 /\ pc = 1
      /\ DOMAIN glob = {} /\ heads = {} /\ DOMAIN local = {} /\ freed = {}
      /\ lens = [r \in {Literal(i) : i \in 1 .. Len(text)} |-> 0]
      /\ DOMAIN meant = {} /\ length = <<>> /\ wrong = {} /\ spent = {} /\ causes = {}
      /\ ran = [i \in 1 .. Len(text) |-> 0]
      /\ \A i \in 1 .. Len(text) :
            /\ i >= loop /\ text[i].op = "var" => text[i].to \in Locals
            /\ i < loop => Mentions(text[i]) \cap Locals = {}
  BY GlobalsAssumption DEF Init
<1>2. Place
  BY <1>1 DEF Place
<1>3. Numbered
  <2>1. \A n : Fresh(n) \notin DOMAIN lens \cup freed
    BY <1>1, Objects
  <2> QED BY <1>1, <2>1 DEF Numbered
<1>4. Found = {}
  BY <1>1 DEF Found
<1>5. Keyed
  BY <1>1, <1>4 DEF Keyed
<1>6. Clean
  BY <1>1, <1>4 DEF Clean
<1>7. Owned
  BY <1>1, <1>4 DEF Owned
<1> QED BY <1>1, <1>2, <1>3, <1>5, <1>6, <1>7 DEF SeesInv

LEMMA NextSees == SeesInv /\ [Next]_vars => SeesInv'
<1> SUFFICES ASSUME SeesInv, [Next]_vars PROVE SeesInv'
  OBVIOUS
<1>1. CASE Assign
  BY <1>1, AssignSees
<1>2. CASE AssignLocal
  BY <1>2, AssignLocalSees
<1>3. CASE PrintTop
  BY <1>3, PrintSees
<1>4. CASE Remove
  BY <1>4, RemoveSees
<1>5. CASE Push
  BY <1>5, PushSees
<1>6. CASE Fails
  BY <1>6, FailsSees
<1>7. CASE Again
  BY <1>7, BlockSees DEF Again
<1>8. CASE Done
  BY <1>8, BlockSees DEF Done
<1>9. CASE UNCHANGED vars
  BY <1>9, StutterSees
<1> QED BY <1>1, <1>2, <1>3, <1>4, <1>5, <1>6, <1>7, <1>8, <1>9 DEF Next

(* In every text a value is lost, touched or freed when it is gone, or     *)
(* another than was meant, only after an object was freed that a variable  *)
(* still has, a spent literal was evaluated, a second owner's object was   *)
(* pushed to, a statement assigned to a global twice, or a chain was lost; *)
(* and in a disciplined text none of this ever happens.                    *)
THEOREM GlobalsSeeValues == Spec => []SeesItsValues
<1>1. SeesInv => SeesItsValues
  BY DEF SeesInv, SeesItsValues
<1>2. Init => SeesInv
  BY InitSees
<1> QED BY <1>1, <1>2, NextSees, PTL DEF Spec

=============================================================================
