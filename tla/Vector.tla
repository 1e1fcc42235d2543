-------------------------------- MODULE Vector -------------------------------
(***************************************************************************)
(* The language's vectors (vector.c): an array of len elements, doubled    *)
(* when count reaches len.  The one-, two- and three-dimensional vectors   *)
(* run the same steps on elements of another kind, so one module is all    *)
(* three of them.  Index checks compare with len, not with count, and let  *)
(* len itself pass: legal remembers whether the program has only used      *)
(* positions that hold an element.                                         *)
(***************************************************************************)
EXTENDS Integers, Sequences, SequencesExt

CONSTANTS Items,
          Kind,        \* obj_t of a value
          GEN,         \* T_GEN: the kind of a vector that is still empty
          Blank,       \* what nobody wrote
          VEC_LEN,     \* length of a new vector
          MAX_BELOW,   \* bound: how far count may sink below 0
          Indexes,     \* bound: the indexes a program uses
          MAX_VEC      \* bound: length of a vector

ASSUME VectorAssumption ==
    /\ VEC_LEN \in Nat \ {0} /\ MAX_VEC \in Nat
    /\ Indexes \subseteq Int /\ MAX_BELOW \in Nat
    /\ GEN \notin {Kind[v] : v \in Items} /\ Blank \notin Items

VARIABLES vec,     \* [of, count, len, kind]; of has the array's real size
          end,     \* "no", or how the program ended
          seq,     \* history: the list the program means
          legal    \* history: only positions in use have been named

vecVars == <<vec, end, seq, legal>>

GROWTH == 2         \* INC of the code
InArray(V, i) == i \in DOMAIN V.of

(* Faulty: the last element is not copied.                                 *)
ReallocShort(V, size) ==
    [V EXCEPT !.len = @ * GROWTH,
              !.of = [i \in 0 .. size - 1 |->
                         IF i < V.count - 1 THEN V.of[i] ELSE Blank]]

(* _realloc_vector: size elements, but a len that has doubled.             *)
Realloc(V, size) ==
    [V EXCEPT !.len = @ * GROWTH,
              !.of = [i \in 0 .. size - 1 |->
                         IF i < V.count THEN V.of[i] ELSE Blank]]

(* Faulty: one element too late.                                           *)
EnlargedLate(V) ==
    IF V.len < V.count THEN Realloc(V, V.len * GROWTH) ELSE V

Enlarged(V) ==
    IF V.len < V.count + 1 THEN Realloc(V, V.len * GROWTH) ELSE V

EnlargedTo(V, i) == IF i > V.len THEN Realloc(V, i * GROWTH) ELSE V

Typed(V, v) == V.kind \in {GEN, Kind[v]}

Stop(how) == end' = how /\ UNCHANGED <<vec, seq>>

(* The program goes on with vector V and, while it is legal, list s.       *)
Becomes(V, s) == /\ vec' = V
                 /\ seq' = IF legal' THEN s ELSE <<>>
                 /\ UNCHANGED end

Names(ok) == legal' = (legal /\ ok)
InUse(i) == 0 <= i /\ i < vec.count

-----------------------------------------------------------------------------
Push(v) ==
    LET G == Enlarged(vec) IN
    /\ end = "no" /\ G.len <= MAX_VEC
    /\ UNCHANGED legal
    /\ IF ~ Typed(G, v) THEN Stop("kind")
       ELSE IF ~ InArray(G, G.count) THEN Stop("stray")
       ELSE Becomes([G EXCEPT !.kind = Kind[v], !.count = @ + 1,
                              !.of[G.count] = v],
                    Append(seq, v))

(* insert_value: what lies from the index on moves up, as far as count     *)
(* says; an index beyond count leaves a gap.                               *)
(* A negative index, which the code does not test for, is left out here    *)
(* and in Delete: it would move elements in front of the array.            *)
InsertValue(i, v) ==
    LET G == EnlargedTo(Enlarged(vec), i) IN
    /\ end = "no" /\ G.len <= MAX_VEC
    /\ Names(InUse(i) \/ i = vec.count)
    /\ IF ~ Typed(G, v) THEN Stop("kind")
       ELSE IF ~ InArray(G, i) THEN Stop("stray")
       ELSE Becomes([G EXCEPT !.kind = Kind[v], !.count = @ + 1,
                              !.of = [j \in DOMAIN @ |->
                                         IF j = i THEN v
                                         ELSE IF i < j /\ j <= G.count
                                         THEN @[j - 1] ELSE @[j]]],
                    InsertAt(seq, i + 1, v))

(* delete_value_index moves the rest of the array down.                    *)
Deleted(V, i) ==
    [V EXCEPT !.count = @ - 1,
              !.of = [j \in DOMAIN @ |->
                         IF i <= j /\ j < V.len - 1 THEN @[j + 1] ELSE @[j]]]

Delete(i) ==
    /\ end = "no" /\ i >= 0 /\ vec.count > -MAX_BELOW
    /\ Names(InUse(i))
    /\ IF i > vec.len THEN Stop("range")
       ELSE Becomes(Deleted(vec, i),
                    RemoveAt(seq, i + 1))

Set(i, v) ==
    /\ end = "no"
    /\ Names(InUse(i))
    /\ IF i > vec.len THEN Stop("range")
       ELSE IF ~ Typed(vec, v) THEN Stop("kind")
       ELSE IF ~ InArray(vec, i) THEN Stop("stray")
       ELSE Becomes([vec EXCEPT !.kind = Kind[v], !.of[i] = v],
                    [seq EXCEPT ![i + 1] = v])

(* pop of an empty vector is Null.                                         *)
Pop ==
    /\ end = "no" /\ vec.count > -MAX_BELOW
    /\ UNCHANGED legal
    /\ IF vec.count = 0 THEN UNCHANGED <<vec, seq, end>>
       ELSE Becomes([vec EXCEPT !.count = @ - 1], Front(seq))

-----------------------------------------------------------------------------
VecInit ==
    /\ vec = [of |-> [i \in 0 .. VEC_LEN - 1 |-> Blank],
              count |-> 0, len |-> VEC_LEN, kind |-> GEN]
    /\ end = "no" /\ seq = <<>> /\ legal = TRUE

VecNext ==
    \/ \E v \in Items : Push(v)
    \/ \E i \in Indexes, v \in Items :
          \/ i >= 0 /\ InsertValue(i, v)
          \/ Set(i, v)
    \/ \E i \in Indexes : Delete(i)
    \/ Pop

VecSpec == VecInit /\ [][VecNext]_vecVars

-----------------------------------------------------------------------------
(* Type correctness; count never passes len, whatever indexes are used.    *)
VecTypeOK ==
    /\ vec.count \in Int /\ vec.len \in Nat \ {0}
    /\ vec.count <= vec.len
    /\ vec.kind \in {Kind[v] : v \in Items} \cup {GEN}
    /\ \A i \in DOMAIN vec.of : vec.of[i] \in Items \cup {Blank}
    /\ end \in {"no", "kind", "range", "stray"}

(* The vector is the list the program means, across growth, as long as it  *)
(* names only positions in use.                                            *)
SameList ==
    legal => /\ vec.count = Len(seq)
             /\ \A i \in 1 .. Len(seq) : vec.of[i - 1] = seq[i]

(* Such a program neither strays from the array nor is told that an index  *)
(* is out of range.                                                        *)
LegalIsSafe == legal => end \notin {"range", "stray"}
=============================================================================
