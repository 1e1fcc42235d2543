-------------------------------- MODULE Table --------------------------------
(***************************************************************************)
(* The hash table behind globals, modules, classes, instances and the      *)
(* compiler's names (table.c): an array of head records, each with a chain *)
(* of further records of its bucket.  A key is known by its 32-bit hash    *)
(* alone.  Lengths are powers of two (INIT_SIZE, MIN_SIZE, STACK_SIZE and  *)
(* their doublings), so hash & (len - 1) is the remainder.                 *)
(*                                                                         *)
(* Chained records have an identity: copy_table copies the heads and lets  *)
(* the chains be shared.  What the table frees is the subject of Globals.  *)
(***************************************************************************)
EXTENDS Integers, Sequences

CONSTANTS Hashes,     \* the hashes of the keys in use
          Vals,       \* the values stored, other than Null
          Null,       \* T_NULL: also what find_entry returns for no entry
          Empty,      \* a head record whose key is NULL
          Wild,       \* a head record nobody initialised, not a NULL key
          Tables,     \* the tables there may be
          LEN,        \* length of a new table
          MAX_LEN,    \* bound: length of a table
          MAX_NODES   \* bound: chained records ever allocated

ASSUME TableAssumption ==
    /\ Hashes \subseteq Nat /\ LEN \in Nat \ {0}
    /\ MAX_LEN \in Nat /\ MAX_NODES \in Nat
    /\ Null \notin Vals /\ Empty # Wild
    /\ \A h \in Hashes, v \in Vals \cup {Null}, n \in 0 .. MAX_NODES :
          [key |-> h, val |-> v, next |-> n] \notin {Empty, Wild}

VARIABLES tabs,      \* table -> [count, len, heads, copied]
          nodes,     \* the chained records, by number; 0 is the NULL pointer
          crashed    \* the process died of a bad pointer

vars == <<tabs, nodes, crashed>>

INC == 2
Load(len) == (3 * len) \div 4        \* LOAD_FACTOR
Bucket(h, len) == h % len

Record(h, v, n) == [key |-> h, val |-> v, next |-> n]

(* alloc_table; copied is history: the table began as a copy.              *)
NewTable == [count |-> 0, len |-> LEN, copied |-> FALSE,
             heads |-> [b \in 0 .. LEN - 1 |-> Empty]]

(* The chained records from number n on: what every set has that has n and *)
(* with a record the next one.                                             *)
Follows(S) == \A m \in S : nodes[m].next \in S \cup {0}
Chain(n) == {m \in DOMAIN nodes :
                \A S \in SUBSET DOMAIN nodes :
                   n \in S \cup {0} /\ Follows(S) => m \in S}
Matches(n, h) == {m \in Chain(n) : nodes[m].key = h}
InChain(n, h) == Matches(n, h) # {}
NodeOf(n, h)  == CHOOSE m \in Matches(n, h) : TRUE

HeadOf(T, h) == T.heads[Bucket(h, T.len)]
IsRecord(r)  == r # Empty /\ r # Wild
Holds(r, h)  == IsRecord(r) /\ r.key = h

(* Faulty: only the head record is looked at.                              *)
LookupHead(T, h) ==
    IF Holds(HeadOf(T, h), h) THEN HeadOf(T, h).val ELSE Null

(* find_entry                                                              *)
Lookup(T, h) ==
    LET r == HeadOf(T, h) IN
    IF ~ IsRecord(r) THEN Null
    ELSE IF Holds(r, h) THEN r.val
    ELSE IF InChain(r.next, h) THEN nodes[NodeOf(r.next, h)].val
    ELSE Null

Find(t, h) == Lookup(tabs[t], h)

Present(t, h) ==
    LET r == HeadOf(tabs[t], h) IN
    IsRecord(r) /\ (Holds(r, h) \/ InChain(r.next, h))

-----------------------------------------------------------------------------
SetHead(t, T, h, r) ==
    tabs' = [tabs EXCEPT ![t] = [T EXCEPT !.heads[Bucket(h, T.len)] = r]]

(* insert_entry into table t, which is T by now.                           *)
InsertHead(t, T, h, v) ==
    /\ HeadOf(T, h) = Empty \/ Holds(HeadOf(T, h), h)
    /\ SetHead(t, T, h, Record(h, v, 0))
    /\ UNCHANGED nodes

InsertOver(t, T, h, v) ==
    /\ IsRecord(HeadOf(T, h)) /\ ~ Holds(HeadOf(T, h), h)
    /\ InChain(HeadOf(T, h).next, h)
    /\ nodes' = [nodes EXCEPT ![NodeOf(HeadOf(T, h).next, h)].val = v]
    /\ tabs' = [tabs EXCEPT ![t] = T]

InsertLink(t, T, h, v) ==
    LET r == HeadOf(T, h) IN
    /\ IsRecord(r) /\ ~ Holds(r, h) /\ ~ InChain(r.next, h)
    /\ Len(nodes) < MAX_NODES
    /\ nodes' = Append(nodes, Record(h, v, r.next))
    /\ SetHead(t, T, h, [r EXCEPT !.next = Len(nodes) + 1])

Crash == crashed' = TRUE /\ UNCHANGED <<tabs, nodes>>

Insert(t, T, h, v) ==
    \/ HeadOf(T, h) = Wild /\ Crash
    \/ /\ HeadOf(T, h) # Wild
       /\ \/ InsertHead(t, T, h, v)
          \/ InsertOver(t, T, h, v)
          \/ InsertLink(t, T, h, v)
       /\ UNCHANGED crashed
-----------------------------------------------------------------------------
(* realloc_table reads the key of every head record: a NULL one crashes.   *)
(* The heads move with their chains; of two that move to one bucket the    *)
(* later stays, and the other records of the new array are not written:    *)
(* unused is those of them that happen to be NULL.                         *)
GrowCrashes(T) == \E b \in 0 .. T.len - 1 : ~ IsRecord(T.heads[b])

(* Faulty: the heads keep their places.                                    *)
MovedHere(T, b) == {a \in 0 .. T.len - 1 : a = b /\ IsRecord(T.heads[a])}

Moved(T, b) == {a \in 0 .. T.len - 1 :
                   IsRecord(T.heads[a])
                   /\ Bucket(T.heads[a].key, T.len * INC) = b}

Unmoved(T) == {b \in 0 .. T.len * INC - 1 : Moved(T, b) = {}}

Grown(T, unused) ==
    [T EXCEPT
        !.len = @ * INC,
        !.heads = [b \in 0 .. T.len * INC - 1 |->
            IF Moved(T, b) # {}
            THEN T.heads[CHOOSE a \in Moved(T, b) :
                            \A c \in Moved(T, b) : c <= a]
            ELSE IF b \in unused THEN Empty ELSE Wild]]

(* Faulty: one entry too many before the table grows.                      *)
FullLate(T) == Load(T.len) < T.count

Full(T) == Load(T.len) < T.count + 1

Counted(T) == [T EXCEPT !.count = @ + 1]

(* write_table: a stored Null counts as absent.                            *)
Write(t, h, v) ==
    LET T == tabs[t] IN
    /\ ~ crashed /\ t \in DOMAIN tabs
    /\ IF HeadOf(T, h) = Wild THEN Crash
       ELSE IF Find(t, h) # Null THEN Insert(t, T, h, v)
       ELSE IF ~ Full(T) THEN Insert(t, Counted(T), h, v)
       ELSE IF GrowCrashes(T) THEN Crash
       ELSE /\ T.len * INC <= MAX_LEN
            /\ \E unused \in SUBSET Unmoved(T) :
                  Insert(t, Counted(Grown(T, unused)), h, v)

Create(t) ==
    /\ ~ crashed /\ t \notin DOMAIN tabs
    /\ tabs' = [u \in DOMAIN tabs \cup {t} |->
                   IF u = t THEN NewTable ELSE tabs[u]]
    /\ UNCHANGED <<nodes, crashed>>

(* copy_table counts nothing; a head lies in the bucket of its key, so it  *)
(* is copied to where it was.                                              *)
Copy(t, u) ==
    /\ ~ crashed /\ t \in DOMAIN tabs /\ u \notin DOMAIN tabs
    /\ IF \E b \in DOMAIN tabs[t].heads : tabs[t].heads[b] = Wild
       THEN Crash
       ELSE /\ tabs' = [w \in DOMAIN tabs \cup {u} |->
                 IF w = u THEN [tabs[t] EXCEPT !.count = 0, !.copied = TRUE]
                 ELSE tabs[w]]
            /\ UNCHANGED <<nodes, crashed>>

Init == tabs = [t \in {} |-> NewTable] /\ nodes = <<>> /\ crashed = FALSE

Next ==
    \/ \E t \in Tables : Create(t)
    \/ \E t, u \in Tables : Copy(t, u)
    \/ \E t \in Tables, h \in Hashes, v \in Vals \cup {Null} : Write(t, h, v)

Spec == Init /\ [][Next]_vars
-----------------------------------------------------------------------------
(* Type correctness: every head record lies in the bucket of its key, and  *)
(* a chain runs through allocated records, downwards.                      *)
HeadOK(T, b) ==
    LET r == T.heads[b] IN
    IsRecord(r) => /\ r.key \in Hashes /\ Bucket(r.key, T.len) = b
                   /\ r.val \in Vals \cup {Null}
                   /\ r.next \in 0 .. Len(nodes)
TypeOK ==
    /\ \A t \in DOMAIN tabs :
          /\ tabs[t].len \in Nat \ {0} /\ tabs[t].count \in Nat
          /\ DOMAIN tabs[t].heads = 0 .. tabs[t].len - 1
          /\ \A b \in DOMAIN tabs[t].heads : HeadOK(tabs[t], b)
    /\ \A m \in DOMAIN nodes : nodes[m].next \in 0 .. m - 1

(* What was just written is what a lookup finds, grown table or not.       *)
WrittenIsFound ==
    [][\A t \in Tables, h \in Hashes, v \in Vals \cup {Null} :
          Write(t, h, v) /\ ~ crashed' => Find(t, h)' = v]_vars

(* A table that did not begin as a copy takes no more entries than its     *)
(* load factor allows: they leave it an empty bucket, whatever was written *)
(* over, stored as Null or chained before, and the next new key ends the   *)
(* process in realloc_table.                                               *)
GrowthKillsFresh ==
    [][\A t \in Tables, h \in Hashes, v \in Vals \cup {Null} :
          Write(t, h, v) /\ ~ tabs[t].copied /\ Find(t, h) = Null
             /\ tabs[t].count >= Load(tabs[t].len)
          => crashed']_vars

(* For a key that no other key in use shares a bucket with, the tables are *)
(* dictionaries: whatever is written under other keys, and to copies.      *)
Lone == {h \in Hashes :
           \A g \in Hashes \ {h} : Bucket(g, LEN) # Bucket(h, LEN)}

Contents(t, H) ==
    [h \in {k \in H : Present(t, k)} |-> Find(t, h)]

D == INSTANCE Dict WITH Keys <- Lone,
                        dict <- [t \in DOMAIN tabs |-> Contents(t, Lone)]
DictSpec == D!Spec
=============================================================================
