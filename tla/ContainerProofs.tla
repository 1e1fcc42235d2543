-------------------------- MODULE ContainerProofs --------------------------
(***************************************************************************)
(* Proofs about the language's containers, Table and Vector.  For every    *)
(* set of keys, every length of a new table and every number of tables:    *)
(* what was written is found, a table that did not begin as a copy never   *)
(* grows, and tables are dictionaries for keys that share their bucket     *)
(* with no other.  The vectors follow.                                     *)
(***************************************************************************)
EXTENDS Table, Vector, FiniteSetTheorems, SequenceTheorems,
        WellFoundedInduction, TLAPS

(* Head records, and chained ones, that point to one of the first k.       *)
Records(k) == [key : Hashes, val : Vals \cup {Null}, next : 0 .. k]
Cells(k)   == Records(k) \cup {Empty, Wild}

(* A table; its length is a multiple of that of a new one.                 *)
IsTable(T, k) ==
    /\ T = [count |-> T.count, len |-> T.len, copied |-> T.copied,
            heads |-> T.heads]
    /\ T.count \in Nat /\ T.len \in Nat \ {0} /\ T.copied \in BOOLEAN
    /\ \E j \in Nat \ {0} : T.len = LEN * j
    /\ T.heads \in [0 .. T.len - 1 -> Cells(k)]
    /\ \A b \in 0 .. T.len - 1 :
          IsRecord(T.heads[b]) => Bucket(T.heads[b].key, T.len) = b

Used(T) == {b \in 0 .. T.len - 1 : IsRecord(T.heads[b])}

(* A table that did not begin as a copy counts its heads, and they are     *)
(* fewer than buckets.                                                     *)
Fresh(T) ==
    ~ T.copied => /\ T.len = LEN
                  /\ Cardinality(Used(T)) <= T.count
                  /\ T.count <= Load(LEN)

NodesOK == /\ nodes \in Seq(Records(MAX_NODES)) /\ Len(nodes) <= MAX_NODES
           /\ \A m \in DOMAIN nodes : nodes[m].next \in 0 .. m - 1

TableInv ==
    /\ NodesOK
    /\ tabs = [t \in DOMAIN tabs |-> tabs[t]]
    /\ \A t \in DOMAIN tabs : IsTable(tabs[t], Len(nodes)) /\ Fresh(tabs[t])
    /\ crashed \in BOOLEAN

-----------------------------------------------------------------------------
(* Numbers                                                                 *)

LEMMA NatMin ==
    ASSUME NEW S \in SUBSET Nat, S # {}
    PROVE  \E x \in S : \A y \in S : x <= y
<1>1. PICK R : R = OpToRel(<, Nat)
  OBVIOUS
<1>2. IsWellFoundedOn(R, Nat)
  BY <1>1, NatLessThanWellFounded
<1>3. PICK x \in S : \A y \in S : ~ (<<y, x>> \in R)
  BY <1>2, WFMin
<1>4. \A y \in S : y < x => <<y, x>> \in R
  BY <1>1 DEF OpToRel
<1>5. \A y \in S : ~ (y < x)
  BY <1>3, <1>4, Zenon
<1> QED BY <1>5

(* A set of numbers below a bound has a greatest element.                  *)
LEMMA BoundedMax ==
    ASSUME NEW S \in SUBSET Int, NEW u \in Int, S # {}, \A y \in S : y <= u
    PROVE  \E x \in S : \A y \in S : y <= x
<1>1. PICK T : T = {n \in Nat : u - n \in S}
  OBVIOUS
<1>2. \A y \in S : u - y \in T
  BY <1>1
<1>3. PICK n \in T : \A k \in T : n <= k
  BY <1>1, <1>2, NatMin
<1>4. \A y \in S : n <= u - y
  BY <1>2, <1>3
<1> QED BY <1>1, <1>3, <1>4

LEMMA Divides ==
    ASSUME NEW a \in Nat, NEW n \in Nat \ {0}
    PROVE  \E q \in Nat : a = n * q + (a % n) /\ a % n \in 0 .. n - 1
<1>1. a = n * (a \div n) + (a % n) /\ a % n \in 0 .. n - 1 /\ a \div n \in Nat
  OBVIOUS
<1> QED BY <1>1

LEMMA NoMultiple ==
    ASSUME NEW n \in Nat \ {0}, NEW d \in Int, n * d < n, -n < n * d
    PROVE  d = 0
<1>1. CASE d >= 1
  BY <1>1
<1>2. CASE d <= -1
  BY <1>2
<1> QED BY <1>1, <1>2

LEMMA SameRest ==
    ASSUME NEW a \in Nat, NEW b \in Nat, NEW n \in Nat \ {0}, NEW m \in Int,
           a = b + n * m
    PROVE  a % n = b % n
<1>1. PICK p \in Nat : a = n * p + (a % n) /\ a % n \in 0 .. n - 1
  BY Divides
<1>2. PICK q \in Nat : b = n * q + (b % n) /\ b % n \in 0 .. n - 1
  BY Divides
<1>3. PICK r \in Int, s \in Int : /\ r = a % n /\ s = b % n
                                  /\ 0 <= r /\ r < n /\ 0 <= s /\ s < n
  BY <1>1, <1>2
<1>4. n * (m + q - p) = r - s
  BY <1>1, <1>2, <1>3
<1>5. m + q - p = 0
  BY <1>3, <1>4, NoMultiple
<1>6. n * (m + q - p) = 0
  BY <1>5
<1> QED BY <1>3, <1>4, <1>6

(* Keys that share a bucket of a longer array share one of a shorter.      *)
LEMMA SameShorter ==
    ASSUME NEW a \in Nat, NEW b \in Nat, NEW n \in Nat \ {0}, NEW k \in Nat \ {0},
           Bucket(a, n * k) = Bucket(b, n * k)
    PROVE  Bucket(a, n) = Bucket(b, n)
<1>1. n * k \in Nat \ {0} /\ a % (n * k) = b % (n * k)
  BY DEF Bucket
<1>2. PICK p \in Nat : a = (n * k) * p + (a % (n * k))
  BY <1>1, Divides
<1>3. PICK q \in Nat : b = (n * k) * q + (b % (n * k))
  BY <1>1, Divides
<1>4. PICK m \in Int : m = k * (p - q)
  OBVIOUS
<1>5. n * m = (n * k) * p - (n * k) * q
  BY <1>4
<1>6. a = b + n * m
  BY <1>1, <1>2, <1>3, <1>5
<1> QED BY <1>6, SameRest DEF Bucket

(* A table never counts as many entries as it has buckets.                 *)
LEMMA LoadBelow == Load(LEN) \in Nat /\ Load(LEN) < LEN
BY TableAssumption DEF Load

-----------------------------------------------------------------------------
(* Records and tables                                                      *)

LEMMA CellRecord ==
    ASSUME NEW k \in 0 .. MAX_NODES, NEW c \in Cells(k)
    PROVE  /\ IsRecord(c) <=> c \in Records(k)
           /\ IsRecord(c) => /\ c = Record(c.key, c.val, c.next)
                             /\ c.key \in Hashes /\ c.val \in Vals \cup {Null}
                             /\ c.next \in 0 .. k
<1>1. ASSUME c \in Records(k) PROVE IsRecord(c) /\ c = Record(c.key, c.val, c.next)
                                    /\ c.key \in Hashes /\ c.val \in Vals \cup {Null}
                                    /\ c.next \in 0 .. k
  <2>1. /\ c = [key |-> c.key, val |-> c.val, next |-> c.next]
        /\ c.key \in Hashes /\ c.val \in Vals \cup {Null} /\ c.next \in 0 .. k
    BY <1>1 DEF Records
  <2>2. c.next \in 0 .. MAX_NODES
    BY <2>1, TableAssumption
  <2>3. c \notin {Empty, Wild}
    BY <2>1, <2>2, TableAssumption, Zenon
  <2> QED BY <2>1, <2>3 DEF IsRecord, Record
<1>2. ASSUME IsRecord(c) PROVE c \in Records(k)
  BY <1>2 DEF Cells, IsRecord
<1> QED BY <1>1, <1>2

LEMMA RecordIn ==
    ASSUME NEW k \in Nat, NEW h \in Hashes, NEW v \in Vals \cup {Null},
           NEW n \in 0 .. k
    PROVE  /\ Record(h, v, n) \in Records(k)
           /\ Record(h, v, n).key = h /\ Record(h, v, n).val = v
           /\ Record(h, v, n).next = n
BY DEF Record, Records

LEMMA CellsGrow ==
    ASSUME NEW k \in Nat, NEW n \in Nat, k <= n
    PROVE  Cells(k) \subseteq Cells(n)
<1>1. 0 .. k \subseteq 0 .. n
  OBVIOUS
<1>2. Records(k) \subseteq Records(n)
  BY <1>1 DEF Records
<1> QED BY <1>2 DEF Cells

LEMMA TableGrows ==
    ASSUME NEW k \in Nat, NEW n \in Nat, k <= n, NEW T, IsTable(T, k)
    PROVE  IsTable(T, n)
<1>1. T.heads \in [0 .. T.len - 1 -> Cells(n)]
  BY CellsGrow DEF IsTable
<1> QED BY <1>1 DEF IsTable

LEMMA HeadFacts ==
    ASSUME NEW k \in 0 .. MAX_NODES, NEW T, IsTable(T, k), NEW h \in Hashes
    PROVE  /\ Bucket(h, T.len) \in 0 .. T.len - 1
           /\ HeadOf(T, h) \in Cells(k)
<1>1. h \in Nat /\ T.len \in Nat \ {0} /\ T.heads \in [0 .. T.len - 1 -> Cells(k)]
  BY TableAssumption DEF IsTable
<1>2. h % T.len \in 0 .. T.len - 1
  BY <1>1
<1> QED BY <1>1, <1>2 DEF Bucket, HeadOf

(* The table T with the record r at the head of bucket b.                  *)
Put(T, b, r) == [T EXCEPT !.heads[b] = r]

LEMMA PutHead ==
    ASSUME NEW k \in 0 .. MAX_NODES, NEW T, IsTable(T, k),
           NEW b \in 0 .. T.len - 1, NEW r \in Records(k), Bucket(r.key, T.len) = b
    PROVE  /\ IsTable(Put(T, b, r), k)
           /\ Put(T, b, r).len = T.len /\ Put(T, b, r).count = T.count
           /\ Put(T, b, r).copied = T.copied
           /\ Put(T, b, r).heads = [T.heads EXCEPT ![b] = r]
<1>1. Put(T, b, r) = [count |-> T.count, len |-> T.len, copied |-> T.copied,
                      heads |-> [T.heads EXCEPT ![b] = r]]
  <2>1. PICK c, l, p, H : T = [count |-> c, len |-> l, copied |-> p, heads |-> H]
    BY DEF IsTable
  <2> QED BY <2>1 DEF Put
<1>2. /\ Put(T, b, r).len = T.len /\ Put(T, b, r).count = T.count
      /\ Put(T, b, r).copied = T.copied
      /\ Put(T, b, r).heads = [T.heads EXCEPT ![b] = r]
  BY <1>1
<1>3. r \in Cells(k)
  BY DEF Cells
<1>4. T.heads \in [0 .. T.len - 1 -> Cells(k)]
  BY DEF IsTable
<1>5. [T.heads EXCEPT ![b] = r] \in [0 .. T.len - 1 -> Cells(k)]
  BY <1>3, <1>4
<1>6. \A a \in 0 .. T.len - 1 : IsRecord([T.heads EXCEPT ![b] = r][a]) =>
          Bucket([T.heads EXCEPT ![b] = r][a].key, T.len) = a
  <2> SUFFICES ASSUME NEW a \in 0 .. T.len - 1,
                      IsRecord([T.heads EXCEPT ![b] = r][a])
               PROVE  Bucket([T.heads EXCEPT ![b] = r][a].key, T.len) = a
    OBVIOUS
  <2>1. CASE a = b
    BY <2>1, <1>4
  <2>2. CASE a # b
    BY <2>2, <1>4 DEF IsTable
  <2> QED BY <2>1, <2>2
<1>7. /\ T.count \in Nat /\ T.len \in Nat \ {0} /\ T.copied \in BOOLEAN
      /\ \E j \in Nat \ {0} : T.len = LEN * j
  BY DEF IsTable
<1> DEFINE U == Put(T, b, r)
<1>8. U = [count |-> U.count, len |-> U.len, copied |-> U.copied, heads |-> U.heads]
  BY <1>1, <1>2
<1> HIDE DEF U
<1>9. IsTable(U, k)
  <2>1. U.len = T.len /\ U.count = T.count /\ U.copied = T.copied
        /\ U.heads = [T.heads EXCEPT ![b] = r]
    BY <1>2 DEF U
  <2> QED BY <1>5, <1>6, <1>7, <1>8, <2>1 DEF IsTable
<1> QED BY <1>2, <1>9 DEF U

LEMMA NewIsTable == IsTable(NewTable, 0) /\ Fresh(NewTable)
<1>1. /\ NewTable.count = 0 /\ NewTable.len = LEN /\ NewTable.copied = FALSE
      /\ NewTable.heads = [b \in 0 .. LEN - 1 |-> Empty]
  BY DEF NewTable
<1>2. NewTable = [count |-> NewTable.count, len |-> NewTable.len,
                  copied |-> NewTable.copied, heads |-> NewTable.heads]
  BY DEF NewTable
<1>3. LEN \in Nat \ {0} /\ \E j \in Nat \ {0} : LEN = LEN * j
  <2>1. LEN = LEN * 1 /\ LEN \in Nat \ {0}
    BY TableAssumption
  <2>2. 1 \in Nat \ {0}
    OBVIOUS
  <2> QED BY <2>1, <2>2, Zenon
<1>4. \A b \in 0 .. LEN - 1 : ~ IsRecord(NewTable.heads[b])
  BY <1>1 DEF IsRecord
<1>5. IsTable(NewTable, 0)
  <2> DEFINE U == NewTable
  <2>1. /\ U = [count |-> U.count, len |-> U.len, copied |-> U.copied,
                heads |-> U.heads]
        /\ U.count = 0 /\ U.len = LEN /\ U.copied = FALSE
        /\ U.heads = [b \in 0 .. LEN - 1 |-> Empty]
        /\ \A b \in 0 .. LEN - 1 : ~ IsRecord(U.heads[b])
    BY <1>1, <1>2, <1>4
  <2> HIDE DEF U
  <2>2. U.heads \in [0 .. U.len - 1 -> Cells(0)]
    BY <2>1 DEF Cells
  <2>3. U.copied \in BOOLEAN
    BY <2>1
  <2>4. /\ U.count \in Nat /\ U.len \in Nat \ {0}
        /\ \A b \in 0 .. U.len - 1 : ~ IsRecord(U.heads[b])
    BY <1>3, <2>1
  <2>5. \E j \in Nat \ {0} : U.len = LEN * j
    BY <1>3, <2>1
  <2>6. IsTable(U, 0)
    BY <2>1, <2>2, <2>3, <2>4, <2>5 DEF IsTable
  <2> QED BY <2>6 DEF U
<1>6. Used(NewTable) = {}
  BY <1>1, <1>4 DEF Used
<1>7. Cardinality(Used(NewTable)) = 0
  BY <1>6, FS_EmptySet
<1>8. 0 <= Load(LEN)
  BY LoadBelow
<1> QED BY <1>1, <1>5, <1>7, <1>8 DEF Fresh

LEMMA CountedIsTable ==
    ASSUME NEW k \in 0 .. MAX_NODES, NEW T, IsTable(T, k)
    PROVE  /\ IsTable(Counted(T), k)
           /\ Counted(T).len = T.len /\ Counted(T).count = T.count + 1
           /\ Counted(T).copied = T.copied /\ Counted(T).heads = T.heads
<1>1. Counted(T) = [count |-> T.count + 1, len |-> T.len, copied |-> T.copied,
                    heads |-> T.heads]
  <2>1. PICK c, l, p, H : T = [count |-> c, len |-> l, copied |-> p, heads |-> H]
    BY DEF IsTable
  <2> QED BY <2>1 DEF Counted
<1>2. /\ Counted(T).len = T.len /\ Counted(T).count = T.count + 1
      /\ Counted(T).copied = T.copied /\ Counted(T).heads = T.heads
  BY <1>1
<1> DEFINE U == Counted(T)
<1>3. /\ U = [count |-> U.count, len |-> U.len, copied |-> U.copied, heads |-> U.heads]
      /\ U.len = T.len /\ U.count = T.count + 1 /\ U.copied = T.copied
      /\ U.heads = T.heads
  BY <1>1, <1>2
<1> HIDE DEF U
<1>4. IsTable(U, k)
  BY <1>3 DEF IsTable
<1> QED BY <1>2, <1>4 DEF U

-----------------------------------------------------------------------------
(* Growth                                                                  *)

LEMMA MovedMax ==
    ASSUME NEW T, T.len \in Nat, NEW b, Moved(T, b) # {}
    PROVE  LET a == CHOOSE a \in Moved(T, b) : \A c \in Moved(T, b) : c <= a
           IN  a \in Moved(T, b) /\ \A c \in Moved(T, b) : c <= a
<1>1. Moved(T, b) \subseteq 0 .. T.len - 1
  BY DEF Moved
<1>2. Moved(T, b) \in SUBSET Int /\ \A y \in Moved(T, b) : y <= T.len
  BY <1>1
<1>3. \E a \in Moved(T, b) : \A c \in Moved(T, b) : c <= a
  <2> DEFINE M == Moved(T, b)
  <2>1. M \in SUBSET Int /\ M # {} /\ \A y \in M : y <= T.len
    BY <1>2
  <2>2. T.len \in Int
    OBVIOUS
  <2> HIDE DEF M
  <2>3. \E a \in M : \A c \in M : c <= a
    BY <2>1, <2>2, BoundedMax
  <2> QED BY <2>3 DEF M
<1> QED BY <1>3, Zenon

(* The head records of T's grown array.                                    *)
GrownHeads(T, unused) ==
    [b \in 0 .. T.len * INC - 1 |->
        IF Moved(T, b) # {}
        THEN T.heads[CHOOSE a \in Moved(T, b) : \A c \in Moved(T, b) : c <= a]
        ELSE IF b \in unused THEN Empty ELSE Wild]

LEMMA GrownFields ==
    ASSUME NEW k \in 0 .. MAX_NODES, NEW T, IsTable(T, k), NEW unused
    PROVE  LET G == Grown(T, unused) IN
           /\ G = [count |-> G.count, len |-> G.len, copied |-> G.copied,
                   heads |-> G.heads]
           /\ G.len = T.len * INC /\ G.count = T.count /\ G.copied = T.copied
           /\ G.heads = GrownHeads(T, unused)
<1>1. PICK c, l, p, H : T = [count |-> c, len |-> l, copied |-> p, heads |-> H]
  BY DEF IsTable
<1>2. Grown(T, unused) = [T EXCEPT !.len = @ * INC, !.heads = GrownHeads(T, unused)]
  BY DEF Grown, GrownHeads
<1>3. Grown(T, unused) = [count |-> T.count, len |-> T.len * INC,
                          copied |-> T.copied, heads |-> GrownHeads(T, unused)]
  BY <1>1, <1>2
<1> QED BY <1>3

LEMMA GrownHead ==
    ASSUME NEW T, T.len \in Nat, NEW unused, NEW b \in 0 .. T.len * INC - 1
    PROVE  /\ Moved(T, b) # {} =>
                 \E a \in Moved(T, b) : GrownHeads(T, unused)[b] = T.heads[a]
           /\ Moved(T, b) = {} => GrownHeads(T, unused)[b] \in {Empty, Wild}
<1>1. ASSUME Moved(T, b) # {}
      PROVE  \E a \in Moved(T, b) : GrownHeads(T, unused)[b] = T.heads[a]
  <2> DEFINE a == CHOOSE a \in Moved(T, b) : \A c \in Moved(T, b) : c <= a
  <2>1. a \in Moved(T, b)
    BY <1>1, MovedMax
  <2>2. GrownHeads(T, unused)[b] = T.heads[a]
    BY <1>1 DEF GrownHeads
  <2> QED BY <2>1, <2>2
<1>2. ASSUME Moved(T, b) = {} PROVE GrownHeads(T, unused)[b] \in {Empty, Wild}
  BY <1>2 DEF GrownHeads
<1> QED BY <1>1, <1>2

(* A grown array is a table again, twice as long.                          *)
LEMMA GrownIsTable ==
    ASSUME NEW k \in 0 .. MAX_NODES, NEW T, IsTable(T, k), NEW unused
    PROVE  IsTable(Grown(T, unused), k)
<1> DEFINE G == Grown(T, unused)
<1>1. /\ G = [count |-> G.count, len |-> G.len, copied |-> G.copied,
              heads |-> G.heads]
      /\ G.len = T.len * INC /\ G.count = T.count /\ G.copied = T.copied
      /\ G.heads = GrownHeads(T, unused)
  BY GrownFields
<1> HIDE DEF G
<1>0. T.len \in Nat
  BY DEF IsTable
<1>2. PICK j \in Nat \ {0} : T.len = LEN * j
  BY DEF IsTable
<1>3. G.len = LEN * (j * 2) /\ j * 2 \in Nat \ {0} /\ G.len \in Nat \ {0}
  <2>1. T.len \in Nat \ {0} /\ LEN \in Nat
    BY TableAssumption DEF IsTable
  <2> QED BY <1>1, <1>2, <2>1 DEF INC
<1>4. ASSUME NEW b \in 0 .. G.len - 1
      PROVE  /\ G.heads[b] \in Cells(k)
             /\ IsRecord(G.heads[b]) => Bucket(G.heads[b].key, G.len) = b
  <2>1. CASE Moved(T, b) # {}
    <3>1. PICK a \in Moved(T, b) : G.heads[b] = T.heads[a]
      BY <1>0, <1>1, <2>1, GrownHead
    <3>2. a \in 0 .. T.len - 1 /\ Bucket(T.heads[a].key, T.len * INC) = b
      BY DEF Moved
    <3> QED BY <1>1, <3>1, <3>2 DEF IsTable
  <2>2. CASE Moved(T, b) = {}
    <3>1. G.heads[b] \in {Empty, Wild}
      BY <1>0, <1>1, <2>2, GrownHead
    <3> QED BY <3>1 DEF Cells, IsRecord
  <2> QED BY <2>1, <2>2
<1>5. G.heads \in [0 .. G.len - 1 -> Cells(k)]
  <2>1. G.heads = [b \in 0 .. G.len - 1 |-> G.heads[b]]
    BY <1>1 DEF GrownHeads
  <2> QED BY <1>4, <2>1
<1>6. G.count \in Nat /\ G.copied \in BOOLEAN
  BY <1>1 DEF IsTable
<1>7. IsTable(G, k)
  BY <1>1, <1>3, <1>4, <1>5, <1>6 DEF IsTable
<1> QED BY <1>7 DEF G

(* A key that shares its bucket with none stays what it was.               *)
LEMMA LoneHead ==
    ASSUME NEW k \in 0 .. MAX_NODES, NEW T, IsTable(T, k), NEW h \in Lone,
           IsRecord(HeadOf(T, h))
    PROVE  HeadOf(T, h).key = h
<1>1. h \in Hashes
  BY DEF Lone
<1>2. Bucket(h, T.len) \in 0 .. T.len - 1 /\ HeadOf(T, h) \in Cells(k)
  BY <1>1, HeadFacts
<1>3. HeadOf(T, h).key \in Hashes
  BY <1>2, CellRecord
<1>4. Bucket(HeadOf(T, h).key, T.len) = Bucket(h, T.len)
  BY <1>2 DEF IsTable, HeadOf
<1>5. PICK g : g = HeadOf(T, h).key
  OBVIOUS
<1>6. PICK j \in Nat \ {0} : T.len = LEN * j
  BY DEF IsTable
<1>7. g \in Nat /\ h \in Nat /\ LEN \in Nat \ {0}
  BY <1>1, <1>3, <1>5, TableAssumption
<1>8. Bucket(g, LEN * j) = Bucket(h, LEN * j)
  BY <1>4, <1>5, <1>6
<1>9. Bucket(g, LEN) = Bucket(h, LEN)
  BY <1>7, <1>8, SameShorter
<1> QED BY <1>3, <1>5, <1>9 DEF Lone

LEMMA LoneApart ==
    ASSUME NEW k \in 0 .. MAX_NODES, NEW T, IsTable(T, k), NEW h \in Lone,
           NEW g \in Hashes, g # h
    PROVE  Bucket(g, T.len) # Bucket(h, T.len)
<1>1. h \in Hashes /\ Bucket(g, LEN) # Bucket(h, LEN)
  BY DEF Lone
<1>2. PICK j \in Nat \ {0} : T.len = LEN * j
  BY DEF IsTable
<1>3. g \in Nat /\ h \in Nat /\ LEN \in Nat \ {0}
  BY <1>1, TableAssumption
<1> QED BY <1>1, <1>2, <1>3, SameShorter

LEMMA GrownLone ==
    ASSUME NEW k \in 0 .. MAX_NODES, NEW T, IsTable(T, k), ~ GrowCrashes(T),
           NEW unused, NEW h \in Lone
    PROVE  HeadOf(Grown(T, unused), h) = HeadOf(T, h)
<1> DEFINE G == Grown(T, unused)
           a == Bucket(h, T.len)
           b == Bucket(h, T.len * INC)
<1>1. h \in Hashes
  BY DEF Lone
<1>2. a \in 0 .. T.len - 1 /\ HeadOf(T, h) = T.heads[a]
  BY <1>1, HeadFacts DEF HeadOf
<1>3. G.len = T.len * INC
  BY GrownFields
<1>4. b \in 0 .. T.len * INC - 1 /\ HeadOf(G, h) = G.heads[b]
  <2>1. IsTable(G, k)
    BY GrownIsTable
  <2>2. Bucket(h, G.len) \in 0 .. G.len - 1
    BY <1>1, <2>1, HeadFacts
  <2> QED BY <1>3, <2>2 DEF HeadOf
<1>5. IsRecord(T.heads[a])
  BY <1>2 DEF GrowCrashes
<1>6. T.heads[a].key = h
  BY <1>2, <1>5, LoneHead
<1>7. Moved(T, b) = {a}
  <2>1. a \in Moved(T, b)
    BY <1>2, <1>5, <1>6 DEF Moved
  <2>2. ASSUME NEW c \in Moved(T, b) PROVE c = a
    <3>1. c \in 0 .. T.len - 1 /\ IsRecord(T.heads[c])
          /\ Bucket(T.heads[c].key, T.len * INC) = b
      BY DEF Moved
    <3>2. T.heads[c].key \in Hashes /\ Bucket(T.heads[c].key, T.len) = c
      <4>1. T.heads[c] \in Cells(k)
        BY <3>1 DEF IsTable
      <4>2. T.heads[c].key \in Hashes
        BY <3>1, <4>1, CellRecord
      <4> QED BY <3>1, <4>2 DEF IsTable
    <3>3. IsTable(G, k)
      BY GrownIsTable
    <3>4. T.heads[c].key = h
      BY <1>3, <3>1, <3>2, <3>3, LoneApart
    <3> QED BY <3>2, <3>4
  <2> QED BY <2>1, <2>2
<1>8. G.heads = GrownHeads(T, unused)
  BY GrownFields
<1>9. \E d \in Moved(T, b) : GrownHeads(T, unused)[b] = T.heads[d]
  <2>1. T.len \in Nat
    BY DEF IsTable
  <2> QED BY <1>4, <1>7, <2>1, GrownHead
<1> QED BY <1>2, <1>4, <1>7, <1>8, <1>9

-----------------------------------------------------------------------------
(* Chains                                                                  *)

(* Writing a value in a chained record leaves the chains as they are.      *)
LEMMA OverKeepsChains ==
    ASSUME NodesOK, NEW m \in DOMAIN nodes, NEW v,
           nodes' = [nodes EXCEPT ![m].val = v], NEW n, NEW h
    PROVE  Matches(n, h)' = Matches(n, h)
<1>1. DOMAIN nodes' = DOMAIN nodes
  BY DEF NodesOK
<1>2. \A i \in DOMAIN nodes : nodes'[i].next = nodes[i].next
                              /\ nodes'[i].key = nodes[i].key
  <2> SUFFICES ASSUME NEW i \in DOMAIN nodes
               PROVE  nodes'[i].next = nodes[i].next /\ nodes'[i].key = nodes[i].key
    OBVIOUS
  <2>1. nodes[i] \in Records(MAX_NODES)
    BY DEF NodesOK
  <2>2. PICK x, y, z : nodes[i] = [key |-> x, val |-> y, next |-> z]
    BY <2>1 DEF Records
  <2>3. CASE i = m
    <3>1. nodes'[i] = [nodes[i] EXCEPT !.val = v]
      BY <2>3
    <3> QED BY <2>2, <3>1
  <2>4. CASE i # m
    BY <2>4
  <2> QED BY <2>3, <2>4
<1>3. \A S \in SUBSET DOMAIN nodes : Follows(S)' <=> Follows(S)
  BY <1>2 DEF Follows
<1>4. Chain(n)' = Chain(n)
  BY <1>1, <1>3, Zenon DEF Chain
<1>5. Chain(n) \subseteq DOMAIN nodes
  BY DEF Chain
<1> QED BY <1>2, <1>4, <1>5 DEF Matches

(* A record linked in front of a chain that has none of its key.           *)
LEMMA LinkMatches ==
    ASSUME NodesOK, NEW h, NEW v, NEW n \in 0 .. Len(nodes), ~ InChain(n, h),
           nodes' = Append(nodes, Record(h, v, n)), NEW N, N = Len(nodes) + 1
    PROVE  Matches(N, h)' = {N}
<1>1. /\ Len(nodes) \in Nat /\ DOMAIN nodes = 1 .. Len(nodes)
      /\ DOMAIN nodes' = 1 .. N
      /\ nodes'[N] = Record(h, v, n)
      /\ \A m \in DOMAIN nodes : nodes'[m] = nodes[m]
  BY DEF NodesOK
<1>2. nodes'[N].key = h /\ nodes'[N].next = n
  BY <1>1 DEF Record
<1>3. Chain(N)' = {m \in DOMAIN nodes' :
                     \A S \in SUBSET DOMAIN nodes' :
                        N \in S \cup {0} /\ (\A i \in S : nodes'[i].next \in S \cup {0})
                           => m \in S}
  BY DEF Chain, Follows
<1>4. Matches(N, h)' = {m \in Chain(N)' : nodes'[m].key = h}
  BY DEF Matches
<1>5. N \in Matches(N, h)'
  <2>1. N \in DOMAIN nodes' /\ N # 0
    BY <1>1
  <2>2. N \in Chain(N)'
    BY <1>3, <2>1
  <2> QED BY <1>2, <1>4, <2>2
<1>6. ASSUME NEW m \in Matches(N, h)' PROVE m = N
  <2>1. m \in Chain(N)' /\ nodes'[m].key = h /\ m \in 1 .. N
    BY <1>1, <1>3, <1>4
  <2> SUFFICES ASSUME m # N PROVE FALSE
    OBVIOUS
  <2>2. m \in DOMAIN nodes /\ nodes[m].key = h
    BY <1>1, <2>1
  <2>3. ASSUME NEW S \in SUBSET DOMAIN nodes, n \in S \cup {0}, Follows(S)
        PROVE  m \in S
    <3>1. S \cup {N} \in SUBSET DOMAIN nodes'
      BY <1>1
    <3>2. \A i \in S \cup {N} : nodes'[i].next \in S \cup {N} \cup {0}
      BY <1>1, <1>2, <2>3 DEF Follows
    <3>3. m \in S \cup {N}
      BY <1>3, <2>1, <3>1, <3>2
    <3> QED BY <3>3
  <2>4. m \in Chain(n)
    BY <2>2, <2>3 DEF Chain
  <2> QED BY <2>2, <2>4 DEF InChain, Matches
<1> QED BY <1>5, <1>6

-----------------------------------------------------------------------------
(* Insertion                                                               *)

(* What insert_entry leaves: a table U whose other buckets are T's.        *)
Inserted(U, T, h) ==
    /\ U.len = T.len /\ U.count = T.count /\ U.copied = T.copied
    /\ IsRecord(HeadOf(U, h))
    /\ \A b \in 0 .. T.len - 1 :
          b # Bucket(h, T.len) => U.heads[b] = T.heads[b]

Placed(t, T, h, v) ==
    \E U : /\ tabs' = [tabs EXCEPT ![t] = U]
           /\ IsTable(U, Len(nodes')) /\ Len(nodes) <= Len(nodes')
           /\ Inserted(U, T, h) /\ Lookup(U, h)' = v

LEMMA PutInserts ==
    ASSUME NEW k \in 0 .. MAX_NODES, NEW T, IsTable(T, k), NEW h \in Hashes,
           NEW r \in Records(k), Bucket(r.key, T.len) = Bucket(h, T.len)
    PROVE  LET U == Put(T, Bucket(h, T.len), r) IN
           IsTable(U, k) /\ Inserted(U, T, h) /\ HeadOf(U, h) = r
<1> DEFINE b == Bucket(h, T.len)
           U == Put(T, b, r)
<1>1. b \in 0 .. T.len - 1
  BY HeadFacts
<1>2. /\ IsTable(U, k) /\ U.len = T.len /\ U.count = T.count /\ U.copied = T.copied
      /\ U.heads = [T.heads EXCEPT ![b] = r]
  BY <1>1, PutHead
<1>3. DOMAIN T.heads = 0 .. T.len - 1
  BY DEF IsTable
<1>4. HeadOf(U, h) = r
  BY <1>1, <1>2, <1>3 DEF HeadOf
<1>5. IsRecord(r)
  BY CellRecord DEF Cells
<1>6. \A a \in 0 .. T.len - 1 : a # b => U.heads[a] = T.heads[a]
  BY <1>2, <1>3
<1> QED BY <1>2, <1>4, <1>5, <1>6 DEF Inserted

LEMMA NodesNat == NodesOK => Len(nodes) \in 0 .. MAX_NODES
BY TableAssumption DEF NodesOK

LEMMA HeadInserts ==
    ASSUME NodesOK, NEW T, IsTable(T, Len(nodes)), NEW h \in Hashes,
           NEW v \in Vals \cup {Null}, NEW t, InsertHead(t, T, h, v)
    PROVE  NodesOK' /\ Placed(t, T, h, v)
<1> DEFINE r == Record(h, v, 0)
           U == Put(T, Bucket(h, T.len), r)
<1>1. /\ tabs' = [tabs EXCEPT ![t] = U] /\ nodes' = nodes
  BY DEF InsertHead, SetHead, Put
<1>2. Len(nodes) \in 0 .. MAX_NODES /\ Len(nodes) \in Nat
  BY NodesNat
<1>3. r \in Records(Len(nodes)) /\ r.key = h /\ r.val = v
  BY <1>2, RecordIn
<1>4. Bucket(r.key, T.len) = Bucket(h, T.len)
  BY <1>3
<1>5. IsTable(U, Len(nodes)) /\ Inserted(U, T, h) /\ HeadOf(U, h) = r
  BY <1>2, <1>3, <1>4, PutInserts
<1> HIDE DEF U, r
<1>6. Holds(HeadOf(U, h), h)
  BY <1>3, <1>5 DEF Inserted, Holds
<1>7. Lookup(U, h)' = v
  BY <1>3, <1>5, <1>6 DEF Lookup, Holds
<1>8. NodesOK'
  BY <1>1 DEF NodesOK
<1>9. IsTable(U, Len(nodes')) /\ Len(nodes) <= Len(nodes')
  BY <1>1, <1>2, <1>5
<1> QED BY <1>1, <1>5, <1>7, <1>8, <1>9 DEF Placed

LEMMA OverInserts ==
    ASSUME NodesOK, NEW T, IsTable(T, Len(nodes)), NEW h \in Hashes,
           NEW v \in Vals \cup {Null}, NEW t, InsertOver(t, T, h, v)
    PROVE  NodesOK' /\ Placed(t, T, h, v)
<1> DEFINE n == HeadOf(T, h).next
           m == NodeOf(n, h)
<1>1. /\ tabs' = [tabs EXCEPT ![t] = T] /\ nodes' = [nodes EXCEPT ![m].val = v]
      /\ IsRecord(HeadOf(T, h)) /\ ~ Holds(HeadOf(T, h), h) /\ InChain(n, h)
  BY DEF InsertOver
<1>2. m \in Matches(n, h)
  BY <1>1 DEF InChain, NodeOf
<1>3. m \in DOMAIN nodes
  BY <1>2 DEF Matches, Chain
<1>4. Matches(n, h)' = Matches(n, h)
  <2> HIDE DEF m, n
  <2> QED BY <1>1, <1>3, OverKeepsChains
<1>5. NodeOf(n, h)' = m /\ InChain(n, h)'
  BY <1>1, <1>4 DEF NodeOf, InChain
<1>6. nodes[m] \in Records(MAX_NODES)
  BY <1>3 DEF NodesOK
<1>7. PICK x, y, z : nodes[m] = [key |-> x, val |-> y, next |-> z]
  BY <1>6 DEF Records
<1>8. nodes'[m] = [key |-> x, val |-> v, next |-> z]
  <2>1. nodes'[m] = [nodes[m] EXCEPT !.val = v]
    BY <1>1, <1>3
  <2> QED BY <1>7, <2>1
<1>9. /\ Len(nodes') = Len(nodes) /\ DOMAIN nodes' = DOMAIN nodes
      /\ \A i \in DOMAIN nodes : i # m => nodes'[i] = nodes[i]
  BY <1>1 DEF NodesOK
<1>10. NodesOK'
  <2>1. nodes'[m] \in Records(MAX_NODES) /\ nodes'[m].next = nodes[m].next
    BY <1>6, <1>7, <1>8 DEF Records
  <2>2. nodes' \in Seq(Records(MAX_NODES))
    <3>1. \A i \in 1 .. Len(nodes) : nodes'[i] \in Records(MAX_NODES)
      BY <1>9, <2>1 DEF NodesOK
    <3>2. DOMAIN nodes = 1 .. Len(nodes)
      BY DEF NodesOK
    <3>3. PICK R : R = [nodes[m] EXCEPT !.val = v]
      OBVIOUS
    <3>4. nodes' = [nodes EXCEPT ![m] = R]
      BY <1>1, <3>3
    <3>5. nodes' = [i \in DOMAIN nodes |-> nodes'[i]]
      BY <3>4 DEF NodesOK
    <3> QED BY <3>1, <3>2, <3>5 DEF NodesOK
  <2>3. \A i \in DOMAIN nodes' : nodes'[i].next \in 0 .. i - 1
    BY <1>9, <2>1 DEF NodesOK
  <2> QED BY <1>9, <2>2, <2>3 DEF NodesOK
<1>11. Lookup(T, h)' = v
  <2>1. nodes'[NodeOf(n, h)'].val = v
    BY <1>5, <1>8
  <2> QED BY <1>1, <1>5, <2>1 DEF Lookup
<1>12. Inserted(T, T, h)
  BY <1>1 DEF Inserted
<1>13. IsTable(T, Len(nodes')) /\ Len(nodes) <= Len(nodes')
  BY <1>9, NodesNat
<1> QED BY <1>1, <1>10, <1>11, <1>12, <1>13 DEF Placed

LEMMA LinkInserts ==
    ASSUME NodesOK, NEW T, IsTable(T, Len(nodes)), NEW h \in Hashes,
           NEW v \in Vals \cup {Null}, NEW t, InsertLink(t, T, h, v)
    PROVE  NodesOK' /\ Placed(t, T, h, v)
<1>1. PICK r, N : r = HeadOf(T, h) /\ N = Len(nodes) + 1
  OBVIOUS
<1> DEFINE s == [r EXCEPT !.next = N]
           U == Put(T, Bucket(h, T.len), s)
<1>2. /\ IsRecord(r) /\ ~ Holds(r, h) /\ ~ InChain(r.next, h)
      /\ Len(nodes) < MAX_NODES
      /\ nodes' = Append(nodes, Record(h, v, r.next))
      /\ tabs' = [tabs EXCEPT ![t] = U]
  BY <1>1 DEF InsertLink, SetHead, Put
<1>3. /\ Len(nodes) \in 0 .. MAX_NODES /\ Len(nodes) \in Nat
      /\ N \in 0 .. MAX_NODES /\ N \in Nat /\ N # 0
  BY <1>1, <1>2, NodesNat, TableAssumption
<1>4. r \in Cells(Len(nodes))
  BY <1>1, <1>3, HeadFacts
<1>5. /\ r = Record(r.key, r.val, r.next) /\ r.key \in Hashes
      /\ r.val \in Vals \cup {Null} /\ r.next \in 0 .. Len(nodes)
  BY <1>2, <1>3, <1>4, CellRecord
<1>6. s = Record(r.key, r.val, N)
  BY <1>5 DEF Record
<1>7. s \in Records(N) /\ s.key = r.key /\ s.next = N
  <2>1. N \in 0 .. N
    BY <1>3
  <2>2. /\ Record(r.key, r.val, N) \in Records(N)
        /\ Record(r.key, r.val, N).key = r.key
        /\ Record(r.key, r.val, N).next = N
    BY <1>3, <1>5, <2>1 DEF Record, Records
  <2> HIDE DEF s
  <2> QED BY <1>6, <2>2
<1>8. Bucket(r.key, T.len) = Bucket(h, T.len)
  <2>1. Bucket(h, T.len) \in 0 .. T.len - 1
    BY <1>3, HeadFacts
  <2> QED BY <1>1, <1>2, <2>1 DEF IsTable, HeadOf
<1>9. IsTable(T, N)
  BY <1>1, <1>3, TableGrows
<1>10. IsTable(U, N) /\ Inserted(U, T, h) /\ HeadOf(U, h) = s
  <2> HIDE DEF s
  <2> QED BY <1>3, <1>7, <1>8, <1>9, PutInserts
<1> HIDE DEF U, s
<1>11. Matches(N, h)' = {N}
  BY <1>1, <1>2, <1>5, LinkMatches
<1>12. NodeOf(N, h)' = N /\ InChain(N, h)'
  <2>1. NodeOf(N, h)' = CHOOSE m \in Matches(N, h)' : TRUE
    BY DEF NodeOf
  <2>2. InChain(N, h)' <=> Matches(N, h)' # {}
    BY DEF InChain
  <2> QED BY <1>11, <2>1, <2>2
<1>13. /\ Len(nodes') = N /\ DOMAIN nodes' = 1 .. N
       /\ nodes'[N] = Record(h, v, r.next)
       /\ \A i \in DOMAIN nodes : nodes'[i] = nodes[i]
       /\ DOMAIN nodes = 1 .. Len(nodes)
  BY <1>1, <1>2 DEF NodesOK
<1>14. Record(h, v, r.next) \in Records(MAX_NODES)
       /\ Record(h, v, r.next).val = v /\ Record(h, v, r.next).next = r.next
  <2>1. r.next \in 0 .. MAX_NODES /\ MAX_NODES \in Nat
    BY <1>3, <1>5, TableAssumption
  <2> QED BY <2>1, RecordIn
<1>15. NodesOK'
  <2>1. nodes' \in Seq(Records(MAX_NODES))
    BY <1>2, <1>14 DEF NodesOK
  <2>2. \A i \in DOMAIN nodes' : nodes'[i].next \in 0 .. i - 1
    <3> SUFFICES ASSUME NEW i \in DOMAIN nodes' PROVE nodes'[i].next \in 0 .. i - 1
      OBVIOUS
    <3>1. CASE i = N
      BY <1>1, <1>5, <1>13, <1>14, <3>1
    <3>2. CASE i # N
      <4>1. i \in DOMAIN nodes
        BY <1>1, <1>3, <1>13, <3>2
      <4> QED BY <1>13, <4>1 DEF NodesOK
    <3> QED BY <3>1, <3>2
  <2> QED BY <1>3, <1>13, <2>1, <2>2 DEF NodesOK
<1>16. Lookup(U, h)' = v
  <2>1. IsRecord(s) /\ ~ Holds(s, h)
    <3>1. IsRecord(s)
      BY <1>10 DEF Inserted
    <3> QED BY <1>2, <1>7, <3>1 DEF Holds
  <2>2. Lookup(U, h)' = nodes'[NodeOf(N, h)'].val
    BY <1>7, <1>10, <1>12, <2>1 DEF Lookup
  <2> QED BY <1>12, <1>13, <1>14, <2>2
<1>17. IsTable(U, Len(nodes')) /\ Len(nodes) <= Len(nodes')
  BY <1>1, <1>3, <1>10, <1>13
<1> QED BY <1>2, <1>10, <1>15, <1>16, <1>17 DEF Placed

(* What insert_entry does, and that a lookup then finds what it wrote.     *)
LEMMA InsertFacts ==
    ASSUME NodesOK, NEW T, IsTable(T, Len(nodes)), NEW h \in Hashes,
           NEW v \in Vals \cup {Null}, NEW t, Insert(t, T, h, v), crashed' = FALSE
    PROVE  NodesOK' /\ UNCHANGED crashed /\ Placed(t, T, h, v)
<1>1. ~ Crash
  BY DEF Crash
<1>2. /\ InsertHead(t, T, h, v) \/ InsertOver(t, T, h, v) \/ InsertLink(t, T, h, v)
      /\ UNCHANGED crashed
  BY <1>1 DEF Insert
<1> QED BY <1>2, HeadInserts, OverInserts, LinkInserts

-----------------------------------------------------------------------------
(* A table that did not begin as a copy                                    *)

LEMMA UsedFinite ==
    ASSUME NEW T, T.len \in Nat
    PROVE  IsFiniteSet(Used(T)) /\ Cardinality(Used(T)) \in Nat
<1>1. Used(T) \subseteq 0 .. T.len - 1
  BY DEF Used
<1>2. IsFiniteSet(0 .. T.len - 1)
  BY FS_Interval
<1> QED BY <1>1, <1>2, FS_Subset, FS_CardinalityType

(* It never survives a growth: an empty bucket is left.                    *)
LEMMA FreshGrowthCrashes ==
    ASSUME NEW k \in 0 .. MAX_NODES, NEW T, IsTable(T, k), Fresh(T), ~ T.copied
    PROVE  GrowCrashes(T)
<1>1. T.len = LEN /\ LEN \in Nat /\ Cardinality(Used(T)) <= T.count
      /\ T.count <= Load(LEN) /\ T.count \in Nat
  BY TableAssumption DEF Fresh, IsTable
<1> SUFFICES ASSUME ~ GrowCrashes(T) PROVE FALSE
  OBVIOUS
<1>2. Used(T) = 0 .. LEN - 1
  BY <1>1 DEF Used, GrowCrashes
<1>3. Cardinality(0 .. LEN - 1) = LEN
  <2>1. Cardinality(0 .. LEN - 1) = IF 0 > LEN - 1 THEN 0 ELSE (LEN - 1) - 0 + 1
    BY <1>1, FS_Interval
  <2> QED BY <1>1, <2>1, TableAssumption
<1> QED BY <1>1, <1>2, <1>3, LoadBelow

(* An insertion takes up at most the bucket of its key.                    *)
LEMMA UsedInserted ==
    ASSUME NEW T, T.len \in Nat, NEW U, NEW h, Inserted(U, T, h)
    PROVE  /\ Cardinality(Used(U)) <= Cardinality(Used(T)) + 1
           /\ IsRecord(HeadOf(T, h)) => Cardinality(Used(U)) <= Cardinality(Used(T))
<1> DEFINE b == Bucket(h, T.len)
<1>1. /\ Used(U) \subseteq Used(T) \cup {b}
      /\ IsRecord(HeadOf(T, h)) => Used(U) \subseteq Used(T)
  BY DEF Used, Inserted, HeadOf
<1>2. IsFiniteSet(Used(T)) /\ Cardinality(Used(T)) \in Nat
  BY UsedFinite
<1>3. IsFiniteSet(Used(T) \cup {b})
      /\ Cardinality(Used(T) \cup {b}) <= Cardinality(Used(T)) + 1
  BY <1>2, FS_AddElement
<1>4. Cardinality(Used(U)) <= Cardinality(Used(T) \cup {b})
  BY <1>1, <1>3, FS_Subset
<1>5. ASSUME IsRecord(HeadOf(T, h))
      PROVE  Cardinality(Used(U)) <= Cardinality(Used(T))
  BY <1>1, <1>2, <1>5, FS_Subset
<1>6. Cardinality(Used(U)) \in Nat /\ Cardinality(Used(T) \cup {b}) \in Nat
  BY <1>3, UsedFinite, FS_CardinalityType DEF Inserted
<1> QED BY <1>2, <1>3, <1>4, <1>5, <1>6

LEMMA InsertedLone ==
    ASSUME NEW k \in 0 .. MAX_NODES, NEW T, IsTable(T, k), NEW U,
           NEW h \in Hashes, Inserted(U, T, h), NEW j \in Lone, j # h
    PROVE  HeadOf(U, j) = HeadOf(T, j)
<1>1. j \in Hashes
  BY DEF Lone
<1>2. Bucket(j, T.len) \in 0 .. T.len - 1
  BY <1>1, HeadFacts
<1>3. Bucket(j, T.len) # Bucket(h, T.len)
  BY LoneApart
<1> QED BY <1>2, <1>3 DEF Inserted, HeadOf

(* What a step of write_table leaves in table t, if it does not crash.     *)
Written(t, h, v) ==
    \E U : /\ tabs' = [tabs EXCEPT ![t] = U]
           /\ IsTable(U, Len(nodes')) /\ Fresh(U)
           /\ IsRecord(HeadOf(U, h)) /\ Lookup(U, h)' = v
           /\ \A j \in Lone : j # h => HeadOf(U, j) = HeadOf(tabs[t], j)

LEMMA WriteFacts ==
    ASSUME TableInv, NEW t, NEW h \in Hashes, NEW v \in Vals \cup {Null},
           Write(t, h, v), crashed' = FALSE
    PROVE  /\ t \in DOMAIN tabs /\ NodesOK' /\ Len(nodes) <= Len(nodes')
           /\ UNCHANGED crashed
           /\ Written(t, h, v)
<1>1. PICK T : T = tabs[t]
  OBVIOUS
<1>2. /\ t \in DOMAIN tabs /\ NodesOK /\ IsTable(T, Len(nodes)) /\ Fresh(T)
      /\ Len(nodes) \in 0 .. MAX_NODES /\ T.len \in Nat
  BY <1>1, NodesNat DEF TableInv, Write, IsTable
<1>3. ~ Crash
  BY DEF Crash
<1>4. \/ Find(t, h) # Null /\ Insert(t, T, h, v)
      \/ ~ Full(T) /\ Insert(t, Counted(T), h, v)
      \/ /\ ~ GrowCrashes(T)
         /\ \E unused : Insert(t, Counted(Grown(T, unused)), h, v)
  BY <1>1, <1>3 DEF Write
<1>5. CASE Find(t, h) # Null /\ Insert(t, T, h, v)
  <2>1. NodesOK' /\ UNCHANGED crashed /\ Placed(t, T, h, v)
    BY <1>2, <1>5, InsertFacts
  <2>2. PICK U : /\ tabs' = [tabs EXCEPT ![t] = U]
                 /\ IsTable(U, Len(nodes')) /\ Len(nodes) <= Len(nodes')
                 /\ Inserted(U, T, h) /\ Lookup(U, h)' = v
    BY <2>1 DEF Placed
  <2>3. IsRecord(HeadOf(T, h))
    BY <1>1, <1>5 DEF Find, Lookup
  <2>4. Fresh(U)
    <3>1. Cardinality(Used(U)) <= Cardinality(Used(T))
      BY <1>2, <2>2, <2>3, UsedInserted
    <3>2. Cardinality(Used(U)) \in Nat /\ Cardinality(Used(T)) \in Nat
      BY <1>2, <2>2, UsedFinite DEF IsTable
    <3> QED BY <1>2, <2>2, <3>1, <3>2 DEF Fresh, Inserted, IsTable
  <2>5. \A j \in Lone : j # h => HeadOf(U, j) = HeadOf(T, j)
    BY <1>2, <2>2, InsertedLone
  <2>6. Written(t, h, v)
    BY <1>1, <2>2, <2>4, <2>5 DEF Written, Inserted
  <2> QED BY <1>2, <2>1, <2>2, <2>6
<1>6. CASE ~ Full(T) /\ Insert(t, Counted(T), h, v)
  <2>1. PICK S : S = Counted(T)
    OBVIOUS
  <2>2. /\ IsTable(S, Len(nodes)) /\ S.len = T.len /\ S.count = T.count + 1
        /\ S.copied = T.copied /\ S.heads = T.heads
    BY <1>2, <2>1, CountedIsTable
  <2>3. Insert(t, S, h, v)
    BY <1>6, <2>1
  <2>4. NodesOK' /\ UNCHANGED crashed /\ Placed(t, S, h, v)
    BY <1>2, <2>2, <2>3, InsertFacts
  <2>5. PICK U : /\ tabs' = [tabs EXCEPT ![t] = U]
                 /\ IsTable(U, Len(nodes')) /\ Len(nodes) <= Len(nodes')
                 /\ Inserted(U, S, h) /\ Lookup(U, h)' = v
    BY <2>4 DEF Placed
  <2>6. Fresh(U)
    <3>1. Cardinality(Used(U)) <= Cardinality(Used(S)) + 1
      BY <1>2, <2>2, <2>5, UsedInserted
    <3>2. Used(S) = Used(T)
      BY <2>2 DEF Used
    <3>3. Cardinality(Used(U)) \in Nat /\ Cardinality(Used(T)) \in Nat
      BY <1>2, <2>5, UsedFinite DEF IsTable
    <3>4. T.count \in Nat /\ Load(T.len) \in Int /\ T.count + 1 <= Load(T.len)
      BY <1>2, <1>6 DEF Full, Load, IsTable
    <3> QED BY <1>2, <2>2, <2>5, <3>1, <3>2, <3>3, <3>4 DEF Fresh, Inserted
  <2>7. \A j \in Lone : j # h => HeadOf(U, j) = HeadOf(S, j)
    BY <1>2, <2>2, <2>5, InsertedLone
  <2>8. \A j \in Lone : HeadOf(S, j) = HeadOf(T, j)
    BY <2>2 DEF HeadOf
  <2>9. Written(t, h, v)
    <3>1. \A j \in Lone : j # h => HeadOf(U, j) = HeadOf(tabs[t], j)
      BY <1>1, <2>7, <2>8
    <3>2. IsRecord(HeadOf(U, h))
      BY <2>5 DEF Inserted
    <3> QED BY <2>5, <2>6, <3>1, <3>2 DEF Written
  <2> QED BY <1>2, <2>4, <2>5, <2>9
<1>7. ASSUME ~ GrowCrashes(T), NEW unused,
             Insert(t, Counted(Grown(T, unused)), h, v)
      PROVE  /\ NodesOK' /\ Len(nodes) <= Len(nodes') /\ UNCHANGED crashed
             /\ Written(t, h, v)
  <2>1. PICK G, S : G = Grown(T, unused) /\ S = Counted(G)
    OBVIOUS
  <2>2. IsTable(G, Len(nodes)) /\ G.copied = T.copied
    BY <1>2, <2>1, GrownIsTable, GrownFields
  <2>3. /\ IsTable(S, Len(nodes)) /\ S.len = G.len
        /\ S.copied = G.copied /\ S.heads = G.heads
    BY <1>2, <2>1, <2>2, CountedIsTable
  <2>4. Insert(t, S, h, v)
    BY <1>7, <2>1
  <2>5. NodesOK' /\ UNCHANGED crashed /\ Placed(t, S, h, v)
    BY <1>2, <2>3, <2>4, InsertFacts
  <2>6. PICK U : /\ tabs' = [tabs EXCEPT ![t] = U]
                 /\ IsTable(U, Len(nodes')) /\ Len(nodes) <= Len(nodes')
                 /\ Inserted(U, S, h) /\ Lookup(U, h)' = v
    BY <2>5 DEF Placed
  <2>7. T.copied
    BY <1>2, <1>7, FreshGrowthCrashes
  <2>8. Fresh(U)
    BY <2>2, <2>3, <2>6, <2>7 DEF Fresh, Inserted
  <2>9. \A j \in Lone : j # h => HeadOf(U, j) = HeadOf(S, j)
    BY <1>2, <2>3, <2>6, InsertedLone
  <2>10. \A j \in Lone : HeadOf(S, j) = HeadOf(G, j)
    BY <2>3 DEF HeadOf
  <2>11. \A j \in Lone : HeadOf(G, j) = HeadOf(T, j)
    BY <1>2, <1>7, <2>1, GrownLone
  <2>12. Written(t, h, v)
    <3>1. \A j \in Lone : j # h => HeadOf(U, j) = HeadOf(tabs[t], j)
      BY <1>1, <2>9, <2>10, <2>11
    <3>2. IsRecord(HeadOf(U, h))
      BY <2>6 DEF Inserted
    <3> QED BY <2>6, <2>8, <3>1, <3>2 DEF Written
  <2> QED BY <2>5, <2>6, <2>12
<1>8. CASE ~ GrowCrashes(T) /\ \E unused : Insert(t, Counted(Grown(T, unused)), h, v)
  BY <1>2, <1>7, <1>8
<1> QED BY <1>4, <1>5, <1>6, <1>8

-----------------------------------------------------------------------------
(* The invariant                                                           *)

LEMMA TableInvInit == Init => TableInv
<1> SUFFICES ASSUME Init PROVE TableInv
  OBVIOUS
<1>1. nodes = <<>> /\ DOMAIN tabs = {} /\ tabs = [t \in {} |-> NewTable]
      /\ crashed = FALSE
  BY DEF Init
<1>2. NodesOK
  <2>1. nodes \in Seq(Records(MAX_NODES)) /\ Len(nodes) = 0 /\ DOMAIN nodes = {}
    BY <1>1
  <2> QED BY <2>1, TableAssumption DEF NodesOK
<1>3. tabs = [t \in DOMAIN tabs |-> tabs[t]]
  BY <1>1
<1> QED BY <1>1, <1>2, <1>3 DEF TableInv

LEMMA TablesGrow ==
    ASSUME TableInv, NEW t \in DOMAIN tabs, NEW n \in Nat, Len(nodes) <= n
    PROVE  IsTable(tabs[t], n) /\ Fresh(tabs[t])
<1>1. IsTable(tabs[t], Len(nodes)) /\ Fresh(tabs[t]) /\ Len(nodes) \in Nat
  BY NodesNat DEF TableInv
<1> QED BY <1>1, TableGrows

LEMMA WriteKeeps ==
    ASSUME TableInv, NEW t, NEW h \in Hashes, NEW v \in Vals \cup {Null},
           Write(t, h, v), crashed' = FALSE
    PROVE  TableInv'
<1>1. /\ t \in DOMAIN tabs /\ NodesOK' /\ Len(nodes) <= Len(nodes')
      /\ UNCHANGED crashed
  BY WriteFacts
<1>2. PICK U : /\ tabs' = [tabs EXCEPT ![t] = U]
               /\ IsTable(U, Len(nodes')) /\ Fresh(U)
  BY WriteFacts DEF Written
<1>3. DOMAIN tabs' = DOMAIN tabs /\ tabs' = [u \in DOMAIN tabs' |-> tabs'[u]]
  BY <1>2
<1>4. Len(nodes') \in Nat
  BY <1>1 DEF NodesOK
<1>5. ASSUME NEW u \in DOMAIN tabs'
      PROVE  IsTable(tabs'[u], Len(nodes')) /\ Fresh(tabs'[u])
  <2>1. CASE u = t
    BY <1>1, <1>2, <2>1
  <2>2. CASE u # t
    <3>1. tabs'[u] = tabs[u] /\ u \in DOMAIN tabs
      BY <1>2, <1>3, <2>2
    <3> QED BY <1>1, <1>4, <3>1, TablesGrow
  <2> QED BY <2>1, <2>2
<1>6. \A u \in DOMAIN tabs' : IsTable(tabs'[u], Len(nodes')) /\ Fresh(tabs'[u])
  BY <1>5
<1> QED BY <1>1, <1>3, <1>6 DEF TableInv

LEMMA CopyIsTable ==
    ASSUME NEW k \in 0 .. MAX_NODES, NEW T, IsTable(T, k)
    PROVE  LET C == [T EXCEPT !.count = 0, !.copied = TRUE] IN
           /\ IsTable(C, k) /\ Fresh(C)
           /\ C.len = T.len /\ C.heads = T.heads
<1> DEFINE C == [T EXCEPT !.count = 0, !.copied = TRUE]
<1>1. PICK c, l, p, H : T = [count |-> c, len |-> l, copied |-> p, heads |-> H]
  BY DEF IsTable
<1>2. C = [count |-> 0, len |-> T.len, copied |-> TRUE, heads |-> T.heads]
  <2>1. PICK y : y = TRUE
    OBVIOUS
  <2>2. PICK M : M = [T EXCEPT !.count = 0]
    OBVIOUS
  <2>3. M = [count |-> 0, len |-> T.len, copied |-> T.copied, heads |-> T.heads]
    BY <1>1, <2>2
  <2>4. [M EXCEPT !.copied = y]
            = [count |-> 0, len |-> T.len, copied |-> y, heads |-> T.heads]
    BY <2>3
  <2> QED BY <2>1, <2>2, <2>4
<1>3. /\ C = [count |-> C.count, len |-> C.len, copied |-> C.copied,
              heads |-> C.heads]
      /\ C.count = 0 /\ C.copied = TRUE /\ C.len = T.len /\ C.heads = T.heads
  BY <1>2
<1> HIDE DEF C
<1>4. C.copied \in BOOLEAN /\ C.copied
  BY <1>3
<1>5. IsTable(C, k)
  BY <1>3, <1>4 DEF IsTable
<1>6. Fresh(C)
  BY <1>4 DEF Fresh
<1> QED BY <1>3, <1>5, <1>6 DEF C

LEMMA TableInvNext == TableInv /\ [Next]_vars => TableInv'
<1> SUFFICES ASSUME TableInv, [Next]_vars PROVE TableInv'
  OBVIOUS
<1>1. CASE UNCHANGED vars
  BY <1>1 DEF vars, TableInv, NodesOK, Fresh, Used
<1>2. CASE Crash
  BY <1>2 DEF Crash, TableInv, NodesOK, Fresh, Used
<1>3. Len(nodes) \in 0 .. MAX_NODES /\ Len(nodes) \in Nat
  BY NodesNat DEF TableInv
<1>4. ASSUME NEW t \in Tables, Create(t) PROVE TableInv'
  <2>1. /\ DOMAIN tabs' = DOMAIN tabs \cup {t}
        /\ tabs' = [u \in DOMAIN tabs' |-> tabs'[u]]
        /\ nodes' = nodes /\ crashed' = crashed
        /\ \A u \in DOMAIN tabs : tabs'[u] = tabs[u]
        /\ tabs'[t] = NewTable
    BY <1>4 DEF Create
  <2>2. IsTable(NewTable, Len(nodes)) /\ Fresh(NewTable)
    BY <1>3, NewIsTable, TableGrows
  <2>3. \A u \in DOMAIN tabs' : IsTable(tabs'[u], Len(nodes)) /\ Fresh(tabs'[u])
    BY <2>1, <2>2 DEF TableInv
  <2> QED BY <2>1, <2>3 DEF TableInv, NodesOK
<1>5. ASSUME NEW t \in Tables, NEW u \in Tables, Copy(t, u), ~ Crash
      PROVE  TableInv'
  <2>1. PICK C : C = [tabs[t] EXCEPT !.count = 0, !.copied = TRUE]
    OBVIOUS
  <2>2. /\ DOMAIN tabs' = DOMAIN tabs \cup {u} /\ t \in DOMAIN tabs
        /\ tabs' = [w \in DOMAIN tabs' |-> tabs'[w]]
        /\ nodes' = nodes /\ crashed' = crashed
        /\ \A w \in DOMAIN tabs : tabs'[w] = tabs[w]
        /\ tabs'[u] = C
    BY <1>5, <2>1 DEF Copy
  <2>3. IsTable(tabs[t], Len(nodes))
    BY <2>2 DEF TableInv
  <2>4. IsTable(C, Len(nodes)) /\ Fresh(C)
    BY <1>3, <2>1, <2>3, CopyIsTable
  <2>5. \A w \in DOMAIN tabs' : IsTable(tabs'[w], Len(nodes)) /\ Fresh(tabs'[w])
    BY <2>2, <2>4 DEF TableInv
  <2> QED BY <2>2, <2>5 DEF TableInv, NodesOK
<1>6. ASSUME NEW t \in Tables, NEW h \in Hashes, NEW v \in Vals \cup {Null},
             Write(t, h, v), ~ Crash
      PROVE  TableInv'
  <2>1. crashed' = FALSE
    <3>1. \E T : Insert(t, T, h, v)
      BY <1>6 DEF Write
    <3>2. crashed' = crashed /\ crashed = FALSE
      BY <1>6, <3>1 DEF Insert, Write, TableInv
    <3> QED BY <3>2
  <2> QED BY <1>6, <2>1, WriteKeeps
<1> QED BY <1>1, <1>2, <1>4, <1>5, <1>6 DEF Next

(* The chains run downwards and the heads lie in the buckets of their keys. *)
LEMMA TableTypes == TableInv => TypeOK
<1> SUFFICES ASSUME TableInv PROVE TypeOK
  OBVIOUS
<1>1. ASSUME NEW t \in DOMAIN tabs
      PROVE  /\ tabs[t].len \in Nat \ {0} /\ tabs[t].count \in Nat
             /\ DOMAIN tabs[t].heads = 0 .. tabs[t].len - 1
             /\ \A b \in DOMAIN tabs[t].heads : HeadOK(tabs[t], b)
  <2>1. IsTable(tabs[t], Len(nodes)) /\ Len(nodes) \in 0 .. MAX_NODES
    BY NodesNat DEF TableInv
  <2>2. ASSUME NEW b \in 0 .. tabs[t].len - 1 PROVE HeadOK(tabs[t], b)
    <3>1. tabs[t].heads[b] \in Cells(Len(nodes))
      BY <2>1 DEF IsTable
    <3> QED BY <2>1, <3>1, CellRecord DEF HeadOK, IsTable
  <2> QED BY <2>1, <2>2 DEF IsTable
<1> QED BY <1>1 DEF TypeOK, TableInv, NodesOK

(* Every head record lies in the bucket of its key, and a chain runs       *)
(* through allocated records, downwards: find_entry's loop ends.           *)
THEOREM TableTypeCorrect == Spec => []TypeOK
<1>1. TableInv /\ [Next]_vars => TableInv'
  BY TableInvNext
<1> QED BY <1>1, TableInvInit, TableTypes, PTL DEF Spec

(* A table that alloc_table made, and that no copy_table did, counts an    *)
(* entry for every head: one that is as full as its load factor allows     *)
(* still has an empty bucket, of which realloc_table dies, so that the     *)
(* next new key always ends the process.                                   *)
THEOREM FreshTablesDieOfGrowth == Spec => GrowthKillsFresh
<1>1. TableInv /\ [Next]_vars => TableInv'
  BY TableInvNext
<1>2. TableInv /\ [Next]_vars =>
        [\A t \in Tables, h \in Hashes, v \in Vals \cup {Null} :
            Write(t, h, v) /\ ~ tabs[t].copied /\ Find(t, h) = Null
               /\ tabs[t].count >= Load(tabs[t].len)
            => crashed']_vars
  <2> SUFFICES ASSUME TableInv, NEW t \in Tables, NEW h \in Hashes,
                      NEW v \in Vals \cup {Null}, Write(t, h, v),
                      ~ tabs[t].copied, Find(t, h) = Null,
                      tabs[t].count >= Load(tabs[t].len)
               PROVE  crashed'
    OBVIOUS
  <2>1. PICK T : T = tabs[t]
    OBVIOUS
  <2>2. /\ t \in DOMAIN tabs /\ IsTable(T, Len(nodes)) /\ Fresh(T)
        /\ Len(nodes) \in 0 .. MAX_NODES /\ T.len \in Nat
    BY <2>1, NodesNat DEF TableInv, Write, IsTable
  <2>3. Full(T)
    BY <2>1, <2>2 DEF Full, Load, IsTable
  <2>4. GrowCrashes(T)
    BY <2>1, <2>2, FreshGrowthCrashes
  <2>5. Crash
    BY <2>1, <2>3, <2>4 DEF Write
  <2> QED BY <2>5 DEF Crash
<1> QED BY <1>1, <1>2, TableInvInit, PTL DEF Spec, GrowthKillsFresh

(* After write_table, find_entry returns what was written: over a head,    *)
(* over or in front of a chain, or in an array that grew on the way.       *)
THEOREM WrittenIsThenFound == Spec => WrittenIsFound
<1>1. TableInv /\ [Next]_vars => TableInv'
  BY TableInvNext
<1>2. TableInv /\ [Next]_vars =>
        [\A t \in Tables, h \in Hashes, v \in Vals \cup {Null} :
            Write(t, h, v) /\ ~ crashed' => Find(t, h)' = v]_vars
  <2> SUFFICES ASSUME TableInv, [Next]_vars, NEW t \in Tables, NEW h \in Hashes,
                      NEW v \in Vals \cup {Null}, Write(t, h, v), ~ crashed'
               PROVE  Find(t, h)' = v
    OBVIOUS
  <2>1. crashed' = FALSE
    BY TableInvNext DEF TableInv
  <2>2. PICK U : tabs' = [tabs EXCEPT ![t] = U] /\ Lookup(U, h)' = v
    BY <2>1, WriteFacts DEF Written
  <2>3. tabs'[t] = U
    BY <2>1, <2>2, WriteFacts
  <2>4. Find(t, h)' = Lookup(U, h)'
    BY <2>3 DEF Find, Lookup
  <2> QED BY <2>2, <2>4
<1> QED BY <1>1, <1>2, TableInvInit, PTL DEF Spec, WrittenIsFound

-----------------------------------------------------------------------------
(* Refinement: for keys that share their bucket with none, a dictionary.   *)

(* What a table holds under such keys: the records at their heads.         *)
Kept(T) == [j \in {i \in Lone : IsRecord(HeadOf(T, i))} |-> HeadOf(T, j).val]

LEMMA ContentsKept ==
    ASSUME TableInv, NEW t \in DOMAIN tabs
    PROVE  Contents(t, Lone) = Kept(tabs[t])
<1>1. IsTable(tabs[t], Len(nodes)) /\ Len(nodes) \in 0 .. MAX_NODES
  BY NodesNat DEF TableInv
<1>2. ASSUME NEW j \in Lone, IsRecord(HeadOf(tabs[t], j))
      PROVE  Present(t, j) /\ Find(t, j) = HeadOf(tabs[t], j).val
  <2>1. Holds(HeadOf(tabs[t], j), j)
    BY <1>1, <1>2, LoneHead DEF Holds
  <2> QED BY <1>2, <2>1 DEF Present, Find, Lookup
<1>3. \A j \in Lone : Present(t, j) <=> IsRecord(HeadOf(tabs[t], j))
  BY <1>2 DEF Present
<1>4. {k \in Lone : Present(t, k)} = {i \in Lone : IsRecord(HeadOf(tabs[t], i))}
  BY <1>3
<1> QED BY <1>2, <1>4 DEF Contents, Kept

Dicts == [t \in DOMAIN tabs |-> Contents(t, Lone)]

LEMMA DictsKept ==
    TableInv => Dicts = [t \in DOMAIN tabs |-> Kept(tabs[t])]
BY ContentsKept DEF Dicts

LEMMA WriteStores ==
    ASSUME TableInv, NEW t, NEW h \in Hashes, NEW v \in Vals \cup {Null},
           Write(t, h, v), crashed' = FALSE, NEW U,
           IsTable(U, Len(nodes')), NodesOK', IsRecord(HeadOf(U, h)),
           Lookup(U, h)' = v,
           \A j \in Lone : j # h => HeadOf(U, j) = HeadOf(tabs[t], j)
    PROVE  /\ h \in Lone => Kept(U) = D!Stored(Kept(tabs[t]), h, v)
           /\ h \notin Lone => Kept(U) = Kept(tabs[t])
<1>1. ASSUME h \notin Lone PROVE Kept(U) = Kept(tabs[t])
  <2>1. \A j \in Lone : HeadOf(U, j) = HeadOf(tabs[t], j)
    BY <1>1
  <2> QED BY <2>1 DEF Kept
<1>2. ASSUME h \in Lone PROVE Kept(U) = D!Stored(Kept(tabs[t]), h, v)
  <2>1. Len(nodes') \in 0 .. MAX_NODES
    BY TableAssumption DEF NodesOK
  <2>2. Holds(HeadOf(U, h), h)
    BY <1>2, <2>1, LoneHead DEF Holds
  <2>3. HeadOf(U, h).val = v
    BY <2>2 DEF Lookup, Holds
  <2>4. {i \in Lone : IsRecord(HeadOf(U, i))}
            = {i \in Lone : IsRecord(HeadOf(tabs[t], i))} \cup {h}
    BY <1>2
  <2>5. DOMAIN Kept(tabs[t]) = {i \in Lone : IsRecord(HeadOf(tabs[t], i))}
    BY DEF Kept
  <2>6. \A j \in {i \in Lone : IsRecord(HeadOf(U, i))} :
           HeadOf(U, j).val = IF j = h THEN v ELSE Kept(tabs[t])[j]
    BY <2>3, <2>4 DEF Kept
  <2> QED BY <2>4, <2>5, <2>6 DEF Kept, D!Stored
<1> QED BY <1>1, <1>2

LEMMA TableSimulates == TableInv /\ [Next]_vars => [D!Next]_Dicts
<1> SUFFICES ASSUME TableInv, [Next]_vars PROVE [D!Next]_Dicts
  OBVIOUS
<1>1. Dicts = [t \in DOMAIN tabs |-> Kept(tabs[t])]
  BY DictsKept
<1>2. TableInv'
  BY TableInvNext
<1>3. Dicts' = [t \in DOMAIN tabs' |-> Kept(tabs'[t])]
  <2>1. (TableInv => Dicts = [t \in DOMAIN tabs |-> Kept(tabs[t])])'
    BY DictsKept, PTL
  <2> QED BY <1>2, <2>1 DEF Kept
<1>4. CASE UNCHANGED tabs
  BY <1>1, <1>3, <1>4
<1>5. ASSUME NEW t \in Tables, Create(t) PROVE D!Create(t)
  <2>1. t \notin DOMAIN Dicts /\ DOMAIN Dicts = DOMAIN tabs
    BY <1>1, <1>5 DEF Create
  <2>2. /\ DOMAIN tabs' = DOMAIN tabs \cup {t}
        /\ \A u \in DOMAIN tabs : tabs'[u] = tabs[u]
        /\ tabs'[t] = NewTable /\ t \notin DOMAIN tabs
    BY <1>5 DEF Create
  <2>3. Kept(NewTable) = [k \in {} |-> Null]
    <3>1. IsTable(NewTable, 0) /\ 0 \in 0 .. MAX_NODES
      BY NewIsTable, TableAssumption
    <3>2. \A j \in Lone : Bucket(j, NewTable.len) \in 0 .. NewTable.len - 1
      BY <3>1, HeadFacts DEF Lone
    <3>3. \A j \in Lone : ~ IsRecord(HeadOf(NewTable, j))
      BY <3>2 DEF HeadOf, NewTable, IsRecord
    <3>4. {i \in Lone : IsRecord(HeadOf(NewTable, i))} = {}
      BY <3>3
    <3> QED BY <3>4 DEF Kept
  <2>4. Dicts' = [u \in DOMAIN Dicts \cup {t} |->
                     IF u = t THEN [k \in {} |-> Null] ELSE Dicts[u]]
    BY <1>1, <1>3, <2>1, <2>2, <2>3
  <2> QED BY <2>1, <2>4 DEF D!Create, Dicts
<1>6. ASSUME NEW t \in Tables, NEW u \in Tables, Copy(t, u), ~ Crash
      PROVE  D!Copy(t, u)
  <2>1. PICK C : C = [tabs[t] EXCEPT !.count = 0, !.copied = TRUE]
    OBVIOUS
  <2>2. /\ DOMAIN tabs' = DOMAIN tabs \cup {u}
        /\ t \in DOMAIN tabs /\ u \notin DOMAIN tabs
        /\ \A w \in DOMAIN tabs : tabs'[w] = tabs[w]
        /\ tabs'[u] = C
    BY <1>6, <2>1 DEF Copy
  <2>3. Kept(C) = Kept(tabs[t])
    <3>1. IsTable(tabs[t], Len(nodes)) /\ Len(nodes) \in 0 .. MAX_NODES
      BY <2>2, NodesNat DEF TableInv
    <3>2. C.len = tabs[t].len /\ C.heads = tabs[t].heads
      BY <2>1, <3>1, CopyIsTable
    <3> QED BY <3>2 DEF Kept, HeadOf
  <2>4. DOMAIN Dicts = DOMAIN tabs
    BY <1>1
  <2>5. Dicts' = [w \in DOMAIN Dicts \cup {u} |->
                     IF w = u THEN Dicts[t] ELSE Dicts[w]]
    BY <1>1, <1>3, <2>2, <2>3, <2>4
  <2> QED BY <2>2, <2>4, <2>5 DEF D!Copy, Dicts
<1>7. ASSUME NEW t \in Tables, NEW h \in Hashes, NEW v \in Vals \cup {Null},
             Write(t, h, v), ~ Crash
      PROVE  [D!Next]_Dicts
  <2>1. crashed' = FALSE
    <3>1. \E T : Insert(t, T, h, v)
      BY <1>7 DEF Write
    <3> QED BY <1>7, <3>1 DEF Insert, Write, TableInv
  <2>2. t \in DOMAIN tabs /\ NodesOK'
    BY <1>7, <2>1, WriteFacts
  <2>3. PICK U : /\ tabs' = [tabs EXCEPT ![t] = U]
                 /\ IsTable(U, Len(nodes')) /\ Fresh(U)
                 /\ IsRecord(HeadOf(U, h)) /\ Lookup(U, h)' = v
                 /\ \A j \in Lone : j # h => HeadOf(U, j) = HeadOf(tabs[t], j)
    BY <1>7, <2>1, WriteFacts DEF Written
  <2>4. /\ h \in Lone => Kept(U) = D!Stored(Kept(tabs[t]), h, v)
        /\ h \notin Lone => Kept(U) = Kept(tabs[t])
    BY <1>7, <2>1, <2>2, <2>3, WriteStores
  <2>5. Dicts' = [Dicts EXCEPT ![t] = Kept(U)]
    BY <1>1, <1>3, <2>2, <2>3
  <2>6. Dicts[t] = Kept(tabs[t]) /\ t \in DOMAIN Dicts
    BY <1>1, <2>2
  <2>7. CASE h \in Lone
    <3>1. Dicts' = [Dicts EXCEPT ![t] = D!Stored(@, h, v)]
      BY <2>4, <2>5, <2>6, <2>7
    <3>2. D!Store(t, h, v)
      BY <2>6, <3>1 DEF D!Store, Dicts
    <3> QED BY <2>7, <3>2 DEF D!Next
  <2>8. CASE h \notin Lone
    BY <1>1, <2>4, <2>5, <2>6, <2>8
  <2> QED BY <2>7, <2>8
<1>8. CASE Crash
  BY <1>4, <1>8 DEF Crash
<1> QED BY <1>4, <1>5, <1>6, <1>7, <1>8 DEF Next, vars, D!Next

(* The refinement: to a key that no other key in use shares a bucket with, *)
(* a table is a dictionary of its own, and so is a copy of it, across      *)
(* growth and although the two share their chained records.                *)
THEOREM TableImplementsDict == Spec => DictSpec
<1>1. TableInv /\ [Next]_vars => TableInv'
  BY TableInvNext
<1>2. Init => D!Init
  BY DEF Init, D!Init
<1>3. TableInv /\ [Next]_vars => [D!Next]_Dicts
  BY TableSimulates
<1> QED BY <1>1, <1>2, <1>3, TableInvInit, PTL DEF Spec, DictSpec, D!Spec, Dicts

-----------------------------------------------------------------------------
(* The vectors (vector.c), for every length, set of values and of indexes: *)
(* a vector stays the list a program means, and what len says stays within *)
(* the array, although insert_value allocates by the index and doubles len *)
(* all the same.                                                           *)

Elements == Items \cup {Blank}
Kinds    == {Kind[v] : v \in Items} \cup {GEN}
Arrays   == UNION {[0 .. n - 1 -> Elements] : n \in Nat}

(* The array is at least as long as len says.                              *)
Shape(V) ==
    /\ V \in [of : Arrays, count : Int, len : Nat \ {0}, kind : Kinds]
    /\ V.count <= V.len
    /\ 0 .. V.len - 1 \subseteq DOMAIN V.of

Is(V, s) == /\ V.count = Len(s)
            /\ \A i \in 1 .. Len(s) : V.of[i - 1] = s[i]

VectorInv ==
    /\ Shape(vec)
    /\ seq \in Seq(Items)
    /\ legal \in BOOLEAN
    /\ end \in {"no", "kind", "range", "stray"}
    /\ legal => Is(vec, seq) /\ end \notin {"range", "stray"}

-----------------------------------------------------------------------------
(* Lists                                                                   *)

LEMMA InsertAtFacts ==
    ASSUME NEW s \in Seq(Items), NEW e \in Items, NEW p \in 1 .. Len(s) + 1
    PROVE  /\ InsertAt(s, p, e) \in Seq(Items)
           /\ Len(InsertAt(s, p, e)) = Len(s) + 1
           /\ \A k \in 1 .. p - 1 : InsertAt(s, p, e)[k] = s[k]
           /\ InsertAt(s, p, e)[p] = e
           /\ \A k \in p + 1 .. Len(s) + 1 : InsertAt(s, p, e)[k] = s[k - 1]
<1> DEFINE a == SubSeq(s, 1, p - 1)
           b == SubSeq(s, p, Len(s))
<1>1. /\ a \in Seq(Items) /\ Len(a) = p - 1
      /\ \A k \in 1 .. p - 1 : a[k] = s[k]
  OBVIOUS
<1>2. /\ b \in Seq(Items) /\ Len(b) = Len(s) - p + 1
      /\ \A k \in 1 .. Len(s) - p + 1 : b[k] = s[p + k - 1]
  OBVIOUS
<1>3. InsertAt(s, p, e) = (a \o <<e>>) \o b
  BY DEF InsertAt
<1> HIDE DEF a, b
<1>4. /\ a \o <<e>> \in Seq(Items) /\ Len(a \o <<e>>) = p
      /\ \A k \in 1 .. p - 1 : (a \o <<e>>)[k] = s[k]
      /\ (a \o <<e>>)[p] = e
  BY <1>1
<1> DEFINE c == a \o <<e>>
<1> HIDE DEF c
<1>5. /\ c \in Seq(Items) /\ Len(c) = p
      /\ \A k \in 1 .. p - 1 : c[k] = s[k]
      /\ c[p] = e
  BY <1>4 DEF c
<1>6. /\ c \o b \in Seq(Items) /\ Len(c \o b) = Len(s) + 1
      /\ \A k \in 1 .. p : (c \o b)[k] = c[k]
      /\ \A k \in p + 1 .. Len(s) + 1 : (c \o b)[k] = b[k - p]
  <2>1. /\ c \o b \in Seq(Items) /\ Len(c \o b) = Len(c) + Len(b)
        /\ \A i \in 1 .. Len(c) + Len(b) :
              (c \o b)[i] = IF i <= Len(c) THEN c[i] ELSE b[i - Len(c)]
    BY <1>2, <1>5, ConcatProperties
  <2>2. Len(c) + Len(b) = Len(s) + 1 /\ Len(s) \in Nat
    BY <1>2, <1>5
  <2> QED BY <1>5, <2>1, <2>2
<1>7. \A k \in p + 1 .. Len(s) + 1 : (c \o b)[k] = s[k - 1]
  BY <1>2, <1>6
<1>8. (\A k \in 1 .. p - 1 : (c \o b)[k] = s[k]) /\ (c \o b)[p] = e
  BY <1>5, <1>6
<1>9. InsertAt(s, p, e) = c \o b
  BY <1>3 DEF c
<1> QED BY <1>6, <1>7, <1>8, <1>9

LEMMA RemoveAtFacts ==
    ASSUME NEW S, NEW s \in Seq(S), NEW p \in 1 .. Len(s)
    PROVE  /\ RemoveAt(s, p) \in Seq(S)
           /\ Len(RemoveAt(s, p)) = Len(s) - 1
           /\ \A k \in 1 .. Len(s) - 1 :
                 RemoveAt(s, p)[k] = IF k < p THEN s[k] ELSE s[k + 1]
<1> DEFINE a == SubSeq(s, 1, p - 1)
           b == SubSeq(s, p + 1, Len(s))
<1>1. /\ a \in Seq(S) /\ Len(a) = p - 1
      /\ \A k \in 1 .. p - 1 : a[k] = s[k]
  OBVIOUS
<1>2. /\ b \in Seq(S) /\ Len(b) = Len(s) - p
      /\ \A k \in 1 .. Len(s) - p : b[k] = s[p + k]
  OBVIOUS
<1>3. RemoveAt(s, p) = a \o b
  BY DEF RemoveAt
<1> HIDE DEF a, b
<1>4. /\ a \o b \in Seq(S) /\ Len(a \o b) = Len(s) - 1
      /\ \A k \in 1 .. p - 1 : (a \o b)[k] = a[k]
      /\ \A k \in p .. Len(s) - 1 : (a \o b)[k] = b[k - p + 1]
  <2>1. Len(a) + Len(b) = Len(s) - 1
    BY <1>1, <1>2
  <2>2. /\ a \o b \in Seq(S) /\ Len(a \o b) = Len(a) + Len(b)
        /\ \A i \in 1 .. Len(a) + Len(b) :
              (a \o b)[i] = IF i <= Len(a) THEN a[i] ELSE b[i - Len(a)]
    BY <1>1, <1>2, ConcatProperties
  <2>3. ASSUME NEW k \in p .. Len(s) - 1 PROVE (a \o b)[k] = b[k - p + 1]
    <3>1. k \in 1 .. Len(a) + Len(b) /\ ~ (k <= Len(a))
          /\ k - Len(a) = k - p + 1
      BY <1>1, <2>1
    <3> QED BY <2>2, <3>1
  <2>4. ASSUME NEW k \in 1 .. p - 1 PROVE (a \o b)[k] = a[k]
    <3>1. k \in 1 .. Len(a) + Len(b) /\ k <= Len(a)
      BY <1>1, <2>1
    <3> QED BY <2>2, <3>1
  <2> QED BY <2>1, <2>2, <2>3, <2>4
<1>5. ASSUME NEW k \in p .. Len(s) - 1 PROVE (a \o b)[k] = s[k + 1]
  <2>1. k - p + 1 \in 1 .. Len(s) - p /\ p + (k - p + 1) = k + 1
    OBVIOUS
  <2> QED BY <1>2, <1>4, <2>1
<1>6. ASSUME NEW k \in 1 .. Len(s) - 1
      PROVE  RemoveAt(s, p)[k] = IF k < p THEN s[k] ELSE s[k + 1]
  <2>1. k \in 1 .. p - 1 \/ k \in p .. Len(s) - 1
    OBVIOUS
  <2> QED BY <1>1, <1>3, <1>4, <1>5, <2>1
<1> QED BY <1>3, <1>4, <1>6

LEMMA FrontFacts ==
    ASSUME NEW S, NEW s \in Seq(S), Len(s) > 0
    PROVE  /\ Front(s) \in Seq(S) /\ Len(Front(s)) = Len(s) - 1
           /\ \A k \in 1 .. Len(s) - 1 : Front(s)[k] = s[k]
<1>1. PICK n \in Nat : n = Len(s) - 1
  OBVIOUS
<1>2. Front(s) = SubSeq(s, 1, n)
  BY <1>1 DEF Front
<1>3. /\ SubSeq(s, 1, n) \in Seq(S) /\ Len(SubSeq(s, 1, n)) = n
      /\ \A k \in 1 .. n : SubSeq(s, 1, n)[k] = s[k]
  <2>1. \A i \in 1 .. n : s[i] \in S
    BY <1>1
  <2>2. /\ SubSeq(s, 1, n) \in Seq(S)
        /\ Len(SubSeq(s, 1, n)) = IF 1 <= n THEN n - 1 + 1 ELSE 0
        /\ \A i \in 1 .. n - 1 + 1 : SubSeq(s, 1, n)[i] = s[1 + i - 1]
    BY <1>1, <2>1, SubSeqProperties
  <2> QED BY <1>1, <2>2
<1> QED BY <1>1, <1>2, <1>3

-----------------------------------------------------------------------------
(* Arrays                                                                  *)

LEMMA ArrayDomain ==
    ASSUME NEW A \in Arrays
    PROVE  \E n \in Nat : A \in [0 .. n - 1 -> Elements]
  BY DEF Arrays

LEMMA NewFields ==
    ASSUME NEW V, NEW l, NEW o,
           V \in [of : Arrays, count : Int, len : Nat \ {0}, kind : Kinds]
    PROVE  [V EXCEPT !.len = l, !.of = o]
           = [of |-> o, count |-> V.count, len |-> l, kind |-> V.kind]
<1>1. PICK W : W = [V EXCEPT !.len = l]
  OBVIOUS
<1>2. W = [of |-> V.of, count |-> V.count, len |-> l, kind |-> V.kind]
  BY <1>1
<1>3. [W EXCEPT !.of = o]
      = [of |-> o, count |-> V.count, len |-> l, kind |-> V.kind]
  BY <1>2
<1> QED BY <1>1, <1>3

(* A longer array with what was below count in front.                      *)
LEMMA ReallocShape ==
    ASSUME NEW V, Shape(V), NEW size \in Nat, size >= V.len * GROWTH
    PROVE  /\ Shape(Realloc(V, size))
           /\ Realloc(V, size).count = V.count
           /\ Realloc(V, size).len = V.len * GROWTH
           /\ Realloc(V, size).kind = V.kind
           /\ DOMAIN Realloc(V, size).of = 0 .. size - 1
           /\ \A i \in 0 .. V.count - 1 : Realloc(V, size).of[i] = V.of[i]
<1> DEFINE R == Realloc(V, size)
<1>1. /\ V.len \in Nat \ {0} /\ V.count \in Int /\ V.kind \in Kinds
      /\ V.count <= V.len /\ V.of \in Arrays
      /\ 0 .. V.len - 1 \subseteq DOMAIN V.of
  BY DEF Shape
<1>2. /\ R.count = V.count /\ R.len = V.len * GROWTH /\ R.kind = V.kind
      /\ R.of = [i \in 0 .. size - 1 |-> IF i < V.count THEN V.of[i] ELSE Blank]
      /\ R = [of |-> R.of, count |-> R.count, len |-> R.len, kind |-> R.kind]
  <2>2. R = [of |-> [i \in 0 .. size - 1 |->
                       IF i < V.count THEN V.of[i] ELSE Blank],
             count |-> V.count, len |-> V.len * GROWTH, kind |-> V.kind]
    BY NewFields DEF Realloc, Shape
  <2> HIDE DEF R
  <2>3. /\ R.count = V.count /\ R.len = V.len * GROWTH /\ R.kind = V.kind
        /\ R.of = [i \in 0 .. size - 1 |->
                      IF i < V.count THEN V.of[i] ELSE Blank]
    BY <2>2
  <2> QED BY <2>2, <2>3
<1>3. R.len \in Nat \ {0} /\ R.count <= R.len /\ R.len <= size
  BY <1>1, <1>2 DEF GROWTH
<1>4. PICK n \in Nat : V.of \in [0 .. n - 1 -> Elements]
  BY <1>1, ArrayDomain
<1>5. \A i \in 0 .. size - 1 : i < V.count => V.of[i] \in Elements
  BY <1>1, <1>4
<1>6. R.of \in [0 .. size - 1 -> Elements]
  BY <1>2, <1>5 DEF Elements
<1>7. R.of \in Arrays
  BY <1>6 DEF Arrays
<1>8. R \in [of : Arrays, count : Int, len : Nat \ {0}, kind : Kinds]
  BY <1>1, <1>2, <1>3, <1>7
<1>9. \A i \in 0 .. V.count - 1 : R.of[i] = V.of[i]
  BY <1>1, <1>2, <1>3
<1>10. 0 .. R.len - 1 \subseteq DOMAIN R.of
  BY <1>3, <1>6
<1> QED BY <1>2, <1>3, <1>6, <1>8, <1>9, <1>10 DEF Shape

(* Room for one more, and the same list.                                   *)
Extends(G, V) ==
    /\ Shape(G) /\ G.count = V.count /\ G.kind = V.kind
    /\ G.count + 1 <= G.len /\ V.len <= G.len
    /\ \A i \in 0 .. V.count - 1 : G.of[i] = V.of[i]

LEMMA GrownExtends ==
    ASSUME NEW V, Shape(V)
    PROVE  Extends(Enlarged(V), V)
<1>1. V.len \in Nat \ {0} /\ V.count \in Int /\ V.count <= V.len
  BY DEF Shape
<1>2. CASE V.len < V.count + 1
  <2>1. Enlarged(V) = Realloc(V, V.len * GROWTH)
    BY <1>2 DEF Enlarged
  <2>2. V.len * GROWTH \in Nat /\ V.count + 1 <= V.len * GROWTH /\ V.len <= V.len * GROWTH
    BY <1>1 DEF GROWTH
  <2> QED BY <2>1, <2>2, ReallocShape DEF Extends
<1>3. CASE ~ (V.len < V.count + 1)
  BY <1>1, <1>3 DEF Enlarged, Extends
<1> QED BY <1>2, <1>3

LEMMA GrownToExtends ==
    ASSUME NEW V, Shape(V), NEW i \in Nat
    PROVE  Extends(EnlargedTo(Enlarged(V), i), V)
<1>1. PICK G : G = Enlarged(V)
  OBVIOUS
<1>2. Extends(G, V)
  BY <1>1, GrownExtends
<1>3. /\ Shape(G) /\ G.len \in Nat \ {0} /\ G.count \in Int
      /\ V.count \in Int /\ V.len \in Nat
  BY <1>2 DEF Extends, Shape
<1>4. CASE i > G.len
  <2>1. PICK size \in Nat : size = i * GROWTH
    BY DEF GROWTH
  <2>2. size >= G.len * GROWTH /\ G.len <= G.len * GROWTH /\ G.len * GROWTH \in Nat
    BY <1>3, <1>4, <2>1 DEF GROWTH
  <2>3. EnlargedTo(G, i) = Realloc(G, size)
    BY <1>4, <2>1 DEF EnlargedTo
  <2>4. Extends(Realloc(G, size), V)
    BY <1>2, <1>3, <2>2, ReallocShape DEF Extends
  <2> QED BY <1>1, <2>3, <2>4
<1>5. CASE ~ (i > G.len)
  BY <1>1, <1>2, <1>5 DEF EnlargedTo
<1> QED BY <1>4, <1>5

(* Another array of the same length in the place of the one there is.      *)
LEMMA WriteShape ==
    ASSUME NEW V, Shape(V), NEW A, A = [j \in DOMAIN V.of |-> A[j]],
           \A j \in DOMAIN V.of : A[j] \in Elements,
           NEW c \in Int, c <= V.len, NEW k \in Kinds
    PROVE  Shape([of |-> A, count |-> c, len |-> V.len, kind |-> k])
<1>1. PICK n \in Nat : V.of \in [0 .. n - 1 -> Elements]
  BY ArrayDomain DEF Shape
<1>2. A \in [0 .. n - 1 -> Elements]
  BY <1>1
<1>3. A \in Arrays
  BY <1>2 DEF Arrays
<1>4. V.len \in Nat \ {0} /\ 0 .. V.len - 1 \subseteq DOMAIN V.of
  BY DEF Shape
<1>5. DOMAIN A = DOMAIN V.of
  OBVIOUS
<1>6. PICK W : W = [of |-> A, count |-> c, len |-> V.len, kind |-> k]
  OBVIOUS
<1>7. W.of = A /\ W.count = c /\ W.len = V.len /\ W.kind = k
  BY <1>6
<1>8. W \in [of : Arrays, count : Int, len : Nat \ {0}, kind : Kinds]
  BY <1>3, <1>4, <1>6
<1>9. Shape(W)
  BY <1>4, <1>5, <1>7, <1>8 DEF Shape
<1> QED BY <1>6, <1>9

-----------------------------------------------------------------------------
(* Steps                                                                   *)

LEMMA GoesOn ==
    ASSUME VectorInv, NEW V, NEW s, Becomes(V, s), Shape(V), end = "no",
           legal' \in BOOLEAN, legal' => s \in Seq(Items) /\ Is(V, s)
    PROVE  VectorInv'
<1>1. vec' = V /\ end' = "no" /\ seq' = IF legal' THEN s ELSE <<>>
  BY DEF Becomes
<1>2. seq' \in Seq(Items)
  BY <1>1
<1>3. Shape(vec)'
  BY <1>1 DEF Shape
<1>4. legal' => Is(vec, seq)'
  BY <1>1 DEF Is
<1> QED BY <1>1, <1>2, <1>3, <1>4 DEF VectorInv

LEMMA Stops ==
    ASSUME VectorInv, NEW how \in {"kind", "range", "stray"}, Stop(how),
           legal' \in BOOLEAN, legal' => legal /\ how = "kind"
    PROVE  VectorInv'
<1>1. vec' = vec /\ seq' = seq /\ end' = how
  BY DEF Stop
<1>2. Shape(vec)' /\ seq' \in Seq(Items)
  BY <1>1 DEF VectorInv, Shape
<1>3. legal' => Is(vec, seq)'
  BY <1>1 DEF VectorInv, Is
<1> QED BY <1>1, <1>2, <1>3 DEF VectorInv

(* What Extends says in words of the list.                                 *)
LEMMA ExtendsList ==
    ASSUME VectorInv, NEW G, Extends(G, vec)
    PROVE  /\ G.count \in Int /\ G.len \in Nat \ {0} /\ G.count < G.len
           /\ G.kind \in Kinds /\ G.count = vec.count
           /\ G \in [of : Arrays, count : Int, len : Nat \ {0}, kind : Kinds]
           /\ 0 .. G.len - 1 \subseteq DOMAIN G.of
           /\ \A j \in DOMAIN G.of : j \in Nat /\ G.of[j] \in Elements
           /\ legal => /\ G.count = Len(seq)
                       /\ \A i \in 1 .. Len(seq) : G.of[i - 1] = seq[i]
<1>1. /\ G \in [of : Arrays, count : Int, len : Nat \ {0}, kind : Kinds]
      /\ 0 .. G.len - 1 \subseteq DOMAIN G.of
      /\ G.count = vec.count /\ G.count + 1 <= G.len
      /\ \A i \in 0 .. vec.count - 1 : G.of[i] = vec.of[i]
  BY DEF Extends, Shape
<1>2. PICK n \in Nat : G.of \in [0 .. n - 1 -> Elements]
  BY <1>1, ArrayDomain
<1>3. \A j \in DOMAIN G.of : j \in Nat /\ G.of[j] \in Elements
  BY <1>2
<1>4. ASSUME legal
      PROVE  /\ G.count = Len(seq)
             /\ \A i \in 1 .. Len(seq) : G.of[i - 1] = seq[i]
  <2>1. vec.count = Len(seq) /\ \A i \in 1 .. Len(seq) : vec.of[i - 1] = seq[i]
    BY <1>4 DEF VectorInv, Is
  <2>2. \A i \in 1 .. Len(seq) : i - 1 \in 0 .. vec.count - 1
    BY <2>1 DEF VectorInv
  <2> QED BY <1>1, <2>1, <2>2
<1> QED BY <1>1, <1>3, <1>4

(* What Set and Push write, by name: the provers lose a nested EXCEPT.      *)
SetOf(V, i, v, k)     == [V EXCEPT !.kind = k, !.of[i] = v]
PutOf(V, i, v, k, c)  == [V EXCEPT !.kind = k, !.count = c, !.of[i] = v]

LEMMA SetField ==
    ASSUME NEW V, NEW i, NEW v, NEW k,
           V \in [of : Arrays, count : Int, len : Nat \ {0}, kind : Kinds]
    PROVE  SetOf(V, i, v, k)
           = [of |-> [V.of EXCEPT ![i] = v], count |-> V.count,
              len |-> V.len, kind |-> k]
<1>1. PICK Y : Y = [V EXCEPT !.kind = k]
  OBVIOUS
<1>2. Y = [of |-> V.of, count |-> V.count, len |-> V.len, kind |-> k]
  BY <1>1
<1>3. [Y EXCEPT !.of[i] = v]
      = [of |-> [V.of EXCEPT ![i] = v], count |-> V.count,
         len |-> V.len, kind |-> k]
  BY <1>2
<1> QED BY <1>1, <1>3 DEF SetOf

LEMMA PutField ==
    ASSUME NEW V, NEW i, NEW v, NEW k, NEW c,
           V \in [of : Arrays, count : Int, len : Nat \ {0}, kind : Kinds]
    PROVE  PutOf(V, i, v, k, c)
           = [of |-> [V.of EXCEPT ![i] = v], count |-> c,
              len |-> V.len, kind |-> k]
<1>1. PICK Y : Y = [V EXCEPT !.kind = k]
  OBVIOUS
<1>2. Y = [of |-> V.of, count |-> V.count, len |-> V.len, kind |-> k]
  BY <1>1
<1>3. PICK Z : Z = [Y EXCEPT !.count = c]
  OBVIOUS
<1>4. Z = [of |-> V.of, count |-> c, len |-> V.len, kind |-> k]
  BY <1>2, <1>3
<1>5. [Z EXCEPT !.of[i] = v]
      = [of |-> [V.of EXCEPT ![i] = v], count |-> c, len |-> V.len, kind |-> k]
  BY <1>4
<1> QED BY <1>1, <1>3, <1>5 DEF PutOf

LEMMA PushStep ==
    ASSUME VectorInv, NEW v \in Items, Push(v)
    PROVE  VectorInv'
<1>1. PICK G : G = Enlarged(vec)
  OBVIOUS
<1>2. Extends(G, vec)
  BY <1>1, GrownExtends DEF VectorInv
<1>3. /\ end = "no" /\ legal' = legal /\ legal \in BOOLEAN
      /\ seq \in Seq(Items) /\ Shape(G)
  BY <1>2 DEF Push, VectorInv, Extends
<1>4. G.count \in 0 .. G.len - 1 \/ G.count < 0
  BY <1>2, ExtendsList
<1>5. ~ Typed(G, v) \/ Typed(G, v)
  OBVIOUS
<1>6. CASE ~ Typed(G, v)
  <2>1. Stop("kind")
    BY <1>1, <1>6 DEF Push
  <2> QED BY <1>3, <2>1, Stops
<1>7. CASE Typed(G, v) /\ ~ InArray(G, G.count)
  <2>1. Stop("stray")
    BY <1>1, <1>7 DEF Push
  <2>2. ~ legal
    <3>1. ASSUME legal PROVE FALSE
      <4>1. G.count = Len(seq)
        BY <1>2, <3>1, ExtendsList
      <4>2. G.count \in 0 .. G.len - 1
        BY <1>3, <1>4, <4>1
      <4> QED BY <1>2, <1>7, <4>2, ExtendsList DEF InArray
    <3> QED BY <3>1
  <2> QED BY <1>3, <2>1, <2>2, Stops
<1>8. CASE Typed(G, v) /\ InArray(G, G.count)
  <2>1. PICK A : A = [G.of EXCEPT ![G.count] = v]
    OBVIOUS
  <2>2. PICK V : V = [of |-> A, count |-> G.count + 1, len |-> G.len,
                      kind |-> Kind[v]]
    OBVIOUS
  <2>3. Becomes([G EXCEPT !.kind = Kind[v], !.count = @ + 1,
                          !.of[G.count] = v], Append(seq, v))
    BY <1>1, <1>8 DEF Push
  <2>4. G \in [of : Arrays, count : Int, len : Nat \ {0}, kind : Kinds]
    BY <1>2, ExtendsList
  <2>5. [G EXCEPT !.kind = Kind[v], !.count = @ + 1, !.of[G.count] = v] = V
    <3>1. PutOf(G, G.count, v, Kind[v], G.count + 1) = V
      BY <2>1, <2>2, <2>4, PutField
    <3> QED BY <3>1 DEF PutOf
  <2>6. Becomes(V, Append(seq, v))
    BY <2>3, <2>5
  <2>7. /\ A = [j \in DOMAIN G.of |-> A[j]]
        /\ \A j \in DOMAIN G.of : A[j] \in Elements
        /\ \A j \in DOMAIN G.of : A[j] = IF j = G.count THEN v ELSE G.of[j]
    BY <1>2, <2>1, ExtendsList DEF Elements
  <2>8. Shape(V)
    <3>1. G.count + 1 \in Int /\ G.count + 1 <= G.len /\ Kind[v] \in Kinds
      BY <1>2, ExtendsList DEF Kinds
    <3> QED BY <1>3, <2>2, <2>7, <3>1, WriteShape
  <2>9. ASSUME legal PROVE Append(seq, v) \in Seq(Items) /\ Is(V, Append(seq, v))
    <3>1. /\ V.of = A /\ V.count = G.count + 1
          /\ G.count = Len(seq) /\ 0 .. G.len - 1 \subseteq DOMAIN G.of
          /\ G.count < G.len /\ G.len \in Nat
          /\ \A i \in 1 .. Len(seq) : G.of[i - 1] = seq[i]
      BY <1>2, <2>2, <2>9, ExtendsList
    <3>2. ASSUME NEW i \in 1 .. Len(seq) + 1
          PROVE  A[i - 1] = Append(seq, v)[i]
      <4>1. i - 1 \in DOMAIN G.of
        <5>1. i - 1 \in 0 .. G.len - 1
          BY <1>3, <3>1
        <5> QED BY <3>1, <5>1
      <4>2. A[i - 1] = IF i - 1 = G.count THEN v ELSE G.of[i - 1]
        BY <2>7, <4>1
      <4>3. Append(seq, v)[i] = IF i = Len(seq) + 1 THEN v ELSE seq[i]
        BY <1>3
      <4> QED BY <1>3, <3>1, <4>2, <4>3
    <3> QED BY <1>3, <3>1, <3>2 DEF Is
  <2> QED BY <1>3, <1>8, <2>6, <2>8, <2>9, GoesOn
<1> QED BY <1>5, <1>6, <1>7, <1>8

(* insert_value's array.                                                   *)
Shifted(F, i, v, n) == [j \in DOMAIN F |-> IF j = i THEN v
                                           ELSE IF i < j /\ j <= n
                                           THEN F[j - 1] ELSE F[j]]
InsertOf(V, i, v, k) ==
    [V EXCEPT !.kind = k, !.count = @ + 1,
              !.of = [j \in DOMAIN @ |-> IF j = i THEN v
                                         ELSE IF i < j /\ j <= V.count
                                         THEN @[j - 1] ELSE @[j]]]

LEMMA InsertField ==
    ASSUME NEW V, NEW i, NEW v, NEW k,
           V \in [of : Arrays, count : Int, len : Nat \ {0}, kind : Kinds]
    PROVE  InsertOf(V, i, v, k)
           = [of |-> Shifted(V.of, i, v, V.count), count |-> V.count + 1,
              len |-> V.len, kind |-> k]
<1>1. PICK Y : Y = [V EXCEPT !.kind = k]
  OBVIOUS
<1>2. Y = [of |-> V.of, count |-> V.count, len |-> V.len, kind |-> k]
  BY <1>1
<1>3. PICK Z : Z = [Y EXCEPT !.count = Y.count + 1]
  OBVIOUS
<1>4. Z = [of |-> V.of, count |-> V.count + 1, len |-> V.len, kind |-> k]
  BY <1>2, <1>3
<1>5. PICK A : A = Shifted(V.of, i, v, V.count)
  OBVIOUS
<1>6. A = [j \in DOMAIN Z.of |-> IF j = i THEN v
                                 ELSE IF i < j /\ j <= V.count
                                 THEN Z.of[j - 1] ELSE Z.of[j]]
  BY <1>4, <1>5 DEF Shifted
<1>7. [Z EXCEPT !.of = A]
      = [of |-> A, count |-> V.count + 1, len |-> V.len, kind |-> k]
  BY <1>4
<1>8. InsertOf(V, i, v, k) = [Z EXCEPT !.of = A]
  BY <1>1, <1>3, <1>6 DEF InsertOf
<1> QED BY <1>5, <1>7, <1>8

LEMMA ShiftedFacts ==
    ASSUME NEW F \in Arrays, NEW i \in Nat, NEW v \in Items, NEW n \in Int
    PROVE  /\ DOMAIN Shifted(F, i, v, n) = DOMAIN F
           /\ Shifted(F, i, v, n)
              = [j \in DOMAIN F |-> Shifted(F, i, v, n)[j]]
           /\ \A j \in DOMAIN F : Shifted(F, i, v, n)[j] \in Elements
           /\ \A j \in DOMAIN F :
                 Shifted(F, i, v, n)[j] = IF j = i THEN v
                                          ELSE IF i < j /\ j <= n
                                          THEN F[j - 1] ELSE F[j]
<1>1. PICK m \in Nat : F \in [0 .. m - 1 -> Elements]
  BY ArrayDomain
<1>2. \A j \in 0 .. m - 1 : F[j] \in Elements
                           /\ (i < j => j - 1 \in 0 .. m - 1)
  BY <1>1
<1>3. \A j \in DOMAIN F : Shifted(F, i, v, n)[j] \in Elements
  BY <1>1, <1>2 DEF Shifted, Elements
<1> QED BY <1>3 DEF Shifted

LEMMA InsertStep ==
    ASSUME VectorInv, NEW i \in Nat, NEW v \in Items, InsertValue(i, v)
    PROVE  VectorInv'
<1>1. PICK G : G = EnlargedTo(Enlarged(vec), i)
  OBVIOUS
<1>2. Extends(G, vec)
  BY <1>1, GrownToExtends DEF VectorInv
<1>3. /\ end = "no" /\ legal \in BOOLEAN /\ legal' \in BOOLEAN
      /\ seq \in Seq(Items) /\ Shape(G)
  BY <1>2 DEF InsertValue, Names, InUse, VectorInv, Extends
<1>4. ASSUME legal'
      PROVE  /\ legal /\ G.count = Len(seq) /\ i \in 0 .. Len(seq)
             /\ Len(seq) < G.len /\ G.len \in Nat
             /\ \A j \in 1 .. Len(seq) : G.of[j - 1] = seq[j]
             /\ \A j \in 0 .. Len(seq) : j \in DOMAIN G.of
  <2>1. legal /\ 0 <= i /\ (i < vec.count \/ i = vec.count)
    <3>1. legal' = (legal /\ (InUse(i) \/ i = vec.count))
      BY DEF InsertValue, Names
    <3>2. legal /\ (i < vec.count \/ i = vec.count)
      BY <1>4, <3>1 DEF InUse
    <3> QED BY <3>2
  <2>2. /\ G.count = vec.count /\ G.count = Len(seq)
        /\ G.count < G.len /\ G.len \in Nat
        /\ 0 .. G.len - 1 \subseteq DOMAIN G.of
        /\ \A j \in 1 .. Len(seq) : G.of[j - 1] = seq[j]
    BY <1>2, <2>1, ExtendsList
  <2>3. \A j \in 0 .. Len(seq) : j \in 0 .. G.len - 1
    BY <1>3, <2>2
  <2>4. i \in 0 .. Len(seq)
    BY <1>3, <2>1, <2>2
  <2> QED BY <2>1, <2>2, <2>3, <2>4
<1>5. CASE ~ Typed(G, v)
  <2>1. Stop("kind")
    BY <1>1, <1>5 DEF InsertValue
  <2> QED BY <1>3, <1>4, <2>1, Stops
<1>6. CASE Typed(G, v) /\ ~ InArray(G, i)
  <2>1. Stop("stray")
    BY <1>1, <1>6 DEF InsertValue
  <2>2. ~ legal'
    BY <1>4, <1>6 DEF InArray
  <2> QED BY <1>3, <2>1, <2>2, Stops
<1>7. CASE Typed(G, v) /\ InArray(G, i)
  <2>1. PICK A : A = Shifted(G.of, i, v, G.count)
    OBVIOUS
  <2>2. PICK V : V = [of |-> A, count |-> G.count + 1, len |-> G.len,
                      kind |-> Kind[v]]
    OBVIOUS
  <2>3. Becomes(InsertOf(G, i, v, Kind[v]), InsertAt(seq, i + 1, v))
    BY <1>1, <1>7 DEF InsertValue, InsertOf
  <2>4. /\ G \in [of : Arrays, count : Int, len : Nat \ {0}, kind : Kinds]
        /\ G.of \in Arrays /\ G.count \in Int /\ G.count + 1 \in Int
        /\ G.count + 1 <= G.len
    BY <1>2, ExtendsList
  <2>5. Becomes(V, InsertAt(seq, i + 1, v))
    BY <2>1, <2>2, <2>3, <2>4, InsertField
  <2>6. /\ A = [j \in DOMAIN G.of |-> A[j]]
        /\ \A j \in DOMAIN G.of : A[j] \in Elements
        /\ \A j \in DOMAIN G.of : A[j] = IF j = i THEN v
                                         ELSE IF i < j /\ j <= G.count
                                         THEN G.of[j - 1] ELSE G.of[j]
    BY <2>1, <2>4, ShiftedFacts
  <2>7. Shape(V)
    <3>1. Kind[v] \in Kinds
      BY DEF Kinds
    <3> QED BY <1>3, <2>2, <2>4, <2>6, <3>1, WriteShape
  <2>8. ASSUME legal'
        PROVE  /\ InsertAt(seq, i + 1, v) \in Seq(Items)
               /\ Is(V, InsertAt(seq, i + 1, v))
    <3>1. PICK p \in 1 .. Len(seq) + 1 : p = i + 1
      BY <1>3, <1>4, <2>8
    <3>2. PICK s : s = InsertAt(seq, p, v)
      OBVIOUS
    <3>3. /\ s \in Seq(Items) /\ Len(s) = Len(seq) + 1
          /\ \A k \in 1 .. Len(seq) + 1 :
                s[k] = IF k < i + 1 THEN seq[k]
                       ELSE IF k = i + 1 THEN v ELSE seq[k - 1]
      <4>1. /\ InsertAt(seq, p, v) \in Seq(Items)
            /\ Len(InsertAt(seq, p, v)) = Len(seq) + 1
            /\ \A k \in 1 .. p - 1 : InsertAt(seq, p, v)[k] = seq[k]
            /\ InsertAt(seq, p, v)[p] = v
            /\ \A k \in p + 1 .. Len(seq) + 1 :
                  InsertAt(seq, p, v)[k] = seq[k - 1]
        <5>1. seq \in Seq(Items)
          BY <1>3
        <5> QED BY <5>1, InsertAtFacts, Zenon
      <4> QED BY <3>1, <3>2, <4>1
    <3>4. V.of = A /\ V.count = Len(s)
      BY <1>4, <2>2, <2>8, <3>3
    <3>5. ASSUME NEW k \in 1 .. Len(seq) + 1 PROVE A[k - 1] = s[k]
      <4>1. k - 1 \in 0 .. Len(seq) /\ Len(seq) \in Nat
        BY <1>3
      <4>2. A[k - 1] = IF k - 1 = i THEN v
                       ELSE IF i < k - 1 /\ k - 1 <= G.count
                       THEN G.of[(k - 1) - 1] ELSE G.of[k - 1]
        BY <1>4, <2>6, <2>8, <4>1
      <4>3. CASE k - 1 = i
        BY <3>3, <4>2, <4>3
      <4>4. CASE k - 1 > i
        <5>1. k - 1 \in 1 .. Len(seq) /\ k - 1 <= G.count
          BY <1>4, <2>8, <4>1, <4>4
        <5>2. A[k - 1] = G.of[(k - 1) - 1]
          BY <4>2, <4>4, <5>1
        <5>3. G.of[(k - 1) - 1] = seq[k - 1]
          BY <1>4, <2>8, <5>1
        <5>4. s[k] = seq[k - 1]
          BY <3>3, <4>1, <4>4
        <5> QED BY <5>2, <5>3, <5>4
      <4>5. CASE k - 1 < i
        <5>1. k \in 1 .. Len(seq)
          BY <1>4, <2>8, <4>1, <4>5
        <5>2. A[k - 1] = G.of[k - 1]
          BY <4>2, <4>5
        <5>3. G.of[k - 1] = seq[k]
          BY <1>4, <2>8, <5>1
        <5>4. s[k] = seq[k]
          BY <3>3, <4>1, <4>5
        <5> QED BY <5>2, <5>3, <5>4
      <4> QED BY <4>1, <4>3, <4>4, <4>5
    <3> QED BY <3>1, <3>2, <3>3, <3>4, <3>5 DEF Is
  <2> QED BY <1>3, <2>5, <2>7, <2>8, GoesOn
<1> QED BY <1>5, <1>6, <1>7

(* The vector as it is, in words of the list.                              *)
LEMMA VectorList ==
    ASSUME VectorInv
    PROVE  /\ vec \in [of : Arrays, count : Int, len : Nat \ {0}, kind : Kinds]
           /\ vec.of \in Arrays /\ vec.count \in Int /\ vec.len \in Nat \ {0}
           /\ vec.kind \in Kinds /\ vec.count <= vec.len
           /\ 0 .. vec.len - 1 \subseteq DOMAIN vec.of
           /\ \A j \in DOMAIN vec.of : j \in Nat /\ vec.of[j] \in Elements
           /\ seq \in Seq(Items) /\ legal \in BOOLEAN
           /\ legal => /\ vec.count = Len(seq)
                       /\ \A i \in 1 .. Len(seq) : vec.of[i - 1] = seq[i]
                       /\ \A j \in 0 .. Len(seq) - 1 : j \in DOMAIN vec.of
<1>1. /\ vec \in [of : Arrays, count : Int, len : Nat \ {0}, kind : Kinds]
      /\ vec.of \in Arrays /\ vec.count \in Int /\ vec.len \in Nat \ {0}
      /\ vec.kind \in Kinds /\ vec.count <= vec.len
      /\ 0 .. vec.len - 1 \subseteq DOMAIN vec.of
      /\ seq \in Seq(Items) /\ legal \in BOOLEAN
  BY DEF VectorInv, Shape
<1>2. PICK n \in Nat : vec.of \in [0 .. n - 1 -> Elements]
  BY <1>1, ArrayDomain
<1>3. \A j \in DOMAIN vec.of : j \in Nat /\ vec.of[j] \in Elements
  BY <1>2
<1>4. legal => /\ vec.count = Len(seq)
               /\ \A i \in 1 .. Len(seq) : vec.of[i - 1] = seq[i]
  BY DEF VectorInv, Is
<1>5. ASSUME legal, NEW j \in 0 .. Len(seq) - 1 PROVE j \in DOMAIN vec.of
  <2>1. j \in 0 .. vec.len - 1
    BY <1>1, <1>4, <1>5
  <2> QED BY <1>1, <2>1
<1> QED BY <1>1, <1>3, <1>4, <1>5

LEMMA SetStep ==
    ASSUME VectorInv, NEW i \in Int, NEW v \in Items, Set(i, v)
    PROVE  VectorInv'
<1>1. end = "no" /\ legal' \in BOOLEAN
  BY VectorList DEF Set, Names, InUse
<1>2. ASSUME legal'
      PROVE  legal /\ i \in 0 .. Len(seq) - 1 /\ vec.count = Len(seq)
  <2>1. legal /\ 0 <= i /\ i < vec.count
    BY <1>2 DEF Set, Names, InUse
  <2> QED BY <2>1, VectorList
<1>3. CASE i > vec.len
  <2>1. Stop("range")
    BY <1>3 DEF Set
  <2>2. ~ legal'
    BY <1>2, <1>3, VectorList
  <2> QED BY <1>1, <2>1, <2>2, Stops
<1>4. CASE ~ (i > vec.len) /\ ~ Typed(vec, v)
  <2>1. Stop("kind")
    BY <1>4 DEF Set
  <2> QED BY <1>1, <1>2, <2>1, Stops
<1>5. CASE ~ (i > vec.len) /\ Typed(vec, v) /\ ~ InArray(vec, i)
  <2>1. Stop("stray")
    BY <1>5 DEF Set
  <2>2. ~ legal'
    BY <1>2, <1>5, VectorList DEF InArray
  <2> QED BY <1>1, <2>1, <2>2, Stops
<1>6. CASE ~ (i > vec.len) /\ Typed(vec, v) /\ InArray(vec, i)
  <2>1. PICK A : A = [vec.of EXCEPT ![i] = v]
    OBVIOUS
  <2>2. PICK V : V = [of |-> A, count |-> vec.count, len |-> vec.len,
                      kind |-> Kind[v]]
    OBVIOUS
  <2>3. Becomes(SetOf(vec, i, v, Kind[v]), [seq EXCEPT ![i + 1] = v])
    BY <1>6 DEF Set, SetOf
  <2>4. Becomes(V, [seq EXCEPT ![i + 1] = v])
    <3>1. vec \in [of : Arrays, count : Int, len : Nat \ {0}, kind : Kinds]
      BY VectorList
    <3>2. SetOf(vec, i, v, Kind[v]) = V
      BY <2>1, <2>2, <3>1, SetField
    <3> QED BY <2>3, <3>2
  <2>5. /\ A = [j \in DOMAIN vec.of |-> A[j]]
        /\ \A j \in DOMAIN vec.of : A[j] \in Elements
        /\ \A j \in DOMAIN vec.of : A[j] = IF j = i THEN v ELSE vec.of[j]
    BY <2>1, VectorList DEF Elements
  <2>6. Shape(V)
    <3>1. Kind[v] \in Kinds /\ Shape(vec)
      BY DEF Kinds, VectorInv
    <3> QED BY <2>2, <2>5, <3>1, WriteShape, VectorList
  <2>7. ASSUME legal'
        PROVE  /\ [seq EXCEPT ![i + 1] = v] \in Seq(Items)
               /\ Is(V, [seq EXCEPT ![i + 1] = v])
    <3>1. PICK s : s = [seq EXCEPT ![i + 1] = v]
      OBVIOUS
    <3>2. /\ s \in Seq(Items) /\ Len(s) = Len(seq)
          /\ \A k \in 1 .. Len(seq) : s[k] = IF k = i + 1 THEN v ELSE seq[k]
      <4>1. seq \in Seq(Items) /\ i + 1 \in 1 .. Len(seq)
        BY <1>2, <2>7, VectorList
      <4>2. /\ [seq EXCEPT ![i + 1] = v] \in Seq(Items)
            /\ Len([seq EXCEPT ![i + 1] = v]) = Len(seq)
            /\ \A k \in 1 .. Len(seq) :
                  [seq EXCEPT ![i + 1] = v][k] = IF k = i + 1 THEN v ELSE seq[k]
        BY <4>1, ExceptSeq
      <4> QED BY <3>1, <4>2
    <3>3. V.of = A /\ V.count = Len(s)
      BY <1>2, <2>2, <2>7, <3>2
    <3>4. ASSUME NEW k \in 1 .. Len(seq) PROVE A[k - 1] = s[k]
      <4>1. k - 1 \in 0 .. Len(seq) - 1
        BY VectorList
      <4>2. A[k - 1] = IF k - 1 = i THEN v ELSE vec.of[k - 1]
        BY <1>2, <2>5, <2>7, <4>1, VectorList
      <4>3. vec.of[k - 1] = seq[k]
        BY <1>2, <2>7, VectorList
      <4> QED BY <3>2, <4>2, <4>3
    <3> QED BY <3>1, <3>2, <3>3, <3>4 DEF Is
  <2> QED BY <1>1, <2>4, <2>6, <2>7, GoesOn
<1> QED BY <1>3, <1>4, <1>5, <1>6
LEMMA DeleteStep ==
    ASSUME VectorInv, NEW i \in Int, Delete(i)
    PROVE  VectorInv'
<1>1. end = "no" /\ legal' \in BOOLEAN /\ i >= 0
  BY VectorList DEF Delete, Names, InUse
<1>2. ASSUME legal'
      PROVE  legal /\ i \in 0 .. Len(seq) - 1 /\ vec.count = Len(seq)
  <2>1. legal' = (legal /\ InUse(i))
    BY DEF Delete, Names
  <2>2. legal /\ 0 <= i /\ i < vec.count
    BY <1>2, <2>1 DEF InUse
  <2> QED BY <2>2, VectorList
<1>3. CASE i > vec.len
  <2>1. Stop("range")
    BY <1>3 DEF Delete
  <2>2. ~ legal'
    BY <1>2, <1>3, VectorList
  <2> QED BY <1>1, <2>1, <2>2, Stops
<1>4. CASE ~ (i > vec.len)
  <2>1. PICK A : A = [j \in DOMAIN vec.of |->
                        IF i <= j /\ j < vec.len - 1
                        THEN vec.of[j + 1] ELSE vec.of[j]]
    OBVIOUS
  <2>2. PICK V : V = [of |-> A, count |-> vec.count - 1, len |-> vec.len,
                      kind |-> vec.kind]
    OBVIOUS
  <2>3. Deleted(vec, i) = V
    <3>1. vec \in [of : Arrays, count : Int, len : Nat \ {0}, kind : Kinds]
      BY VectorList
    <3>2. PICK X : X = [vec EXCEPT !.count = vec.count - 1]
      OBVIOUS
    <3>3. X = [of |-> vec.of, count |-> vec.count - 1, len |-> vec.len,
               kind |-> vec.kind]
      BY <3>1, <3>2
    <3>4. [X EXCEPT !.of = A] = V
      BY <2>2, <3>3
    <3>5. A = [j \in DOMAIN X.of |->
                 IF i <= j /\ j < vec.len - 1 THEN X.of[j + 1] ELSE X.of[j]]
      BY <2>1, <3>3
    <3> QED BY <3>2, <3>4, <3>5 DEF Deleted
  <2>4. Becomes(V, RemoveAt(seq, i + 1))
    BY <1>4, <2>3 DEF Delete
  <2>5. /\ A = [j \in DOMAIN vec.of |-> A[j]]
        /\ \A j \in DOMAIN vec.of :
              A[j] = IF i <= j /\ j < vec.len - 1
                     THEN vec.of[j + 1] ELSE vec.of[j]
    BY <2>1
  <2>6. ASSUME NEW j \in DOMAIN vec.of PROVE A[j] \in Elements
    <3>1. j \in Nat /\ vec.of[j] \in Elements
      BY VectorList
    <3>2. ASSUME j < vec.len - 1 PROVE vec.of[j + 1] \in Elements
      <4>1. j + 1 \in 0 .. vec.len - 1
        BY <3>1, <3>2, VectorList
      <4> QED BY <4>1, VectorList
    <3> QED BY <2>5, <3>1, <3>2
  <2>7. Shape(V)
    <3>1. /\ Shape(vec) /\ vec.count - 1 \in Int /\ vec.count - 1 <= vec.len
          /\ vec.kind \in Kinds
      BY VectorList DEF VectorInv
    <3> QED BY <2>2, <2>5, <2>6, <3>1, WriteShape
  <2>8. ASSUME legal'
        PROVE  RemoveAt(seq, i + 1) \in Seq(Items) /\ Is(V, RemoveAt(seq, i + 1))
    <3>1. PICK p \in 1 .. Len(seq) : p = i + 1
      BY <1>2, <2>8, VectorList
    <3>2. PICK s : s = RemoveAt(seq, p)
      OBVIOUS
    <3>3. /\ s \in Seq(Items) /\ Len(s) = Len(seq) - 1
          /\ \A k \in 1 .. Len(seq) - 1 :
                s[k] = IF k < p THEN seq[k] ELSE seq[k + 1]
      <4>1. seq \in Seq(Items)
        BY VectorList
      <4>2. /\ RemoveAt(seq, p) \in Seq(Items)
            /\ Len(RemoveAt(seq, p)) = Len(seq) - 1
            /\ \A k \in 1 .. Len(seq) - 1 :
                  RemoveAt(seq, p)[k] = IF k < p THEN seq[k] ELSE seq[k + 1]
        BY <4>1, RemoveAtFacts, Zenon
      <4> QED BY <3>2, <4>2
    <3>4. V.of = A /\ V.count = Len(s)
      BY <1>2, <2>2, <2>8, <3>3
    <3>5. ASSUME NEW k \in 1 .. Len(seq) - 1 PROVE A[k - 1] = s[k]
      <4>1. /\ k - 1 \in 0 .. Len(seq) - 1 /\ k \in 1 .. Len(seq)
            /\ k + 1 \in 1 .. Len(seq) /\ k - 1 < vec.len - 1
            /\ (k - 1) + 1 = k /\ (k + 1) - 1 = k
        BY <1>2, <2>8, VectorList
      <4>2. A[k - 1] = IF i <= k - 1 THEN vec.of[k] ELSE vec.of[k - 1]
        BY <1>2, <2>5, <2>8, <4>1, VectorList
      <4>3. vec.of[k] = seq[k + 1] /\ vec.of[k - 1] = seq[k]
        BY <1>2, <2>8, <4>1, VectorList
      <4> QED BY <1>1, <3>1, <3>3, <4>2, <4>3
    <3> QED BY <3>1, <3>2, <3>3, <3>4, <3>5 DEF Is
  <2> QED BY <1>1, <2>4, <2>7, <2>8, GoesOn
<1> QED BY <1>3, <1>4

LEMMA PopStep ==
    ASSUME VectorInv, Pop
    PROVE  VectorInv'
<1>1. end = "no" /\ legal' = legal /\ legal \in BOOLEAN
  BY VectorList DEF Pop
<1>2. CASE vec.count = 0
  BY <1>1, <1>2 DEF Pop, VectorInv, Shape, Is
<1>3. CASE vec.count # 0
  <2>1. PICK V : V = [vec EXCEPT !.count = vec.count - 1]
    OBVIOUS
  <2>2. V = [of |-> vec.of, count |-> vec.count - 1, len |-> vec.len,
             kind |-> vec.kind]
    BY <2>1, VectorList
  <2>3. Becomes(V, Front(seq))
    BY <1>3, <2>1 DEF Pop
  <2>4. Shape(V)
    <3>1. /\ vec.count - 1 \in Int /\ vec.count - 1 <= vec.len
      BY VectorList
    <3>2. V \in [of : Arrays, count : Int, len : Nat \ {0}, kind : Kinds]
      BY <2>2, <3>1, VectorList
    <3> QED BY <2>2, <3>1, <3>2, VectorList DEF Shape
  <2>5. ASSUME legal PROVE Front(seq) \in Seq(Items) /\ Is(V, Front(seq))
    <3>1. /\ seq \in Seq(Items) /\ vec.count = Len(seq) /\ Len(seq) > 0
          /\ \A k \in 1 .. Len(seq) : vec.of[k - 1] = seq[k]
      BY <1>3, <2>5, VectorList
    <3>2. /\ Front(seq) \in Seq(Items) /\ Len(Front(seq)) = Len(seq) - 1
          /\ \A k \in 1 .. Len(seq) - 1 : Front(seq)[k] = seq[k]
      BY <3>1, FrontFacts
    <3>3. V.of = vec.of /\ V.count = Len(seq) - 1
      BY <2>2, <3>1
    <3>4. \A k \in 1 .. Len(seq) - 1 : k \in 1 .. Len(seq)
      BY <3>1
    <3> QED BY <3>1, <3>2, <3>3, <3>4 DEF Is
  <2> QED BY <1>1, <2>3, <2>4, <2>5, GoesOn
<1> QED BY <1>2, <1>3

-----------------------------------------------------------------------------
(* A new vector is the empty list.                                         *)
LEMMA VectorInit ==
    ASSUME VecInit
    PROVE  VectorInv
<1>1. PICK A : A = [i \in 0 .. VEC_LEN - 1 |-> Blank]
  OBVIOUS
<1>2. VEC_LEN \in Nat \ {0}
  BY VectorAssumption
<1>3. vec = [of |-> A, count |-> 0, len |-> VEC_LEN, kind |-> GEN]
  BY <1>1 DEF VecInit
<1>4. A \in [0 .. VEC_LEN - 1 -> Elements] /\ DOMAIN A = 0 .. VEC_LEN - 1
  BY <1>1 DEF Elements
<1>5. A \in Arrays
  BY <1>2, <1>4 DEF Arrays
<1>6. GEN \in Kinds
  BY DEF Kinds
<1>7. /\ vec.of = A /\ vec.count = 0 /\ vec.len = VEC_LEN /\ vec.kind = GEN
  BY <1>3
<1>8. vec \in [of : Arrays, count : Int, len : Nat \ {0}, kind : Kinds]
  BY <1>2, <1>3, <1>5, <1>6
<1>9. Shape(vec)
  BY <1>2, <1>4, <1>7, <1>8 DEF Shape
<1>10. Is(vec, <<>>)
  BY <1>7 DEF Is
<1> QED BY <1>9, <1>10 DEF VecInit, VectorInv

LEMMA VectorNext ==
    ASSUME VectorInv, [VecNext]_vecVars
    PROVE  VectorInv'
<1>1. ASSUME NEW v \in Items, Push(v) PROVE VectorInv'
  BY <1>1, PushStep
<1>2. ASSUME NEW i \in Indexes, NEW v \in Items, i >= 0, InsertValue(i, v)
      PROVE  VectorInv'
  <2>1. i \in Int
    BY VectorAssumption
  <2>2. i \in Nat
    BY <1>2, <2>1
  <2> QED BY <1>2, <2>2, InsertStep
<1>3. ASSUME NEW i \in Indexes, NEW v \in Items, Set(i, v) PROVE VectorInv'
  <2>1. i \in Int
    BY VectorAssumption
  <2> QED BY <1>3, <2>1, SetStep
<1>4. ASSUME NEW i \in Indexes, Delete(i) PROVE VectorInv'
  <2>1. i \in Int
    BY VectorAssumption
  <2> QED BY <1>4, <2>1, DeleteStep
<1>5. CASE Pop
  BY <1>5, PopStep
<1>6. CASE UNCHANGED vecVars
  BY <1>6 DEF vecVars, VectorInv, Shape, Is
<1> QED BY <1>1, <1>2, <1>3, <1>4, <1>5, <1>6 DEF VecNext

(* The inductive invariant of the vectors.                                 *)
THEOREM VectorInvariant == VecSpec => []VectorInv
<1>1. VecInit => VectorInv
  BY VectorInit
<1>2. VectorInv /\ [VecNext]_vecVars => VectorInv'
  BY VectorNext
<1> QED BY <1>1, <1>2, PTL DEF VecSpec

(* What a vector holds are values or cells nobody wrote, and count never   *)
(* passes len, whatever indexes vector.c is given.                         *)
THEOREM VectorTypeOK == VecSpec => []VecTypeOK
<1>1. VectorInv => VecTypeOK
  BY VectorList DEF VectorInv, VecTypeOK, Elements, Kinds
<1> QED BY <1>1, VectorInvariant, PTL

(* A vector is the list the program means, whatever its length, as long as *)
(* the program names only positions in use (push_value, insert_value,      *)
(* delete_value_index, set_value and pop of vector.c).                     *)
THEOREM VectorIsList == VecSpec => []SameList
<1>1. VectorInv => SameList
  BY DEF VectorInv, SameList, Is
<1> QED BY <1>1, VectorInvariant, PTL

(* Such a program never strays from the array nor meets the range error,   *)
(* although len can lag behind the array's size.                           *)
THEOREM LegalVectorIsSafe == VecSpec => []LegalIsSafe
<1>1. VectorInv => LegalIsSafe
  BY DEF VectorInv, LegalIsSafe
<1> QED BY <1>1, VectorInvariant, PTL
=============================================================================
