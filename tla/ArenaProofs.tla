----------------------------- MODULE ArenaProofs -----------------------------
(***************************************************************************)
(* Proofs about Arena for every page size, header size, set of request     *)
(* sizes and placement of mappings.  Each operation on the list is shown   *)
(* to keep the layout of the extents apart (one lemma per operation); the  *)
(* inductive invariant adds that an arena without a head is empty.  That   *)
(* the list is one chain is shown on ranks of its nodes, and the walk that *)
(* WellLinked speaks of is computed from them at the end.                  *)
(***************************************************************************)
EXTENDS Arena, FiniteSetTheorems, WellFoundedInduction, TLAPS

Types(list, blocks, maps) ==
    ListType(list) /\ BlockType(blocks) /\ MapType(maps)

(* Taking n bytes off the end of a free extent keeps the extents apart and *)
(* gives a block that did not exist (mem.c:126-136).                       *)
LEMMA CarveLayout ==
    ASSUME NEW list, NEW blocks, NEW maps, NEW head, NEW a \in DOMAIN list,
           NEW s \in Nat, Types(list, blocks, maps),
           Layout(list, blocks, maps), list[a].size >= s + OFFSET
    PROVE  LET n == s + OFFSET
               h == a + OFFSET + (list[a].size - n)
           IN  /\ h \notin DOMAIN blocks
               /\ Types(Carve(list, head, a, n), With(blocks, h, s), maps)
               /\ Layout(Carve(list, head, a, n), With(blocks, h, s), maps)
<1> DEFINE n == s + OFFSET
           h == a + OFFSET + (list[a].size - n)
           list2 == Carve(list, head, a, n)
           blocks2 == With(blocks, h, s)
<1>1. /\ OFFSET \in Nat \ {0} /\ n \in Nat
      /\ a \in Nat /\ a # 0 /\ list[a].size \in Nat /\ h \in Nat
      /\ a + OFFSET <= h /\ h + OFFSET + s = a + OFFSET + list[a].size
  BY ArenaAssumption DEF Types, ListType
<1>2. /\ DOMAIN list2 \subseteq DOMAIN list
      /\ \A b \in DOMAIN list2 :
            /\ list2[b].next \in Nat
            /\ list2[b].size = IF b = a THEN list[a].size - n
                                        ELSE list[b].size
            /\ list2[b] = [size |-> list2[b].size, next |-> list2[b].next]
      /\ list2 = [b \in DOMAIN list2 |-> list2[b]]
  BY <1>1 DEF Carve, Unlink, Node, Types, ListType
<1>3. h \notin DOMAIN blocks
  <2>1. ASSUME h \in DOMAIN blocks PROVE FALSE
    <3>1. Apart(a, list[a].size, h, blocks[h])
      BY <2>1 DEF Layout, ListBlocksApart
    <3>2. blocks[h] \in Nat
      BY <2>1 DEF Types, BlockType
    <3> QED BY <3>1, <3>2, <1>1 DEF Apart
  <2> QED BY <2>1
<1>4. /\ DOMAIN blocks2 = DOMAIN blocks \cup {h}
      /\ blocks2[h] = s
      /\ \A g \in DOMAIN blocks : blocks2[g] = blocks[g]
      /\ blocks2 = [g \in DOMAIN blocks2 |-> blocks2[g]]
  BY <1>3 DEF With
<1>12. h = a + OFFSET + (list[a].size - n) /\ n = s + OFFSET
  OBVIOUS
<1> HIDE DEF n, h, list2, blocks2
<1>7. \A b \in DOMAIN list : b \in Nat /\ list[b].size \in Nat
  BY DEF Types, ListType
<1>5. Types(list2, blocks2, maps)
  <2>1. ListType(list2)
    <3>1. \A b \in DOMAIN list2 : list2[b].size \in Nat
      BY <1>1, <1>2, <1>7, <1>12
    <3>2. \A b \in DOMAIN list2 : list2[b] \in [size : Nat, next : Nat]
      BY <3>1, <1>2
    <3> QED BY <1>2, <3>2 DEF Types, ListType
  <2>2. BlockType(blocks2)
    BY <1>1, <1>4 DEF Types, BlockType
  <2> QED BY <2>1, <2>2 DEF Types
<1>6. \A g \in DOMAIN blocks :
         g \in Nat /\ blocks[g] \in Nat /\ Apart(a, list[a].size, g, blocks[g])
  BY DEF Types, BlockType, Layout, ListBlocksApart
<1>8. ListApart(list2)
  BY <1>1, <1>2, <1>7, <1>12 DEF ListApart, Layout, Apart
<1>9. BlocksApart(blocks2)
  BY <1>1, <1>4, <1>6, <1>12 DEF BlocksApart, Layout, Apart
<1>10. ListBlocksApart(list2, blocks2)
  <2> SUFFICES ASSUME NEW b \in DOMAIN list2, NEW g \in DOMAIN blocks2
               PROVE  Apart(b, list2[b].size, g, blocks2[g])
    BY DEF ListBlocksApart
  <2>1. CASE g = h /\ b = a
    BY <2>1, <1>1, <1>2, <1>4, <1>12 DEF Apart
  <2>2. CASE g = h /\ b # a
    <3>1. Apart(a, list[a].size, b, list[b].size)
      BY <2>2, <1>2 DEF Layout, ListApart
    <3> QED BY <2>2, <3>1, <1>1, <1>2, <1>4, <1>7, <1>12 DEF Apart
  <2>3. CASE g # h
    <3>1. Apart(b, list[b].size, g, blocks[g])
      BY <2>3, <1>2, <1>4 DEF Layout, ListBlocksApart
    <3> QED BY <2>3, <3>1, <1>1, <1>2, <1>4, <1>6, <1>7 DEF Apart
  <2> QED BY <2>1, <2>2, <2>3
<1>11. AllBacked(list2, blocks2, maps)
  <2>1. ASSUME NEW b \in DOMAIN list2 PROVE Backed(maps, b, list2[b].size)
    <3>1. Backed(maps, b, list[b].size)
      BY <1>2 DEF Layout, AllBacked
    <3> QED BY <3>1, <1>1, <1>2, <1>7, <1>12 DEF Backed
  <2>2. ASSUME NEW g \in DOMAIN blocks2 PROVE Backed(maps, g, blocks2[g])
    <3>1. CASE g = h
      <4>1. Backed(maps, a, list[a].size)
        BY DEF Layout, AllBacked
      <4> QED BY <3>1, <4>1, <1>1, <1>4, <1>12 DEF Backed
    <3>2. CASE g # h
      BY <3>2, <1>4 DEF Layout, AllBacked
    <3> QED BY <3>1, <3>2
  <2> QED BY <2>1, <2>2 DEF AllBacked
<1> QED BY <1>3, <1>5, <1>8, <1>9, <1>10, <1>11 DEF Layout, n, h, list2, blocks2

(* An extent inside the earlier mappings shares no byte with a new one.    *)
LEMMA FreshMapping ==
    ASSUME NEW maps, MapType(maps), NEW base \in Nat, NEW len \in Nat,
           Unmapped(maps, base, len), len > 0,
           NEW a \in Nat, NEW size \in Nat, Backed(maps, a, size)
    PROVE  a + OFFSET + size <= base \/ base + len <= a
<1> OFFSET \in Nat \ {0}
  BY ArenaAssumption
<1> SUFFICES ASSUME base < a + OFFSET + size, a < base + len PROVE FALSE
  OBVIOUS
<1>1. \A m \in maps : m.base \in Nat /\ m.len \in Nat
  BY DEF MapType
<1>2. CASE a <= base
  <2>1. PICK m \in maps : m.base <= base /\ base < m.base + m.len
    BY <1>2 DEF Backed
  <2> QED BY <1>1, <2>1 DEF Unmapped
<1>3. CASE base < a
  <2>1. PICK m \in maps : m.base <= a /\ a < m.base + m.len
    BY DEF Backed
  <2> QED BY <1>1, <1>3, <2>1 DEF Unmapped
<1> QED BY <1>2, <1>3

(* A new mapping with room for both headers adds a free extent and a block *)
(* apart from all others (mem.c:138-147).                                  *)
LEMMA GrowLayout ==
    ASSUME NEW list, NEW blocks, NEW maps, NEW s \in Nat,
           NEW base \in Nat \ {0}, NEW len \in Nat,
           Types(list, blocks, maps), Layout(list, blocks, maps),
           Unmapped(maps, base, len), s + OFFSET + OFFSET <= len,
           NEW node \in RestNodes(len, s + OFFSET)
    PROVE  LET n == s + OFFSET
               h == base + (len - n)
               maps2 == maps \cup {[base |-> base, len |-> len]}
               list2 == Append(list, base, node)
           IN  /\ h \notin DOMAIN blocks
               /\ Types(list2, With(blocks, h, s), maps2)
               /\ Layout(list2, With(blocks, h, s), maps2)
<1> DEFINE n == s + OFFSET
           h == base + (len - n)
           maps2 == maps \cup {[base |-> base, len |-> len]}
           list2 == Append(list, base, node)
           blocks2 == With(blocks, h, s)
<1>1. OFFSET \in Nat \ {0} /\ n \in Nat /\ n = s + OFFSET /\ h \in Nat
      /\ len > 0 /\ h = base + (len - n) /\ h # 0
      /\ len - n - OFFSET \in Nat
  BY ArenaAssumption
<1>2. \A a \in DOMAIN list : a \in Nat /\ list[a].size \in Nat
  BY DEF Types, ListType
<1>3. \A g \in DOMAIN blocks : g \in Nat /\ blocks[g] \in Nat
  BY DEF Types, BlockType
<1>4. \A a \in DOMAIN list :
         a + OFFSET + list[a].size <= base \/ base + len <= a
  BY <1>1, <1>2, FreshMapping DEF Types, Layout, AllBacked
<1>5. \A g \in DOMAIN blocks :
         g + OFFSET + blocks[g] <= base \/ base + len <= g
  BY <1>1, <1>3, FreshMapping DEF Types, Layout, AllBacked
<1>6. base \notin DOMAIN list /\ h \notin DOMAIN blocks
  BY <1>1, <1>2, <1>3, <1>4, <1>5
<1>7. /\ DOMAIN list2 = DOMAIN list \cup {base}
      /\ list2[base] = [size |-> len - n - OFFSET, next |-> NULL]
      /\ \A a \in DOMAIN list :
            list2[a] = [size |-> list[a].size, next |-> list2[a].next]
            /\ list2[a].next \in Nat
      /\ list2 = [a \in DOMAIN list2 |-> list2[a]]
  BY <1>1, <1>6 DEF Append, RestNodes, Room, Node, NULL, Types, ListType
<1>8. /\ DOMAIN blocks2 = DOMAIN blocks \cup {h}
      /\ blocks2[h] = s
      /\ \A g \in DOMAIN blocks : blocks2[g] = blocks[g]
      /\ blocks2 = [g \in DOMAIN blocks2 |-> blocks2[g]]
  BY <1>6 DEF With
<1>9. MapType(maps2)
  BY DEF Types, MapType
<1>m. [base |-> base, len |-> len] \in maps2 /\ maps \subseteq maps2
  OBVIOUS
<1> HIDE DEF n, h, maps2, list2, blocks2
<1>10. Types(list2, blocks2, maps2)
  <2>1. ListType(list2)
    <3>1. \A a \in DOMAIN list2 : list2[a] \in [size : Nat, next : Nat]
      BY <1>1, <1>2, <1>7 DEF NULL
    <3> QED BY <3>1, <1>7 DEF Types, ListType
  <2>2. BlockType(blocks2)
    BY <1>1, <1>8 DEF Types, BlockType
  <2> QED BY <2>1, <2>2, <1>9 DEF Types
<1>11. ListApart(list2)
  <2> SUFFICES ASSUME NEW a \in DOMAIN list2, NEW b \in DOMAIN list2, a # b
               PROVE  Apart(a, list2[a].size, b, list2[b].size)
    BY DEF ListApart
  <2>1. CASE a = base \/ b = base
    BY <2>1, <1>1, <1>2, <1>4, <1>7 DEF Apart
  <2>2. CASE a # base /\ b # base
    BY <2>2, <1>7 DEF Layout, ListApart
  <2> QED BY <2>1, <2>2
<1>12. BlocksApart(blocks2)
  <2> SUFFICES ASSUME NEW f \in DOMAIN blocks2, NEW g \in DOMAIN blocks2,
                      f # g
               PROVE  Apart(f, blocks2[f], g, blocks2[g])
    BY DEF BlocksApart
  <2>1. CASE f = h \/ g = h
    BY <2>1, <1>1, <1>3, <1>5, <1>8 DEF Apart
  <2>2. CASE f # h /\ g # h
    BY <2>2, <1>8 DEF Layout, BlocksApart
  <2> QED BY <2>1, <2>2
<1>13. ListBlocksApart(list2, blocks2)
  <2> SUFFICES ASSUME NEW a \in DOMAIN list2, NEW g \in DOMAIN blocks2
               PROVE  Apart(a, list2[a].size, g, blocks2[g])
    BY DEF ListBlocksApart
  <2>1. CASE a = base /\ g = h
    BY <2>1, <1>1, <1>7, <1>8 DEF Apart
  <2>2. CASE a = base /\ g # h
    BY <2>2, <1>1, <1>3, <1>5, <1>7, <1>8 DEF Apart
  <2>3. CASE a # base /\ g = h
    BY <2>3, <1>1, <1>2, <1>4, <1>7, <1>8 DEF Apart
  <2>4. CASE a # base /\ g # h
    BY <2>4, <1>7, <1>8 DEF Layout, ListBlocksApart
  <2> QED BY <2>1, <2>2, <2>3, <2>4
<1>14. AllBacked(list2, blocks2, maps2)
  <2>1. ASSUME NEW a \in DOMAIN list2 PROVE Backed(maps2, a, list2[a].size)
    <3>1. CASE a = base
      BY <3>1, <1>1, <1>7, <1>m DEF Backed
    <3>2. CASE a # base
      BY <3>2, <1>7, <1>m DEF Layout, AllBacked, Backed
    <3> QED BY <3>1, <3>2
  <2>2. ASSUME NEW g \in DOMAIN blocks2 PROVE Backed(maps2, g, blocks2[g])
    <3>1. CASE g = h
      BY <3>1, <1>1, <1>8, <1>m DEF Backed
    <3>2. CASE g # h
      BY <3>2, <1>8, <1>m DEF Layout, AllBacked, Backed
    <3> QED BY <3>1, <3>2
  <2> QED BY <2>1, <2>2 DEF AllBacked
<1> QED
  BY <1>6, <1>10, <1>11, <1>12, <1>13, <1>14
  DEF Layout, n, h, maps2, list2, blocks2

(* A new mapping without room for the node's header adds a block apart     *)
(* from all others, and a node that lies under it (mem.c:140).             *)
LEMMA CrampedLayout ==
    ASSUME NEW list, NEW blocks, NEW maps, NEW s \in Nat,
           NEW base \in Nat \ {0}, NEW len \in Nat,
           Types(list, blocks, maps), Layout(list, blocks, maps),
           Unmapped(maps, base, len), s + OFFSET <= len,
           ~ Room(len, s + OFFSET), NEW node \in RestNodes(len, s + OFFSET)
    PROVE  LET n == s + OFFSET
               h == base + (len - n)
               maps2 == maps \cup {[base |-> base, len |-> len]}
               list2 == Append(list, base, node)
           IN  /\ h \notin DOMAIN blocks
               /\ Types(list2, With(blocks, h, s), maps2)
               /\ BlocksApart(With(blocks, h, s))
               /\ Shared(base, list2, With(blocks, h, s), maps2)
<1> DEFINE n == s + OFFSET
           h == base + (len - n)
           maps2 == maps \cup {[base |-> base, len |-> len]}
           list2 == Append(list, base, node)
           list3 == Without(list2, base)
           blocks2 == With(blocks, h, s)
<1>1. OFFSET \in Nat \ {0} /\ n \in Nat /\ n = s + OFFSET /\ h \in Nat
      /\ len > 0 /\ h = base + (len - n) /\ h # 0
      /\ base <= h /\ h < base + OFFSET
  BY ArenaAssumption DEF Room
<1>2. \A a \in DOMAIN list : a \in Nat /\ list[a].size \in Nat
  BY DEF Types, ListType
<1>3. \A g \in DOMAIN blocks : g \in Nat /\ blocks[g] \in Nat
  BY DEF Types, BlockType
<1>4. \A a \in DOMAIN list :
         a + OFFSET + list[a].size <= base \/ base + len <= a
  BY <1>1, <1>2, FreshMapping DEF Types, Layout, AllBacked
<1>5. \A g \in DOMAIN blocks :
         g + OFFSET + blocks[g] <= base \/ base + len <= g
  BY <1>1, <1>3, FreshMapping DEF Types, Layout, AllBacked
<1>6. base \notin DOMAIN list /\ h \notin DOMAIN blocks
  BY <1>1, <1>2, <1>3, <1>4, <1>5
<1>n. node \in [size : Nat, next : Nat]
  BY <1>1 DEF RestNodes, Room, Node, NULL
<1>7. /\ DOMAIN list2 = DOMAIN list \cup {base}
      /\ list2[base] \in [size : Nat, next : Nat]
      /\ \A a \in DOMAIN list :
            list2[a] = [size |-> list[a].size, next |-> list2[a].next]
            /\ list2[a].next \in Nat
      /\ list2 = [a \in DOMAIN list2 |-> list2[a]]
  BY <1>1, <1>6, <1>n DEF Append, Types, ListType
<1>8. /\ DOMAIN blocks2 = DOMAIN blocks \cup {h}
      /\ blocks2[h] = s
      /\ \A g \in DOMAIN blocks : blocks2[g] = blocks[g]
      /\ blocks2 = [g \in DOMAIN blocks2 |-> blocks2[g]]
  BY <1>6 DEF With
<1>9. MapType(maps2)
  BY DEF Types, MapType
<1>m. [base |-> base, len |-> len] \in maps2 /\ maps \subseteq maps2
  OBVIOUS
<1> HIDE DEF n, h, maps2, list2, blocks2
<1>t. DOMAIN list3 = DOMAIN list
      /\ \A a \in DOMAIN list : list3[a].size = list[a].size
  <2>1. DOMAIN list2 \ {base} = DOMAIN list
    BY <1>6, <1>7
  <2>2. \A a \in DOMAIN list : list2[a].size = list[a].size
    BY <1>7
  <2>3. DOMAIN list3 = DOMAIN list
        /\ \A a \in DOMAIN list : list3[a] = list2[a]
    BY <2>1 DEF Without
  <2> QED BY <2>2, <2>3
<1> HIDE DEF list3
<1>10. Types(list2, blocks2, maps2)
  <2>1. ListType(list2)
    <3>1. \A a \in DOMAIN list2 : list2[a] \in [size : Nat, next : Nat]
      BY <1>1, <1>2, <1>7 DEF NULL
    <3> QED BY <3>1, <1>7 DEF Types, ListType
  <2>2. BlockType(blocks2)
    BY <1>1, <1>8 DEF Types, BlockType
  <2> QED BY <2>1, <2>2, <1>9 DEF Types
<1>11. ListApart(list3)
  BY <1>t DEF Layout, ListApart
<1>12. BlocksApart(blocks2)
  <2> SUFFICES ASSUME NEW f \in DOMAIN blocks2, NEW g \in DOMAIN blocks2,
                      f # g
               PROVE  Apart(f, blocks2[f], g, blocks2[g])
    BY DEF BlocksApart
  <2>1. CASE f = h \/ g = h
    BY <2>1, <1>1, <1>3, <1>5, <1>8 DEF Apart
  <2>2. CASE f # h /\ g # h
    BY <2>2, <1>8 DEF Layout, BlocksApart
  <2> QED BY <2>1, <2>2
<1>13. ListBlocksApart(list3, blocks2)
  <2> SUFFICES ASSUME NEW a \in DOMAIN list, NEW g \in DOMAIN blocks2
               PROVE  Apart(a, list[a].size, g, blocks2[g])
    BY <1>t DEF ListBlocksApart
  <2>1. CASE g = h
    BY <2>1, <1>1, <1>2, <1>4, <1>8 DEF Apart
  <2>2. CASE g # h
    BY <2>2, <1>8 DEF Layout, ListBlocksApart
  <2> QED BY <2>1, <2>2
<1>14. AllBacked(list3, blocks2, maps2)
  <2>1. ASSUME NEW a \in DOMAIN list3 PROVE Backed(maps2, a, list3[a].size)
    BY <1>t, <1>m DEF Layout, AllBacked, Backed
  <2>2. ASSUME NEW g \in DOMAIN blocks2 PROVE Backed(maps2, g, blocks2[g])
    <3>1. CASE g = h
      BY <3>1, <1>1, <1>8, <1>m DEF Backed
    <3>2. CASE g # h
      BY <3>2, <1>8, <1>m DEF Layout, AllBacked, Backed
    <3> QED BY <3>1, <3>2
  <2> QED BY <2>1, <2>2 DEF AllBacked
<1>15. Shared(base, list2, blocks2, maps2)
  <2>1. Layout(list3, blocks2, maps2)
    BY <1>11, <1>12, <1>13, <1>14 DEF Layout
  <2>2. base \in DOMAIN list2 /\ h \in DOMAIN blocks2
    BY <1>7, <1>8
  <2> QED BY <1>1, <2>1, <2>2 DEF Shared, list3
<1> QED
  BY <1>6, <1>10, <1>12, <1>15 DEF n, h, maps2, list2, blocks2

(* A freed block, dropped or linked behind the last node, keeps the layout *)
(* (mem.c:73-82).                                                          *)
LEMMA DropLayout ==
    ASSUME NEW list, NEW blocks, NEW maps, NEW h \in DOMAIN blocks,
           Types(list, blocks, maps), Layout(list, blocks, maps)
    PROVE  /\ Types(list, Without(blocks, h), maps)
           /\ Layout(list, Without(blocks, h), maps)
<1>1. /\ DOMAIN Without(blocks, h) = DOMAIN blocks \ {h}
      /\ \A g \in DOMAIN blocks \ {h} : Without(blocks, h)[g] = blocks[g]
      /\ BlockType(Without(blocks, h))
  BY DEF Without, Types, BlockType
<1> QED
  BY <1>1
  DEF Types, Layout, ListApart, BlocksApart, ListBlocksApart, AllBacked

LEMMA AppendLayout ==
    ASSUME NEW list, NEW blocks, NEW maps, NEW h \in DOMAIN blocks,
           Types(list, blocks, maps), Layout(list, blocks, maps)
    PROVE  LET list2 == Append(list, h, Node(blocks[h], NULL))
           IN  /\ Types(list2, Without(blocks, h), maps)
               /\ Layout(list2, Without(blocks, h), maps)
<1> DEFINE list2 == Append(list, h, Node(blocks[h], NULL))
           blocks2 == Without(blocks, h)
<1>1. /\ DOMAIN blocks2 = DOMAIN blocks \ {h}
      /\ \A g \in DOMAIN blocks \ {h} : blocks2[g] = blocks[g]
      /\ BlockType(blocks2)
  BY DEF Without, Types, BlockType
<1>2. \A a \in DOMAIN list : a \in Nat /\ list[a].size \in Nat
  BY DEF Types, ListType
<1>3. \A g \in DOMAIN blocks : g \in Nat /\ blocks[g] \in Nat /\ g # 0
  BY DEF Types, BlockType
<1>4. h \notin DOMAIN list
  <2>1. ASSUME h \in DOMAIN list PROVE FALSE
    <3>1. Apart(h, list[h].size, h, blocks[h])
      BY <2>1 DEF Layout, ListBlocksApart
    <3> QED BY <2>1, <3>1, <1>2, <1>3, ArenaAssumption DEF Apart
  <2> QED BY <2>1
<1>5. /\ DOMAIN list2 = DOMAIN list \cup {h}
      /\ list2[h] = [size |-> blocks[h], next |-> NULL]
      /\ \A a \in DOMAIN list :
            list2[a] = [size |-> list[a].size, next |-> list2[a].next]
            /\ list2[a].next \in Nat
      /\ list2 = [a \in DOMAIN list2 |-> list2[a]]
  BY <1>3, <1>4 DEF Append, Node, NULL, Types, ListType
<1> HIDE DEF list2, blocks2
<1>6. ListType(list2)
  <2>1. \A a \in DOMAIN list2 : list2[a] \in [size : Nat, next : Nat]
    BY <1>2, <1>3, <1>5 DEF NULL
  <2> QED BY <2>1, <1>3, <1>5 DEF Types, ListType
<1>7. ListApart(list2)
  <2> SUFFICES ASSUME NEW a \in DOMAIN list2, NEW b \in DOMAIN list2, a # b
               PROVE  Apart(a, list2[a].size, b, list2[b].size)
    BY DEF ListApart
  <2>1. CASE a = h
    BY <2>1, <1>2, <1>3, <1>5, ArenaAssumption
       DEF Layout, ListBlocksApart, Apart
  <2>2. CASE b = h
    BY <2>2, <1>2, <1>3, <1>5 DEF Layout, ListBlocksApart
  <2>3. CASE a # h /\ b # h
    BY <2>3, <1>5 DEF Layout, ListApart
  <2> QED BY <2>1, <2>2, <2>3
<1>8. BlocksApart(blocks2)
  BY <1>1 DEF Layout, BlocksApart
<1>9. ListBlocksApart(list2, blocks2)
  BY <1>1, <1>5 DEF Layout, BlocksApart, ListBlocksApart
<1>10. AllBacked(list2, blocks2, maps)
  BY <1>1, <1>5 DEF Layout, AllBacked
<1> QED
  BY <1>1, <1>6, <1>7, <1>8, <1>9, <1>10 DEF Types, Layout, list2, blocks2

(* The pass of merge_list keeps the layout: what a node absorbs was the    *)
(* extent right behind it (mem.c:38-53).                                   *)
LEMMA CoalesceLayout ==
    ASSUME NEW list, NEW blocks, NEW maps,
           NEW gone \in SUBSET DOMAIN list, AbsorbedBy(list, gone),
           Types(list, blocks, maps), Layout(list, blocks, maps)
    PROVE  /\ Types(Coalesce(list, gone), blocks, maps)
           /\ Layout(Coalesce(list, gone), blocks, maps)
<1> DEFINE list2 == Coalesce(list, gone)
           Eats(a, b) == b \in gone /\ Touches(list, a, b)
<1>1. \A a \in DOMAIN list :
         /\ a \in Nat /\ list[a].size \in Nat /\ list[a].next \in Nat
         /\ list[a] \in [size : Nat, next : Nat]
  BY DEF Types, ListType
<1>2. \A a \in DOMAIN list, b \in gone :
         Touches(list, a, b) => b = list[a].next /\ b = a + OFFSET + list[a].size
  BY DEF Touches
<1>3. /\ DOMAIN list2 = DOMAIN list \ gone
      /\ list2 = [a \in DOMAIN list2 |-> list2[a]]
      /\ \A a \in DOMAIN list2 :
            /\ (\A b \in gone : ~ Touches(list, a, b)) => list2[a] = list[a]
            /\ \A b \in gone : Touches(list, a, b) =>
                  list2[a] = [size |-> list[a].size + list[b].size,
                              next |-> list[b].next]
  BY <1>2 DEF Coalesce, Node
<1> HIDE DEF list2
<1>4. ListType(list2)
  <2>1. \A a \in DOMAIN list2 : list2[a] \in [size : Nat, next : Nat]
    BY <1>1, <1>3
  <2> QED BY <2>1, <1>3 DEF Types, ListType
<1>5. \A a \in DOMAIN list2 :
         \/ list2[a].size = list[a].size
         \/ \E b \in gone : /\ b = a + OFFSET + list[a].size
                            /\ list2[a].size = list[a].size + list[b].size
  BY <1>2, <1>3
<1>6. \A a \in DOMAIN list, g, size \in Nat :
         Apart(a, list[a].size, g, size) <=>
            a + OFFSET + list[a].size <= g \/ g + OFFSET + size <= a
  BY DEF Apart
<1>7. OFFSET \in Nat \ {0}
  BY ArenaAssumption
<1>8. ListApart(list2)
  <2> SUFFICES ASSUME NEW a \in DOMAIN list2, NEW c \in DOMAIN list2, a # c
               PROVE  Apart(a, list2[a].size, c, list2[c].size)
    BY DEF ListApart
  <2>1. a \in DOMAIN list \ gone /\ c \in DOMAIN list \ gone
    BY <1>3
  <2>2. \A x, y \in DOMAIN list : x # y =>
           x + OFFSET + list[x].size <= y \/ y + OFFSET + list[y].size <= x
    BY DEF Layout, ListApart, Apart
  <2>3. CASE list2[a].size = list[a].size /\ list2[c].size = list[c].size
    BY <2>1, <2>2, <2>3 DEF Apart
  <2>4. ASSUME NEW b \in gone, b = a + OFFSET + list[a].size,
               list2[a].size = list[a].size + list[b].size,
               list2[c].size = list[c].size
        PROVE  Apart(a, list2[a].size, c, list2[c].size)
    BY <2>1, <2>2, <2>4, <1>1, <1>7 DEF Apart
  <2>5. ASSUME NEW d \in gone, d = c + OFFSET + list[c].size,
               list2[c].size = list[c].size + list[d].size,
               list2[a].size = list[a].size
        PROVE  Apart(a, list2[a].size, c, list2[c].size)
    BY <2>1, <2>2, <2>5, <1>1, <1>7 DEF Apart
  <2>6. ASSUME NEW b \in gone, b = a + OFFSET + list[a].size,
               list2[a].size = list[a].size + list[b].size,
               NEW d \in gone, d = c + OFFSET + list[c].size,
               list2[c].size = list[c].size + list[d].size
        PROVE  Apart(a, list2[a].size, c, list2[c].size)
    <3>1. b # d
      BY <2>1, <2>2, <2>6, <1>1, <1>7
    <3> QED BY <3>1, <2>1, <2>2, <2>6, <1>1, <1>7 DEF Apart
  <2> QED BY <2>3, <2>4, <2>5, <2>6, <1>5
<1>9. ListBlocksApart(list2, blocks)
  <2> SUFFICES ASSUME NEW a \in DOMAIN list2, NEW h \in DOMAIN blocks
               PROVE  Apart(a, list2[a].size, h, blocks[h])
    BY DEF ListBlocksApart
  <2>1. \A x \in DOMAIN list :
           x + OFFSET + list[x].size <= h \/ h + OFFSET + blocks[h] <= x
    BY DEF Layout, ListBlocksApart, Apart
  <2>2. h \in Nat /\ blocks[h] \in Nat
    BY DEF Types, BlockType
  <2>3. a \in DOMAIN list
    BY <1>3
  <2>4. CASE list2[a].size = list[a].size
    BY <2>1, <2>3, <2>4 DEF Apart
  <2>5. ASSUME NEW b \in gone, b = a + OFFSET + list[a].size,
               list2[a].size = list[a].size + list[b].size
        PROVE  Apart(a, list2[a].size, h, blocks[h])
    BY <2>1, <2>2, <2>3, <2>5, <1>1, <1>7 DEF Apart
  <2> QED BY <2>4, <2>5, <1>5
<1>10. AllBacked(list2, blocks, maps)
  <2>1. ASSUME NEW a \in DOMAIN list2 PROVE Backed(maps, a, list2[a].size)
    <3>1. a \in DOMAIN list /\ Backed(maps, a, list[a].size)
      BY <1>3 DEF Layout, AllBacked
    <3>2. CASE list2[a].size = list[a].size
      BY <3>1, <3>2
    <3>3. ASSUME NEW b \in gone, b = a + OFFSET + list[a].size,
                 list2[a].size = list[a].size + list[b].size
          PROVE  Backed(maps, a, list2[a].size)
      <4>1. Backed(maps, b, list[b].size)
        BY DEF Layout, AllBacked
      <4>2. \A x \in a .. a + OFFSET + list2[a].size - 1 :
               \/ x \in a .. a + OFFSET + list[a].size - 1
               \/ x \in b .. b + OFFSET + list[b].size - 1
        BY <3>1, <3>3, <1>1, <1>7
      <4> QED BY <3>1, <4>1, <4>2 DEF Backed
    <3> QED BY <3>2, <3>3, <1>5
  <2> QED BY <2>1 DEF AllBacked, Layout
<1> QED BY <1>4, <1>8, <1>9, <1>10 DEF Types, Layout, list2

-----------------------------------------------------------------------------
(* The inductive invariant: an arena without a head has no list, no blocks *)
(* and no mappings, so that the first request starts from nothing.         *)
Empty == DOMAIN free = {} /\ DOMAIN live = {} /\ mapped = {} /\ cramped = {}

ArenaInv == TypeOK /\ NoOverlap /\ (mem = NULL => Empty)

(* The list that alloc_free_list makes, as _malloc_ finds it.              *)
LEMMA FirstLayout ==
    ASSUME TypeOK, Empty, NEW base \in Bases
    PROVE  LET first == {[base |-> base, len |-> PAGE]}
           IN  /\ Types(FirstNode(base), live, first)
               /\ Layout(FirstNode(base), live, first)
<1> DEFINE list == FirstNode(base)
           first == {[base |-> base, len |-> PAGE]}
<1>1. base \in Nat /\ base # 0 /\ OFFSET \in Nat \ {0} /\ PAGE - OFFSET \in Nat
      /\ PAGE \in Nat
  BY ArenaAssumption
<1>2. DOMAIN list = {base} /\ list[base] = [size |-> PAGE - OFFSET, next |-> 0]
      /\ list = [a \in DOMAIN list |-> list[a]]
  BY DEF FirstNode, With, Node, Empty, NULL
<1> HIDE DEF list
<1>3. ListType(list)
  <2>1. list[base] \in [size : Nat, next : Nat]
    BY <1>1, <1>2
  <2> QED BY <1>1, <1>2, <2>1 DEF ListType
<1>4. Backed(first, base, PAGE - OFFSET)
  BY <1>1 DEF Backed
<1>5. MapType(first)
  BY <1>1 DEF MapType
<1> QED
  BY <1>2, <1>3, <1>4, <1>5
  DEF TypeOK, Empty, Types, Layout, ListApart, BlocksApart,
      ListBlocksApart, AllBacked, list

(* The two ways in which _malloc_ serves a request from a list.            *)
LEMMA FitStep ==
    ASSUME NEW list, NEW maps, NEW head, NEW s \in Sizes,
           Types(list, live, maps), Layout(list, live, maps),
           cramped = {}, Fit(list, head, s), mapped' = maps
    PROVE  /\ ListType(free') /\ BlockType(live') /\ MapType(mapped')
           /\ cramped' \in SUBSET Nat
           /\ NoOverlap' /\ BlocksApart(live')
           /\ \E h : h \notin DOMAIN live /\ live' = With(live, h, s)
<1>1. s \in Nat
  BY ArenaAssumption
<1>2. PICK a \in DOMAIN list :
         /\ list[a].size >= s + OFFSET
         /\ free' = Carve(list, head, a, s + OFFSET)
         /\ live' = With(live, a + OFFSET + (list[a].size - (s + OFFSET)), s)
         /\ cramped' = {}
  BY DEF Fit, FirstFit
<1>3. Layout(free', live', mapped')
  BY <1>1, <1>2, CarveLayout
<1> QED BY <1>1, <1>2, <1>3, CarveLayout DEF NoOverlap, Layout, Types

LEMMA GrowStep ==
    ASSUME NEW list, NEW maps, NEW s \in Sizes,
           Types(list, live, maps), Layout(list, live, maps),
           Grow(list, maps, s)
    PROVE  /\ ListType(free') /\ BlockType(live') /\ MapType(mapped')
           /\ cramped' \in SUBSET Nat
           /\ NoOverlap' /\ BlocksApart(live')
           /\ \E h : h \notin DOMAIN live /\ live' = With(live, h, s)
<1>1. s \in Nat /\ OFFSET \in Nat
  BY ArenaAssumption
<1>2. PICK base \in Bases, len \in MapSizes :
         /\ NewMapping(maps, s + OFFSET, base, len)
         /\ \E node \in RestNodes(len, s + OFFSET) :
               free' = Append(list, base, node)
         /\ live' = With(live, base + (len - (s + OFFSET)), s)
         /\ mapped' = maps \cup {[base |-> base, len |-> len]}
         /\ cramped' = IF Room(len, s + OFFSET) THEN {} ELSE {base}
  BY DEF Grow
<1>n. PICK node \in RestNodes(len, s + OFFSET) :
         free' = Append(list, base, node)
  BY <1>2
<1>3. base \in Nat \ {0} /\ len \in Nat
  BY ArenaAssumption DEF MapSizes
<1>4. Unmapped(maps, base, len) /\ s + OFFSET <= len
  BY <1>2 DEF NewMapping
<1>5. CASE Room(len, s + OFFSET)
  <2>1. s + OFFSET + OFFSET <= len
    BY <1>1, <1>3, <1>5 DEF Room
  <2>2. Layout(free', live', mapped')
    BY <1>1, <1>2, <1>n, <1>3, <1>4, <2>1, GrowLayout
  <2> QED
    BY <1>1, <1>2, <1>n, <1>3, <1>4, <1>5, <2>1, <2>2, GrowLayout
    DEF NoOverlap, Layout, Types
<1>6. CASE ~ Room(len, s + OFFSET)
  <2>1. Shared(base, free', live', mapped') /\ BlocksApart(live')
    BY <1>1, <1>2, <1>n, <1>3, <1>4, <1>6, CrampedLayout
  <2>2. cramped' = {base}
    BY <1>2, <1>6
  <2> QED
    BY <1>1, <1>2, <1>n, <1>3, <1>4, <1>6, <2>1, <2>2, CrampedLayout
    DEF NoOverlap, Types
<1> QED BY <1>5, <1>6

(* _malloc_ as a whole.                                                    *)
LEMMA MallocStep ==
    ASSUME ArenaInv, cramped = {}, NEW s \in Sizes, Malloc(s)
    PROVE  /\ ArenaInv' /\ BlocksApart(live')
           /\ \E h : h \notin DOMAIN live /\ live' = With(live, h, s)
<1>1. CASE mem # NULL
  <2>1. Types(free, live, mapped) /\ Layout(free, live, mapped)
    BY DEF ArenaInv, TypeOK, NoOverlap, Types
  <2>2. mem' = mem /\ ((Fit(free, mem, s) /\ mapped' = mapped)
                       \/ Grow(free, mapped, s))
    BY <1>1 DEF Malloc
  <2> QED
    BY <1>1, <2>1, <2>2, FitStep, GrowStep DEF ArenaInv, TypeOK
<1>2. CASE mem = NULL
  <2>1. PICK base \in Bases :
           /\ mem' = base
           /\ \/ Fit(FirstNode(base), base, s)
                 /\ mapped' = {[base |-> base, len |-> PAGE]}
              \/ Grow(FirstNode(base), {[base |-> base, len |-> PAGE]}, s)
    BY <1>2 DEF Malloc
  <2>2. /\ Types(FirstNode(base), live, {[base |-> base, len |-> PAGE]})
        /\ Layout(FirstNode(base), live, {[base |-> base, len |-> PAGE]})
    BY <1>2, FirstLayout DEF ArenaInv
  <2>3. base \in Nat /\ base # NULL
    BY ArenaAssumption DEF NULL
  <2> QED
    BY <2>1, <2>2, <2>3, FitStep, GrowStep DEF ArenaInv, TypeOK
<1> QED BY <1>1, <1>2

(* merge_list on any list.                                                 *)
LEMMA MergeStep ==
    ASSUME NEW list, NEW blocks, Types(list, blocks, mapped),
           Layout(list, blocks, mapped), Merge(list),
           live' = blocks, mapped' = mapped, cramped' = {}
    PROVE  ListType(free') /\ BlockType(live') /\ MapType(mapped') /\ NoOverlap'
<1>1. PICK gone \in SUBSET DOMAIN list :
         AbsorbedBy(list, gone) /\ free' = Coalesce(list, gone)
  BY DEF Merge
<1>2. /\ Types(Coalesce(list, gone), blocks, mapped)
      /\ Layout(Coalesce(list, gone), blocks, mapped)
  BY <1>1, CoalesceLayout
<1> QED BY <1>1, <1>2 DEF Types, NoOverlap

(* _free_ as a whole.                                                      *)
LEMMA FreeStep ==
    ASSUME ArenaInv, cramped = {}, NEW h \in DOMAIN live, Free(h)
    PROVE  ArenaInv'
<1>1. Types(free, live, mapped) /\ Layout(free, live, mapped)
  BY DEF ArenaInv, TypeOK, NoOverlap, Types
<1>2. mem # NULL /\ mem' = mem /\ mapped' = mapped /\ live' = Without(live, h)
      /\ cramped' = {}
  BY DEF ArenaInv, Empty, Free
<1>3. /\ Types(free, Without(live, h), mapped)
      /\ Layout(free, Without(live, h), mapped)
  BY <1>1, DropLayout
<1>4. CASE free' = free
  BY <1>2, <1>3, <1>4 DEF ArenaInv, TypeOK, NoOverlap, Types
<1>5. CASE Merge(free)
  BY <1>2, <1>3, <1>5, MergeStep DEF ArenaInv, TypeOK
<1>6. CASE Merge(Append(free, h, Node(live[h], NULL)))
  <2>1. /\ Types(Append(free, h, Node(live[h], NULL)), Without(live, h), mapped)
        /\ Layout(Append(free, h, Node(live[h], NULL)), Without(live, h), mapped)
    BY <1>1, AppendLayout
  <2> QED BY <1>2, <1>6, <2>1, MergeStep DEF ArenaInv, TypeOK
<1> QED BY <1>4, <1>5, <1>6 DEF Free

LEMMA ArenaInvInit == Init => ArenaInv
<1> SUFFICES ASSUME Init PROVE ArenaInv
  OBVIOUS
<1>1. DOMAIN free = {} /\ DOMAIN live = {} /\ mapped = {} /\ mem = NULL
      /\ cramped = {}
      /\ free = [a \in {} |-> Node(0, NULL)] /\ live = [a \in {} |-> 0]
  BY DEF Init
<1>2. TypeOK
  BY <1>1 DEF TypeOK, ListType, BlockType, MapType, NULL
<1>3. NoOverlap
  BY <1>1 DEF NoOverlap, Layout, ListApart, BlocksApart, ListBlocksApart,
              AllBacked
<1> QED BY <1>1, <1>2, <1>3 DEF ArenaInv, Empty

LEMMA ArenaInvNext == ArenaInv /\ [Next]_vars => ArenaInv'
<1> SUFFICES ASSUME ArenaInv, [Next]_vars PROVE ArenaInv'
  OBVIOUS
<1>1. ASSUME cramped = {}, NEW s \in Sizes, Malloc(s) PROVE ArenaInv'
  BY <1>1, MallocStep
<1>2. ASSUME cramped = {}, NEW h \in DOMAIN live, Free(h) PROVE ArenaInv'
  BY <1>2, FreeStep
<1>3. CASE UNCHANGED vars
  BY <1>3 DEF vars, ArenaInv, TypeOK, NoOverlap, Empty
<1> QED BY <1>1, <1>2, <1>3 DEF Next

(* The arena never lets two extents share a byte, whatever is requested    *)
(* and freed in whatever order and wherever the kernel places its          *)
(* mappings, until a request fills a new mapping up to less than a header  *)
(* (mem.c:140); that request puts one list node under one block.           *)
THEOREM ArenaNoOverlap == Spec => [](TypeOK /\ NoOverlap)
<1>1. ArenaInv /\ [Next]_vars => ArenaInv'
  BY ArenaInvNext
<1>2. ArenaInv => TypeOK /\ NoOverlap
  BY DEF ArenaInv
<1> QED BY <1>1, <1>2, ArenaInvInit, PTL DEF Spec

-----------------------------------------------------------------------------
(* Every step of the arena is a step of the heap or leaves it alone.       *)
LEMMA ArenaSimulates ==
    ArenaInv /\ [Next]_vars => [H!Next]_live
<1> SUFFICES ASSUME ArenaInv, [Next]_vars PROVE [H!Next]_live
  OBVIOUS
<1>1. ASSUME cramped = {}, NEW s \in Sizes, Malloc(s) PROVE H!Alloc
  <2>1. PICK h : h \notin DOMAIN live /\ live' = With(live, h, s)
    BY <1>1, MallocStep
  <2>2. /\ DOMAIN live' = DOMAIN live \cup {h}
        /\ live'[h] = s
        /\ \A g \in DOMAIN live : live'[g] = live[g]
    BY <2>1 DEF With
  <2>3. BlocksApart(live')
    BY <1>1, MallocStep
  <2>4. \A g \in DOMAIN live : H!Apart(g, live[g], h, live'[h])
    BY <2>1, <2>2, <2>3 DEF BlocksApart, Apart, H!Apart
  <2> QED BY <2>1, <2>2, <2>4 DEF H!Alloc
<1>2. ASSUME NEW h \in DOMAIN live, Free(h) PROVE H!Release
  <2>1. live' = Without(live, h)
    BY <1>2 DEF Free
  <2> QED BY <2>1 DEF Without, H!Release
<1>3. CASE UNCHANGED vars
  BY <1>3 DEF vars
<1> QED BY <1>1, <1>2, <1>3 DEF Next, H!Next

(* The arena implements the heap its clients rely on, the request that has *)
(* no room for its header included: ALLOC hands out bytes no other block   *)
(* has, FREE takes back one block only.                                    *)
THEOREM ArenaImplementsHeap == Spec => HeapSpec
<1>1. Init => H!Init
  BY DEF Init, H!Init
<1>2. ArenaInv /\ [Next]_vars => ArenaInv'
  BY ArenaInvNext
<1>3. ArenaInv /\ [Next]_vars => [H!Next]_live
  BY ArenaSimulates
<1> QED BY <1>1, <1>2, <1>3, ArenaInvInit, PTL DEF Spec, HeapSpec, H!Spec

-----------------------------------------------------------------------------
(* A block freed above every free extent is in the list afterwards: as a   *)
(* node, or as the tail of the node that absorbed it.                      *)
LEMMA FreeReuses ==
    ASSUME ArenaInv, cramped = {}, NEW h \in DOMAIN live, Free(h),
           \A a \in DOMAIN free : a < h, live[h] > 0
    PROVE  \E a \in DOMAIN free' :
              a <= h /\ a + OFFSET + free'[a].size >= h + live[h]
<1> DEFINE list == Append(free, h, Node(live[h], NULL))
<1>1. Merge(list)
  BY DEF Free
<1>2. ListType(list)
  BY AppendLayout DEF ArenaInv, TypeOK, NoOverlap, Types
<1>3. h \in Nat /\ live[h] \in Nat /\ OFFSET \in Nat
  BY ArenaAssumption DEF ArenaInv, TypeOK, BlockType
<1>4. h \in DOMAIN list /\ list[h].size = live[h]
  BY DEF Append, Node
<1> HIDE DEF list
<1>5. PICK gone \in SUBSET DOMAIN list :
         AbsorbedBy(list, gone) /\ free' = Coalesce(list, gone)
  BY <1>1 DEF Merge
<1>6. \A a \in DOMAIN list : a \in Nat /\ list[a].size \in Nat
  BY <1>2 DEF ListType
<1>7. CASE h \in gone
  <2>1. PICK a \in DOMAIN list : a \notin gone /\ Touches(list, a, h)
    BY <1>4, <1>5, <1>7 DEF AbsorbedBy, Absorbs
  <2>2. list[a].next = h /\ a + OFFSET + list[a].size = h
    BY <2>1 DEF Touches
  <2>3. a \in DOMAIN free' /\ free'[a].size = list[a].size + list[h].size
    BY <1>5, <1>7, <2>1, <2>2 DEF Coalesce, Node
  <2> QED BY <1>3, <1>4, <1>6, <2>2, <2>3
<1>8. CASE h \notin gone
  <2>1. h \in DOMAIN free'
    BY <1>4, <1>5, <1>8 DEF Coalesce
  <2>2. free'[h].size \in Nat /\ free'[h].size >= list[h].size
    <3>1. CASE \E b \in gone : Touches(list, h, b)
      <4>1. PICK b \in gone : Touches(list, h, b)
        BY <3>1
      <4>2. free'[h].size = list[h].size + list[b].size
        BY <1>4, <1>5, <1>8, <4>1 DEF Coalesce, Node, Touches
      <4> QED BY <1>4, <1>6, <4>2
    <3>2. CASE ~ \E b \in gone : Touches(list, h, b)
      BY <1>4, <1>5, <1>6, <1>8, <3>2 DEF Coalesce
    <3> QED BY <3>1, <3>2
  <2> QED BY <1>3, <1>4, <1>6, <2>1, <2>2
<1> QED BY <1>7, <1>8

(* Freeing the highest extent never loses its bytes.                       *)
THEOREM ArenaReuses == Spec => FreedIsReusable
<1>1. ArenaInv /\ [Next]_vars => [Reusable]_vars
  <2> SUFFICES ASSUME ArenaInv, cramped = {}, Next PROVE Reusable
    BY DEF Next
  <2>1. ASSUME NEW s \in Sizes, Malloc(s) PROVE Reusable
    <3>1. PICK h : live' = With(live, h, s)
      BY <2>1, MallocStep
    <3> QED BY <3>1 DEF With, Reusable
  <2>2. ASSUME NEW h \in DOMAIN live, Free(h) PROVE Reusable
    <3>1. live' = Without(live, h)
      BY <2>2 DEF Free
    <3>2. DOMAIN live \ DOMAIN live' \subseteq {h}
      BY <3>1 DEF Without
    <3> QED BY <2>2, <3>2, FreeReuses DEF Reusable
  <2> QED BY <2>1, <2>2 DEF Next
<1>2. ArenaInv /\ [Next]_vars => ArenaInv'
  BY ArenaInvNext
<1> QED BY <1>1, <1>2, ArenaInvInit, PTL DEF Spec, FreedIsReusable
-----------------------------------------------------------------------------
(* The list is one chain.  A rank numbers its nodes in the order in which  *)
(* a walk meets them, gaps allowed: what is taken out of the list leaves   *)
(* the ranks of the others as they are.                                    *)
NextUp(list, r, a, b) ==
    /\ b \in DOMAIN list /\ r[a] < r[b]
    /\ \A c \in DOMAIN list : r[a] < r[c] => r[b] <= r[c]

Ranked(list, head, r) ==
    /\ \A a \in DOMAIN list : r[a] \in Nat
    /\ \A a, b \in DOMAIN list : r[a] = r[b] => a = b
    /\ head \in DOMAIN list /\ \A a \in DOMAIN list : r[head] <= r[a]
    /\ \A a \in DOMAIN list :
          \/ list[a].next = NULL /\ \A b \in DOMAIN list : r[b] <= r[a]
          \/ NextUp(list, r, a, list[a].next)

Linked(list, head) ==
    \E m \in Nat, r \in [DOMAIN list -> Nat] :
        Ranked(list, head, r) /\ \A a \in DOMAIN list : r[a] <= m

ChainInv == mem # NULL /\ cramped \subseteq DOMAIN live => Linked(free, mem)

(* What changes sizes only keeps the chain.                                *)
LEMMA ResizedLinked ==
    ASSUME NEW list, NEW list2, NEW head, Linked(list, head),
           DOMAIN list2 = DOMAIN list,
           \A a \in DOMAIN list : list2[a].next = list[a].next
    PROVE  Linked(list2, head)
BY DEF Linked, Ranked, NextUp

(* A node that is not the head is bridged (mem.c:133).                     *)
LEMMA UnlinkLinked ==
    ASSUME NEW list, NEW head, NEW a \in DOMAIN list, a # head,
           ListType(list), Linked(list, head)
    PROVE  Linked(Unlink(list, a), head)
<1> DEFINE list2 == Unlink(list, a)
<1>1. PICK m \in Nat, r \in [DOMAIN list -> Nat] :
         Ranked(list, head, r) /\ \A b \in DOMAIN list : r[b] <= m
  BY DEF Linked
<1>2. DOMAIN list2 = DOMAIN list \ {a} /\ NULL \notin DOMAIN list
  BY DEF Unlink, ListType, NULL
<1>3. \A b \in DOMAIN list2 :
         list2[b].next = IF list[b].next = a THEN list[a].next ELSE list[b].next
  BY DEF Unlink, ListType
<1> HIDE DEF list2
<1>4. PICK q : q = [b \in DOMAIN list2 |-> r[b]]
  OBVIOUS
<1>5. /\ q \in [DOMAIN list2 -> Nat]
      /\ \A b \in DOMAIN list2 : q[b] = r[b] /\ r[b] \in Nat
      /\ r[a] \in Nat
  BY <1>2, <1>4
<1>6. ASSUME NEW b \in DOMAIN list2
      PROVE  \/ list2[b].next = NULL /\ \A c \in DOMAIN list2 : q[c] <= q[b]
             \/ NextUp(list2, q, b, list2[b].next)
  <2>1. CASE list[b].next = a
    <3>1. NextUp(list, r, b, a)
      BY <1>1, <1>2, <2>1 DEF Ranked
    <3>2. \A c \in DOMAIN list2 : r[b] < r[c] => r[a] < r[c]
      BY <1>1, <1>2, <1>5, <3>1 DEF NextUp, Ranked
    <3>3. CASE list[a].next = NULL
      BY <1>1, <1>2, <1>3, <1>5, <2>1, <3>2, <3>3 DEF Ranked, NextUp
    <3>4. CASE NextUp(list, r, a, list[a].next)
      BY <1>2, <1>3, <1>5, <2>1, <3>1, <3>2, <3>4 DEF NextUp
    <3> QED BY <1>1, <3>3, <3>4 DEF Ranked
  <2>2. CASE list[b].next # a
    BY <1>1, <1>2, <1>3, <1>5, <2>2 DEF Ranked, NextUp
  <2> QED BY <2>1, <2>2
<1>7. Ranked(list2, head, q) /\ \A b \in DOMAIN list2 : q[b] <= m
  BY <1>1, <1>2, <1>5, <1>6 DEF Ranked
<1> QED BY <1>5, <1>7 DEF Linked, list2

(* A new node goes behind the last one (mem.c:74, 146).                    *)
LEMMA AppendLinked ==
    ASSUME NEW list, NEW head, NEW b, b \notin DOMAIN list, b # NULL,
           NEW node, node.next = NULL, ListType(list), Linked(list, head)
    PROVE  Linked(Append(list, b, node), head)
<1> DEFINE list2 == Append(list, b, node)
<1>1. PICK m \in Nat, r \in [DOMAIN list -> Nat] :
         Ranked(list, head, r) /\ \A a \in DOMAIN list : r[a] <= m
  BY DEF Linked
<1>2. /\ DOMAIN list2 = DOMAIN list \cup {b} /\ list2[b] = node
      /\ NULL \notin DOMAIN list
  BY DEF Append, ListType, NULL
<1>3. \A a \in DOMAIN list :
         list2[a].next = IF list[a].next = NULL THEN b ELSE list[a].next
  BY DEF Append, ListType
<1> HIDE DEF list2
<1>4. PICK q : q = [a \in DOMAIN list2 |-> IF a = b THEN m + 1 ELSE r[a]]
  OBVIOUS
<1>5. /\ q \in [DOMAIN list2 -> Nat] /\ q[b] = m + 1
      /\ \A a \in DOMAIN list : q[a] = r[a] /\ r[a] \in Nat /\ r[a] < m + 1
  BY <1>1, <1>2, <1>4
<1>6. ASSUME NEW a \in DOMAIN list2
      PROVE  \/ list2[a].next = NULL /\ \A c \in DOMAIN list2 : q[c] <= q[a]
             \/ NextUp(list2, q, a, list2[a].next)
  <2>1. CASE a = b
    BY <1>2, <1>5, <2>1
  <2>2. CASE a # b /\ list[a].next = NULL
    BY <1>1, <1>2, <1>3, <1>5, <2>2 DEF Ranked, NextUp
  <2>3. CASE a # b /\ list[a].next # NULL
    BY <1>1, <1>2, <1>3, <1>5, <2>3 DEF Ranked, NextUp
  <2> QED BY <2>1, <2>2, <2>3
<1>7. Ranked(list2, head, q) /\ \A a \in DOMAIN list2 : q[a] <= m + 1
  BY <1>1, <1>2, <1>5, <1>6 DEF Ranked
<1> QED BY <1>5, <1>7 DEF Linked, list2

(* A pass of merge_list bridges what it absorbs; it never takes two        *)
(* neighbours, nor the head (mem.c:38-53).                                 *)
LEMMA CoalesceLinked ==
    ASSUME NEW list, NEW head, NEW gone \in SUBSET DOMAIN list,
           AbsorbedBy(list, gone), ListType(list), Linked(list, head)
    PROVE  Linked(Coalesce(list, gone), head)
<1> DEFINE list2 == Coalesce(list, gone)
<1>1. PICK m \in Nat, r \in [DOMAIN list -> Nat] :
         Ranked(list, head, r) /\ \A b \in DOMAIN list : r[b] <= m
  BY DEF Linked
<1>2. DOMAIN list2 = DOMAIN list \ gone /\ NULL \notin DOMAIN list
  BY DEF Coalesce, ListType, NULL
<1>3. \A a \in DOMAIN list2 :
         list2[a].next = IF \E b \in gone : Touches(list, a, b)
                         THEN list[list[a].next].next ELSE list[a].next
  BY DEF Coalesce, Node
<1> HIDE DEF list2
<1>4. \A a, b \in DOMAIN list :
         list[a].next = b => NextUp(list, r, a, b)
  BY <1>1, <1>2 DEF Ranked
<1>5. \A a, b, c \in DOMAIN list :
         list[a].next = c /\ list[b].next = c => a = b
  <2> SUFFICES ASSUME NEW a \in DOMAIN list, NEW b \in DOMAIN list,
                      NEW c \in DOMAIN list, list[a].next = c, list[b].next = c
               PROVE  a = b
    OBVIOUS
  <2>1. NextUp(list, r, a, c) /\ NextUp(list, r, b, c)
    BY <1>4
  <2> QED BY <1>1, <2>1 DEF NextUp, Ranked
<1>6. \A b \in gone : \E a \in DOMAIN list :
         a \notin gone /\ list[a].next = b /\ Touches(list, a, b)
  BY DEF AbsorbedBy, Absorbs, Touches
<1>7. head \notin gone
  BY <1>1, <1>4, <1>6 DEF NextUp, Ranked
<1>8. PICK q : q = [b \in DOMAIN list2 |-> r[b]]
  OBVIOUS
<1>9. /\ q \in [DOMAIN list2 -> Nat]
      /\ \A b \in DOMAIN list2 : q[b] = r[b]
      /\ \A b \in DOMAIN list : r[b] \in Nat
  BY <1>2, <1>8
<1>10. ASSUME NEW a \in DOMAIN list2
       PROVE  \/ list2[a].next = NULL /\ \A c \in DOMAIN list2 : q[c] <= q[a]
              \/ NextUp(list2, q, a, list2[a].next)
  <2>1. CASE \E b \in gone : Touches(list, a, b)
    <3>1. PICK b \in gone : list[a].next = b
      BY <2>1 DEF Touches
    <3>2. NextUp(list, r, a, b) /\ list2[a].next = list[b].next
      BY <1>2, <1>3, <1>4, <2>1, <3>1
    <3>3. list[b].next \notin gone
      BY <1>5, <1>6
    <3>4. \A c \in DOMAIN list2 : r[a] < r[c] => r[b] < r[c]
      BY <1>1, <1>2, <1>9, <3>2 DEF NextUp, Ranked
    <3>5. CASE list[b].next = NULL
      BY <1>1, <1>2, <1>9, <3>2, <3>4, <3>5 DEF Ranked, NextUp
    <3>6. CASE NextUp(list, r, b, list[b].next)
      BY <1>2, <1>9, <3>2, <3>3, <3>4, <3>6 DEF NextUp
    <3> QED BY <1>1, <3>5, <3>6 DEF Ranked
  <2>2. CASE ~ \E b \in gone : Touches(list, a, b)
    <3>1. list2[a].next = list[a].next /\ list[a].next \notin gone
      BY <1>2, <1>3, <1>5, <1>6, <2>2
    <3> QED BY <1>1, <1>2, <1>9, <3>1 DEF Ranked, NextUp
  <2> QED BY <2>1, <2>2
<1>11. Ranked(list2, head, q) /\ \A b \in DOMAIN list2 : q[b] <= m
  BY <1>1, <1>2, <1>7, <1>9, <1>10 DEF Ranked
<1> QED BY <1>9, <1>11 DEF Linked, list2

(* An extent or a block never has the address of another.                  *)
LEMMA CarveLinked ==
    ASSUME NEW list, NEW head, NEW a \in DOMAIN list, NEW n,
           ListType(list), Linked(list, head)
    PROVE  Linked(Carve(list, head, a, n), head)
<1>1. CASE list[a].size = n /\ a # head
  BY <1>1, UnlinkLinked DEF Carve
<1>2. CASE ~ (list[a].size = n /\ a # head)
  <2>1. /\ DOMAIN Carve(list, head, a, n) = DOMAIN list
        /\ \A b \in DOMAIN list :
              Carve(list, head, a, n)[b].next = list[b].next
    BY <1>2 DEF Carve, Node
  <2> QED BY <2>1, ResizedLinked
<1> QED BY <1>1, <1>2

LEMMA GrowLinked ==
    ASSUME NEW list, NEW maps, NEW head, NEW s \in Sizes,
           Types(list, live, maps), Layout(list, live, maps),
           Linked(list, head), Grow(list, maps, s)
    PROVE  cramped' \subseteq DOMAIN live' => Linked(free', head)
<1>1. s \in Nat /\ OFFSET \in Nat \ {0}
  BY ArenaAssumption
<1>2. PICK base \in Bases, len \in MapSizes :
         /\ NewMapping(maps, s + OFFSET, base, len)
         /\ \E node \in RestNodes(len, s + OFFSET) :
               free' = Append(list, base, node)
         /\ live' = With(live, base + (len - (s + OFFSET)), s)
         /\ cramped' = IF Room(len, s + OFFSET) THEN {} ELSE {base}
  BY DEF Grow
<1>n. PICK node \in RestNodes(len, s + OFFSET) :
         free' = Append(list, base, node)
  BY <1>2
<1>3. base \in Nat /\ base # NULL /\ len \in Nat /\ s + OFFSET <= len
  BY <1>2, ArenaAssumption DEF MapSizes, NewMapping, NULL
<1>4. base \notin DOMAIN list
  <2> SUFFICES ASSUME base \in DOMAIN list PROVE FALSE
    OBVIOUS
  <2>1. Backed(maps, base, list[base].size) /\ list[base].size \in Nat
    BY DEF Layout, AllBacked, Types, ListType
  <2>2. MapType(maps) /\ Unmapped(maps, base, len) /\ len > 0
    BY <1>1, <1>2, <1>3 DEF Types, NewMapping
  <2> QED BY <1>1, <1>3, <2>1, <2>2, FreshMapping
<1>5. base \notin DOMAIN live
  <2> SUFFICES ASSUME base \in DOMAIN live PROVE FALSE
    OBVIOUS
  <2>1. Backed(maps, base, live[base]) /\ live[base] \in Nat
    BY DEF Layout, AllBacked, Types, BlockType
  <2>2. MapType(maps) /\ Unmapped(maps, base, len) /\ len > 0
    BY <1>1, <1>2, <1>3 DEF Types, NewMapping
  <2> QED BY <1>1, <1>3, <2>1, <2>2, FreshMapping
<1>6. ASSUME cramped' \subseteq DOMAIN live' PROVE node.next = NULL
  <2>1. CASE Room(len, s + OFFSET)
    BY <2>1 DEF RestNodes, Node
  <2>2. CASE ~ Room(len, s + OFFSET)
    <3>1. base \in DOMAIN live'
      BY <1>2, <1>6, <2>2
    <3>2. base = base + (len - (s + OFFSET))
      BY <1>2, <1>5, <3>1 DEF With
    <3>3. len = s + OFFSET
      BY <1>1, <1>3, <3>2
    <3> QED BY <2>2, <3>3 DEF RestNodes, Node
  <2> QED BY <2>1, <2>2
<1> QED BY <1>2, <1>n, <1>3, <1>4, <1>6, AppendLinked DEF Types

LEMMA FitLinked ==
    ASSUME NEW list, NEW head, NEW s, ListType(list), Linked(list, head),
           Fit(list, head, s)
    PROVE  Linked(free', head)
<1>1. PICK a \in DOMAIN list : free' = Carve(list, head, a, s + OFFSET)
  BY DEF Fit
<1> QED BY <1>1, CarveLinked

LEMMA FirstLinked ==
    ASSUME Empty, NEW base \in Bases
    PROVE  Linked(FirstNode(base), base)
<1> DEFINE list == FirstNode(base)
<1>1. DOMAIN list = {base} /\ list[base].next = NULL
  BY DEF FirstNode, With, Node, Empty
<1> HIDE DEF list
<1>2. PICK r : r = [a \in DOMAIN list |-> 0]
  OBVIOUS
<1>3. r \in [DOMAIN list -> Nat] /\ \A a \in DOMAIN list : r[a] = 0
  BY <1>2
<1>4. Ranked(list, base, r)
  BY <1>1, <1>3 DEF Ranked
<1> QED BY <1>3, <1>4 DEF Linked, list

LEMMA MallocLinked ==
    ASSUME ArenaInv, ChainInv, cramped = {}, NEW s \in Sizes, Malloc(s)
    PROVE  ChainInv'
<1>1. CASE mem # NULL
  <2>1. Types(free, live, mapped) /\ Layout(free, live, mapped)
    BY DEF ArenaInv, TypeOK, NoOverlap, Types
  <2>2. mem' = mem /\ (Fit(free, mem, s) \/ Grow(free, mapped, s))
    BY <1>1 DEF Malloc
  <2>3. cramped' \subseteq DOMAIN live' => Linked(free', mem)
    BY <1>1, <2>1, <2>2, FitLinked, GrowLinked DEF ChainInv, Types
  <2> QED BY <2>2, <2>3 DEF ChainInv, Linked, Ranked, NextUp
<1>2. CASE mem = NULL
  <2>1. PICK base \in Bases :
           /\ mem' = base
           /\ \/ Fit(FirstNode(base), base, s)
              \/ Grow(FirstNode(base), {[base |-> base, len |-> PAGE]}, s)
    BY <1>2 DEF Malloc
  <2>2. /\ Types(FirstNode(base), live, {[base |-> base, len |-> PAGE]})
        /\ Layout(FirstNode(base), live, {[base |-> base, len |-> PAGE]})
    BY <1>2, FirstLayout DEF ArenaInv
  <2>3. Linked(FirstNode(base), base)
    BY <1>2, FirstLinked DEF ArenaInv
  <2>4. cramped' \subseteq DOMAIN live' => Linked(free', base)
    BY <2>1, <2>2, <2>3, FitLinked, GrowLinked DEF Types
  <2> QED BY <2>1, <2>4 DEF ChainInv, Linked, Ranked, NextUp
<1> QED BY <1>1, <1>2

LEMMA FreeLinked ==
    ASSUME ArenaInv, ChainInv, cramped = {}, NEW h \in DOMAIN live, Free(h)
    PROVE  ChainInv'
<1>1. Types(free, live, mapped) /\ Layout(free, live, mapped)
  BY DEF ArenaInv, TypeOK, NoOverlap, Types
<1>2. mem # NULL /\ mem' = mem /\ Linked(free, mem)
  BY DEF ArenaInv, Empty, Free, ChainInv
<1>3. ASSUME NEW list, ListType(list), Linked(list, mem), Merge(list)
      PROVE  Linked(free', mem)
  BY <1>3, CoalesceLinked DEF Merge
<1>4. h # NULL /\ h \notin DOMAIN free
  <2>1. h \in Nat \ {0} /\ live[h] \in Nat /\ OFFSET \in Nat \ {0}
    BY <1>1, ArenaAssumption DEF Types, BlockType
  <2>2. ASSUME h \in DOMAIN free PROVE FALSE
    <3>1. Apart(h, free[h].size, h, live[h]) /\ free[h].size \in Nat
      BY <1>1, <2>2 DEF Layout, ListBlocksApart, Types, ListType
    <3> QED BY <2>1, <3>1 DEF Apart
  <2> QED BY <2>1, <2>2 DEF NULL
<1>5. ASSUME Merge(Append(free, h, Node(live[h], NULL)))
      PROVE  Linked(free', mem)
  <2>1. ListType(Append(free, h, Node(live[h], NULL)))
    BY <1>1, AppendLayout DEF Types
  <2>2. Linked(Append(free, h, Node(live[h], NULL)), mem)
    BY <1>1, <1>2, <1>4, AppendLinked DEF Node, Types
  <2> QED BY <1>3, <1>5, <2>1, <2>2
<1>6. Linked(free', mem)
  <2>1. CASE free' = free
    BY <1>2, <2>1
  <2>2. CASE Merge(free)
    BY <1>1, <1>2, <1>3, <2>2 DEF Types
  <2> QED BY <1>5, <2>1, <2>2 DEF Free
<1> QED BY <1>2, <1>6 DEF ChainInv, Linked, Ranked, NextUp

LEMMA ChainNext == ArenaInv /\ ChainInv /\ [Next]_vars => ChainInv'
<1> SUFFICES ASSUME ArenaInv, ChainInv, [Next]_vars PROVE ChainInv'
  OBVIOUS
<1>1. CASE UNCHANGED vars
  BY <1>1 DEF vars, ChainInv, Linked, Ranked, NextUp
<1> QED BY <1>1, MallocLinked, FreeLinked DEF Next

-----------------------------------------------------------------------------
(* A chain is what a traversal meets: the node with k nodes before it is   *)
(* met after k links, and NULL after all of them.                          *)
LEMMA NatMin ==
    ASSUME NEW S \in SUBSET Nat, S # {}
    PROVE  \E x \in S : \A y \in S : x <= y
<1>1. PICK R : R = OpToRel(<, Nat)
  OBVIOUS
<1>2. PICK x \in S : \A y \in S : ~ (<<y, x>> \in R)
  BY <1>1, NatLessThanWellFounded, WFMin
<1>3. \A y \in S : y < x => <<y, x>> \in R
  BY <1>1 DEF OpToRel
<1>4. \A y \in S : ~ (y < x)
  BY <1>2, <1>3, Zenon
<1> QED BY <1>4

(* Every node but the head is the next of another.                         *)
LEMMA HasPredecessor ==
    ASSUME NEW list, NEW head, NEW r, NEW c \in DOMAIN list, c # head,
           NULL \notin DOMAIN list, Ranked(list, head, r)
    PROVE  \E a \in DOMAIN list : list[a].next = c
<1>1. PICK S : S = {n \in Nat : \E a \in DOMAIN list :
                                   r[a] < r[c] /\ n = r[c] - r[a]}
  OBVIOUS
<1>2. r[head] < r[c] /\ r[head] \in Nat /\ r[c] \in Nat
  BY DEF Ranked
<1>3. r[c] - r[head] \in S
  BY <1>1, <1>2 DEF Ranked
<1>4. PICK n \in S : \A k \in S : n <= k
  BY <1>1, <1>3, NatMin
<1>5. PICK a \in DOMAIN list : r[a] < r[c] /\ n = r[c] - r[a]
  BY <1>1, <1>4
<1>6. \A b \in DOMAIN list : r[b] \in Nat
  BY DEF Ranked
<1>7. NextUp(list, r, a, list[a].next)
  BY <1>5, <1>6 DEF Ranked
<1>8. r[list[a].next] <= r[c] /\ list[a].next \in DOMAIN list
      /\ r[a] < r[list[a].next]
  BY <1>5, <1>7 DEF NextUp
<1>9. ASSUME r[list[a].next] < r[c] PROVE FALSE
  <2>1. r[c] - r[list[a].next] \in S
    BY <1>1, <1>2, <1>6, <1>8, <1>9
  <2> QED BY <1>2, <1>4, <1>5, <1>6, <1>8, <2>1
<1>10. r[list[a].next] = r[c]
  BY <1>2, <1>6, <1>8, <1>9
<1> QED BY <1>8, <1>10 DEF Ranked

Before(list, r, a) == {b \in DOMAIN list : r[b] < r[a]}

(* How many nodes stand before a node.                                     *)
LEMMA Places ==
    ASSUME NEW list, NEW head, NEW r, IsFiniteSet(DOMAIN list),
           NULL \notin DOMAIN list, Ranked(list, head, r)
    PROVE  \E at \in [DOMAIN list -> 0 .. Cardinality(DOMAIN list) - 1] :
              /\ at[head] = 0
              /\ \A a, b \in DOMAIN list : at[a] = at[b] => a = b
              /\ \A a, b \in DOMAIN list :
                    list[a].next = b => at[b] = at[a] + 1
<1> DEFINE D == DOMAIN list
           B(a) == Before(list, r, a)
<1>1. \A a \in D : r[a] \in Nat
  BY DEF Ranked
<1>2. ASSUME NEW a \in D
      PROVE  /\ IsFiniteSet(B(a)) /\ Cardinality(B(a)) \in Nat
             /\ IsFiniteSet(B(a) \cup {a})
             /\ Cardinality(B(a) \cup {a}) = Cardinality(B(a)) + 1
             /\ B(a) \cup {a} \subseteq D
  <2>1. B(a) \subseteq D /\ a \notin B(a)
    BY <1>1 DEF Before
  <2>2. IsFiniteSet(B(a))
    BY <2>1, FS_Subset
  <2> QED BY <2>1, <2>2, FS_CardinalityType, FS_AddElement
<1>3. ASSUME NEW a \in D PROVE Cardinality(B(a)) \in 0 .. Cardinality(D) - 1
  <2>1. Cardinality(B(a) \cup {a}) <= Cardinality(D) /\ Cardinality(D) \in Nat
    BY <1>2, FS_Subset, FS_CardinalityType
  <2>2. /\ Cardinality(B(a) \cup {a}) = Cardinality(B(a)) + 1
        /\ Cardinality(B(a)) \in Nat
    BY <1>2
  <2> HIDE DEF B
  <2> QED BY <2>1, <2>2
<1>4. ASSUME NEW a \in D, NEW b \in D, r[a] < r[b]
      PROVE  Cardinality(B(a)) < Cardinality(B(b))
  <2>1. B(a) \cup {a} \subseteq B(b)
    BY <1>1, <1>4 DEF Before
  <2>2. Cardinality(B(a) \cup {a}) <= Cardinality(B(b))
    BY <1>2, <2>1, FS_Subset
  <2>3. /\ Cardinality(B(a) \cup {a}) = Cardinality(B(a)) + 1
        /\ Cardinality(B(a)) \in Nat /\ Cardinality(B(b)) \in Nat
    BY <1>2
  <2> HIDE DEF B
  <2> QED BY <2>2, <2>3
<1>5. ASSUME NEW a \in D, NEW b \in D, list[a].next = b
      PROVE  Cardinality(B(b)) = Cardinality(B(a)) + 1
  <2>1. NextUp(list, r, a, b)
    BY <1>5 DEF Ranked
  <2>2. B(b) = B(a) \cup {a}
    BY <1>1, <2>1 DEF Before, NextUp, Ranked
  <2> QED BY <1>2, <2>2
<1>6. Cardinality(B(head)) = 0
  <2>1. B(head) = {}
    BY <1>1 DEF Before, Ranked
  <2> QED BY <2>1, FS_EmptySet
<1>7. PICK at : at = [a \in D |-> Cardinality(B(a))]
  OBVIOUS
<1> HIDE DEF B
<1>8. at \in [D -> 0 .. Cardinality(D) - 1]
  BY <1>3, <1>7
<1>9. \A a \in D : at[a] = Cardinality(B(a)) /\ at[a] \in Nat
  BY <1>2, <1>7
<1>10. ASSUME NEW a \in D, NEW b \in D, at[a] = at[b] PROVE a = b
  <2>1. ~ r[a] < r[b] /\ ~ r[b] < r[a]
    BY <1>4, <1>9, <1>10
  <2> QED BY <1>1, <2>1 DEF Ranked
<1>11. head \in D
  BY DEF Ranked
<1> QED BY <1>5, <1>6, <1>8, <1>9, <1>10, <1>11

LEMMA WalkUnfolds ==
    ASSUME NEW list, NEW head, NEW n, n = Cardinality(DOMAIN list), NEW g,
           g = [i \in 0 .. n |->
                   IF i = 0 THEN head
                   ELSE IF g[i - 1] = NULL THEN NULL ELSE list[g[i - 1]].next]
    PROVE  Walk(list, head) =
              [i \in 0 .. n |->
                  IF i = 0 THEN head
                  ELSE IF Walk(list, head)[i - 1] = NULL THEN NULL
                       ELSE list[Walk(list, head)[i - 1]].next]
BY Zenon DEF Walk

Walked(list, head) ==
    LET last == Cardinality(DOMAIN list)
    IN  /\ Walk(list, head)[last] = NULL
        /\ DOMAIN list = {Walk(list, head)[i] : i \in 0 .. last - 1}

LEMMA LinkedIsWalked ==
    ASSUME NEW list, NEW head, ListType(list), Linked(list, head)
    PROVE  Walked(list, head)
<1> DEFINE D == DOMAIN list
<1>1. PICK m \in Nat, r \in [DOMAIN list -> Nat] :
         Ranked(list, head, r) /\ \A a \in DOMAIN list : r[a] <= m
  BY DEF Linked
<1>2. NULL \notin D
  BY DEF ListType, NULL
<1>3. IsFiniteSet(D)
  <2>1. r \in Injection(D, 0 .. m)
    BY <1>1 DEF Ranked, Injection, IsInjective
  <2> QED BY <2>1, FS_Interval, FS_Injection
<1>4. PICK n \in Nat : n = Cardinality(D)
  BY <1>3, FS_CardinalityType
<1>5. PICK at \in [D -> 0 .. n - 1] :
         /\ at[head] = 0
         /\ \A a, b \in D : at[a] = at[b] => a = b
         /\ \A a, b \in D : list[a].next = b => at[b] = at[a] + 1
  BY <1>1, <1>2, <1>3, <1>4, Places
<1>6. head \in D /\ \A a \in D : list[a].next \in D \cup {NULL}
  BY <1>1 DEF Ranked, NextUp
<1>7. \A c \in D \ {head} : \E a \in D : list[a].next = c
  BY <1>1, <1>2, HasPredecessor
<1> DEFINE Met(i) == IF \E a \in D : at[a] = i
                     THEN CHOOSE a \in D : at[a] = i ELSE NULL
<1>8. PICK g : g = [i \in 0 .. n |-> Met(i)]
  OBVIOUS
<1>9. /\ \A a \in D : g[at[a]] = a
      /\ \A i \in 0 .. n : g[i] # NULL => g[i] \in D /\ at[g[i]] = i
      /\ \A i \in 0 .. n : (\A a \in D : at[a] # i) => g[i] = NULL
  <2>1. \A a \in D : at[a] \in 0 .. n
    BY <1>4, <1>5
  <2> QED BY <1>5, <1>8, <2>1
<1>10. n \in Nat \ {0} /\ g[0] = head /\ g[n] = NULL
  <2>1. at[head] \in 0 .. n - 1
    BY <1>5, <1>6
  <2>2. n \in Nat \ {0}
    BY <2>1
  <2>3. \A a \in D : at[a] # n
    BY <1>5
  <2> QED BY <1>5, <1>6, <1>9, <2>2, <2>3
<1>11. ASSUME NEW i \in 0 .. n, i # 0
       PROVE  g[i] = IF g[i - 1] = NULL THEN NULL ELSE list[g[i - 1]].next
  <2>1. i - 1 \in 0 .. n
    BY <1>11
  <2>2. ASSUME g[i] # NULL
        PROVE  g[i - 1] # NULL /\ list[g[i - 1]].next = g[i]
    <3>1. g[i] \in D /\ at[g[i]] = i /\ g[i] # head
      BY <1>5, <1>9, <1>11, <2>2
    <3>2. PICK a \in D : list[a].next = g[i]
      BY <1>7, <3>1
    <3>3. at[a] = i - 1
      BY <1>5, <3>1, <3>2
    <3> QED BY <1>2, <1>9, <3>2, <3>3
  <2>3. ASSUME g[i - 1] # NULL, list[g[i - 1]].next # NULL
        PROVE  g[i] # NULL
    <3>1. g[i - 1] \in D /\ at[g[i - 1]] = i - 1
      BY <1>9, <2>1, <2>3
    <3>2. list[g[i - 1]].next \in D /\ at[list[g[i - 1]].next] = i
      BY <1>5, <1>6, <2>3, <3>1
    <3> QED BY <1>2, <1>9, <3>2
  <2> QED BY <2>2, <2>3
<1>12. g = [i \in 0 .. n |->
              IF i = 0 THEN head
              ELSE IF g[i - 1] = NULL THEN NULL ELSE list[g[i - 1]].next]
  <2>1. DOMAIN g = 0 .. n /\ g = [i \in 0 .. n |-> g[i]]
    BY <1>8
  <2> QED BY <1>10, <1>11, <2>1
<1>13. PICK w : w = Walk(list, head)
  OBVIOUS
<1>14. w = [i \in 0 .. n |->
              IF i = 0 THEN head
              ELSE IF w[i - 1] = NULL THEN NULL ELSE list[w[i - 1]].next]
  <2>1. Walk(list, head) =
           [i \in 0 .. n |->
              IF i = 0 THEN head
              ELSE IF Walk(list, head)[i - 1] = NULL THEN NULL
                   ELSE list[Walk(list, head)[i - 1]].next]
    BY <1>4, <1>12, WalkUnfolds
  <2> QED BY <1>13, <2>1, Zenon
<1>15. \A i \in 0 .. n : w[i] = g[i]
  <2>1. PICK S : S = {i \in 0 .. n : w[i] # g[i]}
    OBVIOUS
  <2>2. ASSUME S # {} PROVE FALSE
    <3>1. PICK x \in S : \A y \in S : x <= y
      BY <2>1, <2>2, NatMin
    <3>2. x \in 0 .. n /\ x # 0
      BY <1>10, <1>14, <2>1
    <3>3. x - 1 \in 0 .. n /\ w[x - 1] = g[x - 1]
      BY <2>1, <3>1, <3>2
    <3>4. w[x] = g[x]
      BY <1>11, <1>14, <3>2, <3>3
    <3> QED BY <2>1, <3>4
  <2> QED BY <2>1, <2>2
<1>16. w[n] = NULL
  BY <1>10, <1>15
<1>17. D = {w[i] : i \in 0 .. n - 1}
  <2>1. ASSUME NEW a \in D PROVE \E i \in 0 .. n - 1 : w[i] = a
    BY <1>5, <1>9, <1>15
  <2>2. at \in Surjection(D, 0 .. n - 1)
    <3>1. at \in Injection(D, 0 .. n - 1)
      BY <1>5 DEF Injection, IsInjective
    <3>2. IsFiniteSet(0 .. n - 1) /\ Cardinality(0 .. n - 1) = n
      BY <1>10, FS_Interval
    <3> QED BY <1>4, <3>1, <3>2, FS_Injection
  <2>3. ASSUME NEW i \in 0 .. n - 1 PROVE w[i] \in D
    <3>1. PICK a \in D : at[a] = i
      BY <2>2 DEF Surjection
    <3> QED BY <1>5, <1>9, <1>15, <3>1
  <2> QED BY <2>1, <2>3
<1> QED BY <1>4, <1>13, <1>16, <1>17 DEF Walked

(* The free list is one chain from its head through every node, of         *)
(* whatever length: no node is lost or met twice.                          *)
THEOREM ArenaWellLinked == Spec => []WellLinked
<1>1. Init => ChainInv
  BY DEF Init, ChainInv
<1>2. ArenaInv /\ [Next]_vars => ArenaInv'
  BY ArenaInvNext
<1>3. ArenaInv /\ ChainInv /\ [Next]_vars => ChainInv'
  BY ChainNext
<1>4. ArenaInv /\ ChainInv => WellLinked
  <2> SUFFICES ASSUME ListType(free), Linked(free, mem) PROVE WellLinked
    BY Zenon DEF ArenaInv, TypeOK, ChainInv, WellLinked
  <2>1. Walked(free, mem)
    BY LinkedIsWalked
  <2> QED BY <2>1, Zenon DEF Walked, WellLinked
<1> QED BY <1>1, <1>2, <1>3, <1>4, ArenaInvInit, PTL DEF Spec
=============================================================================
