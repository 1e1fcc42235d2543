-------------------------------- MODULE Arena --------------------------------
(***************************************************************************)
(* The arena allocator of mem.c behind ALLOC and FREE: a singly linked     *)
(* list of free extents carved from anonymous mappings.  A header of       *)
(* OFFSET bytes precedes every extent, free or handed out, and holds its   *)
(* size (union _free, includes/mem.h:28-36).                               *)
(*                                                                         *)
(* _realloc_ (mem.c:157-180) is ALLOC of the new size followed by FREE of  *)
(* the old block with no other call between them, so each of its runs is a *)
(* Malloc step followed by a Free step; what its callers copy is modelled  *)
(* where they are (ValueStack).  mmap is taken to succeed and to return an *)
(* unused range.                                                           *)
(***************************************************************************)
EXTENDS Integers, FiniteSets

CONSTANTS PAGE,       \* ARM64_PAGE, the smallest mapping
          OFFSET,     \* sizeof(_free)
          Sizes,      \* payload sizes that clients request
          Bases,      \* addresses at which the kernel may place a mapping
          MAX_LEN,    \* bound: length of the largest mapping
          MAX_MAPS    \* bound: number of mappings

INC  == 2
NULL == 0

ASSUME ArenaAssumption ==
    /\ PAGE \in Nat /\ OFFSET \in Nat \ {0} /\ OFFSET < PAGE
    /\ Sizes \subseteq Nat
    /\ Bases \subseteq Nat \ {0}
    /\ MAX_LEN \in Nat /\ MAX_MAPS \in Nat

VARIABLES mem,     \* head of the free list, NULL before the first request
          free,    \* address of a list node |-> its size and successor
          live,    \* header address of a block in use |-> its payload size
          mapped,  \* the mappings obtained from the kernel
          cramped  \* history: the mapping made without room for its header

vars == <<mem, free, live, mapped, cramped>>

(* The lengths that "size > tmp; tmp *= INC" can end on (mem.c:140-142).   *)
MapSizes == {t \in PAGE .. MAX_LEN :
                \E k \in 0 .. t \div PAGE : t = PAGE * 2^k}

-----------------------------------------------------------------------------
(* The free list *)

Node(size, next) == [size |-> size, next |-> next]

With(f, x, v)  == [y \in DOMAIN f \cup {x} |-> IF y = x THEN v ELSE f[y]]
Without(f, x)  == [y \in DOMAIN f \ {x} |-> f[y]]

(* Walk(list, head)[i] is the node a traversal meets after i links.        *)
Walk(list, head) ==
    LET at[i \in 0 .. Cardinality(DOMAIN list)] ==
            IF i = 0 THEN head
            ELSE IF at[i - 1] = NULL THEN NULL ELSE list[at[i - 1]].next
    IN  at

(* The search of mem.c:123-124: the first node with room for n bytes.      *)
FirstFit(list, head, a, n) ==
    /\ list[a].size >= n
    /\ \E i \in 0 .. Cardinality(DOMAIN list) - 1 :
          /\ Walk(list, head)[i] = a
          /\ \A j \in 0 .. i - 1 : list[Walk(list, head)[j]].size < n

(* Faulty: the nodes behind a are cut off.                                 *)
UnlinkCuts(list, a) ==
    [b \in DOMAIN list \ {a} |->
        IF list[b].next = a THEN [list[b] EXCEPT !.next = NULL] ELSE list[b]]

Unlink(list, a) ==
    [b \in DOMAIN list \ {a} |->
        IF list[b].next = a THEN [list[b] EXCEPT !.next = list[a].next]
                            ELSE list[b]]

(* Linking node b behind the last node of the list.                        *)
Append(list, b, node) ==
    [a \in DOMAIN list \cup {b} |->
        IF a = b THEN node
        ELSE IF list[a].next = NULL THEN [list[a] EXCEPT !.next = b]
        ELSE list[a]]

(* merge_list: one pass; a node that is met absorbs its successor when the *)
(* two are adjacent, without counting the successor's header, and is not   *)
(* looked at again.  gone is the set of nodes absorbed.                    *)
Touches(list, a, b) == list[a].next = b /\ a + OFFSET + list[a].size = b

Absorbs(list, gone, a, b) == a \notin gone /\ Touches(list, a, b)

AbsorbedBy(list, gone) ==
    \A b \in DOMAIN list :
        b \in gone <=> \E a \in DOMAIN list : Absorbs(list, gone, a, b)

(* Faulty: the absorbed size is not added.                                 *)
CoalesceDrops(list, gone) ==
    [a \in DOMAIN list \ gone |->
        IF \E b \in gone : Touches(list, a, b)
        THEN Node(list[a].size, list[list[a].next].next) ELSE list[a]]

Coalesce(list, gone) ==
    [a \in DOMAIN list \ gone |->
        IF \E b \in gone : Touches(list, a, b)
        THEN Node(list[a].size + list[list[a].next].size,
                  list[list[a].next].next)
        ELSE list[a]]

Merge(list) ==
    \E gone \in SUBSET DOMAIN list :
        AbsorbedBy(list, gone) /\ free' = Coalesce(list, gone)

-----------------------------------------------------------------------------
(* _malloc_ *)

Unmapped(maps, base, len) ==
    \A m \in maps : base + len <= m.base \/ m.base + m.len <= base

(* mem.c:126-136: n bytes come off the end of the node.  A node left empty *)
(* is unlinked unless it is the head (mem.c:133 assigns next->next to      *)
(* itself).                                                                *)
(* Faulty: the header of the block is not taken off the extent.            *)
CarveKeeps(list, head, a, n) ==
    [list EXCEPT ![a] = Node(@.size - (n - OFFSET), @.next)]

Carve(list, head, a, n) ==
    IF list[a].size = n /\ a # head
    THEN Unlink(list, a)
    ELSE [list EXCEPT ![a] = Node(@.size - n, @.next)]

Fit(list, head, s) ==
    LET n == s + OFFSET IN
    \E a \in DOMAIN list :
        /\ FirstFit(list, head, a, n)
        /\ free' = Carve(list, head, a, n)
        /\ live' = With(live, a + OFFSET + (list[a].size - n), s)
        /\ UNCHANGED cramped

(* mem.c:138-147: a new mapping, its rest linked behind the last node, the *)
(* block at its end.  mem.c:140 doubles tmp while size > tmp, as if the    *)
(* header of the rest were free: with no room left for that header, its    *)
(* unsigned size wraps and the block's header is written over it           *)
(* (init_alloced_ptr runs after init_free_ptr), whole or in part: then the *)
(* node is whatever the bytes of both make.  cramped records such a        *)
(* mapping; what follows from a list node that is also a block in use is   *)
(* not followed (Next).                                                    *)
Room(len, n) == len - n >= OFFSET

RestNodes(len, n) ==
    IF Room(len, n) THEN {Node(len - n - OFFSET, NULL)}
    ELSE IF len = n THEN {Node(n - OFFSET, NULL)}
    ELSE [size : Nat, next : Nat]

NewMapping(maps, n, base, len) ==
    /\ Cardinality(maps) < MAX_MAPS
    /\ Unmapped(maps, base, len)
    /\ n <= len /\ (len = PAGE \/ n > len \div INC)

Grow(list, maps, s) ==
    LET n == s + OFFSET IN
    /\ \A a \in DOMAIN list : list[a].size < n
    /\ \E base \in Bases, len \in MapSizes :
          /\ NewMapping(maps, n, base, len)
          /\ \E node \in RestNodes(len, n) :
                free' = Append(list, base, node)
          /\ live' = With(live, base + (len - n), s)
          /\ mapped' = maps \cup {[base |-> base, len |-> len]}
          /\ cramped' = IF Room(len, n) THEN {} ELSE {base}

(* alloc_free_list: the first mapping, made by the first request.          *)
FirstNode(base) == With(free, base, Node(PAGE - OFFSET, NULL))

Malloc(s) ==
    \/ /\ mem # NULL
       /\ mem' = mem
       /\ \/ Fit(free, mem, s) /\ mapped' = mapped
          \/ Grow(free, mapped, s)
    \/ /\ mem = NULL
       /\ \E base \in Bases :
             LET first == {[base |-> base, len |-> PAGE]} IN
             /\ mem' = base
             /\ \/ Fit(FirstNode(base), base, s) /\ mapped' = first
                \/ Grow(FirstNode(base), first, s)

-----------------------------------------------------------------------------
(* _free_: the block goes behind the last node when every node of the list *)
(* lies below it; otherwise nothing is linked, and the bytes are in no     *)
(* list and in no block any more (mem.c:70-82).                            *)
Free(h) ==
    /\ live' = Without(live, h)
    /\ IF live[h] = 0 THEN free' = free
       ELSE IF \A a \in DOMAIN free : a < h
            THEN Merge(Append(free, h, Node(live[h], NULL)))
            ELSE Merge(free)
    /\ UNCHANGED <<mem, mapped, cramped>>

-----------------------------------------------------------------------------
Init ==
    /\ mem = NULL
    /\ free = [a \in {} |-> Node(0, NULL)]
    /\ live = [a \in {} |-> 0]
    /\ mapped = {}
    /\ cramped = {}

Next ==
    /\ cramped = {}
    /\ \/ \E s \in Sizes : Malloc(s)
       \/ \E h \in DOMAIN live : Free(h)

Spec == Init /\ [][Next]_vars

-----------------------------------------------------------------------------
(* Type correctness of the list, the blocks and the mappings.              *)
ListType(list) ==
    /\ DOMAIN list \subseteq Nat \ {0}
    /\ list \in [DOMAIN list -> [size : Nat, next : Nat]]
BlockType(blocks) ==
    /\ DOMAIN blocks \subseteq Nat \ {0}
    /\ blocks \in [DOMAIN blocks -> Nat]
MapType(maps) == maps \subseteq [base : Nat, len : Nat]

TypeOK ==
    /\ mem \in Nat
    /\ ListType(free)
    /\ BlockType(live)
    /\ MapType(mapped)
    /\ cramped \in SUBSET Nat

(* Two extents, headers included, share no byte.                           *)
Apart(a, m, b, n) == a + OFFSET + m <= b \/ b + OFFSET + n <= a

(* Every byte of an extent lies in a mapping; two mappings may be adjacent *)
(* and an extent then span both.                                           *)
Backed(maps, a, size) ==
    \A x \in a .. a + OFFSET + size - 1 :
        \E m \in maps : m.base <= x /\ x < m.base + m.len

ListApart(list) ==
    \A a, b \in DOMAIN list :
        a # b => Apart(a, list[a].size, b, list[b].size)
BlocksApart(blocks) ==
    \A g, h \in DOMAIN blocks : g # h => Apart(g, blocks[g], h, blocks[h])
ListBlocksApart(list, blocks) ==
    \A a \in DOMAIN list, h \in DOMAIN blocks :
        Apart(a, list[a].size, h, blocks[h])
AllBacked(list, blocks, maps) ==
    /\ \A a \in DOMAIN list : Backed(maps, a, list[a].size)
    /\ \A h \in DOMAIN blocks : Backed(maps, h, blocks[h])

Layout(list, blocks, maps) ==
    /\ ListApart(list)
    /\ BlocksApart(blocks)
    /\ ListBlocksApart(list, blocks)
    /\ AllBacked(list, blocks, maps)

(* What a mapping without room for its header does: its list node lies     *)
(* under the header of the block it was made for, and every other extent   *)
(* is still apart.                                                         *)
Shared(base, list, blocks, maps) ==
    /\ base \in DOMAIN list
    /\ \E h \in DOMAIN blocks : base <= h /\ h < base + OFFSET
    /\ Layout(Without(list, base), blocks, maps)

(* The arena never hands out or keeps a byte twice, and never one it did   *)
(* not map: what carving, growing, linking and merging in mem.c have to    *)
(* preserve between them.  One request breaks it, in one way: a size that  *)
(* fills a new mapping up to less than a header (mem.c:140), which leaves  *)
(* one node under the new block and everything else in order.              *)
NoOverlap ==
    /\ cramped = {} => Layout(free, live, mapped)
    /\ \A base \in cramped : Shared(base, free, live, mapped)

(* The next links form one chain from mem through every node: Unlink,      *)
(* Append and merge_list lose no node and close no cycle (mem.c:38-149).   *)
(* After a mapping without room for its header too, if the block's header  *)
(* lies exactly where that was.                                            *)
WellLinked ==
    LET last == Cardinality(DOMAIN free)
    IN  mem # NULL /\ cramped \subseteq DOMAIN live =>
          /\ Walk(free, mem)[last] = NULL
          /\ DOMAIN free = {Walk(free, mem)[i] : i \in 0 .. last - 1}

(* Freeing a block that lies above every free extent makes its payload's   *)
(* worth of bytes free again, alone or merged into its predecessor         *)
(* (mem.c:73-84, 46-51).                                                   *)
Reusable ==
    \A h \in DOMAIN live \ DOMAIN live' :
        (\A a \in DOMAIN free : a < h) /\ live[h] > 0 =>
            \E a \in DOMAIN free' :
                a <= h /\ a + OFFSET + free'[a].size >= h + live[h]

FreedIsReusable == [][Reusable]_vars

(* The arena implements the heap its clients rely on, up to and including  *)
(* the first request whose mapping has no room for its header: the node    *)
(* left under that block is what a later request would be served from.     *)
H == INSTANCE Heap WITH blocks <- live
HeapSpec == H!Spec
=============================================================================
