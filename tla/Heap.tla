-------------------------------- MODULE Heap --------------------------------
(***************************************************************************)
(* What a client of ALLOC, REALLOC and FREE (includes/mem.h:13-16) relies  *)
(* on, with nothing said of free lists or of system memory: a block that   *)
(* is handed out shares no byte with a block still in use, and only the    *)
(* block a client frees stops being in use.  Blocks are named by the       *)
(* address of their header; a block's bytes are its header and payload.    *)
(***************************************************************************)
EXTENDS Integers

CONSTANTS Sizes,    \* the payload sizes clients ask for
          OFFSET    \* bytes of the header in front of every payload

VARIABLE blocks     \* header address of a live block |-> its payload size

Apart(a, m, b, n) == a + OFFSET + m <= b \/ b + OFFSET + n <= a

Init == DOMAIN blocks = {}

Alloc ==
    \E h \in DOMAIN blocks' \ DOMAIN blocks :
        /\ DOMAIN blocks' = DOMAIN blocks \cup {h}
        /\ blocks'[h] \in Sizes
        /\ \A g \in DOMAIN blocks :
              /\ blocks'[g] = blocks[g]
              /\ Apart(g, blocks[g], h, blocks'[h])

Release ==
    \E h \in DOMAIN blocks :
        /\ DOMAIN blocks' = DOMAIN blocks \ {h}
        /\ \A g \in DOMAIN blocks \ {h} : blocks'[g] = blocks[g]

Next == Alloc \/ Release

Spec == Init /\ [][Next]_blocks
=============================================================================
