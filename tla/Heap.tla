-------------------------------- MODULE Heap --------------------------------
(***************************************************************************)
(* The allocator's list operations (src/system/alloc.c): a free list in    *)
(* address order from which alloc() takes the first block that fits, from  *)
(* its low end, and alloc_stack() the last, from its high end, and into    *)
(* which free() merges.  Addresses and sizes are in bytes, a block's       *)
(* header included; every caller is masked, so each is one step.           *)
(***************************************************************************)
EXTENDS Integers, SequencesExt

CONSTANTS
    HeapStart, HeapEnd,   \* as initmem() rounds them
    MinAlloc,             \* MIN_ALLOC
    Granule,              \* the 8 of ceil_memblk
    Header                \* ALLOC_MEMBLK_SIZE

ASSUME HeapAssumption ==
    /\ Granule \in Nat \ {0} /\ Header \in 1 .. Granule
    /\ \A n \in {HeapStart, HeapEnd, MinAlloc} : n \in Nat \ {0} /\ n % Granule = 0
    /\ HeapStart + MinAlloc <= HeapEnd

Block == [addr : HeapStart .. HeapEnd, size : 1 .. HeapEnd]
NoBlock == [addr |-> 0, size |-> 0]

\* The block size a request needs.
BlockSize(n) ==
    LET up == ((n + Header + Granule - 1) \div Granule) * Granule
    IN  IF up < MinAlloc THEN MinAlloc ELSE up

EndOf(b) == b.addr + b.size

Fits(free, n) == {i \in DOMAIN free : free[i].size >= n}

\* Wrong: the rest of a block stays on the list even when nothing is left.
first_fit_Split(free, n) ==
    IF Fits(free, n) = {} THEN [block |-> NoBlock, free |-> free]
    ELSE LET i == Min(Fits(free, n))
             b == free[i]
         IN  [block |-> [addr |-> b.addr, size |-> n],
              free |-> ReplaceAt(free, i, [addr |-> b.addr + n, size |-> b.size - n])]

\* The block taken and the list left; a block goes whole when the rest would
\* be too small to stand alone.
first_fit(free, n) ==
    IF Fits(free, n) = {} THEN [block |-> NoBlock, free |-> free]
    ELSE LET i == Min(Fits(free, n))
             b == free[i]
         IN  IF b.size < n + MinAlloc
             THEN [block |-> b, free |-> RemoveAt(free, i)]
             ELSE [block |-> [addr |-> b.addr, size |-> n],
                   free |-> ReplaceAt(free, i, [addr |-> b.addr + n, size |-> b.size - n])]

last_fit(free, n) ==
    IF Fits(free, n) = {} THEN [block |-> NoBlock, free |-> free]
    ELSE LET i == Max(Fits(free, n))
             b == free[i]
         IN  IF b.size < n + MinAlloc
             THEN [block |-> b, free |-> RemoveAt(free, i)]
             ELSE [block |-> [addr |-> EndOf(b) - n, size |-> n],
                   free |-> ReplaceAt(free, i, [b EXCEPT !.size = @ - n])]

Merged(a, b) == [addr |-> a.addr, size |-> a.size + b.size]

\* Where the walk of insert_free stops: the first block behind blk, if any.
Successor(free, blk) ==
    Min({i \in DOMAIN free : free[i].addr >= blk.addr} \cup {Len(free) + 1})

\* Wrong: a freed block is merged with its successor only.
insert_free_Forward(free, blk) ==
    LET at    == Successor(free, blk)
        below == SubSeq(free, 1, at - 1)
        above == SubSeq(free, at, Len(free))
    IN  IF above # <<>> /\ EndOf(blk) = Head(above).addr
        THEN below \o <<Merged(blk, Head(above))>> \o Tail(above)
        ELSE below \o <<blk>> \o above

insert_free(free, blk) ==
    LET at    == Successor(free, blk)
        below == SubSeq(free, 1, at - 1)
        above == SubSeq(free, at, Len(free))
        joins == above # <<>> /\ EndOf(blk) = Head(above).addr
        right == IF joins THEN Merged(blk, Head(above)) ELSE blk
        rest  == IF joins THEN Tail(above) ELSE above
    IN  IF below # <<>> /\ EndOf(Last(below)) = blk.addr
        THEN Front(below) \o <<Merged(Last(below), right)>> \o rest
        ELSE below \o <<right>> \o rest

initmem == <<[addr |-> HeapStart, size |-> HeapEnd - HeapStart]>>
=============================================================================
