------------------------------ MODULE RpPalloc ------------------------------
(***************************************************************************)
(* The pool allocator of src/util/rp_palloc.c, from which everything in     *)
(* rpbot is allocated: a chain of equal blocks that hand out small regions  *)
(* and never take one back, and a list of large chunks from malloc.         *)
(*                                                                         *)
(* A pointer into a block is its offset there.  The header sizes and the    *)
(* alignment are those of the 64-bit build.  malloc, free and               *)
(* posix_memalign are external: an address comes from Chunk and is not      *)
(* handed out again before it was freed, and any call may fail.             *)
(***************************************************************************)
EXTENDS Integers, Sequences

Align == 8          \* RP_ALIGNMENT, sizeof(unsigned long)
PoolHeader == 56    \* sizeof(rp_pool_t), at the start of the first block
BlockHeader == 32   \* sizeof(rp_pool_data_t), at the start of the others
ListEntry == 16     \* sizeof(rp_pool_large_t)

CONSTANTS
  BlockSize,     \* what rp_create_pool was asked for
  PageSize,      \* rp_pagesize
  GiveUpAfter,   \* the 4 of rp_palloc_block
  ScanLimit,     \* the 3 of rp_palloc_large
  MaxBlocks,     \* blocks there is memory for
  Chunk,         \* addresses malloc can return
  Null,          \* NULL
  Sizes          \* what callers ask for

\* pool->max: a request above it goes to malloc.
MaxSmall ==
  IF BlockSize - PoolHeader < PageSize - 1 THEN BlockSize - PoolHeader ELSE PageSize - 1

(***************************************************************************)
(* The size is at least RP_MIN_POOL_SIZE and a multiple of the alignment,   *)
(* or the room left in a block could be negative; and an entry of the large *)
(* list is a small request, or rp_palloc_large would call itself.           *)
(***************************************************************************)
ASSUME PoolAssumption ==
  /\ BlockSize \in Nat
  /\ BlockSize % Align = 0
  /\ BlockSize >= PoolHeader + 2 * ListEntry
  /\ PageSize \in Nat
  /\ PageSize > ListEntry
  /\ GiveUpAfter \in Nat
  /\ ScanLimit \in Nat
  /\ MaxBlocks \in Nat \ {0}
  /\ Null \notin Chunk
  /\ Sizes \subseteq Nat

VARIABLES
  blocks,    \* the chain from pool on: d.last and d.failed of each block
  current,   \* position of pool->current in the chain
  large,     \* the alloc fields of the large list, newest entry first
  heap,      \* chunks malloc has handed out and not got back
  used       \* every region handed out since the pool was created or reset

chain == <<blocks, current>>
vars == <<blocks, current, large, heap, used>>

Block == [last : 0 .. BlockSize, failed : Nat]
Region == [block : Nat, lo : Nat, hi : Nat]

NoPool == blocks = <<>>

-----------------------------------------------------------------------------

\* rp_align_ptr.
AlignUp(p) == p + ((Align - (p % Align)) % Align)

\* Where a region in block b would start: rp_palloc aligns it, rp_pnalloc not.
Start(b, aligned) == IF aligned THEN AlignUp(blocks[b].last) ELSE blocks[b].last

\* Mutant: the header of the block is not subtracted.
FitsLoosely(b, size, aligned) == BlockSize >= size

\* (size_t)(p->d.end - m) >= size; a negative difference is a huge size_t.
Fits(b, size, aligned) ==
  \/ Start(b, aligned) > BlockSize
  \/ BlockSize - Start(b, aligned) >= size

Fitting(size, aligned) == {b \in current .. Len(blocks) : Fits(b, size, aligned)}

HandOut(b, lo, hi) == used' = Append(used, [block |-> b, lo |-> lo, hi |-> hi])

\* The first block from current on that has room.
UseBlock(size, aligned) ==
  \E b \in Fitting(size, aligned) :
    LET m == Start(b, aligned) IN
    /\ \A other \in Fitting(size, aligned) : b <= other
    /\ blocks' = [blocks EXCEPT ![b].last = m + size]
    /\ HandOut(b, m, m + size)
    /\ UNCHANGED current

\* Mutant: pool->current is always the new block.
SkipAll == current' = Len(blocks) + 1

\* current moves behind the last block that had refused too often already.
SkipTired ==
  \E c \in current .. Len(blocks) :
    /\ c > current => blocks[c - 1].failed > GiveUpAfter
    /\ \A b \in c .. Len(blocks) - 1 : blocks[b].failed <= GiveUpAfter
    /\ current' = c

\* Mutant: the new block does not count what it was created for.
NewBlockUnused(size) ==
  /\ Len(blocks) < MaxBlocks
  /\ blocks' = Append([b \in DOMAIN blocks |->
                         IF b \in current .. Len(blocks) - 1
                           THEN [blocks[b] EXCEPT !.failed = @ + 1] ELSE blocks[b]],
                      [last |-> BlockHeader, failed |-> 0])
  /\ SkipTired
  /\ HandOut(Len(blocks) + 1, BlockHeader, BlockHeader + size)

\* rp_palloc_block: every block from current to the last but one has refused.
NewBlock(size) ==
  /\ Len(blocks) < MaxBlocks
  /\ blocks' = Append([b \in DOMAIN blocks |->
                         IF b \in current .. Len(blocks) - 1
                           THEN [blocks[b] EXCEPT !.failed = @ + 1] ELSE blocks[b]],
                      [last |-> BlockHeader + size, failed |-> 0])
  /\ SkipTired
  /\ HandOut(Len(blocks) + 1, BlockHeader, BlockHeader + size)

\* rp_palloc and rp_pnalloc of at most MaxSmall bytes.
SmallAlloc(size, aligned) ==
  IF Fitting(size, aligned) = {} THEN NewBlock(size) ELSE UseBlock(size, aligned)

-----------------------------------------------------------------------------

Init ==
  /\ blocks = <<>>
  /\ current = 1
  /\ large = <<>>
  /\ heap = {}
  /\ used = <<>>

CreatePool ==
  /\ NoPool
  /\ blocks' = <<[last |-> PoolHeader, failed |-> 0]>>
  /\ current' = 1
  /\ UNCHANGED <<large, heap, used>>

\* rp_palloc (also for rp_pcalloc) and rp_pnalloc.
Palloc(size, aligned) ==
  /\ ~NoPool
  /\ size <= MaxSmall
  /\ SmallAlloc(size, aligned)
  /\ UNCHANGED <<large, heap>>

\* A new entry at the head of the large list.
Link(c) ==
  /\ SmallAlloc(ListEntry, TRUE)
  /\ large' = <<c>> \o large
  /\ heap' = heap \cup {c}

\* Mutant: the chunk is not given back.
LinkFailsKeepingChunk(c) ==
  /\ Fitting(ListEntry, TRUE) = {}
  /\ heap' = heap \cup {c}
  /\ UNCHANGED <<chain, large, used>>

\* There is no memory for the entry: the chunk c is freed again.
LinkFails(c) ==
  /\ Fitting(ListEntry, TRUE) = {}
  /\ UNCHANGED vars

\* Entries of the large list rp_palloc_large looks at, and those that are free.
Examined == {i \in DOMAIN large : i <= ScanLimit + 2}
Vacant == {i \in Examined : large[i] = Null}

\* rp_palloc_large.
PallocLarge(c) ==
  /\ ~NoPool
  /\ c \in Chunk \ heap
  /\ \/ /\ \E i \in Vacant :
             /\ \A other \in Vacant : i <= other
             /\ large' = [large EXCEPT ![i] = c]
        /\ heap' = heap \cup {c}
        /\ UNCHANGED <<chain, used>>
     \/ /\ Vacant = {}
        /\ Link(c) \/ LinkFails(c)

Pmemalign(c) ==
  /\ ~NoPool
  /\ c \in Chunk \ heap
  /\ Link(c) \/ LinkFails(c)

Pfree(c) ==
  /\ \E i \in DOMAIN large :
       /\ large[i] = c
       /\ \A other \in 1 .. i - 1 : large[other] # c
       /\ large' = [large EXCEPT ![i] = Null]
  /\ heap' = heap \ {c}
  /\ UNCHANGED <<chain, used>>

FreeLarge ==
  /\ heap' = heap \ {large[i] : i \in DOMAIN large}
  /\ large' = <<>>

ResetPool ==
  /\ ~NoPool
  /\ FreeLarge
  /\ blocks' = [b \in DOMAIN blocks |-> [last |-> PoolHeader, failed |-> 0]]
  /\ current' = 1
  /\ used' = <<>>

DestroyPool ==
  /\ ~NoPool
  /\ FreeLarge
  /\ blocks' = <<>>
  /\ current' = 1
  /\ used' = <<>>

Next ==
  \/ CreatePool
  \/ \E size \in Sizes, aligned \in BOOLEAN : Palloc(size, aligned)
  \/ \E c \in Chunk : PallocLarge(c) \/ Pmemalign(c) \/ Pfree(c)
  \/ ResetPool
  \/ DestroyPool

Spec == Init /\ [][Next]_vars

-----------------------------------------------------------------------------

TypeOK ==
  /\ blocks \in Seq(Block)
  /\ current \in 1 .. Len(blocks) \/ (NoPool /\ current = 1)
  /\ large \in Seq(Chunk \cup {Null})
  /\ heap \subseteq Chunk
  /\ used \in Seq(Region)

Header(b) == IF b = 1 THEN PoolHeader ELSE BlockHeader

(***************************************************************************)
(* Whatever the pool hands out, list entries of its own included, is inside *)
(* a block, behind the block's header and below d.last, and no two regions  *)
(* overlap, whichever of aligned, unaligned and large requests alternate.   *)
(***************************************************************************)
RegionsDisjoint ==
  /\ \A b \in DOMAIN blocks : Header(b) <= blocks[b].last
  /\ \A i \in DOMAIN used :
       /\ used[i].block \in DOMAIN blocks
       /\ Header(used[i].block) <= used[i].lo
       /\ used[i].lo <= used[i].hi
       /\ used[i].hi <= blocks[used[i].block].last
  /\ \A i, j \in DOMAIN used :
       i # j /\ used[i].block = used[j].block =>
         used[i].hi <= used[j].lo \/ used[j].hi <= used[i].lo

(***************************************************************************)
(* The large list owns the heap: every chunk malloc gave the pool is in     *)
(* exactly one entry, and an entry names no chunk that was freed.  So reset *)
(* and destroy free each chunk once and lose none, whatever rp_pfree,       *)
(* vacant entries and failing requests came before.                         *)
(***************************************************************************)
LargeOwned ==
  /\ heap = {large[i] : i \in DOMAIN large} \ {Null}
  /\ \A i, j \in DOMAIN large : i # j /\ large[i] = large[j] => large[i] = Null

(***************************************************************************)
(* `current' only leaves blocks behind that have refused more than          *)
(* GiveUpAfter + 1 requests since the last reset: a block is not given up   *)
(* because another one was full.                                            *)
(***************************************************************************)
TiredSkipped == \A b \in 1 .. current - 1 : blocks[b].failed > GiveUpAfter + 1
=============================================================================
