------------------------------- MODULE RpSlab -------------------------------
(***************************************************************************)
(* The slab allocator of src/util/rp_slab.c: a table of pages, a list of    *)
(* free page runs, and one list per chunk size of the pages cut into chunks *)
(* of that size that have room.  Nothing in rpbot calls it yet.             *)
(*                                                                         *)
(* Every list is circular through its head, and the heads are the same      *)
(* structure as the pages: a node is a page number, the head of a slot, or  *)
(* pool->free.  The prev of a head is written and never read; it is left    *)
(* out.  An address is its distance from pool->start.  The word width, the  *)
(* page and the headers are constants, so that an instance can be small.    *)
(***************************************************************************)
EXTENDS Integers, FiniteSets

CONSTANTS
  PageShift,    \* rp_pagesize_shift
  MinShift,     \* pool->min_shift
  WordBits,     \* 8 * sizeof(uintptr_t)
  ByteBits,     \* 8
  IntBits,      \* 8 * sizeof(int)
  HeaderBytes,  \* sizeof(rp_slab_pool_t)
  EntryBytes,   \* sizeof(struct rp_slab_page)
  PoolBytes,    \* pool->end - pool; the pool starts on a page boundary
  Sizes,        \* what callers ask for
  MaxLive,      \* regions callers hold at a time
  MaxStale      \* addresses they have given back and may give back again

\* 1 << k.
Pow2[k \in Nat] == IF k = 0 THEN 1 ELSE 2 * Pow2[k - 1]

PageSize == Pow2[PageShift]

\* rp_slab_max_size and rp_slab_exact_shift: pages of ExactShift chunks have
\* exactly one word of them.
MaxSize == PageSize \div 2
ExactShift == CHOOSE k \in 0 .. PageShift : Pow2[k] = PageSize \div WordBits

(***************************************************************************)
(* rp_slab_init: as many pages as fit with a table entry each, less those   *)
(* that the slots and the alignment of pool->start push over the end.       *)
(***************************************************************************)
Slots == PageShift - MinShift
TablePages == (PoolBytes - HeaderBytes) \div (PageSize + EntryBytes)
TableEnd == HeaderBytes + (Slots + TablePages) * EntryBytes
PoolStart == ((TableEnd + PageSize - 1) \div PageSize) * PageSize
\* Mutant: the table is not corrected for the slots and the alignment.
PagesUncorrected == TablePages

Pages ==
  LET fitting == (PoolBytes - PoolStart) \div PageSize IN
  IF TablePages > fitting THEN fitting ELSE TablePages

\* RP_SLAB_PAGE_START, RP_SLAB_PAGE_BUSY (and RP_SLAB_BUSY), RP_SLAB_MAP_SHIFT.
RunStart == Pow2[WordBits - 1]
AllOnes == Pow2[WordBits] - 1
MapShift == WordBits \div 2

Page == 0 .. Pages - 1
SlotOf(shift) == Pages + shift - MinShift
FreeHead == Pages + Slots
Head == Pages .. FreeHead
Null == -1

\* Mutant: one chunk too many.
ChunksAndOne(shift) == PageSize \div Pow2[shift] + 1

\* The bitmap of a small page lies in its own first chunks.
Chunks(shift) == PageSize \div Pow2[shift]
Reserved(shift) ==
  LET n == (Chunks(shift) \div ByteBits) \div Pow2[shift] IN
  IF shift >= ExactShift THEN {} ELSE 0 .. (IF n = 0 THEN 1 ELSE n) - 1

\* The first word of a bitmap is (2 << n) - 1, computed in an int: what is reserved
\* has to fit one, which 8 byte chunks on pages of 16 KB, for one, do not.
ASSUME SlabAssumption ==
  /\ PageShift \in Nat /\ MinShift \in 1 .. PageShift - 1
  /\ \E k \in 1 .. PageShift : WordBits = Pow2[k] /\ PageShift <= Pow2[WordBits \div 2]
  /\ ByteBits \in Nat \ {0} /\ IntBits \in Nat
  /\ Cardinality(Reserved(MinShift)) + 2 < IntBits
  /\ HeaderBytes \in Nat /\ EntryBytes \in Nat
  /\ PoolBytes \in Nat
  /\ Pages \in 1 .. RunStart - 2
  /\ Sizes \subseteq Nat /\ MaxLive \in Nat /\ MaxStale \in Nat

VARIABLES
  pool,     \* the page table, the list heads and the bitmaps inside small pages
  live,     \* regions callers hold
  stale     \* addresses given back whose memory has not been handed out again

vars == <<pool, live, stale>>

Type == {"PAGE", "BIG", "EXACT", "SMALL"}

-----------------------------------------------------------------------------
(* Words and bitmaps.                                                       *)

Bit(word, i) == (word \div Pow2[i]) % 2 = 1

ClassOf(shift) ==
  CASE shift < ExactShift -> "SMALL"
    [] shift = ExactShift -> "EXACT"
    [] shift > ExactShift -> "BIG"

\* slab & RP_SLAB_SHIFT_MASK, or the one size that needs no room for it.
ShiftOf(p, pg) ==
  IF p.type[pg] = "EXACT" THEN ExactShift ELSE p.slab[pg] % Pow2[MapShift]

Busy(p, pg) ==
  CASE p.type[pg] = "SMALL" -> p.bitmap[pg]
    [] p.type[pg] = "EXACT" -> {i \in 0 .. WordBits - 1 : Bit(p.slab[pg], i)}
    [] p.type[pg] = "BIG" -> {i \in 0 .. MapShift - 1 : Bit(p.slab[pg], MapShift + i)}

Vacant(p, pg) == (0 .. Chunks(ShiftOf(p, pg)) - 1) \ Busy(p, pg)

\* The value of chunk i's bit in page->slab.
BitValue(p, pg, i) == Pow2[IF p.type[pg] = "BIG" THEN MapShift + i ELSE i]

SetBusy(p, pg, i) ==
  IF p.type[pg] = "SMALL" THEN [p EXCEPT !.bitmap[pg] = @ \cup {i}]
                          ELSE [p EXCEPT !.slab[pg] = @ + BitValue(p, pg, i)]

ClearBusy(p, pg, i) ==
  IF p.type[pg] = "SMALL" THEN [p EXCEPT !.bitmap[pg] = @ \ {i}]
                          ELSE [p EXCEPT !.slab[pg] = @ - BitValue(p, pg, i)]

-----------------------------------------------------------------------------
(* Lists.                                                                   *)

SetPrev(p, node, to) == IF node \in Page THEN [p EXCEPT !.prev[node] = to] ELSE p

\* Mutant: the next page keeps its prev.
UnlinkForwardOnly(p, pg) == [p EXCEPT !.next[p.prev[pg]] = p.next[pg]]

Unlink(p, pg) ==
  SetPrev([p EXCEPT !.next[p.prev[pg]] = p.next[pg]], p.next[pg], p.prev[pg])

Push(p, head, pg) ==
  SetPrev([p EXCEPT !.next[head] = pg, !.next[pg] = p.next[head], !.prev[pg] = head],
          p.next[head], pg)

\* The nodes met on the way from a head, which is met again at the end.
Chain(p, head) ==
  LET node[k \in 0 .. Pages] ==
        IF k = 0 THEN p.next[head]
        ELSE IF node[k - 1] \in Page THEN p.next[node[k - 1]] ELSE node[k - 1]
  IN  node

Members(p, head) == {Chain(p, head)[k] : k \in 0 .. Pages} \cap Page

-----------------------------------------------------------------------------
(* Runs of pages: rp_slab_alloc_pages and rp_slab_free_pages.               *)

\* The first run of the free list that is long enough.
FirstFit(p, n) ==
  LET node == Chain(p, FreeHead)
      fits == {k \in 0 .. Pages : node[k] \in Page /\ p.slab[node[k]] >= n}
  IN  {node[k] : k \in {j \in fits : \A other \in fits : j <= other}}

\* Mutant: the rest counts the pages that were taken.
SplitUncounted(p, pg, n) ==
  LET rest == pg + n IN
  SetPrev([p EXCEPT !.slab[rest] = p.slab[pg],
                    !.next[rest] = p.next[pg], !.prev[rest] = p.prev[pg],
                    !.next[p.prev[pg]] = rest],
          p.next[pg], rest)

\* The rest of a run that is too long takes its place in the list.
Split(p, pg, n) ==
  LET rest == pg + n IN
  SetPrev([p EXCEPT !.slab[rest] = p.slab[pg] - n,
                    !.next[rest] = p.next[pg], !.prev[rest] = p.prev[pg],
                    !.next[p.prev[pg]] = rest],
          p.next[pg], rest)

TakeRun(p, pg, n) ==
  LET q == IF p.slab[pg] > n THEN Split(p, pg, n) ELSE Unlink(p, pg)
      run == pg .. pg + n - 1
  IN  [q EXCEPT
         !.slab = [i \in Page |-> IF i = pg THEN RunStart + n
                                  ELSE IF i \in run THEN AllOnes ELSE @[i]],
         !.next = [i \in Page \cup Head |-> IF i \in run THEN Null ELSE @[i]],
         !.prev = [i \in Page |-> IF i \in run THEN Null ELSE @[i]],
         !.type = [i \in Page |-> IF i \in run THEN "PAGE" ELSE @[i]]]

FreePages(p, pg, n) ==
  LET after == pg + 1 .. pg + n - 1
      q == [p EXCEPT
              !.slab = [i \in Page |-> IF i = pg THEN n ELSE IF i \in after THEN 0 ELSE @[i]],
              !.next = [i \in Page \cup Head |-> IF i \in after THEN Null ELSE @[i]],
              !.prev = [i \in Page |-> IF i \in after THEN Null ELSE @[i]],
              !.type = [i \in Page |-> IF i \in after THEN "PAGE" ELSE @[i]]]
      r == IF q.next[pg] # Null THEN Unlink(q, pg) ELSE q
  IN  [Push(r, FreeHead, pg) EXCEPT !.type[pg] = "PAGE"]

-----------------------------------------------------------------------------
(* rp_slab_alloc.                                                           *)

\* All of span is in use again.
HandOut(lo, size, span) ==
  /\ live' = live \cup {[lo |-> lo, len |-> size]}
  /\ stale' = stale \ span

\* The addresses of n pages.
PageSpan(pg, n) == pg * PageSize .. (pg + n) * PageSize - 1

\* size / pagesize, rounded up.
AllocRun(size) ==
  LET n == size \div PageSize + (IF size % PageSize = 0 THEN 0 ELSE 1) IN
  /\ size >= MaxSize
  /\ \E pg \in FirstFit(pool, n) :
       /\ pool' = TakeRun(pool, pg, n)
       /\ HandOut(pg * PageSize, size, PageSpan(pg, n))

ShiftFor(size) ==
  CHOOSE k \in MinShift .. PageShift :
    Pow2[k] >= size /\ (k > MinShift => Pow2[k - 1] < size)

(***************************************************************************)
(* The lowest vacant chunk of the first page in the slot.  The loop of the  *)
(* code goes on to page->next when that page is full; SlotsHaveRoom says    *)
(* that it never is.                                                        *)
(***************************************************************************)
AllocChunk(size) ==
  LET shift == ShiftFor(size)
      pg == pool.next[SlotOf(shift)]
  IN
  /\ size < MaxSize
  /\ pool.next[pg] # pg
  /\ \E i \in Vacant(pool, pg) :
       LET marked == SetBusy(pool, pg, i)
           lo == pg * PageSize + i * Pow2[shift]
       IN
       /\ \A other \in Vacant(pool, pg) : i <= other
       /\ pool' = IF Vacant(marked, pg) # {} THEN marked
                  ELSE [Unlink(marked, pg) EXCEPT !.next[pg] = Null, !.prev[pg] = Null]
       /\ HandOut(lo, size, {lo})

\* page->slab of a page with its first chunk handed out.
FirstSlab(shift) ==
  CASE ClassOf(shift) = "SMALL" -> shift
    [] ClassOf(shift) = "EXACT" -> 1
    [] ClassOf(shift) = "BIG" -> Pow2[MapShift] + shift

\* The slot is empty: a new page, linked without a look at what the slot held.
\* From now on all of it is chunks, or their bitmap.
AllocNewPage(size) ==
  LET shift == ShiftFor(size)
      slot == SlotOf(shift)
      i == Cardinality(Reserved(shift))
  IN
  /\ size < MaxSize
  /\ pool.next[slot] = slot
  /\ \E pg \in FirstFit(pool, 1) :
       /\ pool' = [TakeRun(pool, pg, 1) EXCEPT
                     !.slab[pg] = FirstSlab(shift),
                     !.type[pg] = ClassOf(shift),
                     !.bitmap[pg] = IF ClassOf(shift) = "SMALL" THEN 0 .. i ELSE @,
                     !.next[pg] = slot, !.prev[pg] = slot, !.next[slot] = pg]
       /\ HandOut(pg * PageSize + i * Pow2[shift], size, PageSpan(pg, 1))

Alloc(size) ==
  /\ Cardinality(live) < MaxLive
  /\ AllocRun(size) \/ AllocChunk(size) \/ AllocNewPage(size)

-----------------------------------------------------------------------------
(* rp_slab_free.                                                            *)

\* Mutant: only pages of one word of chunks come back to their list.
WasFullByLink(p, pg) == p.type[pg] = "EXACT" /\ p.slab[pg] = AllOnes

\* Is the page outside its slot's list because it was full?
WasFull(p, pg) ==
  IF p.type[pg] = "EXACT" THEN p.slab[pg] = AllOnes ELSE p.next[pg] = Null

FreeChunk(addr) ==
  LET pg == addr \div PageSize
      shift == ShiftOf(pool, pg)
      i == (addr % PageSize) \div Pow2[shift]
      listed == IF WasFull(pool, pg) THEN Push(pool, SlotOf(shift), pg) ELSE pool
      cleared == ClearBusy(listed, pg, i)
  IN
  /\ pool.type[pg] # "PAGE"
  /\ addr % Pow2[shift] = 0
  /\ i \in Busy(pool, pg)
  /\ pool' = IF Busy(cleared, pg) \subseteq Reserved(shift)
               THEN FreePages(cleared, pg, 1) ELSE cleared

\* The head of a free run passes for a busy one of as many pages.
FreeRun(addr) ==
  LET pg == addr \div PageSize IN
  /\ pool.type[pg] = "PAGE"
  /\ addr % PageSize = 0
  /\ pool.slab[pg] \notin {0, AllOnes}
  /\ pool' = FreePages(pool, pg, pool.slab[pg] % RunStart)

\* "pointer to wrong chunk", "chunk already free", "page is already free", ...
FreeRefused(addr) ==
  LET pg == addr \div PageSize
      shift == ShiftOf(pool, pg)
  IN
  /\ IF pool.type[pg] = "PAGE"
       THEN addr % PageSize # 0 \/ pool.slab[pg] \in {0, AllOnes}
       ELSE addr % Pow2[shift] # 0 \/ (addr % PageSize) \div Pow2[shift] \notin Busy(pool, pg)
  /\ UNCHANGED pool

Free(addr) == FreeChunk(addr) \/ FreeRun(addr) \/ FreeRefused(addr)

(***************************************************************************)
(* What callers pass: a region they hold; by mistake one they gave back,    *)
(* while nobody else has it; by mistake an address inside one they hold.    *)
(* Nothing else is a caller's, and rp_slab_free does not protect the owner: *)
(* a second free after the memory was handed out again takes it from its    *)
(* new holder, or, where a page was cut anew, clears a bit of the page's    *)
(* own bitmap; pool->end, and what lies behind the last page, pass its test *)
(* for the pool and make it read behind the page table.                     *)
(***************************************************************************)
FreeHeld(r) ==
  /\ Free(r.lo)
  /\ live' = live \ {r}
  /\ stale' \in {stale, stale \cup {r.lo}}
  /\ Cardinality(stale') <= MaxStale

FreeAgain(addr) == Free(addr) /\ UNCHANGED <<live, stale>>

FreeInside(r) ==
  /\ \E addr \in r.lo + 1 .. r.lo + r.len - 1 : Free(addr)
  /\ UNCHANGED <<live, stale>>

-----------------------------------------------------------------------------

Init ==
  /\ pool = [slab |-> [i \in Page |-> IF i = 0 THEN Pages ELSE 0],
             next |-> [i \in Page \cup Head |->
                         CASE i = 0 -> FreeHead
                           [] i = FreeHead -> 0
                           [] i \in Head \ {FreeHead} -> i
                           [] OTHER -> Null],
             prev |-> [i \in Page |-> IF i = 0 THEN FreeHead ELSE Null],
             type |-> [i \in Page |-> "PAGE"],
             bitmap |-> [i \in Page |-> Reserved(MinShift)]]
  /\ live = {}
  /\ stale = {}

Next ==
  \/ \E size \in Sizes : Alloc(size)
  \/ \E r \in live : FreeHeld(r) \/ FreeInside(r)
  \/ \E addr \in stale : FreeAgain(addr)

Spec == Init /\ [][Next]_vars

-----------------------------------------------------------------------------

TypeOK ==
  /\ pool \in [slab : [Page -> 0 .. AllOnes],
               next : [Page \cup Head -> Page \cup Head \cup {Null}],
               prev : [Page -> Page \cup Head \cup {Null}],
               type : [Page -> Type],
               bitmap : [Page -> SUBSET (0 .. Chunks(MinShift) - 1)]]
  /\ \A r \in live : r.lo \in 0 .. Pages * PageSize - 1 /\ r.len \in Sizes
  /\ stale \subseteq 0 .. Pages * PageSize - 1

ClassPages == {pg \in Page : pool.type[pg] # "PAGE"}
BusyRuns ==
  {pg \in Page : pool.type[pg] = "PAGE" /\ pool.slab[pg] > RunStart /\ pool.slab[pg] # AllOnes}

(***************************************************************************)
(* The links of every list agree: each page's prev is the node it was       *)
(* reached from, the chain closes at its own head, and no page is met twice *)
(* or in two lists.  Unlink and Push rely on prev without looking.          *)
(***************************************************************************)
ListsLinked ==
  /\ \A head \in Head :
       LET node == Chain(pool, head) IN
       /\ node[Pages] = head
       /\ \A k \in 0 .. Pages :
            node[k] \in Page => pool.prev[node[k]] = (IF k = 0 THEN head ELSE node[k - 1])
  /\ \A h1, h2 \in Head : h1 # h2 => Members(pool, h1) \cap Members(pool, h2) = {}

(***************************************************************************)
(* No page is lost and none has two owners: the runs of the free list, the  *)
(* runs handed out and the pages cut into chunks tile the page table,       *)
(* whatever is split, freed, or freed twice.                                *)
(***************************************************************************)
PagesConserved ==
  LET extent(pg) == IF pg \in ClassPages THEN 1 ELSE pool.slab[pg] % RunStart
      owners == Members(pool, FreeHead) \cup BusyRuns \cup ClassPages
  IN
  /\ Members(pool, FreeHead) \cap (BusyRuns \cup ClassPages) = {}
  /\ \A h \in owners : h + extent(h) <= Pages
  /\ \A pg \in Page :
       Cardinality({h \in owners : pg \in h .. h + extent(h) - 1}) = 1

(***************************************************************************)
(* A page cut into chunks is in its slot's list exactly while it has a      *)
(* vacant chunk, and a list holds nothing else.  So rp_slab_alloc finds     *)
(* room in the first page it looks at, and no vacant chunk is forgotten.    *)
(***************************************************************************)
SlotsHaveRoom ==
  \A shift \in MinShift .. PageShift - 1 :
    Members(pool, SlotOf(shift)) =
      {pg \in ClassPages : ShiftOf(pool, pg) = shift /\ Vacant(pool, pg) # {}}

\* The regions of one page the page table knows to be handed out.
Known(pg) ==
  IF pg \in ClassPages
    THEN LET shift == ShiftOf(pool, pg) IN
         {<<pg * PageSize + i * Pow2[shift], Pow2[shift]>> : i \in Busy(pool, pg) \ Reserved(shift)}
    ELSE {<<pg * PageSize, (pool.slab[pg] - RunStart) * PageSize>> : i \in {pg} \cap BusyRuns}

(***************************************************************************)
(* The page table and the callers agree: every region a caller holds is one *)
(* busy chunk or run, large enough and inside the pool, and nothing else is *)
(* busy.  With PagesConserved the regions are disjoint and no chunk leaks.  *)
(* A free takes the region that was given back and no other, and nothing    *)
(* at all when it had been given back before and is nobody's since, or when *)
(* the address is not the start of a region.                                *)
(***************************************************************************)
BusyIsLive ==
  LET known == UNION {Known(pg) : pg \in Page} IN
  /\ {r.lo : r \in live} = {k[1] : k \in known}
  /\ \A r1, r2 \in live : r1 # r2 => r1.lo # r2.lo
  /\ \A r \in live : \E k \in known :
       /\ k[1] = r.lo
       /\ k[2] >= r.len
       /\ PoolStart + r.lo + k[2] <= PoolBytes
=============================================================================
