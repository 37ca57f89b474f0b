-------------------------- MODULE RpPalloc_proofs --------------------------
(***************************************************************************)
(* Proofs about the pool allocator, for every block size, limit, set of     *)
(* addresses and mix of requests.                                           *)
(***************************************************************************)
EXTENDS RpPalloc, SequenceTheorems, TLAPS

\* From current on, an older block has refused at least as often as a younger
\* one: this is why everything behind a tired block is tired too.
FailedFalls ==
  \A a, b \in current .. Len(blocks) : a <= b => blocks[a].failed >= blocks[b].failed

ChainTypeOK ==
  /\ blocks \in Seq(Block)
  /\ current \in 1 .. Len(blocks) \/ (NoPool /\ current = 1)
  /\ used \in Seq(Region)

\* What a small request has to keep.
ChainOK == ChainTypeOK /\ RegionsDisjoint /\ TiredSkipped /\ FailedFalls

LargeTypeOK == large \in Seq(Chunk \cup {Null}) /\ heap \subseteq Chunk

PoolInv == ChainOK /\ LargeTypeOK /\ LargeOwned

-----------------------------------------------------------------------------
(* Arithmetic of one block.                                                 *)

\* Aligning moves forward, and never past the end of a block.
LEMMA AlignUpFits ==
  ASSUME NEW p \in 0 .. BlockSize
  PROVE  AlignUp(p) \in p .. BlockSize
BY PoolAssumption DEF AlignUp, Align

\* A request that is not large fits a fresh block.
LEMMA SmallFitsFresh ==
  ASSUME NEW size \in Nat, size <= MaxSmall
  PROVE  BlockHeader + size \in BlockHeader .. BlockSize
BY PoolAssumption DEF MaxSmall, BlockHeader, PoolHeader, ListEntry

\* An entry of the large list is a small request.
LEMMA EntryIsSmall == ListEntry \in Nat /\ ListEntry <= MaxSmall
BY PoolAssumption DEF MaxSmall, ListEntry, PoolHeader


-----------------------------------------------------------------------------
(* Small requests.                                                          *)

\* What the elements of the chain and of the used regions are.
LEMMA Elements ==
  ASSUME ChainTypeOK
  PROVE  /\ Len(blocks) \in Nat /\ DOMAIN blocks = 1 .. Len(blocks)
         /\ \A b \in DOMAIN blocks : /\ blocks[b] \in Block
                                    /\ blocks[b].last \in 0 .. BlockSize
                                    /\ blocks[b].last \in Nat
                                    /\ blocks[b].failed \in Nat
         /\ Len(used) \in Nat /\ DOMAIN used = 1 .. Len(used)
         /\ \A i \in DOMAIN used : used[i].lo \in Nat /\ used[i].hi \in Nat
<1>1. /\ Len(blocks) \in Nat /\ DOMAIN blocks = 1 .. Len(blocks)
      /\ blocks \in [1 .. Len(blocks) -> Block]
  BY LenProperties DEF ChainTypeOK
<1>2. /\ Len(used) \in Nat /\ DOMAIN used = 1 .. Len(used)
      /\ used \in [1 .. Len(used) -> Region]
  BY LenProperties DEF ChainTypeOK
<1>3. \A s \in Block : s.last \in 0 .. BlockSize /\ s.failed \in Nat
  BY DEF Block
<1>4. \A s \in Region : s.lo \in Nat /\ s.hi \in Nat
  BY DEF Region
<1>5. \A n \in 0 .. BlockSize : n \in Nat
  BY PoolAssumption
<1> QED
  BY <1>1, <1>2, <1>3, <1>4, <1>5

\* A region appended to the used ones, behind the old end of its block and
\* below the new one, keeps them disjoint.
LEMMA HandOutKeeps ==
  ASSUME ChainTypeOK, RegionsDisjoint, ChainTypeOK',
         NEW b \in Nat, NEW lo \in Nat, NEW hi \in Nat, HandOut(b, lo, hi),
         b \in DOMAIN blocks', Header(b) <= lo, lo <= hi, hi <= blocks'[b].last,
         DOMAIN blocks \subseteq DOMAIN blocks',
         \A a \in DOMAIN blocks : blocks[a].last <= blocks'[a].last,
         \A a \in DOMAIN blocks' : Header(a) <= blocks'[a].last,
         b \in DOMAIN blocks => blocks[b].last <= lo
  PROVE  RegionsDisjoint'
<1> DEFINE r == [block |-> b, lo |-> lo, hi |-> hi]
<1>1. used \in Seq(Region) /\ used' = Append(used, r) /\ Len(used) \in Nat
  BY LenProperties DEF ChainTypeOK, HandOut
<1>2. /\ DOMAIN used = 1 .. Len(used) /\ DOMAIN used' = 1 .. Len(used) + 1
      /\ \A i \in 1 .. Len(used) : used'[i] = used[i]
      /\ used'[Len(used) + 1] = r
  BY <1>1
<1>3. r.block = b /\ r.lo = lo /\ r.hi = hi
  OBVIOUS
<1>4. \A i \in DOMAIN used : /\ used[i].block \in DOMAIN blocks
                             /\ Header(used[i].block) <= used[i].lo
                             /\ used[i].lo <= used[i].hi
                             /\ used[i].hi <= blocks[used[i].block].last
  BY DEF RegionsDisjoint
<1>5. \A i \in DOMAIN used : used[i].lo \in Nat /\ used[i].hi \in Nat
  BY Elements
<1>6. \A a \in DOMAIN blocks : blocks[a].last \in Nat /\ blocks'[a].last \in Nat
  <2>1. \A a \in DOMAIN blocks : blocks[a].last \in Nat
    BY Elements
  <2>2. blocks' \in [1 .. Len(blocks') -> Block] /\ DOMAIN blocks' = 1 .. Len(blocks')
    BY LenProperties DEF ChainTypeOK
  <2>3. \A s \in Block : s.last \in Nat
    BY PoolAssumption DEF Block
  <2> QED
    BY <2>1, <2>2, <2>3
<1>7. \A i \in DOMAIN used' : /\ used'[i].block \in DOMAIN blocks'
                              /\ Header(used'[i].block) <= used'[i].lo
                              /\ used'[i].lo <= used'[i].hi
                              /\ used'[i].hi <= blocks'[used'[i].block].last
  <2> SUFFICES ASSUME NEW i \in DOMAIN used'
               PROVE  /\ used'[i].block \in DOMAIN blocks'
                      /\ Header(used'[i].block) <= used'[i].lo
                      /\ used'[i].lo <= used'[i].hi
                      /\ used'[i].hi <= blocks'[used'[i].block].last
    OBVIOUS
  <2>1. CASE i = Len(used) + 1
    BY <1>2, <1>3, <2>1
  <2>2. CASE i \in DOMAIN used
    <3>1. used'[i] = used[i] /\ used[i].block \in DOMAIN blocks
      BY <1>2, <1>4, <2>2
    <3>2. used[i].hi <= blocks'[used[i].block].last
      BY <1>4, <1>5, <1>6, <2>2
    <3> QED
      BY <1>4, <2>2, <3>1, <3>2
  <2> QED
    BY <1>1, <1>2, <2>1, <2>2
<1>8. \A i \in DOMAIN used : used[i].block = b => used[i].hi <= lo
  BY <1>4, <1>5, <1>6
<1>9. \A i, j \in DOMAIN used' :
        i # j /\ used'[i].block = used'[j].block =>
          used'[i].hi <= used'[j].lo \/ used'[j].hi <= used'[i].lo
  <2> SUFFICES ASSUME NEW i \in DOMAIN used', NEW j \in DOMAIN used', i # j,
                      used'[i].block = used'[j].block
               PROVE  used'[i].hi <= used'[j].lo \/ used'[j].hi <= used'[i].lo
    OBVIOUS
  <2>1. CASE i \in DOMAIN used /\ j \in DOMAIN used
    BY <1>2, <2>1 DEF RegionsDisjoint
  <2>2. CASE i = Len(used) + 1 /\ j \in DOMAIN used
    BY <1>2, <1>3, <1>8, <2>2
  <2>3. CASE i \in DOMAIN used /\ j = Len(used) + 1
    BY <1>2, <1>3, <1>8, <2>3
  <2> QED
    BY <1>1, <1>2, <2>1, <2>2, <2>3
<1>10. \A a \in DOMAIN blocks' : Header(a)' = Header(a)
  BY DEF Header
<1> QED
  BY <1>7, <1>9 DEF RegionsDisjoint, Header

\* Taking a region of a block that has room.
LEMMA UseBlockKeeps ==
  ASSUME ChainOK, NEW size \in Nat, NEW aligned \in BOOLEAN, UseBlock(size, aligned)
  PROVE  ChainOK'
<1>1. PICK b \in Fitting(size, aligned) :
        /\ blocks' = [blocks EXCEPT ![b].last = Start(b, aligned) + size]
        /\ HandOut(b, Start(b, aligned), Start(b, aligned) + size)
        /\ current' = current
  BY DEF UseBlock
<1> DEFINE m == Start(b, aligned)
<1>2. /\ blocks \in Seq(Block) /\ Len(blocks) \in Nat /\ DOMAIN blocks = 1 .. Len(blocks)
      /\ used \in Seq(Region) /\ current \in Nat \ {0}
  BY LenProperties DEF ChainOK, ChainTypeOK
<1>3. b \in DOMAIN blocks /\ b \in Nat /\ Fits(b, size, aligned)
  BY <1>2 DEF Fitting
<1>4. blocks[b] \in Block /\ blocks[b].last \in 0 .. BlockSize
  BY <1>3, Elements DEF ChainOK
<1>5. m \in blocks[b].last .. BlockSize
  BY <1>4, AlignUpFits, PoolAssumption DEF Start
<1>6. m \in Nat /\ m + size \in 0 .. BlockSize
  BY <1>3, <1>4, <1>5, PoolAssumption DEF Fits
<1>7. [blocks[b] EXCEPT !.last = m + size] \in Block
  BY <1>4, <1>6 DEF Block
<1>8. /\ blocks' \in Seq(Block) /\ Len(blocks') = Len(blocks) /\ DOMAIN blocks' = DOMAIN blocks
      /\ blocks'[b].last = m + size
      /\ \A a \in DOMAIN blocks : a # b => blocks'[a] = blocks[a]
      /\ \A a \in DOMAIN blocks : blocks'[a].failed = blocks[a].failed
  <2>1. blocks' = [blocks EXCEPT ![b] = [blocks[b] EXCEPT !.last = m + size]]
    BY <1>1
  <2>2. blocks' \in Seq(Block) /\ Len(blocks') = Len(blocks) /\ DOMAIN blocks' = DOMAIN blocks
    BY <1>2, <1>3, <1>7, <2>1, ExceptSeq
  <2> QED
    BY <1>2, <1>3, <1>4, <2>1, <2>2 DEF Block
<1>9. [block |-> b, lo |-> m, hi |-> m + size] \in Region
  BY <1>3, <1>6 DEF Region
<1>10. used' \in Seq(Region)
  BY <1>1, <1>2, <1>9, AppendProperties DEF HandOut
<1>11. ChainTypeOK'
  BY <1>1, <1>8, <1>10, <1>3 DEF ChainOK, ChainTypeOK, NoPool
<1>12. RegionsDisjoint'
  <2>1. \A a \in DOMAIN blocks : blocks[a].last \in Nat
    BY Elements DEF ChainOK
  <2>2. \A a \in DOMAIN blocks : blocks[a].last <= blocks'[a].last
    BY <1>4, <1>5, <1>6, <1>8, <2>1
  <2>3. \A a \in DOMAIN blocks : Header(a) \in Nat /\ Header(a) <= blocks[a].last
    BY DEF ChainOK, RegionsDisjoint, Header, PoolHeader, BlockHeader
  <2>4. \A a \in DOMAIN blocks' : Header(a) <= blocks'[a].last
    BY <1>6, <1>8, <2>1, <2>2, <2>3
  <2>5. Header(b) <= m /\ m <= m + size /\ m + size <= blocks'[b].last /\ blocks[b].last <= m
    BY <1>3, <1>4, <1>5, <1>6, <1>8, <2>3
  <2> QED
    BY <1>1, <1>3, <1>6, <1>8, <1>11, <2>2, <2>4, <2>5, HandOutKeeps DEF ChainOK
<1>13. (TiredSkipped /\ FailedFalls)'
  BY <1>1, <1>2, <1>8 DEF ChainOK, ChainTypeOK, NoPool, TiredSkipped, FailedFalls
<1> QED
  BY <1>11, <1>12, <1>13 DEF ChainOK


\* The chain as rp_palloc_block leaves it.
LEMMA NewChain ==
  ASSUME ChainOK, ~NoPool, NEW size \in Nat, size <= MaxSmall, NewBlock(size)
  PROVE  /\ blocks' \in Seq(Block) /\ Len(blocks') = Len(blocks) + 1
         /\ DOMAIN blocks' = 1 .. Len(blocks) + 1
         /\ blocks'[Len(blocks) + 1] = [last |-> BlockHeader + size, failed |-> 0]
         /\ \A b \in 1 .. Len(blocks) :
              /\ blocks'[b].last = blocks[b].last
              /\ blocks'[b].failed = IF b \in current .. Len(blocks) - 1
                                       THEN blocks[b].failed + 1 ELSE blocks[b].failed
<1> DEFINE older == [b \in DOMAIN blocks |->
                       IF b \in current .. Len(blocks) - 1
                         THEN [blocks[b] EXCEPT !.failed = @ + 1] ELSE blocks[b]]
           new == [last |-> BlockHeader + size, failed |-> 0]
<1>1. Len(blocks) \in Nat /\ DOMAIN blocks = 1 .. Len(blocks)
  BY Elements DEF ChainOK
<1>2. \A b \in 1 .. Len(blocks) : blocks[b] \in Block /\ blocks[b].failed \in Nat
  BY Elements DEF ChainOK
<1>3. \A s \in Block : /\ [s EXCEPT !.failed = @ + 1] \in Block
                       /\ [s EXCEPT !.failed = @ + 1].last = s.last
                       /\ [s EXCEPT !.failed = @ + 1].failed = s.failed + 1
  BY DEF Block
<1>4. /\ \A b \in 1 .. Len(blocks) : older[b] \in Block
      /\ older \in [1 .. Len(blocks) -> Block]
  BY <1>1, <1>2, <1>3
<1>5. older \in Seq(Block) /\ Len(older) = Len(blocks)
  BY <1>1, <1>4
<1>6. new \in Block
  BY SmallFitsFresh DEF Block, BlockHeader
<1>7. blocks' = Append(older, new)
  BY DEF NewBlock
<1>8. /\ blocks' \in Seq(Block) /\ Len(blocks') = Len(blocks) + 1
      /\ blocks'[Len(blocks) + 1] = new
      /\ \A b \in 1 .. Len(blocks) : blocks'[b] = older[b]
  <2> HIDE DEF older, new
  <2> QED
    BY <1>1, <1>5, <1>6, <1>7, AppendProperties
<1>9. \A b \in 1 .. Len(blocks) :
        /\ older[b].last = blocks[b].last
        /\ older[b].failed = IF b \in current .. Len(blocks) - 1
                               THEN blocks[b].failed + 1 ELSE blocks[b].failed
  BY <1>1, <1>2, <1>3
<1>10. DOMAIN blocks' = 1 .. Len(blocks) + 1
  BY <1>8, <1>1, LenProperties
<1> QED
  BY <1>8, <1>9, <1>10

\* A new block at the end of the chain.
LEMMA NewBlockKeeps ==
  ASSUME ChainOK, ~NoPool, NEW size \in Nat, size <= MaxSmall, NewBlock(size)
  PROVE  ChainOK'
<1> DEFINE n == Len(blocks)
<1>1. /\ n \in Nat \ {0} /\ DOMAIN blocks = 1 .. n /\ current \in 1 .. n
      /\ used \in Seq(Region)
      /\ \A b \in 1 .. n : blocks[b].last \in Nat /\ blocks[b].failed \in Nat
  BY Elements DEF ChainOK, ChainTypeOK, NoPool
<1>2. /\ blocks' \in Seq(Block) /\ Len(blocks') = n + 1 /\ DOMAIN blocks' = 1 .. n + 1
      /\ blocks'[n + 1].last = BlockHeader + size /\ blocks'[n + 1].failed = 0
      /\ \A b \in 1 .. n : blocks'[b].last = blocks[b].last
      /\ \A b \in 1 .. n : blocks'[b].failed = IF b \in current .. n - 1
                                                 THEN blocks[b].failed + 1 ELSE blocks[b].failed
  <2>1. blocks'[n + 1] = [last |-> BlockHeader + size, failed |-> 0]
    BY NewChain
  <2>2. blocks'[n + 1].last = BlockHeader + size /\ blocks'[n + 1].failed = 0
    BY <2>1
  <2> QED
    BY <2>2, NewChain
<1>3. PICK c \in current .. n : /\ c > current => blocks[c - 1].failed > GiveUpAfter
                               /\ current' = c
  BY DEF NewBlock, SkipTired
<1>4a. n \in Nat /\ n >= 1 /\ current \in 1 .. n /\ c \in 1 .. n /\ c >= current
  BY <1>1, <1>3
<1>4b. \A a \in 1 .. n + 1 : a \in 1 .. n \/ a = n + 1
  BY <1>4a
<1>4. HandOut(n + 1, BlockHeader, BlockHeader + size)
  BY DEF NewBlock
<1>5. BlockHeader \in Nat /\ BlockHeader + size \in Nat /\ n + 1 \in Nat
  BY <1>1 DEF BlockHeader
<1>6. used' \in Seq(Region)
  <2>1. [block |-> n + 1, lo |-> BlockHeader, hi |-> BlockHeader + size] \in Region
    BY <1>5 DEF Region
  <2> QED
    BY <1>1, <1>4, <2>1, AppendProperties DEF HandOut
<1>7. ChainTypeOK'
  BY <1>1, <1>2, <1>3, <1>6 DEF ChainTypeOK
<1>8. RegionsDisjoint'
  <2>1. \A a \in 1 .. n : Header(a) <= blocks[a].last
    BY <1>1 DEF ChainOK, RegionsDisjoint
  <2>2. Header(n + 1) = BlockHeader
    BY <1>1 DEF Header
  <2>3. \A a \in DOMAIN blocks' : Header(a) <= blocks'[a].last
    <3>1. \A a \in DOMAIN blocks' : a \in 1 .. n \/ a = n + 1
      BY <1>2, <1>4b
    <3>2. BlockHeader <= BlockHeader + size
      BY <1>5
    <3> QED
      BY <1>2, <2>1, <2>2, <3>1, <3>2
  <2>4. \A a \in DOMAIN blocks : blocks[a].last <= blocks'[a].last
    BY <1>1, <1>2
  <2>5. /\ n + 1 \in DOMAIN blocks' /\ n + 1 \notin DOMAIN blocks
        /\ DOMAIN blocks \subseteq DOMAIN blocks'
    BY <1>1, <1>2
  <2>6. /\ Header(n + 1) <= BlockHeader /\ BlockHeader <= BlockHeader + size
        /\ BlockHeader + size <= blocks'[n + 1].last
    BY <1>2, <1>5, <2>2
  <2> QED
    BY <1>4, <1>5, <1>7, <2>3, <2>4, <2>5, <2>6, HandOutKeeps DEF ChainOK
<1>9. TiredSkipped'
  <2> SUFFICES ASSUME NEW b \in 1 .. c - 1
               PROVE  blocks'[b].failed > GiveUpAfter + 1
    BY <1>3 DEF TiredSkipped
  <2>1. b \in 1 .. n /\ GiveUpAfter \in Nat
    BY <1>1, <1>3, PoolAssumption
  <2>2. CASE b < current
    <3>1. blocks[b].failed > GiveUpAfter + 1
      BY <1>1, <2>1, <2>2 DEF ChainOK, TiredSkipped
    <3> QED
      BY <1>1, <1>2, <2>1, <2>2, <3>1
  <2>3. CASE b >= current
    <3>1. blocks[c - 1].failed > GiveUpAfter /\ c - 1 \in current .. n - 1
      BY <1>1, <1>3, <2>3
    <3>2. b \in current .. n - 1 /\ b <= c - 1
      BY <1>1, <1>3, <2>3
    <3>3. blocks[b].failed >= blocks[c - 1].failed
      BY <3>1, <3>2, <1>1 DEF ChainOK, FailedFalls
    <3>4. blocks[b].failed > GiveUpAfter
      BY <1>1, <2>1, <3>1, <3>2, <3>3
    <3> QED
      BY <1>1, <1>2, <2>1, <3>2, <3>4
  <2> QED
    BY <1>1, <2>1, <2>2, <2>3
<1>10. FailedFalls'
  <2> SUFFICES ASSUME NEW a \in c .. n + 1, NEW b \in c .. n + 1, a <= b
               PROVE  blocks'[a].failed >= blocks'[b].failed
    BY <1>2, <1>3 DEF FailedFalls
  <2>1. CASE b = n + 1
    <3>1. a \in 1 .. n \/ a = n + 1
      BY <1>4a, <1>4b
    <3>2. CASE a \in 1 .. n
      <4>1. blocks[a].failed \in Nat /\ blocks'[a].failed \in {blocks[a].failed, blocks[a].failed + 1}
        BY <1>1, <1>2, <3>2
      <4> QED
        BY <1>2, <2>1, <4>1
    <3> QED
      BY <1>2, <2>1, <3>1, <3>2
  <2>2. CASE b \in current .. n
    <3>1. a \in current .. n /\ blocks[a].failed >= blocks[b].failed
      BY <1>1, <1>3, <2>2 DEF ChainOK, FailedFalls
    <3>2. a = n => b = n
      BY <1>4a, <2>2, <3>1
    <3>3. a \in 1 .. n /\ b \in 1 .. n /\ blocks[a].failed \in Nat /\ blocks[b].failed \in Nat
      BY <1>1, <1>4a, <2>2, <3>1
    <3>4. /\ blocks'[a].failed = IF a \in current .. n - 1
                                   THEN blocks[a].failed + 1 ELSE blocks[a].failed
          /\ blocks'[b].failed = IF b \in current .. n - 1
                                   THEN blocks[b].failed + 1 ELSE blocks[b].failed
      BY <1>2, <3>3
    <3>5. b \in current .. n - 1 => a \in current .. n - 1
      BY <1>4a, <2>2, <3>1
    <3> QED
      BY <3>1, <3>3, <3>4, <3>5
  <2>3. b = n + 1 \/ b \in current .. n
    BY <1>4a
  <2> QED
    BY <2>1, <2>2, <2>3
<1> QED
  BY <1>7, <1>8, <1>9, <1>10 DEF ChainOK

\* rp_palloc and rp_pnalloc of at most MaxSmall bytes.
LEMMA SmallAllocKeeps ==
  ASSUME ChainOK, ~NoPool, NEW size \in Nat, size <= MaxSmall, NEW aligned \in BOOLEAN,
         SmallAlloc(size, aligned)
  PROVE  ChainOK'
BY NewBlockKeeps, UseBlockKeeps DEF SmallAlloc


-----------------------------------------------------------------------------
(* Large requests.                                                          *)

\* A new entry at the head of the list.
LEMMA LinkKeeps ==
  ASSUME PoolInv, ~NoPool, NEW c \in Chunk \ heap, Link(c)
  PROVE  PoolInv'
<1>1. ChainOK'
  BY SmallAllocKeeps, EntryIsSmall DEF PoolInv, Link
<1>2. large \in Seq(Chunk \cup {Null}) /\ Len(large) \in Nat /\ DOMAIN large = 1 .. Len(large)
  BY LenProperties DEF PoolInv, LargeTypeOK
<1>3. large' = <<c>> \o large /\ heap' = heap \cup {c}
  BY DEF Link
<1>4. /\ large' \in Seq(Chunk \cup {Null})
      /\ DOMAIN large' = 1 .. Len(large) + 1
      /\ large'[1] = c
      /\ \A i \in 2 .. Len(large) + 1 : large'[i] = large[i - 1]
  <2>1. <<c>> \in Seq(Chunk \cup {Null}) /\ Len(<<c>>) = 1 /\ <<c>>[1] = c
    OBVIOUS
  <2>2. large' \in Seq(Chunk \cup {Null}) /\ Len(large') = Len(large) + 1
    BY <1>2, <1>3, <2>1, ConcatProperties
  <2>3. \A i \in 1 .. Len(large) + 1 : large'[i] = IF i <= 1 THEN <<c>>[i] ELSE large[i - 1]
    BY <1>2, <1>3, <2>1, ConcatProperties
  <2> QED
    BY <1>2, <2>1, <2>2, <2>3, LenProperties
<1>5. c # Null /\ c \in Chunk
  BY PoolAssumption
<1>6. \A i \in DOMAIN large : large[i] # c
  BY <1>5 DEF PoolInv, LargeOwned
<1>7. \A i \in 2 .. Len(large) + 1 : i - 1 \in DOMAIN large
  BY <1>2
<1>8. \A i \in DOMAIN large' : i = 1 \/ i \in 2 .. Len(large) + 1
  BY <1>2, <1>4
<1>9. {large'[i] : i \in DOMAIN large'} = {large[i] : i \in DOMAIN large} \cup {c}
  <2>1. \A i \in DOMAIN large : i + 1 \in DOMAIN large' /\ large'[i + 1] = large[i]
    BY <1>2, <1>4
  <2>2. \A i \in DOMAIN large' : large'[i] = c \/ \E j \in DOMAIN large : large'[i] = large[j]
    BY <1>4, <1>7, <1>8
  <2>3. 1 \in DOMAIN large' /\ large'[1] = c
    BY <1>2, <1>4
  <2> QED
    BY <2>1, <2>2, <2>3
<1>10. LargeOwned'
  <2>1. heap' = {large'[i] : i \in DOMAIN large'} \ {Null}
    BY <1>3, <1>5, <1>9 DEF PoolInv, LargeOwned
  <2>2. \A i, j \in DOMAIN large' : i # j /\ large'[i] = large'[j] => large'[i] = Null
    <3> SUFFICES ASSUME NEW i \in DOMAIN large', NEW j \in DOMAIN large', i # j,
                        large'[i] = large'[j]
                 PROVE  large'[i] = Null
      OBVIOUS
    <3>1. CASE i \in 2 .. Len(large) + 1 /\ j \in 2 .. Len(large) + 1
      <4>1. large[i - 1] = large[j - 1] /\ i - 1 # j - 1
        BY <1>2, <1>4, <3>1
      <4> QED
        BY <1>4, <1>7, <3>1, <4>1 DEF PoolInv, LargeOwned
    <3>2. CASE i = 1 \/ j = 1
      BY <1>4, <1>6, <1>7, <1>8, <3>2
    <3> QED
      BY <1>8, <3>1, <3>2
  <2> QED
    BY <2>1, <2>2 DEF LargeOwned
<1>11. LargeTypeOK'
  BY <1>3, <1>4, <1>5 DEF PoolInv, LargeTypeOK
<1> QED
  BY <1>1, <1>10, <1>11 DEF PoolInv

\* Putting a fresh chunk, or NULL, into one entry.
LEMMA EntryKeeps ==
  ASSUME LargeTypeOK, LargeOwned, NEW k \in DOMAIN large, NEW x \in Chunk \cup {Null},
         large' = [large EXCEPT ![k] = x],
         x = Null \/ (x \notin heap /\ large[k] = Null),
         heap' = (heap \ {large[k]}) \cup ({x} \ {Null})
  PROVE  LargeTypeOK' /\ LargeOwned'
<1>1. large \in Seq(Chunk \cup {Null}) /\ DOMAIN large = 1 .. Len(large)
  BY LenProperties DEF LargeTypeOK
<1>2. /\ large' \in Seq(Chunk \cup {Null}) /\ DOMAIN large' = DOMAIN large
      /\ large'[k] = x /\ \A i \in DOMAIN large : i # k => large'[i] = large[i]
  BY <1>1, ExceptSeq
<1>3. \A i \in DOMAIN large : large[i] = Null \/ large[i] \in heap
  BY DEF LargeOwned
<1>4. LargeTypeOK'
  BY <1>1, <1>2 DEF LargeTypeOK
<1>5. heap' = {large'[i] : i \in DOMAIN large'} \ {Null}
  <2>1. ASSUME NEW y \in heap'
        PROVE  y # Null /\ \E i \in DOMAIN large' : large'[i] = y
    <3>1. CASE y = x /\ x # Null
      BY <1>2, <3>1
    <3>2. CASE y \in heap /\ y # large[k]
      <4>1. y # Null /\ \E i \in DOMAIN large : large[i] = y
        BY <3>2 DEF LargeOwned
      <4> QED
        BY <1>2, <3>2, <4>1
    <3> QED
      BY <3>1, <3>2
  <2>2. ASSUME NEW i \in DOMAIN large', large'[i] # Null
        PROVE  large'[i] \in heap'
    <3>1. CASE i = k
      BY <1>2, <2>2, <3>1
    <3>2. CASE i # k
      <4>1. large'[i] = large[i] /\ large[i] # Null
        BY <1>2, <2>2, <3>2
      <4>2. large[i] \in heap /\ large[i] # large[k]
        BY <1>2, <1>3, <3>2, <4>1 DEF LargeOwned
      <4> QED
        BY <4>1, <4>2
    <3> QED
      BY <3>1, <3>2
  <2> QED
    BY <2>1, <2>2
<1>6. \A i, j \in DOMAIN large' : i # j /\ large'[i] = large'[j] => large'[i] = Null
  <2> SUFFICES ASSUME NEW i \in DOMAIN large', NEW j \in DOMAIN large', i # j,
                      large'[i] = large'[j], large'[i] # Null
               PROVE  FALSE
    OBVIOUS
  <2>1. CASE i # k /\ j # k
    BY <1>2, <2>1 DEF LargeOwned
  <2>2. CASE i = k
    BY <1>2, <1>3, <2>2
  <2>3. CASE j = k
    BY <1>2, <1>3, <2>3
  <2> QED
    BY <2>1, <2>2, <2>3
<1> QED
  BY <1>4, <1>5, <1>6 DEF LargeOwned

\* rp_palloc_large and rp_pmemalign.
LEMMA LargeAllocKeeps ==
  ASSUME PoolInv, NEW c \in Chunk, PallocLarge(c) \/ Pmemalign(c)
  PROVE  PoolInv'
<1>1. ~NoPool /\ c \in Chunk \ heap
  BY DEF PallocLarge, Pmemalign
<1>2. CASE Link(c)
  BY <1>1, <1>2, LinkKeeps
<1>3. CASE UNCHANGED vars
  BY <1>3 DEF vars, PoolInv, ChainOK, ChainTypeOK, NoPool, RegionsDisjoint, Header, TiredSkipped,
     FailedFalls, LargeTypeOK, LargeOwned
<1>4. CASE /\ \E i \in Vacant : large' = [large EXCEPT ![i] = c]
           /\ heap' = heap \cup {c}
           /\ UNCHANGED <<chain, used>>
  <2>1. PICK i \in Vacant : large' = [large EXCEPT ![i] = c]
    BY <1>4
  <2>2. i \in DOMAIN large /\ large[i] = Null
    BY DEF Vacant, Examined
  <2>3. Null \notin heap /\ c # Null
    BY <1>1, PoolAssumption DEF PoolInv, LargeOwned
  <2>4. heap' = (heap \ {large[i]}) \cup ({c} \ {Null})
    BY <1>4, <2>2, <2>3
  <2>5. LargeTypeOK' /\ LargeOwned'
    BY <1>1, <2>1, <2>2, <2>4, EntryKeeps DEF PoolInv
  <2>6. ChainOK'
    BY <1>4 DEF chain, PoolInv, ChainOK, ChainTypeOK, NoPool, RegionsDisjoint, Header,
       TiredSkipped, FailedFalls
  <2> QED
    BY <2>5, <2>6 DEF PoolInv
<1> QED
  BY <1>2, <1>3, <1>4 DEF PallocLarge, Pmemalign, LinkFails

LEMMA PfreeKeeps ==
  ASSUME PoolInv, NEW c \in Chunk, Pfree(c)
  PROVE  PoolInv'
<1>1. PICK i \in DOMAIN large : large[i] = c /\ large' = [large EXCEPT ![i] = Null]
  BY DEF Pfree
<1>2. heap' = (heap \ {large[i]}) \cup ({Null} \ {Null})
  BY <1>1 DEF Pfree
<1>3. LargeTypeOK' /\ LargeOwned'
  BY <1>1, <1>2, EntryKeeps DEF PoolInv
<1>4. ChainOK'
  BY DEF Pfree, chain, PoolInv, ChainOK, ChainTypeOK, NoPool, RegionsDisjoint, Header,
     TiredSkipped, FailedFalls
<1> QED
  BY <1>3, <1>4 DEF PoolInv

-----------------------------------------------------------------------------
(* The whole pool.                                                          *)

\* Creating, resetting and destroying leave nothing handed out and no chunk.
LEMMA FreshKeeps ==
  ASSUME PoolInv, CreatePool \/ ResetPool \/ DestroyPool
  PROVE  PoolInv'
<1>1. LargeTypeOK' /\ LargeOwned'
  <2>1. CASE CreatePool
    BY <2>1 DEF CreatePool, PoolInv, LargeTypeOK, LargeOwned
  <2>2. CASE FreeLarge
    <3>1. heap' = {} /\ large' = <<>>
      BY <2>2 DEF FreeLarge, PoolInv, LargeOwned
    <3> QED
      BY <3>1 DEF LargeTypeOK, LargeOwned
  <2> QED
    BY <2>1, <2>2 DEF ResetPool, DestroyPool
<1>2. PoolHeader \in 0 .. BlockSize /\ PoolHeader \in Nat
  BY PoolAssumption DEF PoolHeader, ListEntry
<1>3. [last |-> PoolHeader, failed |-> 0] \in Block
  BY <1>2 DEF Block
<1>4. /\ blocks' \in Seq(Block) /\ current' = 1
      /\ \A b \in DOMAIN blocks' : blocks'[b] = [last |-> PoolHeader, failed |-> 0]
      /\ blocks' = <<>> \/ 1 \in 1 .. Len(blocks')
  <2>1. CASE CreatePool
    <3> DEFINE one == <<[last |-> PoolHeader, failed |-> 0]>>
    <3>1. one \in Seq(Block) /\ Len(one) = 1 /\ DOMAIN one = 1 .. 1
          /\ one[1] = [last |-> PoolHeader, failed |-> 0]
      BY <1>3
    <3>2. blocks' = one /\ current' = 1
      BY <2>1 DEF CreatePool
    <3> HIDE DEF one
    <3> QED
      BY <3>1, <3>2
  <2>2. CASE ResetPool
    <3>1. /\ Len(blocks) \in Nat /\ DOMAIN blocks = 1 .. Len(blocks) /\ blocks # <<>>
          /\ blocks \in Seq(Block)
      BY <2>2, Elements DEF PoolInv, ChainOK, ChainTypeOK, ResetPool, NoPool
    <3>2. Len(blocks) # 0
      BY <3>1, EmptySeq
    <3>3. /\ blocks' = [b \in 1 .. Len(blocks) |-> [last |-> PoolHeader, failed |-> 0]]
          /\ current' = 1
      BY <2>2, <3>1 DEF ResetPool
    <3>4. blocks' \in Seq(Block) /\ Len(blocks') = Len(blocks)
      BY <1>3, <3>1, <3>3
    <3> QED
      BY <3>1, <3>2, <3>3, <3>4
  <2>3. CASE DestroyPool
    BY <2>3 DEF DestroyPool
  <2> QED
    BY <2>1, <2>2, <2>3
<1>5. used' = <<>>
  <2>1. CASE CreatePool
    <3>1. \A i \in DOMAIN used : FALSE
      BY <2>1 DEF PoolInv, ChainOK, RegionsDisjoint, CreatePool, NoPool
    <3>2. used \in Seq(Region) /\ Len(used) \in Nat /\ DOMAIN used = 1 .. Len(used)
      BY Elements DEF PoolInv, ChainOK, ChainTypeOK
    <3>3. Len(used) = 0
      <4>1. 1 \notin 1 .. Len(used)
        BY <3>1, <3>2
      <4> QED
        BY <3>2, <4>1
    <3> QED
      BY <2>1, <3>2, <3>3, EmptySeq DEF CreatePool
  <2> QED
    BY <2>1 DEF ResetPool, DestroyPool
<1>6. ChainTypeOK'
  BY <1>4, <1>5 DEF ChainTypeOK, NoPool
<1>7. \A b \in DOMAIN blocks' : blocks'[b].last = PoolHeader /\ blocks'[b].failed = 0
  BY <1>4
<1>8. RegionsDisjoint'
  BY <1>5, <1>7 DEF RegionsDisjoint, Header, PoolHeader, BlockHeader
<1>9. TiredSkipped'
  BY <1>4 DEF TiredSkipped
<1>10. FailedFalls'
  <2>1. DOMAIN blocks' = 1 .. Len(blocks')
    BY <1>4, LenProperties
  <2> QED
    BY <1>4, <1>7, <2>1 DEF FailedFalls
<1> QED
  BY <1>1, <1>6, <1>8, <1>9, <1>10 DEF PoolInv, ChainOK

LEMMA PoolInit == Init => PoolInv
<1> SUFFICES ASSUME Init
             PROVE  PoolInv
  OBVIOUS
<1> USE DEF Init
<1>1. ChainTypeOK /\ LargeTypeOK
  BY DEF ChainTypeOK, LargeTypeOK, NoPool
<1>2. RegionsDisjoint /\ LargeOwned
  BY DEF RegionsDisjoint, LargeOwned
<1>3. TiredSkipped /\ FailedFalls
  BY DEF TiredSkipped, FailedFalls
<1> QED
  BY <1>1, <1>2, <1>3 DEF PoolInv, ChainOK

\* Every step.
LEMMA PoolNext == PoolInv /\ [Next]_vars => PoolInv'
<1> SUFFICES ASSUME PoolInv, [Next]_vars
             PROVE  PoolInv'
  OBVIOUS
<1>1. CASE CreatePool \/ ResetPool \/ DestroyPool
  BY <1>1, FreshKeeps
<1>2. ASSUME NEW size \in Sizes, NEW aligned \in BOOLEAN, Palloc(size, aligned)
      PROVE  PoolInv'
  <2>1. size \in Nat /\ ~NoPool /\ size <= MaxSmall /\ SmallAlloc(size, aligned)
    BY <1>2, PoolAssumption DEF Palloc
  <2>2. ChainOK'
    BY <2>1, SmallAllocKeeps DEF PoolInv
  <2>3. LargeTypeOK' /\ LargeOwned'
    BY <1>2 DEF Palloc, PoolInv, LargeTypeOK, LargeOwned
  <2> QED
    BY <2>2, <2>3 DEF PoolInv
<1>3. ASSUME NEW c \in Chunk, PallocLarge(c) \/ Pmemalign(c) \/ Pfree(c)
      PROVE  PoolInv'
  BY <1>3, LargeAllocKeeps, PfreeKeeps
<1>4. CASE UNCHANGED vars
  BY <1>4 DEF vars, PoolInv, ChainOK, ChainTypeOK, NoPool, RegionsDisjoint, Header, TiredSkipped,
     FailedFalls, LargeTypeOK, LargeOwned
<1> QED
  BY <1>1, <1>2, <1>3, <1>4 DEF Next

\* PoolInv holds in every reachable state.
LEMMA PoolAlways == Spec => []PoolInv
BY PoolInit, PoolNext, PTL DEF Spec

\* d.last never leaves its block, current never leaves the chain: no request,
\* of whatever size and alignment, runs past the end of a block.
THEOREM PoolTypeCorrect == Spec => []TypeOK
<1>1. PoolInv => TypeOK
  BY DEF PoolInv, ChainOK, ChainTypeOK, LargeTypeOK, TypeOK
<1> QED
  BY <1>1, PoolAlways, PTL

\* No two regions the pool hands out overlap, and none touches a header.
THEOREM PoolRegionsDisjoint == Spec => []RegionsDisjoint
<1>1. PoolInv => RegionsDisjoint
  BY DEF PoolInv, ChainOK
<1> QED
  BY <1>1, PoolAlways, PTL

\* Every chunk from malloc is in exactly one entry of the large list, so it is
\* freed once.
THEOREM PoolLargeOwned == Spec => []LargeOwned
<1>1. PoolInv => LargeOwned
  BY DEF PoolInv
<1> QED
  BY <1>1, PoolAlways, PTL

\* rp_palloc_block gives up only blocks that have refused often enough.
THEOREM PoolTiredSkipped == Spec => []TiredSkipped
<1>1. PoolInv => TiredSkipped
  BY DEF PoolInv, ChainOK
<1> QED
  BY <1>1, PoolAlways, PTL
=============================================================================
