-------------------------------- MODULE UmmMalloc --------------------------------
(***************************************************************************)
(* The heap of the linker (src/umm_malloc.c, UMM_BEST_FIT).  The heap is   *)
(* an array of blocks of four 16-bit words: the numbers of the next and    *)
(* the previous block, and those of the next and the previous free block,  *)
(* which lie where a block in use holds its first data.  FREELIST_MASK in  *)
(* the first word marks a free block.  The caller keeps some pointers and  *)
(* fills all it asked for.                                                 *)
(*                                                                         *)
(* The corrections of the heap work on its words h; a result r is the heap *)
(* after a call and the block c whose data it returns, 0 for NULL.         *)
(***************************************************************************)
EXTENDS Integers

CONSTANTS NumBlocks,       \* umm_numblocks
          FREELIST_MASK,   \* 0x8000 in the code
          Pointers,        \* the pointers a caller keeps: numbers from 1
          Sizes            \* the sizes in bytes it asks for

ASSUME HeapAssumption == /\ NumBlocks \in 3..FREELIST_MASK
                         /\ FREELIST_MASK \in Nat
                         /\ Pointers \subseteq Nat \ {0}
                         /\ Sizes \subseteq Nat

VARIABLES umm_heap,   \* the words
          ptr,        \* the block a pointer points into, 0 for NULL
          size,       \* how much of it its owner uses
          value,      \* what the owner has there
          refused     \* how many blocks a call that just returned NULL wanted, else 0
vars == <<umm_heap, ptr, size, value, refused>>

NBLOCK(b) == 4 * b
PBLOCK(b) == 4 * b + 1
NFREE(b) == 4 * b + 2
PFREE(b) == 4 * b + 3
BLOCKNO(n) == n % FREELIST_MASK
IsFree(h, b) == h[NBLOCK(b)] >= FREELIST_MASK
BlockSize(h, b) == BLOCKNO(h[NBLOCK(b)]) - b

blocks(n) == IF n <= 4 THEN 1 ELSE 2 + (n - 5) \div 8
DataWords(b, n) == NFREE(b) .. (NFREE(b) + (n + 1) \div 2 - 1)

umm_init == [a \in 0..(4 * NumBlocks - 1) |->
               CASE a \in {NBLOCK(0), NFREE(0), PFREE(0), PBLOCK(NumBlocks - 1)} -> 1
                 [] a = NBLOCK(1) -> FREELIST_MASK + NumBlocks - 1
                 [] OTHER -> 0]

(* c becomes two blocks, the second one free or in use as mask says.       *)
split_block(h, c, n, mask) ==
  LET next == BLOCKNO(h[NBLOCK(c)])
  IN  [h EXCEPT ![NBLOCK(c + n)] = next + mask, ![PBLOCK(c + n)] = c,
                ![PBLOCK(next)] = c + n, ![NBLOCK(c)] = c + n]

disconnect_from_free_list(h, c) ==
  [h EXCEPT ![NFREE(h[PFREE(c)])] = h[NFREE(c)], ![PFREE(h[NFREE(c)])] = h[PFREE(c)],
            ![NBLOCK(c)] = BLOCKNO(@)]

(* A variant: the free list keeps the block that is taken in. *)
assimilate_up_StaysListed(h, c) ==
  LET n == h[NBLOCK(c)]
      after == BLOCKNO(h[NBLOCK(n)])
  IN  IF IsFree(h, n) THEN [h EXCEPT ![PBLOCK(after)] = c, ![NBLOCK(c)] = after] ELSE h

assimilate_up(h, c) ==
  LET n == h[NBLOCK(c)]
      g == disconnect_from_free_list(h, n)
      after == g[NBLOCK(n)]
  IN  IF IsFree(h, n) THEN [g EXCEPT ![PBLOCK(after)] = c, ![NBLOCK(c)] = after] ELSE h

assimilate_down(h, c, mask) ==
  LET p == h[PBLOCK(c)]
  IN  [h EXCEPT ![NBLOCK(p)] = h[NBLOCK(c)] + mask, ![PBLOCK(h[NBLOCK(c)])] = p]

(* A variant: a block is only put on the free list. *)
umm_free_Apart(h, c) ==
  LET first == h[NFREE(0)]
  IN  [h EXCEPT ![PFREE(first)] = c, ![NFREE(c)] = first, ![PFREE(c)] = 0,
                ![NFREE(0)] = c, ![NBLOCK(c)] = @ + FREELIST_MASK]

umm_free(h, c) ==
  LET g == assimilate_up(h, c)
      first == g[NFREE(0)]
  IN  IF IsFree(g, g[PBLOCK(c)]) THEN assimilate_down(g, c, FREELIST_MASK)
      ELSE [g EXCEPT ![PFREE(first)] = c, ![NFREE(c)] = first, ![PFREE(c)] = 0,
                     ![NFREE(0)] = c, ![NBLOCK(c)] = @ + FREELIST_MASK]

(* The free blocks in the order of the list; 0 after the last one.         *)
FreeList(h) ==
  LET nth[k \in 0..NumBlocks] == IF k = 0 THEN h[NFREE(0)]
                                 ELSE IF nth[k - 1] = 0 THEN 0 ELSE h[NFREE(nth[k - 1])]
  IN  nth

(* The smallest block that will do, the first one of that size.            *)
BestFit(h, n) ==
  LET list == FreeList(h)
      fits == {k \in DOMAIN list : list[k] # 0 /\ BlockSize(h, list[k]) >= n}
      better(j, k) == LET x == BlockSize(h, list[j])
                          y == BlockSize(h, list[k])
                      IN  x < y \/ (x = y /\ j <= k)
  IN  IF fits = {} THEN 0 ELSE list[CHOOSE k \in fits : \A j \in fits : better(k, j)]

umm_malloc(h, bytes) ==
  LET n == blocks(bytes)
      cf == BestFit(h, n)
      rest == cf + n
      split == [split_block(h, cf, n, FREELIST_MASK) EXCEPT
                  ![NFREE(h[PFREE(cf)])] = rest, ![PFREE(rest)] = h[PFREE(cf)],
                  ![PFREE(h[NFREE(cf)])] = rest, ![NFREE(rest)] = h[NFREE(cf)]]
  IN  IF bytes = 0 \/ cf = 0 THEN [heap |-> h, c |-> 0]
      ELSE [heap |-> IF BlockSize(h, cf) = n THEN disconnect_from_free_list(h, cf) ELSE split,
            c |-> cf]

(* A variant: what follows the data of the first block stays behind. *)
Moved_FirstBlock(h, b, d, count) == [h EXCEPT ![NFREE(d)] = h[NFREE(b)], ![PFREE(d)] = h[PFREE(b)]]

(* The data of block b, count words, to the data of block d.               *)
Moved(h, b, d, count) ==
  [a \in DOMAIN h |-> IF a \in NFREE(d) .. (NFREE(d) + count - 1) THEN h[a - NFREE(d) + NFREE(b)] ELSE h[a]]

umm_realloc(h, c, bytes) ==
  LET n == blocks(bytes)
      curWords == 4 * BlockSize(h, c) - 2
      up == assimilate_up(h, c)
      prev == up[PBLOCK(c)]
      down == IsFree(up, prev) /\ n <= up[NBLOCK(c)] - prev
      d == IF down THEN prev ELSE c
      g == IF down THEN Moved(assimilate_down(disconnect_from_free_list(up, prev), c, 0), c, d, curWords)
           ELSE up
      now == BlockSize(g, d)
      new == umm_malloc(g, bytes)
      copied == IF new.c = 0 THEN new.heap ELSE Moved(new.heap, d, new.c, curWords)
  IN  CASE bytes = 0 -> [heap |-> umm_free(h, c), c |-> 0]
        [] bytes # 0 /\ BlockSize(h, c) = n -> [heap |-> h, c |-> c]
        [] bytes # 0 /\ BlockSize(h, c) # n /\ now = n -> [heap |-> g, c |-> d]
        [] bytes # 0 /\ BlockSize(h, c) # n /\ now > n ->
             [heap |-> umm_free(split_block(g, d, n, 0), d + n), c |-> d]
        [] OTHER -> [heap |-> umm_free(copied, d), c |-> new.c]

--------------------------------------------------------------------------------
(* The caller. *)
Filled(h, b, from, to, v) ==
  [a \in DOMAIN h |-> IF a \in DataWords(b, to) \ DataWords(b, from) THEN v ELSE h[a]]

Init == /\ umm_heap = umm_init
        /\ ptr = [p \in Pointers |-> 0]
        /\ size = [p \in Pointers |-> 0]
        /\ value = [p \in Pointers |-> 0]
        /\ refused = 0

(* p gets what call r returned; kept bytes of it hold its value already.   *)
Gets(p, r, bytes, kept, v) ==
  /\ umm_heap' = IF r.c = 0 THEN r.heap ELSE Filled(r.heap, r.c, kept, bytes, v)
  /\ ptr' = [ptr EXCEPT ![p] = r.c]
  /\ size' = [size EXCEPT ![p] = IF r.c = 0 THEN 0 ELSE bytes]
  /\ value' = [value EXCEPT ![p] = IF r.c = 0 THEN 0 ELSE v]
  /\ refused' = IF r.c = 0 /\ bytes > 0 THEN blocks(bytes) ELSE 0

Malloc(p, bytes) == /\ ptr[p] = 0
                    /\ Gets(p, umm_malloc(umm_heap, bytes), bytes, 0, p)

(* umm_calloc(): its zeros are left as they are. *)
Calloc(p, bytes) == /\ ptr[p] = 0
                    /\ Gets(p, umm_malloc(umm_heap, bytes), bytes, 0, 0)

Free(p) == /\ ptr[p] # 0
           /\ Gets(p, [heap |-> umm_free(umm_heap, ptr[p]), c |-> 0], 0, 0, 0)

Realloc(p, bytes) ==
  /\ ptr[p] # 0
  /\ Gets(p, umm_realloc(umm_heap, ptr[p], bytes), bytes, size[p], value[p])

Next == \E p \in Pointers : \/ Free(p)
                            \/ \E bytes \in Sizes : Malloc(p, bytes) \/ Calloc(p, bytes) \/ Realloc(p, bytes)
Spec == Init /\ [][Next]_vars
--------------------------------------------------------------------------------
Live == {p \in Pointers : ptr[p] # 0}

(* What a caller has in its memory stays there whatever is called for the  *)
(* other pointers, and through umm_realloc(), as far as both sizes go: no  *)
(* two pieces overlap, and no link is written where data are.              *)
ContentsKept == \A p \in Live : \A a \in DataWords(ptr[p], size[p]) : umm_heap[a] = value[p]

ListedBlocks(h) ==
  LET nth[k \in 0..NumBlocks] == IF k = 0 THEN 0
                                 ELSE IF nth[k - 1] = NumBlocks - 1 THEN NumBlocks - 1
                                 ELSE BLOCKNO(h[NBLOCK(nth[k - 1])])
  IN  {nth[k] : k \in DOMAIN nth}

(* umm_integrity_check(): the links of the blocks and of the free blocks   *)
(* agree both ways, and the free blocks are those that are marked.  The    *)
(* blocks in use are those of the caller, and no two free blocks are       *)
(* neighbours: what is freed can be given out again as one piece.          *)
ListsAgree ==
  LET h == umm_heap
      list == FreeList(h)
      all == ListedBlocks(h)
      free == {list[k] : k \in DOMAIN list} \ {0}
      next(b) == BLOCKNO(h[NBLOCK(b)])
  IN  /\ list[NumBlocks] = 0
      /\ \A b \in free \cup {0} : h[PFREE(h[NFREE(b)])] = b
      /\ \A b \in all \ {NumBlocks - 1} : next(b) \in b + 1 .. NumBlocks - 1 /\ h[PBLOCK(next(b))] = b
      /\ free = {b \in all : IsFree(h, b)}
      /\ all = free \cup {ptr[p] : p \in Live} \cup {0, NumBlocks - 1}
      /\ \A b \in free : next(b) \notin free

(* What a call can see of the heap: the links and what its caller keeps.   *)
(* The other words hold what was left there and are not read.              *)
HeapView ==
  LET h == umm_heap
      heads == ListedBlocks(h)
      free == {b \in heads : IsFree(h, b)} \cup {0}
      seen == {NBLOCK(b) : b \in heads} \cup {PBLOCK(b) : b \in heads \ {0}}
              \cup {NFREE(b) : b \in free} \cup {PFREE(b) : b \in free}
              \cup UNION {DataWords(ptr[p], size[p]) : p \in Live}
  IN  <<[a \in seen |-> h[a]], ptr, size, value, refused>>

(* NULL is returned only where no gap between the pieces in use is big     *)
(* enough; umm_realloc() counts its own piece as a gap.                    *)
NullMeansFull ==
  LET inUse == UNION {ptr[p] .. (ptr[p] + blocks(size[p]) - 1) : p \in Live}
  IN  refused > 0 => \A b \in 1..(NumBlocks - 1 - refused) : (b .. (b + refused - 1)) \cap inUse # {}
================================================================================
