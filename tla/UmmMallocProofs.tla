---------------------------- MODULE UmmMallocProofs ----------------------------
(***************************************************************************)
(* umm_malloc for a heap of any size, any pointers and any sizes asked for: *)
(* through every sequence of calls the two lists of the heap agree, what a *)
(* caller keeps stays as it is, and NULL means that there is no room.      *)
(*                                                                         *)
(* The words of the heap stand for: heads, the blocks that begin a piece;  *)
(* nx, the piece after each; free, the pieces that are free; and the free  *)
(* list, L[1] to L[K], with 0 at both ends.                                *)
(***************************************************************************)
EXTENDS UmmMalloc, FiniteSetTheorems, WellFoundedInduction, TLAPS

Words == 0 .. (4 * NumBlocks - 1)
Numbers == 0 .. (NumBlocks - 1)
LastBlock == NumBlocks - 1

(* The list of all pieces, in both directions, and the mark of the free.   *)
Blocks(h, heads, nx, free) ==
  /\ h \in [Words -> Nat]
  /\ heads \subseteq Numbers /\ 0 \in heads /\ LastBlock \in heads
  /\ free \subseteq heads \ {0, LastBlock}
  /\ nx \in [heads -> Numbers] /\ nx[LastBlock] = 0
  /\ \A b \in heads \ {LastBlock} :
       /\ nx[b] \in heads /\ b < nx[b] /\ \A c \in heads : c <= b \/ nx[b] <= c
       /\ h[PBLOCK(nx[b])] = b
  /\ \A b \in heads \ {0} : h[PBLOCK(b)] \in heads \ {LastBlock} /\ nx[h[PBLOCK(b)]] = b
  /\ \A b \in heads : h[NBLOCK(b)] = IF b \in free THEN nx[b] + FREELIST_MASK ELSE nx[b]

(* The list of the free pieces, in both directions.                        *)
List(h, free, K, L) ==
  /\ K \in Nat /\ L \in [0 .. K + 1 -> Nat] /\ L[0] = 0 /\ L[K + 1] = 0
  /\ \A k \in 1 .. K : L[k] \in free
  /\ \A j, k \in 1 .. K : L[j] = L[k] => j = k
  /\ \A b \in free : \E k \in 1 .. K : L[k] = b
  /\ \A k \in 0 .. K : h[NFREE(L[k])] = L[k + 1] /\ h[PFREE(L[k + 1])] = L[k]

Heap(h, heads, nx, free) ==
  Blocks(h, heads, nx, free) /\ \E K, L : List(h, free, K, L)

(* Block 0 is a piece of its own; no two free pieces are neighbours.       *)
Apart(nx, free) == nx[0] = 1 /\ \A b \in free : nx[b] \notin free

(* The pieces in use, and the words of one of them that are its owner's.   *)
Used(heads, free) == heads \ (free \cup {0, LastBlock})
Data(nx, b) == NFREE(b) .. (4 * nx[b] - 1)
Same(h, g, words) == \A a \in words : g[a] = h[a]
SameLinks(h, g, heads) == \A b \in heads : g[NFREE(b)] = h[NFREE(b)] /\ g[PFREE(b)] = h[PFREE(b)]

-----------------------------------------------------------------------------
(* Block numbers are smaller than the mark.                                 *)
LEMMA Sizing == NumBlocks \in Nat /\ NumBlocks >= 3 /\ NumBlocks <= FREELIST_MASK
                /\ FREELIST_MASK \in Nat
BY HeapAssumption

(* A block number and a mark are told apart again. *)
LEMMA NumberFacts ==
  ASSUME NEW n \in Numbers
  PROVE  /\ BLOCKNO(n) = n /\ BLOCKNO(n + FREELIST_MASK) = n
         /\ n < FREELIST_MASK
<1>1. \A m \in Nat : \A i \in Nat : i < m => i % m = i /\ (i + m) % m = i
  OBVIOUS
<1>2. n \in Nat /\ n < FREELIST_MASK
  BY Sizing DEF Numbers
<1> QED BY <1>1, <1>2, Sizing DEF BLOCKNO

(* What the first word of a piece says.                                   *)
LEMMA NextFacts ==
  ASSUME NEW h, NEW heads, NEW nx, NEW free, Blocks(h, heads, nx, free), NEW b \in heads
  PROVE  /\ BLOCKNO(h[NBLOCK(b)]) = nx[b] /\ BlockSize(h, b) = nx[b] - b
         /\ IsFree(h, b) <=> b \in free
         /\ b \notin free => h[NBLOCK(b)] = nx[b]
<1>1. nx[b] \in Numbers /\ nx[b] \in Nat
  BY DEF Blocks, Numbers
<1>2. h[NBLOCK(b)] = IF b \in free THEN nx[b] + FREELIST_MASK ELSE nx[b]
  BY DEF Blocks
<1>3. BLOCKNO(h[NBLOCK(b)]) = nx[b]
  BY <1>1, <1>2, NumberFacts
<1>4. IsFree(h, b) <=> b \in free
  BY <1>1, <1>2, NumberFacts, Sizing DEF IsFree
<1> QED BY <1>2, <1>3, <1>4 DEF BlockSize

(* What Blocks and List look at. *)
LEMMA BlocksKept ==
  ASSUME NEW h, NEW heads, NEW nx, NEW free, Blocks(h, heads, nx, free),
         NEW g \in [Words -> Nat],
         \A b \in heads : g[NBLOCK(b)] = h[NBLOCK(b)] /\ g[PBLOCK(b)] = h[PBLOCK(b)]
  PROVE  Blocks(g, heads, nx, free)
BY DEF Blocks

LEMMA ListKept ==
  ASSUME NEW h, NEW free, NEW K, NEW L, List(h, free, K, L), NEW g,
         \A b \in free \cup {0} : g[NFREE(b)] = h[NFREE(b)] /\ g[PFREE(b)] = h[PFREE(b)]
  PROVE  List(g, free, K, L)
<1>1. \A k \in 0 .. K + 1 : L[k] \in free \cup {0}
  BY DEF List
<1>2. \A k \in 0 .. K : k \in 0 .. K + 1 /\ k + 1 \in 0 .. K + 1
  BY DEF List
<1>3. \A k \in 0 .. K : g[NFREE(L[k])] = L[k + 1] /\ g[PFREE(L[k + 1])] = L[k]
  BY <1>1, <1>2 DEF List
<1> QED BY <1>3 DEF List

(* Two pieces share no block. *)
LEMMA Geometry ==
  ASSUME NEW h, NEW heads, NEW nx, NEW free, Blocks(h, heads, nx, free),
         NEW b \in heads \ {LastBlock}, NEW c \in heads
  PROVE  /\ b \in Nat /\ c \in Nat /\ nx[b] \in Nat /\ b < nx[b] /\ nx[b] <= LastBlock
         /\ c <= b \/ nx[b] <= c
         /\ c # b /\ c # LastBlock => nx[c] # nx[b]
<1>1. b \in Nat /\ c \in Nat /\ nx[b] \in Nat /\ nx[b] <= LastBlock
  BY Sizing DEF Blocks, Numbers, LastBlock
<1>2. b < nx[b] /\ (c <= b \/ nx[b] <= c)
  BY DEF Blocks
<1>3. c # b /\ c # LastBlock => nx[c] # nx[b]
  BY DEF Blocks
<1> QED BY <1>1, <1>2, <1>3

-----------------------------------------------------------------------------
(* disconnect_from_free_list(): the piece is in use from then on.          *)
LEMMA DisconnectWords ==
  ASSUME NEW h, NEW heads, NEW nx, NEW free, Blocks(h, heads, nx, free),
         NEW K, NEW L, List(h, free, K, L), NEW i \in 1 .. K
  PROVE  LET g == disconnect_from_free_list(h, L[i])
         IN  /\ g \in [Words -> Nat]
             /\ \A a \in Words :
                  g[a] = CASE a = NBLOCK(L[i]) -> nx[L[i]]
                           [] a = PFREE(L[i + 1]) -> L[i - 1]
                           [] a = NFREE(L[i - 1]) -> L[i + 1]
                           [] OTHER -> h[a]
<1> DEFINE c == L[i]
           p == L[i - 1]
           q == L[i + 1]
           g == disconnect_from_free_list(h, c)
<1>1. /\ K \in Nat /\ i \in Nat /\ i - 1 \in 0 .. K /\ i + 1 \in 0 .. K + 1
      /\ i \in 0 .. K /\ (i - 1) + 1 = i
  BY DEF List
<1>2. h[PFREE(c)] = p /\ h[NFREE(c)] = q
  BY <1>1 DEF List
<1>3. c \in free /\ p \in free \cup {0} /\ q \in free \cup {0}
  BY <1>1 DEF List
<1>4. c \in Numbers /\ p \in Numbers /\ q \in Numbers
  BY <1>3, Sizing DEF Blocks, Numbers
<1>5. BLOCKNO(h[NBLOCK(c)]) = nx[c] /\ nx[c] \in Nat
  <2>1. c \in heads /\ nx[c] \in Numbers
    BY <1>3 DEF Blocks
  <2> QED BY <2>1, NextFacts DEF Numbers
<1> HIDE DEF c, p, q
<1>6. g = [h EXCEPT ![NFREE(p)] = q, ![PFREE(q)] = p, ![NBLOCK(c)] = BLOCKNO(@)]
  BY <1>2 DEF disconnect_from_free_list
<1>7. h \in [Words -> Nat]
  BY DEF Blocks
<1>8. NFREE(p) \in Words /\ PFREE(q) \in Words /\ NBLOCK(c) \in Words
      /\ NFREE(p) # PFREE(q) /\ NBLOCK(c) # NFREE(p) /\ NBLOCK(c) # PFREE(q)
  BY <1>4, Sizing DEF Numbers, Words, NFREE, PFREE, NBLOCK
<1>9. p \in Nat /\ q \in Nat
  BY <1>4 DEF Numbers
<1>10. g = [h EXCEPT ![NFREE(p)] = q, ![PFREE(q)] = p, ![NBLOCK(c)] = nx[c]]
  BY <1>5, <1>6, <1>7, <1>8
<1> HIDE DEF g
<1>11. g \in [Words -> Nat]
  BY <1>5, <1>7, <1>9, <1>10
<1>12. \A a \in Words :
          g[a] = CASE a = NBLOCK(c) -> nx[c]
                   [] a = PFREE(q) -> p
                   [] a = NFREE(p) -> q
                   [] OTHER -> h[a]
  BY <1>7, <1>8, <1>10
<1> QED BY <1>11, <1>12 DEF g, c, p, q

(* Where the free list goes through, before and after its i-th piece.     *)
LEMMA ListNumbers ==
  ASSUME NEW h, NEW heads, NEW nx, NEW free, Blocks(h, heads, nx, free),
         NEW K, NEW L, List(h, free, K, L)
  PROVE  /\ \A k \in 0 .. K + 1 : L[k] \in Numbers
         /\ \A j, k \in 0 .. K + 1 :
              L[j] = L[k] => j = k \/ (j = 0 /\ k = K + 1) \/ (j = K + 1 /\ k = 0)
<1>1. K \in Nat /\ L[0] = 0 /\ L[K + 1] = 0
  BY DEF List
<1>2. \A k \in 0 .. K + 1 : k = 0 \/ k = K + 1 \/ k \in 1 .. K
  BY <1>1
<1>3. \A k \in 1 .. K : L[k] \in Numbers /\ L[k] # 0
  BY DEF List, Blocks
<1>4. 0 \in Numbers
  BY Sizing DEF Numbers
<1>5. \A k \in 0 .. K + 1 : L[k] \in Numbers
  BY <1>1, <1>2, <1>3, <1>4
<1>6. \A j, k \in 1 .. K : L[j] = L[k] => j = k
  BY DEF List
<1> QED BY <1>1, <1>2, <1>3, <1>5, <1>6

(* The free list without its i-th piece.                                  *)
LEMMA DisconnectList ==
  ASSUME NEW h, NEW heads, NEW nx, NEW free, Blocks(h, heads, nx, free),
         NEW K, NEW L, List(h, free, K, L), NEW i \in 1 .. K
  PROVE  List(disconnect_from_free_list(h, L[i]), free \ {L[i]}, K - 1,
              [k \in 0 .. K |-> IF k < i THEN L[k] ELSE L[k + 1]])
<1> DEFINE c == L[i]
           g == disconnect_from_free_list(h, c)
           M == [k \in 0 .. K |-> IF k < i THEN L[k] ELSE L[k + 1]]
<1>1. K \in Nat /\ i \in 1 .. K /\ L \in [0 .. K + 1 -> Nat] /\ L[0] = 0 /\ L[K + 1] = 0
  BY DEF List
<1>2. \A a \in Words :
        g[a] = CASE a = NBLOCK(c) -> nx[c]
                 [] a = PFREE(L[i + 1]) -> L[i - 1]
                 [] a = NFREE(L[i - 1]) -> L[i + 1]
                 [] OTHER -> h[a]
  BY DisconnectWords
<1> HIDE DEF g
<1>3. K - 1 \in Nat /\ (K - 1) + 1 = K /\ M \in [0 .. K -> Nat] /\ M[0] = 0 /\ M[K] = 0
  BY <1>1
<1>4. \A k \in 1 .. K - 1 : M[k] \in free \ {c}
  BY <1>1 DEF List
<1>5. \A j, k \in 1 .. K - 1 : M[j] = M[k] => j = k
  <2> SUFFICES ASSUME NEW j \in 1 .. K - 1, NEW k \in 1 .. K - 1, M[j] = M[k]
               PROVE  j = k
    OBVIOUS
  <2> DEFINE j1 == IF j < i THEN j ELSE j + 1
             k1 == IF k < i THEN k ELSE k + 1
  <2>1. j1 \in 1 .. K /\ k1 \in 1 .. K /\ M[j] = L[j1] /\ M[k] = L[k1]
    BY <1>1
  <2>2. j1 = k1
    <3>1. \A x, y \in 1 .. K : L[x] = L[y] => x = y
      BY DEF List
    <3>2. M[j] = M[k]
      OBVIOUS
    <3> HIDE DEF j1, k1, M
    <3> QED BY <2>1, <3>1, <3>2
  <2> QED BY <1>1, <2>2
<1>6. \A b \in free \ {c} : \E k \in 1 .. K - 1 : M[k] = b
  <2> SUFFICES ASSUME NEW b \in free, b # c
               PROVE  \E k \in 1 .. K - 1 : M[k] = b
    OBVIOUS
  <2>1. PICK j \in 1 .. K : L[j] = b
    BY DEF List
  <2>2. CASE j < i
    <3>1. j \in 1 .. K - 1 /\ M[j] = b
      BY <1>1, <2>1, <2>2
    <3> QED BY <3>1
  <2>3. CASE j > i
    <3>1. j - 1 \in 1 .. K - 1 /\ M[j - 1] = b
      BY <1>1, <2>1, <2>3
    <3> QED BY <3>1
  <2>4. j # i
    BY <2>1
  <2>5. j < i \/ j > i
    BY <1>1, <2>4
  <2> QED BY <2>2, <2>3, <2>5
<1>7. \A k \in 0 .. K + 1 : L[k] \in Numbers
  BY ListNumbers
<1>8. \A j, k \in 0 .. K + 1 :
        L[j] = L[k] => j = k \/ (j = 0 /\ k = K + 1) \/ (j = K + 1 /\ k = 0)
  BY ListNumbers
<1>9. ASSUME NEW k \in 0 .. K - 1
      PROVE  g[NFREE(M[k])] = M[k + 1] /\ g[PFREE(M[k + 1])] = M[k]
  <2>1. \A n \in Numbers : /\ NFREE(n) \in Words /\ PFREE(n) \in Words
                           /\ NFREE(n) = 4 * n + 2 /\ PFREE(n) = 4 * n + 3 /\ NBLOCK(n) = 4 * n
    BY Sizing DEF Numbers, Words, NFREE, PFREE, NBLOCK
  <2>2. CASE k + 1 < i
    <3>1. M[k] = L[k] /\ M[k + 1] = L[k + 1] /\ k \in 0 .. K /\ k \in 0 .. K + 1
          /\ k + 1 \in 0 .. K + 1 /\ i - 1 \in 0 .. K + 1 /\ i + 1 \in 0 .. K + 1
      BY <1>1, <2>2
    <3>2. L[k] # L[i - 1] /\ L[k + 1] # L[i + 1]
      BY <1>1, <1>8, <2>2, <3>1
    <3>3. h[NFREE(L[k])] = L[k + 1] /\ h[PFREE(L[k + 1])] = L[k]
      BY <3>1 DEF List
    <3>4. L[k] \in Numbers /\ L[k + 1] \in Numbers /\ L[i - 1] \in Numbers
          /\ L[i + 1] \in Numbers /\ c \in Numbers
      BY <1>1, <1>7, <3>1
    <3>5. /\ NFREE(L[k]) # NBLOCK(c) /\ NFREE(L[k]) # PFREE(L[i + 1])
          /\ NFREE(L[k]) # NFREE(L[i - 1])
          /\ PFREE(L[k + 1]) # NBLOCK(c) /\ PFREE(L[k + 1]) # PFREE(L[i + 1])
          /\ PFREE(L[k + 1]) # NFREE(L[i - 1])
      BY <3>2, <3>4 DEF Numbers, NFREE, PFREE, NBLOCK
    <3> QED BY <1>2, <2>1, <3>1, <3>3, <3>4, <3>5
  <2>3. CASE k + 1 = i
    <3>1. M[k] = L[i - 1] /\ M[k + 1] = L[i + 1] /\ i - 1 \in 0 .. K + 1 /\ i + 1 \in 0 .. K + 1
      <4>1. k = i - 1 /\ k < i /\ ~(k + 1 < i) /\ k \in 0 .. K /\ k + 1 \in 0 .. K
            /\ (k + 1) + 1 = i + 1
        BY <1>1, <2>3
      <4>2. M[k] = L[k] /\ M[k + 1] = L[(k + 1) + 1]
        BY <4>1
      <4> QED BY <1>1, <4>1, <4>2
    <3>4. L[i - 1] \in Numbers /\ L[i + 1] \in Numbers /\ c \in Numbers
      BY <1>1, <1>7, <3>1
    <3>5. /\ NFREE(L[i - 1]) # NBLOCK(c) /\ NFREE(L[i - 1]) # PFREE(L[i + 1])
          /\ PFREE(L[i + 1]) # NBLOCK(c)
      BY <3>4 DEF Numbers, NFREE, PFREE, NBLOCK
    <3> QED BY <1>2, <2>1, <3>1, <3>4, <3>5
  <2>4. CASE k >= i
    <3>1. M[k] = L[k + 1] /\ M[k + 1] = L[k + 2] /\ k + 1 \in 0 .. K /\ k + 1 \in 0 .. K + 1
          /\ k + 2 \in 0 .. K + 1 /\ i - 1 \in 0 .. K + 1 /\ i + 1 \in 0 .. K + 1
          /\ (k + 1) + 1 = k + 2
      BY <1>1, <2>4
    <3>2. L[k + 1] # L[i - 1] /\ L[k + 2] # L[i + 1]
      BY <1>1, <1>8, <2>4, <3>1
    <3>3. h[NFREE(L[k + 1])] = L[k + 2] /\ h[PFREE(L[k + 2])] = L[k + 1]
      BY <3>1 DEF List
    <3>4. L[k + 1] \in Numbers /\ L[k + 2] \in Numbers /\ L[i - 1] \in Numbers
          /\ L[i + 1] \in Numbers /\ c \in Numbers
      BY <1>1, <1>7, <3>1
    <3>5. /\ NFREE(L[k + 1]) # NBLOCK(c) /\ NFREE(L[k + 1]) # PFREE(L[i + 1])
          /\ NFREE(L[k + 1]) # NFREE(L[i - 1])
          /\ PFREE(L[k + 2]) # NBLOCK(c) /\ PFREE(L[k + 2]) # PFREE(L[i + 1])
          /\ PFREE(L[k + 2]) # NFREE(L[i - 1])
      BY <3>2, <3>4 DEF Numbers, NFREE, PFREE, NBLOCK
    <3> QED BY <1>2, <2>1, <3>1, <3>3, <3>4, <3>5
  <2> QED BY <1>1, <2>2, <2>3, <2>4
<1> HIDE DEF M
<1>10. List(g, free \ {c}, K - 1, M)
  BY <1>3, <1>4, <1>5, <1>6, <1>9 DEF List
<1> QED BY <1>10 DEF g, M

(* The words of the header of a piece, and those where the free list goes   *)
(* through, are not the data of a piece in use.                             *)
LEMMA HeadersApart ==
  ASSUME NEW h, NEW heads, NEW nx, NEW free, Blocks(h, heads, nx, free),
         NEW u \in Used(heads, free)
  PROVE  /\ u \in Nat /\ nx[u] \in Nat /\ u < nx[u] /\ nx[u] <= LastBlock /\ u > 0
         /\ Data(nx, u) \subseteq Words
         /\ \A b \in heads : NBLOCK(b) \notin Data(nx, u) /\ PBLOCK(b) \notin Data(nx, u)
         /\ \A b \in free \cup {0} : NFREE(b) \notin Data(nx, u) /\ PFREE(b) \notin Data(nx, u)
<1>1. u \in heads \ {LastBlock} /\ u \notin free /\ u # 0
  BY DEF Used
<1>2. u \in Nat /\ nx[u] \in Nat /\ u < nx[u] /\ nx[u] <= LastBlock
  BY <1>1, Geometry
<1>3. Data(nx, u) \subseteq Words
  BY <1>2, Sizing DEF Data, Words, NFREE, LastBlock
<1>4. \A b \in heads : b \in Nat /\ (b <= u \/ nx[u] <= b)
  BY <1>1, Geometry
<1>5. \A b \in heads : NBLOCK(b) \notin Data(nx, u) /\ PBLOCK(b) \notin Data(nx, u)
  BY <1>2, <1>4 DEF Data, NBLOCK, PBLOCK, NFREE
<1>6. ASSUME NEW b \in free \cup {0}
      PROVE  NFREE(b) \notin Data(nx, u) /\ PFREE(b) \notin Data(nx, u)
  <2>1. b \in heads /\ b # u
    BY <1>1 DEF Blocks
  <2>2. b \in Nat /\ (b < u \/ nx[u] <= b)
    BY <1>2, <1>4, <2>1
  <2> QED BY <1>2, <2>2 DEF Data, NFREE, PFREE
<1> QED BY <1>1, <1>2, <1>3, <1>5, <1>6

(* The heap after it: the data of the pieces in use are as they were.     *)
LEMMA DisconnectFacts ==
  ASSUME NEW h, NEW heads, NEW nx, NEW free, Heap(h, heads, nx, free), NEW c \in free,
         NEW g, g = disconnect_from_free_list(h, c)
  PROVE  /\ Heap(g, heads, nx, free \ {c})
         /\ \A u \in Used(heads, free) : Same(h, g, Data(nx, u))
<1>1. Blocks(h, heads, nx, free)
  BY DEF Heap
<1>2. PICK K, L : List(h, free, K, L)
  BY DEF Heap
<1>3. PICK i \in 1 .. K : L[i] = c
  BY <1>2 DEF List
<1>4. \E L1 : List(g, free \ {c}, K - 1, L1)
  <2>1. \E L1 : List(disconnect_from_free_list(h, L[i]), free \ {L[i]}, K - 1, L1)
    BY <1>1, <1>2, DisconnectList, Zenon
  <2> QED BY <1>3, <2>1
<1>5. /\ g \in [Words -> Nat]
      /\ \A a \in Words :
           g[a] = CASE a = NBLOCK(L[i]) -> nx[L[i]]
                    [] a = PFREE(L[i + 1]) -> L[i - 1]
                    [] a = NFREE(L[i - 1]) -> L[i + 1]
                    [] OTHER -> h[a]
  BY <1>1, <1>2, <1>3, DisconnectWords
<1>6. L[i - 1] \in free \cup {0} /\ L[i + 1] \in free \cup {0}
  BY <1>2 DEF List
<1>7. \A b \in heads : /\ b \in Nat /\ NBLOCK(b) \in Words /\ PBLOCK(b) \in Words
  BY <1>1, Sizing DEF Blocks, Numbers, Words, NBLOCK, PBLOCK
<1>8. c \in heads /\ L[i - 1] \in heads /\ L[i + 1] \in heads /\ c \in free
  BY <1>1, <1>6 DEF Blocks
<1>9. /\ \A b \in heads \ {c} : g[NBLOCK(b)] = h[NBLOCK(b)]
      /\ \A b \in heads : g[PBLOCK(b)] = h[PBLOCK(b)]
      /\ g[NBLOCK(c)] = nx[c]
  <2>1. \A b, d \in heads : /\ NBLOCK(b) # PFREE(d) /\ NBLOCK(b) # NFREE(d)
                            /\ PBLOCK(b) # PFREE(d) /\ PBLOCK(b) # NFREE(d)
                            /\ PBLOCK(b) # NBLOCK(d) /\ (b # d => NBLOCK(b) # NBLOCK(d))
    BY <1>7 DEF NBLOCK, PBLOCK, NFREE, PFREE
  <2> QED BY <1>3, <1>5, <1>7, <1>8, <2>1
<1>10. Blocks(g, heads, nx, free \ {c})
  BY <1>1, <1>5, <1>9 DEF Blocks
<1>11. ASSUME NEW u \in Used(heads, free), NEW a \in Data(nx, u)
       PROVE  g[a] = h[a]
  BY <1>1, <1>3, <1>5, <1>6, <1>8, HeadersApart
<1> QED BY <1>4, <1>10, <1>11 DEF Heap, Same

(* The end of umm_free(): a piece goes to the front of the free list.       *)
Inserted(h, c) ==
  [h EXCEPT ![PFREE(h[NFREE(0)])] = c, ![NFREE(c)] = h[NFREE(0)], ![PFREE(c)] = 0,
            ![NFREE(0)] = c, ![NBLOCK(c)] = @ + FREELIST_MASK]

LEMMA InsertWords ==
  ASSUME NEW h, NEW heads, NEW nx, NEW free, Blocks(h, heads, nx, free),
         NEW first \in free \cup {0}, h[NFREE(0)] = first, NEW c \in Used(heads, free)
  PROVE  /\ Inserted(h, c) \in [Words -> Nat]
         /\ \A a \in Words :
              Inserted(h, c)[a] = CASE a = NBLOCK(c) -> nx[c] + FREELIST_MASK
                                    [] a = NFREE(0) -> c
                                    [] a = PFREE(c) -> 0
                                    [] a = NFREE(c) -> first
                                    [] a = PFREE(first) -> c
                                    [] OTHER -> h[a]
<1>1. c \in heads /\ c \notin free /\ c # 0 /\ first # c /\ first \in heads
  BY DEF Used, Blocks
<1>2. c \in Numbers /\ first \in Numbers /\ 0 \in Numbers /\ c \in Nat /\ first \in Nat
      /\ h \in [Words -> Nat]
  BY <1>1 DEF Blocks, Numbers
<1>3. h[NBLOCK(c)] = nx[c] /\ nx[c] + FREELIST_MASK \in Nat
  <2>1. nx[c] \in Numbers
    BY <1>1 DEF Blocks
  <2> QED BY <1>1, <2>1, NextFacts, Sizing DEF Numbers
<1>4. /\ PFREE(first) \in Words /\ NFREE(c) \in Words /\ PFREE(c) \in Words
      /\ NFREE(0) \in Words /\ NBLOCK(c) \in Words
      /\ NBLOCK(c) # NFREE(0) /\ NBLOCK(c) # PFREE(c) /\ NBLOCK(c) # NFREE(c)
      /\ NBLOCK(c) # PFREE(first)
  BY <1>2, Sizing DEF Numbers, Words, NFREE, PFREE, NBLOCK
<1> DEFINE g == Inserted(h, c)
<1>5. g = [h EXCEPT ![PFREE(first)] = c, ![NFREE(c)] = first, ![PFREE(c)] = 0,
                    ![NFREE(0)] = c, ![NBLOCK(c)] = nx[c] + FREELIST_MASK]
  BY <1>2, <1>3, <1>4 DEF Inserted
<1> HIDE DEF g
<1>6. g \in [Words -> Nat]
  BY <1>2, <1>3, <1>5
<1>7. \A a \in Words : g[a] = CASE a = NBLOCK(c) -> nx[c] + FREELIST_MASK
                                [] a = NFREE(0) -> c
                                [] a = PFREE(c) -> 0
                                [] a = NFREE(c) -> first
                                [] a = PFREE(first) -> c
                                [] OTHER -> h[a]
  BY <1>2, <1>4, <1>5
<1> QED BY <1>6, <1>7 DEF g

(* The free list with a piece more, at its front.                         *)
LEMMA InsertList ==
  ASSUME NEW h, NEW heads, NEW nx, NEW free, Blocks(h, heads, nx, free),
         NEW K, NEW L, List(h, free, K, L), NEW c \in Used(heads, free)
  PROVE  List(Inserted(h, c), free \cup {c}, K + 1,
              [k \in 0 .. K + 2 |-> IF k = 0 THEN 0 ELSE IF k = 1 THEN c ELSE L[k - 1]])
<1> DEFINE g == Inserted(h, c)
           M == [k \in 0 .. K + 2 |-> IF k = 0 THEN 0 ELSE IF k = 1 THEN c ELSE L[k - 1]]
           first == L[1]
<1>1. K \in Nat /\ L \in [0 .. K + 1 -> Nat] /\ L[0] = 0 /\ L[K + 1] = 0
  BY DEF List
<1>2. first \in free \cup {0} /\ h[NFREE(0)] = first
  BY <1>1 DEF List
<1>3. \A a \in Words : g[a] = CASE a = NBLOCK(c) -> nx[c] + FREELIST_MASK
                                [] a = NFREE(0) -> c
                                [] a = PFREE(c) -> 0
                                [] a = NFREE(c) -> first
                                [] a = PFREE(first) -> c
                                [] OTHER -> h[a]
  BY <1>2, InsertWords
<1>4. /\ \A k \in 0 .. K + 1 : L[k] \in Numbers
      /\ \A j, k \in 0 .. K + 1 :
           L[j] = L[k] => j = k \/ (j = 0 /\ k = K + 1) \/ (j = K + 1 /\ k = 0)
  BY ListNumbers
<1>5. c \in heads /\ c \notin free /\ c # 0 /\ c \in Numbers /\ c \in Nat
  BY DEF Used, Blocks, Numbers
<1> HIDE DEF g
<1>6. K + 1 \in Nat /\ (K + 1) + 1 = K + 2 /\ M \in [0 .. K + 2 -> Nat]
  BY <1>1, <1>5
<1>7. M[0] = 0 /\ M[1] = c /\ M[K + 2] = 0 /\ \A k \in 1 .. K + 1 : M[k + 1] = L[k]
  BY <1>1
<1>8. \A k \in 2 .. K + 1 : k - 1 \in 1 .. K /\ M[k] = L[k - 1]
  BY <1>1
<1> HIDE DEF M
<1>9. \A k \in 1 .. K + 1 : M[k] \in free \cup {c}
  <2>1. \A k \in 1 .. K + 1 : k = 1 \/ k \in 2 .. K + 1
    BY <1>1
  <2> QED BY <1>7, <1>8, <2>1 DEF List
<1>10. \A j, k \in 1 .. K + 1 : M[j] = M[k] => j = k
  <2> SUFFICES ASSUME NEW j \in 1 .. K + 1, NEW k \in 1 .. K + 1, M[j] = M[k]
               PROVE  j = k
    OBVIOUS
  <2>1. (j = 1 \/ j \in 2 .. K + 1) /\ (k = 1 \/ k \in 2 .. K + 1)
    BY <1>1
  <2>2. \A i \in 2 .. K + 1 : M[i] \in free
    BY <1>8 DEF List
  <2>3. CASE j \in 2 .. K + 1 /\ k \in 2 .. K + 1
    <3>1. j - 1 = k - 1
      BY <1>8, <2>3 DEF List
    <3> QED BY <2>3, <3>1
  <2> QED BY <1>5, <1>7, <2>1, <2>2, <2>3
<1>11. \A b \in free \cup {c} : \E k \in 1 .. K + 1 : M[k] = b
  <2>1. ASSUME NEW b \in free
        PROVE  \E k \in 1 .. K + 1 : M[k] = b
    <3>1. PICK k \in 1 .. K : L[k] = b
      BY DEF List
    <3>2. k + 1 \in 1 .. K + 1 /\ k \in 1 .. K + 1
      BY <1>1
    <3>3. M[k + 1] = b
      BY <1>7, <3>1, <3>2
    <3> QED BY <3>2, <3>3
  <2>2. 1 \in 1 .. K + 1
    BY <1>1
  <2> QED BY <1>7, <2>1, <2>2
<1>12. \A n \in Numbers : /\ NFREE(n) \in Words /\ PFREE(n) \in Words
                          /\ NFREE(n) = 4 * n + 2 /\ PFREE(n) = 4 * n + 3 /\ NBLOCK(n) = 4 * n
                          /\ n \in Nat
  BY Sizing DEF Numbers, Words, NFREE, PFREE, NBLOCK
<1>13. 0 \in Numbers /\ first \in Numbers /\ first # c
  BY <1>1, <1>2, <1>4, <1>5, Sizing DEF Numbers
<1>14. ASSUME NEW k \in 0 .. K + 1
       PROVE  g[NFREE(M[k])] = M[k + 1] /\ g[PFREE(M[k + 1])] = M[k]
  <2>1. CASE k = 0
    <3>1. M[k] = 0 /\ M[k + 1] = c
      BY <1>7, <2>1
    <3>2. g[NFREE(0)] = c
      BY <1>3, <1>5, <1>12, <1>13
    <3>3. g[PFREE(c)] = 0
      BY <1>3, <1>5, <1>12, <1>13
    <3> QED BY <3>1, <3>2, <3>3
  <2>2. CASE k = 1
    <3>1. M[k] = c /\ M[k + 1] = first
      BY <1>1, <1>7, <2>2
    <3>2. g[NFREE(c)] = first
      BY <1>3, <1>5, <1>12, <1>13
    <3>3. g[PFREE(first)] = c
      BY <1>3, <1>5, <1>12, <1>13
    <3> QED BY <3>1, <3>2, <3>3
  <2>3. CASE k \in 2 .. K + 1
    <3> DEFINE p == L[k - 1]
               q == L[k]
    <3>1. /\ M[k] = p /\ M[k + 1] = q /\ k - 1 \in 0 .. K /\ (k - 1) + 1 = k
          /\ k - 1 \in 0 .. K + 1 /\ k \in 0 .. K + 1 /\ k \in 1 .. K + 1 /\ 1 \in 0 .. K + 1
      BY <1>1, <1>7, <1>8, <2>3
    <3>2. h[NFREE(p)] = q /\ h[PFREE(q)] = p
      BY <3>1 DEF List
    <3>3. p \in Numbers /\ q \in Numbers /\ p # c /\ q # c
      <4>1. p \in Numbers /\ q \in Numbers
        BY <1>4, <3>1
      <4>2. k - 1 \in 1 .. K /\ (k \in 1 .. K \/ k = K + 1)
        BY <1>1, <2>3
      <4>3. p \in free /\ q \in free \cup {0}
        BY <1>1, <4>2 DEF List
      <4> QED BY <1>5, <4>1, <4>3
    <3>4. p # 0 /\ q # first
      BY <1>1, <1>4, <2>3, <3>1
    <3> HIDE DEF p, q
    <3>5. g[NFREE(p)] = h[NFREE(p)]
      <4>1. /\ NFREE(p) # NBLOCK(c) /\ NFREE(p) # NFREE(0) /\ NFREE(p) # PFREE(c)
            /\ NFREE(p) # NFREE(c) /\ NFREE(p) # PFREE(first)
        BY <1>5, <1>13, <3>3, <3>4 DEF Numbers, NFREE, PFREE, NBLOCK
      <4>2. NFREE(p) \in Words
        BY <1>12, <3>3
      <4> QED BY <1>3, <4>1, <4>2
    <3>6. g[PFREE(q)] = h[PFREE(q)]
      <4>1. /\ PFREE(q) # NBLOCK(c) /\ PFREE(q) # NFREE(0) /\ PFREE(q) # PFREE(c)
            /\ PFREE(q) # NFREE(c) /\ PFREE(q) # PFREE(first)
        BY <1>5, <1>13, <3>3, <3>4 DEF Numbers, NFREE, PFREE, NBLOCK
      <4>2. PFREE(q) \in Words
        BY <1>12, <3>3
      <4> QED BY <1>3, <4>1, <4>2
    <3> QED BY <3>1, <3>2, <3>5, <3>6
  <2> QED BY <1>1, <2>1, <2>2, <2>3
<1>15. List(g, free \cup {c}, K + 1, M)
  BY <1>6, <1>7, <1>9, <1>10, <1>11, <1>14 DEF List
<1> QED BY <1>15 DEF g, M

(* The heap after it.                                                     *)
LEMMA InsertFacts ==
  ASSUME NEW h, NEW heads, NEW nx, NEW free, Heap(h, heads, nx, free),
         NEW c \in Used(heads, free), NEW g, g = Inserted(h, c)
  PROVE  /\ Heap(g, heads, nx, free \cup {c})
         /\ \A u \in Used(heads, free) \ {c} : Same(h, g, Data(nx, u))
<1>1. Blocks(h, heads, nx, free)
  BY DEF Heap
<1>2. PICK K, L : List(h, free, K, L)
  BY DEF Heap
<1>3. \E K1, L1 : List(g, free \cup {c}, K1, L1)
  BY <1>1, <1>2, InsertList, Zenon
<1> DEFINE first == h[NFREE(0)]
<1>4. first \in free \cup {0}
  <2>1. K \in Nat /\ L[0] = 0 /\ 0 \in 0 .. K
    BY <1>2 DEF List
  <2>2. first = L[1]
    BY <1>2, <2>1 DEF List
  <2> QED BY <1>2, <2>1, <2>2 DEF List
<1>5. /\ g \in [Words -> Nat]
      /\ \A a \in Words : g[a] = CASE a = NBLOCK(c) -> nx[c] + FREELIST_MASK
                                   [] a = NFREE(0) -> c
                                   [] a = PFREE(c) -> 0
                                   [] a = NFREE(c) -> first
                                   [] a = PFREE(first) -> c
                                   [] OTHER -> h[a]
  BY <1>1, <1>4, InsertWords
<1> HIDE DEF first
<1>6. \A b \in heads : /\ b \in Nat /\ NBLOCK(b) \in Words /\ PBLOCK(b) \in Words
  BY <1>1, Sizing DEF Blocks, Numbers, Words, NBLOCK, PBLOCK
<1>7. c \in heads \ {0, LastBlock} /\ first \in heads /\ 0 \in heads /\ c \notin free
  BY <1>1, <1>4 DEF Blocks, Used
<1>8. /\ \A b \in heads \ {c} : g[NBLOCK(b)] = h[NBLOCK(b)]
      /\ \A b \in heads : g[PBLOCK(b)] = h[PBLOCK(b)]
      /\ g[NBLOCK(c)] = nx[c] + FREELIST_MASK
  <2>1. \A b, d \in heads : /\ NBLOCK(b) # PFREE(d) /\ NBLOCK(b) # NFREE(d)
                            /\ PBLOCK(b) # PFREE(d) /\ PBLOCK(b) # NFREE(d)
                            /\ PBLOCK(b) # NBLOCK(d) /\ (b # d => NBLOCK(b) # NBLOCK(d))
    BY <1>6 DEF NBLOCK, PBLOCK, NFREE, PFREE
  <2> QED BY <1>5, <1>6, <1>7, <2>1
<1>9. Blocks(g, heads, nx, free \cup {c})
  BY <1>1, <1>5, <1>7, <1>8 DEF Blocks
<1>10. ASSUME NEW u \in Used(heads, free) \ {c}, NEW a \in Data(nx, u)
       PROVE  g[a] = h[a]
  <2>1. a \in Words /\ a # NBLOCK(c) /\ a # NFREE(0) /\ a # PFREE(first)
    BY <1>1, <1>4, <1>7, HeadersApart
  <2>2. a # NFREE(c) /\ a # PFREE(c)
    <3>1. c \in Nat /\ u \in Nat /\ nx[u] \in Nat /\ (c < u \/ nx[u] <= c)
      BY <1>1, <1>7, Geometry DEF Used
    <3> QED BY <3>1 DEF Data, NFREE, PFREE
  <2> QED BY <1>5, <2>1, <2>2
<1> QED BY <1>3, <1>9, <1>10 DEF Heap, Same

(* Two neighbours become one piece, free or in use as the first of them is; *)
(* the second one is in use.                                                *)
Merged(h, p, c, after, mask) == [h EXCEPT ![NBLOCK(p)] = after + mask, ![PBLOCK(after)] = p]

MergeNext(heads, nx, p, c) == [b \in heads \ {c} |-> IF b = p THEN nx[c] ELSE nx[b]]

LEMMA MergeFacts ==
  ASSUME NEW h, NEW heads, NEW nx, NEW free, Heap(h, heads, nx, free),
         NEW p \in heads \ {LastBlock}, NEW c, c = nx[p], c \notin free, c # LastBlock,
         NEW g, g = Merged(h, p, c, nx[c], IF p \in free THEN FREELIST_MASK ELSE 0)
  PROVE  /\ Heap(g, heads \ {c}, MergeNext(heads, nx, p, c), free)
         /\ \A u \in Used(heads, free) : Same(h, g, Data(nx, u))
<1> DEFINE after == nx[c]
           word == after + (IF p \in free THEN FREELIST_MASK ELSE 0)
           nx1 == [b \in heads \ {c} |-> IF b = p THEN nx[c] ELSE nx[b]]
<1>1. Blocks(h, heads, nx, free)
  BY DEF Heap
<1>2. c \in heads /\ p < c /\ c \in Nat /\ p \in Nat /\ c # 0 /\ c # p
  <2>1. c \in heads /\ p < c
    BY <1>1 DEF Blocks
  <2>2. c \in Nat /\ p \in Nat
    BY <1>1, <2>1 DEF Blocks, Numbers
  <2> QED BY <2>1, <2>2
<1>3. after \in heads /\ after \in Nat /\ c < after
  <2>1. after \in heads /\ c < after
    BY <1>1, <1>2 DEF Blocks
  <2> QED BY <1>1, <2>1 DEF Blocks, Numbers
<1>4. \A b \in heads : /\ b \in Nat /\ NBLOCK(b) \in Words /\ PBLOCK(b) \in Words
                       /\ NFREE(b) \in Words /\ PFREE(b) \in Words
  BY <1>1, Sizing DEF Blocks, Numbers, Words, NBLOCK, PBLOCK, NFREE, PFREE
<1>5. word \in Nat /\ h \in [Words -> Nat]
  BY <1>1, <1>3, Sizing DEF Blocks
<1>6. /\ NBLOCK(p) \in Words /\ PBLOCK(after) \in Words
      /\ NBLOCK(p) # PBLOCK(after)
  BY <1>2, <1>3, <1>4 DEF NBLOCK, PBLOCK
<1>7. g = [h EXCEPT ![NBLOCK(p)] = word, ![PBLOCK(after)] = p]
  BY DEF Merged
<1> HIDE DEF word
<1>8. /\ g \in [Words -> Nat]
      /\ \A a \in Words : g[a] = CASE a = NBLOCK(p) -> word
                                   [] a = PBLOCK(after) -> p
                                   [] OTHER -> h[a]
  BY <1>2, <1>5, <1>6, <1>7
<1>9. /\ \A b \in heads \ {p} : g[NBLOCK(b)] = h[NBLOCK(b)]
      /\ \A b \in heads \ {after} : g[PBLOCK(b)] = h[PBLOCK(b)]
      /\ \A b \in heads : g[NFREE(b)] = h[NFREE(b)] /\ g[PFREE(b)] = h[PFREE(b)]
      /\ g[NBLOCK(p)] = word /\ g[PBLOCK(after)] = p
  <2>1. \A b, d \in heads : /\ NBLOCK(b) # PBLOCK(d) /\ NFREE(b) # PBLOCK(d)
                            /\ NFREE(b) # NBLOCK(d) /\ PFREE(b) # NBLOCK(d)
                            /\ PFREE(b) # PBLOCK(d)
                            /\ (b # d => NBLOCK(b) # NBLOCK(d) /\ PBLOCK(b) # PBLOCK(d))
    BY <1>4 DEF NBLOCK, PBLOCK, NFREE, PFREE
  <2> QED BY <1>3, <1>4, <1>6, <1>8, <2>1
<1>10. Blocks(g, heads \ {c}, nx1, free)
  <2>1. /\ heads \ {c} \subseteq Numbers /\ 0 \in heads \ {c} /\ LastBlock \in heads \ {c}
        /\ free \subseteq (heads \ {c}) \ {0, LastBlock}
    BY <1>1, <1>2 DEF Blocks
  <2>2. nx1 \in [heads \ {c} -> Numbers] /\ nx1[LastBlock] = 0
    BY <1>1, <1>2, <2>1 DEF Blocks
  <2>3. ASSUME NEW b \in (heads \ {c}) \ {LastBlock}
        PROVE  /\ nx1[b] \in heads \ {c} /\ b < nx1[b]
               /\ \A d \in heads \ {c} : d <= b \/ nx1[b] <= d
               /\ g[PBLOCK(nx1[b])] = b
    <3>1. CASE b = p
      <4>1. nx1[b] = after
        BY <3>1
      <4>2. \A d \in heads \ {c} : d <= p \/ after <= d
        <5>1. ASSUME NEW d \in heads \ {c} PROVE d <= p \/ after <= d
          <6>1. d \in Nat /\ (d <= p \/ c <= d)
            BY <1>1, Geometry
          <6>2. d <= c \/ after <= d
            BY <1>1, <1>2, Geometry
          <6> QED BY <1>2, <6>1, <6>2
        <5> QED BY <5>1
      <4> QED BY <1>2, <1>3, <1>9, <3>1, <4>1, <4>2
    <3>2. CASE b # p
      <4>1. nx1[b] = nx[b]
        BY <3>2
      <4>2. nx[b] # c /\ nx[b] # after
        BY <1>1, <1>2, <3>2, Geometry
      <4>3. nx[b] \in heads /\ b < nx[b] /\ h[PBLOCK(nx[b])] = b
        BY <1>1 DEF Blocks
      <4>4. \A d \in heads \ {c} : d <= b \/ nx[b] <= d
        BY <1>1, Geometry
      <4> QED BY <1>9, <4>1, <4>2, <4>3, <4>4
    <3> QED BY <3>1, <3>2
  <2>4. ASSUME NEW b \in (heads \ {c}) \ {0}
        PROVE  g[PBLOCK(b)] \in (heads \ {c}) \ {LastBlock} /\ nx1[g[PBLOCK(b)]] = b
    <3>1. CASE b = after
      BY <1>2, <1>9, <3>1
    <3>2. CASE b # after
      <4> DEFINE d == h[PBLOCK(b)]
      <4>1. g[PBLOCK(b)] = d /\ d \in heads \ {LastBlock} /\ nx[d] = b
        BY <1>1, <1>9, <3>2 DEF Blocks
      <4>2. d # c /\ d # p
        BY <3>2, <4>1
      <4> QED BY <4>1, <4>2
    <3> QED BY <3>1, <3>2
  <2>5. ASSUME NEW b \in heads \ {c}
        PROVE  g[NBLOCK(b)] = IF b \in free THEN nx1[b] + FREELIST_MASK ELSE nx1[b]
    <3>1. CASE b = p
      BY <1>3, <1>9, <3>1 DEF word
    <3>2. CASE b # p
      BY <1>1, <1>9, <3>2 DEF Blocks
    <3> QED BY <3>1, <3>2
  <2> QED BY <1>8, <2>1, <2>2, <2>3, <2>4, <2>5 DEF Blocks
<1>11. \E K, L : List(g, free, K, L)
  <2>1. PICK K, L : List(h, free, K, L)
    BY DEF Heap
  <2>2. \A b \in free \cup {0} : g[NFREE(b)] = h[NFREE(b)] /\ g[PFREE(b)] = h[PFREE(b)]
    BY <1>1, <1>9 DEF Blocks
  <2> QED BY <2>1, <2>2, ListKept
<1>12. ASSUME NEW u \in Used(heads, free), NEW a \in Data(nx, u)
       PROVE  g[a] = h[a]
  BY <1>1, <1>3, <1>8, HeadersApart
<1> HIDE DEF nx1
<1>13. /\ Heap(g, heads \ {c}, nx1, free)
       /\ \A u \in Used(heads, free) : Same(h, g, Data(nx, u))
  BY <1>10, <1>11, <1>12 DEF Heap, Same
<1> QED BY <1>13 DEF nx1, MergeNext

(* split_block() *)
SplitNext(heads, nx, c, n) ==
  [b \in heads \cup {c + n} |-> IF b = c THEN c + n ELSE IF b = c + n THEN nx[c] ELSE nx[b]]

LEMMA SplitFacts ==
  ASSUME NEW h, NEW heads, NEW nx, NEW free, Blocks(h, heads, nx, free),
         NEW c \in heads \ {LastBlock}, NEW n \in Nat, n > 0, c + n < nx[c],
         NEW mask \in {0, FREELIST_MASK}, NEW g, g = split_block(h, c, n, mask)
  PROVE  /\ c + n \notin heads /\ c + n \in Numbers
         /\ Blocks(g, heads \cup {c + n}, SplitNext(heads, nx, c, n),
                   (free \ {c}) \cup (IF mask = 0 THEN {} ELSE {c + n}))
         /\ SameLinks(h, g, heads)
         /\ \A u \in Used(heads, free) : Same(h, g, Data(SplitNext(heads, nx, c, n), u))
<1> DEFINE next == nx[c]
           rest == c + n
           nx1 == SplitNext(heads, nx, c, n)
           free1 == (free \ {c}) \cup (IF mask = 0 THEN {} ELSE {rest})
           word == next + mask
<1>1. next \in heads /\ next \in Nat /\ c \in Nat /\ next <= LastBlock /\ c # next /\ next # 0
  <2>1. next \in heads
    BY DEF Blocks
  <2>2. next \in Nat /\ c \in Nat /\ next <= LastBlock
    BY Geometry
  <2> QED BY <2>1, <2>2
<1>2. rest \in Nat /\ c < rest /\ rest < next /\ rest # 0 /\ rest # LastBlock
  BY <1>1
<1>3. rest \notin heads /\ rest \in Numbers
  <2>1. \A d \in heads : d \in Nat /\ (d <= c \/ next <= d)
    BY Geometry
  <2>2. LastBlock \in Nat /\ Numbers = 0 .. LastBlock
    BY Sizing DEF LastBlock, Numbers
  <2> QED BY <1>1, <1>2, <2>1, <2>2
<1>4. \A b \in heads \cup {rest} :
        /\ b \in Nat /\ NBLOCK(b) \in Words /\ PBLOCK(b) \in Words
        /\ NFREE(b) \in Words /\ PFREE(b) \in Words
  <2>1. heads \cup {rest} \subseteq Numbers
    BY <1>3 DEF Blocks
  <2>2. \A b \in Numbers : /\ b \in Nat /\ NBLOCK(b) \in Words /\ PBLOCK(b) \in Words
                           /\ NFREE(b) \in Words /\ PFREE(b) \in Words
    BY Sizing DEF Numbers, Words, NBLOCK, PBLOCK, NFREE, PFREE
  <2> QED BY <2>1, <2>2
<1>5. word \in Nat /\ h \in [Words -> Nat]
  BY <1>1, Sizing DEF Blocks
<1>6. BLOCKNO(h[NBLOCK(c)]) = next
  BY NextFacts
<1> HIDE DEF next, rest, word
<1>7. g = [h EXCEPT ![NBLOCK(rest)] = word, ![PBLOCK(rest)] = c,
                    ![PBLOCK(next)] = rest, ![NBLOCK(c)] = rest]
  BY <1>6 DEF split_block, rest, word
<1>8. \A b, d \in heads \cup {rest} :
        /\ NBLOCK(b) # PBLOCK(d) /\ NFREE(b) # PBLOCK(d)
        /\ NFREE(b) # NBLOCK(d) /\ PFREE(b) # NBLOCK(d) /\ PFREE(b) # PBLOCK(d)
        /\ (b # d => NBLOCK(b) # NBLOCK(d) /\ PBLOCK(b) # PBLOCK(d))
  BY <1>4 DEF NBLOCK, PBLOCK, NFREE, PFREE
<1>9. /\ g \in [Words -> Nat]
      /\ \A a \in Words : g[a] = CASE a = NBLOCK(c) -> rest
                                   [] a = PBLOCK(next) -> rest
                                   [] a = PBLOCK(rest) -> c
                                   [] a = NBLOCK(rest) -> word
                                   [] OTHER -> h[a]
  <2>1. /\ NBLOCK(rest) \in Words /\ PBLOCK(rest) \in Words /\ PBLOCK(next) \in Words
        /\ NBLOCK(c) \in Words
    BY <1>1, <1>4
  <2>2. g \in [Words -> Nat]
    BY <1>1, <1>2, <1>5, <1>7
  <2>3. \A a \in Words : g[a] = CASE a = NBLOCK(c) -> rest
                                  [] a = PBLOCK(next) -> rest
                                  [] a = PBLOCK(rest) -> c
                                  [] a = NBLOCK(rest) -> word
                                  [] OTHER -> h[a]
    BY <1>5, <1>7, <2>1
  <2> QED BY <2>2, <2>3
<1>10. /\ \A b \in heads \ {c} : g[NBLOCK(b)] = h[NBLOCK(b)]
       /\ \A b \in heads \ {next} : g[PBLOCK(b)] = h[PBLOCK(b)]
       /\ \A b \in heads : g[NFREE(b)] = h[NFREE(b)] /\ g[PFREE(b)] = h[PFREE(b)]
       /\ g[NBLOCK(c)] = rest /\ g[NBLOCK(rest)] = word
       /\ g[PBLOCK(next)] = rest /\ g[PBLOCK(rest)] = c
  <2>1. \A b \in heads \ {c} : g[NBLOCK(b)] = h[NBLOCK(b)]
    BY <1>1, <1>3, <1>4, <1>8, <1>9
  <2>2. \A b \in heads \ {next} : g[PBLOCK(b)] = h[PBLOCK(b)]
    BY <1>1, <1>3, <1>4, <1>8, <1>9
  <2>3. \A b \in heads : g[NFREE(b)] = h[NFREE(b)] /\ g[PFREE(b)] = h[PFREE(b)]
    BY <1>1, <1>3, <1>4, <1>8, <1>9
  <2>4. /\ g[NBLOCK(c)] = rest /\ g[NBLOCK(rest)] = word
        /\ g[PBLOCK(next)] = rest /\ g[PBLOCK(rest)] = c
    BY <1>1, <1>2, <1>3, <1>4, <1>8, <1>9
  <2> QED BY <2>1, <2>2, <2>3, <2>4
<1>11. /\ nx1 \in [heads \cup {rest} -> Numbers] /\ nx1[c] = rest /\ nx1[rest] = next
       /\ \A b \in heads \ {c} : nx1[b] = nx[b]
  <2>1. /\ nx \in [heads -> Numbers] /\ next \in Numbers /\ c # rest
    BY <1>1, <1>2 DEF Blocks
  <2> QED BY <1>3, <2>1 DEF SplitNext, rest, next
<1> HIDE DEF nx1
<1>12. Blocks(g, heads \cup {rest}, nx1, free1)
  <2>1. /\ heads \cup {rest} \subseteq Numbers /\ 0 \in heads \cup {rest}
        /\ LastBlock \in heads \cup {rest} /\ free1 \subseteq (heads \cup {rest}) \ {0, LastBlock}
        /\ nx1[LastBlock] = 0
    BY <1>2, <1>3, <1>11 DEF Blocks
  <2>2. ASSUME NEW b \in (heads \cup {rest}) \ {LastBlock}
        PROVE  /\ nx1[b] \in heads \cup {rest} /\ b < nx1[b]
               /\ \A d \in heads \cup {rest} : d <= b \/ nx1[b] <= d
               /\ g[PBLOCK(nx1[b])] = b
    <3>1. \A d \in heads : d \in Nat /\ (d <= c \/ next <= d)
      BY Geometry DEF next
    <3>2. CASE b = c
      BY <1>1, <1>2, <1>10, <1>11, <3>1, <3>2
    <3>3. CASE b = rest
      BY <1>1, <1>2, <1>10, <1>11, <3>1, <3>3
    <3>4. CASE b # c /\ b # rest
      <4>1. b \in heads \ {LastBlock} /\ nx1[b] = nx[b]
        BY <1>11, <3>4
      <4>2. nx[b] # next
        BY <3>4, <4>1, Geometry DEF next
      <4>3. nx[b] \in heads /\ b < nx[b] /\ h[PBLOCK(nx[b])] = b
        BY <4>1 DEF Blocks
      <4>4. \A d \in heads : d <= b \/ nx[b] <= d
        BY <4>1, Geometry
      <4>5. rest <= b \/ nx[b] <= rest
        <5>1. b \in Nat /\ nx[b] \in Nat /\ (c <= b \/ nx[b] <= c) /\ (b <= c \/ next <= b)
          BY <4>1, Geometry DEF next
        <5> QED BY <1>1, <1>2, <3>4, <5>1
      <4> QED BY <1>10, <4>1, <4>2, <4>3, <4>4, <4>5
    <3> QED BY <3>2, <3>3, <3>4
  <2>3. ASSUME NEW b \in (heads \cup {rest}) \ {0}
        PROVE  /\ g[PBLOCK(b)] \in (heads \cup {rest}) \ {LastBlock}
               /\ nx1[g[PBLOCK(b)]] = b
    <3>1. CASE b = rest
      BY <1>10, <1>11, <3>1
    <3>2. CASE b = next
      BY <1>2, <1>10, <1>11, <3>2
    <3>3. CASE b # rest /\ b # next
      <4> DEFINE d == h[PBLOCK(b)]
      <4>1. g[PBLOCK(b)] = d /\ d \in heads \ {LastBlock} /\ nx[d] = b
        BY <1>10, <3>3 DEF Blocks
      <4>2. d # c
        BY <3>3, <4>1 DEF next
      <4> QED BY <1>11, <4>1, <4>2
    <3> QED BY <3>1, <3>2, <3>3
  <2>4. ASSUME NEW b \in heads \cup {rest}
        PROVE  g[NBLOCK(b)] = IF b \in free1 THEN nx1[b] + FREELIST_MASK ELSE nx1[b]
    <3>1. CASE b = c
      BY <1>2, <1>10, <1>11, <3>1
    <3>2. CASE b = rest
      <4>1. free \subseteq heads
        BY DEF Blocks
      <4>2. mask = 0 => b \notin free1
        BY <1>3, <3>2, <4>1
      <4>3. mask # 0 => b \in free1 /\ mask = FREELIST_MASK
        BY <3>2
      <4> HIDE DEF free1
      <4> QED BY <1>1, <1>10, <1>11, <3>2, <4>2, <4>3 DEF word
    <3>3. CASE b # c /\ b # rest
      <4>1. b \in free1 <=> b \in free
        BY <3>3
      <4>2. b \in heads /\ nx1[b] = nx[b] /\ g[NBLOCK(b)] = h[NBLOCK(b)]
        BY <1>10, <1>11, <3>3
      <4> HIDE DEF free1
      <4> QED BY <4>1, <4>2 DEF Blocks
    <3> QED BY <3>1, <3>2, <3>3
  <2> HIDE DEF free1
  <2> QED BY <1>9, <1>11, <2>1, <2>2, <2>3, <2>4 DEF Blocks
<1>13. ASSUME NEW u \in Used(heads, free), NEW a \in Data(nx1, u)
       PROVE  g[a] = h[a]
  <2>1. u \in heads \ {LastBlock} /\ u \in Nat /\ u # 0
    BY <1>4 DEF Used
  <2>2. a \in Data(nx, u)
    BY <1>1, <1>2, <1>11, <2>1 DEF Data, NFREE, next
  <2>3. a \in Words /\ a # NBLOCK(c) /\ a # PBLOCK(next)
    BY <1>1, <2>2, HeadersApart
  <2>4. a # NBLOCK(rest) /\ a # PBLOCK(rest)
    <3>1. CASE u = c
      BY <1>2, <1>11, <2>1, <3>1 DEF Data, NFREE, NBLOCK, PBLOCK
    <3>2. CASE u # c
      <4>1. nx[u] \in Nat /\ (u < c \/ next <= u) /\ (c < u \/ nx[u] <= c)
        BY <1>1, <2>1, <3>2, Geometry DEF next
      <4>2. rest < u \/ nx[u] <= rest
        BY <1>1, <1>2, <2>1, <4>1
      <4> QED BY <1>2, <2>1, <2>2, <4>1, <4>2 DEF Data, NFREE, NBLOCK, PBLOCK
    <3> QED BY <3>1, <3>2
  <2> QED BY <1>9, <2>3, <2>4
<1>14. SameLinks(h, g, heads)
  BY <1>10 DEF SameLinks
<1> QED BY <1>3, <1>12, <1>13, <1>14 DEF Same, rest, nx1

(* A part of a piece in use becomes a piece in use of its own.            *)
LEMMA SplitUsedFacts ==
  ASSUME NEW h, NEW heads, NEW nx, NEW free, Heap(h, heads, nx, free),
         NEW c \in Used(heads, free), NEW n \in Nat, n > 0, c + n < nx[c],
         NEW g, g = split_block(h, c, n, 0)
  PROVE  /\ c + n \notin heads
         /\ Heap(g, heads \cup {c + n}, SplitNext(heads, nx, c, n), free)
         /\ \A u \in Used(heads, free) : Same(h, g, Data(SplitNext(heads, nx, c, n), u))
<1>1. c \in heads \ {LastBlock} /\ c \notin free /\ 0 \in {0, FREELIST_MASK}
      /\ Blocks(h, heads, nx, free)
  BY DEF Used, Heap
<1>2. /\ c + n \notin heads
      /\ Blocks(g, heads \cup {c + n}, SplitNext(heads, nx, c, n), (free \ {c}) \cup {})
      /\ SameLinks(h, g, heads)
      /\ \A u \in Used(heads, free) : Same(h, g, Data(SplitNext(heads, nx, c, n), u))
  <2> DEFINE fate(mask) == (free \ {c}) \cup (IF mask = 0 THEN {} ELSE {c + n})
  <2>1. fate(0) = (free \ {c}) \cup {}
    OBVIOUS
  <2>2. /\ c + n \notin heads
        /\ Blocks(g, heads \cup {c + n}, SplitNext(heads, nx, c, n), fate(0))
        /\ SameLinks(h, g, heads)
        /\ \A u \in Used(heads, free) : Same(h, g, Data(SplitNext(heads, nx, c, n), u))
    <3>1. /\ c \in heads \ {LastBlock} /\ 0 \in {0, FREELIST_MASK} /\ n \in Nat
          /\ n > 0 /\ c + n < nx[c] /\ g = split_block(h, c, n, 0) /\ Blocks(h, heads, nx, free)
      BY <1>1
    <3>2. c + n \notin heads
      BY <3>1, SplitFacts, Zenon
    <3>3. Blocks(g, heads \cup {c + n}, SplitNext(heads, nx, c, n), fate(0))
      BY <3>1, SplitFacts, Zenon
    <3>4. SameLinks(h, g, heads)
      BY <3>1, SplitFacts, Zenon
    <3>5. \A u \in Used(heads, free) : Same(h, g, Data(SplitNext(heads, nx, c, n), u))
      BY <3>1, SplitFacts, Zenon
    <3> QED BY <3>2, <3>3, <3>4, <3>5
  <2> QED BY <2>1, <2>2, Zenon
<1>3. (free \ {c}) \cup {} = free
  BY <1>1
<1>4. \E K, L : List(g, free, K, L)
  <2>1. PICK K, L : List(h, free, K, L)
    BY DEF Heap
  <2>2. free \cup {0} \subseteq heads
    BY <1>1 DEF Blocks
  <2>3. \A b \in free \cup {0} : g[NFREE(b)] = h[NFREE(b)] /\ g[PFREE(b)] = h[PFREE(b)]
    BY <1>2, <2>2 DEF SameLinks
  <2> QED BY <2>1, <2>3, ListKept
<1> QED BY <1>2, <1>3, <1>4 DEF Heap

(* umm_malloc() of a part of a free piece: the rest takes the place of the  *)
(* piece in the free list.                                                  *)
Relisted(s, h, c, rest) ==
  [s EXCEPT ![NFREE(h[PFREE(c)])] = rest, ![PFREE(rest)] = h[PFREE(c)],
            ![PFREE(h[NFREE(c)])] = rest, ![NFREE(rest)] = h[NFREE(c)]]

LEMMA RelistWords ==
  ASSUME NEW heads, NEW nx, NEW free, NEW s, Blocks(s, heads, nx, free),
         NEW rest \in free, NEW p \in heads \ {rest}, NEW q \in heads \ {rest},
         NEW h, NEW c, h[PFREE(c)] = p, h[NFREE(c)] = q
  PROVE  /\ Relisted(s, h, c, rest) \in [Words -> Nat]
         /\ \A a \in Words :
              Relisted(s, h, c, rest)[a] = CASE a = NFREE(rest) -> q
                                             [] a = PFREE(q) -> rest
                                             [] a = PFREE(rest) -> p
                                             [] a = NFREE(p) -> rest
                                             [] OTHER -> s[a]
<1> DEFINE g == Relisted(s, h, c, rest)
<1>1. g = [s EXCEPT ![NFREE(p)] = rest, ![PFREE(rest)] = p,
                    ![PFREE(q)] = rest, ![NFREE(rest)] = q]
  BY DEF Relisted
<1>2. rest \in Numbers /\ p \in Numbers /\ q \in Numbers /\ s \in [Words -> Nat]
  BY DEF Blocks
<1>3. rest \in Nat /\ p \in Nat /\ q \in Nat
  BY <1>2 DEF Numbers
<1>4. NFREE(p) \in Words /\ PFREE(rest) \in Words /\ PFREE(q) \in Words /\ NFREE(rest) \in Words
  BY <1>2, Sizing DEF Numbers, Words, NFREE, PFREE
<1> HIDE DEF g
<1>5. g \in [Words -> Nat]
  BY <1>1, <1>2, <1>3
<1>6. \A a \in Words : g[a] = CASE a = NFREE(rest) -> q
                                [] a = PFREE(q) -> rest
                                [] a = PFREE(rest) -> p
                                [] a = NFREE(p) -> rest
                                [] OTHER -> s[a]
  BY <1>1, <1>2, <1>4
<1> QED BY <1>5, <1>6 DEF g

(* The heap after it.                                                     *)
LEMMA RelistFacts ==
  ASSUME NEW h, NEW heads, NEW nx, NEW free, Heap(h, heads, nx, free), NEW c \in free,
         NEW s, NEW heads1, NEW nx1, NEW rest, rest \notin heads,
         heads \subseteq heads1,
         Blocks(s, heads1, nx1, (free \ {c}) \cup {rest}),
         SameLinks(h, s, heads), NEW g, g = Relisted(s, h, c, rest)
  PROVE  /\ Heap(g, heads1, nx1, (free \ {c}) \cup {rest})
         /\ \A u \in Used(heads1, (free \ {c}) \cup {rest}) : Same(s, g, Data(nx1, u))
<1> DEFINE free1 == (free \ {c}) \cup {rest}
<1>1. Blocks(h, heads, nx, free) /\ Blocks(s, heads1, nx1, free1)
  BY DEF Heap
<1>2. PICK K, L : List(h, free, K, L)
  BY DEF Heap
<1>3. PICK i \in 1 .. K : L[i] = c
  BY <1>2 DEF List
<1>4. /\ K \in Nat /\ i \in Nat /\ i - 1 \in 0 .. K /\ i \in 0 .. K /\ i + 1 \in 0 .. K + 1
      /\ i - 1 \in 0 .. K + 1 /\ i \in 0 .. K + 1 /\ (i - 1) + 1 = i
      /\ L[0] = 0 /\ L[K + 1] = 0 /\ L \in [0 .. K + 1 -> Nat]
  BY <1>2, <1>3 DEF List
<1> DEFINE p == L[i - 1]
           q == L[i + 1]
<1>5. h[PFREE(c)] = p /\ h[NFREE(c)] = q
  BY <1>2, <1>3, <1>4 DEF List
<1>6. /\ \A k \in 0 .. K + 1 : L[k] \in Numbers
      /\ \A j, k \in 0 .. K + 1 :
           L[j] = L[k] => j = k \/ (j = 0 /\ k = K + 1) \/ (j = K + 1 /\ k = 0)
  BY <1>1, <1>2, ListNumbers
<1>7. \A k \in 0 .. K + 1 : L[k] \in free \cup {0}
  <2>1. \A k \in 0 .. K + 1 : k = 0 \/ k = K + 1 \/ k \in 1 .. K
    BY <1>4
  <2> QED BY <1>2, <1>4, <2>1 DEF List
<1>8. free \cup {0} \subseteq heads /\ c \in heads /\ rest # 0 /\ c # rest
  BY <1>1 DEF Blocks
<1>9. p \in free \cup {0} /\ q \in free \cup {0}
  BY <1>4, <1>7
<1>10. p \in heads1 \ {rest} /\ q \in heads1 \ {rest} /\ rest \in free1
  BY <1>8, <1>9
<1> HIDE DEF p, q, free1
<1>11. /\ g \in [Words -> Nat]
       /\ \A a \in Words : g[a] = CASE a = NFREE(rest) -> q
                                    [] a = PFREE(q) -> rest
                                    [] a = PFREE(rest) -> p
                                    [] a = NFREE(p) -> rest
                                    [] OTHER -> s[a]
  BY <1>1, <1>5, <1>10, RelistWords
<1>12. \A b \in heads1 : /\ b \in Numbers /\ b \in Nat /\ NBLOCK(b) \in Words /\ PBLOCK(b) \in Words
                         /\ NFREE(b) \in Words /\ PFREE(b) \in Words
  BY <1>1, Sizing DEF Blocks, Numbers, Words, NBLOCK, PBLOCK, NFREE, PFREE
<1>13. \A b, d \in heads1 :
         /\ NFREE(b) # NBLOCK(d) /\ NFREE(b) # PBLOCK(d) /\ PFREE(b) # NBLOCK(d)
         /\ PFREE(b) # PBLOCK(d) /\ NFREE(b) # PFREE(d)
         /\ (b # d => NFREE(b) # NFREE(d) /\ PFREE(b) # PFREE(d))
  BY <1>12 DEF NBLOCK, PBLOCK, NFREE, PFREE
<1>14. rest \in heads1
  BY <1>1, <1>10 DEF Blocks
<1>15. Blocks(g, heads1, nx1, free1)
  <2>1. \A b \in heads1 : g[NBLOCK(b)] = s[NBLOCK(b)] /\ g[PBLOCK(b)] = s[PBLOCK(b)]
    BY <1>10, <1>11, <1>12, <1>13, <1>14
  <2> QED BY <1>1, <1>11, <2>1, BlocksKept
<1> DEFINE M == [k \in 0 .. K + 1 |-> IF k = i THEN rest ELSE L[k]]
<1>16. /\ M \in [0 .. K + 1 -> Nat] /\ M[0] = 0 /\ M[K + 1] = 0 /\ M[i] = rest
       /\ \A k \in 0 .. K + 1 : k # i => M[k] = L[k]
  <2>1. i # 0 /\ i # K + 1 /\ 0 \in 0 .. K + 1 /\ K + 1 \in 0 .. K + 1
    BY <1>3, <1>4
  <2> QED BY <1>4, <1>12, <1>14, <2>1
<1> HIDE DEF M
<1>17. \A k \in 1 .. K : k \in 0 .. K + 1
  BY <1>4
<1>18. \A k \in 1 .. K : M[k] \in free1
  <2>1. \A k \in 1 .. K : k # i => L[k] # c /\ L[k] \in free
    BY <1>2, <1>3 DEF List
  <2> QED BY <1>10, <1>16, <1>17, <2>1 DEF free1
<1>19. \A j, k \in 1 .. K : M[j] = M[k] => j = k
  <2>1. \A k \in 1 .. K : L[k] \in heads
    BY <1>2, <1>8 DEF List
  <2>2. \A k \in 1 .. K : (k = i => M[k] = rest) /\ (k # i => M[k] = L[k])
    BY <1>16, <1>17
  <2>3. \A j, k \in 1 .. K : L[j] = L[k] => j = k
    BY <1>2 DEF List
  <2> QED BY <2>1, <2>2, <2>3
<1>20. \A b \in free1 : \E k \in 1 .. K : M[k] = b
  <2>1. ASSUME NEW b \in free \ {c}
        PROVE  \E k \in 1 .. K : M[k] = b
    <3>1. PICK k \in 1 .. K : L[k] = b
      BY <1>2 DEF List
    <3> QED BY <1>3, <1>16, <1>17, <3>1
  <2> QED BY <1>3, <1>16, <2>1 DEF free1
<1>21. ASSUME NEW k \in 0 .. K
       PROVE  g[NFREE(M[k])] = M[k + 1] /\ g[PFREE(M[k + 1])] = M[k]
  <2>1. k \in 0 .. K + 1 /\ k + 1 \in 0 .. K + 1
    BY <1>4
  <2>2. CASE k = i
    <3>1. M[k] = rest /\ M[k + 1] = q
      BY <1>4, <1>16, <2>1, <2>2 DEF q
    <3>2. g[NFREE(rest)] = q /\ g[PFREE(q)] = rest
      BY <1>10, <1>11, <1>12, <1>13, <1>14
    <3> QED BY <3>1, <3>2
  <2>3. CASE k + 1 = i
    <3>1. k = i - 1 /\ k # i
      BY <1>4, <2>3
    <3>2. M[k] = p /\ M[k + 1] = rest
      BY <1>4, <1>16, <2>1, <2>3, <3>1 DEF p
    <3>3. g[NFREE(p)] = rest /\ g[PFREE(rest)] = p
      BY <1>10, <1>11, <1>12, <1>13, <1>14
    <3> QED BY <3>2, <3>3
  <2>4. CASE k # i /\ k + 1 # i
    <3> DEFINE x == L[k]
               y == L[k + 1]
    <3>1. M[k] = x /\ M[k + 1] = y
      BY <1>16, <2>1, <2>4
    <3>2. h[NFREE(x)] = y /\ h[PFREE(y)] = x
      BY <1>2 DEF List
    <3>3. x # p
      BY <1>3, <1>4, <1>6, <2>1, <2>4 DEF p
    <3>4. y # q
      BY <1>3, <1>4, <1>6, <2>1, <2>4 DEF q
    <3>5. x \in heads /\ y \in heads
      BY <1>7, <1>8, <2>1
    <3> HIDE DEF x, y
    <3>6. x \in heads1 /\ y \in heads1 /\ x # rest /\ y # rest
      BY <3>5
    <3>7. g[NFREE(x)] = s[NFREE(x)]
      BY <1>10, <1>11, <1>12, <1>13, <1>14, <3>3, <3>6
    <3>8. g[PFREE(y)] = s[PFREE(y)]
      BY <1>10, <1>11, <1>12, <1>13, <1>14, <3>4, <3>6
    <3>9. s[NFREE(x)] = h[NFREE(x)] /\ s[PFREE(y)] = h[PFREE(y)]
      BY <3>5 DEF SameLinks
    <3> QED BY <3>1, <3>2, <3>7, <3>8, <3>9
  <2> QED BY <2>2, <2>3, <2>4
<1>22. List(g, free1, K, M)
  BY <1>4, <1>16, <1>18, <1>19, <1>20, <1>21 DEF List
<1>23. ASSUME NEW u \in Used(heads1, free1), NEW a \in Data(nx1, u)
       PROVE  g[a] = s[a]
  <2>1. a \in Words /\ \A b \in free1 \cup {0} : a # NFREE(b) /\ a # PFREE(b)
    BY <1>1, HeadersApart
  <2>2. p \in free1 \cup {0} /\ q \in free1 \cup {0}
    <3>1. p # c
      BY <1>3, <1>4, <1>6 DEF p
    <3>2. q # c
      BY <1>3, <1>4, <1>6 DEF q
    <3> QED BY <1>9, <3>1, <3>2 DEF free1
  <2> QED BY <1>10, <1>11, <2>1, <2>2
<1> QED BY <1>15, <1>22, <1>23 DEF Heap, Same, free1

-----------------------------------------------------------------------------
(* What the owner of a piece writes there. *)
LEMMA DataApart ==
  ASSUME NEW h, NEW heads, NEW nx, NEW free, Blocks(h, heads, nx, free),
         NEW u \in Used(heads, free), NEW v \in Used(heads, free) \ {u}
  PROVE  Data(nx, u) \cap Data(nx, v) = {}
<1>1. u \in heads \ {LastBlock} /\ v \in heads \ {LastBlock}
  BY DEF Used
<1>2. /\ u \in Nat /\ v \in Nat /\ nx[u] \in Nat /\ nx[v] \in Nat
      /\ (v <= u \/ nx[u] <= v) /\ (u <= v \/ nx[v] <= u)
  BY <1>1, Geometry
<1>3. nx[u] <= v \/ nx[v] <= u
  BY <1>2
<1> QED BY <1>2, <1>3 DEF Data, NFREE

(* Nothing else of the heap looks at what is written there.               *)
LEMMA WriteFacts ==
  ASSUME NEW h, NEW heads, NEW nx, NEW free, Heap(h, heads, nx, free),
         NEW u \in Used(heads, free), NEW g \in [Words -> Nat],
         \A a \in Words \ Data(nx, u) : g[a] = h[a]
  PROVE  /\ Heap(g, heads, nx, free)
         /\ \A v \in Used(heads, free) \ {u} : Same(h, g, Data(nx, v))
<1>1. Blocks(h, heads, nx, free)
  BY DEF Heap
<1>2. \A b \in heads : /\ NBLOCK(b) \in Words /\ PBLOCK(b) \in Words
                       /\ NFREE(b) \in Words /\ PFREE(b) \in Words
  <2>1. \A b \in Numbers : /\ NBLOCK(b) \in Words /\ PBLOCK(b) \in Words
                           /\ NFREE(b) \in Words /\ PFREE(b) \in Words
    BY Sizing DEF Numbers, Words, NBLOCK, PBLOCK, NFREE, PFREE
  <2> QED BY <1>1, <2>1 DEF Blocks
<1>3. /\ \A b \in heads : NBLOCK(b) \notin Data(nx, u) /\ PBLOCK(b) \notin Data(nx, u)
      /\ \A b \in free \cup {0} : NFREE(b) \notin Data(nx, u) /\ PFREE(b) \notin Data(nx, u)
  BY <1>1, HeadersApart
<1>4. Blocks(g, heads, nx, free)
  BY <1>1, <1>2, <1>3, BlocksKept
<1>5. free \cup {0} \subseteq heads
  BY <1>1 DEF Blocks
<1>6. \E K, L : List(g, free, K, L)
  <2>1. PICK K, L : List(h, free, K, L)
    BY DEF Heap
  <2>2. \A b \in free \cup {0} : g[NFREE(b)] = h[NFREE(b)] /\ g[PFREE(b)] = h[PFREE(b)]
    BY <1>2, <1>3, <1>5
  <2> QED BY <2>1, <2>2, ListKept
<1>7. ASSUME NEW v \in Used(heads, free) \ {u}, NEW a \in Data(nx, v)
      PROVE  g[a] = h[a]
  <2>1. a \in Words
    BY <1>1, HeadersApart
  <2>2. a \notin Data(nx, u)
    BY <1>1, DataApart
  <2> QED BY <2>1, <2>2
<1> QED BY <1>4, <1>6, <1>7 DEF Heap, Same

-----------------------------------------------------------------------------
(* The free list, walked from its head. *)
LEMMA Smallest ==
  ASSUME NEW S \in SUBSET Nat, S # {}
  PROVE  \E x \in S : \A y \in S : x <= y
<1> DEFINE R == OpToRel(<, Nat)
<1>1. IsWellFoundedOn(R, Nat)
  BY NatLessThanWellFounded
<1>2. \A x, y \in Nat : <<x, y>> \in R <=> x < y
  BY DEF OpToRel
<1> HIDE DEF R
<1>3. \E x \in S : \A y \in S : ~ (<<y, x>> \in R)
  BY <1>1, WFMin
<1>4. PICK x \in S : \A y \in S : ~ (<<y, x>> \in R)
  BY <1>3
<1>5. ASSUME NEW y \in S PROVE x <= y
  <2>1. x \in Nat /\ y \in Nat
    OBVIOUS
  <2>2. ~(y < x)
    BY <1>2, <1>4, <2>1, Zenon
  <2> QED BY <2>1, <2>2
<1> QED BY <1>4, <1>5

(* FreeList goes through the list, and gives 0 from its end on.           *)
LEMMA FreeListFacts ==
  ASSUME NEW h, NEW heads, NEW nx, NEW free, Blocks(h, heads, nx, free),
         NEW K, NEW L, List(h, free, K, L)
  PROVE  /\ DOMAIN FreeList(h) = 0 .. NumBlocks
         /\ \A k \in 0 .. NumBlocks : FreeList(h)[k] = IF k <= K THEN L[k + 1] ELSE 0
<1> DEFINE step(f) == [k \in 0 .. NumBlocks |->
                         IF k = 0 THEN h[NFREE(0)]
                         ELSE IF f[k - 1] = 0 THEN 0 ELSE h[NFREE(f[k - 1])]]
           w == [k \in 0 .. NumBlocks |-> IF k <= K THEN L[k + 1] ELSE 0]
           nth == FreeList(h)
<1>1. K \in Nat /\ L[0] = 0 /\ L[K + 1] = 0 /\ \A k \in 1 .. K : L[k] # 0
  BY DEF List, Blocks
<1>2. \A k \in 0 .. K : h[NFREE(L[k])] = L[k + 1]
  BY DEF List
<1>3. ASSUME NEW k \in 0 .. NumBlocks
      PROVE  w[k] = step(w)[k]
  <2>1. CASE k = 0
    BY <1>1, <1>2, <2>1
  <2>2. CASE k # 0 /\ k <= K
    <3>1. w[k - 1] = L[k] /\ L[k] # 0 /\ h[NFREE(L[k])] = L[k + 1]
      BY <1>1, <1>2, <2>2, Sizing
    <3> QED BY <2>2, <3>1
  <2>3. CASE k # 0 /\ k = K + 1
    <3>1. w[k - 1] = 0
      BY <1>1, <2>3, Sizing
    <3> QED BY <1>1, <2>3, <3>1
  <2>4. CASE k > K + 1
    <3>1. w[k - 1] = 0
      BY <1>1, <2>4, Sizing
    <3> QED BY <1>1, <2>4, <3>1
  <2> QED BY <1>1, <2>1, <2>2, <2>3, <2>4, Sizing
<1>4. w = step(w)
  BY <1>3
<1>5. nth = CHOOSE f : f = step(f)
  BY DEF FreeList
<1> HIDE DEF w, nth
<1>6. nth = step(nth)
  BY <1>4, <1>5
<1>7. \A k \in 0 .. NumBlocks : nth[k] = w[k]
  <2> DEFINE S == {k \in 0 .. NumBlocks : nth[k] # w[k]}
  <2>1. SUFFICES ASSUME S # {} PROVE FALSE
    OBVIOUS
  <2>2. S \in SUBSET Nat
    BY Sizing
  <2>3. PICK x \in S : \A y \in S : x <= y
    BY <2>1, <2>2, Smallest
  <2>4. x \in 0 .. NumBlocks /\ nth[x] # w[x]
    OBVIOUS
  <2>5. nth[x] = step(nth)[x] /\ w[x] = step(w)[x]
    BY <1>4, <1>6
  <2>6. x # 0
    BY <2>4, <2>5
  <2>7. x - 1 \in 0 .. NumBlocks /\ x - 1 \notin S
    BY <2>3, <2>4, <2>6, Sizing
  <2>8. nth[x - 1] = w[x - 1]
    BY <2>7
  <2> QED BY <2>4, <2>5, <2>6, <2>8
<1>8. DOMAIN nth = 0 .. NumBlocks
  BY <1>6
<1> QED BY <1>7, <1>8 DEF w, nth

(* The walk is long enough: the list has no more pieces than there are blocks. *)
LEMMA ListLength ==
  ASSUME NEW h, NEW heads, NEW nx, NEW free, Blocks(h, heads, nx, free),
         NEW K, NEW L, List(h, free, K, L)
  PROVE  K <= NumBlocks - 2
<1> DEFINE T == 1 .. (NumBlocks - 2)
           f == [k \in 1 .. K |-> L[k]]
<1>1. K \in Nat /\ NumBlocks - 2 \in Nat /\ 1 \in Int /\ K \in Int /\ NumBlocks - 2 \in Int
  BY Sizing DEF List
<1>2. IsFiniteSet(1 .. K) /\ Cardinality(1 .. K) = K
  BY <1>1, FS_Interval
<1>3. IsFiniteSet(T) /\ Cardinality(T) = NumBlocks - 2
  BY <1>1, FS_Interval
<1>4. free \subseteq T
  <2>1. \A b \in Numbers \ {0, LastBlock} : b \in T
    BY Sizing DEF Numbers, LastBlock
  <2> QED BY <2>1 DEF Blocks
<1>5. f \in [1 .. K -> T]
  BY <1>4 DEF List
<1>6. SUFFICES ASSUME NumBlocks - 2 < K PROVE FALSE
  BY <1>1
<1>7. \A x, y \in 1 .. K : f[x] = f[y] => x = y
  BY DEF List
<1>8. Cardinality(T) < Cardinality(1 .. K)
  BY <1>2, <1>3, <1>6
<1> DEFINE S == 1 .. K
<1> HIDE DEF T, f, S
<1>9. \E x, y \in S : x # y /\ f[x] = f[y]
  <2>1. IsFiniteSet(S) /\ IsFiniteSet(T) /\ Cardinality(T) < Cardinality(S) /\ f \in [S -> T]
    BY <1>2, <1>3, <1>5, <1>8 DEF S
  <2> QED BY <2>1, FS_PigeonHole, Zenon
<1> QED BY <1>7, <1>9 DEF S

(* A free piece that is big enough, or none if there is none.             *)
LEMMA BestFitFacts ==
  ASSUME NEW h, NEW heads, NEW nx, NEW free, Heap(h, heads, nx, free), NEW n \in Nat
  PROVE  \/ BestFit(h, n) = 0 /\ \A b \in free : nx[b] - b < n
         \/ BestFit(h, n) \in free /\ nx[BestFit(h, n)] - BestFit(h, n) >= n
<1>1. Blocks(h, heads, nx, free)
  BY DEF Heap
<1>2. PICK K, L : List(h, free, K, L)
  BY DEF Heap
<1> DEFINE list == FreeList(h)
           fits == {k \in DOMAIN list : list[k] # 0 /\ BlockSize(h, list[k]) >= n}
           better(j, k) == LET x == BlockSize(h, list[j])
                               y == BlockSize(h, list[k])
                           IN  x < y \/ (x = y /\ j <= k)
           sz(k) == BlockSize(h, list[k])
<1>3. K \in Nat /\ K <= NumBlocks - 2 /\ \A k \in 1 .. K : L[k] \in free
  <2>1. K \in Nat /\ \A k \in 1 .. K : L[k] \in free
    BY <1>2 DEF List
  <2>2. K <= NumBlocks - 2
    BY <1>1, <1>2, ListLength, Zenon
  <2> QED BY <2>1, <2>2
<1>4. /\ DOMAIN list = 0 .. NumBlocks
      /\ \A k \in 0 .. NumBlocks : list[k] = IF k <= K THEN L[k + 1] ELSE 0
  BY <1>1, <1>2, FreeListFacts
<1>5. \A b \in free : /\ b \in heads \ {LastBlock} /\ b \in Nat /\ b # 0
                      /\ BlockSize(h, b) = nx[b] - b /\ BlockSize(h, b) \in Nat
  <2> SUFFICES ASSUME NEW b \in free
               PROVE  /\ b \in heads \ {LastBlock} /\ b \in Nat /\ b # 0
                      /\ BlockSize(h, b) = nx[b] - b /\ BlockSize(h, b) \in Nat
    OBVIOUS
  <2>1. b \in heads \ {LastBlock} /\ b # 0
    BY <1>1 DEF Blocks
  <2>2. b \in Nat /\ nx[b] \in Nat /\ b < nx[b]
    BY <1>1, <2>1, Geometry
  <2>3. BlockSize(h, b) = nx[b] - b
    BY <1>1, <2>1, NextFacts
  <2> QED BY <2>1, <2>2, <2>3
<1>6. \A k \in 0 .. NumBlocks : list[k] # 0 => list[k] \in free
  <2> SUFFICES ASSUME NEW k \in 0 .. NumBlocks, list[k] # 0
               PROVE  list[k] \in free
    OBVIOUS
  <2>1. k <= K /\ list[k] = L[k + 1]
    BY <1>4
  <2>2. k + 1 \in 1 .. K \/ k + 1 = K + 1
    BY <1>3, <2>1
  <2>3. L[K + 1] = 0
    BY <1>2 DEF List
  <2> QED BY <1>3, <2>1, <2>2, <2>3
<1>7. \A b \in free : \E k \in 0 .. NumBlocks : list[k] = b
  <2> SUFFICES ASSUME NEW b \in free
               PROVE  \E k \in 0 .. NumBlocks : list[k] = b
    OBVIOUS
  <2>1. PICK i \in 1 .. K : L[i] = b
    BY <1>2 DEF List
  <2>2. i - 1 \in 0 .. NumBlocks /\ i - 1 <= K /\ (i - 1) + 1 = i
    BY <1>3, Sizing
  <2>3. list[i - 1] = b
    BY <1>4, <2>1, <2>2
  <2> QED BY <2>2, <2>3
<1>8. BestFit(h, n) = IF fits = {} THEN 0 ELSE list[CHOOSE k \in fits : \A j \in fits : better(k, j)]
  BY DEF BestFit
<1> HIDE DEF list
<1>9. CASE fits = {}
  <2>1. \A b \in free : ~(BlockSize(h, b) >= n)
    BY <1>4, <1>5, <1>7, <1>9
  <2> QED BY <1>5, <1>8, <1>9, <2>1
<1>10. CASE fits # {}
  <2>1. \A k \in fits : k \in 0 .. NumBlocks /\ k \in Nat /\ list[k] \in free /\ sz(k) \in Nat /\ sz(k) >= n
    BY <1>4, <1>5, <1>6, Sizing
  <2>2. PICK m \in {sz(k) : k \in fits} : \A y \in {sz(k) : k \in fits} : m <= y
    <3>1. {sz(k) : k \in fits} \in SUBSET Nat /\ {sz(k) : k \in fits} # {}
      BY <1>10, <2>1
    <3> QED BY <3>1, Smallest
  <2> DEFINE ties == {k \in fits : sz(k) = m}
  <2>3. PICK i \in ties : \A j \in ties : i <= j
    <3>1. ties \in SUBSET Nat /\ ties # {}
      BY <2>1, <2>2
    <3> QED BY <3>1, Smallest
  <2>4. i \in fits /\ sz(i) = m
    BY <2>3
  <2>5. \A j \in fits : better(i, j)
    <3> SUFFICES ASSUME NEW j \in fits PROVE better(i, j)
      OBVIOUS
    <3>1. sz(j) \in Nat /\ sz(i) \in Nat /\ sz(i) <= sz(j)
      BY <2>1, <2>2, <2>4
    <3>2. sz(j) = sz(i) => i <= j
      BY <2>3, <2>4
    <3> QED BY <3>1, <3>2
  <2>6. (CHOOSE k \in fits : \A j \in fits : better(k, j)) \in fits
    BY <2>4, <2>5, Zenon
  <2>7. BestFit(h, n) \in free /\ BlockSize(h, BestFit(h, n)) >= n
    BY <1>8, <1>10, <2>1, <2>6
  <2> QED BY <1>5, <2>7
<1> QED BY <1>9, <1>10

(* umm_init() *)
LEMMA InitFacts ==
  LET heads == {0, 1, LastBlock}
      nx == [b \in heads |-> IF b = 0 THEN 1 ELSE IF b = 1 THEN LastBlock ELSE 0]
  IN  Heap(umm_init, heads, nx, {1}) /\ Apart(nx, {1})
<1> DEFINE h == umm_init
           heads == {0, 1, LastBlock}
           nx == [b \in heads |-> IF b = 0 THEN 1 ELSE IF b = 1 THEN LastBlock ELSE 0]
           L == [k \in 0 .. 2 |-> IF k = 1 THEN 1 ELSE 0]
<1>1. LastBlock \in Nat /\ LastBlock >= 2 /\ LastBlock = NumBlocks - 1
  BY Sizing DEF LastBlock
<1>2. h \in [Words -> Nat]
  BY <1>1, Sizing DEF umm_init, Words
<1>3. /\ h[NBLOCK(0)] = 1 /\ h[NBLOCK(1)] = LastBlock + FREELIST_MASK /\ h[NBLOCK(LastBlock)] = 0
      /\ h[PBLOCK(1)] = 0 /\ h[PBLOCK(LastBlock)] = 1
      /\ h[NFREE(0)] = 1 /\ h[PFREE(0)] = 1 /\ h[NFREE(1)] = 0 /\ h[PFREE(1)] = 0
  BY <1>1, Sizing DEF umm_init, NBLOCK, PBLOCK, NFREE, PFREE
<1> HIDE DEF h
<1>4. Blocks(h, heads, nx, {1})
  <2>1. nx \in [heads -> Numbers] /\ nx[0] = 1 /\ nx[1] = LastBlock /\ nx[LastBlock] = 0
    BY <1>1, Sizing DEF Numbers
  <2> HIDE DEF nx
  <2>2. heads \subseteq Numbers /\ {1} \subseteq heads \ {0, LastBlock}
    BY <1>1, Sizing DEF Numbers
  <2>3. \A b \in heads \ {LastBlock} :
          /\ nx[b] \in heads /\ b < nx[b] /\ \A c \in heads : c <= b \/ nx[b] <= c
          /\ h[PBLOCK(nx[b])] = b
    BY <1>1, <1>3, <2>1
  <2>4. \A b \in heads \ {0} : h[PBLOCK(b)] \in heads \ {LastBlock} /\ nx[h[PBLOCK(b)]] = b
    BY <1>1, <1>3, <2>1
  <2>5. \A b \in heads : h[NBLOCK(b)] = IF b \in {1} THEN nx[b] + FREELIST_MASK ELSE nx[b]
    BY <1>1, <1>3, <2>1
  <2> QED BY <1>2, <2>1, <2>2, <2>3, <2>4, <2>5 DEF Blocks
<1>5. List(h, {1}, 1, L)
  <2>1. L \in [0 .. 1 + 1 -> Nat] /\ L[0] = 0 /\ L[1] = 1 /\ L[1 + 1] = 0
    OBVIOUS
  <2>2. \A k \in 1 .. 1 : k = 1
    OBVIOUS
  <2>3. \A k \in 0 .. 1 : k = 0 \/ k = 1
    OBVIOUS
  <2> HIDE DEF L
  <2> QED BY <1>3, <2>1, <2>2, <2>3 DEF List
<1>6. Apart(nx, {1})
  BY <1>1 DEF Apart
<1> QED BY <1>4, <1>5, <1>6 DEF Heap, h

-----------------------------------------------------------------------------
(* What a call leaves alone: where the pieces us end, and what is in them.  *)
Kept(h, nx, g, nx1, us) == \A u \in us : nx1[u] = nx[u] /\ Same(h, g, Data(nx, u))

LEMMA KeptTwice ==
  ASSUME NEW h, NEW nx, NEW g, NEW nx1, NEW k, NEW nx2, NEW us, NEW vs,
         Kept(h, nx, g, nx1, us), Kept(g, nx1, k, nx2, vs)
  PROVE  Kept(h, nx, k, nx2, us \cap vs)
<1> SUFFICES ASSUME NEW u \in us \cap vs
             PROVE  nx2[u] = nx[u] /\ Same(h, k, Data(nx, u))
  BY DEF Kept
<1>1. nx1[u] = nx[u] /\ Same(h, g, Data(nx, u)) /\ nx2[u] = nx1[u] /\ Same(g, k, Data(nx1, u))
  BY DEF Kept
<1>2. Data(nx1, u) = Data(nx, u)
  BY <1>1 DEF Data
<1> QED BY <1>1, <1>2 DEF Same

(* umm_malloc(): a piece of n blocks is in use, or there is none.           *)
LEMMA MallocFacts ==
  ASSUME NEW h, NEW heads, NEW nx, NEW free, Heap(h, heads, nx, free), Apart(nx, free),
         NEW bytes \in Nat, bytes > 0, NEW n, n = blocks(bytes),
         NEW r, r = umm_malloc(h, bytes)
  PROVE  \/ r.c = 0 /\ r.heap = h /\ \A f \in free : nx[f] - f < n
         \/ /\ r.c \in free
            /\ \E heads1, nx1, free1 :
                 /\ Heap(r.heap, heads1, nx1, free1) /\ Apart(nx1, free1)
                 /\ Used(heads1, free1) = Used(heads, free) \cup {r.c}
                 /\ nx1[r.c] - r.c = n
                 /\ Kept(h, nx, r.heap, nx1, Used(heads, free))
<1> DEFINE c == BestFit(h, n)
           rest == c + n
           s == split_block(h, c, n, FREELIST_MASK)
           k == Relisted(s, h, c, rest)
<1>1. n \in Nat /\ n > 0
  BY DEF blocks
<1>2. Blocks(h, heads, nx, free)
  BY DEF Heap
<1>3. r = IF c = 0 THEN [heap |-> h, c |-> 0]
          ELSE [heap |-> IF BlockSize(h, c) = n THEN disconnect_from_free_list(h, c) ELSE k,
                c |-> c]
  BY DEF umm_malloc, Relisted
<1>4. \/ c = 0 /\ \A b \in free : nx[b] - b < n
      \/ c \in free /\ nx[c] - c >= n
  BY <1>1, BestFitFacts
<1> HIDE DEF c, s, k
<1>5. CASE c = 0 /\ \A b \in free : nx[b] - b < n
  BY <1>3, <1>5
<1>6. CASE c \in free /\ nx[c] - c >= n
  <2>1. c \in free /\ c \in heads \ {0, LastBlock} /\ c \in Nat /\ nx[c] \in Nat /\ c # 0 /\ c \in heads \ {LastBlock}
    <3>1. c \in free /\ c \in heads \ {0, LastBlock} /\ c \in heads \ {LastBlock} /\ c # 0
      BY <1>2, <1>6 DEF Blocks
    <3> QED BY <1>2, <3>1, Geometry
  <2>2. BlockSize(h, c) = nx[c] - c
    BY <1>2, <2>1, NextFacts
  <2>3. Used(heads, free \ {c}) = Used(heads, free) \cup {c}
    BY <2>1 DEF Used
  <2>4. CASE nx[c] - c = n
    <3> DEFINE g == disconnect_from_free_list(h, c)
    <3> HIDE DEF g
    <3>1. r = [heap |-> g, c |-> c]
      BY <1>3, <2>1, <2>2, <2>4 DEF g
    <3>2. Heap(g, heads, nx, free \ {c}) /\ \A u \in Used(heads, free) : Same(h, g, Data(nx, u))
      BY <2>1, DisconnectFacts DEF g
    <3>3. Apart(nx, free \ {c})
      BY DEF Apart
    <3>4. Kept(h, nx, g, nx, Used(heads, free))
      BY <3>2 DEF Kept
    <3> QED BY <2>1, <2>3, <2>4, <3>1, <3>2, <3>3, <3>4
  <2>5. CASE nx[c] - c # n
    <3> DEFINE heads1 == heads \cup {rest}
               nx1 == SplitNext(heads, nx, c, n)
               free1 == (free \ {c}) \cup {rest}
               fate(mask) == (free \ {c}) \cup (IF mask = 0 THEN {} ELSE {c + n})
    <3>0. FREELIST_MASK \in {0, FREELIST_MASK} /\ fate(FREELIST_MASK) = free1
      BY Sizing
    <3>1. c + n < nx[c]
      BY <1>1, <1>6, <2>1, <2>5
    <3>2. r = [heap |-> k, c |-> c]
      BY <1>3, <2>1, <2>2, <2>5
    <3>3. /\ rest \notin heads /\ rest \in Numbers
          /\ Blocks(s, heads1, nx1, free1)
          /\ SameLinks(h, s, heads)
          /\ \A u \in Used(heads, free) : Same(h, s, Data(nx1, u))
      <4>1. c + n \notin heads /\ c + n \in Numbers
        <5>1. c + n \notin heads
          BY <1>1, <1>2, <2>1, <3>0, <3>1, SplitFacts, Zenon
        <5>2. c + n \in Numbers
          BY <1>1, <1>2, <2>1, <3>1, Sizing DEF Numbers, Blocks
        <5> QED BY <5>1, <5>2
      <4>2. Blocks(s, heads \cup {c + n}, SplitNext(heads, nx, c, n), fate(FREELIST_MASK))
        BY <1>1, <1>2, <2>1, <3>0, <3>1, SplitFacts, Zenon DEF s
      <4>3. SameLinks(h, s, heads)
        BY <1>1, <1>2, <2>1, <3>0, <3>1, SplitFacts, Zenon DEF s
      <4>4. \A u \in Used(heads, free) : Same(h, s, Data(SplitNext(heads, nx, c, n), u))
        BY <1>1, <1>2, <2>1, <3>0, <3>1, SplitFacts, Zenon DEF s
      <4> HIDE DEF fate
      <4> QED BY <3>0, <4>1, <4>2, <4>3, <4>4
    <3>4. nx1[c] = rest /\ nx1[rest] = nx[c] /\ \A b \in heads \ {c} : nx1[b] = nx[b]
      BY <2>1, <3>3 DEF SplitNext
    <3> HIDE DEF nx1
    <3>5. heads \subseteq heads1 /\ rest # c /\ free \subseteq heads \ {0, LastBlock}
          /\ rest # 0 /\ rest # LastBlock /\ nx[c] \in heads /\ \A b \in free : nx[b] \in heads
      BY <1>2, <2>1, <3>3 DEF Blocks
    <3>6. Heap(k, heads1, nx1, free1) /\ \A u \in Used(heads1, free1) : Same(s, k, Data(nx1, u))
      <4>1. Heap(k, heads1, nx1, free1)
        BY <2>1, <3>3, <3>5, RelistFacts, Zenon DEF k
      <4>2. \A u \in Used(heads1, free1) : Same(s, k, Data(nx1, u))
        BY <2>1, <3>3, <3>5, RelistFacts, Zenon DEF k
      <4> QED BY <4>1, <4>2
    <3>7. Used(heads1, free1) = Used(heads, free) \cup {c}
      BY <2>1, <3>3, <3>5 DEF Used
    <3>8. Apart(nx1, free1)
      <4>1. 0 \in heads \ {c}
        BY <1>2, <2>1 DEF Blocks
      <4> QED BY <2>1, <3>3, <3>4, <3>5, <4>1 DEF Apart
    <3>9. Kept(h, nx, k, nx1, Used(heads, free))
      <4> SUFFICES ASSUME NEW u \in Used(heads, free)
                   PROVE  nx1[u] = nx[u] /\ Same(h, k, Data(nx, u))
        BY DEF Kept
      <4>1. u \in heads \ {c}
        BY <2>1 DEF Used
      <4>2. nx1[u] = nx[u] /\ Data(nx1, u) = Data(nx, u)
        BY <3>4, <4>1 DEF Data
      <4>3. Same(h, s, Data(nx, u)) /\ Same(s, k, Data(nx, u))
        BY <3>3, <3>6, <3>7, <4>2
      <4> QED BY <4>2, <4>3 DEF Same
    <3>10. nx1[c] - c = n
      BY <1>1, <2>1, <3>4
    <3> HIDE DEF heads1, free1
    <3> QED BY <2>1, <3>2, <3>6, <3>7, <3>8, <3>9, <3>10
  <2> QED BY <2>4, <2>5
<1> QED BY <1>4, <1>5, <1>6

(* assimilate_up(): what follows a piece in use is taken in if it is free.  *)
LEMMA UpFacts ==
  ASSUME NEW h, NEW heads, NEW nx, NEW free, Heap(h, heads, nx, free), Apart(nx, free),
         NEW c \in Used(heads, free), NEW k, k = assimilate_up(h, c)
  PROVE  /\ nx[c] \notin free => k = h
         /\ \E heads1, nx1, free1 :
              /\ Heap(k, heads1, nx1, free1) /\ Apart(nx1, free1)
              /\ Used(heads1, free1) = Used(heads, free)
              /\ Kept(h, nx, k, nx1, Used(heads, free) \ {c})
              /\ Same(h, k, Data(nx, c))
              /\ nx1[c] >= nx[c] /\ nx1[c] \notin free1
<1> DEFINE n == nx[c]
           g == disconnect_from_free_list(h, n)
           m == Merged(g, c, n, nx[n], 0)
           heads1 == heads \ {n}
           free1 == free \ {n}
           nx1 == [b \in heads1 |-> IF b = c THEN nx[n] ELSE nx[b]]
<1>1. Blocks(h, heads, nx, free)
  BY DEF Heap
<1>2. c \in heads /\ c \in heads \ {0, LastBlock} /\ c \notin free /\ c \in heads \ {LastBlock}
  BY DEF Used
<1>3. c \in Nat /\ nx[c] \in Nat /\ c < nx[c] /\ n \in heads
  <2>1. n \in heads
    BY <1>1, <1>2 DEF Blocks
  <2> QED BY <1>1, <1>2, <2>1, Geometry
<1>4. h[NBLOCK(c)] = n
  BY <1>1, <1>2, NextFacts
<1>5. IsFree(h, n) <=> n \in free
  BY <1>1, <1>3, NextFacts
<1>6. CASE n \notin free
  <2>1. k = h
    BY <1>4, <1>5, <1>6 DEF assimilate_up
  <2>2. Kept(h, nx, h, nx, Used(heads, free) \ {c}) /\ Same(h, h, Data(nx, c))
    BY DEF Kept, Same
  <2> QED BY <1>3, <1>6, <2>1, <2>2
<1>7. CASE n \in free
  <2>1. n \in heads \ {0, LastBlock} /\ n \in heads \ {LastBlock} /\ n # 0
    BY <1>1, <1>7 DEF Blocks
  <2>2. n \in Nat /\ nx[n] \in Nat /\ n < nx[n] /\ nx[n] \in heads /\ nx[n] \notin free
    <3>1. nx[n] \in heads /\ nx[n] \notin free
      BY <1>1, <1>7, <2>1 DEF Blocks, Apart
    <3> QED BY <1>1, <1>3, <2>1, <3>1, Geometry
  <2>3. Heap(g, heads, nx, free1) /\ \A u \in Used(heads, free) : Same(h, g, Data(nx, u))
    BY <1>7, DisconnectFacts
  <2>4. Blocks(g, heads, nx, free1) /\ g \in [Words -> Nat]
    BY <2>3 DEF Heap, Blocks
  <2>5. g[NBLOCK(n)] = nx[n]
    <3>1. n \notin free1
      OBVIOUS
    <3> QED BY <1>3, <2>4, <3>1, NextFacts
  <2> HIDE DEF g
  <2>6. k = m
    <3>1. k = [g EXCEPT ![PBLOCK(nx[n])] = c, ![NBLOCK(c)] = nx[n]]
      BY <1>4, <1>5, <1>7, <2>5 DEF assimilate_up, g
    <3>2. PBLOCK(nx[n]) # NBLOCK(c) /\ nx[n] + 0 = nx[n]
      BY <1>3, <2>2 DEF PBLOCK, NBLOCK
    <3>3. m = [g EXCEPT ![NBLOCK(c)] = nx[n], ![PBLOCK(nx[n])] = c]
      BY <3>2 DEF Merged
    <3> QED BY <2>4, <3>1, <3>2, <3>3
  <2>7. c \notin free1 /\ n \notin free1 /\ n # LastBlock
        /\ m = Merged(g, c, n, nx[n], IF c \in free1 THEN FREELIST_MASK ELSE 0)
    BY <1>2, <2>1
  <2>8. Heap(m, heads1, nx1, free1) /\ \A u \in Used(heads, free1) : Same(g, m, Data(nx, u))
    <3> HIDE DEF m
    <3> HIDE DEF free1
    <3>1. Heap(m, heads \ {n}, MergeNext(heads, nx, c, n), free1)
      BY <1>2, <2>3, <2>7, MergeFacts, Zenon
    <3>2. \A u \in Used(heads, free1) : Same(g, m, Data(nx, u))
      BY <1>2, <2>3, <2>7, MergeFacts, Zenon
    <3> QED BY <3>1, <3>2 DEF MergeNext
  <2> HIDE DEF m
  <2>9. Used(heads1, free1) = Used(heads, free)
    BY <1>7 DEF Used
  <2>10. nx1[c] = nx[n] /\ \A b \in heads1 \ {c} : nx1[b] = nx[b]
    BY <1>2, <1>3
  <2>11. free1 \subseteq heads1 \ {c} /\ Used(heads, free) \ {c} \subseteq heads1 \ {c}
         /\ Used(heads, free) \subseteq Used(heads, free1)
    BY <1>1, <1>2, <1>7 DEF Blocks, Used
  <2> HIDE DEF nx1
  <2>12. Apart(nx1, free1)
    <3>1. 0 \in heads1 \ {c}
      BY <1>1, <1>2, <2>1 DEF Blocks
    <3> QED BY <2>10, <2>11, <3>1 DEF Apart
  <2>13. \A u \in Used(heads, free) : Same(h, m, Data(nx, u))
    BY <2>3, <2>8, <2>11 DEF Same
  <2>14. Kept(h, nx, m, nx1, Used(heads, free) \ {c})
    BY <2>10, <2>11, <2>13 DEF Kept
  <2>15. nx1[c] >= nx[c] /\ nx1[c] \notin free1
    BY <1>3, <2>2, <2>10
  <2> HIDE DEF heads1, free1
  <2> QED BY <1>7, <2>6, <2>8, <2>9, <2>12, <2>13, <2>14, <2>15
<1> QED BY <1>6, <1>7

(* umm_free(): the piece is free, together with its free neighbours.        *)
FreedPieces(h, nx, free, c, nx1, free1) ==
  nx[c] \notin free =>
    \A f \in free1 :
      \/ f \in free /\ nx1[f] = nx[f]
      \/ nx1[f] = nx[c] /\ f = IF h[PBLOCK(c)] \in free THEN h[PBLOCK(c)] ELSE c

LEMMA FreeFacts ==
  ASSUME NEW h, NEW heads, NEW nx, NEW free, Heap(h, heads, nx, free), Apart(nx, free),
         NEW c \in Used(heads, free), NEW k, k = umm_free(h, c)
  PROVE  \E heads1, nx1, free1 :
           /\ Heap(k, heads1, nx1, free1) /\ Apart(nx1, free1)
           /\ Used(heads1, free1) = Used(heads, free) \ {c}
           /\ Kept(h, nx, k, nx1, Used(heads, free) \ {c})
           /\ FreedPieces(h, nx, free, c, nx1, free1)
<1> DEFINE g == assimilate_up(h, c)
           p == g[PBLOCK(c)]
<1>1. PICK heads1, nx1, free1 :
        /\ Heap(g, heads1, nx1, free1) /\ Apart(nx1, free1)
        /\ Used(heads1, free1) = Used(heads, free)
        /\ Kept(h, nx, g, nx1, Used(heads, free) \ {c})
        /\ nx1[c] \notin free1
        /\ nx[c] \notin free => g = h /\ heads1 = heads /\ nx1 = nx /\ free1 = free
  <2>1. CASE nx[c] \in free
    BY <2>1, UpFacts
  <2>2. CASE nx[c] \notin free
    <3>1. g = h
      BY <2>2, UpFacts
    <3>2. Kept(h, nx, h, nx, Used(heads, free) \ {c})
      BY DEF Kept, Same
    <3> HIDE DEF g
    <3> QED BY <2>2, <3>1, <3>2
  <2> QED BY <2>1, <2>2
<1> HIDE DEF g
<1>2. Blocks(g, heads1, nx1, free1)
  BY <1>1 DEF Heap
<1>3. c \in heads1 \ {0, LastBlock} /\ c \in heads1 /\ c \notin free1 /\ c \in heads1 \ {0} /\ c # LastBlock /\ c # 0
      /\ c \in heads1 \ {LastBlock} /\ c \in Used(heads1, free1)
  BY <1>1 DEF Used
<1>4. p \in heads1 \ {LastBlock} /\ nx1[p] = c /\ p \in heads1
  BY <1>2, <1>3 DEF Blocks
<1>5. IsFree(g, p) <=> p \in free1
  BY <1>2, <1>4, NextFacts
<1>6. g[NBLOCK(c)] = nx1[c] /\ c < nx1[c] /\ c \in Nat /\ nx1[c] \in Nat
  BY <1>2, <1>3, NextFacts, Geometry
<1>7. k = IF p \in free1 THEN Merged(g, p, c, nx1[c], FREELIST_MASK) ELSE Inserted(g, c)
  BY <1>5, <1>6 DEF umm_free, assimilate_down, Merged, Inserted, g, p
<1>8. \A b \in free1 : b \in heads1 \ {LastBlock} /\ b \notin Used(heads1, free1)
                       /\ b # c /\ nx1[b] \notin free1
  BY <1>1, <1>2, <1>3 DEF Blocks, Used, Apart
<1>9. CASE p \in free1
  <2> DEFINE heads2 == heads1 \ {c}
             nx2 == [b \in heads2 |-> IF b = p THEN nx1[c] ELSE nx1[b]]
  <2>1. k = Merged(g, p, c, nx1[c], IF p \in free1 THEN FREELIST_MASK ELSE 0)
    BY <1>7, <1>9
  <2>2. Heap(k, heads2, nx2, free1) /\ \A u \in Used(heads1, free1) : Same(g, k, Data(nx1, u))
    <3>1. Heap(k, heads1 \ {c}, MergeNext(heads1, nx1, p, c), free1)
      <4> HIDE DEF p
      <4> QED BY <1>1, <1>3, <1>4, <2>1, MergeFacts, Zenon
    <3>2. \A u \in Used(heads1, free1) : Same(g, k, Data(nx1, u))
      <4> HIDE DEF p
      <4> QED BY <1>1, <1>3, <1>4, <2>1, MergeFacts, Zenon
    <3> QED BY <3>1, <3>2 DEF MergeNext
  <2>3. nx2[p] = nx1[c] /\ \A b \in heads2 \ {p} : nx2[b] = nx1[b]
    BY <1>8, <1>9
  <2>4. free1 \subseteq heads2 /\ Used(heads1, free1) \ {c} \subseteq heads2 \ {p}
    BY <1>8, <1>9 DEF Used
  <2> HIDE DEF nx2
  <2>5. Used(heads2, free1) = Used(heads, free) \ {c}
    BY <1>1 DEF Used
  <2>6. Apart(nx2, free1)
    <3>1. 0 \in heads2 \ {p}
      BY <1>2, <1>3, <1>9 DEF Blocks
    <3> QED BY <1>1, <1>8, <2>3, <2>4, <3>1 DEF Apart
  <2>7. Kept(g, nx1, k, nx2, Used(heads1, free1) \ {c})
    BY <2>2, <2>3, <2>4 DEF Kept
  <2>8. Kept(h, nx, k, nx2, Used(heads, free) \ {c})
    <3>1. Kept(h, nx, k, nx2, (Used(heads, free) \ {c}) \cap (Used(heads1, free1) \ {c}))
      BY <1>1, <2>7, KeptTwice, Zenon
    <3> QED BY <1>1, <3>1 DEF Kept
  <2>9. ASSUME nx[c] \notin free, NEW f \in free1
        PROVE  \/ f \in free /\ nx2[f] = nx[f]
               \/ nx2[f] = nx[c] /\ f = IF h[PBLOCK(c)] \in free THEN h[PBLOCK(c)] ELSE c
    BY <1>1, <1>9, <2>3, <2>4, <2>9
  <2> HIDE DEF heads2, p
  <2> QED BY <2>2, <2>5, <2>6, <2>8, <2>9 DEF FreedPieces
<1>10. CASE p \notin free1
  <2>1. k = Inserted(g, c)
    BY <1>7, <1>10
  <2>2. /\ Heap(k, heads1, nx1, free1 \cup {c})
        /\ \A u \in Used(heads1, free1) \ {c} : Same(g, k, Data(nx1, u))
    BY <1>1, <1>3, <2>1, InsertFacts
  <2>3. Used(heads1, free1 \cup {c}) = Used(heads, free) \ {c}
    BY <1>1 DEF Used
  <2>4. Apart(nx1, free1 \cup {c})
    <3>1. \A b \in free1 : nx1[b] # c
      BY <1>2, <1>4, <1>8, <1>10, Geometry
    <3> QED BY <1>1, <1>6, <1>8, <3>1 DEF Apart
  <2>5. Kept(g, nx1, k, nx1, Used(heads1, free1) \ {c})
    BY <2>2 DEF Kept
  <2>6. Kept(h, nx, k, nx1, Used(heads, free) \ {c})
    <3>1. Kept(h, nx, k, nx1, (Used(heads, free) \ {c}) \cap (Used(heads1, free1) \ {c}))
      BY <1>1, <2>5, KeptTwice, Zenon
    <3> QED BY <1>1, <3>1 DEF Kept
  <2>7. ASSUME nx[c] \notin free, NEW f \in free1 \cup {c}
        PROVE  \/ f \in free /\ nx1[f] = nx[f]
               \/ nx1[f] = nx[c] /\ f = IF h[PBLOCK(c)] \in free THEN h[PBLOCK(c)] ELSE c
    BY <1>1, <1>10, <2>7
  <2> HIDE DEF p
  <2> QED BY <2>2, <2>3, <2>4, <2>6, <2>7 DEF FreedPieces
<1> QED BY <1>9, <1>10

-----------------------------------------------------------------------------
(* The data of one piece are those of another, earlier, as far as count.    *)
Copied(h, b, g, d, count) == \A i \in 0 .. (count - 1) : g[NFREE(d) + i] = h[NFREE(b) + i]

(* The copy of umm_realloc() into a piece that is in use.                   *)
LEMMA MovedFacts ==
  ASSUME NEW h, NEW heads, NEW nx, NEW free, Heap(h, heads, nx, free),
         NEW d \in Used(heads, free), NEW b \in Numbers, NEW count \in Nat,
         count <= 4 * (nx[d] - d) - 2, NFREE(b) + count <= 4 * NumBlocks,
         NEW g, g = Moved(h, b, d, count)
  PROVE  /\ Heap(g, heads, nx, free)
         /\ Kept(h, nx, g, nx, Used(heads, free) \ {d})
         /\ Copied(h, b, g, d, count)
<1>1. Blocks(h, heads, nx, free) /\ h \in [Words -> Nat]
  BY DEF Heap, Blocks
<1>2. d \in heads \ {LastBlock} /\ d \in heads
  BY DEF Used
<1>3. d \in Nat /\ nx[d] \in Nat /\ nx[d] <= LastBlock /\ b \in Nat
  BY <1>1, <1>2, Geometry DEF Numbers
<1>4. NFREE(d) \in Nat /\ NFREE(b) \in Nat /\ NFREE(d) + count <= 4 * nx[d] /\ 4 * nx[d] <= 4 * NumBlocks
      /\ NFREE(d) = 4 * d + 2
  BY <1>3, Sizing DEF NFREE, LastBlock
<1>5. \A a \in NFREE(d) .. (NFREE(d) + count - 1) :
        a \in Words /\ a \in Data(nx, d) /\ a - NFREE(d) + NFREE(b) \in Words
  BY <1>3, <1>4, Sizing DEF Words, Data
<1>6. g \in [Words -> Nat] /\ \A a \in Words \ Data(nx, d) : g[a] = h[a]
  BY <1>1, <1>5 DEF Moved
<1>7. Heap(g, heads, nx, free)
      /\ \A v \in Used(heads, free) \ {d} : Same(h, g, Data(nx, v))
  BY <1>6, WriteFacts
<1>8. Copied(h, b, g, d, count)
  <2> SUFFICES ASSUME NEW i \in 0 .. (count - 1)
               PROVE  g[NFREE(d) + i] = h[NFREE(b) + i]
    BY DEF Copied
  <2>1. NFREE(d) + i \in NFREE(d) .. (NFREE(d) + count - 1)
        /\ (NFREE(d) + i) - NFREE(d) + NFREE(b) = NFREE(b) + i
    BY <1>4
  <2>2. NFREE(d) + i \in Words /\ DOMAIN h = Words
    BY <1>1, <1>5, <2>1
  <2> QED BY <2>1, <2>2 DEF Moved
<1> QED BY <1>7, <1>8 DEF Kept

(* Data that are kept are a copy of themselves.                           *)
LEMMA CopiedFacts ==
  ASSUME NEW h, NEW nx, NEW g, NEW b, NEW e \in Nat, b \in Nat, nx[b] \in Nat,
         Same(h, g, Data(nx, b)), e <= 4 * (nx[b] - b) - 2
  PROVE  Copied(h, b, g, b, e)
<1> SUFFICES ASSUME NEW i \in 0 .. (e - 1)
             PROVE  g[NFREE(b) + i] = h[NFREE(b) + i]
  BY DEF Copied
<1>1. NFREE(b) + i \in Data(nx, b)
  BY DEF Data, NFREE
<1> QED BY <1>1 DEF Same

(* What umm_realloc() has after it took in the free neighbours, for n       *)
(* blocks: the piece before only if that will do.                           *)
Downward(u, c, n) == IsFree(u, u[PBLOCK(c)]) /\ n <= u[NBLOCK(c)] - u[PBLOCK(c)]
DataCount(h, c) == 4 * BlockSize(h, c) - 2
Grown(h, c, n) ==
  LET u == assimilate_up(h, c)
      p == u[PBLOCK(c)]
  IN  IF Downward(u, c, n)
      THEN [heap |-> Moved(assimilate_down(disconnect_from_free_list(u, p), c, 0), c, p, DataCount(h, c)),
            c |-> p]
      ELSE [heap |-> u, c |-> c]

TooSmall(g, nx1, free1, c, d, n) ==
  nx1[d] - d < n => d = c /\ (g[PBLOCK(c)] \in free1 => nx1[c] - g[PBLOCK(c)] < n)

GrownOutcome(h, heads, nx, free, c, n, d, g) ==
  \E heads1, nx1, free1 :
    /\ Heap(g, heads1, nx1, free1) /\ Apart(nx1, free1)
    /\ Used(heads1, free1) = (Used(heads, free) \ {c}) \cup {d}
    /\ d \notin Used(heads, free) \ {c}
    /\ Kept(h, nx, g, nx1, Used(heads, free) \ {c})
    /\ Copied(h, c, g, d, DataCount(h, c))
    /\ nx1[d] \notin free1 /\ nx1[d] - d >= nx[c] - c
    /\ TooSmall(g, nx1, free1, c, d, n)

LEMMA GrownFacts ==
  ASSUME NEW h, NEW heads, NEW nx, NEW free, Heap(h, heads, nx, free), Apart(nx, free),
         NEW c \in Used(heads, free), NEW n \in Nat,
         NEW d, d = Grown(h, c, n).c, NEW g, g = Grown(h, c, n).heap
  PROVE  GrownOutcome(h, heads, nx, free, c, n, d, g)
<1> DEFINE u == assimilate_up(h, c)
           p == u[PBLOCK(c)]
           U == Used(heads, free)
           count == DataCount(h, c)
<1>1. PICK heads1, nx1, free1 :
        /\ Heap(u, heads1, nx1, free1) /\ Apart(nx1, free1)
        /\ Used(heads1, free1) = U
        /\ Kept(h, nx, u, nx1, U \ {c})
        /\ Same(h, u, Data(nx, c))
        /\ nx1[c] >= nx[c] /\ nx1[c] \notin free1
  BY UpFacts
<1> HIDE DEF u
<1>2. Blocks(u, heads1, nx1, free1) /\ Blocks(h, heads, nx, free)
  BY <1>1 DEF Heap
<1>3. /\ c \in heads1 \ {0, LastBlock} /\ c \in heads1 \ {0} /\ c \in heads1 \ {LastBlock}
      /\ c \in heads1 /\ c \notin free1 /\ c # 0 /\ c # LastBlock
      /\ c \in heads \ {LastBlock} /\ c \in heads
  BY <1>1 DEF Used
<1>4. /\ c \in Nat /\ nx[c] \in Nat /\ c < nx[c] /\ nx[c] <= LastBlock
      /\ nx1[c] \in Nat /\ c < nx1[c] /\ nx1[c] <= LastBlock
  BY <1>2, <1>3, Geometry
<1>5. count = 4 * (nx[c] - c) - 2 /\ count \in Nat
  <2>1. BlockSize(h, c) = nx[c] - c
    BY <1>2, <1>3, NextFacts
  <2> QED BY <1>4, <2>1 DEF DataCount
<1> HIDE DEF count
<1>6. p \in heads1 \ {LastBlock} /\ nx1[p] = c /\ p \in heads1 /\ p # LastBlock
  BY <1>2, <1>3 DEF Blocks
<1>7. (IsFree(u, p) <=> p \in free1) /\ u[NBLOCK(c)] = nx1[c]
  BY <1>2, <1>3, <1>6, NextFacts
<1>8. p \in Nat /\ p < c
  BY <1>2, <1>6, Geometry
<1>9. Copied(h, c, u, c, count)
  BY <1>1, <1>4, <1>5, CopiedFacts
<1>10. CASE ~Downward(u, c, n)
  <2>1. d = c /\ g = u
    BY <1>10 DEF Grown, u
  <2>2. p \in free1 => nx1[c] - p < n
    BY <1>4, <1>7, <1>8, <1>10 DEF Downward
  <2>3. U = (U \ {c}) \cup {c}
    OBVIOUS
  <2>4. nx1[c] - c >= nx[c] - c
    BY <1>1, <1>4
  <2> HIDE DEF U
  <2> QED BY <1>1, <1>9, <2>1, <2>2, <2>3, <2>4 DEF count, U, TooSmall, GrownOutcome
<1>11. CASE Downward(u, c, n)
  <2> DEFINE x == disconnect_from_free_list(u, p)
             free2 == free1 \ {p}
             y == assimilate_down(x, c, 0)
             heads2 == heads1 \ {c}
             nx2 == MergeNext(heads1, nx1, p, c)
  <2>1. p \in free1 /\ n <= nx1[c] - p
    BY <1>7, <1>11 DEF Downward
  <2>2. d = p /\ g = Moved(y, c, p, count)
    BY <1>11 DEF Grown, u, count
  <2>3. Heap(x, heads1, nx1, free2) /\ \A v \in U : Same(u, x, Data(nx1, v))
    BY <1>1, <2>1, DisconnectFacts
  <2> HIDE DEF x
  <2>4. Blocks(x, heads1, nx1, free2)
    BY <2>3 DEF Heap
  <2>5. x[PBLOCK(c)] = p /\ x[NBLOCK(c)] = nx1[c]
    <3>1. x[PBLOCK(c)] = p
      BY <1>6, <2>4 DEF Blocks
    <3>2. x[NBLOCK(c)] = nx1[c]
      BY <1>3, <2>4, NextFacts
    <3> QED BY <3>1, <3>2
  <2>6. c = nx1[p] /\ c \notin free2 /\ y = Merged(x, p, c, nx1[c], IF p \in free2 THEN FREELIST_MASK ELSE 0)
    BY <1>3, <1>6, <2>5 DEF assimilate_down, Merged
  <2>7. Heap(y, heads2, nx2, free2) /\ \A v \in Used(heads1, free2) : Same(x, y, Data(nx1, v))
    <3> HIDE DEF y, free2, p
    <3>1. Heap(y, heads1 \ {c}, MergeNext(heads1, nx1, p, c), free2)
      BY <1>3, <1>6, <2>3, <2>6, MergeFacts, Zenon
    <3>2. \A v \in Used(heads1, free2) : Same(x, y, Data(nx1, v))
      BY <1>3, <1>6, <2>3, <2>6, MergeFacts, Zenon
    <3> QED BY <3>1, <3>2
  <2> HIDE DEF y
  <2>8. nx2[p] = nx1[c] /\ \A b \in heads2 \ {p} : nx2[b] = nx1[b]
    BY <1>6, <1>8 DEF MergeNext
  <2> HIDE DEF nx2
  <2>9. p # 0 /\ p # LastBlock /\ free2 \subseteq heads2 \ {p}
    BY <1>2, <1>3, <1>6, <2>1 DEF Blocks
  <2>10. Used(heads2, free2) = (U \ {c}) \cup {p} /\ p \notin U
    BY <1>1, <1>6, <1>8, <2>1, <2>9 DEF Used
  <2>11. Apart(nx2, free2) /\ nx2[p] \notin free2
    <3>1. 0 \in heads2 \ {p}
      BY <1>2, <1>3, <2>9 DEF Blocks
    <3> QED BY <1>1, <2>8, <2>9, <3>1 DEF Apart
  <2>12. c \in Numbers /\ count <= 4 * (nx2[p] - p) - 2 /\ NFREE(c) + count <= 4 * NumBlocks
         /\ nx2[p] - p >= nx[c] - c /\ nx2[p] - p >= n
    BY <1>1, <1>4, <1>5, <1>8, <2>1, <2>8, Sizing DEF Numbers, NFREE, LastBlock
  <2>13. /\ Heap(g, heads2, nx2, free2)
         /\ Kept(y, nx2, g, nx2, Used(heads2, free2) \ {p})
         /\ Copied(y, c, g, p, count)
    <3>1. p \in Used(heads2, free2)
      BY <2>10
    <3> HIDE DEF p, heads2, free2
    <3>2. Heap(g, heads2, nx2, free2)
      BY <1>5, <2>2, <2>7, <2>12, <3>1, MovedFacts, Zenon
    <3>3. Kept(y, nx2, g, nx2, Used(heads2, free2) \ {p})
      BY <1>5, <2>2, <2>7, <2>12, <3>1, MovedFacts, Zenon
    <3>4. Copied(y, c, g, p, count)
      BY <1>5, <2>2, <2>7, <2>12, <3>1, MovedFacts, Zenon
    <3> QED BY <3>2, <3>3, <3>4
  <2>14. U \subseteq Used(heads1, free2) /\ c \in U
    BY <1>1 DEF Used
  <2>15. \A v \in U : Same(u, y, Data(nx1, v))
    BY <2>3, <2>7, <2>14 DEF Same
  <2>16. Kept(h, nx, g, nx2, U \ {c})
    <3>1. Kept(u, nx1, y, nx2, U \ {c})
      <4>1. \A v \in U \ {c} : v \in heads2 \ {p}
        BY <1>1, <2>10 DEF Used
      <4> QED BY <2>8, <2>15, <4>1 DEF Kept
    <3> DEFINE V == U \ {c}
    <3>2. Used(heads2, free2) \ {p} = V
      BY <2>10
    <3>3. Kept(h, nx, u, nx1, V) /\ Kept(u, nx1, y, nx2, V) /\ Kept(y, nx2, g, nx2, V)
      BY <1>1, <2>13, <3>1, <3>2
    <3> HIDE DEF V, p, U
    <3>4. Kept(h, nx, y, nx2, V \cap V)
      BY <3>3, KeptTwice, Zenon
    <3>5. V \cap V = V
      OBVIOUS
    <3>6. Kept(h, nx, y, nx2, V)
      BY <3>4, <3>5
    <3>7. Kept(h, nx, g, nx2, V \cap V)
      BY <3>3, <3>6, KeptTwice, Zenon
    <3> QED BY <3>5, <3>7 DEF V
  <2>17. Copied(h, c, g, p, count)
    <3>1. Data(nx, c) \subseteq Data(nx1, c)
      BY <1>1, <1>4 DEF Data, NFREE
    <3>2. Same(h, y, Data(nx, c))
      BY <1>1, <2>14, <2>15, <3>1 DEF Same
    <3>3. Copied(h, c, y, c, count)
      BY <1>4, <1>5, <3>2, CopiedFacts
    <3> QED BY <2>13, <3>3 DEF Copied
  <2>18. p \notin U \ {c} /\ ~(nx2[p] - p < n)
    BY <1>4, <1>8, <2>8, <2>10, <2>12
  <2> HIDE DEF heads2, free2, p, U
  <2> QED BY <2>2, <2>10, <2>11, <2>12, <2>13, <2>16, <2>17, <2>18 DEF count, U, TooSmall, GrownOutcome
<1> QED BY <1>10, <1>11

LEMMA KeptOn ==
  ASSUME NEW h, NEW nx, NEW g, NEW nx1, NEW k, NEW nx2, NEW us, NEW vs, us \subseteq vs,
         Kept(h, nx, g, nx1, us), Kept(g, nx1, k, nx2, vs)
  PROVE  Kept(h, nx, k, nx2, us)
<1>1. us \cap vs = us
  OBVIOUS
<1>2. Kept(h, nx, k, nx2, us \cap vs)
  BY KeptTwice, Zenon
<1> QED BY <1>1, <1>2

LEMMA CopiedLess ==
  ASSUME NEW h, NEW g, NEW b, NEW d, NEW count \in Nat, NEW less \in Nat,
         less <= count, Copied(h, b, g, d, count)
  PROVE  Copied(h, b, g, d, less)
BY DEF Copied

(* umm_realloc() to a part of a piece: the rest is given back.              *)
CutOutcome(h, heads, nx, free, d, n, k) ==
  \E heads1, nx1, free1 :
    /\ Heap(k, heads1, nx1, free1) /\ Apart(nx1, free1)
    /\ Used(heads1, free1) = Used(heads, free)
    /\ Kept(h, nx, k, nx1, Used(heads, free) \ {d})
    /\ nx1[d] - d = n
    /\ \A e \in Nat : e <= 4 * n - 2 => Copied(h, d, k, d, e)

LEMMA CutFacts ==
  ASSUME NEW h, NEW heads, NEW nx, NEW free, Heap(h, heads, nx, free), Apart(nx, free),
         NEW d \in Used(heads, free), NEW n \in Nat, n > 0, nx[d] - d > n,
         NEW k, k = umm_free(split_block(h, d, n, 0), d + n)
  PROVE  CutOutcome(h, heads, nx, free, d, n, k)
<1> DEFINE s == split_block(h, d, n, 0)
           heads1 == heads \cup {d + n}
           nx1 == SplitNext(heads, nx, d, n)
           U == Used(heads, free)
<1>1. Blocks(h, heads, nx, free) /\ d \in heads \ {LastBlock} /\ d \in heads /\ d \notin free /\ d # 0
  BY DEF Heap, Used
<1>2. d \in Nat /\ nx[d] \in Nat /\ nx[d] <= LastBlock /\ d + n < nx[d] /\ d + n \in Nat
      /\ d + n # 0 /\ d + n # LastBlock /\ d + n # d
  <2>1. d \in Nat /\ nx[d] \in Nat /\ nx[d] <= LastBlock
    BY <1>1, Geometry
  <2> QED BY <2>1, Sizing DEF LastBlock
<1>3. /\ d + n \notin heads
      /\ Heap(s, heads1, nx1, free)
      /\ \A u \in U : Same(h, s, Data(nx1, u))
  BY <1>2, SplitUsedFacts
<1>4. nx1[d] = d + n /\ \A b \in heads \ {d} : nx1[b] = nx[b]
  BY <1>1, <1>3 DEF SplitNext
<1> HIDE DEF s, nx1
<1>5. free \subseteq heads \ {d} /\ d + n \notin free /\ U \ {d} \subseteq heads \ {d}
  BY <1>1, <1>3 DEF Blocks, Used
<1>6. Used(heads1, free) = U \cup {d + n} /\ d + n \notin U
  BY <1>2, <1>3, <1>5 DEF Used
<1>7. Apart(nx1, free)
  <2>1. 0 \in heads \ {d}
    BY <1>1 DEF Blocks
  <2> QED BY <1>4, <1>5, <2>1 DEF Apart
<1>8. Kept(h, nx, s, nx1, U \ {d})
  <2> SUFFICES ASSUME NEW u \in U \ {d}
               PROVE  nx1[u] = nx[u] /\ Same(h, s, Data(nx, u))
    BY DEF Kept
  <2>1. nx1[u] = nx[u] /\ Data(nx1, u) = Data(nx, u)
    BY <1>4, <1>5 DEF Data
  <2> QED BY <1>3, <2>1
<1>9. PICK heads2, nx2, free2 :
        /\ Heap(k, heads2, nx2, free2) /\ Apart(nx2, free2)
        /\ Used(heads2, free2) = Used(heads1, free) \ {d + n}
        /\ Kept(s, nx1, k, nx2, Used(heads1, free) \ {d + n})
  <2>1. d + n \in Used(heads1, free) /\ k = umm_free(s, d + n)
    BY <1>6 DEF s
  <2> HIDE DEF heads1
  <2> QED BY <1>3, <1>7, <2>1, FreeFacts
<1>10. Used(heads1, free) \ {d + n} = U
  BY <1>6
<1>11. Used(heads2, free2) = U /\ Kept(s, nx1, k, nx2, U)
  BY <1>9, <1>10
<1>12. Kept(h, nx, k, nx2, U \ {d})
  <2>1. U \ {d} \subseteq U
    OBVIOUS
  <2> QED BY <1>8, <1>11, <2>1, KeptOn
<1>13. nx2[d] - d = n /\ Same(s, k, Data(nx1, d)) /\ Same(h, s, Data(nx1, d))
  <2>1. d \in U
    OBVIOUS
  <2>2. nx2[d] = nx1[d] /\ Same(s, k, Data(nx1, d)) /\ Same(h, s, Data(nx1, d))
    BY <1>3, <1>11, <2>1 DEF Kept
  <2> QED BY <1>2, <1>4, <2>2
<1>14. ASSUME NEW e \in Nat, e <= 4 * n - 2
       PROVE  Copied(h, d, k, d, e)
  <2>1. nx1[d] \in Nat /\ e <= 4 * (nx1[d] - d) - 2
    BY <1>2, <1>4, <1>14
  <2>2. Copied(h, d, s, d, e)
    BY <1>2, <1>13, <2>1, CopiedFacts
  <2>3. Copied(s, d, k, d, e)
    BY <1>2, <1>13, <2>1, CopiedFacts
  <2> QED BY <2>2, <2>3 DEF Copied
<1> QED BY <1>9, <1>11, <1>12, <1>13, <1>14 DEF CutOutcome

(* umm_realloc() into another piece: the data go there, the old one is free. *)
ReplacedOutcome(h, heads, nx, free, c, n, count, new, k) ==
  \E heads1, nx1, free1 :
    /\ Heap(k, heads1, nx1, free1) /\ Apart(nx1, free1)
    /\ Kept(h, nx, k, nx1, Used(heads, free) \ {c})
    /\ \/ /\ new.c = 0 /\ Used(heads1, free1) = Used(heads, free) \ {c}
          /\ \A f \in free1 : nx1[f] - f < n
       \/ /\ new.c # 0 /\ new.c \notin Used(heads, free)
          /\ Used(heads1, free1) = (Used(heads, free) \ {c}) \cup {new.c}
          /\ nx1[new.c] - new.c = n
          /\ Copied(h, c, k, new.c, count)

LEMMA ReplacedFacts ==
  ASSUME NEW h, NEW heads, NEW nx, NEW free, Heap(h, heads, nx, free), Apart(nx, free),
         NEW c \in Used(heads, free), NEW bytes \in Nat, bytes > 0, NEW n, n = blocks(bytes),
         NEW count \in Nat, count <= 4 * (nx[c] - c) - 2,
         nx[c] - c < n, nx[c] \notin free,
         h[PBLOCK(c)] \in free => nx[c] - h[PBLOCK(c)] < n,
         NEW new, new = umm_malloc(h, bytes),
         NEW k, k = umm_free(IF new.c = 0 THEN new.heap ELSE Moved(new.heap, c, new.c, count), c)
  PROVE  ReplacedOutcome(h, heads, nx, free, c, n, count, new, k)
<1> DEFINE m == new.c
           U == Used(heads, free)
<1>1. Blocks(h, heads, nx, free) /\ c \in heads \ {LastBlock} /\ c \in heads /\ c \notin free /\ c # 0
  BY DEF Heap, Used
<1>2. c \in Nat /\ nx[c] \in Nat /\ nx[c] <= LastBlock /\ n \in Nat
  BY <1>1, Geometry DEF blocks
<1>3. \/ m = 0 /\ new.heap = h /\ \A f \in free : nx[f] - f < n
      \/ /\ m \in free
         /\ \E heads1, nx1, free1 :
              /\ Heap(new.heap, heads1, nx1, free1) /\ Apart(nx1, free1)
              /\ Used(heads1, free1) = U \cup {m}
              /\ nx1[m] - m = n
              /\ Kept(h, nx, new.heap, nx1, U)
  BY MallocFacts
<1>4. CASE m = 0 /\ new.heap = h /\ \A f \in free : nx[f] - f < n
  <2>1. k = umm_free(h, c)
    BY <1>4
  <2>2. PICK heads1, nx1, free1 :
          /\ Heap(k, heads1, nx1, free1) /\ Apart(nx1, free1)
          /\ Used(heads1, free1) = U \ {c}
          /\ Kept(h, nx, k, nx1, U \ {c})
          /\ FreedPieces(h, nx, free, c, nx1, free1)
    BY <2>1, FreeFacts, Zenon
  <2>3. \A f \in free1 : nx1[f] - f < n
    BY <1>4, <2>2 DEF FreedPieces
  <2> QED BY <1>4, <2>2, <2>3 DEF ReplacedOutcome
<1>5. CASE /\ m \in free
           /\ \E heads1, nx1, free1 :
                /\ Heap(new.heap, heads1, nx1, free1) /\ Apart(nx1, free1)
                /\ Used(heads1, free1) = U \cup {m}
                /\ nx1[m] - m = n
                /\ Kept(h, nx, new.heap, nx1, U)
  <2> DEFINE y == new.heap
             z == Moved(y, c, m, count)
  <2>1. PICK heads1, nx1, free1 :
          /\ Heap(y, heads1, nx1, free1) /\ Apart(nx1, free1)
          /\ Used(heads1, free1) = U \cup {m}
          /\ nx1[m] - m = n
          /\ Kept(h, nx, y, nx1, U)
    BY <1>5
  <2>2. m # 0 /\ m \notin U /\ m # c /\ m \in heads
    BY <1>1, <1>5 DEF Blocks, Used
  <2>3. m \in Nat /\ nx1[m] \in Nat
    <3>1. m \in heads1 \ {LastBlock} /\ Blocks(y, heads1, nx1, free1)
      BY <2>1 DEF Used, Heap
    <3> QED BY <3>1, Geometry
  <2>4. c \in Numbers /\ count <= 4 * (nx1[m] - m) - 2 /\ NFREE(c) + count <= 4 * NumBlocks
    BY <1>2, <2>1, Sizing DEF Numbers, NFREE, LastBlock
  <2> HIDE DEF y, m
  <2>5. m \in Used(heads1, free1) /\ c \in Used(heads1, free1)
    BY <2>1
  <2>6. Heap(z, heads1, nx1, free1) /\ Kept(y, nx1, z, nx1, Used(heads1, free1) \ {m})
        /\ Copied(y, c, z, m, count)
    <3> HIDE DEF z
    <3>1. Heap(z, heads1, nx1, free1)
      BY <2>1, <2>4, <2>5, MovedFacts, Zenon DEF z
    <3>2. Kept(y, nx1, z, nx1, Used(heads1, free1) \ {m})
      BY <2>1, <2>4, <2>5, MovedFacts, Zenon DEF z
    <3>3. Copied(y, c, z, m, count)
      BY <2>1, <2>4, <2>5, MovedFacts, Zenon DEF z
    <3> QED BY <3>1, <3>2, <3>3
  <2>7. k = umm_free(z, c)
    BY <2>2 DEF y, m
  <2> HIDE DEF z
  <2>8. PICK heads2, nx2, free2 :
          /\ Heap(k, heads2, nx2, free2) /\ Apart(nx2, free2)
          /\ Used(heads2, free2) = Used(heads1, free1) \ {c}
          /\ Kept(z, nx1, k, nx2, Used(heads1, free1) \ {c})
    BY <2>1, <2>5, <2>6, <2>7, FreeFacts
  <2>9. Used(heads2, free2) = (U \ {c}) \cup {m}
    BY <2>1, <2>2, <2>8
  <2>10. Kept(h, nx, k, nx2, U \ {c})
    <3>1. U \ {c} \subseteq U /\ U \ {c} \subseteq Used(heads1, free1) \ {m}
          /\ U \ {c} \subseteq Used(heads1, free1) \ {c}
      BY <2>1, <2>2
    <3>2. Kept(h, nx, y, nx1, U \ {c})
      BY <2>1, <3>1 DEF Kept
    <3> HIDE DEF U
    <3>3. Kept(h, nx, z, nx1, U \ {c})
      BY <2>6, <3>1, <3>2, KeptOn
    <3> QED BY <2>8, <3>1, <3>3, KeptOn
  <2>11. nx2[m] - m = n /\ Same(z, k, Data(nx1, m)) /\ Same(h, y, Data(nx, c))
    <3>1. m \in Used(heads1, free1) \ {c} /\ c \in U
      BY <2>2, <2>5
    <3> QED BY <2>1, <2>8, <3>1 DEF Kept
  <2>12. Copied(h, c, k, m, count)
    <3>1. Copied(h, c, y, c, count)
      BY <1>2, <2>11, CopiedFacts
    <3>2. Copied(z, m, k, m, count)
      BY <2>3, <2>4, <2>11, CopiedFacts
    <3> QED BY <2>6, <3>1, <3>2 DEF Copied
  <2> HIDE DEF U
  <2> QED BY <2>2, <2>8, <2>9, <2>10, <2>11, <2>12 DEF m, U, ReplacedOutcome
<1> QED BY <1>3, <1>4, <1>5

(* umm_realloc() in terms of Grown.                                       *)
LEMMA ReallocCases ==
  ASSUME NEW h, NEW c, NEW bytes, bytes # 0, NEW n, n = blocks(bytes),
         NEW d, d = Grown(h, c, n).c, NEW g, g = Grown(h, c, n).heap
  PROVE  LET new == umm_malloc(g, bytes)
             copied == IF new.c = 0 THEN new.heap ELSE Moved(new.heap, d, new.c, DataCount(h, c))
         IN  umm_realloc(h, c, bytes) =
               CASE BlockSize(h, c) = n -> [heap |-> h, c |-> c]
                 [] BlockSize(h, c) # n /\ BlockSize(g, d) = n -> [heap |-> g, c |-> d]
                 [] BlockSize(h, c) # n /\ BlockSize(g, d) > n ->
                      [heap |-> umm_free(split_block(g, d, n, 0), d + n), c |-> d]
                 [] OTHER -> [heap |-> umm_free(copied, d), c |-> new.c]
BY DEF umm_realloc, Grown, Downward, DataCount

(* umm_realloc(): the same data, in a piece of the size asked for; or NULL, *)
(* the piece given back and every free piece too small.                     *)
LEMMA ReallocFacts ==
  ASSUME NEW h, NEW heads, NEW nx, NEW free, Heap(h, heads, nx, free), Apart(nx, free),
         NEW c \in Used(heads, free), NEW bytes \in Nat, bytes > 0, NEW n, n = blocks(bytes),
         NEW r, r = umm_realloc(h, c, bytes)
  PROVE  \E heads1, nx1, free1 :
           /\ Heap(r.heap, heads1, nx1, free1) /\ Apart(nx1, free1)
           /\ Kept(h, nx, r.heap, nx1, Used(heads, free) \ {c})
           /\ \/ /\ r.c = 0 /\ Used(heads1, free1) = Used(heads, free) \ {c}
                 /\ \A f \in free1 : nx1[f] - f < n
              \/ /\ r.c # 0 /\ r.c \notin Used(heads, free) \ {c}
                 /\ Used(heads1, free1) = (Used(heads, free) \ {c}) \cup {r.c}
                 /\ nx1[r.c] - r.c = n
                 /\ \A e \in Nat : e <= 4 * (nx[c] - c) - 2 /\ e <= 4 * n - 2
                                   => Copied(h, c, r.heap, r.c, e)
<1> DEFINE U == Used(heads, free)
           d == Grown(h, c, n).c
           g == Grown(h, c, n).heap
           count == DataCount(h, c)
           new == umm_malloc(g, bytes)
           copied == IF new.c = 0 THEN new.heap ELSE Moved(new.heap, d, new.c, count)
<1>1. n \in Nat /\ n > 0
  BY DEF blocks
<1>2. Blocks(h, heads, nx, free) /\ c \in heads \ {LastBlock} /\ c \in heads /\ c # 0 /\ c \in U
  BY DEF Heap, Used
<1>3. c \in Nat /\ nx[c] \in Nat /\ c < nx[c]
  BY <1>2, Geometry
<1>4. BlockSize(h, c) = nx[c] - c /\ count = 4 * (nx[c] - c) - 2 /\ count \in Nat
  <2>1. BlockSize(h, c) = nx[c] - c
    BY <1>2, NextFacts
  <2> QED BY <1>3, <2>1 DEF DataCount
<1>5. PICK heads1, nx1, free1 :
        /\ Heap(g, heads1, nx1, free1) /\ Apart(nx1, free1)
        /\ Used(heads1, free1) = (U \ {c}) \cup {d}
        /\ d \notin U \ {c}
        /\ Kept(h, nx, g, nx1, U \ {c})
        /\ Copied(h, c, g, d, count)
        /\ nx1[d] \notin free1 /\ nx1[d] - d >= nx[c] - c
        /\ TooSmall(g, nx1, free1, c, d, n)
  <2>1. d = Grown(h, c, n).c /\ g = Grown(h, c, n).heap /\ count = DataCount(h, c)
    OBVIOUS
  <2> HIDE DEF d, g, count
  <2>2. GrownOutcome(h, heads, nx, free, c, n, d, g)
    BY <1>1, <2>1, GrownFacts, Zenon
  <2> QED BY <2>1, <2>2 DEF GrownOutcome
<1>6. r = CASE BlockSize(h, c) = n -> [heap |-> h, c |-> c]
            [] BlockSize(h, c) # n /\ BlockSize(g, d) = n -> [heap |-> g, c |-> d]
            [] BlockSize(h, c) # n /\ BlockSize(g, d) > n ->
                 [heap |-> umm_free(split_block(g, d, n, 0), d + n), c |-> d]
            [] OTHER -> [heap |-> umm_free(copied, d), c |-> new.c]
  BY ReallocCases
<1> HIDE DEF d, g, count
<1>7. d \in Used(heads1, free1)
  BY <1>5
<1>8. d # 0 /\ d \in Nat /\ nx1[d] \in Nat /\ BlockSize(g, d) = nx1[d] - d
  <2>1. Blocks(g, heads1, nx1, free1) /\ d \in heads1 /\ d \in heads1 \ {LastBlock} /\ d # 0
    BY <1>5, <1>7 DEF Heap, Used
  <2> QED BY <2>1, Geometry, NextFacts
<1>9. Used(heads1, free1) \ {d} = U \ {c}
  BY <1>5
<1>10. CASE nx[c] - c = n
  <2>1. r = [heap |-> h, c |-> c]
    BY <1>4, <1>6, <1>10
  <2>2. Kept(h, nx, h, nx, U \ {c}) /\ \A e \in Nat : Copied(h, c, h, c, e)
    BY DEF Kept, Same, Copied
  <2>3. c # 0 /\ c \notin U \ {c} /\ U = (U \ {c}) \cup {c}
    BY <1>2
  <2> HIDE DEF U
  <2> QED BY <1>10, <2>1, <2>2, <2>3 DEF U
<1>11. CASE nx[c] - c # n /\ nx1[d] - d = n
  <2>1. r = [heap |-> g, c |-> d]
    BY <1>4, <1>6, <1>8, <1>11
  <2>2. \A e \in Nat : e <= 4 * (nx[c] - c) - 2 => Copied(h, c, g, d, e)
    BY <1>4, <1>5, CopiedLess
  <2> HIDE DEF U
  <2> QED BY <1>5, <1>8, <1>11, <2>1, <2>2 DEF U
<1>12. CASE nx[c] - c # n /\ nx1[d] - d > n
  <2> DEFINE k == umm_free(split_block(g, d, n, 0), d + n)
  <2>1. r = [heap |-> k, c |-> d]
    BY <1>1, <1>4, <1>6, <1>8, <1>12
  <2>2. PICK heads2, nx2, free2 :
          /\ Heap(k, heads2, nx2, free2) /\ Apart(nx2, free2)
          /\ Used(heads2, free2) = Used(heads1, free1)
          /\ Kept(g, nx1, k, nx2, Used(heads1, free1) \ {d})
          /\ nx2[d] - d = n
          /\ \A e \in Nat : e <= 4 * n - 2 => Copied(g, d, k, d, e)
    <3>1. k = umm_free(split_block(g, d, n, 0), d + n)
      OBVIOUS
    <3> HIDE DEF k
    <3>2. CutOutcome(g, heads1, nx1, free1, d, n, k)
      BY <1>1, <1>5, <1>7, <1>12, <3>1, CutFacts, Zenon
    <3> QED BY <3>2 DEF CutOutcome
  <2> HIDE DEF k, U
  <2>3. Kept(h, nx, k, nx2, U \ {c})
    <3>1. U \ {c} \subseteq Used(heads1, free1) \ {d}
      BY <1>9
    <3> QED BY <1>5, <2>2, <3>1, KeptOn
  <2>4. ASSUME NEW e \in Nat, e <= 4 * (nx[c] - c) - 2, e <= 4 * n - 2
        PROVE  Copied(h, c, k, d, e)
    <3>1. Copied(h, c, g, d, e)
      BY <1>4, <1>5, <2>4, CopiedLess
    <3> QED BY <2>2, <2>4, <3>1 DEF Copied
  <2> QED BY <1>5, <1>8, <2>1, <2>2, <2>3, <2>4 DEF U
<1>13. CASE nx[c] - c # n /\ nx1[d] - d < n
  <2>1. r = [heap |-> umm_free(copied, d), c |-> new.c]
    BY <1>1, <1>4, <1>6, <1>8, <1>13
  <2>2. d = c /\ (g[PBLOCK(d)] \in free1 => nx1[d] - g[PBLOCK(d)] < n)
    BY <1>5, <1>13 DEF TooSmall
  <2>3. count <= 4 * (nx1[d] - d) - 2
    BY <1>3, <1>4, <1>5, <1>8
  <2> DEFINE k == umm_free(copied, d)
  <2>4. PICK heads2, nx2, free2 :
          /\ Heap(k, heads2, nx2, free2) /\ Apart(nx2, free2)
          /\ Kept(g, nx1, k, nx2, Used(heads1, free1) \ {d})
          /\ \/ /\ new.c = 0 /\ Used(heads2, free2) = Used(heads1, free1) \ {d}
                /\ \A f \in free2 : nx2[f] - f < n
             \/ /\ new.c # 0 /\ new.c \notin Used(heads1, free1)
                /\ Used(heads2, free2) = (Used(heads1, free1) \ {d}) \cup {new.c}
                /\ nx2[new.c] - new.c = n
                /\ Copied(g, d, k, new.c, count)
    <3>1. /\ new = umm_malloc(g, bytes)
          /\ k = umm_free(IF new.c = 0 THEN new.heap ELSE Moved(new.heap, d, new.c, count), d)
      OBVIOUS
    <3> HIDE DEF new, k
    <3>2. ReplacedOutcome(g, heads1, nx1, free1, d, n, count, new, k)
      BY <1>4, <1>5, <1>7, <1>13, <2>2, <2>3, <3>1, ReplacedFacts, Zenon
    <3> QED BY <3>2 DEF ReplacedOutcome
  <2> HIDE DEF k, new, U
  <2>5. Kept(h, nx, k, nx2, U \ {c})
    <3>1. U \ {c} \subseteq Used(heads1, free1) \ {d}
      BY <1>9
    <3> QED BY <1>5, <2>4, <3>1, KeptOn
  <2>6. r.heap = k /\ r.c = new.c
    BY <2>1 DEF k
  <2>7. CASE new.c = 0
    BY <1>9, <2>4, <2>5, <2>6, <2>7 DEF U
  <2>8. CASE new.c # 0
    <3>1. /\ new.c \notin U \ {c} /\ Used(heads2, free2) = (U \ {c}) \cup {new.c}
          /\ nx2[new.c] - new.c = n /\ Copied(g, d, k, new.c, count)
      BY <1>9, <2>4, <2>8
    <3>2. Copied(h, c, k, new.c, count)
      BY <1>5, <3>1 DEF Copied
    <3>3. \A e \in Nat : e <= 4 * (nx[c] - c) - 2 => Copied(h, c, k, new.c, e)
      BY <1>4, <3>2, CopiedLess
    <3> QED BY <2>4, <2>5, <2>6, <2>8, <3>1, <3>3 DEF U
  <2> QED BY <2>7, <2>8
<1>14. nx1[d] - d = n \/ nx1[d] - d > n \/ nx1[d] - d < n
  BY <1>1, <1>8
<1> QED BY <1>10, <1>11, <1>12, <1>13, <1>14

-----------------------------------------------------------------------------
(* The inductive invariant.  The pieces in use are those of the live        *)
(* pointers, one each, of the size that was asked for; a call that just     *)
(* returned NULL left no free piece that would have done.                   *)
Types == /\ ptr \in [Pointers -> Nat] /\ size \in [Pointers -> Nat]
         /\ value \in [Pointers -> Nat] /\ refused \in Nat

Owned(heads, nx, free) ==
  /\ Used(heads, free) = {ptr[p] : p \in Live}
  /\ \A p \in Live : size[p] > 0 /\ nx[ptr[p]] - ptr[p] = blocks(size[p])
  /\ \A p, q \in Live : ptr[p] = ptr[q] => p = q

NoRoom(nx, free, n) == n > 0 => \A f \in free : nx[f] - f < n

Sound(h, heads, nx, free) == /\ Heap(h, heads, nx, free) /\ Apart(nx, free)
                             /\ Owned(heads, nx, free) /\ NoRoom(nx, free, refused)

IInv == Types /\ ContentsKept /\ \E heads, nx, free : Sound(umm_heap, heads, nx, free)

(* What was asked for lies in the piece. *)
LEMMA DataFits ==
  ASSUME NEW nx, NEW b \in Nat, NEW n \in Nat, n > 0, nx[b] \in Nat, nx[b] - b = blocks(n)
  PROVE  /\ DataWords(b, n) \subseteq Data(nx, b)
         /\ (n + 1) \div 2 <= 4 * blocks(n) - 2 /\ (n + 1) \div 2 \in Nat
<1>1. (n + 1) \div 2 <= 4 * blocks(n) - 2 /\ (n + 1) \div 2 \in Nat /\ blocks(n) \in Nat
  BY DEF blocks
<1> DEFINE w == (n + 1) \div 2
<1> HIDE DEF w
<1>2. w \in Nat /\ w <= 4 * (nx[b] - b) - 2
  BY <1>1 DEF w
<1>3. NFREE(b) .. (NFREE(b) + w - 1) \subseteq Data(nx, b)
  BY <1>2 DEF Data, NFREE
<1> QED BY <1>1, <1>3 DEF w, DataWords

(* A pointer of the caller and its piece. *)
LEMMA LiveFacts ==
  ASSUME Types, NEW heads, NEW nx, NEW free, Sound(umm_heap, heads, nx, free), NEW p \in Live
  PROVE  /\ p \in Pointers /\ ptr[p] \in Used(heads, free) /\ ptr[p] # 0 /\ ptr[p] \in Nat
         /\ nx[ptr[p]] \in Nat /\ size[p] \in Nat /\ size[p] > 0
         /\ nx[ptr[p]] - ptr[p] = blocks(size[p])
         /\ DataWords(ptr[p], size[p]) \subseteq Data(nx, ptr[p])
         /\ (size[p] + 1) \div 2 <= 4 * (nx[ptr[p]] - ptr[p]) - 2
<1>1. /\ p \in Pointers /\ ptr[p] \in Used(heads, free) /\ ptr[p] # 0 /\ ptr[p] \in Nat
      /\ size[p] \in Nat /\ size[p] > 0 /\ nx[ptr[p]] - ptr[p] = blocks(size[p])
  BY DEF Sound, Owned, Live, Types
<1>2. nx[ptr[p]] \in Nat
  <2>1. ptr[p] \in heads \ {LastBlock} /\ Blocks(umm_heap, heads, nx, free)
    BY <1>1 DEF Used, Sound, Heap
  <2> QED BY <2>1, Geometry
<1> QED BY <1>1, <1>2, DataFits

LEMMA InitHolds == Init => IInv
<1> SUFFICES ASSUME Init PROVE IInv
  OBVIOUS
<1> DEFINE heads == {0, 1, LastBlock}
           nx == [b \in heads |-> IF b = 0 THEN 1 ELSE IF b = 1 THEN LastBlock ELSE 0]
<1>1. Heap(umm_heap, heads, nx, {1}) /\ Apart(nx, {1})
  BY InitFacts DEF Init
<1>2. Types
  BY DEF Init, Types
<1>3. Live = {}
  BY DEF Init, Live
<1>4. Used(heads, {1}) = {}
  BY DEF Used
<1> HIDE DEF heads, nx
<1>5. Owned(heads, nx, {1})
  BY <1>3, <1>4 DEF Owned
<1>6. NoRoom(nx, {1}, refused)
  BY DEF NoRoom, Init
<1> QED BY <1>1, <1>2, <1>3, <1>5, <1>6 DEF IInv, Sound, ContentsKept

(* Whatever call it was: what p got is its own, and the others have theirs. *)
LEMMA GetsFacts ==
  ASSUME Types, ContentsKept, NEW heads, NEW nx, NEW free, Sound(umm_heap, heads, nx, free),
         NEW p \in Pointers, NEW bytes \in Nat, NEW r, NEW kept, NEW v \in Nat,
         Gets(p, r, bytes, kept, v),
         NEW heads1, NEW nx1, NEW free1,
         Heap(r.heap, heads1, nx1, free1), Apart(nx1, free1),
         Kept(umm_heap, nx, r.heap, nx1, Used(heads, free) \ {ptr[p]}),
         \/ /\ r.c = 0 /\ Used(heads1, free1) = Used(heads, free) \ {ptr[p]}
            /\ bytes > 0 => \A f \in free1 : nx1[f] - f < blocks(bytes)
         \/ /\ r.c # 0 /\ r.c \notin Used(heads, free) \ {ptr[p]} /\ bytes > 0
            /\ Used(heads1, free1) = (Used(heads, free) \ {ptr[p]}) \cup {r.c}
            /\ nx1[r.c] - r.c = blocks(bytes)
            /\ \A a \in DataWords(r.c, bytes) \cap DataWords(r.c, kept) : r.heap[a] = v
  PROVE  IInv'
<1> DEFINE U == Used(heads, free)
           others == Live \ {p}
<1>1. /\ ptr' = [ptr EXCEPT ![p] = r.c]
      /\ size' = [size EXCEPT ![p] = IF r.c = 0 THEN 0 ELSE bytes]
      /\ value' = [value EXCEPT ![p] = IF r.c = 0 THEN 0 ELSE v]
      /\ refused' = IF r.c = 0 /\ bytes > 0 THEN blocks(bytes) ELSE 0
      /\ umm_heap' = IF r.c = 0 THEN r.heap ELSE Filled(r.heap, r.c, kept, bytes, v)
  BY DEF Gets
<1>2. Blocks(r.heap, heads1, nx1, free1) /\ r.heap \in [Words -> Nat]
  BY DEF Heap, Blocks
<1>3. r.c \in Nat
  <2>1. r.c = 0 \/ r.c \in heads1
    BY DEF Used
  <2>2. \A b \in heads1 : b \in Nat
    BY <1>2 DEF Blocks, Numbers
  <2> QED BY <2>1, <2>2
<1>4. Types'
  <2>1. refused' \in Nat
    BY <1>1 DEF blocks
  <2>2. ptr' \in [Pointers -> Nat] /\ size' \in [Pointers -> Nat] /\ value' \in [Pointers -> Nat]
    BY <1>1, <1>3 DEF Types
  <2> QED BY <2>1, <2>2 DEF Types
<1>5. ASSUME NEW q \in others
      PROVE  /\ q \in Live /\ ptr'[q] = ptr[q] /\ size'[q] = size[q] /\ value'[q] = value[q]
             /\ ptr[q] \in U \ {ptr[p]} /\ ptr[q] \in Used(heads1, free1) \ {r.c}
             /\ nx1[ptr[q]] = nx[ptr[q]] /\ nx1[ptr[q]] - ptr[q] = blocks(size[q]) /\ size[q] > 0
             /\ DataWords(ptr[q], size[q]) \subseteq Data(nx1, ptr[q])
             /\ \A a \in DataWords(ptr[q], size[q]) : r.heap[a] = value[q]
  <2>1. q \in Live /\ q \in Pointers /\ ptr'[q] = ptr[q] /\ size'[q] = size[q] /\ value'[q] = value[q]
    BY <1>1 DEF Types, Live
  <2>2. ptr[q] \in U /\ size[q] > 0 /\ nx[ptr[q]] - ptr[q] = blocks(size[q])
        /\ DataWords(ptr[q], size[q]) \subseteq Data(nx, ptr[q]) /\ ptr[q] # 0
    BY <2>1, LiveFacts
  <2>3. ptr[q] # ptr[p]
    <3>1. CASE p \in Live
      BY <2>1, <3>1 DEF Sound, Owned
    <3>2. CASE p \notin Live
      BY <2>2, <3>2 DEF Live
    <3> QED BY <3>1, <3>2
  <2>4. nx1[ptr[q]] = nx[ptr[q]] /\ Same(umm_heap, r.heap, Data(nx, ptr[q]))
    BY <2>2, <2>3 DEF Kept
  <2>5. Data(nx1, ptr[q]) = Data(nx, ptr[q])
    BY <2>4 DEF Data
  <2>6. \A a \in DataWords(ptr[q], size[q]) : r.heap[a] = value[q]
    BY <2>1, <2>2, <2>4 DEF Same, ContentsKept
  <2>7. ptr[q] \in Used(heads1, free1) \ {r.c}
    BY <2>2, <2>3
  <2> HIDE DEF others
  <2> QED BY <2>1, <2>2, <2>3, <2>4, <2>5, <2>6, <2>7
<1>6. U \ {ptr[p]} = {ptr[q] : q \in others}
  <2>1. U = {ptr[q] : q \in Live}
    BY DEF Sound, Owned
  <2>2. U \ {ptr[p]} \subseteq {ptr[q] : q \in others}
    BY <2>1
  <2> QED BY <1>5, <2>2
<1>7. \A q1, q2 \in others : ptr[q1] = ptr[q2] => q1 = q2
  BY DEF Sound, Owned
<1>8. CASE r.c = 0
  <2>1. Live' = others
    BY <1>1, <1>8 DEF Live, Types
  <2>2. /\ Used(heads1, free1) = U \ {ptr[p]} /\ umm_heap' = r.heap
        /\ bytes > 0 => \A f \in free1 : nx1[f] - f < blocks(bytes)
    BY <1>1, <1>8
  <2> HIDE DEF others, U
  <2>3. Used(heads1, free1) = {ptr'[q] : q \in Live'}
    BY <1>5, <1>6, <2>1, <2>2
  <2>4. \A q \in Live' : size'[q] > 0 /\ nx1[ptr'[q]] - ptr'[q] = blocks(size'[q])
    BY <1>5, <2>1
  <2>5. \A q1, q2 \in Live' : ptr'[q1] = ptr'[q2] => q1 = q2
    BY <1>5, <1>7, <2>1
  <2>6. Owned(heads1, nx1, free1)'
    BY <2>3, <2>4, <2>5 DEF Owned
  <2>7. NoRoom(nx1, free1, refused)'
    BY <1>1, <1>8, <2>2 DEF NoRoom
  <2>8. ContentsKept'
    BY <1>5, <2>1, <2>2 DEF ContentsKept
  <2>9. Sound(umm_heap, heads1, nx1, free1)'
    BY <2>2, <2>6, <2>7 DEF Sound
  <2> QED BY <1>4, <2>8, <2>9 DEF IInv
<1>9. CASE r.c # 0
  <2> DEFINE y == Filled(r.heap, r.c, kept, bytes, v)
  <2>1. Live' = others \cup {p} /\ ptr'[p] = r.c /\ size'[p] = bytes /\ value'[p] = v
    BY <1>1, <1>9 DEF Live, Types
  <2>2. /\ Used(heads1, free1) = (U \ {ptr[p]}) \cup {r.c} /\ umm_heap' = y /\ bytes > 0
        /\ nx1[r.c] - r.c = blocks(bytes) /\ r.c \notin U \ {ptr[p]}
        /\ \A a \in DataWords(r.c, bytes) \cap DataWords(r.c, kept) : r.heap[a] = v
    BY <1>1, <1>9
  <2>3. r.c \in Used(heads1, free1) /\ nx1[r.c] \in Nat /\ nx1[r.c] <= LastBlock
    <3>1. r.c \in Used(heads1, free1) /\ r.c \in heads1 \ {LastBlock}
      BY <2>2 DEF Used
    <3> QED BY <1>2, <3>1, Geometry
  <2>4. DataWords(r.c, bytes) \subseteq Data(nx1, r.c)
    BY <1>3, <2>2, <2>3, DataFits
  <2>5. Data(nx1, r.c) \subseteq Words
    BY <1>3, <2>3, Sizing DEF Data, Words, LastBlock, NFREE
  <2>6. /\ y \in [Words -> Nat]
        /\ \A a \in Words \ Data(nx1, r.c) : y[a] = r.heap[a]
        /\ \A a \in DataWords(r.c, bytes) : y[a] = v
    <3>1. DOMAIN r.heap = Words /\ \A a \in Words : r.heap[a] \in Nat
      BY <1>2
    <3>2. y = [a \in Words |-> IF a \in DataWords(r.c, bytes) \ DataWords(r.c, kept) THEN v ELSE r.heap[a]]
      BY <3>1 DEF Filled
    <3> HIDE DEF y
    <3>3. \A a \in Words : y[a] = IF a \in DataWords(r.c, bytes) \ DataWords(r.c, kept) THEN v ELSE r.heap[a]
      BY <3>2
    <3>4. y \in [Words -> Nat]
      BY <3>1, <3>2
    <3> QED BY <2>2, <2>4, <2>5, <3>3, <3>4
  <2>7. /\ Heap(y, heads1, nx1, free1)
        /\ \A u \in Used(heads1, free1) \ {r.c} : Same(r.heap, y, Data(nx1, u))
    <3> HIDE DEF y
    <3> QED BY <2>3, <2>6, WriteFacts
  <2> HIDE DEF others, U, y
  <2>8. Used(heads1, free1) = {ptr'[q] : q \in Live'}
    BY <1>5, <1>6, <2>1, <2>2
  <2>9. \A q \in Live' : size'[q] > 0 /\ nx1[ptr'[q]] - ptr'[q] = blocks(size'[q])
    BY <1>5, <2>1, <2>2
  <2>10. \A q1, q2 \in Live' : ptr'[q1] = ptr'[q2] => q1 = q2
    BY <1>5, <1>7, <2>1, <2>2
  <2>11. Owned(heads1, nx1, free1)'
    BY <2>8, <2>9, <2>10 DEF Owned
  <2>12. NoRoom(nx1, free1, refused)'
    BY <1>1, <1>9 DEF NoRoom
  <2>13. ContentsKept'
    <3>1. ASSUME NEW q \in others, NEW a \in DataWords(ptr[q], size[q])
          PROVE  y[a] = value[q]
      BY <1>5, <2>7 DEF Same
    <3>2. \A q \in Live' : \A a \in DataWords(ptr'[q], size'[q]) : y[a] = value'[q]
      BY <1>5, <2>1, <2>6, <3>1
    <3> QED BY <2>2, <3>2 DEF ContentsKept
  <2>14. Sound(umm_heap, heads1, nx1, free1)'
    BY <2>2, <2>7, <2>11, <2>12 DEF Sound
  <2> QED BY <1>4, <2>13, <2>14 DEF IInv
<1> QED BY <1>8, <1>9

(* umm_malloc() and umm_calloc() *)
LEMMA MallocHolds ==
  ASSUME IInv, NEW p \in Pointers, NEW bytes \in Sizes, NEW v \in Nat, ptr[p] = 0,
         Gets(p, umm_malloc(umm_heap, bytes), bytes, 0, v)
  PROVE  IInv'
<1> DEFINE r == umm_malloc(umm_heap, bytes)
<1>1. PICK heads, nx, free : Sound(umm_heap, heads, nx, free)
  BY DEF IInv
<1>2. Types /\ ContentsKept /\ Heap(umm_heap, heads, nx, free) /\ Apart(nx, free) /\ bytes \in Nat
  BY <1>1, HeapAssumption DEF IInv, Sound
<1>3. Used(heads, free) \ {ptr[p]} = Used(heads, free)
  BY DEF Used
<1>4. ASSUME r.c = 0, r.heap = umm_heap, bytes > 0 => \A f \in free : nx[f] - f < blocks(bytes)
      PROVE  IInv'
  <2>1. Kept(umm_heap, nx, r.heap, nx, Used(heads, free) \ {ptr[p]})
    BY <1>4 DEF Kept, Same
  <2>2. Heap(r.heap, heads, nx, free) /\ Used(heads, free) = Used(heads, free) \ {ptr[p]}
    BY <1>2, <1>3, <1>4
  <2>3. Gets(p, r, bytes, 0, v)
    OBVIOUS
  <2> HIDE DEF r
  <2> QED BY <1>1, <1>2, <1>4, <2>1, <2>2, <2>3, GetsFacts
<1>5. CASE bytes = 0
  <2>1. r = [heap |-> umm_heap, c |-> 0]
    BY <1>5 DEF umm_malloc
  <2> QED BY <1>4, <1>5, <2>1
<1>6. CASE bytes > 0
  <2>1. \/ r.c = 0 /\ r.heap = umm_heap /\ \A f \in free : nx[f] - f < blocks(bytes)
        \/ /\ r.c \in free
           /\ \E heads1, nx1, free1 :
                /\ Heap(r.heap, heads1, nx1, free1) /\ Apart(nx1, free1)
                /\ Used(heads1, free1) = Used(heads, free) \cup {r.c}
                /\ nx1[r.c] - r.c = blocks(bytes)
                /\ Kept(umm_heap, nx, r.heap, nx1, Used(heads, free))
    BY <1>2, <1>6, MallocFacts
  <2>2. CASE r.c \in free
    <3>1. r.c # 0 /\ r.c \notin Used(heads, free)
      BY <1>2, <2>2 DEF Heap, Blocks, Used
    <3>2. PICK heads1, nx1, free1 :
            /\ Heap(r.heap, heads1, nx1, free1) /\ Apart(nx1, free1)
            /\ Used(heads1, free1) = Used(heads, free) \cup {r.c}
            /\ nx1[r.c] - r.c = blocks(bytes)
            /\ Kept(umm_heap, nx, r.heap, nx1, Used(heads, free))
      BY <2>1, <2>2, <3>1
    <3>3. Kept(umm_heap, nx, r.heap, nx1, Used(heads, free) \ {ptr[p]})
          /\ Used(heads1, free1) = (Used(heads, free) \ {ptr[p]}) \cup {r.c}
          /\ r.c \notin Used(heads, free) \ {ptr[p]}
      BY <1>3, <3>1, <3>2
    <3>4. \A a \in DataWords(r.c, bytes) \cap DataWords(r.c, 0) : r.heap[a] = v
      <4>1. r.c \in Nat
        <5>1. \A b \in free : b \in Nat
          BY <1>2 DEF Heap, Blocks, Numbers
        <5> QED BY <2>2, <5>1
      <4>2. DataWords(r.c, 0) = {}
        BY <4>1 DEF DataWords, NFREE
      <4> QED BY <4>2
    <3>5. Gets(p, r, bytes, 0, v)
      OBVIOUS
    <3> HIDE DEF r
    <3> QED BY <1>1, <1>2, <1>6, <3>1, <3>2, <3>3, <3>4, <3>5, GetsFacts
  <2> QED BY <1>4, <2>1, <2>2
<1> QED BY <1>2, <1>5, <1>6

(* umm_free(), and umm_realloc() to no bytes.                             *)
LEMMA FreeHolds ==
  ASSUME IInv, NEW p \in Pointers, ptr[p] # 0, NEW r, r.c = 0,
         r.heap = umm_free(umm_heap, ptr[p]), NEW kept, NEW v \in Nat,
         Gets(p, r, 0, kept, v)
  PROVE  IInv'
<1>1. PICK heads, nx, free : Sound(umm_heap, heads, nx, free)
  BY DEF IInv
<1>2. Types /\ ContentsKept /\ Heap(umm_heap, heads, nx, free) /\ Apart(nx, free)
  BY <1>1 DEF IInv, Sound
<1>3. p \in Live
  BY DEF Live
<1>4. ptr[p] \in Used(heads, free)
  BY <1>1, <1>2, <1>3, LiveFacts
<1>5. PICK heads1, nx1, free1 :
        /\ Heap(r.heap, heads1, nx1, free1) /\ Apart(nx1, free1)
        /\ Used(heads1, free1) = Used(heads, free) \ {ptr[p]}
        /\ Kept(umm_heap, nx, r.heap, nx1, Used(heads, free) \ {ptr[p]})
  BY <1>2, <1>4, FreeFacts
<1>6. 0 \in Nat /\ ~(0 > 0)
  OBVIOUS
<1> QED BY <1>1, <1>2, <1>5, <1>6, GetsFacts

(* umm_realloc()                                                          *)
LEMMA ReallocHolds ==
  ASSUME IInv, NEW p \in Pointers, NEW bytes \in Sizes, Realloc(p, bytes)
  PROVE  IInv'
<1> DEFINE c == ptr[p]
           r == umm_realloc(umm_heap, c, bytes)
           n == blocks(bytes)
<1>1. PICK heads, nx, free : Sound(umm_heap, heads, nx, free)
  BY DEF IInv
<1>2. Types /\ ContentsKept /\ Heap(umm_heap, heads, nx, free) /\ Apart(nx, free) /\ bytes \in Nat
  BY <1>1, HeapAssumption DEF IInv, Sound
<1>3. p \in Live /\ c # 0 /\ value[p] \in Nat /\ Gets(p, r, bytes, size[p], value[p])
  BY <1>2 DEF Realloc, Live, Types
<1>4. /\ c \in Used(heads, free) /\ c \in Nat /\ nx[c] \in Nat /\ size[p] \in Nat /\ size[p] > 0
      /\ (size[p] + 1) \div 2 <= 4 * (nx[c] - c) - 2
  BY <1>1, <1>2, <1>3, LiveFacts
<1>5. CASE bytes = 0
  <2>1. r.c = 0 /\ r.heap = umm_free(umm_heap, c)
    BY <1>5 DEF umm_realloc
  <2> HIDE DEF r
  <2> QED BY <1>3, <1>5, <2>1, FreeHolds
<1>6. CASE bytes > 0
  <2>1. PICK heads1, nx1, free1 :
          /\ Heap(r.heap, heads1, nx1, free1) /\ Apart(nx1, free1)
          /\ Kept(umm_heap, nx, r.heap, nx1, Used(heads, free) \ {c})
          /\ \/ /\ r.c = 0 /\ Used(heads1, free1) = Used(heads, free) \ {c}
                /\ \A f \in free1 : nx1[f] - f < n
             \/ /\ r.c # 0 /\ r.c \notin Used(heads, free) \ {c}
                /\ Used(heads1, free1) = (Used(heads, free) \ {c}) \cup {r.c}
                /\ nx1[r.c] - r.c = n
                /\ \A e \in Nat : e <= 4 * (nx[c] - c) - 2 /\ e <= 4 * n - 2
                                  => Copied(umm_heap, c, r.heap, r.c, e)
    BY <1>2, <1>4, <1>6, ReallocFacts
  <2> HIDE DEF r
  <2>2. CASE r.c = 0
    BY <1>1, <1>2, <1>3, <1>4, <2>1, <2>2, GetsFacts
  <2>3. CASE r.c # 0
    <3>1. r.c \in Nat
      <4>1. r.c \in heads1
        BY <2>1, <2>3 DEF Used
      <4>2. heads1 \subseteq Numbers
        BY <2>1 DEF Heap, Blocks
      <4>3. \A x \in Numbers : x \in Nat
        BY Sizing DEF Numbers
      <4> QED BY <4>1, <4>2, <4>3, Zenon
    <3>2. ASSUME NEW a \in DataWords(r.c, bytes) \cap DataWords(r.c, size[p])
          PROVE  r.heap[a] = value[p]
      <4> DEFINE w1 == (bytes + 1) \div 2
                 w2 == (size[p] + 1) \div 2
                 i == a - NFREE(r.c)
      <4>1. w1 \in Nat /\ w1 <= 4 * n - 2 /\ w2 \in Nat
        BY <1>2, <1>4, <1>6 DEF blocks
      <4>2. a \in NFREE(r.c) .. (NFREE(r.c) + w1 - 1) /\ a \in NFREE(r.c) .. (NFREE(r.c) + w2 - 1)
        BY DEF DataWords
      <4> HIDE DEF w1
      <4>3. w2 <= 4 * (nx[c] - c) - 2
        BY <1>4
      <4> HIDE DEF w2
      <4>4. NFREE(r.c) \in Nat /\ NFREE(c) \in Nat
        BY <1>4, <3>1 DEF NFREE
      <4>5. n \in Nat
        BY <1>2 DEF blocks
      <4> HIDE DEF n
      <4>6. /\ i + 1 \in Nat /\ i \in 0 .. ((i + 1) - 1) /\ i + 1 <= 4 * n - 2
            /\ i + 1 <= 4 * (nx[c] - c) - 2 /\ NFREE(r.c) + i = a
            /\ NFREE(c) + i \in NFREE(c) .. (NFREE(c) + w2 - 1)
        BY <1>4, <4>1, <4>2, <4>3, <4>4, <4>5
      <4> HIDE DEF i
      <4>7. Copied(umm_heap, c, r.heap, r.c, i + 1)
        BY <2>1, <2>3, <4>6
      <4>8. r.heap[NFREE(r.c) + i] = umm_heap[NFREE(c) + i]
        BY <4>6, <4>7 DEF Copied
      <4>9. NFREE(c) + i \in DataWords(c, size[p])
        BY <4>6 DEF w2, DataWords
      <4> QED BY <1>2, <1>3, <4>6, <4>8, <4>9 DEF ContentsKept
    <3>3. /\ r.c \notin Used(heads, free) \ {ptr[p]}
          /\ Used(heads1, free1) = (Used(heads, free) \ {ptr[p]}) \cup {r.c}
          /\ nx1[r.c] - r.c = blocks(bytes)
          /\ Heap(r.heap, heads1, nx1, free1) /\ Apart(nx1, free1)
          /\ Kept(umm_heap, nx, r.heap, nx1, Used(heads, free) \ {ptr[p]})
      BY <2>1, <2>3
    <3>4. \A a \in DataWords(r.c, bytes) \cap DataWords(r.c, size[p]) : r.heap[a] = value[p]
      BY <3>2
    <3>5. Gets(p, r, bytes, size[p], value[p]) /\ value[p] \in Nat
      BY <1>3
    <3> QED BY <1>1, <1>2, <1>6, <2>3, <3>3, <3>4, <3>5, GetsFacts
  <2> QED BY <2>2, <2>3
<1> QED BY <1>2, <1>5, <1>6

LEMMA NextHolds == IInv /\ [Next]_vars => IInv'
<1> SUFFICES ASSUME IInv, [Next]_vars PROVE IInv'
  OBVIOUS
<1>1. ASSUME NEW p \in Pointers, NEW bytes \in Sizes, Malloc(p, bytes)
      PROVE  IInv'
  <2>1. p \in Nat
    BY HeapAssumption
  <2> QED BY <1>1, <2>1, MallocHolds DEF Malloc
<1>2. ASSUME NEW p \in Pointers, NEW bytes \in Sizes, Calloc(p, bytes)
      PROVE  IInv'
  BY <1>2, MallocHolds DEF Calloc
<1>3. ASSUME NEW p \in Pointers, Free(p)
      PROVE  IInv'
  <2> DEFINE r == [heap |-> umm_free(umm_heap, ptr[p]), c |-> 0]
  <2>1. ptr[p] # 0 /\ Gets(p, r, 0, 0, 0) /\ r.c = 0 /\ r.heap = umm_free(umm_heap, ptr[p])
    BY <1>3 DEF Free
  <2> HIDE DEF r
  <2> QED BY <2>1, FreeHolds
<1>4. ASSUME NEW p \in Pointers, NEW bytes \in Sizes, Realloc(p, bytes)
      PROVE  IInv'
  BY <1>4, ReallocHolds
<1>5. CASE UNCHANGED vars
  BY <1>5 DEF IInv, Types, Sound, Owned, ContentsKept, Live, vars
<1> QED BY <1>1, <1>2, <1>3, <1>4, <1>5 DEF Next

LEMMA AlwaysHolds == Spec => []IInv
BY InitHolds, NextHolds, PTL DEF Spec

(* What a caller keeps in its memory stays as it is, whatever is called for  *)
(* other memory, and through umm_realloc() as far as both sizes go: for      *)
(* every heap size, set of pointers and set of sizes.                        *)
THEOREM ContentsKeptHolds == Spec => []ContentsKept
<1>1. IInv => ContentsKept
  BY DEF IInv
<1> QED BY <1>1, AlwaysHolds, PTL

-----------------------------------------------------------------------------
(* The list of the blocks, walked from block 0: the k-th piece is the one   *)
(* with k pieces before it.                                                 *)
Before(heads, b) == {x \in heads : x < b}
Rank(heads, b) == Cardinality(Before(heads, b))

LEMMA RankOf ==
  ASSUME NEW S, \A b \in S : b \in Nat
  PROVE  /\ \A b \in S : Rank(S, b) \in Nat /\ Rank(S, b) <= b
         /\ \A b, c \in S : b < c =>
              /\ Rank(S, b) < Rank(S, c)
              /\ (\A x \in S : x <= b \/ c <= x) => Rank(S, c) = Rank(S, b) + 1
<1>1. ASSUME NEW b \in S
      PROVE  /\ IsFiniteSet(Before(S, b)) /\ Rank(S, b) \in Nat /\ Rank(S, b) <= b
             /\ IsFiniteSet(Before(S, b) \cup {b})
             /\ Cardinality(Before(S, b) \cup {b}) = Rank(S, b) + 1
  <2>1. Before(S, b) \in SUBSET (0 .. (b - 1)) /\ b \notin Before(S, b)
    BY DEF Before
  <2>2. b \in Nat /\ 0 \in Int /\ b - 1 \in Int
    OBVIOUS
  <2>3. /\ IsFiniteSet(0 .. (b - 1))
        /\ Cardinality(0 .. (b - 1)) = IF 0 > b - 1 THEN 0 ELSE (b - 1) - 0 + 1
    BY <2>2, FS_Interval, Zenon
  <2>4. Cardinality(0 .. (b - 1)) = b
    BY <2>2, <2>3
  <2>5. IsFiniteSet(Before(S, b)) /\ Cardinality(Before(S, b)) <= Cardinality(0 .. (b - 1))
    BY <2>1, <2>3, FS_Subset, Zenon
  <2>6. Cardinality(Before(S, b)) \in Nat
    BY <2>5, FS_CardinalityType
  <2>7. /\ IsFiniteSet(Before(S, b) \cup {b})
        /\ Cardinality(Before(S, b) \cup {b}) = Cardinality(Before(S, b)) + 1
    BY <2>1, <2>5, FS_AddElement, Zenon
  <2> QED BY <2>2, <2>4, <2>5, <2>6, <2>7 DEF Rank
<1>2. ASSUME NEW b \in S, NEW c \in S, b < c
      PROVE  Rank(S, b) < Rank(S, c)
  <2>1. Before(S, b) \cup {b} \in SUBSET Before(S, c)
    BY <1>2 DEF Before
  <2>2. Cardinality(Before(S, b) \cup {b}) <= Cardinality(Before(S, c))
    BY <1>1, <2>1, FS_Subset, Zenon
  <2>3. Rank(S, b) \in Nat /\ Rank(S, c) \in Nat /\ Rank(S, b) + 1 <= Rank(S, c)
    BY <1>1, <2>2 DEF Rank
  <2> QED BY <2>3
<1>3. ASSUME NEW b \in S, NEW c \in S, b < c, \A x \in S : x <= b \/ c <= x
      PROVE  Rank(S, c) = Rank(S, b) + 1
  <2>1. Before(S, c) = Before(S, b) \cup {b}
    BY <1>3 DEF Before
  <2> QED BY <1>1, <2>1 DEF Rank
<1> QED BY <1>1, <1>2, <1>3

LEMMA RankFacts ==
  ASSUME NEW h, NEW heads, NEW nx, NEW free, Blocks(h, heads, nx, free)
  PROVE  /\ \A b \in heads : Rank(heads, b) \in Nat
         /\ Rank(heads, 0) = 0 /\ Rank(heads, LastBlock) < NumBlocks
         /\ \A b \in heads \ {LastBlock} : nx[b] \in heads /\ Rank(heads, nx[b]) = Rank(heads, b) + 1
         /\ \A b, c \in heads : b < c => Rank(heads, b) < Rank(heads, c)
<1>1. \A b \in heads : b \in Nat
  BY DEF Blocks, Numbers
<1>2. 0 \in heads /\ LastBlock \in heads
  BY DEF Blocks
<1>3. \A b \in heads : Rank(heads, b) \in Nat /\ Rank(heads, b) <= b
  BY <1>1, RankOf, Zenon
<1>4. \A b, c \in heads : b < c => Rank(heads, b) < Rank(heads, c)
  BY <1>1, RankOf, Zenon
<1>5. ASSUME NEW b \in heads \ {LastBlock}
      PROVE  nx[b] \in heads /\ Rank(heads, nx[b]) = Rank(heads, b) + 1
  <2>1. nx[b] \in heads /\ b < nx[b] /\ \A c \in heads : c <= b \/ nx[b] <= c
    BY DEF Blocks
  <2> QED BY <1>1, <2>1, RankOf, Zenon
<1>6. Rank(heads, 0) = 0
  BY <1>2, <1>3
<1>7. Rank(heads, LastBlock) < NumBlocks
  <2>1. Rank(heads, LastBlock) \in Nat /\ Rank(heads, LastBlock) <= LastBlock
    BY <1>2, <1>3
  <2> QED BY <2>1, Sizing DEF LastBlock
<1> QED BY <1>3, <1>4, <1>5, <1>6, <1>7

LEMMA ListedFacts ==
  ASSUME NEW h, NEW heads, NEW nx, NEW free, Blocks(h, heads, nx, free)
  PROVE  ListedBlocks(h) = heads
<1> DEFINE step(f) == [k \in 0 .. NumBlocks |->
                         IF k = 0 THEN 0
                         ELSE IF f[k - 1] = NumBlocks - 1 THEN NumBlocks - 1
                         ELSE BLOCKNO(h[NBLOCK(f[k - 1])])]
           rank(b) == Rank(heads, b)
           R == rank(LastBlock)
           at(k) == CHOOSE b \in heads : rank(b) = k
           w == [k \in 0 .. NumBlocks |-> IF k <= R THEN at(k) ELSE LastBlock]
           nth == CHOOSE f : f = step(f)
<1>1. /\ \A b \in heads : rank(b) \in Nat
      /\ rank(0) = 0 /\ R < NumBlocks /\ R \in Nat
      /\ \A b \in heads \ {LastBlock} : nx[b] \in heads /\ rank(nx[b]) = rank(b) + 1
      /\ \A b, c \in heads : b < c => rank(b) < rank(c)
  <2>1. LastBlock \in heads
    BY DEF Blocks
  <2> QED BY <2>1, RankFacts
<1>2. heads \subseteq Nat /\ 0 \in heads /\ LastBlock \in heads /\ \A b \in heads : b <= LastBlock /\ b \in Nat
  BY Sizing DEF Blocks, Numbers, LastBlock
<1> HIDE DEF rank
<1>3. \A b \in heads : rank(b) \in 0 .. R /\ at(rank(b)) = b
  <2> SUFFICES ASSUME NEW b \in heads PROVE rank(b) \in 0 .. R /\ at(rank(b)) = b
    OBVIOUS
  <2>1. rank(b) <= R
    <3>1. b = LastBlock \/ b < LastBlock
      BY <1>2
    <3> QED BY <1>1, <1>2, <3>1
  <2>2. \A c \in heads : rank(c) = rank(b) => c = b
    <3> SUFFICES ASSUME NEW c \in heads, rank(c) = rank(b), c # b PROVE FALSE
      OBVIOUS
    <3>1. c < b \/ b < c
      BY <1>2
    <3> QED BY <1>1, <3>1
  <2> QED BY <1>1, <2>1, <2>2
<1>4. \A k \in 0 .. R : at(k) \in heads /\ rank(at(k)) = k
  <2>1. \A k \in 0 .. R : \E b \in heads : rank(b) = k
    <3> DEFINE S == {k \in 0 .. R : ~ \E b \in heads : rank(b) = k}
    <3>1. SUFFICES ASSUME S # {} PROVE FALSE
      OBVIOUS
    <3>2. S \in SUBSET Nat
      OBVIOUS
    <3>3. PICK x \in S : \A y \in S : x <= y
      BY <3>1, <3>2, Smallest
    <3>4. x \in 0 .. R /\ x # 0 /\ ~ \E b \in heads : rank(b) = x
      BY <1>1, <1>2
    <3>5. x - 1 \in 0 .. R /\ x - 1 \notin S
      BY <1>1, <3>3, <3>4
    <3>6. PICK b \in heads : rank(b) = x - 1
      BY <3>5
    <3>7. b # LastBlock
      BY <1>1, <3>4, <3>6
    <3> QED BY <1>1, <3>4, <3>6, <3>7
  <2> QED BY <2>1
<1> HIDE DEF at
<1>5. ASSUME NEW k \in 0 .. NumBlocks
      PROVE  w[k] = step(w)[k]
  <2>1. CASE k = 0
    BY <1>1, <1>2, <1>3, <2>1
  <2>2. CASE k # 0 /\ k <= R
    <3>1. /\ k - 1 \in 0 .. R /\ k - 1 \in 0 .. NumBlocks /\ k \in 0 .. R
          /\ w[k - 1] = at(k - 1) /\ w[k] = at(k)
      BY <1>1, <2>2, Sizing
    <3>2. at(k - 1) \in heads /\ rank(at(k - 1)) = k - 1 /\ at(k - 1) # LastBlock
      BY <1>1, <1>4, <2>2, <3>1
    <3>3. BLOCKNO(h[NBLOCK(at(k - 1))]) = nx[at(k - 1)]
      BY <3>2, NextFacts
    <3>4. nx[at(k - 1)] = at(k)
      BY <1>1, <1>3, <3>1, <3>2
    <3> HIDE DEF w
    <3> QED BY <2>2, <3>1, <3>2, <3>3, <3>4 DEF LastBlock
  <2>3. CASE k > R
    <3>1. k - 1 \in 0 .. NumBlocks /\ w[k] = LastBlock /\ (k - 1 = R \/ k - 1 > R) /\ k # 0
      BY <1>1, <2>3, Sizing
    <3>2. w[k - 1] = LastBlock
      BY <1>1, <1>2, <1>3, <3>1
    <3> HIDE DEF w
    <3> QED BY <3>1, <3>2 DEF LastBlock
  <2> QED BY <1>1, <2>1, <2>2, <2>3, Sizing
<1>6. w = step(w)
  BY <1>5
<1>7. ListedBlocks(h) = {nth[k] : k \in DOMAIN nth}
  BY DEF ListedBlocks
<1> HIDE DEF w
<1>8. nth = step(nth)
  BY <1>6
<1> HIDE DEF nth
<1>9. \A k \in 0 .. NumBlocks : nth[k] = w[k]
  <2> DEFINE S == {k \in 0 .. NumBlocks : nth[k] # w[k]}
  <2>1. SUFFICES ASSUME S # {} PROVE FALSE
    OBVIOUS
  <2>2. S \in SUBSET Nat
    BY Sizing
  <2>3. PICK x \in S : \A y \in S : x <= y
    BY <2>1, <2>2, Smallest
  <2>4. x \in 0 .. NumBlocks /\ nth[x] # w[x]
    OBVIOUS
  <2>5. nth[x] = step(nth)[x] /\ w[x] = step(w)[x]
    BY <1>6, <1>8
  <2>6. x # 0
    BY <2>4, <2>5
  <2>7. x - 1 \in 0 .. NumBlocks /\ x - 1 \notin S
    BY <2>3, <2>4, <2>6, Sizing
  <2>8. nth[x - 1] = w[x - 1]
    BY <2>7
  <2> QED BY <2>4, <2>5, <2>6, <2>8
<1>10. DOMAIN nth = 0 .. NumBlocks
  BY <1>8
<1>11. \A k \in 0 .. NumBlocks : w[k] \in heads
  BY <1>1, <1>2, <1>4, Sizing DEF w
<1>12. \A b \in heads : rank(b) \in 0 .. NumBlocks /\ w[rank(b)] = b
  BY <1>1, <1>3, Sizing DEF w
<1> QED BY <1>7, <1>9, <1>10, <1>11, <1>12

LEMMA ListsAgreeFacts == IInv => ListsAgree
<1> SUFFICES ASSUME IInv PROVE ListsAgree
  OBVIOUS
<1> DEFINE h == umm_heap
           list == FreeList(h)
           all == ListedBlocks(h)
           marked == {list[k] : k \in DOMAIN list} \ {0}
           next(b) == BLOCKNO(h[NBLOCK(b)])
<1>1. PICK heads, nx, free : Sound(umm_heap, heads, nx, free)
  BY DEF IInv
<1>2. Blocks(h, heads, nx, free) /\ Apart(nx, free) /\ Owned(heads, nx, free)
  BY <1>1 DEF Sound, Heap
<1>3. PICK K, L : List(h, free, K, L)
  BY <1>1 DEF Sound, Heap
<1>4. all = heads
  BY <1>2, ListedFacts
<1>5. /\ DOMAIN list = 0 .. NumBlocks
      /\ \A k \in 0 .. NumBlocks : list[k] = IF k <= K THEN L[k + 1] ELSE 0
  BY <1>2, <1>3, FreeListFacts
<1>6. K <= NumBlocks - 2
  BY <1>2, <1>3, ListLength, Zenon
<1> HIDE DEF list, all, h
<1>7. K \in Nat /\ L[0] = 0 /\ L[K + 1] = 0 /\ 0 \notin free /\ \A k \in 1 .. K : L[k] \in free
  BY <1>2, <1>3 DEF List, Blocks
<1>8. list[NumBlocks] = 0
  BY <1>5, <1>6, <1>7, Sizing
<1>9. marked = free
  <2>1. ASSUME NEW k \in 0 .. NumBlocks, list[k] # 0
        PROVE  list[k] \in free
    <3>1. k <= K /\ list[k] = L[k + 1]
      BY <1>5, <2>1
    <3>2. k + 1 \in 1 .. K \/ k + 1 = K + 1
      BY <1>7, <3>1
    <3> QED BY <1>7, <2>1, <3>1, <3>2
  <2>2. ASSUME NEW b \in free
        PROVE  \E k \in 0 .. NumBlocks : list[k] = b
    <3>1. PICK i \in 1 .. K : L[i] = b
      BY <1>3 DEF List
    <3>2. i - 1 \in 0 .. NumBlocks /\ i - 1 <= K /\ (i - 1) + 1 = i
      BY <1>6, <1>7, Sizing
    <3>3. list[i - 1] = b
      BY <1>5, <3>1, <3>2
    <3> QED BY <3>2, <3>3
  <2> QED BY <1>5, <1>7, <2>1, <2>2
<1>10. \A b \in free \cup {0} : h[PFREE(h[NFREE(b)])] = b
  <2> SUFFICES ASSUME NEW b \in free \cup {0}
               PROVE  h[PFREE(h[NFREE(b)])] = b
    OBVIOUS
  <2>1. PICK i \in 0 .. K : L[i] = b
    <3>1. CASE b = 0
      BY <1>7, <3>1
    <3>2. CASE b \in free
      BY <1>3, <3>2 DEF List
    <3> QED BY <3>1, <3>2
  <2> QED BY <1>3, <2>1 DEF List
<1>11. \A b \in heads : next(b) = nx[b] /\ (IsFree(h, b) <=> b \in free)
  BY <1>2, NextFacts
<1>12. ASSUME NEW b \in all \ {NumBlocks - 1}
       PROVE  next(b) \in b + 1 .. NumBlocks - 1 /\ h[PBLOCK(next(b))] = b
  <2>1. b \in heads \ {LastBlock}
    BY <1>4 DEF LastBlock
  <2>2. b \in Nat /\ nx[b] \in Nat /\ b < nx[b] /\ nx[b] <= LastBlock
    BY <1>2, <2>1, Geometry
  <2>3. next(b) = nx[b] /\ h[PBLOCK(nx[b])] = b
    BY <1>2, <1>11, <2>1 DEF Blocks
  <2>4. nx[b] \in b + 1 .. NumBlocks - 1
    BY <2>2, Sizing DEF LastBlock
  <2> QED BY <2>3, <2>4
<1>13. free = {b \in all : IsFree(h, b)}
  BY <1>2, <1>4, <1>11 DEF Blocks
<1>14. all = free \cup {ptr[p] : p \in Live} \cup {0, NumBlocks - 1}
  <2>1. heads \ (free \cup {0, LastBlock}) = {ptr[p] : p \in Live}
    BY <1>2 DEF Owned, Used
  <2>2. free \cup {0, LastBlock} \subseteq heads
    BY <1>2 DEF Blocks
  <2> QED BY <1>4, <2>1, <2>2 DEF LastBlock
<1>15. \A b \in free : next(b) \notin free
  BY <1>2, <1>11 DEF Apart, Blocks
<1>16. ListsAgree = /\ list[NumBlocks] = 0
                    /\ \A b \in marked \cup {0} : h[PFREE(h[NFREE(b)])] = b
                    /\ \A b \in all \ {NumBlocks - 1} :
                         next(b) \in b + 1 .. NumBlocks - 1 /\ h[PBLOCK(next(b))] = b
                    /\ marked = {b \in all : IsFree(h, b)}
                    /\ all = marked \cup {ptr[p] : p \in Live} \cup {0, NumBlocks - 1}
                    /\ \A b \in marked : next(b) \notin marked
  BY DEF ListsAgree, h, list, all
<1> HIDE DEF marked, next
<1> QED BY <1>8, <1>9, <1>10, <1>12, <1>13, <1>14, <1>15, <1>16

(* What umm_integrity_check() looks at: the two lists agree both ways, the   *)
(* free blocks are those that are marked, those in use are the caller's, and *)
(* what umm_free() gives back is joined to its free neighbours.              *)
THEOREM ListsAgreeHolds == Spec => []ListsAgree
BY ListsAgreeFacts, AlwaysHolds, PTL

(* Every block lies in one piece. *)
LEMMA PieceOf ==
  ASSUME NEW h, NEW heads, NEW nx, NEW free, Blocks(h, heads, nx, free),
         NEW b \in 0 .. (LastBlock - 1)
  PROVE  \E x \in heads \ {LastBlock} : x <= b /\ b < nx[x]
<1> DEFINE S == {y \in heads : y > b}
<1>1. LastBlock \in Nat /\ b \in Nat /\ b < LastBlock
  BY Sizing DEF LastBlock
<1>2. S \in SUBSET Nat /\ LastBlock \in S
  <2>1. \A y \in heads : y \in Nat
    BY DEF Blocks, Numbers
  <2>2. LastBlock \in heads
    BY DEF Blocks
  <2> QED BY <1>1, <2>1, <2>2
<1>3. PICK m \in S : \A y \in S : m <= y
  <2>1. S # {}
    BY <1>2
  <2> HIDE DEF S
  <2> QED BY <1>2, <2>1, Smallest
<1>4. m \in heads \ {0} /\ b < m /\ m \in Nat
  BY <1>1, <1>2
<1> DEFINE x == h[PBLOCK(m)]
<1>5. x \in heads \ {LastBlock} /\ nx[x] = m
  BY <1>4 DEF Blocks
<1> HIDE DEF x
<1>6. x \in Nat /\ x < m
  BY <1>5, Geometry
<1>7. x \notin S
  BY <1>3, <1>4, <1>6
<1>8. x <= b
  BY <1>1, <1>5, <1>6, <1>7
<1> QED BY <1>4, <1>5, <1>8

LEMMA NullMeansFullFacts == IInv => NullMeansFull
<1> SUFFICES ASSUME IInv, refused > 0, NEW b \in 1 .. (NumBlocks - 1 - refused)
             PROVE  (b .. (b + refused - 1))
                      \cap UNION {ptr[p] .. (ptr[p] + blocks(size[p]) - 1) : p \in Live} # {}
  BY DEF NullMeansFull
<1>1. PICK heads, nx, free : Sound(umm_heap, heads, nx, free)
  BY DEF IInv
<1>2. Blocks(umm_heap, heads, nx, free) /\ Apart(nx, free) /\ refused \in Nat /\ Types
  BY <1>1 DEF Sound, Heap, IInv, Types
<1>3. b \in Nat /\ b >= 1 /\ b + refused <= LastBlock /\ LastBlock \in Nat
  BY <1>2, Sizing DEF LastBlock
<1>4. ASSUME NEW u \in Used(heads, free), NEW i \in u .. (nx[u] - 1)
      PROVE  i \in UNION {ptr[p] .. (ptr[p] + blocks(size[p]) - 1) : p \in Live}
  <2>1. PICK p \in Live : u = ptr[p]
    BY <1>1 DEF Sound, Owned
  <2>2. ptr[p] \in Nat /\ nx[ptr[p]] \in Nat /\ nx[ptr[p]] - ptr[p] = blocks(size[p])
    BY <1>1, <1>2, LiveFacts
  <2>3. blocks(size[p]) \in Nat
    BY <1>1, <1>2, LiveFacts DEF blocks
  <2> DEFINE n == blocks(size[p])
  <2> HIDE DEF n
  <2>4. nx[ptr[p]] - 1 = ptr[p] + n - 1
    BY <2>2, <2>3 DEF n
  <2>5. i \in ptr[p] .. (ptr[p] + n - 1)
    BY <2>1, <2>4
  <2> QED BY <2>5 DEF n
<1>5. PICK x \in heads \ {LastBlock} : x <= b /\ b < nx[x]
  <2>1. b \in 0 .. (LastBlock - 1)
    BY <1>2, <1>3
  <2> QED BY <1>2, <2>1, PieceOf
<1>6. x \in Nat /\ nx[x] \in Nat /\ nx[x] <= LastBlock /\ nx[x] \in heads
  <2>1. nx[x] \in heads
    BY <1>2, <1>5 DEF Blocks
  <2> QED BY <1>2, <1>5, <2>1, Geometry
<1>7. x # 0
  BY <1>2, <1>3, <1>5 DEF Apart
<1>8. CASE x \in free
  <2> DEFINE y == nx[x]
  <2>1. nx[x] - x < refused
    BY <1>1, <1>2, <1>8 DEF Sound, NoRoom
  <2>2. y \in b .. (b + refused - 1) /\ y # LastBlock /\ y # 0
    BY <1>2, <1>3, <1>5, <1>6, <2>1
  <2>3. y \in Used(heads, free)
    BY <1>2, <1>6, <1>8, <2>2 DEF Apart, Used
  <2> HIDE DEF y
  <2>4. y \in Nat /\ nx[y] \in Nat /\ y < nx[y]
    <3>1. y \in heads \ {LastBlock}
      BY <2>3 DEF Used
    <3> QED BY <1>2, <3>1, Geometry
  <2>5. y \in y .. (nx[y] - 1)
    BY <2>4
  <2> QED BY <1>4, <2>2, <2>3, <2>5
<1>9. CASE x \notin free
  <2>1. x \in Used(heads, free)
    BY <1>5, <1>7, <1>9 DEF Used
  <2>2. b \in x .. (nx[x] - 1) /\ b \in b .. (b + refused - 1)
    BY <1>2, <1>3, <1>5, <1>6
  <2> QED BY <1>4, <2>1, <2>2
<1> QED BY <1>8, <1>9

(* NULL is returned only where no gap between the pieces in use is big       *)
(* enough, the piece that umm_realloc() gave back counting as a gap.         *)
THEOREM NullMeansFullHolds == Spec => []NullMeansFull
BY NullMeansFullFacts, AlwaysHolds, PTL
================================================================================
