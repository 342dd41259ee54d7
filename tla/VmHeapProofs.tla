---------------------------- MODULE VmHeapProofs ----------------------------
(***************************************************************************)
(* Proofs about VmHeap, for every size of the heap, every set of request   *)
(* sizes and every bound on the counts.                                    *)
(***************************************************************************)
EXTENDS VmHeap, ListLemmas

-----------------------------------------------------------------------------
(* Lemmas about the searches of the two lists *)

\* The search for a free block yields 0 or a place that holds a block of the
\* size asked for, or a larger one.
LEMMA ClaimIndexLemma ==
    ASSUME NEW list \in Seq(Block), NEW size \in Nat
    PROVE  \/ ClaimIndex(list, size) = 0
           \/ /\ ClaimIndex(list, size) \in 1 .. Len(list)
              /\ list[ClaimIndex(list, size)].size >= size
<1> DEFINE E == {i \in 1 .. Len(list) : list[i].size = size}
           L == {i \in 1 .. Len(list) : list[i].size >= size}
<1>1. E \in SUBSET Nat /\ L \in SUBSET Nat
  BY LenProperties
<1>2. E # {} => Min(E) \in E
  BY <1>1, MinNat
<1>3. L # {} => Min(L) \in L
  BY <1>1, MinNat
<1>4. ClaimIndex(list, size) = IF (IF E # {} THEN Min(E) ELSE 0) # 0
                                 THEN IF E # {} THEN Min(E) ELSE 0
                                 ELSE IF L # {} THEN Min(L) ELSE 0
  BY DEF ClaimIndex, SelectInSeq
<1>5. \A i \in 1 .. Len(list) : list[i].size \in Nat
  <2>1. \A i \in 1 .. Len(list) : list[i] \in Block
    BY ElementOfSeq
  <2> QED
    BY <2>1, HeapAssumption DEF Block
<1> HIDE DEF E, L
<1>6. CASE ClaimIndex(list, size) \in E
  BY <1>5, <1>6 DEF E
<1>7. CASE ClaimIndex(list, size) \in L
  BY <1>7 DEF L
<1>8. CASE ClaimIndex(list, size) = 0
  BY <1>8
<1> QED
  BY <1>2, <1>3, <1>4, <1>6, <1>7, <1>8

\* The search for a used block yields a place that holds a block which starts
\* there, whenever there is one.
LEMMA FindBlockLemma ==
    ASSUME NEW h \in Heaps, NEW j \in 1 .. Len(h.used)
    PROVE  /\ FindBlock(h, h.used[j].start) \in 1 .. Len(h.used)
           /\ h.used[FindBlock(h, h.used[j].start)].start = h.used[j].start
<1> DEFINE F == {i \in 1 .. Len(h.used) : h.used[i].start = h.used[j].start}
<1>1. h.used \in Seq(Block)
  BY DEF Heaps
<1>2. F \in SUBSET Nat /\ F # {}
  BY <1>1, LenProperties
<1>3. Min(F) \in F
  BY <1>2, MinNat
<1>4. FindBlock(h, h.used[j].start) = Min(F)
  BY <1>2 DEF FindBlock, SelectInSeq
<1> QED
  BY <1>3, <1>4

-----------------------------------------------------------------------------
(* Lemmas about the lists: what claiming and freeing a block keep *)

\* What the type of a block gives the arithmetic.
LEMMA BlockLemma ==
    ASSUME NEW b \in Block
    PROVE  /\ b.start \in Nat
           /\ b.size \in Nat \ {0}
           /\ HeapStart <= b.start
           /\ b.size <= HeapSize
           /\ b = [start |-> b.start, size |-> b.size]
  BY HeapAssumption DEF Block, Addr

LEMMA HeapsLemma ==
    ASSUME NEW h \in Heaps
    PROVE  /\ h.free \in Seq(Block) /\ h.used \in Seq(Block)
           /\ DOMAIN h.free = 1 .. Len(h.free)
           /\ DOMAIN h.used = 1 .. Len(h.used)
           /\ Len(h.free) \in Nat /\ Len(h.used) \in Nat
           /\ \A i \in 1 .. Len(h.free) : h.free[i] \in Block
           /\ \A i \in 1 .. Len(h.used) : h.used[i] \in Block
<1>1. h.free \in Seq(Block) /\ h.used \in Seq(Block)
  BY DEF Heaps
<1> QED
  BY <1>1, LenProperties, ElementOfSeq

\* Claiming a block cuts its words out of the free list: the block that is
\* handed out is apart from every block that is in use or still free.
LEMMA ClaimLemma ==
    ASSUME NEW h \in Heaps, Separate(h),
           NEW size \in Nat \ {0}, ClaimIndex(h.free, size) # 0
    PROVE  /\ Claimed(h, size) \in Block
           /\ InHeap(Claimed(h, size))
           /\ \A j \in 1 .. Len(h.used) : Disjoint(Claimed(h, size), h.used[j])
           /\ ClaimBlock(h, size) \in Heaps
           /\ Separate(ClaimBlock(h, size))
           /\ Len(ClaimBlock(h, size).used) = Len(h.used) + 1
           /\ ClaimBlock(h, size).used[1] = Claimed(h, size)
           /\ \A j \in 2 .. Len(h.used) + 1 :
                 ClaimBlock(h, size).used[j] = h.used[j - 1]
           /\ \A j \in 1 .. Len(h.used) :
                 ClaimBlock(h, size).used[j + 1] = h.used[j]
<1> DEFINE i == ClaimIndex(h.free, size)
           b == h.free[i]
           c == Claimed(h, size)
           f == ClaimBlock(h, size).free
           u == ClaimBlock(h, size).used
<1>1. i \in 1 .. Len(h.free) /\ b.size >= size
  BY ClaimIndexLemma, HeapsLemma
<1>2. c = [start |-> b.start, size |-> size]
  BY DEF Claimed
<1>3. ClaimBlock(h, size) =
        [used |-> <<c>> \o h.used,
         free |-> IF b.size = size
                    THEN RemoveAt(h.free, i)
                    ELSE [h.free EXCEPT ![i] =
                            [start |-> b.start + size, size |-> b.size - size]]]
  BY DEF ClaimBlock
<1> HIDE DEF i
<1>4. b \in Block /\ InHeap(b)
  BY <1>1, HeapsLemma DEF Separate
<1>5. c \in Block /\ InHeap(c)
  BY <1>1, <1>2, <1>4, BlockLemma, HeapAssumption DEF Block, InHeap
<1>6. \A j \in 1 .. Len(h.used) : Disjoint(c, h.used[j])
  <2> SUFFICES ASSUME NEW j \in 1 .. Len(h.used)
               PROVE  Disjoint(c, h.used[j])
    OBVIOUS
  <2>1. Disjoint(b, h.used[j]) /\ h.used[j] \in Block
    BY <1>1, HeapsLemma DEF Separate
  <2> QED
    BY <2>1, <1>1, <1>2, <1>4, BlockLemma DEF Disjoint
<1>7. /\ u \in Seq(Block)
      /\ Len(u) = Len(h.used) + 1
      /\ u[1] = c
      /\ \A j \in 1 .. Len(h.used) : u[j + 1] = h.used[j]
      /\ \A j \in 2 .. Len(h.used) + 1 : u[j] = h.used[j - 1]
  BY <1>3, <1>5, HeapsLemma, PushLemma
\* A free block that is left is part of one that was free, and apart from c.
<1>8. /\ f \in Seq(Block)
      /\ \A j \in 1 .. Len(f) :
            /\ InHeap(f[j])
            /\ Disjoint(c, f[j])
            /\ \A k \in 1 .. Len(h.used) : Disjoint(f[j], h.used[k])
      /\ \A j, k \in 1 .. Len(f) : j # k => Disjoint(f[j], f[k])
  <2>1. CASE b.size = size
    <3>1. /\ f \in Seq(Block)
          /\ Len(f) = Len(h.free) - 1
          /\ \A j \in 1 .. Len(h.free) - 1 :
                f[j] = IF j < i THEN h.free[j] ELSE h.free[j + 1]
      <4>1. f = RemoveAt(h.free, i)
        BY <1>3, <2>1
      <4>2. h.free \in Seq(Block)
        BY HeapsLemma
      <4> HIDE DEF f
      <4> QED
        BY <1>1, <4>1, <4>2, RemoveAtLemma
    <3>2. ASSUME NEW j \in 1 .. Len(f)
          PROVE  \E m \in 1 .. Len(h.free) :
                    /\ m # i
                    /\ f[j] = h.free[m]
                    /\ m = IF j < i THEN j ELSE j + 1
      <4>1. Len(h.free) \in Nat /\ j \in 1 .. Len(h.free) - 1 /\ i \in 1 .. Len(h.free)
        BY <1>1, <3>1, HeapsLemma
      <4>2. CASE j < i
        BY <3>1, <4>1, <4>2
      <4>3. CASE ~(j < i)
        <5>1. j + 1 \in 1 .. Len(h.free) /\ j + 1 # i
          BY <4>1, <4>3
        <5> QED
          BY <3>1, <4>1, <4>3, <5>1
      <4> QED
        BY <4>2, <4>3
    <3>3. ASSUME NEW j \in 1 .. Len(f)
          PROVE  /\ InHeap(f[j])
                 /\ Disjoint(c, f[j])
                 /\ \A k \in 1 .. Len(h.used) : Disjoint(f[j], h.used[k])
      <4>1. PICK m \in 1 .. Len(h.free) : m # i /\ f[j] = h.free[m]
        BY <3>2
      <4>2. c = b
        BY <1>2, <1>4, <2>1, BlockLemma
      <4> QED
        BY <1>1, <4>1, <4>2, HeapsLemma DEF Separate, Apart
    <3>4. ASSUME NEW j \in 1 .. Len(f), NEW k \in 1 .. Len(f), j # k
          PROVE  Disjoint(f[j], f[k])
      <4>1. PICK m \in 1 .. Len(h.free) :
               f[j] = h.free[m] /\ m = IF j < i THEN j ELSE j + 1
        BY <3>2
      <4>2. PICK n \in 1 .. Len(h.free) :
               f[k] = h.free[n] /\ n = IF k < i THEN k ELSE k + 1
        BY <3>2
      <4>3. m # n
        BY <3>4, <4>1, <4>2, <1>1, <3>1, HeapsLemma
      <4> QED
        BY <4>1, <4>2, <4>3, HeapsLemma DEF Separate, Apart
    <3> QED
      BY <3>1, <3>3, <3>4
  <2>2. CASE b.size # size
    <3> DEFINE r == [start |-> b.start + size, size |-> b.size - size]
    <3>1. r \in Block /\ InHeap(r) /\ Disjoint(c, r)
      <4>1. /\ b.start \in Nat /\ b.size \in Nat /\ HeapStart <= b.start
            /\ b.start + b.size <= HeapStart + HeapSize /\ b.size <= HeapSize
            /\ HeapStart \in Nat /\ HeapSize \in Nat
            /\ size \in Nat \ {0} /\ size < b.size
        BY <1>1, <1>4, <2>2, BlockLemma, HeapAssumption DEF InHeap
      <4>2. b.start + size \in Addr /\ b.size - size \in 1 .. HeapSize
        BY <4>1 DEF Addr
      <4>3. r \in Block
        BY <4>2 DEF Block
      <4>4. InHeap(r)
        BY <4>1 DEF InHeap
      <4>5. Disjoint(c, r)
        BY <4>1, <1>2 DEF Disjoint
      <4> QED
        BY <4>3, <4>4, <4>5
    <3>2. /\ f \in Seq(Block)
          /\ Len(f) = Len(h.free)
          /\ \A j \in 1 .. Len(h.free) : f[j] = IF j = i THEN r ELSE h.free[j]
      BY <1>1, <1>3, <2>2, <3>1, HeapsLemma, ExceptSeq
    <3>3. ASSUME NEW d \in Block, Disjoint(b, d)
          PROVE  Disjoint(r, d) /\ Disjoint(d, r) /\ Disjoint(c, d)
      BY <1>1, <1>2, <1>4, <2>2, <3>3, BlockLemma DEF Disjoint
    <3> HIDE DEF r
    <3>4. ASSUME NEW j \in 1 .. Len(f)
          PROVE  /\ InHeap(f[j])
                 /\ Disjoint(c, f[j])
                 /\ \A k \in 1 .. Len(h.used) : Disjoint(f[j], h.used[k])
      <4>1. CASE j = i
        BY <4>1, <1>1, <3>1, <3>2, <3>3, HeapsLemma DEF Separate
      <4>2. CASE j # i
        <5>1. f[j] = h.free[j] /\ f[j] \in Block /\ j \in 1 .. Len(h.free)
          BY <4>2, <3>2, HeapsLemma
        <5>2. Disjoint(b, h.free[j])
          BY <1>1, <4>2, <5>1, HeapsLemma DEF Separate, Apart
        <5> QED
          BY <5>1, <5>2, <3>3, HeapsLemma DEF Separate
      <4> QED
        BY <4>1, <4>2
    <3>5. ASSUME NEW j \in 1 .. Len(f), NEW k \in 1 .. Len(f), j # k
          PROVE  Disjoint(f[j], f[k])
      <4>1. Disjoint(h.free[j], h.free[k]) /\ Disjoint(h.free[k], h.free[j])
        BY <3>2, <3>5, HeapsLemma DEF Separate, Apart
      <4>2. h.free[j] \in Block /\ h.free[k] \in Block
        BY <3>2, HeapsLemma
      <4> QED
        BY <3>2, <3>3, <3>5, <4>1, <4>2
    <3> QED
      BY <3>2, <3>4, <3>5
  <2> QED
    BY <2>1, <2>2
<1>9. ClaimBlock(h, size) \in Heaps
  BY <1>3, <1>7, <1>8 DEF Heaps
<1> HIDE DEF c
<1>10. \A j \in 1 .. Len(u) :
          \/ u[j] = c /\ j = 1
          \/ j - 1 \in 1 .. Len(h.used) /\ u[j] = h.used[j - 1]
  BY <1>7, HeapsLemma
<1>11. Separate(ClaimBlock(h, size))
  <2>1. Apart(f)
    BY <1>8, <1>9, HeapsLemma DEF Apart
  <2>2. Apart(u)
    <3> SUFFICES ASSUME NEW j \in 1 .. Len(u), NEW k \in 1 .. Len(u), j # k
                 PROVE  Disjoint(u[j], u[k])
      BY <1>9, HeapsLemma DEF Apart
    <3>1. CASE j = 1
      BY <1>6, <1>10, <3>1
    <3>2. CASE k = 1
      <4>1. u[k] = c /\ j - 1 \in 1 .. Len(h.used) /\ u[j] = h.used[j - 1]
        BY <1>10, <3>2
      <4>2. Disjoint(c, u[j])
        BY <1>6, <4>1
      <4> QED
        BY <4>1, <4>2 DEF Disjoint
    <3>3. CASE j # 1 /\ k # 1
      <4>1. /\ j - 1 \in 1 .. Len(h.used) /\ u[j] = h.used[j - 1]
            /\ k - 1 \in 1 .. Len(h.used) /\ u[k] = h.used[k - 1]
        BY <1>10, <3>3
      <4>2. j - 1 # k - 1
        BY <1>7, HeapsLemma
      <4> QED
        BY <4>1, <4>2, HeapsLemma DEF Separate, Apart
    <3> QED
      BY <3>1, <3>2, <3>3
  <2>3. ASSUME NEW j \in 1 .. Len(f), NEW k \in 1 .. Len(u)
        PROVE  Disjoint(f[j], u[k])
    <3>1. CASE k = 1
      BY <1>8, <1>10, <3>1 DEF Disjoint
    <3>2. CASE k # 1
      BY <1>8, <1>10, <3>2
    <3> QED
      BY <3>1, <3>2
  <2>4. \A k \in 1 .. Len(u) : InHeap(u[k])
    BY <1>5, <1>10, HeapsLemma DEF Separate, c
  <2> QED
    BY <1>8, <1>9, <2>1, <2>2, <2>3, <2>4, HeapsLemma DEF Separate
<1> QED
  BY <1>5, <1>6, <1>7, <1>9, <1>11 DEF c

\* Freeing a block moves it from one list to the other.
LEMMA FreeLemma ==
    ASSUME NEW h \in Heaps, Separate(h), NEW start,
           FindBlock(h, start) \in 1 .. Len(h.used)
    PROVE  /\ FreeBlock(h, start) \in Heaps
           /\ Separate(FreeBlock(h, start))
           /\ \A j \in 1 .. Len(FreeBlock(h, start).used) :
                 \E m \in 1 .. Len(h.used) :
                    /\ m # FindBlock(h, start)
                    /\ FreeBlock(h, start).used[j] = h.used[m]
<1> DEFINE i == FindBlock(h, start)
           b == h.used[i]
           f == FreeBlock(h, start).free
           u == FreeBlock(h, start).used
<1>1. FreeBlock(h, start) =
        [used |-> RemoveAt(h.used, i), free |-> <<b>> \o h.free]
  BY DEF FreeBlock
<1>2. i \in 1 .. Len(h.used)
  OBVIOUS
<1> HIDE DEF i
<1>3. b \in Block /\ InHeap(b)
  BY <1>2, HeapsLemma DEF Separate
<1>4. /\ u \in Seq(Block)
      /\ Len(u) = Len(h.used) - 1
      /\ \A j \in 1 .. Len(h.used) - 1 :
            u[j] = IF j < i THEN h.used[j] ELSE h.used[j + 1]
  <2>1. u = RemoveAt(h.used, i)
    BY <1>1
  <2>2. h.used \in Seq(Block)
    BY HeapsLemma
  <2> HIDE DEF u
  <2> QED
    BY <1>2, <2>1, <2>2, RemoveAtLemma
<1>5. /\ f \in Seq(Block)
      /\ Len(f) = Len(h.free) + 1
      /\ f[1] = b
      /\ \A j \in 2 .. Len(h.free) + 1 : f[j] = h.free[j - 1]
  BY <1>1, <1>3, HeapsLemma, PushLemma
<1>6. FreeBlock(h, start) \in Heaps
  BY <1>1, <1>4, <1>5 DEF Heaps
<1>7. \A j \in 1 .. Len(u) : \E m \in 1 .. Len(h.used) :
         m # i /\ u[j] = h.used[m] /\ m = IF j < i THEN j ELSE j + 1
  <2> SUFFICES ASSUME NEW j \in 1 .. Len(u)
               PROVE  \E m \in 1 .. Len(h.used) :
                         m # i /\ u[j] = h.used[m] /\ m = IF j < i THEN j ELSE j + 1
    OBVIOUS
  <2>1. Len(h.used) \in Nat /\ j \in 1 .. Len(h.used) - 1 /\ i \in 1 .. Len(h.used)
    BY <1>2, <1>4, HeapsLemma
  <2>2. CASE j < i
    BY <1>4, <2>1, <2>2
  <2>3. CASE ~(j < i)
    <3>1. j + 1 \in 1 .. Len(h.used) /\ j + 1 # i
      BY <2>1, <2>3
    <3> QED
      BY <1>4, <2>1, <2>3, <3>1
  <2> QED
    BY <2>2, <2>3
<1>8. \A j \in 1 .. Len(f) :
         \/ f[j] = b /\ j = 1
         \/ j - 1 \in 1 .. Len(h.free) /\ f[j] = h.free[j - 1]
  <2> SUFFICES ASSUME NEW j \in 1 .. Len(f), j # 1
               PROVE  j - 1 \in 1 .. Len(h.free) /\ f[j] = h.free[j - 1]
    BY <1>5
  <2>1. Len(h.free) \in Nat
    BY HeapsLemma
  <2>2. j \in 2 .. Len(h.free) + 1 /\ j - 1 \in 1 .. Len(h.free)
    BY <1>5, <2>1
  <2> QED
    BY <1>5, <2>2
<1>9. \A m \in 1 .. Len(h.used) : m # i => Disjoint(b, h.used[m])
  BY <1>2, HeapsLemma DEF Separate, Apart
<1>10. \A m \in 1 .. Len(h.free) :
          Disjoint(b, h.free[m]) /\ Disjoint(h.free[m], b)
  BY <1>2, HeapsLemma DEF Separate, Disjoint
<1>11. Separate(FreeBlock(h, start))
  <2>1. Apart(u)
    <3> SUFFICES ASSUME NEW j \in 1 .. Len(u), NEW k \in 1 .. Len(u), j # k
                 PROVE  Disjoint(u[j], u[k])
      BY <1>6, HeapsLemma DEF Apart
    <3>1. PICK m \in 1 .. Len(h.used) :
             u[j] = h.used[m] /\ m = IF j < i THEN j ELSE j + 1
      BY <1>7
    <3>2. PICK n \in 1 .. Len(h.used) :
             u[k] = h.used[n] /\ n = IF k < i THEN k ELSE k + 1
      BY <1>7
    <3>3. m # n
      BY <1>2, <1>4, <3>1, <3>2, HeapsLemma
    <3> QED
      BY <3>1, <3>2, <3>3, HeapsLemma DEF Separate, Apart
  <2>2. Apart(f)
    <3> SUFFICES ASSUME NEW j \in 1 .. Len(f), NEW k \in 1 .. Len(f), j # k
                 PROVE  Disjoint(f[j], f[k])
      BY <1>6, HeapsLemma DEF Apart
    <3>1. CASE j = 1
      <4>1. f[j] = b /\ k - 1 \in 1 .. Len(h.free) /\ f[k] = h.free[k - 1]
        BY <1>5, <1>8, <3>1
      <4> QED
        BY <4>1, <1>10
    <3>3. CASE k = 1
      <4>1. f[k] = b /\ j - 1 \in 1 .. Len(h.free) /\ f[j] = h.free[j - 1]
        BY <1>5, <1>8, <3>3
      <4> QED
        BY <4>1, <1>10
    <3>2. CASE j # 1 /\ k # 1
      <4>1. /\ j - 1 \in 1 .. Len(h.free) /\ f[j] = h.free[j - 1]
            /\ k - 1 \in 1 .. Len(h.free) /\ f[k] = h.free[k - 1]
        BY <1>8, <3>2
      <4>2. j - 1 # k - 1
        BY <1>5, HeapsLemma
      <4> QED
        BY <4>1, <4>2, HeapsLemma DEF Separate, Apart
    <3> QED
      BY <3>1, <3>2, <3>3
  <2>3. ASSUME NEW j \in 1 .. Len(f), NEW k \in 1 .. Len(u)
        PROVE  Disjoint(f[j], u[k])
    <3>1. PICK m \in 1 .. Len(h.used) : m # i /\ u[k] = h.used[m]
      BY <1>7
    <3>2. CASE j = 1
      BY <1>8, <1>9, <3>1, <3>2
    <3>3. CASE j # 1
      BY <1>8, <3>1, <3>3, HeapsLemma DEF Separate
    <3> QED
      BY <3>2, <3>3
  <2>4. \A j \in 1 .. Len(f) : InHeap(f[j])
    BY <1>3, <1>8, HeapsLemma DEF Separate
  <2>5. \A j \in 1 .. Len(u) : InHeap(u[j])
    BY <1>7, HeapsLemma DEF Separate
  <2> QED
    BY <1>6, <2>1, <2>2, <2>3, <2>4, <2>5, HeapsLemma DEF Separate
<1> QED
  BY <1>6, <1>7, <1>11 DEF i

-----------------------------------------------------------------------------
(* The inductive invariant *)

\* A remainder that is split off starts inside the heap because blocks stay
\* inside it.  This part holds of every program: the lists are not in the memory
\* that a REALLOC writes to.
Lists == TypeOK /\ NoOverlap

\* A count is not overwritten through another block because blocks are apart and
\* a REALLOC copies no more than fits.
IInv == TypeOK /\ NoOverlap /\ CountsPositive

\* The two facts about the counts every proof below starts from and ends in.
LEMMA CountsLemma ==
    ASSUME heap \in Heaps
    PROVE  CountsPositive <=>
             \A j \in 1 .. Len(heap.used) : mem[heap.used[j].start] \in 1 .. MaxRefs
  BY HeapsLemma DEF CountsPositive

\* A pointer the program holds names one block of the used list.
LEMMA LiveLemma ==
    ASSUME heap \in Heaps, NEW p \in Live
    PROVE  /\ FindBlock(heap, p - Header) \in 1 .. Len(heap.used)
           /\ UsedBlock(p) \in Block
           /\ UsedBlock(p).start = p - Header
           /\ p - Header \in Addr
<1>1. PICK i \in 1 .. Len(heap.used) : p = heap.used[i].start + Header
  BY HeapsLemma DEF Live
<1>2. p - Header = heap.used[i].start
  BY <1>1, HeapsLemma, BlockLemma, HeapAssumption
<1>3. /\ FindBlock(heap, p - Header) \in 1 .. Len(heap.used)
      /\ heap.used[FindBlock(heap, p - Header)].start = p - Header
  BY <1>2, FindBlockLemma
<1>4. UsedBlock(p) \in Block /\ UsedBlock(p).start = p - Header
  BY <1>3, HeapsLemma DEF UsedBlock
<1> QED
  BY <1>3, <1>4 DEF Block

\* Blocks that are apart start at different words.
LEMMA StartsDiffer ==
    ASSUME NEW b \in Block, NEW c \in Block, Disjoint(b, c)
    PROVE  b.start # c.start
  BY BlockLemma DEF Disjoint

LEMMA InitIInv == Init => IInv
<1> SUFFICES ASSUME Init PROVE IInv
  OBVIOUS
<1> DEFINE b == [start |-> HeapStart, size |-> HeapSize]
<1>1. b \in Block /\ InHeap(b)
  BY HeapAssumption DEF Block, Addr, InHeap
<1>2. heap.free = <<b>> /\ heap.used = <<>>
  BY DEF Init
<1> HIDE DEF b
<1>3. heap.free \in Seq(Block) /\ heap.used \in Seq(Block)
  BY <1>1, <1>2
<1>4. TypeOK
  BY <1>3 DEF Init, TypeOK, Heaps
<1>5. NoOverlap
  BY <1>1, <1>2 DEF NoOverlap, Separate, Apart
<1>6. CountsPositive
  BY <1>2 DEF CountsPositive, Live
<1> QED
  BY <1>4, <1>5, <1>6 DEF IInv

LEMMA AllocIInv ==
    ASSUME IInv, NEW n \in Sizes, Alloc(n)
    PROVE  IInv'
<1> DEFINE size == n + Header
           c == Claimed(heap, size)
<1>1. size \in Nat \ {0} /\ ClaimIndex(heap.free, size) # 0
  BY HeapAssumption DEF Alloc
<1>2. heap \in Heaps /\ Separate(heap) /\ mem \in [Addr -> Nat]
  BY DEF IInv, TypeOK, NoOverlap
<1>3. heap' = ClaimBlock(heap, size) /\ mem' = [mem EXCEPT ![c.start] = 1]
  BY DEF Alloc
<1> HIDE DEF size, c
<1>4. /\ heap' \in Heaps /\ Separate(heap')
      /\ c \in Block
      /\ \A j \in 1 .. Len(heap.used) : Disjoint(c, heap.used[j])
      /\ Len(heap'.used) = Len(heap.used) + 1
      /\ heap'.used[1] = c
      /\ \A j \in 2 .. Len(heap.used) + 1 : heap'.used[j] = heap.used[j - 1]
  BY <1>1, <1>2, <1>3, ClaimLemma DEF c
<1>5. TypeOK'
  <2>1. c.start \in Addr /\ eflag' \in BOOLEAN
    BY <1>4 DEF Block, Alloc, IInv, TypeOK
  <2>2. mem' \in [Addr -> Nat]
    BY <1>2, <1>3
  <2> QED
    BY <1>4, <2>1, <2>2 DEF TypeOK
<1>6. ASSUME NEW j \in 1 .. Len(heap'.used)
      PROVE  mem'[heap'.used[j].start] \in 1 .. MaxRefs
  <2>1. CASE j = 1
    BY <1>2, <1>3, <1>4, <2>1, HeapAssumption DEF Block
  <2>2. CASE j # 1
    <3>1. j - 1 \in 1 .. Len(heap.used) /\ heap'.used[j] = heap.used[j - 1]
      BY <1>2, <1>4, <2>2, HeapsLemma
    <3>2. heap.used[j - 1] \in Block /\ heap.used[j - 1].start # c.start
      BY <1>2, <1>4, <3>1, HeapsLemma, StartsDiffer
    <3>3. mem'[heap.used[j - 1].start] = mem[heap.used[j - 1].start]
      BY <1>2, <1>3, <3>2 DEF Block
    <3> QED
      BY <1>2, <3>1, <3>3, CountsLemma DEF IInv
  <2> QED
    BY <2>1, <2>2
<1>7. CountsPositive'
  BY <1>4, <1>6, HeapsLemma DEF CountsPositive
<1> QED
  BY <1>4, <1>5, <1>7 DEF IInv, NoOverlap

\* Only a count that stays positive, or the words past a header, change.
LEMMA MemIInv ==
    ASSUME IInv, heap' = heap, mem' \in [Addr -> Nat], eflag' \in BOOLEAN,
           \A j \in 1 .. Len(heap.used) : mem'[heap.used[j].start] \in 1 .. MaxRefs
    PROVE  IInv'
<1>1. TypeOK' /\ NoOverlap'
  BY DEF IInv, TypeOK, NoOverlap
<1>2. CountsPositive'
  BY HeapsLemma DEF IInv, TypeOK, CountsPositive
<1> QED
  BY <1>1, <1>2 DEF IInv

\* The store of w at the start of a used block, or past it.
LEMMA StoreIInv ==
    ASSUME IInv, heap' = heap, eflag' = eflag, NEW p \in Live, NEW w \in Nat,
           NEW a \in Extent(UsedBlock(p)),
           a = p - Header => w \in 1 .. MaxRefs,
           mem' = [mem EXCEPT ![a] = w]
    PROVE  IInv'
<1> DEFINE i == FindBlock(heap, p - Header)
           b == UsedBlock(p)
<1>1. /\ i \in 1 .. Len(heap.used) /\ b = heap.used[i]
      /\ b \in Block /\ InHeap(b) /\ b.start = p - Header
      /\ heap \in Heaps
  BY LiveLemma, HeapsLemma DEF IInv, TypeOK, NoOverlap, Separate, UsedBlock
<1> HIDE DEF i, b
<1>2. a \in Int /\ b.start <= a /\ a < b.start + b.size
  BY <1>1, BlockLemma DEF Extent, b
<1>3. a \in Addr
  BY <1>1, <1>2, BlockLemma, HeapAssumption DEF Addr, InHeap
<1>4. mem' \in [Addr -> Nat] /\ eflag' \in BOOLEAN
  BY <1>3 DEF IInv, TypeOK
<1>5. ASSUME NEW j \in 1 .. Len(heap.used)
      PROVE  mem'[heap.used[j].start] \in 1 .. MaxRefs
  <2>1. heap.used[j] \in Block
    BY <1>1, HeapsLemma
  <2>2. heap.used[j].start \in Addr /\ mem[heap.used[j].start] \in 1 .. MaxRefs
    BY <1>1, <2>1, CountsLemma DEF IInv, Block
  <2>3. mem'[heap.used[j].start] = IF heap.used[j].start = a THEN w
                                     ELSE mem[heap.used[j].start]
    BY <1>3, <2>2 DEF IInv, TypeOK
  <2>4. CASE j = i
    BY <1>1, <2>2, <2>3, <2>4
  <2>5. CASE j # i
    <3>1. Disjoint(b, heap.used[j])
      BY <1>1, <2>5, HeapsLemma DEF IInv, NoOverlap, Separate, Apart
    <3>2. heap.used[j].start # a
      BY <1>1, <1>2, <2>1, <3>1, BlockLemma DEF Disjoint
    <3> QED
      BY <2>2, <2>3, <3>2
  <2> QED
    BY <2>4, <2>5
<1> QED
  BY <1>4, <1>5, MemIInv

\* The header of a block the program holds is its first word.
LEMMA HeaderLemma ==
    ASSUME IInv, NEW p \in Live
    PROVE  /\ p - Header \in Extent(UsedBlock(p))
           /\ RefCount(p) \in 1 .. MaxRefs
<1>1. UsedBlock(p) \in Block /\ UsedBlock(p).start = p - Header
  BY LiveLemma DEF IInv, TypeOK
<1>2. UsedBlock(p).start \in Extent(UsedBlock(p))
  BY <1>1, BlockLemma DEF Extent
<1>3. mem[UsedBlock(p).start] \in 1 .. MaxRefs
  BY LiveLemma, CountsLemma DEF IInv, TypeOK, UsedBlock
<1> QED
  BY <1>1, <1>2, <1>3 DEF RefCount

LEMMA RefIInv ==
    ASSUME IInv, NEW p \in Live, Ref(p)
    PROVE  IInv'
<1>1. RefCount(p) + 1 \in 1 .. MaxRefs /\ RefCount(p) + 1 \in Nat
  BY HeaderLemma, HeapAssumption DEF Ref
<1>2. mem' = [mem EXCEPT ![p - Header] = RefCount(p) + 1]
  BY DEF Ref, RefCount
<1>3. heap' = heap /\ eflag' = eflag /\ p - Header \in Extent(UsedBlock(p))
  BY HeaderLemma DEF Ref
<1> QED
  BY <1>1, <1>2, <1>3, StoreIInv, Zenon

LEMMA DerefSharedIInv ==
    ASSUME IInv, NEW p \in Live, DerefShared(p)
    PROVE  IInv'
<1>1. RefCount(p) - 1 \in 1 .. MaxRefs /\ RefCount(p) - 1 \in Nat
  BY HeaderLemma, HeapAssumption DEF DerefShared
<1>2. mem' = [mem EXCEPT ![p - Header] = RefCount(p) - 1]
  BY DEF DerefShared, RefCount
<1>3. heap' = heap /\ eflag' = eflag /\ p - Header \in Extent(UsedBlock(p))
  BY HeaderLemma DEF DerefShared
<1> QED
  BY <1>1, <1>2, <1>3, StoreIInv, Zenon

LEMMA WriteIInv ==
    ASSUME IInv, NEW p \in Live, NEW a \in Addr, NEW w \in Word, Write(p, a, w)
    PROVE  IInv'
<1>1. a \in Extent(UsedBlock(p)) /\ a # p - Header /\ w \in Nat
  BY HeapAssumption DEF Write
<1> QED
  BY <1>1, StoreIInv DEF Write

LEMMA DerefLastIInv ==
    ASSUME IInv, NEW p \in Live, DerefLast(p)
    PROVE  IInv'
<1>1. heap \in Heaps /\ Separate(heap) /\ FindBlock(heap, p - Header) \in 1 .. Len(heap.used)
  BY LiveLemma DEF IInv, TypeOK, NoOverlap
<1>2. heap' = FreeBlock(heap, p - Header) /\ UNCHANGED <<mem, eflag>>
  BY DEF DerefLast
<1>3. /\ heap' \in Heaps /\ Separate(heap')
      /\ \A j \in 1 .. Len(heap'.used) : \E m \in 1 .. Len(heap.used) :
            heap'.used[j] = heap.used[m]
  BY <1>1, <1>2, FreeLemma
<1>4. \A j \in 1 .. Len(heap'.used) : mem'[heap'.used[j].start] \in 1 .. MaxRefs
  BY <1>1, <1>2, <1>3, CountsLemma DEF IInv
<1>5. CountsPositive'
  BY <1>3, <1>4, HeapsLemma DEF CountsPositive
<1> QED
  BY <1>2, <1>3, <1>5 DEF IInv, TypeOK, NoOverlap

LEMMA ReallocIInv ==
    ASSUME IInv, NEW p \in Live, NEW n \in Sizes, Realloc(p, n),
           n + Header >= UsedBlock(p).size
    PROVE  /\ IInv'
           /\ heap' = FreeBlock(ClaimBlock(heap, n + Header), UsedBlock(p).start)
           /\ mem' = Copied(UsedBlock(p), Claimed(heap, n + Header))
<1> DEFINE size == n + Header
           h == ClaimBlock(heap, size)
           old == UsedBlock(p)
           new == Claimed(heap, size)
           i == FindBlock(heap, p - Header)
           copied == new.start .. new.start + old.size - 1
<1>1. /\ heap \in Heaps /\ Separate(heap) /\ mem \in [Addr -> Nat]
      /\ i \in 1 .. Len(heap.used) /\ old = heap.used[i]
      /\ old \in Block /\ InHeap(old) /\ old.start = p - Header
  BY LiveLemma, HeapsLemma DEF IInv, TypeOK, NoOverlap, Separate, UsedBlock
<1>2. /\ size \in Nat \ {0} /\ ClaimIndex(heap.free, size) # 0
      /\ size >= old.size /\ RefCount(p) = 1
  BY HeapAssumption DEF Realloc
<1>4. /\ new \in Block /\ InHeap(new) /\ new.size = size
      /\ \A j \in 1 .. Len(heap.used) : Disjoint(new, heap.used[j])
      /\ h \in Heaps /\ Separate(h)
      /\ Len(h.used) = Len(heap.used) + 1
      /\ h.used[1] = new
      /\ \A j \in 2 .. Len(heap.used) + 1 : h.used[j] = heap.used[j - 1]
      /\ \A j \in 1 .. Len(heap.used) : h.used[j + 1] = heap.used[j]
  <2>1. new.size = size
    BY DEF Claimed
  <2> HIDE DEF size, h, new
  <2> QED
    BY <1>1, <1>2, <2>1, ClaimLemma DEF h, new
\* The copy does not reach the old block, so prv_deref finds the count it had.
<1>3. /\ mem' = [a \in Addr |-> IF a \in copied
                                  THEN mem[old.start + (a - new.start)]
                                  ELSE mem[a]]
       /\ heap' = FreeBlock(h, old.start)
       /\ eflag' = eflag
  <2> DEFINE c == Copied(old, new)
  <2>1. old.start \in Addr /\ old.start \notin copied
    <3>1. Disjoint(new, old)
      BY <1>1, <1>4
    <3>2. /\ old.start \in Nat /\ old.size \in Nat \ {0}
          /\ new.start \in Nat /\ new.size \in Nat /\ old.size <= new.size
      BY <1>1, <1>2, <1>4, BlockLemma
    <3> HIDE DEF old, new
    <3>3. old.start \in Addr
      BY <1>1 DEF Block
    <3> QED
      BY <3>1, <3>2, <3>3 DEF Disjoint
  <2>2. c = [a \in Addr |-> IF a \in copied THEN mem[old.start + (a - new.start)] ELSE mem[a]]
    BY DEF Copied
  <2>3. c[old.start] = mem[old.start]
    <3> HIDE DEF c, old, new, copied
    <3> QED
      BY <2>1, <2>2
  <2>4. mem[old.start] = 1
    BY <1>1, <1>2 DEF RefCount
  <2>5. /\ IF c[old.start] = 1
             THEN heap' = FreeBlock(h, old.start) /\ mem' = c
             ELSE heap' = h /\ mem' = [c EXCEPT ![old.start] = @ - 1]
        /\ eflag' = eflag
    BY DEF Realloc
  <2> HIDE DEF c, h, old, new, copied
  <2> QED
    BY <2>2, <2>3, <2>4, <2>5
<1>0. /\ heap' = FreeBlock(ClaimBlock(heap, n + Header), UsedBlock(p).start)
      /\ mem' = Copied(UsedBlock(p), Claimed(heap, n + Header))
  BY <1>3 DEF Copied
<1>5. FindBlock(h, old.start) \in 1 .. Len(h.used)
  <2> HIDE DEF size, h, new, old, i
  <2>1. i + 1 \in 1 .. Len(h.used) /\ h.used[i + 1] = old
    BY <1>1, <1>4, HeapsLemma
  <2> QED
    BY <1>4, <2>1, FindBlockLemma
<1> HIDE DEF size, h, old, new, i
<1>6. /\ heap' \in Heaps /\ Separate(heap')
      /\ \A j \in 1 .. Len(heap'.used) : \E m \in 1 .. Len(h.used) :
            heap'.used[j] = h.used[m]
  <2>1. /\ FreeBlock(h, old.start) \in Heaps /\ Separate(FreeBlock(h, old.start))
        /\ \A j \in 1 .. Len(FreeBlock(h, old.start).used) :
              \E m \in 1 .. Len(h.used) :
                 FreeBlock(h, old.start).used[j] = h.used[m]
    BY <1>4, <1>5, FreeLemma
  <2> QED
    BY <2>1, <1>3
<1>7. /\ old.start \in Nat /\ new.start \in Nat
       /\ old.size \in Nat \ {0} /\ new.size \in Nat \ {0}
       /\ old.size <= new.size
       /\ HeapStart <= old.start /\ old.start + old.size <= HeapStart + HeapSize
       /\ old.start \in Addr /\ new.start \in Addr
  BY <1>1, <1>2, <1>4, BlockLemma DEF InHeap, Block
\* The copy stays inside both blocks, and its first word is the header.
<1>8. mem' \in [Addr -> Nat]
  <2> SUFFICES ASSUME NEW a \in copied
               PROVE  old.start + (a - new.start) \in Addr
    BY <1>1, <1>3
  <2> QED
    BY <1>7, HeapAssumption DEF Addr
<1>9. ASSUME NEW m \in 1 .. Len(h.used)
      PROVE  mem'[h.used[m].start] \in 1 .. MaxRefs
  <2>1. CASE m = 1
    <3>1. new.start \in copied /\ old.start + (new.start - new.start) = old.start
      BY <1>7
    <3>3. mem'[new.start] = mem[old.start]
      BY <1>3, <1>7, <3>1
    <3> QED
      BY <1>1, <1>4, <2>1, <3>3, CountsLemma DEF IInv
  <2>2. CASE m # 1
    <3>1. m - 1 \in 1 .. Len(heap.used) /\ h.used[m] = heap.used[m - 1]
      <4>1. m \in 2 .. Len(heap.used) + 1 /\ Len(heap.used) \in Nat
        BY <1>1, <1>4, <2>2, HeapsLemma
      <4> QED
        BY <4>1, <1>4
    <3>2. heap.used[m - 1] \in Block /\ Disjoint(new, heap.used[m - 1])
      BY <1>1, <1>4, <3>1, HeapsLemma
    <3>3. heap.used[m - 1].start \in Addr /\ heap.used[m - 1].start \notin copied
      <4> DEFINE d == heap.used[m - 1]
      <4>1. d.start \in Addr /\ d.start \in Nat /\ d.size \in Nat \ {0}
        BY <3>2, BlockLemma DEF Block
      <4>2. new.start + new.size <= d.start \/ d.start + d.size <= new.start
        BY <3>2 DEF Disjoint
      <4> HIDE DEF d
      <4>3. d.start \notin copied
        BY <1>7, <4>1, <4>2
      <4> QED
        BY <4>1, <4>3 DEF d
    <3>4. mem'[heap.used[m - 1].start] = mem[heap.used[m - 1].start]
      BY <1>3, <3>3
    <3> QED
      BY <1>1, <3>1, <3>4, CountsLemma DEF IInv
  <2> QED
    BY <2>1, <2>2
<1>10. \A j \in 1 .. Len(heap'.used) : mem'[heap'.used[j].start] \in 1 .. MaxRefs
  BY <1>6, <1>9
<1>11. CountsPositive'
  BY <1>6, <1>10, HeapsLemma DEF CountsPositive
<1> QED
  BY <1>0, <1>3, <1>6, <1>8, <1>11 DEF IInv, TypeOK, NoOverlap

\* Every step keeps the invariant: one step of the proof per action.
LEMMA NextIInv == WholeBlocks /\ IInv /\ [Next]_vars => IInv'
<1> SUFFICES ASSUME WholeBlocks, IInv, [Next]_vars PROVE IInv'
  OBVIOUS
<1>1. ASSUME NEW n \in Sizes, Alloc(n) PROVE IInv'
  BY <1>1, AllocIInv
<1>2. ASSUME NEW n \in Sizes, OutOfMemory(n) PROVE IInv'
  BY <1>2 DEF OutOfMemory, IInv, TypeOK, NoOverlap, CountsPositive
<1>3. ASSUME NEW p \in Live, Ref(p) PROVE IInv'
  BY <1>3, RefIInv
<1>4. ASSUME NEW p \in Live, DerefShared(p) PROVE IInv'
  BY <1>4, DerefSharedIInv
<1>5. ASSUME NEW p \in Live, DerefLast(p) PROVE IInv'
  BY <1>5, DerefLastIInv
<1>6. ASSUME NEW p \in Live, NEW n \in Sizes, Requested(p, n) /\ Realloc(p, n) PROVE IInv'
  BY <1>6, ReallocIInv DEF Requested
<1>7. ASSUME NEW p \in Live, NEW a \in Addr, NEW w \in Word, Write(p, a, w) PROVE IInv'
  BY <1>7, WriteIInv
<1>8. CASE ClearError
  BY <1>8 DEF ClearError, IInv, TypeOK, NoOverlap, CountsPositive
<1>9. CASE UNCHANGED vars
  BY <1>9 DEF vars, IInv, TypeOK, NoOverlap, CountsPositive
<1> QED
  BY <1>1, <1>2, <1>3, <1>4, <1>5, <1>6, <1>7, <1>8, <1>9 DEF Next

THEOREM Invariant == ASSUME WholeBlocks PROVE Spec => []IInv
<1>1. IInv /\ [Next]_vars => IInv'
  BY NextIInv
<1> QED
  BY <1>1, InitIInv, PTL DEF Spec

-----------------------------------------------------------------------------
(* The lists, of every program *)

\* A store in a word of the heap leaves the lists alone.
LEMMA StoreLists ==
    ASSUME Lists, heap' = heap, eflag' \in BOOLEAN, mem' \in [Addr -> Nat]
    PROVE  Lists'
BY DEF Lists, TypeOK, NoOverlap

\* What a copy of any length and the prv_deref behind it make of memory and lists.
LEMMA ReallocLists ==
    ASSUME Lists, NEW p \in Live, NEW n \in Sizes, Realloc(p, n)
    PROVE  LET h == ClaimBlock(heap, n + Header)
               start == UsedBlock(p).start
           IN  /\ h \in Heaps /\ Separate(h)
               /\ FindBlock(h, start) \in 1 .. Len(h.used)
               /\ heap' = h \/ heap' = FreeBlock(h, start)
               /\ mem' \in [Addr -> Nat] /\ eflag' = eflag
<1> DEFINE size == n + Header
           h == ClaimBlock(heap, size)
           i == FindBlock(heap, p - Header)
           old == UsedBlock(p)
           new == Claimed(heap, size)
           c == Copied(old, new)
<1>1. /\ heap \in Heaps /\ Separate(heap) /\ mem \in [Addr -> Nat]
      /\ i \in 1 .. Len(heap.used) /\ old = heap.used[i]
      /\ old \in Block /\ InHeap(old)
  BY LiveLemma, HeapsLemma DEF Lists, TypeOK, NoOverlap, Separate, UsedBlock
<1>2. size \in Nat \ {0} /\ ClaimIndex(heap.free, size) # 0
  BY HeapAssumption DEF Realloc
<1>3. /\ c[old.start] # 0
      /\ IF c[old.start] = 1
           THEN heap' = FreeBlock(h, old.start) /\ mem' = c
           ELSE heap' = h /\ mem' = [c EXCEPT ![old.start] = @ - 1]
      /\ eflag' = eflag
  BY DEF Realloc
<1>4. c = [a \in Addr |-> IF a \in new.start .. new.start + old.size - 1
                            THEN mem[old.start + (a - new.start)]
                            ELSE mem[a]]
  BY DEF Copied
<1> HIDE DEF i, size, c, old, h
<1>5. /\ h \in Heaps /\ Separate(h) /\ Len(h.used) = Len(heap.used) + 1
      /\ new \in Block
      /\ \A j \in 1 .. Len(heap.used) : h.used[j + 1] = heap.used[j]
  BY <1>1, <1>2, ClaimLemma DEF h
<1> HIDE DEF new
<1>6. i + 1 \in 1 .. Len(h.used) /\ h.used[i + 1] = old
  BY <1>1, <1>5, HeapsLemma
<1>7. FindBlock(h, old.start) \in 1 .. Len(h.used)
  BY <1>5, <1>6, FindBlockLemma
<1>8. c \in [Addr -> Nat]
  <2> SUFFICES ASSUME NEW a \in Addr, a \in new.start .. new.start + old.size - 1
               PROVE  old.start + (a - new.start) \in Addr
    BY <1>1, <1>4
  <2>1. /\ old.start \in Nat /\ old.size \in Nat /\ new.start \in Nat
        /\ HeapStart <= old.start /\ old.start + old.size <= HeapStart + HeapSize
    BY <1>1, <1>5, BlockLemma DEF InHeap
  <2> QED
    BY <2>1, HeapAssumption DEF Addr
<1>9. mem' \in [Addr -> Nat]
  <2>1. old.start \in Addr /\ c[old.start] \in Nat
    BY <1>1, <1>8 DEF Block
  <2> QED
    BY <1>3, <1>8, <2>1
<1> QED
  BY <1>3, <1>5, <1>7, <1>9 DEF h, size, old

LEMMA NextLists == Lists /\ [Next]_vars => Lists'
<1> SUFFICES ASSUME Lists, [Next]_vars PROVE Lists'
  OBVIOUS
<1>0. heap \in Heaps /\ Separate(heap) /\ mem \in [Addr -> Nat] /\ eflag \in BOOLEAN
  BY DEF Lists, TypeOK, NoOverlap
<1>1. ASSUME NEW n \in Sizes, Alloc(n) PROVE Lists'
  <2> DEFINE c == Claimed(heap, n + Header)
             h == ClaimBlock(heap, n + Header)
  <2>1. n + Header \in Nat \ {0} /\ ClaimIndex(heap.free, n + Header) # 0
    BY <1>1, HeapAssumption DEF Alloc
  <2>2. h \in Heaps /\ Separate(h) /\ c \in Block
    BY <1>0, <2>1, ClaimLemma
  <2>3. heap' = h /\ mem' = [mem EXCEPT ![c.start] = 1] /\ eflag' = eflag
    BY <1>1 DEF Alloc
  <2> HIDE DEF c, h
  <2> QED
    BY <1>0, <2>2, <2>3 DEF Lists, TypeOK, NoOverlap
<1>2. ASSUME NEW n \in Sizes, OutOfMemory(n) PROVE Lists'
  BY <1>0, <1>2, StoreLists DEF OutOfMemory
<1>3. ASSUME NEW p \in Live, Ref(p) PROVE Lists'
  BY <1>0, <1>3, StoreLists, LiveLemma DEF Ref
<1>4. ASSUME NEW p \in Live, DerefShared(p) PROVE Lists'
  <2>1. p - Header \in Addr /\ mem[p - Header] \in Nat /\ mem[p - Header] - 1 \in Nat
    BY <1>0, <1>4, LiveLemma DEF DerefShared, RefCount
  <2> QED
    BY <1>0, <1>4, <2>1, StoreLists DEF DerefShared
<1>5. ASSUME NEW p \in Live, DerefLast(p) PROVE Lists'
  <2>1. FindBlock(heap, p - Header) \in 1 .. Len(heap.used)
    BY <1>0, LiveLemma
  <2>2. FreeBlock(heap, p - Header) \in Heaps /\ Separate(FreeBlock(heap, p - Header))
    BY <1>0, <2>1, FreeLemma
  <2> QED
    BY <1>0, <1>5, <2>2 DEF DerefLast, Lists, TypeOK, NoOverlap
<1>6. ASSUME NEW p \in Live, NEW n \in Sizes, Realloc(p, n) PROVE Lists'
  <2> DEFINE h == ClaimBlock(heap, n + Header)
             s == UsedBlock(p).start
  <2>1. /\ h \in Heaps /\ Separate(h)
        /\ FindBlock(h, s) \in 1 .. Len(h.used)
        /\ heap' = h \/ heap' = FreeBlock(h, s)
        /\ mem' \in [Addr -> Nat] /\ eflag' = eflag
    BY <1>6, ReallocLists
  <2> HIDE DEF h, s
  <2>2. FreeBlock(h, s) \in Heaps /\ Separate(FreeBlock(h, s))
    BY <2>1, FreeLemma
  <2> QED
    BY <1>0, <2>1, <2>2 DEF Lists, TypeOK, NoOverlap
<1>7. ASSUME NEW p \in Live, NEW a \in Addr, NEW w \in Word, Write(p, a, w) PROVE Lists'
  BY <1>0, <1>7, StoreLists, HeapAssumption DEF Write
<1>8. CASE ClearError
  BY <1>0, <1>8, StoreLists DEF ClearError
<1>9. CASE UNCHANGED vars
  BY <1>0, <1>9, StoreLists DEF vars
<1> QED
  BY <1>1, <1>2, <1>3, <1>4, <1>5, <1>6, <1>7, <1>8, <1>9 DEF Next

THEOREM ListsInvariant == Spec => []Lists
<1>1. Init => Lists
  BY InitIInv DEF IInv, Lists
<1> QED
  BY <1>1, NextLists, PTL DEF Spec

-----------------------------------------------------------------------------
(* The words of a list *)

\* The recursion of Total, up to some length.
SumsTo(list, n, f) ==
    f = [i \in 0 .. n |-> IF i = 0 THEN 0 ELSE f[i - 1] + list[i].size]

\* The recursion has a solution for every length.
LEMMA SumsExist ==
    ASSUME NEW list, NEW n \in Nat
    PROVE  \E f : SumsTo(list, n, f)
<1> DEFINE T == {i \in Nat : \E f : SumsTo(list, i, f)}
<1>1. 0 \in T
  <2> DEFINE f == [i \in 0 .. 0 |-> 0]
  <2>1. SumsTo(list, 0, f)
    BY DEF SumsTo
  <2> QED
    BY <2>1
<1>2. ASSUME NEW m \in 0 .. n - 1, m \in T
      PROVE  m + 1 \in T
  <2>1. PICK f : SumsTo(list, m, f)
    BY <1>2
  <2> DEFINE g == [i \in 0 .. m + 1 |-> IF i = m + 1 THEN f[m] + list[m + 1].size ELSE f[i]]
  <2>2. ASSUME NEW i \in 0 .. m + 1
        PROVE  g[i] = IF i = 0 THEN 0 ELSE g[i - 1] + list[i].size
    <3>1. CASE i = m + 1
      <4>1. i - 1 = m /\ m \in 0 .. m + 1 /\ m # m + 1 /\ i # 0
        BY <3>1
      <4>2. g[m] = f[m] /\ g[i] = f[m] + list[m + 1].size
        BY <3>1, <4>1
      <4> QED
        BY <3>1, <4>1, <4>2
    <3>2. CASE i # m + 1
      <4>1. i \in 0 .. m /\ (i # 0 => i - 1 \in 0 .. m + 1 /\ i - 1 # m + 1)
        BY <3>2
      <4>2. f[i] = IF i = 0 THEN 0 ELSE f[i - 1] + list[i].size
        BY <2>1, <4>1 DEF SumsTo
      <4>3. g[i] = f[i] /\ (i # 0 => g[i - 1] = f[i - 1])
        BY <3>2, <4>1
      <4> QED
        BY <4>2, <4>3
    <3> QED
      BY <3>1, <3>2
  <2>3. g = [i \in 0 .. m + 1 |-> g[i]]
    OBVIOUS
  <2> HIDE DEF g
  <2>4. SumsTo(list, m + 1, g)
    BY <2>2, <2>3 DEF SumsTo
  <2> QED
    BY <2>4
<1> HIDE DEF T
<1>3. n \in 0 .. n /\ \A i \in 0 .. n : i \in T
  BY <1>1, <1>2, InductionUpTo
<1> QED
  BY <1>3 DEF T

\* f has the words of the first blocks of a list, for each number of them.
Adds(list, f) ==
    /\ f \in [0 .. Len(list) -> Nat]
    /\ f[0] = 0
    /\ \A i \in 1 .. Len(list) : f[i] = f[i - 1] + list[i].size
    /\ f[Len(list)] = Total(list)

LEMMA TotalAdds ==
    ASSUME NEW list \in Seq(Block)
    PROVE  \E f : Adds(list, f)
<1> DEFINE n == Len(list)
           f == CHOOSE g : SumsTo(list, n, g)
<1>1. n \in Nat /\ \A i \in 1 .. n : list[i].size \in Nat
  <2>1. n \in Nat /\ \A i \in 1 .. n : list[i] \in Block
    BY LenProperties, ElementOfSeq
  <2> QED
    BY <2>1, BlockLemma
<1>2. Total(list) = f[n]
  BY DEF Total, SumsTo
<1>3. SumsTo(list, n, f)
  BY <1>1, SumsExist
<1> HIDE DEF f, n
<1>4. \A i \in 0 .. n : f[i] = IF i = 0 THEN 0 ELSE f[i - 1] + list[i].size
  BY <1>3 DEF SumsTo
<1> DEFINE T == {i \in 0 .. n : f[i] \in Nat}
<1>5. 0 \in T
  BY <1>1, <1>4
<1>6. ASSUME NEW i \in 0 .. n - 1, i \in T
      PROVE  i + 1 \in T
  <2>1. i + 1 \in 0 .. n /\ i + 1 \in 1 .. n /\ i + 1 # 0 /\ (i + 1) - 1 = i
    BY <1>1
  <2>2. f[i + 1] = f[i] + list[i + 1].size
    BY <1>4, <2>1
  <2> QED
    BY <1>1, <1>6, <2>1, <2>2
<1> HIDE DEF T
<1>7. \A i \in 0 .. n : i \in T
  BY <1>1, <1>5, <1>6, InductionUpTo
<1>8. f \in [0 .. n -> Nat]
  <2>1. \A i \in 0 .. n : f[i] \in Nat
    BY <1>7 DEF T
  <2>2. f = [i \in 0 .. n |-> f[i]]
    BY <1>3 DEF SumsTo
  <2> QED
    BY <2>1, <2>2
<1>9. 0 \in 0 .. n /\ \A i \in 1 .. n : i \in 0 .. n /\ i # 0
  BY <1>1
<1>10. f[0] = 0 /\ \A i \in 1 .. n : f[i] = f[i - 1] + list[i].size
  BY <1>4, <1>9
<1> QED
  BY <1>2, <1>8, <1>10 DEF Adds, n

\* The n blocks of s behind place a have the sizes of those of t behind place b.
SameSizes(s, a, t, b, n) ==
    /\ a + n <= Len(s) /\ b + n <= Len(t)
    /\ \A i \in 1 .. n : s[a + i].size = t[b + i].size

SameSum(f, a, g, b, n) == f[a + n] - f[a] = g[b + n] - g[b]

\* Parts of two lists with blocks of the same sizes have as many words.
LEMMA EqualWords ==
    ASSUME NEW s \in Seq(Block), NEW f, Adds(s, f),
           NEW t \in Seq(Block), NEW g, Adds(t, g),
           NEW a \in Nat, NEW b \in Nat, NEW n \in Nat,
           SameSizes(s, a, t, b, n)
    PROVE  SameSum(f, a, g, b, n)
<1> USE DEF SameSizes, SameSum
<1> DEFINE T == {k \in 0 .. n : f[a + k] - f[a] = g[b + k] - g[b]}
<1>0. Len(s) \in Nat /\ Len(t) \in Nat
  BY LenProperties
<1>1. /\ \A k \in 0 .. n : f[a + k] \in Nat /\ g[b + k] \in Nat
      /\ f[a] \in Nat /\ g[b] \in Nat
  <2>1. \A k \in 0 .. n : a + k \in 0 .. Len(s) /\ b + k \in 0 .. Len(t)
    BY <1>0
  <2>2. a \in 0 .. Len(s) /\ b \in 0 .. Len(t)
    BY <1>0
  <2> QED
    BY <2>1, <2>2 DEF Adds
<1>2. 0 \in T
  BY <1>1
<1>3. ASSUME NEW k \in 0 .. n - 1, k \in T
      PROVE  k + 1 \in T
  <2>1. /\ a + (k + 1) \in 1 .. Len(s) /\ a + (k + 1) - 1 = a + k
        /\ b + (k + 1) \in 1 .. Len(t) /\ b + (k + 1) - 1 = b + k
        /\ k + 1 \in 1 .. n /\ k + 1 \in 0 .. n /\ k \in 0 .. n
    BY <1>0
  <2>2. /\ f[a + (k + 1)] = f[a + k] + s[a + (k + 1)].size
        /\ g[b + (k + 1)] = g[b + k] + t[b + (k + 1)].size
    BY <2>1 DEF Adds
  <2>3. s[a + (k + 1)].size = t[b + (k + 1)].size
    BY <2>1
  <2>4. s[a + (k + 1)].size \in Nat
    BY <2>1, ElementOfSeq, BlockLemma
  <2>5. PICK u \in Nat, v \in Nat, x \in Nat, y \in Nat, z \in Nat :
           u = f[a] /\ v = g[b] /\ x = f[a + k] /\ y = g[b + k] /\ z = s[a + (k + 1)].size
    BY <1>1, <2>1, <2>4
  <2>6. x - u = y - v
    BY <1>3, <2>5
  <2>7. (x + z) - u = (y + z) - v
    BY <2>6
  <2> QED
    BY <2>1, <2>2, <2>3, <2>5, <2>7
<1>4. n \in 0 .. n
  OBVIOUS
<1> HIDE DEF T
<1>5. n \in T
  BY <1>2, <1>3, <1>4, InductionUpTo
<1> QED
  BY <1>5 DEF T

LEMMA TotalOfBlocks ==
    ASSUME NEW s \in Seq(Block)
    PROVE  Total(s) \in Nat /\ (Total(s) = 0 <=> s = <<>>)
<1>1. PICK f : Adds(s, f)
  BY TotalAdds
<1>2. Len(s) \in Nat /\ Total(s) = f[Len(s)] /\ f \in [0 .. Len(s) -> Nat] /\ f[0] = 0
  BY <1>1, LenProperties DEF Adds
<1>3. Total(s) \in Nat
  BY <1>2
<1>4. CASE s = <<>>
  BY <1>2, <1>3, <1>4
<1>5. CASE s # <<>>
  <2>1. Len(s) \in 1 .. Len(s) /\ Len(s) - 1 \in 0 .. Len(s)
    BY <1>2, <1>5, EmptySeq
  <2>2. s[Len(s)].size \in Nat \ {0}
    BY <2>1, ElementOfSeq, BlockLemma
  <2>3. f[Len(s)] = f[Len(s) - 1] + s[Len(s)].size /\ f[Len(s) - 1] \in Nat
    BY <1>1, <1>2, <2>1 DEF Adds
  <2>4. Total(s) # 0
    BY <1>2, <2>2, <2>3
  <2> QED
    BY <1>3, <1>5, <2>4
<1> QED
  BY <1>4, <1>5

\* A new head adds its words.
LEMMA TotalOfPush ==
    ASSUME NEW s \in Seq(Block), NEW b \in Block
    PROVE  Total(<<b>> \o s) = b.size + Total(s)
<1>1. PICK t \in Seq(Block) : t = <<b>> \o s
  BY PushLemma
<1>2. /\ Len(s) \in Nat /\ Len(t) = Len(s) + 1 /\ t[1] = b
      /\ \A i \in 1 .. Len(s) : t[i + 1] = s[i]
  BY <1>1, PushLemma, LenProperties
<1>3. PICK f, g : Adds(t, f) /\ Adds(s, g)
  BY TotalAdds
<1>4. SameSizes(t, 1, s, 0, Len(s))
  BY <1>2 DEF SameSizes
<1>5. f[1 + Len(s)] - f[1] = g[0 + Len(s)] - g[0]
  <2>1. SameSum(f, 1, g, 0, Len(s))
    BY <1>2, <1>3, <1>4, EqualWords
  <2> QED
    BY <2>1 DEF SameSum
<1>6. f[1] = f[0] + b.size /\ f[0] = 0 /\ g[0] = 0
  BY <1>2, <1>3 DEF Adds
<1>7. f[1 + Len(s)] = Total(t) /\ g[0 + Len(s)] = Total(s)
  BY <1>2, <1>3 DEF Adds
<1>8. Total(t) \in Nat /\ Total(s) \in Nat /\ b.size \in Nat
  BY TotalOfBlocks, BlockLemma
<1> QED
  BY <1>1, <1>5, <1>6, <1>7, <1>8

\* The words of a list are those before a place, at the place and behind it.
LEMMA TotalOfRemove ==
    ASSUME NEW s \in Seq(Block), NEW i \in 1 .. Len(s)
    PROVE  Total(RemoveAt(s, i)) + s[i].size = Total(s)
<1>1. PICK t \in Seq(Block) : t = RemoveAt(s, i)
  BY RemoveAtLemma
<1>2. /\ Len(s) \in Nat /\ Len(t) = Len(s) - 1
      /\ \A j \in 1 .. Len(s) - 1 : t[j] = IF j < i THEN s[j] ELSE s[j + 1]
  BY <1>1, RemoveAtLemma, LenProperties
<1>3. PICK f, g : Adds(s, f) /\ Adds(t, g)
  BY TotalAdds
<1>4. PICK n \in Nat, m \in Nat : n = i - 1 /\ m = Len(s) - i
  <2>1. i - 1 \in Nat /\ Len(s) - i \in Nat
    BY <1>2
  <2> QED
    BY <2>1
<1>5. f[0 + n] - f[0] = g[0 + n] - g[0]
  <2>1. SameSizes(s, 0, t, 0, n)
    BY <1>2, <1>4 DEF SameSizes
  <2>2. SameSum(f, 0, g, 0, n)
    BY <1>3, <2>1, EqualWords
  <2> QED
    BY <2>2 DEF SameSum
<1>6. f[i + m] - f[i] = g[n + m] - g[n]
  <2>1. i \in Nat /\ i + m <= Len(s) /\ n + m <= Len(t)
    BY <1>2, <1>4
  <2>2. ASSUME NEW j \in 1 .. m
        PROVE  s[i + j].size = t[n + j].size
    <3>1. n + j \in 1 .. Len(s) - 1 /\ ~ (n + j < i) /\ (n + j) + 1 = i + j
      BY <1>2, <1>4
    <3> QED
      BY <1>2, <3>1
  <2>3. SameSizes(s, i, t, n, m)
    BY <2>1, <2>2 DEF SameSizes
  <2>4. SameSum(f, i, g, n, m)
    BY <1>3, <2>1, <2>3, EqualWords
  <2> QED
    BY <2>4 DEF SameSum
<1>7. f[i] = f[n] + s[i].size /\ f[0] = 0 /\ g[0] = 0
  BY <1>3, <1>4 DEF Adds
<1>8. f[i + m] = Total(s) /\ g[n + m] = Total(t)
  <2>1. i + m = Len(s) /\ n + m = Len(t)
    BY <1>2, <1>4
  <2> QED
    BY <1>3, <2>1 DEF Adds
<1>9. Total(t) \in Nat /\ Total(s) \in Nat /\ s[i].size \in Nat
  BY TotalOfBlocks, ElementOfSeq, BlockLemma
<1>10. n \in 0 .. Len(s) /\ n \in 0 .. Len(t) /\ 0 + n = n
  BY <1>2, <1>4
<1>11. PICK x \in Nat, y \in Nat : x = f[n] /\ y = g[n]
  BY <1>3, <1>10 DEF Adds
<1>12. x = y
  BY <1>5, <1>7, <1>10, <1>11
<1>13. Total(s) - (x + s[i].size) = Total(t) - y
  BY <1>6, <1>7, <1>8, <1>11
<1> QED
  BY <1>1, <1>9, <1>12, <1>13

\* The words of a list with another block at a place.
LEMMA TotalOfReplace ==
    ASSUME NEW s \in Seq(Block), NEW i \in 1 .. Len(s), NEW b \in Block
    PROVE  Total([s EXCEPT ![i] = b]) + s[i].size = Total(s) + b.size
<1>1. PICK t \in Seq(Block) : t = [s EXCEPT ![i] = b]
  BY ExceptSeq
<1>2. Len(s) \in Nat /\ Len(t) = Len(s) /\ \A j \in 1 .. Len(s) : t[j] = IF j = i THEN b ELSE s[j]
  BY <1>1, ExceptSeq, LenProperties
<1>3. PICK f, g : Adds(s, f) /\ Adds(t, g)
  BY TotalAdds
<1>4. PICK n \in Nat, m \in Nat : n = i - 1 /\ m = Len(s) - i
  <2>1. i - 1 \in Nat /\ Len(s) - i \in Nat
    BY <1>2
  <2> QED
    BY <2>1
<1>5. f[0 + n] - f[0] = g[0 + n] - g[0]
  <2>1. SameSizes(s, 0, t, 0, n)
    BY <1>2, <1>4 DEF SameSizes
  <2>2. SameSum(f, 0, g, 0, n)
    BY <1>3, <2>1, EqualWords
  <2> QED
    BY <2>2 DEF SameSum
<1>6. f[i + m] - f[i] = g[i + m] - g[i]
  <2>1. i \in Nat /\ i + m <= Len(s) /\ i + m <= Len(t)
    BY <1>2, <1>4
  <2>2. SameSizes(s, i, t, i, m)
    <3>1. \A j \in 1 .. m : i + j \in 1 .. Len(s) /\ i + j # i
      BY <1>2, <1>4
    <3> QED
      BY <1>2, <2>1, <3>1 DEF SameSizes
  <2>3. SameSum(f, i, g, i, m)
    BY <1>3, <2>1, <2>2, EqualWords
  <2> QED
    BY <2>3 DEF SameSum
<1>7. /\ f[i] = f[n] + s[i].size /\ g[i] = g[n] + b.size /\ f[0] = 0 /\ g[0] = 0
  BY <1>2, <1>3, <1>4 DEF Adds
<1>8. f[i + m] = Total(s) /\ g[i + m] = Total(t)
  <2>1. i + m = Len(s) /\ i + m = Len(t)
    BY <1>2, <1>4
  <2> QED
    BY <1>3, <2>1 DEF Adds
<1>9. Total(t) \in Nat /\ Total(s) \in Nat /\ s[i].size \in Nat /\ b.size \in Nat
  BY TotalOfBlocks, ElementOfSeq, BlockLemma
<1>10. n \in 0 .. Len(s) /\ n \in 0 .. Len(t) /\ 0 + n = n
  BY <1>2, <1>4
<1>11. PICK x \in Nat, y \in Nat : x = f[n] /\ y = g[n]
  BY <1>3, <1>10 DEF Adds
<1>12. x = y
  BY <1>5, <1>7, <1>10, <1>11
<1>13. Total(s) - (x + s[i].size) = Total(t) - (y + b.size)
  BY <1>6, <1>7, <1>8, <1>11
<1>14. Total(t) + s[i].size = Total(s) + b.size
  <2>1. PICK k \in Nat, l \in Nat, v \in Nat, w \in Nat :
           k = Total(t) /\ l = Total(s) /\ v = s[i].size /\ w = b.size
    BY <1>9
  <2>2. l - (x + v) = k - (x + w)
    BY <1>12, <1>13, <2>1
  <2>3. k + v = l + w
    BY <2>2
  <2> QED
    BY <2>1, <2>3
<1> QED
  BY <1>1, <1>14

\* No words are lost, whichever list they are on.
WordsOf(h) == Total(h.free) + Total(h.used)

WordsKept == WordsOf(heap) = HeapSize

\* A block that is claimed takes its words from the free list.
LEMMA ClaimKeepsWords ==
    ASSUME NEW h \in Heaps, Separate(h),
           NEW size \in Nat \ {0}, ClaimIndex(h.free, size) # 0
    PROVE  WordsOf(ClaimBlock(h, size)) = WordsOf(h)
<1> DEFINE i == ClaimIndex(h.free, size)
           b == h.free[i]
           c == Claimed(h, size)
           r == [start |-> b.start + size, size |-> b.size - size]
           f == ClaimBlock(h, size).free
           u == ClaimBlock(h, size).used
<1>1. i \in 1 .. Len(h.free) /\ b.size >= size
  BY ClaimIndexLemma, HeapsLemma
<1>2. /\ u = <<c>> \o h.used
      /\ f = IF b.size = size THEN RemoveAt(h.free, i) ELSE [h.free EXCEPT ![i] = r]
      /\ c.size = size /\ r.start = b.start + size /\ r.size = b.size - size
  BY DEF ClaimBlock, Claimed
<1>3. c \in Block /\ f \in Seq(Block) /\ u \in Seq(Block)
  BY ClaimLemma, HeapsLemma
<1>4. b \in Block /\ InHeap(b) /\ h.free \in Seq(Block) /\ h.used \in Seq(Block)
  BY <1>1, HeapsLemma DEF Separate
<1> HIDE DEF i, c, f, u
<1>5. Total(u) = size + Total(h.used)
  BY <1>2, <1>3, <1>4, TotalOfPush
<1>6. Total(f) + size = Total(h.free)
  <2>1. CASE b.size = size
    BY <1>1, <1>2, <1>4, <2>1, TotalOfRemove
  <2>2. CASE b.size # size
    <3>1. r \in Block
      <4>1. /\ b.start \in Nat /\ b.size \in Nat /\ HeapStart <= b.start
            /\ b.start + b.size <= HeapStart + HeapSize /\ b.size <= HeapSize
            /\ HeapStart \in Nat /\ HeapSize \in Nat /\ size < b.size
        BY <1>1, <1>4, <2>2, BlockLemma, HeapAssumption DEF InHeap
      <4>2. b.start + size \in Addr /\ b.size - size \in 1 .. HeapSize
        BY <4>1 DEF Addr
      <4> QED
        BY <4>2 DEF Block
    <3>2. r.size = b.size - size
      OBVIOUS
    <3> HIDE DEF r
    <3>3. Total([h.free EXCEPT ![i] = r]) + b.size = Total(h.free) + r.size
      BY <1>1, <1>4, <3>1, TotalOfReplace
    <3>4. Total(f) + b.size = Total(h.free) + (b.size - size)
      BY <1>2, <2>2, <3>2, <3>3
    <3>5. PICK x \in Nat, y \in Nat, z \in Nat : x = Total(f) /\ y = Total(h.free) /\ z = b.size
      BY <1>3, <1>4, TotalOfBlocks, BlockLemma
    <3>6. x + z = y + (z - size)
      BY <3>4, <3>5
    <3>7. x + size = y
      BY <3>6
    <3> QED
      BY <3>5, <3>7
  <2> QED
    BY <2>1, <2>2
<1>7. /\ Total(f) \in Nat /\ Total(u) \in Nat
      /\ Total(h.free) \in Nat /\ Total(h.used) \in Nat
  BY <1>3, <1>4, TotalOfBlocks
<1>8. Total(f) + Total(u) = Total(h.free) + Total(h.used)
  BY <1>5, <1>6, <1>7
<1> QED
  BY <1>8 DEF WordsOf, f, u

\* A block that is freed takes its words back to the free list.
LEMMA FreeKeepsWords ==
    ASSUME NEW h \in Heaps, NEW start, FindBlock(h, start) \in 1 .. Len(h.used)
    PROVE  WordsOf(FreeBlock(h, start)) = WordsOf(h)
<1> DEFINE i == FindBlock(h, start)
           b == h.used[i]
<1>1. b \in Block /\ h.free \in Seq(Block) /\ h.used \in Seq(Block)
  BY HeapsLemma
<1>2. /\ FreeBlock(h, start).used = RemoveAt(h.used, i)
      /\ FreeBlock(h, start).free = <<b>> \o h.free
  BY DEF FreeBlock
<1>3. i \in 1 .. Len(h.used)
  OBVIOUS
<1> HIDE DEF i
<1>4. Total(<<b>> \o h.free) = b.size + Total(h.free)
  BY <1>1, TotalOfPush
<1>5. Total(RemoveAt(h.used, i)) + b.size = Total(h.used)
  BY <1>1, <1>3, TotalOfRemove
<1>6. /\ Total(RemoveAt(h.used, i)) \in Nat /\ b.size \in Nat
      /\ Total(h.free) \in Nat /\ Total(h.used) \in Nat
  BY <1>1, <1>3, RemoveAtLemma, TotalOfBlocks, BlockLemma
<1> QED
  BY <1>2, <1>4, <1>5, <1>6 DEF WordsOf

LEMMA InitWords == Init => WordsKept
<1> SUFFICES ASSUME Init PROVE WordsKept
  OBVIOUS
<1> DEFINE b == [start |-> HeapStart, size |-> HeapSize]
           e == <<>>
<1>1. b \in Block /\ b.size = HeapSize
  BY HeapAssumption DEF Block, Addr
<1>2. heap.free = <<b>> /\ heap.used = e /\ e \in Seq(Block)
  BY DEF Init
<1>3. <<b>> \o e = <<b>>
  BY <1>1
<1> HIDE DEF b
<1>4. Total(<<b>> \o e) = b.size + Total(e) /\ Total(e) = 0
  BY <1>1, <1>2, TotalOfPush, TotalOfBlocks
<1> QED
  BY <1>1, <1>2, <1>3, <1>4, HeapAssumption DEF WordsKept, WordsOf

LEMMA NextWords == Lists /\ WordsKept /\ [Next]_vars => WordsKept'
<1> SUFFICES ASSUME Lists, WordsKept, [Next]_vars PROVE WordsKept'
  OBVIOUS
<1>0. heap \in Heaps /\ Separate(heap)
  BY DEF Lists, TypeOK, NoOverlap
<1>1. ASSUME NEW n \in Sizes, Alloc(n) PROVE WordsKept'
  <2>1. n + Header \in Nat \ {0} /\ ClaimIndex(heap.free, n + Header) # 0
    BY <1>1, HeapAssumption DEF Alloc
  <2>2. WordsOf(ClaimBlock(heap, n + Header)) = WordsOf(heap)
    BY <1>0, <2>1, ClaimKeepsWords
  <2> QED
    BY <1>1, <2>2 DEF Alloc, WordsKept
<1>2. ASSUME NEW p \in Live, DerefLast(p) PROVE WordsKept'
  <2>1. FindBlock(heap, p - Header) \in 1 .. Len(heap.used)
    BY <1>0, LiveLemma
  <2>2. WordsOf(FreeBlock(heap, p - Header)) = WordsOf(heap)
    BY <1>0, <2>1, FreeKeepsWords
  <2> QED
    BY <1>2, <2>2 DEF DerefLast, WordsKept
<1>3. ASSUME NEW p \in Live, NEW n \in Sizes, Realloc(p, n) PROVE WordsKept'
  <2> DEFINE h == ClaimBlock(heap, n + Header)
             s == UsedBlock(p).start
  <2>1. n + Header \in Nat \ {0} /\ ClaimIndex(heap.free, n + Header) # 0
    BY <1>3, HeapAssumption DEF Realloc
  <2>2. h \in Heaps /\ WordsOf(h) = WordsOf(heap)
    BY <1>0, <2>1, ClaimLemma, ClaimKeepsWords
  <2>3. FindBlock(h, s) \in 1 .. Len(h.used) /\ (heap' = h \/ heap' = FreeBlock(h, s))
    BY <1>3, ReallocLists
  <2> HIDE DEF h, s
  <2>5. WordsOf(FreeBlock(h, s)) = WordsOf(h)
    BY <2>2, <2>3, FreeKeepsWords
  <2> QED
    BY <2>2, <2>3, <2>5 DEF WordsKept
<1>4. ASSUME heap' = heap PROVE WordsKept'
  BY <1>4 DEF WordsKept
<1>5. CASE UNCHANGED vars
  BY <1>4, <1>5 DEF vars
<1> QED
  BY <1>1, <1>2, <1>3, <1>4, <1>5
  DEF Next, OutOfMemory, Ref, DerefShared, Write, ClearError

\* The heap never loses a word, although it never merges what it has split.
THEOREM WordsAreKept == Spec => []WordsKept
<1> QED
  BY ListsInvariant, InitWords, NextWords, PTL DEF Spec

-----------------------------------------------------------------------------
(* The theorems *)

\* The lists hold blocks whose start is inside the heap, and memory holds
\* naturals: no list operation of vm_heap.c makes a block out of thin air.
THEOREM TypeCorrect == Spec => []TypeOK
<1>1. Lists => TypeOK
  BY DEF Lists
<1> QED
  BY <1>1, ListsInvariant, PTL

\* Claiming, splitting, freeing and reallocating never leave a word in two
\* blocks, or a block past the end of the heap (common/vm_heap.c).
THEOREM BlocksNeverOverlap == Spec => []NoOverlap
<1>1. Lists => NoOverlap
  BY DEF Lists
<1> QED
  BY <1>1, ListsInvariant, PTL

\* In a program that only grows references to whole blocks, no store, no copy of
\* a REALLOC and no reuse of a freed block changes the count in the header of a
\* block in use to 0 or past the bound (the assertions of prv_deref and prv_getref,
\* frontend/vm.c).  The run realloc_part shows it fail for other programs.
THEOREM CountsStayPositive == ASSUME WholeBlocks PROVE Spec => []CountsPositive
<1>1. IInv => CountsPositive
  BY DEF IInv
<1>2. Spec => []IInv
  BY Invariant
<1> QED
  BY <1>1, <1>2, PTL

\* Whatever was split, moved and freed in between, HEAPFREE has its first value
\* again exactly when every block was freed (prv_check_free_mem, frontend/parser.c).
THEOREM LeaksAreSeen == Spec => []LeakCheckExact
<1>1. Lists /\ WordsKept => LeakCheckExact
  <2> SUFFICES ASSUME Lists, WordsKept PROVE LeakCheckExact
    OBVIOUS
  <2>1. heap.free \in Seq(Block) /\ heap.used \in Seq(Block)
    BY HeapsLemma DEF Lists, TypeOK
  <2>2. /\ Total(heap.free) \in Nat /\ Total(heap.used) \in Nat
        /\ Total(heap.used) = 0 <=> heap.used = <<>>
    BY <2>1, TotalOfBlocks
  <2>3. Total(heap.free) = HeapSize <=> Total(heap.used) = 0
    BY <2>2, HeapAssumption DEF WordsKept, WordsOf
  <2> QED
    BY <2>2, <2>3 DEF LeakCheckExact, FreeSpace
<1> QED
  BY <1>1, ListsInvariant, WordsAreKept, PTL
-----------------------------------------------------------------------------
(***************************************************************************)
(* VmHeap implements RefObjects: Init maps to Init, and a step of the      *)
(* lists and of the memory is one step of the objects, or none of them     *)
(* sees it.                                                                *)
(*                                                                         *)
(* The objects are a function of the set of used blocks and of the memory: *)
(* the order of the list does not matter.  So the lemmas say which blocks  *)
(* claiming and freeing add to the set and take from it, and that an       *)
(* object is the same while its block stays used and nobody stores in it.  *)
(***************************************************************************)

Used(h) == {h.used[j] : j \in 1 .. Len(h.used)}

\* The objects of Objects, as a function of the state.
BlockAt(h, p) == h.used[FindBlock(h, p - Header)]
Words(h, m, p) ==
    SubSeq([k \in 1 .. HeapSize |-> IF p + k - 1 \in Addr THEN m[p + k - 1] ELSE 0],
           1, BlockAt(h, p).size - Header)
Pointers(h) == {h.used[i].start + Header : i \in DOMAIN h.used}
ObjectsOf(h, m) == [p \in Pointers(h) |-> [refs |-> m[p - Header], data |-> Words(h, m, p)]]

Pointer(b) == b.start + Header

Mapped == [p \in Live |-> [refs |-> RefCount(p), data |-> Contents(p)]]

LEMMA MappedLemma ==
    /\ Mapped = ObjectsOf(heap, mem) /\ Live = Pointers(heap)
    /\ Mapped' = ObjectsOf(heap', mem') /\ Live' = Pointers(heap')
BY DEF Mapped, ObjectsOf, Live, Pointers, RefCount, Contents, Words, UsedBlock, BlockAt

LEMMA ObjectsLive == Objects!Live = Live
BY DEF Objects!Live

-----------------------------------------------------------------------------
(* The set of used blocks *)

\* No two used blocks start at the same word, so a block is found where it is.
LEMMA PlaceLemma ==
    ASSUME NEW h \in Heaps, Separate(h), NEW j \in 1 .. Len(h.used)
    PROVE  FindBlock(h, h.used[j].start) = j
<1> DEFINE i == FindBlock(h, h.used[j].start)
<1>1. i \in 1 .. Len(h.used) /\ h.used[i].start = h.used[j].start
  BY FindBlockLemma
<1> HIDE DEF i
<1>2. h.used[i] \in Block /\ h.used[j] \in Block
  BY <1>1, HeapsLemma
<1>3. i # j => Disjoint(h.used[i], h.used[j])
  BY <1>1, HeapsLemma DEF Separate, Apart
<1> QED
  BY <1>1, <1>2, <1>3, StartsDiffer DEF i

\* A used block is an object behind its header: its words are those of memory.
LEMMA ObjectLemma ==
    ASSUME NEW h \in Heaps, Separate(h), NEW m \in [Addr -> Nat], NEW b \in Used(h)
    PROVE  /\ b \in Block /\ InHeap(b)
           /\ Pointer(b) \in Pointers(h)
           /\ FindBlock(h, Pointer(b) - Header) \in 1 .. Len(h.used)
           /\ BlockAt(h, Pointer(b)) = b
           /\ Words(h, m, Pointer(b)) \in Seq(Nat)
           /\ Len(Words(h, m, Pointer(b))) = b.size - Header
           /\ \A k \in 1 .. b.size - Header : Words(h, m, Pointer(b))[k] = m[b.start + k]
<1> DEFINE p == Pointer(b)
           s == [k \in 1 .. HeapSize |-> IF p + k - 1 \in Addr THEN m[p + k - 1] ELSE 0]
<1>1. PICK j \in 1 .. Len(h.used) : b = h.used[j]
  BY DEF Used
<1>2. b \in Block /\ InHeap(b)
  BY <1>1, HeapsLemma DEF Separate
<1>3. p \in Pointers(h) /\ p - Header = b.start /\ p = b.start + 1
  BY <1>1, <1>2, HeapsLemma, BlockLemma, HeapAssumption DEF Pointer, Pointers
<1>4. FindBlock(h, p - Header) = j /\ BlockAt(h, p) = b
  BY <1>1, <1>3, PlaceLemma DEF BlockAt
<1>5. Words(h, m, p) = SubSeq(s, 1, b.size - Header)
  BY <1>4 DEF Words
<1>6. /\ b.size - Header \in Nat /\ b.size - Header <= HeapSize
      /\ b.start \in Nat /\ Header = 1
  BY <1>2, BlockLemma, HeapAssumption
<1>7. \A k \in 1 .. b.size - Header :
         /\ k \in 1 .. HeapSize
         /\ p + k - 1 = b.start + k
         /\ b.start + k \in Addr
  <2> SUFFICES ASSUME NEW k \in 1 .. b.size - Header
               PROVE  /\ k \in 1 .. HeapSize
                      /\ p + k - 1 = b.start + k
                      /\ b.start + k \in Addr
    OBVIOUS
  <2>1. /\ p = b.start + 1 /\ b.start \in Nat /\ b.size \in Nat /\ b.size <= HeapSize
        /\ HeapStart \in Nat /\ HeapSize \in Nat /\ HeapStart <= b.start
        /\ b.start + b.size <= HeapStart + HeapSize
    BY <1>2, <1>3, BlockLemma, HeapAssumption DEF InHeap
  <2> HIDE DEF p, s
  <2>2. PICK x \in Nat, z \in Nat : x = b.start /\ z = b.size
    BY <2>1
  <2>3. k \in 1 .. z - 1 /\ z <= HeapSize /\ x + z <= HeapStart + HeapSize /\ HeapStart <= x
    BY <1>6, <2>1, <2>2
  <2>4. k \in 1 .. HeapSize /\ (x + 1) + k - 1 = x + k
    BY <2>1, <2>3
  <2>5. x + k \in Addr
    BY <2>1, <2>3 DEF Addr
  <2> QED
    BY <2>1, <2>2, <2>4, <2>5
<1>8. \A k \in 1 .. b.size - Header : s[k] = m[b.start + k] /\ s[k] \in Nat
  BY <1>7
<1> HIDE DEF s, p
<1>9. /\ SubSeq(s, 1, b.size - Header) \in Seq(Nat)
      /\ Len(SubSeq(s, 1, b.size - Header)) = b.size - Header
      /\ \A k \in 1 .. b.size - Header : SubSeq(s, 1, b.size - Header)[k] = s[k]
  <2>1. 1 \in Int /\ b.size - Header \in Int /\ \A k \in 1 .. b.size - Header : s[k] \in Nat
    BY <1>6, <1>8
  <2>2. /\ SubSeq(s, 1, b.size - Header) \in Seq(Nat)
        /\ Len(SubSeq(s, 1, b.size - Header)) =
             IF 1 <= b.size - Header THEN b.size - Header - 1 + 1 ELSE 0
        /\ \A k \in 1 .. b.size - Header - 1 + 1 :
              SubSeq(s, 1, b.size - Header)[k] = s[1 + k - 1]
    BY <2>1, SubSeqProperties
  <2> QED
    BY <2>2, <1>6
<1> QED
  BY <1>1, <1>2, <1>3, <1>4, <1>5, <1>8, <1>9 DEF p

LEMMA PointersLemma ==
    ASSUME NEW h \in Heaps
    PROVE  Pointers(h) = {Pointer(b) : b \in Used(h)}
BY HeapsLemma DEF Pointers, Pointer, Used

\* Two used blocks are apart; two blocks that are apart have different pointers.
LEMMA ApartLemma ==
    ASSUME NEW h \in Heaps, Separate(h), NEW b \in Used(h), NEW c \in Used(h), b # c
    PROVE  Disjoint(b, c)
BY HeapsLemma DEF Used, Separate, Apart

LEMMA PointersDiffer ==
    ASSUME NEW b \in Block, NEW c \in Block, Disjoint(b, c)
    PROVE  /\ Pointer(b) # Pointer(c)
           /\ \A a \in Extent(b) : a \notin Extent(c)
BY BlockLemma, HeapAssumption DEF Pointer, Disjoint, Extent

\* Claiming adds one block to the used ones.
LEMMA ClaimUsed ==
    ASSUME NEW h \in Heaps, Separate(h), NEW size \in Nat \ {0}, ClaimIndex(h.free, size) # 0
    PROVE  /\ ClaimBlock(h, size) \in Heaps /\ Separate(ClaimBlock(h, size))
           /\ Used(ClaimBlock(h, size)) = Used(h) \cup {Claimed(h, size)}
           /\ Claimed(h, size) \in Block /\ InHeap(Claimed(h, size))
           /\ Claimed(h, size).size = size
           /\ \A b \in Used(h) : b \in Block /\ Disjoint(Claimed(h, size), b)
<1> DEFINE c == Claimed(h, size)
           g == ClaimBlock(h, size)
<1>1. /\ c \in Block /\ InHeap(c) /\ g \in Heaps /\ Separate(g)
      /\ \A j \in 1 .. Len(h.used) : Disjoint(c, h.used[j])
      /\ Len(g.used) = Len(h.used) + 1
      /\ g.used[1] = c
      /\ \A j \in 2 .. Len(h.used) + 1 : g.used[j] = h.used[j - 1]
      /\ \A j \in 1 .. Len(h.used) : g.used[j + 1] = h.used[j]
  BY ClaimLemma
<1>2. c.size = size
  BY DEF Claimed
<1> HIDE DEF c, g
<1>3. ASSUME NEW b \in Used(g)
      PROVE  b \in Used(h) \cup {c}
  <2>1. PICK j \in 1 .. Len(g.used) : b = g.used[j]
    BY DEF Used
  <2>2. j = 1 \/ (j \in 2 .. Len(h.used) + 1 /\ j - 1 \in 1 .. Len(h.used))
    BY <1>1, HeapsLemma
  <2> QED
    BY <1>1, <2>1, <2>2 DEF Used
<1>4. ASSUME NEW b \in Used(h) \cup {c}
      PROVE  b \in Used(g)
  <2>1. 1 \in 1 .. Len(g.used) /\ \A j \in 1 .. Len(h.used) : j + 1 \in 1 .. Len(g.used)
    BY <1>1, HeapsLemma
  <2>2. CASE b = c
    BY <1>1, <2>1, <2>2 DEF Used
  <2>3. CASE b \in Used(h)
    <3>1. PICK j \in 1 .. Len(h.used) : b = h.used[j]
      BY <2>3 DEF Used
    <3>2. b = g.used[j + 1]
      BY <1>1, <3>1
    <3> QED
      BY <2>1, <3>2 DEF Used
  <2> QED
    BY <2>2, <2>3
<1> QED
  BY <1>1, <1>2, <1>3, <1>4, HeapsLemma DEF Used, c, g

\* Freeing takes the block that is found from the used ones.
LEMMA FreeUsed ==
    ASSUME NEW h \in Heaps, Separate(h), NEW b \in Used(h)
    PROVE  /\ FreeBlock(h, b.start) \in Heaps /\ Separate(FreeBlock(h, b.start))
           /\ Used(FreeBlock(h, b.start)) = Used(h) \ {b}
<1>1. PICK i \in 1 .. Len(h.used) : b = h.used[i]
  BY DEF Used
<1>2. FindBlock(h, b.start) = i
  BY <1>1, PlaceLemma
<1> DEFINE g == FreeBlock(h, b.start)
<1>3. g \in Heaps /\ Separate(g)
  BY <1>2, FreeLemma
<1>4. g.used = RemoveAt(h.used, i) /\ h.used \in Seq(Block)
  BY <1>2, HeapsLemma DEF FreeBlock
<1> HIDE DEF g
<1>5. /\ Len(g.used) = Len(h.used) - 1
      /\ \A j \in 1 .. Len(h.used) - 1 : g.used[j] = IF j < i THEN h.used[j] ELSE h.used[j + 1]
  BY <1>4, RemoveAtLemma
<1>6. \A j \in 1 .. Len(h.used) : j # i => h.used[j] # b
  <2> SUFFICES ASSUME NEW j \in 1 .. Len(h.used), j # i, h.used[j] = b
               PROVE  FALSE
    OBVIOUS
  <2> QED
    BY <1>2, PlaceLemma
<1>7. ASSUME NEW c \in Used(g)
      PROVE  c \in Used(h) \ {b}
  <2>1. PICK j \in 1 .. Len(g.used) : c = g.used[j]
    BY DEF Used
  <2>2. PICK k \in 1 .. Len(h.used) : k # i /\ c = h.used[k]
    BY <1>1, <1>5, <2>1, HeapsLemma
  <2> QED
    BY <1>6, <2>2 DEF Used
<1>8. ASSUME NEW c \in Used(h) \ {b}
      PROVE  c \in Used(g)
  <2>1. PICK k \in 1 .. Len(h.used) : c = h.used[k]
    BY DEF Used
  <2>2. k # i
    BY <1>1, <2>1
  <2>3. CASE k < i
    <3>1. k \in 1 .. Len(h.used) - 1
      BY <1>1, <2>3, HeapsLemma
    <3> QED
      BY <1>5, <2>1, <2>3, <3>1 DEF Used
  <2>4. CASE k > i
    <3>1. k - 1 \in 1 .. Len(h.used) - 1 /\ ~ (k - 1 < i) /\ k - 1 + 1 = k
      BY <1>1, <2>4, HeapsLemma
    <3> QED
      BY <1>5, <2>1, <3>1 DEF Used
  <2> QED
    BY <2>2, <2>3, <2>4, HeapsLemma
<1> QED
  BY <1>3, <1>7, <1>8 DEF g

\* An object stays what it is while its block is used and its words are kept.
LEMMA SameObject ==
    ASSUME NEW h \in Heaps, Separate(h), NEW m \in [Addr -> Nat],
           NEW g \in Heaps, Separate(g), NEW n \in [Addr -> Nat],
           NEW b \in Used(h), b \in Used(g),
           \A a \in Extent(b) : n[a] = m[a]
    PROVE  ObjectsOf(g, n)[Pointer(b)] = ObjectsOf(h, m)[Pointer(b)]
<1> DEFINE p == Pointer(b)
<1>1. /\ p \in Pointers(h) /\ p \in Pointers(g) /\ b \in Block
      /\ Words(h, m, p) \in Seq(Nat) /\ Words(g, n, p) \in Seq(Nat)
      /\ Len(Words(h, m, p)) = b.size - Header
      /\ Len(Words(g, n, p)) = b.size - Header
      /\ \A k \in 1 .. b.size - Header : Words(h, m, p)[k] = m[b.start + k]
      /\ \A k \in 1 .. b.size - Header : Words(g, n, p)[k] = n[b.start + k]
  BY ObjectLemma
<1>2. p - Header = b.start /\ b.start \in Extent(b)
  BY <1>1, BlockLemma, HeapAssumption DEF Pointer, Extent
<1>3. \A k \in 1 .. b.size - Header : b.start + k \in Extent(b)
  <2>1. PICK x \in Nat, z \in Nat : x = b.start /\ z = b.size
    BY <1>1, BlockLemma
  <2>2. \A k \in 1 .. z - 1 : x + k \in x .. x + z - 1
    OBVIOUS
  <2> QED
    BY <2>1, <2>2, HeapAssumption DEF Extent
<1> HIDE DEF p
<1>4. Words(g, n, p) = Words(h, m, p)
  BY <1>1, <1>3, SeqEqual
<1> QED
  BY <1>1, <1>2, <1>4 DEF ObjectsOf, p

\* The words of an object are those past its header.
LEMMA SameWords ==
    ASSUME NEW h \in Heaps, Separate(h), NEW m \in [Addr -> Nat],
           NEW n \in [Addr -> Nat], NEW b \in Used(h),
           \A k \in 1 .. b.size - Header : n[b.start + k] = m[b.start + k]
    PROVE  Words(h, n, Pointer(b)) = Words(h, m, Pointer(b))
<1> DEFINE s == Words(h, m, Pointer(b))
           t == Words(h, n, Pointer(b))
<1>1. /\ s \in Seq(Nat) /\ Len(s) = b.size - Header
      /\ \A k \in 1 .. b.size - Header : s[k] = m[b.start + k]
  BY ObjectLemma
<1>2. /\ t \in Seq(Nat) /\ Len(t) = b.size - Header
      /\ \A k \in 1 .. b.size - Header : t[k] = n[b.start + k]
  BY ObjectLemma
<1> HIDE DEF s, t
<1>3. t = s
  BY <1>1, <1>2, SeqEqual
<1> QED
  BY <1>3 DEF s, t

-----------------------------------------------------------------------------
(* Steps *)

\* What every step starts from.
LEMMA StateLemma ==
    ASSUME IInv
    PROVE  /\ heap \in Heaps /\ Separate(heap) /\ mem \in [Addr -> Nat]
           /\ \A p \in Live : \E b \in Used(heap) :
                /\ p = Pointer(b) /\ b \in Block /\ UsedBlock(p) = b
                /\ p - Header = b.start
                /\ RefCount(p) \in 1 .. MaxRefs
<1>1. heap \in Heaps /\ Separate(heap) /\ mem \in [Addr -> Nat]
  BY DEF IInv, TypeOK, NoOverlap
<1>2. ASSUME NEW p \in Live
      PROVE  \E b \in Used(heap) : /\ p = Pointer(b) /\ b \in Block /\ UsedBlock(p) = b
                                   /\ p - Header = b.start
                                   /\ RefCount(p) \in 1 .. MaxRefs
  <2>1. PICK b \in Used(heap) : p = Pointer(b)
    BY <1>1, PointersLemma, MappedLemma
  <2>2. b \in Block /\ BlockAt(heap, p) = b
    BY <1>1, <2>1, ObjectLemma
  <2>3. p - Header = b.start
    BY <2>1, <2>2, BlockLemma, HeapAssumption DEF Pointer
  <2> QED
    BY <2>1, <2>2, <2>3, HeaderLemma DEF BlockAt, UsedBlock
<1> QED
  BY <1>1, <1>2

\* A block that is claimed is an object nobody had; its contents are any words.
LEMMA NewObject ==
    ASSUME IInv, NEW n \in Sizes, ClaimIndex(heap.free, n + Header) # 0
    PROVE  LET c == Claimed(heap, n + Header)
           IN  /\ c \in Block
               /\ Pointer(c) \in Addr \ Live
<1> DEFINE c == Claimed(heap, n + Header)
<1>1. n + Header \in Nat \ {0} /\ n + Header >= 2 /\ Header = 1
  BY HeapAssumption
<1>2. heap \in Heaps /\ Separate(heap)
  BY StateLemma
<1>3. /\ c \in Block /\ InHeap(c) /\ c.size = n + Header
      /\ \A b \in Used(heap) : b \in Block /\ Disjoint(c, b)
  BY <1>1, <1>2, ClaimUsed
<1> HIDE DEF c
<1>4. Pointer(c) \in Addr
  BY <1>1, <1>3, BlockLemma, HeapAssumption DEF Pointer, Addr, InHeap
<1>5. \A b \in Used(heap) : Pointer(b) # Pointer(c)
  BY <1>3, PointersDiffer
<1>6. Pointer(c) \notin Live
  BY <1>2, <1>5, PointersLemma, MappedLemma
<1> QED
  BY <1>3, <1>4, <1>6 DEF c

LEMMA AllocStep ==
    ASSUME IInv, IInv', NEW n \in Sizes, Alloc(n)
    PROVE  Objects!Alloc
<1> DEFINE c == Claimed(heap, n + Header)
           q == Pointer(c)
<1>1. n + Header \in Nat \ {0} /\ Header = 1 /\ ClaimIndex(heap.free, n + Header) # 0
  BY HeapAssumption DEF Alloc
<1>2. /\ heap \in Heaps /\ Separate(heap) /\ mem \in [Addr -> Nat]
      /\ heap' \in Heaps /\ Separate(heap') /\ mem' \in [Addr -> Nat]
  BY DEF IInv, TypeOK, NoOverlap
<1>3. /\ Used(heap') = Used(heap) \cup {c}
      /\ c \in Block
      /\ \A b \in Used(heap) : b \in Block /\ Disjoint(c, b)
  BY <1>1, <1>2, ClaimUsed DEF Alloc
<1>4. mem' = [mem EXCEPT ![c.start] = 1] /\ eflag' = eflag
  BY DEF Alloc
<1>5. q \in Addr \ Live
  BY <1>1, NewObject
<1> HIDE DEF c
<1>6. Live' = Live \cup {q}
  BY <1>2, <1>3, PointersLemma, MappedLemma
<1>7. Mapped'[q].refs = 1 /\ Mapped'[q].data \in Seq(Nat)
  <2>1. q \in Pointers(heap') /\ Words(heap', mem', q) \in Seq(Nat)
    BY <1>2, <1>3, ObjectLemma
  <2>2. q - Header = c.start /\ c.start \in Addr
    BY <1>3, BlockLemma, HeapAssumption DEF Pointer, Block
  <2>3. mem'[c.start] = 1
    BY <1>2, <1>4, <2>2
  <2> QED
    BY <2>1, <2>2, <2>3, MappedLemma DEF ObjectsOf
<1>8. ASSUME NEW p \in Live
      PROVE  p \in Live' /\ Mapped'[p] = Mapped[p]
  <2>1. PICK b \in Used(heap) : p = Pointer(b)
    BY StateLemma
  <2>2. b \in Block /\ Disjoint(c, b) /\ b \in Used(heap')
    BY <1>3
  <2>3. c.start \notin Extent(b)
    BY <1>3, <2>2, BlockLemma DEF Disjoint, Extent
  <2>4. \A a \in Extent(b) : mem'[a] = mem[a]
    BY <1>2, <1>4, <2>3
  <2> QED
    BY <1>2, <1>6, <2>1, <2>2, <2>4, SameObject, MappedLemma
<1> QED
  BY <1>4, <1>5, <1>6, <1>7, <1>8 DEF Objects!Alloc, Objects!Live, Objects!Untouched, Mapped

\* A store in a used block changes that object only.
LEMMA OtherObjects ==
    ASSUME IInv, IInv', heap' = heap, NEW b \in Used(heap), NEW a \in Extent(b),
           \A x \in Addr \ {a} : mem'[x] = mem[x]
    PROVE  /\ Live' = Live
           /\ \A p \in Live \ {Pointer(b)} : Mapped'[p] = Mapped[p]
<1>1. /\ heap \in Heaps /\ Separate(heap) /\ mem \in [Addr -> Nat] /\ mem' \in [Addr -> Nat]
  BY DEF IInv, TypeOK, NoOverlap
<1>2. Live' = Live
  BY MappedLemma
<1>3. ASSUME NEW p \in Live \ {Pointer(b)}
      PROVE  Mapped'[p] = Mapped[p]
  <2>1. PICK c \in Used(heap) : p = Pointer(c) /\ c \in Block
    BY StateLemma
  <2>2. c # b /\ Disjoint(b, c) /\ b \in Block
    BY <1>1, <1>3, <2>1, ApartLemma, ObjectLemma
  <2>3. a \notin Extent(c) /\ \A x \in Extent(c) : x \in Addr
    <3>1. InHeap(c)
      BY <1>1, ObjectLemma
    <3> QED
      BY <2>1, <2>2, <3>1, PointersDiffer, BlockLemma, HeapAssumption DEF Extent, InHeap, Addr
  <2>4. \A x \in Extent(c) : mem'[x] = mem[x]
    BY <2>3
  <2> QED
    BY <1>1, <2>1, <2>4, SameObject, MappedLemma
<1> QED
  BY <1>2, <1>3

\* A count that changes is the count of the object, and its words are kept.
LEMMA CountStep ==
    ASSUME IInv, IInv', heap' = heap, NEW p \in Live, NEW w \in Nat,
           mem' = [mem EXCEPT ![p - Header] = w]
    PROVE  Mapped' = [Mapped EXCEPT ![p].refs = w]
<1>1. /\ heap \in Heaps /\ Separate(heap) /\ mem \in [Addr -> Nat] /\ mem' \in [Addr -> Nat]
  BY DEF IInv, TypeOK, NoOverlap
<1>2. PICK b \in Used(heap) : p = Pointer(b) /\ b \in Block /\ p - Header = b.start
  BY StateLemma
<1>3. b.start \in Extent(b) /\ b.start \in Addr
  BY <1>2, BlockLemma DEF Extent, Block
<1>4. Live' = Live /\ \A q \in Live \ {p} : Mapped'[q] = Mapped[q]
  BY <1>1, <1>2, <1>3, OtherObjects
<1>5. Mapped'[p].refs = w
  BY <1>1, <1>2, <1>3, <1>4, MappedLemma DEF ObjectsOf
<1>6. Words(heap', mem', p) = Words(heap, mem, p)
  <2>1. \A k \in 1 .. b.size - Header : b.start + k # b.start /\ b.start + k \in Addr
    <3>1. InHeap(b)
      BY <1>1, ObjectLemma
    <3> QED
      BY <1>2, <3>1, BlockLemma, HeapAssumption DEF InHeap, Addr
  <2>2. \A k \in 1 .. b.size - Header : mem'[b.start + k] = mem[b.start + k]
    BY <1>1, <1>2, <2>1
  <2>3. Words(heap, mem', Pointer(b)) = Words(heap, mem, Pointer(b))
    BY <1>1, <2>2, SameWords
  <2> QED
    BY <1>2, <2>3
<1>7. Mapped'[p] = [Mapped[p] EXCEPT !.refs = w]
  BY <1>4, <1>5, <1>6, MappedLemma DEF ObjectsOf
<1>8. Mapped' = [q \in Live |-> Mapped'[q]] /\ DOMAIN Mapped = Live
  BY <1>4 DEF Mapped
<1> QED
  BY <1>4, <1>7, <1>8

LEMMA RefStep ==
    ASSUME IInv, IInv', NEW p \in Live, Ref(p)
    PROVE  Objects!Ref
<1>1. RefCount(p) \in Nat /\ RefCount(p) + 1 \in Nat
  BY StateLemma, HeapAssumption
<1>2. Mapped' = [Mapped EXCEPT ![p].refs = RefCount(p) + 1]
  BY <1>1, CountStep DEF Ref, RefCount
<1>3. Mapped[p].refs = RefCount(p)
  BY DEF Mapped
<1> QED
  BY <1>2, <1>3 DEF Objects!Ref, Objects!Live, Mapped, Ref

LEMMA DerefSharedStep ==
    ASSUME IInv, IInv', NEW p \in Live, DerefShared(p)
    PROVE  Objects!Deref
<1>1. RefCount(p) > 1 /\ RefCount(p) - 1 \in Nat
  BY StateLemma, HeapAssumption DEF DerefShared
<1>2. Mapped' = [Mapped EXCEPT ![p].refs = RefCount(p) - 1]
  BY <1>1, CountStep DEF DerefShared, RefCount
<1>3. Mapped[p].refs = RefCount(p)
  BY DEF Mapped
<1> QED
  BY <1>1, <1>2, <1>3 DEF Objects!Deref, Objects!Live, Mapped, DerefShared

\* A block that is freed is no object any more, and no other object sees it.
LEMMA FreedObjects ==
    ASSUME NEW h \in Heaps, Separate(h), NEW m \in [Addr -> Nat], NEW b \in Used(h)
    PROVE  LET g == FreeBlock(h, b.start)
           IN  /\ Pointers(g) = Pointers(h) \ {Pointer(b)}
               /\ \A p \in Pointers(g) : ObjectsOf(g, m)[p] = ObjectsOf(h, m)[p]
<1> DEFINE g == FreeBlock(h, b.start)
<1>1. g \in Heaps /\ Separate(g) /\ Used(g) = Used(h) \ {b}
  BY FreeUsed
<1> HIDE DEF g
<1>2. \A c \in Used(h) \ {b} : Pointer(c) # Pointer(b)
  BY ApartLemma, PointersDiffer, ObjectLemma
<1>3. Pointers(g) = Pointers(h) \ {Pointer(b)}
  BY <1>1, <1>2, PointersLemma
<1>4. ASSUME NEW p \in Pointers(g)
      PROVE  ObjectsOf(g, m)[p] = ObjectsOf(h, m)[p]
  <2>1. PICK c \in Used(g) : p = Pointer(c)
    BY <1>1, PointersLemma
  <2> QED
    BY <1>1, <2>1, SameObject
<1> QED
  BY <1>3, <1>4 DEF g

LEMMA DerefLastStep ==
    ASSUME IInv, IInv', NEW p \in Live, DerefLast(p)
    PROVE  Objects!Deref
<1>1. /\ heap \in Heaps /\ Separate(heap) /\ mem \in [Addr -> Nat]
  BY DEF IInv, TypeOK, NoOverlap
<1>2. PICK b \in Used(heap) : p = Pointer(b) /\ p - Header = b.start
  BY StateLemma
<1>3. heap' = FreeBlock(heap, b.start) /\ mem' = mem /\ eflag' = eflag /\ RefCount(p) = 1
  BY <1>2 DEF DerefLast
<1>4. /\ Live' = Live \ {p}
      /\ \A q \in Live' : Mapped'[q] = Mapped[q]
  BY <1>1, <1>2, <1>3, FreedObjects, MappedLemma
<1>5. Mapped' = [q \in Live \ {p} |-> Mapped[q]]
  BY <1>4 DEF Mapped
<1>6. Mapped[p].refs = 1
  BY <1>3 DEF Mapped
<1>7. Objects!Live = Live
  BY ObjectsLive
<1>8. Mapped' = IF Mapped[p].refs > 1 THEN [Mapped EXCEPT ![p].refs = @ - 1]
                ELSE [q \in Objects!Live \ {p} |-> Mapped[q]]
  BY <1>5, <1>6, <1>7
<1> QED
  BY <1>3, <1>7, <1>8 DEF Objects!Deref, Mapped

\* The new block is claimed, the old one with its header is copied into it, and
\* the old one is freed: an object nobody shared has moved.
LEMMA ReallocStep ==
    ASSUME IInv, IInv', NEW p \in Live, NEW n \in Sizes, Realloc(p, n),
           n + Header >= UsedBlock(p).size
    PROVE  Objects!Realloc
<1> DEFINE c == Claimed(heap, n + Header)
           q == Pointer(c)
           h == ClaimBlock(heap, n + Header)
<1>1. n + Header \in Nat \ {0} /\ Header = 1 /\ ClaimIndex(heap.free, n + Header) # 0
  BY HeapAssumption DEF Realloc
<1>2. /\ heap \in Heaps /\ Separate(heap) /\ mem \in [Addr -> Nat]
      /\ heap' \in Heaps /\ Separate(heap') /\ mem' \in [Addr -> Nat]
  BY DEF IInv, TypeOK, NoOverlap
<1>3. PICK b \in Used(heap) : p = Pointer(b) /\ b \in Block /\ UsedBlock(p) = b /\ p - Header = b.start
  BY StateLemma
<1>4. /\ h \in Heaps /\ Separate(h)
      /\ Used(h) = Used(heap) \cup {c}
      /\ c \in Block /\ c.size = n + Header
      /\ \A d \in Used(heap) : d \in Block /\ Disjoint(c, d)
  BY <1>1, <1>2, ClaimUsed
<1>5. q \in Addr \ Live
  BY <1>1, NewObject
<1>6. /\ heap' = FreeBlock(h, b.start)
      /\ mem' = [a \in Addr |->
                   IF a \in c.start .. c.start + b.size - 1
                     THEN mem[b.start + (a - c.start)]
                     ELSE mem[a]]
      /\ eflag' = eflag /\ RefCount(p) = 1 /\ c.size >= b.size
  <2>1. heap' = FreeBlock(h, b.start) /\ mem' = Copied(b, c)
    BY <1>3, ReallocIInv
  <2>2. eflag' = eflag /\ RefCount(p) = 1
    BY DEF Realloc
  <2> QED
    BY <1>3, <1>4, <2>1, <2>2 DEF Copied
<1> HIDE DEF c, h
<1>7. Used(heap') = (Used(heap) \ {b}) \cup {c} /\ c # b
  <2>1. c # b
    BY <1>3, <1>4, BlockLemma DEF Disjoint
  <2> QED
    BY <1>4, <1>6, <2>1, FreeUsed
<1>8. Live' = (Live \ {p}) \cup {q}
  <2>1. \A d \in Used(heap) \ {b} : Pointer(d) # p
    <3> SUFFICES ASSUME NEW d \in Used(heap), d # b
                 PROVE  Pointer(d) # p
      OBVIOUS
    <3>1. d \in Block /\ b \in Block /\ Disjoint(d, b)
      BY <1>2, <1>3, ApartLemma, ObjectLemma
    <3> QED
      BY <1>3, <3>1, PointersDiffer
  <2>2. Live = {Pointer(d) : d \in Used(heap)} /\ Live' = {Pointer(d) : d \in Used(heap')}
    BY <1>2, PointersLemma, MappedLemma
  <2>3. p # q
    BY <1>5
  <2> QED
    BY <1>3, <1>7, <2>1, <2>2, <2>3
\* The words of the new block that are copied are those of the old one.
<1>9. \A k \in 0 .. b.size - 1 : c.start + k \in Addr /\ mem'[c.start + k] = mem[b.start + k]
  <2> SUFFICES ASSUME NEW k \in 0 .. b.size - 1
               PROVE  c.start + k \in Addr /\ mem'[c.start + k] = mem[b.start + k]
    OBVIOUS
  <2>1. InHeap(c)
    BY <1>2, <1>7, ObjectLemma
  <2>2. /\ b.start \in Nat /\ b.size \in Nat /\ c.start \in Nat /\ c.size \in Nat
        /\ HeapStart \in Nat /\ HeapSize \in Nat /\ HeapStart <= c.start
        /\ c.start + c.size <= HeapStart + HeapSize
    BY <1>3, <1>4, <2>1, BlockLemma, HeapAssumption DEF InHeap
  <2>3. b.size <= c.size
    BY <1>4, <1>6
  <2>4. c.start + k \in Addr
    BY <2>2, <2>3 DEF Addr
  <2>5. /\ c.start + k \in c.start .. c.start + b.size - 1
        /\ b.start + ((c.start + k) - c.start) = b.start + k
    BY <2>2
  <2> QED
    BY <1>6, <2>4, <2>5
<1>10. /\ q \in Pointers(heap')
       /\ Mapped'[q].data \in Seq(Nat)
       /\ Len(Mapped'[q].data) = c.size - Header
       /\ \A k \in 1 .. c.size - Header : Mapped'[q].data[k] = mem'[c.start + k]
  <2>1. /\ q \in Pointers(heap')
        /\ Words(heap', mem', q) \in Seq(Nat)
        /\ Len(Words(heap', mem', q)) = c.size - Header
        /\ \A k \in 1 .. c.size - Header : Words(heap', mem', q)[k] = mem'[c.start + k]
    <3>1. c \in Used(heap')
      BY <1>7
    <3> QED
      BY <1>2, <3>1, ObjectLemma
  <2>2. Mapped'[q].data = Words(heap', mem', q)
    BY <2>1, MappedLemma DEF ObjectsOf
  <2> QED
    BY <2>1, <2>2
<1>11. Mapped[p].refs = 1 /\ Mapped'[q].refs = 1
  <2>1. mem[b.start] = 1
    BY <1>3, <1>6 DEF RefCount
  <2>2. 0 \in 0 .. b.size - 1 /\ c.start + 0 = c.start /\ b.start + 0 = b.start
    BY <1>3, <1>4, BlockLemma
  <2>3. mem'[c.start] = 1
    BY <1>9, <2>1, <2>2
  <2>4. q - Header = c.start
    BY <1>4, BlockLemma, HeapAssumption DEF Pointer
  <2>5. Mapped'[q].refs = mem'[q - Header]
    BY <1>10, MappedLemma DEF ObjectsOf
  <2> QED
    BY <1>6, <2>3, <2>4, <2>5 DEF Mapped
<1>12. IsPrefix(Mapped[p].data, Mapped'[q].data)
  <2>1. /\ Words(heap, mem, p) \in Seq(Nat)
        /\ Len(Words(heap, mem, p)) = b.size - Header
        /\ \A k \in 1 .. b.size - Header : Words(heap, mem, p)[k] = mem[b.start + k]
        /\ p \in Pointers(heap)
    BY <1>2, <1>3, ObjectLemma
  <2>2. Mapped[p].data = Words(heap, mem, p)
    BY <2>1, MappedLemma DEF ObjectsOf
  <2>3. \A k \in 1 .. b.size - Header : Mapped'[q].data[k] = Mapped[p].data[k]
    <3>1. \A k \in 1 .. b.size - Header : k \in 0 .. b.size - 1 /\ k \in 1 .. c.size - Header
      BY <1>3, <1>4, <1>6, BlockLemma, HeapAssumption
    <3> QED
      BY <1>9, <1>10, <2>1, <2>2, <3>1
  <2>4. b.size - Header <= c.size - Header /\ b.size - Header \in Nat /\ c.size - Header \in Nat
    BY <1>3, <1>4, <1>6, BlockLemma, HeapAssumption
  <2>5. SubSeq(Mapped'[q].data, 1, b.size - Header) = Mapped[p].data
    <3> DEFINE s == SubSeq(Mapped'[q].data, 1, b.size - Header)
    <3>1. \A k \in 1 .. b.size - Header : Mapped'[q].data[k] \in Nat
      <4>1. \A k \in 1 .. b.size - Header : k \in 1 .. Len(Mapped'[q].data)
        BY <1>10, <2>4
      <4> QED
        BY <1>10, <4>1, ElementOfSeq
    <3>2. /\ s \in Seq(Nat)
          /\ Len(s) = IF 1 <= b.size - Header THEN b.size - Header - 1 + 1 ELSE 0
          /\ \A k \in 1 .. b.size - Header - 1 + 1 : s[k] = Mapped'[q].data[1 + k - 1]
      BY <2>4, <3>1, SubSeqProperties
    <3>3. Len(s) = b.size - Header /\ \A k \in 1 .. b.size - Header : s[k] = Mapped'[q].data[k]
      BY <2>4, <3>2
    <3> HIDE DEF s
    <3>4. s = Mapped[p].data
      BY <2>1, <2>2, <2>3, <3>2, <3>3, SeqEqual
    <3> QED
      BY <3>4 DEF s
  <2> QED
    BY <1>10, <2>1, <2>2, <2>4, <2>5 DEF IsPrefix
<1>13. ASSUME NEW x \in Live \ {p}
       PROVE  x \in Live' /\ Mapped'[x] = Mapped[x]
  <2>1. PICK d \in Used(heap) : x = Pointer(d)
    BY StateLemma
  <2>2. d # b /\ d \in Used(heap') /\ d \in Block /\ Disjoint(c, d) /\ InHeap(d)
    BY <1>2, <1>3, <1>4, <1>7, <1>13, <2>1, ObjectLemma
  <2>3. \A a \in Extent(d) : a \in Addr /\ a \notin c.start .. c.start + b.size - 1
    <3> SUFFICES ASSUME NEW a \in Extent(d)
                 PROVE  a \in Addr /\ a \notin c.start .. c.start + b.size - 1
      OBVIOUS
    <3>1. /\ c.start \in Nat /\ c.size \in Nat /\ b.size \in Nat /\ b.size <= c.size
          /\ d.start \in Nat /\ d.size \in Nat /\ HeapStart <= d.start
          /\ HeapStart \in Nat /\ HeapSize \in Nat
      BY <1>3, <1>4, <1>6, <2>2, BlockLemma, HeapAssumption
    <3>2. /\ c.start + c.size <= d.start \/ d.start + d.size <= c.start
          /\ d.start + d.size <= HeapStart + HeapSize
      BY <2>2 DEF Disjoint, InHeap
    <3>3. a \in d.start .. d.start + d.size - 1
      BY DEF Extent
    <3>4. a \in Addr
      BY <3>1, <3>2, <3>3 DEF Addr
    <3>5. a \notin c.start .. c.start + b.size - 1
      BY <3>1, <3>2, <3>3
    <3> QED
      BY <3>4, <3>5
  <2>4. \A a \in Extent(d) : mem'[a] = mem[a]
    BY <1>6, <2>3
  <2> QED
    BY <1>2, <1>8, <2>1, <2>2, <2>4, SameObject, MappedLemma
<1> QED
  <2>1. q \in Addr \ Objects!Live /\ p \in Objects!Live
    BY <1>5, ObjectsLive
  <2>2. DOMAIN Mapped' = (Objects!Live \ {p}) \cup {q}
    BY <1>8, ObjectsLive DEF Mapped
  <2>3. Objects!Untouched({p})
    BY <1>8, <1>13, ObjectsLive DEF Objects!Untouched, Mapped
  <2>4. Objects!IsPrefix(Mapped[p].data, Mapped'[q].data)
    BY <1>12 DEF IsPrefix, Objects!IsPrefix
  <2> QED
    BY <1>6, <1>10, <1>11, <2>1, <2>2, <2>3, <2>4 DEF Objects!Realloc, Mapped

\* A store past the header is a store in the words of that object.
LEMMA WriteStep ==
    ASSUME IInv, IInv', NEW p \in Live, NEW a \in Addr, NEW w \in Word, Write(p, a, w)
    PROVE  Objects!Write
<1>1. /\ heap \in Heaps /\ Separate(heap) /\ mem \in [Addr -> Nat] /\ mem' \in [Addr -> Nat]
      /\ w \in Nat
  BY HeapAssumption DEF IInv, TypeOK, NoOverlap
<1>2. PICK b \in Used(heap) : p = Pointer(b) /\ b \in Block /\ UsedBlock(p) = b /\ p - Header = b.start
  BY StateLemma
<1>3. /\ a \in Extent(b) \ {b.start} /\ mem' = [mem EXCEPT ![a] = w]
      /\ heap' = heap /\ eflag' = eflag
  BY <1>2 DEF Write
<1>4. Live' = Live /\ \A x \in Live \ {p} : Mapped'[x] = Mapped[x]
  BY <1>1, <1>2, <1>3, OtherObjects
<1> DEFINE i == a - b.start
<1>5. i \in 1 .. b.size - Header /\ b.start + i = a
  BY <1>2, <1>3, BlockLemma, HeapAssumption DEF Extent
<1> HIDE DEF i
<1> DEFINE s == Mapped[p].data
           t == Mapped'[p].data
<1>6. /\ s \in Seq(Nat) /\ Len(s) = b.size - Header
      /\ \A k \in 1 .. b.size - Header : s[k] = mem[b.start + k]
  <2>1. /\ p \in Pointers(heap)
        /\ Words(heap, mem, p) \in Seq(Nat)
        /\ Len(Words(heap, mem, p)) = b.size - Header
        /\ \A k \in 1 .. b.size - Header : Words(heap, mem, p)[k] = mem[b.start + k]
    BY <1>1, <1>2, ObjectLemma
  <2>2. s = Words(heap, mem, p)
    BY <2>1, MappedLemma DEF ObjectsOf
  <2> QED
    BY <2>1, <2>2
<1>7. /\ t \in Seq(Nat) /\ Len(t) = b.size - Header
      /\ \A k \in 1 .. b.size - Header : t[k] = mem'[b.start + k]
  <2>1. /\ p \in Pointers(heap)
        /\ Words(heap, mem', p) \in Seq(Nat)
        /\ Len(Words(heap, mem', p)) = b.size - Header
        /\ \A k \in 1 .. b.size - Header : Words(heap, mem', p)[k] = mem'[b.start + k]
    BY <1>1, <1>2, ObjectLemma
  <2>2. t = Words(heap, mem', p)
    BY <1>3, <2>1, MappedLemma DEF ObjectsOf
  <2> QED
    BY <2>1, <2>2
<1>8. \A k \in 1 .. b.size - Header : b.start + k \in Addr
  <2>1. InHeap(b)
    BY <1>1, ObjectLemma
  <2> QED
    BY <1>2, <2>1, BlockLemma, HeapAssumption DEF InHeap, Addr
<1>9. t[i] = w /\ \A k \in 1 .. b.size - Header : k # i => t[k] = s[k]
  <2>1. \A k \in 1 .. b.size - Header : k # i => b.start + k # a
    BY <1>2, <1>5, BlockLemma
  <2> QED
    BY <1>1, <1>3, <1>5, <1>6, <1>7, <1>8, <2>1
<1> HIDE DEF s, t
<1>10. t = [s EXCEPT ![i] = t[i]]
  <2> DEFINE r == [s EXCEPT ![i] = w]
  <2>1. /\ r \in Seq(Nat) /\ Len(r) = Len(s)
        /\ \A k \in 1 .. Len(s) : r[k] = IF k = i THEN w ELSE s[k]
    BY <1>1, <1>5, <1>6, ExceptSeq
  <2> HIDE DEF r
  <2>2. Len(t) = Len(r) /\ \A k \in 1 .. Len(t) : t[k] = r[k]
    BY <1>6, <1>7, <1>9, <2>1
  <2>3. t = r
    BY <1>7, <2>1, <2>2, SeqEqual
  <2> QED
    BY <1>9, <2>3 DEF r
<1>11. i \in DOMAIN s
  BY <1>5, <1>6, LenProperties
<1>12. Mapped'[p] = [Mapped[p] EXCEPT !.data[i] = t[i]]
  <2>1. Mapped'[p].refs = Mapped[p].refs
    <3>1. p - Header # a /\ p - Header \in Addr
      BY <1>2, <1>3 DEF Block
    <3> QED
      BY <1>1, <1>3, <1>4, <3>1, MappedLemma DEF ObjectsOf
  <2>2. /\ Mapped[p] = [refs |-> Mapped[p].refs, data |-> s]
        /\ Mapped'[p] = [refs |-> Mapped'[p].refs, data |-> t]
    BY <1>4, MappedLemma DEF ObjectsOf, s, t
  <2> DEFINE M == Mapped[p]
  <2>3. [M EXCEPT !.data[i] = t[i]] = [refs |-> M.refs, data |-> [s EXCEPT ![i] = t[i]]]
    BY <2>2
  <2> QED
    BY <1>10, <2>1, <2>2, <2>3
<1>13. Mapped' = [Mapped EXCEPT ![p].data[i] = t[i]]
  <2>1. Mapped' = [x \in Live |-> Mapped'[x]] /\ DOMAIN Mapped = Live
    BY <1>4 DEF Mapped
  <2> QED
    BY <1>4, <1>12, <2>1
<1>14. p \in Objects!Live \cap DOMAIN Mapped'
  BY <1>4, ObjectsLive DEF Mapped
<1>15. i \in DOMAIN Mapped[p].data /\ Mapped'[p].data[i] \in Nat
  BY <1>1, <1>9, <1>11 DEF s, t
<1>16. Mapped' = [Mapped EXCEPT ![p].data[i] = Mapped'[p].data[i]]
  BY <1>13 DEF t
<1>17. \E x \in Objects!Live \cap DOMAIN Mapped' : \E k \in DOMAIN Mapped[x].data :
         /\ Mapped'[x].data[k] \in Nat
         /\ Mapped' = [Mapped EXCEPT ![x].data[k] = Mapped'[x].data[k]]
  BY <1>14, <1>15, <1>16
<1> QED
  BY <1>3, <1>17 DEF Objects!Write, Mapped

\* Every step of the heap is a step of the objects, or they do not see it.
LEMMA NextStep == WholeBlocks /\ IInv /\ IInv' /\ [Next]_vars => [Objects!Next]_Objects!vars
<1> SUFFICES ASSUME WholeBlocks, IInv, IInv', [Next]_vars
             PROVE  [Objects!Next]_Objects!vars
  OBVIOUS
<1> USE DEF Objects!Next
<1>1. ASSUME NEW n \in Sizes, Alloc(n) PROVE Objects!Next
  BY <1>1, AllocStep
<1>2. ASSUME NEW n \in Sizes, OutOfMemory(n) PROVE Objects!Next
  BY <1>2, MappedLemma DEF OutOfMemory, Objects!OutOfMemory, Mapped
<1>3. ASSUME NEW p \in Live, Ref(p) PROVE Objects!Next
  BY <1>3, RefStep
<1>4. ASSUME NEW p \in Live, DerefShared(p) PROVE Objects!Next
  BY <1>4, DerefSharedStep
<1>5. ASSUME NEW p \in Live, DerefLast(p) PROVE Objects!Next
  BY <1>5, DerefLastStep
<1>6. ASSUME NEW p \in Live, NEW n \in Sizes, Requested(p, n) /\ Realloc(p, n) PROVE Objects!Next
  BY <1>6, ReallocStep DEF Requested
<1>7. ASSUME NEW p \in Live, NEW a \in Addr, NEW w \in Word, Write(p, a, w) PROVE Objects!Next
  BY <1>7, WriteStep
<1>8. ASSUME ClearError PROVE Objects!Next
  BY <1>8, MappedLemma DEF ClearError, Objects!ClearError, Mapped
<1>9. CASE UNCHANGED vars
  BY <1>9, MappedLemma DEF vars, Objects!vars, Mapped
<1> QED
  BY <1>1, <1>2, <1>3, <1>4, <1>5, <1>6, <1>7, <1>8, <1>9 DEF Next

-----------------------------------------------------------------------------
\* The lists and the counts in memory implement reference counted objects
\* (common/vm_heap.c and the instructions of frontend/vm.c): no ALLOC, split,
\* REALLOC or DEREF changes the count or the contents of a block the program holds
\* through another pointer, in programs that only grow references to whole blocks.
THEOREM Refinement == ASSUME WholeBlocks PROVE Spec => ImplementsObjects
<1>1. Init => Objects!Init
  <2> SUFFICES ASSUME Init
               PROVE  Objects!Init
    OBVIOUS
  <2>1. heap.used = <<>> /\ eflag = FALSE
    BY DEF Init
  <2>2. Live = {}
    BY <2>1 DEF Live
  <2> QED
    BY <2>1, <2>2 DEF Objects!Init
<1>2. IInv /\ IInv' /\ [Next]_vars => [Objects!Next]_Objects!vars
  BY NextStep
<1>3. Spec => []IInv
  BY Invariant
<1> QED
  BY <1>1, <1>2, <1>3, PTL DEF Spec, ImplementsObjects, Objects!Spec

=============================================================================
