------------------------------- MODULE VmHeap -------------------------------
(***************************************************************************)
(* The heap of the IR interpreter: common/vm_heap.c (two singly linked     *)
(* lists of blocks, newest first) and the instructions of frontend/vm.c    *)
(* that use it (ALLOC, REALLOC, REF, DEREF).  The reference count of a     *)
(* block lives in the memory the block covers: its first Header words.     *)
(* A block that is claimed is cut from the start of a free block; a block  *)
(* that is freed goes to the head of the free list and is never merged     *)
(* with its neighbours.                                                    *)
(*                                                                         *)
(* Sizes and addresses are counted in words; one word stands for the       *)
(* sizeof(size_t) bytes of a header.                                       *)
(***************************************************************************)
EXTENDS Integers, Sequences, SequencesExt

CONSTANTS
    HeapStart,  \* address of the first word of the heap
    HeapSize,   \* SUBTILIS_VM_HEAP_SIZE
    Header,     \* words of a block used by its reference count
    Sizes,      \* the sizes the program asks for
    MaxRefs,    \* bound: references the program takes to one block
    Word,       \* what the program may store in a word of a block
    WholeBlocks \* the program grows no reference to only part of its block

ASSUME HeapAssumption ==
    /\ HeapStart \in Nat
    /\ HeapSize \in Nat \ {0}
    /\ Header = 1
    /\ Sizes \subseteq Nat \ {0}
    /\ MaxRefs \in Nat \ {0}
    /\ Word \subseteq Nat
    /\ WholeBlocks \in BOOLEAN

VARIABLES
    heap,   \* subtilis_vm_heap_t: [free, used], sequences of blocks, head first
    mem,    \* vm->memory, the part the heap manages
    eflag   \* the program's error flag, vm->memory[base + eflag_offset]

vars == <<heap, mem, eflag>>

Addr == HeapStart .. HeapStart + HeapSize - 1

Block == [start : Addr, size : 1 .. HeapSize]

\* subtilis_vm_heap_t
Heaps == [free : Seq(Block), used : Seq(Block)]

Extent(b) == b.start .. b.start + b.size - 1

-----------------------------------------------------------------------------
(* common/vm_heap.c *)

(***************************************************************************)
(* subtilis_vm_heap_claim_block looks for a block of exactly this size,    *)
(* then for the first one that is large enough.  0: there is none.         *)
(***************************************************************************)
ClaimIndex(list, size) ==
    LET exact == SelectInSeq(list, LAMBDA b : b.size = size)
        large == SelectInSeq(list, LAMBDA b : b.size >= size)
    IN  IF exact # 0 THEN exact ELSE large

\* The block handed out, and the lists after it: a larger block is split.
Claimed(h, size) ==
    [start |-> h.free[ClaimIndex(h.free, size)].start, size |-> size]

\* Mutant: an exact fit leaves an empty block behind.
ClaimBlockAlwaysSplits(h, size) ==
    LET i == ClaimIndex(h.free, size)
        b == h.free[i]
    IN  [used |-> <<Claimed(h, size)>> \o h.used,
         free |-> [h.free EXCEPT ![i] =
                     [start |-> b.start + size, size |-> b.size - size]]]

\* Mutant: what is left of a split block starts where the block did.
ClaimBlockKeepsStart(h, size) ==
    LET i == ClaimIndex(h.free, size)
        b == h.free[i]
    IN  [used |-> <<Claimed(h, size)>> \o h.used,
         free |-> IF b.size = size
                    THEN RemoveAt(h.free, i)
                    ELSE [h.free EXCEPT ![i] = [b EXCEPT !.size = @ - size]]]

ClaimBlock(h, size) ==
    LET i == ClaimIndex(h.free, size)
        b == h.free[i]
    IN  [used |-> <<Claimed(h, size)>> \o h.used,
         free |-> IF b.size = size
                    THEN RemoveAt(h.free, i)
                    ELSE [h.free EXCEPT ![i] =
                            [start |-> b.start + size, size |-> b.size - size]]]

\* subtilis_vm_heap_find_block: the place of a block in the used list.
FindBlock(h, start) == SelectInSeq(h.used, LAMBDA b : b.start = start)

\* Mutant: the block is not put on the free list.
FreeBlockForgets(h, start) ==
    [h EXCEPT !.used = RemoveAt(@, FindBlock(h, start))]

\* subtilis_vm_heap_free_block
FreeBlock(h, start) ==
    LET i == FindBlock(h, start)
    IN  [used |-> RemoveAt(h.used, i), free |-> <<h.used[i]>> \o h.free]

\* The words of the blocks of a list, added up from its head.
Total(list) ==
    LET sum[i \in 0 .. Len(list)] == IF i = 0 THEN 0 ELSE sum[i - 1] + list[i].size
    IN  sum[Len(list)]

\* subtilis_vm_heap_free_space, what HEAPFREE and the leak check read.
FreeSpace(h) == Total(h.free)

-----------------------------------------------------------------------------
(* frontend/vm.c: the instructions *)

\* The pointers a program holds: just past the header of a used block.
Live == {heap.used[i].start + Header : i \in DOMAIN heap.used}

UsedBlock(p) == heap.used[FindBlock(heap, p - Header)]

RefCount(p) == mem[p - Header]

\* subitlis_vm_new: one free block, memory from calloc.
Init ==
    /\ heap = [free |-> <<[start |-> HeapStart, size |-> HeapSize]>>,
               used |-> <<>>]
    /\ mem = [a \in Addr |-> 0]
    /\ eflag = FALSE

\* No block is large enough: prv_alloc and prv_realloc only raise the flag.
OutOfMemory(n) ==
    /\ ClaimIndex(heap.free, n + Header) = 0
    /\ eflag' = TRUE
    /\ UNCHANGED <<heap, mem>>

\* prv_alloc: claim n words and a header, and write a count of 1 into it.
Alloc(n) ==
    /\ ClaimIndex(heap.free, n + Header) # 0
    /\ heap' = ClaimBlock(heap, n + Header)
    /\ mem' = [mem EXCEPT ![Claimed(heap, n + Header).start] = 1]
    /\ UNCHANGED eflag

\* prv_ref
Ref(p) ==
    /\ RefCount(p) < MaxRefs
    /\ mem' = [mem EXCEPT ![p - Header] = @ + 1]
    /\ UNCHANGED <<heap, eflag>>

\* prv_deref: a shared block loses a reference ...
DerefShared(p) ==
    /\ RefCount(p) > 1
    /\ mem' = [mem EXCEPT ![p - Header] = @ - 1]
    /\ UNCHANGED <<heap, eflag>>

\* Mutant: a shared block is freed.
DerefAlwaysFrees(p) ==
    /\ heap' = FreeBlock(heap, p - Header)
    /\ UNCHANGED <<mem, eflag>>

\* ... and the last reference frees it.
DerefLast(p) ==
    /\ RefCount(p) = 1
    /\ heap' = FreeBlock(heap, p - Header)
    /\ UNCHANGED <<mem, eflag>>

(***************************************************************************)
(* memcpy of all words of the old block to the start of the new one,       *)
(* whatever the size of the new one: a larger block runs over into the     *)
(* blocks behind it.  What would lie behind the heap belongs to the        *)
(* program's variables and is left out.                                    *)
(***************************************************************************)
Copied(old, new) ==
    [a \in Addr |-> IF a \in new.start .. new.start + old.size - 1
                      THEN mem[old.start + (a - new.start)]
                      ELSE mem[a]]

\* Mutant: the header is not copied with the contents.
ReallocLosesCount(p, n) ==
    LET old == UsedBlock(p)
        new == Claimed(heap, n + Header)
    IN  /\ RefCount(p) = 1
        /\ ClaimIndex(heap.free, n + Header) # 0
        /\ mem' = [Copied(old, new) EXCEPT ![new.start] = mem[new.start]]
        /\ heap' = FreeBlock(ClaimBlock(heap, n + Header), old.start)
        /\ UNCHANGED eflag

(***************************************************************************)
(* prv_realloc: claim the new block while the old one is still in use,     *)
(* copy the old block with its header, then prv_deref the old one, whose   *)
(* count is read after the copy; it asserts that the count is not 0.  The  *)
(* compiled program reallocates only blocks whose count GETREF found to be *)
(* 1 (subtilis_reference_type_grow).                                       *)
(***************************************************************************)
Realloc(p, n) ==
    LET old == UsedBlock(p)
        new == Claimed(heap, n + Header)
        claimed == ClaimBlock(heap, n + Header)
        copied == Copied(old, new)
    IN  /\ RefCount(p) = 1
        /\ ClaimIndex(heap.free, n + Header) # 0
        /\ copied[old.start] # 0
        /\ IF copied[old.start] = 1
              THEN heap' = FreeBlock(claimed, old.start) /\ mem' = copied
              ELSE heap' = claimed /\ mem' = [copied EXCEPT ![old.start] = @ - 1]
        /\ UNCHANGED eflag

(***************************************************************************)
(* The sizes of REALLOC.  prv_resize_with_realloc asks for the size of the *)
(* reference and what is added to it.  That is no less than the block, if  *)
(* the reference covers all of it; a slice whose string has gone does not, *)
(* nor does a vector that append has reserved elements for.                *)
(***************************************************************************)
Requested(p, n) == WholeBlocks => n + Header >= UsedBlock(p).size

\* A store by the program into a block it holds, past the header.
Write(p, a, w) ==
    /\ a \in Extent(UsedBlock(p)) \ {p - Header}
    /\ mem' = [mem EXCEPT ![a] = w]
    /\ UNCHANGED <<heap, eflag>>

\* An error handler or the end of a TRY clears the flag.
ClearError ==
    /\ eflag
    /\ eflag' = FALSE
    /\ UNCHANGED <<heap, mem>>

Next ==
    \/ \E n \in Sizes : Alloc(n) \/ OutOfMemory(n)
    \/ \E p \in Live : Ref(p) \/ DerefShared(p) \/ DerefLast(p)
    \/ \E p \in Live, n \in Sizes : Requested(p, n) /\ Realloc(p, n)
    \/ \E p \in Live, a \in Addr, w \in Word : Write(p, a, w)
    \/ ClearError

Spec == Init /\ [][Next]_vars

-----------------------------------------------------------------------------
(* Properties *)

TypeOK ==
    /\ heap \in Heaps
    /\ mem \in [Addr -> Nat]
    /\ eflag \in BOOLEAN

InHeap(b) == b.start + b.size <= HeapStart + HeapSize

Disjoint(b, c) == b.start + b.size <= c.start \/ c.start + c.size <= b.start

Apart(list) ==
    \A i, j \in DOMAIN list : i # j => Disjoint(list[i], list[j])

Separate(h) ==
    /\ Apart(h.free)
    /\ Apart(h.used)
    /\ \A i \in DOMAIN h.free, j \in DOMAIN h.used :
          Disjoint(h.free[i], h.used[j])
    /\ \A i \in DOMAIN h.free : InHeap(h.free[i])
    /\ \A j \in DOMAIN h.used : InHeap(h.used[j])

(***************************************************************************)
(* No two blocks overlap, whichever lists they are on, and no block        *)
(* reaches past the end of the heap.  Splitting, freeing and moving blocks *)
(* between the lists must never hand a word to two owners.                 *)
(***************************************************************************)
NoOverlap == Separate(heap)

(***************************************************************************)
(* The leak check of the compiled program (parser.c, prv_check_free_mem)   *)
(* compares HEAPFREE at the start and at the end: the difference is zero   *)
(* exactly when no block is in use, whatever the splits in between.        *)
(***************************************************************************)
LeakCheckExact == (FreeSpace(heap) = HeapSize) <=> (heap.used = <<>>)

(***************************************************************************)
(* The count in the header of a block in use is never 0: prv_deref and     *)
(* prv_getref assert it.  It is stored in the memory the program writes    *)
(* to, and REALLOC copies into.                                            *)
(***************************************************************************)
CountsPositive ==
    \A j \in DOMAIN heap.used : mem[heap.used[j].start] \in 1 .. MaxRefs

(***************************************************************************)
(* The refinement: every pointer the program holds is an object with the   *)
(* count in its header and the words that follow.                          *)
(***************************************************************************)
Contents(p) == SubSeq([k \in 1 .. HeapSize |->
                         IF p + k - 1 \in Addr THEN mem[p + k - 1] ELSE 0],
                      1, UsedBlock(p).size - Header)

Objects == INSTANCE RefObjects WITH
    Ptr <- Addr,
    Word <- Nat,
    objs <- [p \in Live |-> [refs |-> RefCount(p), data |-> Contents(p)]]

(***************************************************************************)
(* The lists and the counts in memory implement reference counted objects: *)
(* no ALLOC, split, REALLOC or DEREF changes the count or the contents of  *)
(* a block the program holds through another pointer.  It holds of         *)
(* programs with WholeBlocks only.                                         *)
(***************************************************************************)
ImplementsObjects == Objects!Spec
=============================================================================
