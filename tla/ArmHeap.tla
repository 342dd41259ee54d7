------------------------------ MODULE ArmHeap ------------------------------
(***************************************************************************)
(* The heap of the ARM back ends: the code that arm_heap.c and the RISC OS *)
(* back end generate.  Blocks are multiples of a granule of 32 bytes and   *)
(* begin with a header of 8 bytes: the size, and the next free block.      *)
(* There is a list of free blocks for every power of two, the slots, and   *)
(* the last slot has everything that is larger.  A block is split when a   *)
(* part of it is asked for; blocks are never joined.  Behind the header    *)
(* are the reference count and the bytes in use, and then the data that    *)
(* the program's pointer shows.                                            *)
(*                                                                         *)
(* Addresses and sizes are counted in granules, requests in bytes.  What a *)
(* header has besides the size is forgotten when nobody will read it: the  *)
(* next block of a block in use, the counts of a free one.                 *)
(***************************************************************************)
EXTENDS Integers, Sequences, FiniteSetsExt, SequencesExt, TLC

CONSTANTS HeapSize,     \* granules of the heap
          MaxSlot,      \* the last slot (12)
          Word,         \* 2^32, in granules
          Sizes,        \* the bytes that are asked for
          Growths,      \* the bytes that are appended to a block
          Values,       \* what the program stores in a block
          MaxRefs,      \* bound of the references to a block
          MaxHeld       \* bound of the blocks the program holds

\* What the constants must be (arm_heap_min_size); MCHeaps assumes it.
Sizeable ==
    /\ MaxSlot \in Nat \ {0}
    /\ HeapSize \in Nat /\ HeapSize >= 2 ^ MaxSlot
    /\ Word \in Nat /\ Word >= 2 * (HeapSize + 1)
    /\ Sizes \subseteq Nat \ {0} /\ Growths \subseteq Nat \ {0}
    /\ MaxRefs \in Nat \ {0} /\ MaxHeld \in Nat \ {0}

VARIABLES slots,        \* the first free block of every slot
          mem,          \* the headers, by address
          held,         \* the blocks that the program has
          eflag         \* the error flag of the program

vars == <<slots, mem, held, eflag>>

Granule == 32
Nil == 0
Addr == 1 .. HeapSize
End == HeapSize + 1

Signed(x) == IF x >= Word \div 2 THEN x - Word ELSE x
FreeHeader(size, next) == [size |-> size, next |-> next, refs |-> 0, used |-> 0, data |-> 0]

(***************************************************************************)
(* The slot of a block: the least power of two that is not less than its   *)
(* size, found by halving the bits that may be set.                        *)
(***************************************************************************)
GetSlot(size) ==
    LET x == (size * Granule - 1) % (Word * Granule)
        Halve(acc, i) == IF acc.left >= 2 ^ (2 ^ i)
                         THEN [left |-> acc.left \div 2 ^ (2 ^ i), log |-> acc.log + 2 ^ i] ELSE acc
    IN  FoldLeft(Halve, [left |-> x, log |-> 0], <<4, 3, 2, 1, 0>>).log - 4

\* What is asked for with both headers, in whole granules.
Rounded(n) == ((n + 16 + Granule - 1) \div Granule) % Word

\* Free the block at a, of size g, into slot k.
Push(h, k, a, g) ==
    [slots |-> [h.slots EXCEPT ![k] = a], mem |-> (a :> FreeHeader(g, h.slots[k])) @@ h.mem]

(***************************************************************************)
(* What is left of a block from the last slot: one block again if it is    *)
(* large or a power of two, otherwise a block for every bit of its size.   *)
(***************************************************************************)
BitsOf(g) == SelectSeq([k \in 1 .. MaxSlot |-> MaxSlot - k], LAMBDA k : (g \div 2 ^ k) % 2 = 1)

\* Mutant: the smallest piece is forgotten.
SplitShort(h, a, g) ==
    IF GetSlot(g) >= MaxSlot THEN Push(h, MaxSlot, a, g)
    ELSE LET Piece(acc, k) == [h |-> Push(acc.h, k, acc.a, 2 ^ k), a |-> acc.a + 2 ^ k]
         IN  FoldLeft(Piece, [h |-> h, a |-> a], SelectSeq(BitsOf(g), LAMBDA k : k > 0)).h

Split(h, a, g) ==
    IF GetSlot(g) >= MaxSlot THEN Push(h, MaxSlot, a, g)
    ELSE LET Piece(acc, k) == [h |-> Push(acc.h, k, acc.a, 2 ^ k), a |-> acc.a + 2 ^ k]
         IN  FoldLeft(Piece, [h |-> h, a |-> a], BitsOf(g)).h

(***************************************************************************)
(* g granules of the first block of the last slot.  The answer has the     *)
(* block, or Nil.                                                          *)
(***************************************************************************)
Slot12Alloc(h, g) ==
    LET first == h.slots[MaxSlot]
        left == (h.mem[first].size - g) % Word
        rest == [slots |-> [h.slots EXCEPT ![MaxSlot] = h.mem[first].next], mem |-> h.mem]
        cut == Split(rest, first + g, left)
    IN  IF left = 0 THEN [h |-> rest, block |-> first]
        ELSE [h |-> [cut EXCEPT !.mem[first].size = g], block |-> first]

\* The free blocks of a slot, in order.
ListOf(h, k) ==
    LET follow[n \in 0 .. HeapSize] ==
            IF n = 0 THEN <<h.slots[k]>>
            ELSE LET before == follow[n - 1]
                     end == before[Len(before)]
                 IN  IF end \in DOMAIN h.mem THEN Append(before, h.mem[end].next) ELSE before
    IN  SelectSeq(follow[HeapSize], LAMBDA a : a # Nil)

(***************************************************************************)
(* A large block: the first of the last slot that is large enough is moved *)
(* to the head of its list, and cut.  Sizes are compared as signed words.  *)
(***************************************************************************)
MoveBlockToStart(h, prev, a) ==
    [slots |-> [h.slots EXCEPT ![MaxSlot] = a],
     mem |-> [h.mem EXCEPT ![prev].next = h.mem[a].next, ![a].next = h.slots[MaxSlot]]]

BigAlloc(h, g) ==
    LET list == ListOf(h, MaxSlot)
        i == SelectInSeq(list, LAMBDA a : Signed(h.mem[a].size) >= Signed(g))
    IN  CASE i = 0 -> [h |-> h, block |-> Nil]
          [] i = 1 -> Slot12Alloc(h, g)
          [] OTHER -> Slot12Alloc(MoveBlockToStart(h, list[i - 1], list[i]), g)

(***************************************************************************)
(* A block of the slot k when it and the last slot are empty: a block of   *)
(* the next slot that has one is halved until it is small enough.          *)
(***************************************************************************)
\* Mutant: the slot before the last is not searched.
SearchSlotsShort(h, k) ==
    LET larger == {j \in k + 1 .. MaxSlot - 2 : h.slots[j] # Nil} IN IF larger = {} THEN Nil ELSE Min(larger)

SearchSlots(h, k) ==
    LET larger == {j \in k + 1 .. MaxSlot - 1 : h.slots[j] # Nil} IN IF larger = {} THEN Nil ELSE Min(larger)

SplitSmallBlock(h, k, j) ==
    LET first == h.slots[j]
        taken == [slots |-> [h.slots EXCEPT ![j] = h.mem[first].next], mem |-> h.mem]
        Halve(acc, i) ==
            [h |-> [slots |-> [acc.h.slots EXCEPT ![i] = acc.a],
                    mem |-> (acc.a :> FreeHeader(2 ^ i, Nil)) @@ acc.h.mem],
             a |-> acc.a + 2 ^ i]
        split == FoldLeft(Halve, [h |-> taken, a |-> first], [n \in 1 .. j - k |-> j - n])
    IN  [h |-> [split.h EXCEPT !.mem = (split.a :> FreeHeader(2 ^ k, Nil)) @@ @], block |-> split.a]

(***************************************************************************)
(* subtilis_arm_heap_alloc: the slot of the size, else the last slot, else *)
(* the slots between.                                                      *)
(***************************************************************************)
HeapAlloc(h, g) ==
    LET k == GetSlot(g)
        first == h.slots[k]
        j == SearchSlots(h, k)
    IN  CASE k >= MaxSlot -> BigAlloc(h, g)
          [] k < MaxSlot /\ h.slots[k] # Nil ->
                [h |-> [slots |-> [h.slots EXCEPT ![k] = h.mem[first].next], mem |-> h.mem], block |-> first]
          [] k < MaxSlot /\ h.slots[k] = Nil /\ h.slots[MaxSlot] # Nil -> Slot12Alloc(h, 2 ^ k)
          [] k < MaxSlot /\ h.slots[k] = Nil /\ h.slots[MaxSlot] = Nil /\ j # Nil -> SplitSmallBlock(h, k, j)
          [] OTHER -> [h |-> h, block |-> Nil]

\* Mutant: a large block goes to the slot of its power of two.
HeapFreeLargeLow(h, a) ==
    LET g == h.mem[a].size
        k == Min({GetSlot(g), MaxSlot - 1})
    IN  [slots |-> [h.slots EXCEPT ![k] = a], mem |-> [h.mem EXCEPT ![a] = FreeHeader(g, h.slots[k])]]

\* subtilis_arm_heap_free
HeapFree(h, a) ==
    LET g == h.mem[a].size
        k == Min({GetSlot(g), MaxSlot})
    IN  [slots |-> [h.slots EXCEPT ![k] = a], mem |-> [h.mem EXCEPT ![a] = FreeHeader(g, h.slots[k])]]

\* subtilis_arm_heap_free_space, what HEAPFREE returns.
FreeSpace(h) ==
    FoldLeft(LAMBDA sum, a : sum + h.mem[a].size, 0, FlattenSeq([k \in 1 .. MaxSlot + 1 |-> ListOf(h, k - 1)]))

Heap == [slots |-> slots, mem |-> mem]
----------------------------------------------------------------------------
\* subtilis_arm_heap_init: the preamble puts all memory in the last slot.
Init ==
    /\ slots = [k \in 0 .. MaxSlot |-> IF k = MaxSlot THEN 1 ELSE Nil]
    /\ mem = (1 :> FreeHeader(HeapSize, Nil))
    /\ held = {}
    /\ eflag = FALSE

Become(h) == slots' = h.slots /\ mem' = h.mem

\* prv_alloc: one reference, and the bytes in use with both headers.  The bound
\* is the model's.
Alloc(n) ==
    LET got == HeapAlloc(Heap, Rounded(n))
        a == got.block
    IN  /\ Cardinality(held) < MaxHeld
        /\ a # Nil
        /\ Become([got.h EXCEPT !.mem[a] = [FreeHeader(@.size, Nil) EXCEPT !.refs = 1, !.used = n + 16]])
        /\ held' = held \union {a}
        /\ UNCHANGED eflag

\* There is none: the error flag is set and the program gets 0.
OutOfMemory(n) ==
    /\ HeapAlloc(Heap, Rounded(n)).block = Nil
    /\ eflag' = TRUE
    /\ UNCHANGED <<slots, mem, held>>

\* subtilis_riscos_arm_ref
Ref(a) ==
    /\ mem[a].refs < MaxRefs
    /\ mem' = [mem EXCEPT ![a].refs = @ + 1]
    /\ UNCHANGED <<slots, held, eflag>>

\* Mutant: the last reference but one frees the block.
DerefEarly(a) ==
    LET less == [mem EXCEPT ![a].refs = @ - 1]
    IN  /\ IF less[a].refs > 1 THEN mem' = less /\ UNCHANGED <<slots, held>>
           ELSE Become(HeapFree([slots |-> slots, mem |-> less], a)) /\ held' = held \ {a}
        /\ UNCHANGED eflag

\* prv_deref
Deref(a) ==
    LET less == [mem EXCEPT ![a].refs = @ - 1]
    IN  /\ IF less[a].refs # 0 THEN mem' = less /\ UNCHANGED <<slots, held>>
           ELSE Become(HeapFree([slots |-> slots, mem |-> less], a)) /\ held' = held \ {a}
        /\ UNCHANGED eflag

\* subtilis_riscos_arm_block_free_space: the bytes behind those in use.
BlockFreeSpace(a) == mem[a].size * Granule - mem[a].used

(***************************************************************************)
(* The program appends n bytes to a block that it does not share, if there *)
(* is room behind those in use: subtilis_riscos_arm_block_adjust.          *)
(***************************************************************************)
BlockAdjust(a, n) ==
    /\ mem[a].refs = 1 /\ BlockFreeSpace(a) >= n
    /\ mem' = [mem EXCEPT ![a].used = @ + n]
    /\ UNCHANGED <<slots, held, eflag>>

Write(a, v) ==
    /\ mem' = [mem EXCEPT ![a].data = v]
    /\ UNCHANGED <<slots, held, eflag>>

ClearError ==
    /\ eflag /\ eflag' = FALSE
    /\ UNCHANGED <<slots, mem, held>>

Next ==
    \/ \E n \in Sizes : Alloc(n) \/ OutOfMemory(n)
    \/ \E a \in held : Ref(a) \/ Deref(a)
    \/ \E a \in held, n \in Growths : BlockAdjust(a, n)
    \/ \E a \in held, v \in Values : Write(a, v)
    \/ ClearError

Spec == Init /\ [][Next]_vars
----------------------------------------------------------------------------
TypeOK ==
    /\ slots \in [0 .. MaxSlot -> Addr \union {Nil}]
    /\ DOMAIN mem \subseteq Addr /\ held \subseteq DOMAIN mem
    /\ \A a \in DOMAIN mem : mem[a].size \in 1 .. HeapSize /\ mem[a].next \in Addr \union {Nil}
    /\ eflag \in BOOLEAN

(***************************************************************************)
(* The blocks lie one behind the other, from the start of the heap to its  *)
(* end: no two overlap, and no memory is lost by splitting.                *)
(***************************************************************************)
BlocksFillHeap ==
    /\ 1 \in DOMAIN mem
    /\ \A a \in DOMAIN mem : a + mem[a].size \in DOMAIN mem \union {End}
    /\ \A a, b \in DOMAIN mem : a < b => a + mem[a].size <= b

(***************************************************************************)
(* Every block the program does not hold is in one list, once, and no list *)
(* has a block that the program holds.  The slots below the last have      *)
(* blocks of exactly their size, and the last has larger ones only: the    *)
(* code takes any block it finds there without looking at its size.        *)
(***************************************************************************)
SlotsSound ==
    /\ \A k \in 0 .. MaxSlot : LET list == ListOf(Heap, k) IN
         /\ IsInjective(list)
         /\ \A i \in DOMAIN list :
              /\ list[i] \in DOMAIN mem \ held
              /\ IF k < MaxSlot THEN mem[list[i]].size = 2 ^ k ELSE mem[list[i]].size > 2 ^ (MaxSlot - 1)
    /\ \A a \in DOMAIN mem \ held : \E k \in 0 .. MaxSlot : Contains(ListOf(Heap, k), a)

\* The bytes in use of a block, appended ones too, lie inside it.
BytesInBlock == \A a \in held : mem[a].used \in 16 .. mem[a].size * Granule

(***************************************************************************)
(* The blocks fill the heap, the lists of the slots hold exactly the free  *)
(* ones, and the program writes inside the blocks it holds.                *)
(***************************************************************************)
HeapSound == TypeOK /\ BlocksFillHeap /\ SlotsSound /\ BytesInBlock

(***************************************************************************)
(* HEAPFREE is what it was at the start exactly when the program holds no  *)
(* block (the leak check, parser.c, prv_check_free_mem).                   *)
(***************************************************************************)
LeakCheckExact == (FreeSpace(Heap) = HeapSize) <=> held = {}

(***************************************************************************)
(* A request is refused only when no free block is large enough.           *)
(***************************************************************************)
RefusedOnlyWhenFull ==
    \A n \in Sizes : HeapAlloc(Heap, Rounded(n)).block = Nil =>
        \A a \in DOMAIN mem \ held : mem[a].size < Rounded(n)

Objects == INSTANCE RefObjects WITH
    Ptr <- Addr, Word <- Values,
    objs <- [a \in held |-> [refs |-> mem[a].refs, data |-> <<mem[a].data>>]]

(***************************************************************************)
(* The slots implement the reference counted objects of RefObjects, like   *)
(* the heap of the interpreter: a program cannot tell the two apart.       *)
(***************************************************************************)
ImplementsObjects == Objects!Spec
=============================================================================
