------------------------------ MODULE Strings -------------------------------
(***************************************************************************)
(* Strings as compiled programs hold them (frontend/reference_type.c and   *)
(* string_type.c): a variable is a reference [size, heap, off] to part of  *)
(* a reference counted block.  Assignment shares the block, LEFT$, MID$    *)
(* and RIGHT$ point into it, and a statement that changes a string copies  *)
(* the block first when another reference counts on it.  The temporaries   *)
(* of the expressions keep their references until the block of statements  *)
(* ends.  vals is what the program may believe: strings are values.        *)
(*                                                                         *)
(* HaveAlloc is the capability that chooses between two ways to resize: the *)
(* REALLOC of the IR interpreter, and the free space the heap of the ARM   *)
(* back ends leaves in a block (prv_resize_with_realloc and _with_malloc). *)
(* One action is one BASIC statement.  `v = v' is in module Scopes, and    *)
(* `MID$(v, s) = v' copies characters onto themselves: both are left out.  *)
(***************************************************************************)
EXTENDS Integers, Sequences, FiniteSetsExt, SequencesExt

CONSTANTS
    Vars,           \* string variables
    Literals,       \* constants of the program
    MaxLen,         \* bound: the longest string
    Ptrs,           \* bound: addresses of blocks, which one a block gets is of no matter
    MaxTemps,       \* bound: temporaries of a block of statements
    Granule,        \* the ARM heap rounds a block up to a multiple of this
    HaveAlloc,      \* SUBTILIS_BACKEND_HAVE_ALLOC
    KeepSlices,     \* a variable may be assigned part of another's block
    SliceFirst,     \* a slice may be the first operand of +
    BothEmpty       \* the operands of + may both be variables that are empty

ASSUME StringsAssumption ==
    /\ Literals \subseteq Seq(1 .. 9) \ {<<>>}
    /\ {MaxLen, MaxTemps} \subseteq Nat /\ Granule \in Nat \ {0}
    /\ {HaveAlloc, KeepSlices, SliceFirst, BothEmpty} \subseteq BOOLEAN
    /\ IsFiniteSet(Vars \cup Ptrs) /\ (Vars \cup Ptrs) \cap Nat = {}

VARIABLES
    mem,    \* [blocks, refs, temps, pushed, fault]: see TypeOK
    vals    \* the string each variable should hold

vars == <<mem, vals>>

Temps == 1 .. MaxTemps
Slots == Vars \cup Temps
Junk == 0               \* the content of memory nobody has written
Nowhere == 0            \* the heap field of a reference nobody has written

FreeBlock == [refs |-> 0, used |-> 0, data |-> <<>>]
Empty == [size |-> 0, heap |-> Nowhere, off |-> 0]

-----------------------------------------------------------------------------
(* The memory *)

Live(m, p) == p \in Ptrs /\ m.blocks[p].refs > 0
NextBlock(m) == CHOOSE p \in Ptrs : ~Live(m, p)
Faulty(m, what) == IF m.fault = "none" THEN [m EXCEPT !.fault = what] ELSE m

\* The interpreter allocates what is asked for, the ARM heap rounds up.
Capacity(size) ==
    IF HaveAlloc THEN size ELSE ((size + Granule) \div Granule) * Granule

\* subtilis_reference_type_raw_alloc: the new block is NextBlock(m).
RawAlloc(m, size) ==
    [m EXCEPT !.blocks[NextBlock(m)] =
        [refs |-> 1, used |-> size, data |-> [i \in 1 .. Capacity(size) |-> Junk]]]

\* _deref and DEREF
CallDeref(m, p) ==
    IF Live(m, p) THEN [m EXCEPT !.blocks[p].refs = @ - 1] ELSE Faulty(m, "assert")

\* REF
CallRef(m, p) ==
    IF Live(m, p) THEN [m EXCEPT !.blocks[p].refs = @ + 1] ELSE Faulty(m, "assert")

\* The characters a reference points at; the block may just have been freed.
Text(m, ref) ==
    [i \in 1 .. ref.size |->
        IF ref.off + i \in DOMAIN m.blocks[ref.heap].data
          THEN m.blocks[ref.heap].data[ref.off + i] ELSE Junk]

\* _memcpy of the text to offset off of block p.
Memcpy(m, p, off, text) ==
    IF off + Len(text) > Len(m.blocks[p].data)
      THEN Faulty(m, "overrun")
      ELSE [m EXCEPT !.blocks[p].data =
              [i \in DOMAIN @ |-> IF i - off \in DOMAIN text THEN text[i - off] ELSE @[i]]]

SetRef(m, slot, size, heap, off) ==
    [m EXCEPT !.refs[slot] = [size |-> size, heap |-> heap, off |-> off]]

\* prv_deref: an empty string has no block.
DerefSlot(m, slot) ==
    IF m.refs[slot].size = 0 THEN m ELSE CallDeref(m, m.refs[slot].heap)

\* Mutant: the block is not referenced.
InitRefUncounted(m, slot, ref) ==
    IF ref.size = 0
      THEN [m EXCEPT !.refs[slot].size = 0]
      ELSE SetRef(m, slot, ref.size, ref.heap, ref.off)

\* subtilis_reference_type_init_ref: an empty source only sets the size.
InitRef(m, slot, ref) ==
    IF ref.size = 0
      THEN [m EXCEPT !.refs[slot].size = 0]
      ELSE SetRef(CallRef(m, ref.heap), slot, ref.size, ref.heap, ref.off)

\* Mutant: the block is not released when the new value is empty.
AssignRefLeaks(m, slot, ref) ==
    IF ref.size = 0 THEN [m EXCEPT !.refs[slot].size = 0]
    ELSE InitRef(DerefSlot(m, slot), slot, ref)

\* subtilis_reference_type_assign_ref
AssignRef(m, slot, ref) == InitRef(DerefSlot(m, slot), slot, ref)

-----------------------------------------------------------------------------
(* Copying and growing *)

(***************************************************************************)
(* subtilis_reference_type_re_malloc: a new block for the part of the old  *)
(* one the reference points at, and the old block released.                *)
(***************************************************************************)
ReMalloc(m, slot, size, allocated) ==
    LET old == m.refs[slot]
        p == NextBlock(m)
        copied == Memcpy(RawAlloc(m, allocated), p, 0, Text(m, old))
    IN  SetRef(CallDeref(copied, old.heap), slot, size, p, 0)

\* Mutant: the block is written although it is shared.
WriteInPlace(m, slot) == m

\* subtilis_reference_type_copy_on_write
CopyOnWrite(m, slot) ==
    IF m.blocks[m.refs[slot].heap].refs = 1
      THEN m
      ELSE ReMalloc(m, slot, m.refs[slot].size, m.refs[slot].size)

(***************************************************************************)
(* prv_resize_with_realloc.  REALLOC (prv_realloc of vm.c) takes the whole *)
(* old block over, its reference count included, and then releases it; the *)
(* string stays where it was in the block, at data - heap.                 *)
(***************************************************************************)
ResizeWithRealloc(m, slot, size) ==
    LET old == m.refs[slot]
        p == NextBlock(m)
        block == m.blocks[old.heap]
        moved == [RawAlloc(m, size) EXCEPT !.blocks[p].refs = block.refs]
    IN  IF ~Live(m, old.heap) THEN Faulty(m, "assert")
        ELSE SetRef(CallDeref(Memcpy(moved, p, 0, block.data), old.heap),
                    slot, size, p, old.off)

(***************************************************************************)
(* prv_resize_with_malloc.  The free space is counted from the end of the  *)
(* block's own string, wherever in the block this reference ends.          *)
(***************************************************************************)
BlockFree(m, p) == Len(m.blocks[p].data) - m.blocks[p].used

BlockAdjust(m, p, delta) == [m EXCEPT !.blocks[p].used = @ + delta]

ResizeWithMalloc(m, slot, size, allocated) ==
    LET old == m.refs[slot]
    IN  IF ~Live(m, old.heap) THEN Faulty(m, "assert")
        ELSE IF size > old.size + BlockFree(m, old.heap)
          THEN ReMalloc(m, slot, size, allocated)
          ELSE SetRef(BlockAdjust(m, old.heap, size - old.size),
                      slot, size, old.heap, old.off)

\* subtilis_reference_type_realloc
Resize(m, slot, size, allocated) ==
    IF HaveAlloc THEN ResizeWithRealloc(m, slot, size)
    ELSE ResizeWithMalloc(m, slot, size, allocated)

\* subtilis_reference_type_alloc
AllocRef(m, slot, size) == SetRef(RawAlloc(m, size), slot, size, NextBlock(m), 0)

\* subtilis_reference_type_grow, called by _ref_grow, for `more' and with room for
\* gran: += asks for no more than it needs.
Grow(m, slot, more, gran) ==
    LET old == m.refs[slot]
        size == old.size + more
    IN  IF old.size = 0 THEN SetRef(RawAlloc(m, gran), slot, size, NextBlock(m), 0)
        ELSE IF m.blocks[old.heap].refs = 1
          THEN Resize(m, slot, size, old.size + gran)
          ELSE ReMalloc(m, slot, size, old.size + gran)

WriteText(m, slot, at, text) ==
    IF m.fault # "none" THEN m
    ELSE Memcpy(m, m.refs[slot].heap, m.refs[slot].off + at, text)

-----------------------------------------------------------------------------
(* Expressions: the memory after them; the value is in a temporary *)

NextTemp(m) == m.temps + 1
Push(m, t) == [m EXCEPT !.temps = t, !.pushed = @ \cup {t}]

\* subtilis_string_init_from_ptr: an empty slice writes the size and is not
\* pushed on the cleanup stack.
SliceExp(m, ref, first, size) ==
    LET t == NextTemp(m)
    IN  IF size = 0
          THEN [m EXCEPT !.refs[t].size = 0, !.temps = t]
          ELSE Push(InitRef(m, t, [size |-> size, heap |-> ref.heap,
                                   off |-> ref.off + first]), t)

\* subtilis_string_type_add, the first operand a variable or a constant.
AddExp(m, text1, text2) ==
    LET t == NextTemp(m)
        n == Len(text1) + Len(text2)
    IN  WriteText(WriteText(Push(AllocRef(m, t, n), t), t, 0, text1),
                  t, Len(text1), text2)

\* subtilis_string_type_add, the first operand the last temporary.
AddToTemp(m, text2) ==
    LET t == m.temps
        size == m.refs[t].size
    IN  WriteText(Resize(m, t, size + Len(text2), size + Len(text2)), t, size, text2)

-----------------------------------------------------------------------------
(* Statements *)

Init ==
    /\ mem = [blocks |-> [p \in Ptrs |-> FreeBlock],
              refs |-> [s \in Slots |-> Empty],
              temps |-> 0, pushed |-> {}, fault |-> "none"]
    /\ vals = [v \in Vars |-> <<>>]

(***************************************************************************)
(* Characters no reference covers, those of free blocks included, are      *)
(* nobody's once the statement is over: they become Junk.  Nobody reads    *)
(* the other fields of an empty string.                                    *)
(***************************************************************************)
Covered(m, p) ==
    UNION {m.refs[s].off + 1 .. m.refs[s].off + m.refs[s].size :
             s \in {x \in Slots : m.refs[x].size > 0 /\ m.refs[x].heap = p}}

ScrubbedBlock(m, p) ==
    LET covered == Covered(m, p)
        data == m.blocks[p].data
    IN  [m.blocks[p] EXCEPT !.data = [i \in DOMAIN data |-> IF i \in covered THEN data[i] ELSE Junk]]

Scrubbed(m) ==
    [m EXCEPT !.blocks = [p \in Ptrs |-> IF Live(m, p) THEN ScrubbedBlock(m, p) ELSE FreeBlock],
              !.refs = [s \in Slots |-> IF m.refs[s].size = 0 THEN Empty ELSE m.refs[s]]]

Runs(v, after, value) ==
    /\ mem.fault = "none"
    /\ after.temps <= MaxTemps
    /\ mem' = Scrubbed(after)
    /\ vals' = [vals EXCEPT ![v] = value]

\* Bounds: a block for the statement, and temps + n temporaries.
Room(n) ==
    /\ \E p \in Ptrs : ~Live(mem, p)
    /\ mem.temps + n <= MaxTemps

\* A variable or a slice of it: [ref, val], first and size are in range.
Value(v) == Text(mem, mem.refs[v])

\* v = "": string_type_zero_ref; also what the end of its procedure does.
Clear(v) == Runs(v, [DerefSlot(mem, v) EXCEPT !.refs[v].size = 0], <<>>)

\* v = "literal": the old value is released, then the constant is copied.
AssignConst(v, text) ==
    /\ Room(0)
    /\ Runs(v, WriteText(AllocRef(DerefSlot(mem, v), v, Len(text)), v, 0, text), text)

\* v = w
AssignVar(v, w) ==
    /\ v # w
    /\ Runs(v, AssignRef(mem, v, mem.refs[w]), vals[w])

\* v = MID$(w, first + 1, size), LEFT$ and RIGHT$ included.
AssignSlice(v, w, first, size) ==
    /\ KeepSlices
    /\ Room(1)
    /\ first + size <= Len(vals[w])
    /\ LET m == SliceExp(mem, mem.refs[w], first, size)
       IN  Runs(v, AssignRef(m, v, m.refs[m.temps]),
                SubSeq(vals[w], first + 1, first + size))

\* v = w + x, and v = w + "literal"
AssignAdd(v, w, text) ==
    /\ Room(1)
    /\ Len(vals[w]) + Len(text) \in (IF BothEmpty THEN 0 ELSE 1) .. MaxLen
    /\ LET m == AddExp(mem, Value(w), text)
       IN  Runs(v, AssignRef(m, v, m.refs[m.temps]), vals[w] \o text)

\* v = LEFT$(w, size) + "literal"
AssignSliceAdd(v, w, size, text) ==
    /\ SliceFirst
    /\ Room(1)
    /\ size <= Len(vals[w]) /\ size + Len(text) <= MaxLen
    /\ LET m == AddToTemp(SliceExp(mem, mem.refs[w], 0, size), text)
       IN  Runs(v, AssignRef(m, v, m.refs[m.temps]), SubSeq(vals[w], 1, size) \o text)

\* v += w, w may be v: subtilis_string_type_add_eq reads the address and the
\* size of w before it grows v.
AddEq(v, w) ==
    /\ Room(0)
    /\ Len(vals[v]) + Len(vals[w]) \in (IF BothEmpty THEN 0 ELSE 1) .. MaxLen
    /\ LET n == mem.refs[w].size
           m == Grow(mem, v, n, n)
       IN  Runs(v, WriteText(m, v, mem.refs[v].size, Text(m, mem.refs[w])),
                vals[v] \o vals[w])

\* MID$(v, first) = w: prv_left_right_statement and subtilis_string_type_mid.
Overwrite(v, first, w) ==
    LET n == Min({Len(vals[w]), Len(vals[v]) - first})
    IN  /\ v # w
        /\ Room(0)
        /\ n > 0
        /\ LET text == SubSeq(Value(w), 1, n)
           IN  Runs(v, WriteText(CopyOnWrite(mem, v), v, first, text),
                    [i \in DOMAIN vals[v] |->
                        IF i - first \in 1 .. n THEN vals[w][i - first] ELSE vals[v][i]])

\* The temporaries are on the cleanup stack; each is dereferenced once, the last
\* one first.
ReleaseTemps(m) ==
    LET released[n \in 0 .. m.temps] ==
          IF n = 0 THEN m
          ELSE LET t == m.temps + 1 - n
               IN  IF t \in m.pushed THEN DerefSlot(released[n - 1], t) ELSE released[n - 1]
    IN  released[m.temps]

EndOfBlock ==
    /\ mem.temps > 0 /\ mem.fault = "none"
    /\ mem' = Scrubbed([ReleaseTemps(mem) EXCEPT
                 !.temps = 0, !.pushed = {},
                 !.refs = [s \in Slots |-> IF s \in Temps THEN Empty ELSE @[s]]])
    /\ UNCHANGED vals

Next ==
    \/ \E v \in Vars : Clear(v)
    \/ \E v \in Vars, text \in Literals : AssignConst(v, text)
    \/ \E v, w \in Vars : AssignVar(v, w)
    \/ \E v, w \in Vars, first \in 0 .. MaxLen, size \in 0 .. MaxLen :
          AssignSlice(v, w, first, size)
    \/ \E v, w \in Vars : \/ \E x \in Vars : AssignAdd(v, w, vals[x])
                          \/ \E text \in Literals : AssignAdd(v, w, text)
    \/ \E v, w \in Vars, size \in 0 .. MaxLen, text \in Literals :
          AssignSliceAdd(v, w, size, text)
    \/ \E v, w \in Vars : AddEq(v, w)
    \/ \E v, w \in Vars, first \in 0 .. MaxLen - 1 : Overwrite(v, first, w)
    \/ EndOfBlock

Spec == Init /\ [][Next]_vars

-----------------------------------------------------------------------------
(* Properties *)

Ref == [size : Nat, heap : Ptrs \cup {Nowhere}, off : Nat]

\* References and temporaries are of their types; a live block's string fits in it.
TypeOK ==
    /\ mem.refs \in [Slots -> Ref]
    /\ mem.pushed \subseteq 1 .. mem.temps /\ mem.temps \in 0 .. MaxTemps
    /\ \A p \in Ptrs : Live(mem, p) => mem.blocks[p].used \in 0 .. Len(mem.blocks[p].data)
    /\ DOMAIN vals = Vars

(***************************************************************************)
(* Strings are values: what a variable holds is what was assigned to it,   *)
(* whatever happened to the strings it shares a block with.                *)
(***************************************************************************)
ValueSemantics ==
    mem.fault = "none" => \A v \in Vars : Text(mem, mem.refs[v]) = vals[v]

Owners(p) ==
    {s \in Vars \cup mem.pushed : mem.refs[s].size > 0 /\ mem.refs[s].heap = p}

(***************************************************************************)
(* The count of a block is the number of references to it: a block is not  *)
(* released early, and none is left over when its last reference goes.     *)
(***************************************************************************)
CountsMatchReferences ==
    mem.fault = "none" =>
        \A p \in Ptrs : mem.blocks[p].refs = Cardinality(Owners(p))

\* No instruction is given a pointer that is no block, and no copy writes past the
\* end of one.
NoFault == mem.fault = "none"

(***************************************************************************)
(* What a string appends to its block never lies under a reference: the    *)
(* free space starts after the last character anybody refers to.           *)
(***************************************************************************)
FreeSpaceIsFree ==
    mem.fault = "none" =>
        \A s \in Vars \cup mem.pushed :
            mem.refs[s].size > 0 =>
                mem.refs[s].off + mem.refs[s].size <= mem.blocks[mem.refs[s].heap].used

\* No statement touches memory that is not its own.
MemorySafe == TypeOK /\ NoFault /\ FreeSpaceIsFree
=============================================================================
