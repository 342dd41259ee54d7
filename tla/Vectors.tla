------------------------------ MODULE Vectors -------------------------------
(***************************************************************************)
(* Vectors of strings (frontend/array_type.c and array_string_type.c): a   *)
(* vector is a reference to a block of elements, which it may share with   *)
(* others, and its elements are references to strings.  The block knows    *)
(* the first kind of references, the string the second.  Assignment and    *)
(* slices share the elements, append copies them when they are shared.     *)
(*                                                                         *)
(* References, blocks and _ref_grow are those of Strings, in elements      *)
(* instead of characters: an element is a text or Blank.  mem.meta holds   *)
(* what a reference has beyond a string's: orig, the elements its block is *)
(* destroyed with, and dim, the highest index.  mem.counts are the         *)
(* references to a text, one of them a variable of the program.            *)
(*                                                                         *)
(* One action is one statement.  The slice it makes, or the parameter it   *)
(* passes, is on the cleanup stack until the block of statements ends.     *)
(***************************************************************************)
EXTENDS Strings

CONSTANTS
    Texts,          \* the strings of the program
    SliceOwners,    \* a slice may be appended to when its source is gone
    OwnElements,    \* an element of a vector may be appended to the vector
    Grans           \* the granularities append is called with

VectorsAssumption == Texts \cap {Junk, -1} = {} /\ {SliceOwners, OwnElements} \subseteq BOOLEAN /\ Grans \subseteq Nat \ {0}

Blank == -1                 \* an empty string, which has no block
Slice == 1                  \* the temporary, or a parameter
Columns == Vars \cup {Slice}

-----------------------------------------------------------------------------
(* Elements *)

\* reference_type_deref and _ref of an element
DropText(m, x) ==
    IF x = Blank THEN m
    ELSE IF x \in Texts /\ m.counts[x] > 0 THEN [m EXCEPT !.counts[x] = @ - 1] ELSE Faulty(m, "assert")
KeepText(m, x) ==
    IF x = Blank THEN m
    ELSE IF x \in Texts /\ m.counts[x] > 0 THEN [m EXCEPT !.counts[x] = @ + 1] ELSE Faulty(m, "assert")

\* subtilis_array_type_ref_els: the first n elements of a vector.
RefEls(m, slot, n) ==
    LET ref == [m.refs[slot] EXCEPT !.size = n] IN FoldLeft(KeepText, m, Text(m, ref))

\* subtilis_array_type_deref_els: the first n elements of a block.
DerefEls(m, p, n) == FoldLeft(DropText, m, Text(m, [size |-> n, heap |-> p, off |-> 0]))

\* _deref_array: the last reference to a block takes its elements with it.
DerefArray(m, slot) ==
    LET p == m.refs[slot].heap
    IN  IF m.refs[slot].size = 0 THEN m
        ELSE IF ~Live(m, p) THEN Faulty(m, "assert")
        ELSE CallDeref(IF m.blocks[p].refs = 1 THEN DerefEls(m, p, m.meta[slot].orig) ELSE m, p)

-----------------------------------------------------------------------------
(* References *)

\* prv_assign_ref of array_string_type.c.  An empty source leaves the old orig.
AssignArray(m, slot, from) ==
    LET a == InitRef(DerefArray(m, slot), slot, m.refs[from])
        size == m.refs[from].size
    IN  [a EXCEPT !.meta[slot] =
            [orig |-> IF size = 0 THEN @.orig ELSE m.meta[from].orig, dim |-> m.meta[from].dim]]

\* subtilis_array_type_slice_vector, of elements first to behind - 1.
SliceVector(m, w, first, behind) ==
    LET n == behind - first
        sized == [m EXCEPT !.refs[Slice].size = n, !.temps = 1,
                           !.meta[Slice] = [orig |-> m.meta[w].orig, dim |-> n - 1]]
    IN  IF n = 0 THEN sized
        ELSE [SetRef(CallRef(sized, m.refs[w].heap), Slice, n, m.refs[w].heap, m.refs[w].off + first)
                EXCEPT !.pushed = {Slice}]

\* prv_copy_ref_base, for a parameter or a local reference to w; it is pushed in any case.
CopyRef(m, w) ==
    LET ref == m.refs[w]
        copied == IF ref.size = 0 THEN m ELSE SetRef(CallRef(m, ref.heap), Slice, ref.size, ref.heap, ref.off)
    IN  [copied EXCEPT !.temps = 1, !.pushed = {Slice}, !.meta[Slice] = m.meta[w]]

\* Mutant: the elements that were copied are not referenced.
GrowWrapperForgets(m, slot, more, gran) ==
    [Grow(m, slot, more, gran) EXCEPT !.meta[slot].orig = m.refs[slot].size + more]

(***************************************************************************)
(* prv_grow_wrapper: when the count of the vector's block has fallen, its  *)
(* elements were copied, and each of them has one more reference.          *)
(***************************************************************************)
GrowWrapper(m, slot, more, gran) ==
    LET size == m.refs[slot].size
        before == IF size = 0 THEN 0 ELSE m.blocks[m.refs[slot].heap].refs
        grown == [Grow(m, slot, more, gran) EXCEPT !.meta[slot].orig = size + more]
    IN  IF grown.fault # "none" THEN grown
        ELSE IF grown.blocks[grown.refs[slot].heap].refs < before THEN RefEls(grown, slot, size)
        ELSE grown

\* Elements are written behind the old ones, and the vector has a higher index.
WriteEls(m, slot, at, texts) ==
    LET written == WriteText(FoldLeft(KeepText, m, texts), slot, at, texts)
    IN  [written EXCEPT !.meta[slot].dim = @ + Len(texts)]

-----------------------------------------------------------------------------
(* Statements *)

Contents(v) == Text(mem, mem.refs[v])
Indices(v) == 1 .. mem.refs[v].size

(***************************************************************************)
(* What the program may believe.  A vector is a window on some cells, which *)
(* are known by the vectors that share them.                               *)
(***************************************************************************)
Fresh == Columns
Seen(v) ==
    LET w == vals.windows[v] IN [k \in 1 .. w.size |-> vals.cells[w.cells][w.first + k]]
Window(cells, first, size) ==
    IF size = 0 THEN [cells |-> {}, first |-> 0, size |-> 0]
    ELSE [cells |-> cells, first |-> first, size |-> size]

Kept(windows, cells) ==
    LET Sharing(v) == {w \in Vars : windows[w].size > 0 /\ windows[w].cells = windows[v].cells}
        Known(vs) == \E v \in vs : vs = Sharing(v)
    IN  [windows |-> [v \in Vars |->
            IF windows[v].size = 0 THEN windows[v] ELSE [windows[v] EXCEPT !.cells = Sharing(v)]],
         cells |-> [vs \in SUBSET Vars |->
            IF Known(vs) THEN cells[windows[CHOOSE v \in vs : TRUE].cells] ELSE <<>>]]
Shares(v, window) == LET ws == [vals.windows EXCEPT ![v] = window] IN Kept(ws, vals.cells)
Holds(v, texts) ==
    Kept([vals.windows EXCEPT ![v] = Window(Fresh, 0, Len(texts))], vals.cells @@ (Fresh :> texts))

\* Nobody reads the contents of free blocks or the fields of empty vectors.
Swept(m) ==
    LET empty == {s \in Columns : m.refs[s].size = 0}
    IN  [m EXCEPT !.blocks = [p \in Ptrs |-> IF Live(m, p) THEN @[p] ELSE FreeBlock],
                  !.refs = [s \in Columns |-> IF s \in empty THEN Empty ELSE @[s]],
                  !.meta = [s \in Columns |-> IF s \in empty THEN [@[s] EXCEPT !.orig = 0] ELSE @[s]]]

Does(after, believed) ==
    /\ mem.fault = "none"
    /\ mem' = Swept(after)
    /\ vals' = believed

\* Bound: a block is left for the statement.
BlockLeft == \E p \in Ptrs : ~Live(mem, p)

\* The vector has its block for itself, but not all of it.
OwnsMore(v) ==
    /\ mem.refs[v].size > 0 /\ mem.blocks[mem.refs[v].heap].refs = 1
    /\ mem.refs[v].size # mem.meta[v].orig

\* Bound, and without the slices whose block append would leak.
MayAppend(v, n) ==
    /\ BlockLeft /\ (SliceOwners \/ ~OwnsMore(v))
    /\ mem.refs[v].size + n <= MaxLen

\* v{} = w{}, which is in Scopes if they are one.
AssignVector(v, w) == v # w /\ Does(AssignArray(mem, v, w), Shares(v, vals.windows[w]))

\* v{} = w{first : behind}
AssignSliced(v, w, first, behind) ==
    /\ mem.temps = 0 /\ first <= behind /\ behind <= mem.refs[w].size
    /\ LET win == vals.windows[w]
       IN  Does(AssignArray(SliceVector(mem, w, first, behind), v, Slice),
                Shares(v, Window(win.cells, win.first + first, behind - first)))

\* PROCf(w{}): the procedure ends with the block of statements.
PassVector(w) == mem.temps = 0 /\ Does(CopyRef(mem, w), vals)

\* v{k - 1} = text
SetElement(v, k, text) ==
    /\ k \in Indices(v)
    /\ LET dropped == DropText(mem, Contents(v)[k])
           w == vals.windows[v]
       IN  Does(WriteText(KeepText(dropped, text), v, k - 1, <<text>>),
                [vals EXCEPT !.cells[w.cells][w.first + k] = text])

\* append(v{}, text, gran): append copies elements that are shared, afterwards nobody
\* else sees v's.
AppendScalar(v, text, gran) ==
    /\ MayAppend(v, 1)
    /\ LET size == mem.refs[v].size
       IN  Does(WriteEls(GrowWrapper(mem, v, 1, gran), v, size, <<text>>), Holds(v, Append(Seen(v), text)))

\* append(v{}, w{k - 1}): the address of the element is computed before v grows.
AppendElement(v, w, k) ==
    /\ MayAppend(v, 1) /\ k \in Indices(w) /\ (OwnElements \/ v # w)
    /\ LET size == mem.refs[v].size
           p == mem.refs[w].heap
           grown == GrowWrapper(mem, v, 1, 1)
       IN  Does(IF Live(grown, p) THEN WriteEls(grown, v, size, <<Contents(w)[k]>>) ELSE Faulty(grown, "freed"),
                Holds(v, Append(Seen(v), Seen(w)[k])))

\* subtilis_array_append_ref_array: w is read after v has grown.
AppendArray(m, v, w) ==
    LET size == m.refs[v].size
        n == m.refs[w].size
        grown == GrowWrapper(m, v, n, n)
    IN  IF n = 0 THEN m ELSE WriteEls(grown, v, size, Text(grown, [grown.refs[w] EXCEPT !.size = n]))

\* append(v{}, w{}), w may be v.
AppendVector(v, w) ==
    /\ MayAppend(v, mem.refs[w].size)
    /\ Does(AppendArray(mem, v, w), IF Seen(w) = <<>> THEN vals ELSE Holds(v, Seen(v) \o Seen(w)))

\* append(v{}, w{first : behind})
AppendSliced(v, w, first, behind) ==
    /\ mem.temps = 0 /\ first < behind /\ behind <= mem.refs[w].size
    /\ MayAppend(v, behind - first)
    /\ Does(AppendArray(SliceVector(mem, w, first, behind), v, Slice),
            Holds(v, Seen(v) \o SubSeq(Seen(w), first + 1, behind)))

\* The end of a block of statements, or of a procedure.
DropSlice ==
    /\ mem.temps = 1
    /\ Does([(IF Slice \in mem.pushed THEN DerefArray(mem, Slice) ELSE mem) EXCEPT
                !.temps = 0, !.pushed = {}, !.refs[Slice] = Empty, !.meta[Slice].dim = -1],
            vals)

\* DIM v{n - 1}: n empty strings.
VectorsInit ==
    \E sizes \in [Vars -> 0 .. 2] :
        LET place == CHOOSE f \in [Vars -> Ptrs] : IsInjective(f)
            DimBlock(n) == [refs |-> 1, used |-> n, data |-> [k \in 1 .. Capacity(n) |-> IF k <= n THEN Blank ELSE Junk]]
            owned == {v \in Vars : sizes[v] > 0}
        IN  /\ mem = [blocks |-> [p \in Ptrs |->
                            IF \E v \in owned : place[v] = p
                              THEN DimBlock(sizes[CHOOSE v \in owned : place[v] = p]) ELSE FreeBlock],
                      refs |-> [s \in Columns |->
                            IF s \in owned THEN [size |-> sizes[s], heap |-> place[s], off |-> 0] ELSE Empty],
                      meta |-> [s \in Columns |->
                            IF s \in owned THEN [orig |-> sizes[s], dim |-> sizes[s] - 1] ELSE [orig |-> 0, dim |-> -1]],
                      counts |-> [x \in Texts |-> 1], temps |-> 0, pushed |-> {}, fault |-> "none"]
            /\ vals = [windows |-> [v \in Vars |-> Window({v}, 0, sizes[v])],
                       cells |-> [vs \in SUBSET Vars |->
                            IF \E v \in Vars : vs = {v}
                              THEN [k \in 1 .. sizes[CHOOSE v \in vs : TRUE] |-> Blank] ELSE <<>>]]

VectorsNext ==
    \/ \E v, w \in Vars : AssignVector(v, w) \/ AppendVector(v, w)
    \/ \E v, w \in Vars, first \in 0 .. MaxLen, behind \in 0 .. MaxLen :
          AssignSliced(v, w, first, behind) \/ AppendSliced(v, w, first, behind)
    \/ \E v \in Vars, text \in Texts : \/ \E k \in 1 .. MaxLen : SetElement(v, k, text)
                                       \/ \E gran \in Grans : AppendScalar(v, text, gran)
    \/ \E v, w \in Vars, k \in 1 .. MaxLen : AppendElement(v, w, k)
    \/ \E w \in Vars : PassVector(w)
    \/ DropSlice

-----------------------------------------------------------------------------
(***************************************************************************)
(* A vector holds what the program put into it, or into a vector it shares *)
(* its elements with, and its highest index is that of its last element.   *)
(***************************************************************************)
VectorsHold ==
    mem.fault = "none" => \A v \in Vars : Contents(v) = Seen(v) /\ mem.meta[v].dim = Len(Seen(v)) - 1

\* The elements the block is destroyed with.
Elements(p) == LET refs == {s \in Vars \cup mem.pushed : mem.refs[s].size > 0 /\ mem.refs[s].heap = p}
               IN  IF refs = {} THEN {} ELSE 1 .. mem.meta[CHOOSE s \in refs : TRUE].orig

(***************************************************************************)
(* The count of a block is the number of vectors and slices that refer to  *)
(* it, they agree on its elements, and the count of a text is the number   *)
(* of elements that hold it, and one for the variable.                     *)
(***************************************************************************)
VectorsCounted ==
    mem.fault = "none" =>
        /\ \A p \in Ptrs : mem.blocks[p].refs = Cardinality(Owners(p))
        /\ \A p \in Ptrs : \A s, t \in Owners(p) : mem.meta[s].orig = mem.meta[t].orig
        /\ \A x \in Texts :
              mem.counts[x] = 1 +
                Cardinality({pk \in Ptrs \X (1 .. MaxLen) :
                                /\ Live(mem, pk[1]) /\ pk[2] \in Elements(pk[1])
                                /\ mem.blocks[pk[1]].data[pk[2]] = x})

=============================================================================
