------------------------------- MODULE Arrays -------------------------------
(***************************************************************************)
(* Indexing, slicing and measuring arrays and vectors                      *)
(* (frontend/array_type.c).  What the compiler knows it checks and         *)
(* computes itself, and it leaves the rest to the program: the size of a   *)
(* dimension is known unless it was declared with a variable, an index is  *)
(* known when it is a constant.  A dimension is its highest index.         *)
(*                                                                         *)
(* One action is one expression.  It gives a number, or it fails when it   *)
(* is compiled, or when it is run (ERROR_CODE_BAD_DIM).                    *)
(***************************************************************************)
EXTENDS Integers, Sequences, FiniteSetsExt, SequencesExt

CONSTANTS
    Expressions,    \* what a program writes: see Element, Slice, Dim and Allocate
    MaxElements     \* the largest array of known size, 0x7ffffff

VARIABLES call, out

vars == <<call, out>>

Value(n) == [kind |-> "value", n |-> n]
Rejected == [kind |-> "rejected", n |-> 0]
BadDim == [kind |-> "bad_dim", n |-> 0]

\* An index or a size: its value, and whether the compiler knows it.
Known(x) == x.known
Between(x, lower, upper) == lower <= x.n /\ x.n <= upper

Product(s) == FoldLeft(LAMBDA a, b : a * b, 1, s)

-----------------------------------------------------------------------------
(* The element at e of an array of dimensions dims, both sequences *)

CanCheck(dims, e, k) == Known(dims[k]) /\ Known(e[k])
InDim(dims, e, k) == Between(e[k], 0, dims[k].n)

\* The last dimensions, as far as the compiler knows everything about them.
Trailing(dims, e) == {k \in DOMAIN e : \A j \in k .. Len(e) : CanCheck(dims, e, j)}

\* The elements behind index k of the last dimensions, up to dimension last.
Behind(dims, k, last) == Product([j \in 1 .. last - k |-> dims[k + j].n + 1])

\* prv_check_constant_dims: what the trailing indices skip but for the last one.
ConstantPart(dims, e) ==
    LET n == Len(e)
    IN  FoldSet(LAMBDA k, sum : sum + e[k].n * Behind(dims, k, n), 0, Trailing(dims, e) \ {n})

\* The elements of all dimensions behind those computed in the program.
FirstBlock(dims, e) ==
    IF Trailing(dims, e) = {} THEN dims[Len(e)].n + 1
    ELSE Behind(dims, Min(Trailing(dims, e)) - 1, Len(e))

\* The dimensions computed in the program, the last one apart.
Dynamic(dims, e) ==
    1 .. IF Trailing(dims, e) = {} THEN Len(e) - 1 ELSE Min(Trailing(dims, e)) - 1

\* Mutant: the block is multiplied before it is used.
DynamicPartLate(dims, e) ==
    LET Step(k, acc) ==
            LET block == acc.block * (dims[k].n + 1) IN [size |-> acc.size + e[k].n * block, block |-> block]
        m == Max(Dynamic(dims, e) \cup {0})
    IN  FoldRight(Step, [k \in 1 .. m |-> k], [size |-> 0, block |-> FirstBlock(dims, e)]).size

DynamicPart(dims, e) ==
    LET Step(k, acc) ==
            [size |-> acc.size + e[k].n * acc.block, block |-> acc.block * (dims[k].n + 1)]
        m == Max(Dynamic(dims, e) \cup {0})
    IN  FoldRight(Step, [k \in 1 .. m |-> k], [size |-> 0, block |-> FirstBlock(dims, e)]).size

(***************************************************************************)
(* subtilis_array_index_calc and prv_1d_index_calc.  A constant index into *)
(* a dimension of known size is only checked by the compiler if everything *)
(* behind it is known too; the test is folded otherwise, and its value is  *)
(* used as the number of a register.                                       *)
(***************************************************************************)
Folded(dims, e) == \E k \in Dynamic(dims, e) : CanCheck(dims, e, k)

Undefined == [kind |-> "undefined", n |-> 0]

IndexCalc(dims, e) ==
    IF \E k \in Trailing(dims, e) : ~InDim(dims, e, k) THEN Rejected
    ELSE IF Folded(dims, e) THEN Undefined
    ELSE IF \E k \in DOMAIN e : ~InDim(dims, e, k) THEN BadDim
    ELSE Value(ConstantPart(dims, e) + DynamicPart(dims, e) + e[Len(e)].n)

-----------------------------------------------------------------------------
(***************************************************************************)
(* Slices of a collection with one dimension.  The slice from index1 up to *)
(* index2, which may be left out, starts off elements behind its source.   *)
(* Vectors may be empty.  Without index2 index1 may be too large, and the  *)
(* compiler crashes when it is a negative constant: see Sane.              *)
(***************************************************************************)
MaxDim(dim) == [dim EXCEPT !.n = @ + 1]

\* prv_check_slice_indices and prv_check_slice_array_indices
CheckIndices(kind, index1, index2) ==
    IF index1.n < index2.n \/ (kind = "vector" /\ index1.n = index2.n) THEN "ok"
    ELSE IF Known(index1) /\ Known(index2) THEN "rejected" ELSE "bad_dim"

\* prv_check_slice_index1
CheckIndex1(index1) ==
    IF index1.n >= 0 THEN "ok" ELSE IF Known(index1) THEN "rejected" ELSE "bad_dim"

\* prv_check_slice_index2
CheckIndex2(dim, index2) ==
    IF index2.n <= dim.n + 1 THEN "ok"
    ELSE IF Known(index2) /\ Known(dim) THEN "rejected" ELSE "bad_dim"

Checks(q) ==
    (IF q.index2 = <<>> THEN {CheckIndex1(q.index1)}
     ELSE {CheckIndices(q.type, q.index1, q.index2[1]), CheckIndex1(q.index1), CheckIndex2(q.dim, q.index2[1])})

\* prv_slice_set_sizes, prv_slice_set_pointers and the type of the slice.
SliceOf(q) ==
    LET index2 == IF q.index2 = <<>> THEN MaxDim(q.dim) ELSE q.index2[1]
    IN  [off |-> q.index1.n,
         dim |-> [n |-> index2.n - q.index1.n - 1,
                  known |-> q.type = "array" /\ Known(q.index1) /\ Known(index2)]]

Then(checks, result) ==
    IF "rejected" \in checks THEN Rejected ELSE IF "bad_dim" \in checks THEN BadDim ELSE result

-----------------------------------------------------------------------------
\* subtilis_array_get_dim: the highest index of dimension d, counted from 1.
GetDim(dims, d) ==
    CASE d = <<>> -> Value(Len(dims))
      [] d # <<>> /\ Between(d[1], 1, Len(dims)) -> Value(dims[d[1].n].n)
      [] OTHER -> IF Known(d[1]) THEN Rejected ELSE BadDim

\* subtlis_array_size_calc: the elements of a new array.
SizeCalc(e) ==
    LET known == SelectSeq(e, Known)
    IN  IF (\E k \in DOMAIN known : known[k].n < 0) \/ Product([k \in DOMAIN known |-> known[k].n + 1]) > MaxElements
        THEN Rejected
        ELSE IF \E k \in DOMAIN e : e[k].n < 0 THEN BadDim
        ELSE Value(Product([k \in DOMAIN e |-> e[k].n + 1]))

\* subtilis_array_type_vector_alloc: a negative size is that of an empty vector.
VectorSize(e) == Value(IF e.n < 0 THEN 0 ELSE e.n + 1)

-----------------------------------------------------------------------------
Evaluate(result) == out = <<>> /\ out' = <<result>> /\ UNCHANGED call

Element == call.op = "element" /\ Evaluate(IndexCalc(call.dims, call.index))

\* The element at index of a slice, as a number of the source.
Slice ==
    /\ call.op = "slice"
    /\ LET s == SliceOf(call)
           r == IndexCalc(<<s.dim>>, <<call.index>>)
       IN  Evaluate(Then(Checks(call), IF r.kind = "value" THEN Value(s.off + r.n) ELSE r))

\* The size of a slice.
SliceSize == call.op = "slice_size" /\ Evaluate(Then(Checks(call), Value(SliceOf(call).dim.n + 1)))

Dim == call.op = "dim" /\ Evaluate(GetDim(call.dims, call.d))

Allocate == call.op = "allocate" /\ Evaluate(SizeCalc(call.dims))
AllocateVector == call.op = "vector" /\ Evaluate(VectorSize(call.dims[1]))

\* What the code compiles as it should: see IndexCalc and the slices.
Sane(q) ==
    CASE q.op = "element" ->
           ~Folded(q.dims, q.index) \/ \E k \in Trailing(q.dims, q.index) : ~InDim(q.dims, q.index, k)
      [] q.op \in {"slice", "slice_size"} ->
           q.index2 = <<>> =>
              /\ (Known(q.index1) => q.index1.n >= 0)
              /\ IF q.type = "vector" THEN q.index1.n <= q.dim.n + 1 ELSE q.index1.n <= q.dim.n
      [] OTHER -> TRUE

Init == call \in Expressions /\ Sane(call) /\ out = <<>>

Next == Element \/ Slice \/ SliceSize \/ Dim \/ Allocate \/ AllocateVector

Spec == Init /\ [][Next]_vars

-----------------------------------------------------------------------------
(* What an expression means, whatever the compiler knows *)

\* The places of an array, in the order of the memory: the last index runs fastest.
Places(dims) ==
    LET upTo == Max({dims[k].n : k \in DOMAIN dims})
    IN  {p \in [DOMAIN dims -> 0 .. upTo] : \A k \in DOMAIN dims : p[k] <= dims[k].n}
Before(p, r) == \E k \in DOMAIN p : p[k] < r[k] /\ \A j \in 1 .. k - 1 : p[j] = r[j]

Meaning(q) ==
    CASE q.op = "element" ->
           LET place == [k \in DOMAIN q.index |-> q.index[k].n]
           IN  IF place \in Places(q.dims)
                 THEN <<Cardinality({p \in Places(q.dims) : Before(p, place)})>> ELSE <<>>
      [] q.op \in {"slice", "slice_size"} ->
           LET first == q.index1.n
               behind == IF q.index2 = <<>> THEN q.dim.n + 1 ELSE q.index2[1].n
               taken == SelectSeq([k \in 1 .. q.dim.n + 1 |-> k - 1], LAMBDA k : first <= k /\ k < behind)
           IN  CASE first < 0 \/ behind > q.dim.n + 1 \/ behind < first \/ (taken = <<>> /\ q.type = "array") -> <<>>
                 [] OTHER -> IF q.op = "slice_size" THEN <<Len(taken)>>
                             ELSE IF q.index.n + 1 \in DOMAIN taken THEN <<taken[q.index.n + 1]>> ELSE <<>>
      [] q.op = "dim" ->
           IF q.d = <<>> THEN <<Len(q.dims)>>
           ELSE IF q.d[1].n \in DOMAIN q.dims THEN <<q.dims[q.d[1].n].n>> ELSE <<>>
      [] q.op = "allocate" ->
           IF \E k \in DOMAIN q.dims : q.dims[k].n < 0 THEN <<>> ELSE <<Cardinality(Places(q.dims))>>
      [] q.op = "vector" -> <<Cardinality(0 .. q.dims[1].n)>>

(***************************************************************************)
(* Whatever is known when it is compiled, an expression gives the element  *)
(* or the number it means, or fails if it means nothing; the compiler only *)
(* rejects what it knows enough about.  A constant array that is too large *)
(* is rejected as well.                                                    *)
(***************************************************************************)
ElementsReached ==
    out # <<>> =>
        \/ out[1].kind = "value" /\ Meaning(call) = <<out[1].n>>
        \/ out[1].kind \in {"rejected", "bad_dim"} /\ Meaning(call) = <<>>
        \/ out[1] = Rejected /\ call.op = "allocate" /\ Meaning(call)[1] > MaxElements

=============================================================================
