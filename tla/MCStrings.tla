----------------------------- MODULE MCStrings ------------------------------
(***************************************************************************)
(* String variables that share blocks, and vectors of strings that share   *)
(* elements, on both kinds of back end; the values of the functions that   *)
(* take strings apart, and of the expressions that index, slice and        *)
(* measure arrays.  part says which of them a behaviour is about.          *)
(*                                                                         *)
(* There are two variables, strings of up to three characters and vectors  *)
(* of up to two elements; the blocks of the ARM heap are rounded up to the *)
(* next multiple of two.                                                   *)
(***************************************************************************)
EXTENDS Strings

CONSTANTS
    Missing,    \* an argument that is left out
    Word        \* the string of the vectors

VARIABLES part,
          vmem, vvals,  \* of Vectors, and of the strings whose slices are appended to
          call, out     \* of Slices and Arrays

allVars == <<part, mem, vals, vmem, vvals, call, out>>

MCLiterals == {<<1, 2>>}

\* The variables are interchangeable, and so are the addresses.
Interchangeable == Permutations(Vars) \cup Permutations(Ptrs)

\* The REALLOC of the interpreter, for whole strings.
Interpreted == INSTANCE Strings WITH HaveAlloc <- TRUE, KeepSlices <- FALSE

\* Slices are appended to in expressions, even where that changes the variable
\* they are part of.
Appended == INSTANCE Strings WITH
    mem <- vmem, vals <- vvals, SliceFirst <- TRUE, KeepSlices <- FALSE

\* Strings of up to three characters and numbers around their lengths.
Functions == INSTANCE Slices WITH
    Strings <- {<<>>, <<1>>, <<1, 2>>, <<1, 2, 3>>, <<3, 3, 4>>},
    Numbers <- -2 .. 5,
    None <- Missing

ASSUME FunctionsAssumption == Functions!SlicesAssumption

-----------------------------------------------------------------------------
\* Vectors of one string and of empty strings, and with the REALLOC of the interpreter.
Collections == INSTANCE Vectors WITH
    mem <- vmem, vals <- vvals,
    Texts <- {Word}, MaxLen <- 2, Grans <- {2}, SliceOwners <- FALSE, OwnElements <- FALSE
InterpretedCollections == INSTANCE Vectors WITH
    mem <- vmem, vals <- vvals,
    Texts <- {Word}, MaxLen <- 2, Grans <- {1}, SliceOwners <- FALSE, OwnElements <- FALSE,
    HaveAlloc <- TRUE

ASSUME CollectionsAssumption == Collections!VectorsAssumption

(***************************************************************************)
(* Arrays of up to three dimensions with two or three elements each, every *)
(* index and every size known or not, and indices that are too small and   *)
(* too large.  The size of a vector is never known.                        *)
(***************************************************************************)
Number(S) == [n : S, known : BOOLEAN]
Perhaps(S) == {<<>>} \cup {<<x>> : x \in Number(S)}
Tuples(S, n) == [1 .. n -> S]
SliceSources == ({"array"} \X Number({0, 2})) \cup ({"vector"} \X [n : {-1, 0, 2}, known : {FALSE}])

IndexExpressions ==
    UNION {[op : {"element"}, dims : Tuples(Number(0 .. 2), n), index : Tuples(Number(-1 .. 3), n)] : n \in 1 .. 2}
    \cup [op : {"element"}, dims : Tuples(Number(0 .. 1), 3), index : Tuples(Number(-1 .. 2), 3)]
SliceExpressions ==
    {[op |-> o, type |-> s[1], dim |-> s[2], index1 |-> x, index2 |-> y, index |-> z] :
        o \in {"slice", "slice_size"}, s \in SliceSources,
        x \in Number(-1 .. 3), y \in Perhaps(-1 .. 4), z \in Number({-1, 0, 2, 3})}
SizeExpressions ==
    UNION {[op : {"dim"}, dims : Tuples(Number(0 .. 2), n), d : Perhaps(-1 .. 3)] : n \in 1 .. 2}
    \cup UNION {[op : {"allocate"}, dims : Tuples(Number(-1 .. 2), n)] : n \in 1 .. 3}
    \cup [op : {"vector"}, dims : Tuples(Number(-2 .. 3), 1)]

Indexed == INSTANCE Arrays WITH
    Expressions <- IndexExpressions \cup SliceExpressions \cup SizeExpressions, MaxElements <- 5

-----------------------------------------------------------------------------
NoVectors == vmem = 0 /\ vvals = 0
NoCalls == call = 0 /\ out = 0

StringsInit ==
    /\ Init
    /\ \/ part \in {"variables", "interpreted"} /\ NoVectors /\ NoCalls
       \/ part = "appended" /\ Appended!Init /\ NoCalls
       \/ part \in {"vectors", "interpreted vectors"} /\ Collections!VectorsInit /\ NoCalls
       \/ part = "functions" /\ Functions!Init /\ NoVectors
       \/ part = "arrays" /\ Indexed!Init /\ NoVectors

StringsNext ==
    /\ UNCHANGED part
    /\ \/ /\ \/ part = "variables" /\ Next
             \/ part = "interpreted" /\ Interpreted!Next
          /\ UNCHANGED <<vmem, vvals, call, out>>
       \/ /\ \/ part = "appended" /\ Appended!Next
             \/ part = "vectors" /\ Collections!VectorsNext
             \/ part = "interpreted vectors" /\ InterpretedCollections!VectorsNext
          /\ UNCHANGED <<mem, vals, call, out>>
       \/ /\ \/ part = "functions" /\ Functions!Next
             \/ part = "arrays" /\ Indexed!Next
          /\ UNCHANGED <<mem, vals, vmem, vvals>>

StringsSpec == StringsInit /\ [][StringsNext]_allVars

-----------------------------------------------------------------------------
(***************************************************************************)
(* A vector holds what was put into it or into a vector it shares its      *)
(* elements with, and its block and its elements are counted as often as   *)
(* they are referred to.  So are the blocks of strings whose slices are    *)
(* appended to, and what is appended lies behind everybody's characters.   *)
(***************************************************************************)
SharesCounted ==
    /\ part \in {"vectors", "interpreted vectors"} =>
          Collections!VectorsHold /\ Collections!VectorsCounted /\ Collections!NoFault
    /\ part = "appended" =>
          Appended!TypeOK /\ Appended!CountsMatchReferences /\ Appended!FreeSpaceIsFree

\* Every compilation of LEFT$, RIGHT$, MID$ and STRING$ and of the statement forms
\* returns the same string.
SameString == part = "functions" => Functions!SameString

\* An expression with arrays gives the element or the number it means, or fails when
\* it means nothing, whatever of it is known when it is compiled.
ElementsReached == part = "arrays" => Indexed!ElementsReached

=============================================================================
