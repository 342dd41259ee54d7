# Subtilis: models, checks and proofs

Subtilis is a compiler for a dialect of BBC BASIC.  The front end (`frontend/`)
parses a program and emits an intermediate representation (`common/ir.c`), which is
either interpreted (`frontend/vm.c`) or translated for 32-bit ARM (`arch/arm32/`) and
RISC OS or a bare machine, PTD (`backends/`).  The tests of the ARM back ends run the
code on an interpreter of ARM code (`arch/arm32/arm_vm.c`).  The compiler is
sequential.  What is hard about it is not concurrency but

- **protocols between what is known when a program is compiled and what happens when
  it runs**: reference counts, cleanup stacks, error handlers, shared blocks, constant
  pools;
- **the same operation implemented several times**: folded by the compiler, emitted as
  IR, generated as ARM code, and interpreted twice.  All of them must agree for every
  operand.

A mistake of the first kind shows after a long sequence of legal statements, one of
the second kind at a few operands.  These are what the models explore.

## Inventory

| Part | State | Operations | Modules | What makes it correct |
|---|---|---|---|---|
| Heap of the IR interpreter (`common/vm_heap.c`, `frontend/vm.c`) | free and used lists, a reference count in front of each block, error flag | ALLOC, REALLOC, REF, DEREF | `VmHeap`, `RefObjects`; `ListLemmas`, `VmHeapProofs` | blocks never overlap; they live as long as their counts and change only by their owners as long as every block that is reallocated is used whole; the leak check is exact |
| Heap of the ARM back ends (`arm_heap.c`, `riscos_arm.c`) | a list of free blocks per power of two; headers with size, count and bytes in use | alloc, free, deref, block adjust | `ArmHeap`, `RefObjects` | the same, and nothing is refused while a large enough block is free |
| Scopes, errors, cleanup (`parser_error.c`, `expression.c`, `parser_compound.c`, `parser_call.c`, `parser_loops.c`, `reference_type.c`) | levels, handler list, `in_error_handler`, `try_depth`; frames, cleanup entries and counter, error flag | declarations, assignments, calls, returns, blocks, loops, TRY, ONERROR, ERROR, unwinding | `Scopes`; `ScopesFrames`, `ScopesProofs` | each reference is dropped once; errors go to the innermost handler |
| Symbol tables (`symbol_table.c`, `hash_table.c`) | hash table, a list of symbols per level, bytes of the frame | insert, temporaries and promotion, local buffers, level up and down | `SymbolTable`, `Environment`; `SymbolTableProofs` | lookup follows scope; places do not overlap |
| Strings, vectors and arrays (`string_type.c`, `reference_type.c`, `array_type.c`, `array_string_type.c`) | size, heap block, data pointer and original size of each reference | assignment, slices, sums, `+=`, append, functions on strings, indexing, DIM | `Strings`, `Slices`, `Vectors`, `Arrays`; `StringsProofs` | strings are values; vectors share until append; counts are exact; an index finds its element however much of it is constant |
| Operators (`type_if.c`, `int32_type.c`, `float64_type.c`, `byte_type_if.c`) | none | every unary, binary and shift operator | `Arith`, `Folding` | constants and variables give the same |
| Numbers and text (`builtins_ir.c`, `parser_string.c`) | buffers | STR$, PRINT, VAL | `Conversions` | a number survives the way to text and back |
| Random numbers (`parser_rnd.c`, `builtins_ir.c`) | the seed | RND | `Random` | literals and variables give the same; the period is full |
| Memory routines (`arm_mem.c`), division (`arm2_div.c`) | registers and memory | fill, copy, compare; `_idiv` | `Memory`, `Division`; `MemoryProofs`, `DivisionProofs` | fills, copies and equality are the interpreter's and nothing beside is touched; strings are ordered as the compiler orders constants; quotients are right |
| Register allocator (`arm_reg_alloc.c`, `arm_sub_section.c`, `*_alloc.c`, `*_dist.c`) | registers, next uses, spill slots, basic blocks | allocate, spill, load, link, save for calls | `RegCode`, `RegAlloc` | every instruction reads what the program reads |
| ARM code (`arm_encode.c`, `arm_core.c`, `arm_link.c`) | bytes written, pending constants, back patches | encode, choose instructions for a constant, flush a pool, link | `ArmEncode`, `ArmImm`, `ArmPool` | each load reads its constant; constants compute what was asked |
| ARM interpreter and disassembler (`arm_vm.c`, `arm_disass.c`) | registers, flags, memory, two floating point units | one instruction | `ArmDisass`, `ArmMachine`, `ArmVm` | decodes what was encoded; instructions mean the same things together |
| Lexer, parser of expressions, types, instruction selection, inline assembler | the current token | parse, match rules | - | see "Not modelled" |

How they interact: the front end asks the symbol table for slots and emits code that
uses the heap; whoever emits code that may fail asks `Scopes`' handler list where to
jump; strings and vectors are `RefObjects` of whichever heap the back end has; the
back end allocates registers for the code and the encoder lays it out; the ARM
interpreter decodes the words again.

`PROJECT.json` lists the hazards of the code at the lines where they bite, with the
properties that cover them, the lines each definition models, and a mutant for every
property.

## Modules and how they correspond to the code

### Heaps: `RefObjects`, `VmHeap`, `ArmHeap`

`RefObjects` is what a heap promises: an object exists from ALLOC to the DEREF of its
last reference; REALLOC moves it and keeps its contents; no operation on one object
touches another; running out of memory changes only the error flag.  Both heaps
implement it, each with the mapping at the end of its module.

| Model | Code |
|---|---|
| `heap.free`, `heap.used`, `mem` | the lists of `subtilis_vm_heap_t`, head first, and `vm->memory` |
| `ClaimIndex`, `ClaimBlock`, `FreeBlock` | `subtilis_vm_heap_claim_block`, `subtilis_vm_heap_free_block` |
| `Alloc`, `Ref`, `DerefShared`, `DerefLast`, `Realloc` of `VmHeap` | `prv_alloc`, `prv_ref`, `prv_deref`, `prv_realloc` of `vm.c` |
| `Split`, `SearchSlots`, `Slot12Alloc`, `HeapFree` of `ArmHeap` | the code `arm_heap.c` generates |
| `Deref`, block adjust | the code `riscos_arm.c` generates |

Words (`VmHeap`) and granules of 32 bytes (`ArmHeap`) are the units.  Failure of
malloc in the interpreter stops it and is not modelled.

`Realloc` has one guard that `prv_realloc` has not: the block is not shared, which its
only caller finds out with GETREF.  The size it is given is that of a reference and what
is added to it (`reference_type.c:900`), which can be less than the block has: when the
reference is a slice whose string has gone, or a vector for which append has reserved
elements.  `prv_realloc` copies all of the old block all the same (`Copied`) and goes
over what lies behind the new one.  The constant `WholeBlocks` says that a program grows
references to whole blocks only (`Requested`); with `FALSE` it may ask for any size,
and the run `realloc_part` shows a count that is overwritten.

### `Scopes`

Compiled code pushes the address of a slot when it initialises a reference in it and
counts the push in a register; it pops one entry per symbol of a level at the end of a
block, and as many as the register says at the end of a procedure.  The compiler
decides where an error jumps to from its handler list.

The module does not fix a program.  Each `Statement` action runs the code of one more
statement that is legal at that place, so every program within the bounds is covered;
a frame records the compile-time state of the place it has reached.  `Machine` actions
are code that follows without a statement: pops, the end of a block, the next
iteration, RET, the test of the flag in the caller.

| Model | Code |
|---|---|
| `HandlerListTruncate`, `HandlerListUpdate` | `common/ir.c` |
| `frames[i].blocks`, `.entries`, `.counter` | `p->level` and `st->levels`; cleanup entries on the stack; the `cleanup_stack` register |
| `HandleErrors`, `RaiseError` | `subtilis_exp_handle_errors`, `subtilis_exp_generate_error` |
| `AtHandler`, `OnError`, `LeaveHandler` | `subtilis_parser_onerror` |
| `DeclareCopy`, `AssignVar`, `Return`, `CallWith`, ... | `new_ref`, `assign_ref`, `assign_to_reg`, `copy_ref` |
| `Pop`, `EndBlock`, `Ret` | `subtilis_reference_type_pop_and_deref`, `subtilis_reference_deallocate_refs`, RET with `prv_tmp_ref_return` |

Six kinds of statements are compiled into code that breaks the protocol (see
"Disagreements").  The variable `uses`, which stays, is the set of those a program has,
and the constant `Programs` the sets to choose from; a program with `uses = {}` is
sound.  `MCScopes` has sound programs and, in one procedure, programs with all of them
(`SoundOrFaulty`); each property says what it asks of which.  Values are blocks, slots
are numbered in the order of the text and not reused, IF is the program's choice,
variables of main at level 0 stand for globals.

### `SymbolTable` and `Environment`

`Environment` is what a parser expects: a stack of scopes, and a place in the frame
that no other visible variable shares.  `SymbolTable` implements it with the hash
table and its chains (`Bucket`), the list of keys per level, temporaries whose key is
freed and replaced when they are promoted, local buffers that go into level 0 from
inside a block, and the counter of allocated bytes with its alignment.

### `Strings`, `Vectors`, `Slices`, `Arrays`

`Strings`: a variable is `[size, heap, off]`, a part of a reference counted block.
Assignment shares, LEFT$, MID$ and RIGHT$ point into the block, a statement that changes
a string copies the block first.  `HaveAlloc` chooses between the REALLOC of the IR
interpreter (`prv_resize_with_realloc`) and the free space of blocks of the ARM heap
(`prv_resize_with_malloc`).  `vals` is the abstract state, values.  The addresses of
blocks (`Ptrs`) are model values: the code compares them for equality only.
`KeepSlices`, `SliceFirst` and `BothEmpty` let a program do what is compiled wrongly,
`KeepSlices` on the interpreter only (see "Disagreements"); the theorems assume
`Supported`, that it does not.

`Vectors` extends it: elements are references to strings, so there are two layers of
counts.  `GrowWrapper`, `RefEls`, `DerefEls`, `DerefArray` are the functions of
`array_type.c` and the routine that destroys elements; `mem.meta` has the original
size that routine goes by.  The abstract state is windows on shared cells, since
vectors are shared by assignment and become private by append.

`Slices`: each of LEFT$, RIGHT$, MID$, STRING$ and the statement forms in all ways it
is compiled (folded, over a constant, over a variable), one call a behaviour.

`Arrays`: indexing, slicing, DIM() and allocation, with every dimension and index
known or unknown to the compiler: `ConstantPart` is `prv_check_constant_dims`,
`DynamicPart` the rest of `subtilis_array_index_calc`.  The reference is `Meaning`,
the row-major place.

### `Arith`, `Folding`, `Conversions`, `Random`, `Division`, `Memory`

`Arith` is the arithmetic of `vm.c` at a small width.  `Folding` has `type_if.c` and
the three numeric types: each operator with its constant folding, its swapping of
operands and its reductions.  `left` and `right` are one expression written with
constants in different places, and the actions grow both by one operator.

`Conversions`, `Division` and `Memory` run generated routines: one action is one pass
through a loop, with labels as values of `pc`.  `Division` has a word of four chunks
of any width instead of four bytes; its powers of two are a recursive function, so that
their laws can be proved.  `Memory` compares each routine with the C function the IR
interpreter calls.  Strings are the exception: the reference is `Order`, the order
`strcmp` gives the compiler for constants, since the interpreter's `prv_compare`
(`VmCompare`) does not look at lengths; where it is right (`VmOrders`), the routine is
compared with it as well.  `Random` runs a program with literals beside one with
variables: `_rnd_int` and `_rnd_real` give integers and reals, the compiler converts the
former, and values are compared as reals.

### `RegCode`, `RegAlloc`

`RegCode`: instructions before allocation, next uses (`arm_int_dist.c` and the two
others), basic blocks (`arm_sub_section.c`).  `RegAlloc`: `LinkBlocks`, then
`AllocateInt`, `AllocateFpa`, `AllocateVfp` replace the virtual registers of one
instruction after another, the calls get their registers to save, and `Machine` runs
the result beside the original: each instruction must find in its registers what the
original's virtual registers hold.

### `ArmEncode`, `ArmDisass`, `ArmImm`, `ArmPool`, `ArmMachine`, `ArmVm`

`ArmEncode` makes the word of an instruction as the set of its one bits; `ArmDisass`
decodes it in the order of the tests of the source.  `ArmMachine` has a handler
for every instruction of `arm_vm.c`, with the width of a byte as a parameter; `ArmVm`
is its loop over small programs (`MCArmTasks`).  `ArmImm` chooses instructions for a
constant (`arm_core.c`); its result runs on `ArmMachine`.  `ArmPool` walks the
operations of sections as `arm_encode.c` does, flushes pools, applies back patches and
links; whether a load reads its constant is decided from the addresses.  Constants of
the FPA are left to their own encoding.

## How the MC modules compose

`MCHeaps` has both heaps; its variable `looked` says which one a behaviour is about, and
the other one stays in its initial state.

To share a run between parts that do not interact, `MCRoutines`, `MCStrings` and `MCArm`
have a variable `part` that says which part a behaviour is about; the variables of the
other parts are 0, except that in `MCStrings` `mem` and `vals` keep the initial values
of `Strings`; the strings whose slices are appended to and the vectors are in `vmem` and
`vvals`, so that the properties of `Strings` hold in every part.  Each property says
which parts it is about.  The state graph is the disjoint union of the graphs of the
parts.

## Runs

| Run | Bounds | Shows |
|---|---|---|
| `heaps` | `VmHeap`: 7 words, requests of 1 to 3, 2 references a block, `WholeBlocks`; `ArmHeap`: 12 granules, 4 slots, requests of 40, 144 and 170 bytes, growth by 6, 3 blocks held, 2 references | of `VmHeap`, `TypeOK`, `NoOverlap`, `LeakCheckExact`, `CountsPositive`, `ImplementsObjects`; of `ArmHeap`, `SlotsSound` (slots sorted, blocks fill the heap, bytes in use fit), `SlotsLeakCheckExact`, `RefusedOnlyWhenFull`, `SlotsImplementObjects` |
| `symbol_table` | 2 names in 2 buckets, bytes and words, 2 blocks deep, 4 symbols | `TableMatchesScopes`, `FrameSound`, refinement of `Environment` |
| `scopes` | one procedure with 3 levels and 2 slots or 2 levels and 3 slots, or two with a level, one with 2 slots and one with 1; 2 blocks | `AssertionsHold`, `OwnersCounted`, `StackAsCompiled`, `ErrorsStay`, `HandlersFollowBlocks` |
| `scopes_liveness` | 3 frames, 1 block, a level, a slot | `CallersHandleErrors`, `UnwindingEnds` |
| `routines` | operators: words of 4 bits, bytes of 2, reals in halves, all operands; division: 16 bits, numbers at and beside powers of two; memory: sizes around bytes, words and blocks, offsets from a word boundary; text: all 8-bit integers, reals of 3 places, texts of up to 4 decimal, 3 hexadecimal or 5 binary characters; RND: 8 bits | `OperatorsAgree`, `QuotientRight`, `MemoryRight` (what is written, what is returned, that no pointer leaves the arguments; and, in an instance of its own, that `_memcmp` finds no different strings equal whatever R9 holds), `NumbersRoundTrip`, `ValRight`, `SameNumbers`, `RoutinesEnd`, `FullPeriod` |
| `strings` | 2 variables, strings of up to 3, vectors of up to 2 elements, 3 blocks, 1 temporary, both kinds of back end; arrays of up to 3 dimensions with up to 2 elements | `ValueSemantics`, `CountsMatchReferences`, `MemorySafe`, `SharesCounted` (vectors, and slices that are appended to), `SameString`, `ElementsReached` |
| `regalloc` | 4 integer registers, 3 for reals, 2 for arguments; families of straight code, branches, loops, calls, functions and both floating point units | `AllocationSucceeds`, `OperandsRight`, `ArgumentsArrive` |
| `arm` | bytes of 6 bits and words of 24; every instruction class and type; pools within 48 and 36 bytes | `ProgramsAgree`, `CodeRoundTrips`, `ConstantsRight`, `PoolsInReach` |
| `realloc_part`, `self_assign`, `strings_slice_first`, `regalloc_shifts` | as small as shows the case | four of the disagreements |

Why the bounds are enough to be interesting:

- Seven words leave room for three blocks of different sizes, so lists have several
  orders and exact fits lie behind larger blocks.  Twelve granules let every slot
  receive a piece of a split, and the last one several blocks of different sizes: a
  request of six granules finds a block of five first, passes it and takes one from further
  down, which is moved to the start of the list and then cut.
- Two blocks, slots and frames give sharing between caller and callee, results also
  held by a global and reuse of a freed block.  Three levels are the least with TRY
  inside ONERROR inside a block; three frames the least where an error passes through
  a procedure without a handler.
- Two names that share a bucket with temporaries make chains of two kinds of keys; a
  byte and a word make holes in a frame.
- Strings of three characters have a beginning, a middle and an end, and a block of a
  multiple of two has free space behind some and not behind others.  Vectors of two
  elements can be sliced to a part; the run keeps a block free for a statement and
  another for the copy it makes.
- Arrays of three dimensions have a known index behind an unknown one and two before
  it.  Every size and index is once known and once not.
- Words of four bits contain every edge of the operators: the least integer, its
  neighbours, shifts of a width and more.  The divider has numbers that enter a pass
  at each of its three places.  Memory sizes lie at, below and above a byte, a word and
  the blocks of 16 and 32 bytes, so that every loop runs never, once and twice.
- Four registers are fewer than the values that are alive in the families; three real
  registers with four reals likewise.
- Six bits in a byte leave a rotation by even places that wraps around in the middle of
  a word, and words of 24 bits hold reals as doubles.  Runs of 0 to 10 plain
  instructions between the loads put each of them before, at and behind the limit of a
  pool.

Symmetry: the blocks of `scopes` and the variables of `strings` are never ordered or
told apart, nor are the addresses of `strings`, and symmetry is used in runs without
temporal properties only.  Deadlock is checked in `heaps`, `symbol_table` and
`scopes_liveness`.  In the others a behaviour ends when the routine has returned,
the code has run, a fault has stopped the program, or (`scopes`) every statement would
leave the bounds: they have `CHECK_DEADLOCK FALSE`.

Every property of a passing run has a mutant under which TLC finds it violated.  It is
defined before the operator it replaces and marked `Mutant:`.

## Fairness

- `FairScopes`: weak fairness of `Machine`.  The processor does not stop between two
  instructions; nothing is assumed of the statements, so a program may stay anywhere
  for ever.  `CallersHandleErrors` and `UnwindingEnds` need no more, because between an
  error and its handler the program has no choice.
- `RoutinesSpec`: weak fairness of the routines and of the calls of RND, none of the
  operators.  A routine that was called runs on: the code is sequential and makes no
  calls.  `RoutinesEnd` would fail with a loop that does not advance.  `FullPeriod` is
  about a program that calls RND for ever.

## Disagreements between the code and what it says

Those with a run are under "findings" in `PROJECT.json`, with the text they
contradict:

- `realloc_part`: REALLOC to less than the block has copies the whole block and goes over
  the block behind, its reference count among it (`vm.c:1405`).
- `self_assign`: `x$ = x$` frees the block before it takes the new reference.  The other
  runs of `Scopes` have no such assignment.
- `strings_slice_first`: `b$ = LEFT$(a$, 2) + "xy"` changes `a$` where the block of
  `a$` has room: a temporary first operand is grown in place without asking whether it
  shares its block (`string_type.c:3464`).
- `regalloc_shifts`: the register of a dead operand is given up before the register it
  is shifted by is loaded (`arm_reg_alloc.c:949`); both are loaded into one.

The following were met while modelling, and most were reproduced with the programs
built from the sources.  No run is about one of them alone; where not said otherwise
the instances keep away from them, and the properties claim nothing of those programs.

Scopes (`uses`):

- a TRY block that initialises a reference and then fails leaves its cleanup entries
  behind (`RefInTry`); ERROR inside TRY inside a handler is not trapped
  (`HandlerTry`); out of memory in `x$ = "constant"` leaves a slot that is dropped
  again (`AssignFails`); the temporary of an empty slice is popped but was never pushed
  (`EmptySlice`); a loop condition that makes a temporary string pushes an entry in
  each iteration (`LoopCall`).

Symbol table: level 32 of a table with 32 levels is opened (`symbol_table.c:100`);
`MaxDepth < MaxLevels` in the run.

Operators (`Quirks = {}`): DIV and MOD by a constant 1 or -1 shift by the width of the
word (`int32_type.c:1588`); a constant compared with a real variable swaps > to <= and <
to >= (`float64_type.c:1178`); an integer constant is ordered with a real constant
through the wrong union members (`int32_type.c:614`); powers of constants are folded
with another type and value (`int32_type.c:736`); an integer to the power of a byte
does not compile (`int32_type.c:1932`); a byte is shifted right without being extended
(`byte_type_if.c:675`); a real constant that initialises an array of integers becomes 0
(`float64_type.c:177`).

Strings (`KeepSlices`, `SliceFirst`, `BothEmpty`): a slice of an empty string as first
operand of + resizes a field that was never written (`string_type.c:3460`); the sum of
two empty strings allocates a block nobody releases (`string_type.c:3475`); REALLOC of
a string that begins inside its block or ends before it (`reference_type.c:900`, as in
`realloc_part`).  A clipped count of
LEFT$ or MID$ is written to the argument (`string_type.c:1105`); `Slices` records it in
`out` and no property asks for more.

Arrays (`Sane`): a constant index into a known dimension before one the compiler does
not know folds the bounds test and uses its value as the number of a register
(`array_type.c:1519`); when the second index of a slice is left out, a first index
beyond the end is not refused (`Checks`), although docs/Subtilis.md:1275 to 1279
says the constraints are enforced; `a%{-1:}` with a constant crashes the compiler
(`array_type.c:616`); the product of dimensions that are not constant is not checked
for overflow, as a TODO at 1554 says.

Vectors (`SliceOwners`, `OwnElements`): appending to a slice that is the last reference
to its block sets the original size to the slice's, and the other elements are leaked;
`append(a${}, a${0})` reads the element's address after the block was moved; the
reservation of append, docs/Subtilis.md:1206 to 1217, is not kept by REALLOC and
BLOCK_FREE, so that a second append asks for less than the block has (`realloc_part`); a negative constant size pushes a reference that was not made (463 to 465).

Memory, numbers, division: `_memseti8` does not clear the bits of a negative byte
(`arm_mem.c:202`) and writes past a slice that is not aligned (247): `Supported` says
that neither is asked for, and the instance `Filler` of the run keeps to it.  `_memcmp`
counts down R9, which only its block loop sets (918): for fewer than 16 bytes it holds
what the caller left there, and a number above the arguments makes it compare past their
end, where equal strings may be followed by different bytes.  Nothing in the code keeps
R9 low, and `LowScratch` says that it is: under it `_memcmp` is right (instance
`Comparer`), without it all that can be said is that different strings are found
different (`DifferentDiffer`, instance `Stale`).  The interpreter's comparison of
strings does not look at their lengths if both have a character (`vm.c:784`):
`VmOrders` names the pairs for which it is right.  The sign of reals between -1 and 0 is lost (`builtins_ir.c:641`), and none is
among the reals of the run; VAL takes the character after the last digit for a digit
(2142), and no text has it; it overlooks overflows by more than twice (2055) and reads a
prefix in literals only (`parser_string.c:677`), and `ValRight` leaves out those texts.
The sign of MOD on the ARM back ends (`arm2_div.c:493`): `QuotientRight` is about the
quotients, and the remainders of divisors that are not negative.

Register allocator: `Chains`, `SelfShifts` and `FullCalls` of `MCRegAlloc` are families
for which the allocation fails or loses an argument (`arm_reg_alloc.c:1116`, `:949`,
`:1262`); they can be given to a run as `Programs`; the run
has none of them, and so says nothing of calls whose arguments take all registers.

ARM heap: `DIM b&(2147483620)` is not refused, since sizes are compared as signed
(`arm_heap.c:760`); `Sizes` has none as large.

Constants (`Invertible` and the requests of `MCArmTasks`): MVN of a constant that fits
neither way loads the constant and not its complement (`arm_core.c:1198`); MOV with
status that becomes a load sets no flags; TST and TEQ with a negated constant become
CMN (1437); the address of a copied instruction is read after a reallocation (590, 949).

Pools: an address is recorded before the test for a pool, which would move it
(`arm_encode.c:977`): the programs have `adr` at their beginning; an indirect call can
be split by a pool (854): there is none in the programs; the assertion allows offsets
of 4096 and 1024 where the fields hold 4095 and 1020, which `PoolsInReach` does not
accept; directives do not test for a pool.

ARM interpreter (the goals of `ArmVm` and `MCArmTasks` keep to operands where the
instructions are right): MVN's flags are those of the operand; CMN negates its operand,
so carry is wrong for 0 and overflow for the least word; the flags of ADC use the
operand with the carry added; ROR of a negative word; shifts by 32; bytes are checked
as words, and the last words of the address space pass; LDM and STM skip R15; MSR and
MRS use `fpscr`; MNF negates and DVF and RDF, LOG and LGN set their status whatever the
condition; carry of the FPA comparison for mixed signs; FNMSC; FTOUIZD; FUITOD and
FUITOS; FDIVD by zero; WFS, RFS, SIMD and SXT ignore the condition; the byte-wise and
the exchanging SIMD instructions, their GE flags, the mask of UHADDSUBX, halving of
negative lanes, saturation of unsigned lanes; rotation of negative words before
extension.  SBC and RSC are not interpreted.

Halfword transfers: the encoder shifts the high half of a constant offset by 8 and not
by 4 (`arm_encode.c:2181`), which ORs it into the destination; the disassembler
looks for it at bits 8 to 11 and reads it into the low half (`arm_disass.c:258`).  Both
are modelled as written.  `CodeRoundTrips` states what arrives of an offset above 15
(`Arriving`): its low half, and another destination.

Encoder and disassembler (`AllInstructions` leaves these forms out): register offsets
of the halfword transfers; FMDRR, FMRRD, FMSRR and FMRRS decode as one (921 to 958); FUITOD
is encoded as FTOUIZD (`arm_encode.c:1719`), FCMPEZS as a comparison of two (1987); the
low bits of FCMPS, FCMPES and FCMPZS are exchanged (`arm_disass.c:770`); extended
precision decodes as 16 bytes; the status bit of LDM is not decoded; SWI numbers of
more than 24 bits overlap the condition (904); shifts of an offset by a register are
dropped.

## Proofs

Every theorem holds for all values of the constants its module declares (with the named
assumption of that module, which TLC evaluates on the instances).  "Bound" constants
such as `MaxFrames` or `MaxTemps` are any numbers.

| Module | Theorems | Assumed |
|---|---|---|
| `VmHeapProofs` | `TypeCorrect`, `BlocksNeverOverlap`, `LeaksAreSeen`, `CountsStayPositive`, `Refinement` (the heap implements `RefObjects`) | `HeapAssumption`; the last two also `WholeBlocks` |
| `SymbolTableProofs` | `TypeCorrect`, `ScopesFound`, `FrameNeverShared`, `Refinement` (the table implements `Environment`) | `SymbolAssumption`; `Refinement` also `MaxDepth < MaxLevels` |
| `ScopesFrames`, `ScopesProofs` | `TypeCorrect`, `ErrorsGoToInnermost`, `ErrorsDoNotLeave`, `StackIsAsCompiled`, `OwnersAreCounted`, `NoAssertionFails`, `ErrorsReachCatchers` | `ScopesAssumption` |
| `StringsProofs` | `StringsAreValues`, `BlocksAreCounted`, `MemoryIsSafe` | the assumption of `Strings`, and `Supported` |
| `MemoryProofs` | `RoutinesAreRight`, `DifferentStringsDiffer` | `MemoryAssumption`; the first also `Supported` and, for `_memcmp`, `LowScratch` |
| `DivisionProofs` | `DivisionIsRight` | `DivisionAssumption` |

`MemoryRight` and `QuotientRight` of the run `routines` say of a few instances of
`Memory` and `Division` what the last three theorems say of all.

`ListLemmas` has what they share: what removing, adding and replacing an element does to
a list, and the two forms of induction the provers can use.  The induction theorems of
the library take an operator as a parameter, which no installed prover instantiates; a
set does as well.  `MinNat` gives the least element of a set of naturals, and
`InductionUpTo` says that a set with 0 and the successors of its members has every
number up to a bound.  What a recursive function computes is proved with them: that a
function with its equations exists on `0 .. n`, and then what it has in common with
what is wanted (the words in a list, the powers of two, the bytes of a word).

### Heap of the interpreter

`Lists`, that the lists hold blocks of positive size which do not overlap, is inductive
whatever REALLOC does to the memory, so `TypeCorrect`, `BlocksNeverOverlap` and
`LeaksAreSeen` need no condition.  `IInv` adds `CountsPositive`, which is not inductive
alone: a count stays positive because no store into another block reaches it, and
for the copy of REALLOC this is what `WholeBlocks` is for.  One lemma per operation on
lists lifts the facts about removing, adding and shrinking an element to both lists,
then there is one step per action.  `LeaksAreSeen` needs a second invariant,
`WordsKept`: the words of the free and the used list together are the words of the heap.
It is about a sum over a list, so the sum is taken apart at the element an operation
touches.  For `Refinement` every action is mapped to the action of `RefObjects` on the
objects the used list holds, or to a stutter.

### Symbol tables

`IInv` says that every node of the table is in the bucket of its key, has the name of
its symbol and is listed by a level (`Hashed`, `Named`), that what a level lists is in
the table (`Found`) and on no other level's list (`Once`), that the numbers of
temporaries do not reach the names of the program (`Counted`), and `FrameSound`.
`TableMatchesScopes` alone is not inductive: a promotion removes the node of a temporary
by its key and the end of a level removes what its list names, and neither would leave
the rest alone if a key or a symbol were there twice.  `Refinement` leaves out the 33rd
level, which the code lets a program open although the table has none (see
"Disagreements").

### Scopes

A frame's state is compile-time state (the levels, the handler list) and run-time state
(slots, entries, counter), and an error handler brings back compile-time state that was
saved in the handler list, which holds frames' states in turn.  So the invariant of one
frame (`Shaped` in `ScopesFrames`) is about the set of all states that the text of the
procedure can have at the labels of its lists: `Closed(E)` says that a label leads to a
place whose own list is in the set again.  `Stacked` says, for sound programs, that the
entries on the cleanup stack from a place on are the symbols of the blocks from a level
on.  `ScopesInv` says this of every frame, of those that wait for a call as well
(`Caller`: the body of a TRY holds nothing when the callee may fail, and there is room
for a result), with `live` symbols still to pop in the innermost.

`OwnersAreCounted` needs a count of owners.  `Holdings` maps each block to the set of
places (a frame and a position on its stack) that will drop it, and `CountsInv` says
that the count of a block is the cardinality of that set, and one more for a result on
its way.  An action adds a place to one set, takes one from another or moves one; the
lemmas `CountPlus` and `CountMinus` then follow from the library's facts on
cardinalities.  `SoundInv == ScopesInv /\ (uses = {} => CountsInv)` is inductive.
`NoAssertionFails` follows, since a slot in scope has a place on the stack.

`ErrorsReachCatchers` is an action property and the half of `CallersHandleErrors` and
`UnwindingEnds` that does not depend on fairness: each step of an unwinding removes a
procedure or an entry, none changes which callers have a handler, and the error is
cleared by the innermost of these.  TLC then adds that the steps are taken.

### Strings

`Good(m, O)` is an invariant of a memory `m` and a set `O` of slots that own what they
refer to: the count of a block is the number of its owners, a reference ends within the
bytes in use of its block, and these within the block, so that what is appended lies
behind everybody's characters.  `O` is a parameter because an operation of the model is
several calls, and between them a reference is owned twice or by nobody; each call has a
lemma from `Good(m, O)` to `Good(m', O')`.  `IInv` adds that the text each variable
refers to is its value in `vals`, which is not inductive without the owners: an append
in place is right because nobody else's characters lie behind the string.  `Supported ==
~SliceFirst /\ ~BothEmpty /\ (HaveAlloc => ~KeepSlices)` leaves out exactly the
statements that are compiled wrongly; without the first TLC finds the violation
(`strings_slice_first`).

### Memory routines

`IInv` says at each label which part of memory is done (`Partial`): all bytes below the
pointer are as the interpreter leaves them and all others as they were.  The proofs of
the block loops go through the number of bytes a pass moves; the comparison by words
needs that two words differ exactly when one of their bytes does, and the order of two
strings that the first difference decides.  `Supported` and `LowScratch` name where
the routines are wrong (see "Disagreements").  `DifferentStringsDiffer` assumes neither.
Its invariant, `PassedInv`, says only that all words and bytes before the pointer are
the same in both strings: with any R9 the word loop may go past the end, but not past a
difference.

### Division

`IInv == Types /\ Steps /\ QuotientRight`.  In the middle of a pass (`Pass(k, j, e, z)`)
the divisor is `j` chunks up, the dividend is `z` times the divisor at bit `k + 1` plus
the remainder, which is smaller, and the quotient register holds the marks with `z`
below them.  There are as many marks as bits of the quotient are still to be made, less
the `e` of the pass that was entered first: that a pass follows for each chunk of marks
and none after them, and that no bit of `z` is taken for one, is what makes the routine
right, and it needs `z` to be as short as the tests at the beginning have found.
Unsigned words and magnitudes are related at the beginning and the end, with the least
integer and its negation among them.  The result is claimed as `QuotientRight` states
it: remainders by negative divisors have the wrong sign in the code.

## Only model-checked

- Liveness under fairness (`CallersHandleErrors`, `UnwindingEnds`, `RoutinesEnd`,
  `FullPeriod`), and ENABLED: beyond the prover.
- `ArmHeap`: the invariants and the refinement.  Its lists are linked through the
  blocks and its places are folds over them with an operator as the argument; powers
  of two decide the list.
- `Vectors`, `Arrays`, `Slices`: two layers of counts, products of any number of
  dimensions, and texts repeated n times.
- `Random`, `Conversions`, `Folding` and `Arith`: exponentiation and Bitwise, and
  numerals of any length.
- `ArmEncode`, `ArmDisass`, `ArmImm`, `ArmMachine`, `ArmVm`, `ArmPool`: Bitwise and
  recursive operators, in whose modules no theorem can stand.
- `RegCode`, `RegAlloc`: the families of programs of `MCRegAlloc`.  An invariant for
  every program would have to relate next uses, spill slots and the places where blocks
  meet.

## Not modelled

- Lexer, parser of expressions and types: sequential, over one stream of tokens,
  without state that another part reads; the tables of typing rules are cases.
- Instruction selection (`rv` and `arm` rule tables, `arm_gen.c`, `fpa_gen.c`,
  `vfp_gen.c`): a match of IR patterns against rules.  What a rule makes of an
  instruction is straight-line code, of which `ArmImm` models the choice of constants.
- Inline assembler (`assembler.c`, `arm_expression.c`): a second parser and an
  evaluator of constants.  What it makes of a line is an instruction for `ArmEncode`.
- Operating system calls in `vm.c`, `arm_vm.c` (SWI), `riscos_arm.c`: input and output.
- END, which leaves the program without unwinding on purpose; escape handling, a no-op
  in the IR interpreter; the expression forms of TRY.
- Arrays of records and of functions, the COPY functions, strings that end in a zero.
- Bit sets, buffers, size-limited vectors: containers with unit tests of every
  operation.

## Plan

1. Proofs: `HeapSound` and the refinement of `RefObjects` for `ArmHeap`;
`VectorsCounted` on top of `StringsProofs`; the row-major place of `Arrays` for any
number of dimensions that is fixed. 2. `Scopes`: expression forms of TRY, references in
records. 3. `ArmPool`: pools of the FPA, and addresses anywhere in a section once the
order of the patch is settled. 4. Instruction selection for a few rules, checked on
`ArmMachine` against `Arith`.
