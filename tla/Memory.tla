------------------------------- MODULE Memory -------------------------------
(***************************************************************************)
(* The routines that fill, copy and compare memory, and the comparisons of *)
(* strings built on them.  The ARM back ends generate them as loops over   *)
(* blocks of eight words (four in _memcmp), then words, then bytes         *)
(* (arch/arm32/arm_mem.c); the IR interpreter calls the C library          *)
(* (frontend/vm.c).  What it fills and copies, and which strings it finds  *)
(* equal, is what the routines should do.  For the order of strings it is  *)
(* what the compiler finds for constants; the interpreter is wrong about a *)
(* string and one that begins with it.                                     *)
(*                                                                         *)
(* A byte is a set of bits, so that ORR is a union; a word is four bytes,  *)
(* the lowest first.  One action is one pass through a loop.               *)
(***************************************************************************)
EXTENDS Integers, FiniteSets, FiniteSetsExt

CONSTANTS
    Bits,           \* the bits of a byte, the sign bit its greatest
    Sizes,          \* the sizes of the calls
    Offsets,        \* the distances of the arguments from a word boundary
    FillBytes,      \* the bytes a memory is filled with
    Scratch,        \* what register R9 may hold when _memcmp is called
    Ops             \* the routines a run calls

None == -1
Byte == SUBSET Bits
BlockSize == 32

MemoryAssumption ==
    /\ Bits \subseteq Nat /\ Bits # {} /\ IsFiniteSet(Bits)
    /\ Sizes \subseteq Nat /\ Sizes # {} /\ IsFiniteSet(Sizes)
    /\ Offsets \subseteq 0 .. 3 /\ FillBytes \subseteq Byte
    /\ Scratch \subseteq Int
    /\ Ops \subseteq {"memseti32", "memseti8", "memseti64", "memcpy", "memcmp",
                      "compare"}

VARIABLES
    call,   \* [op, a, b, size, other, val, at, greater]
    pc,     \* the loop that is running
    mem,    \* the memory
    r       \* registers: the pointers x and y, end, words, val and res

vars == <<call, pc, mem, r>>

Sign == CHOOSE b \in Bits : \A c \in Bits : c <= b
Weight(byte) == SumSet({2 ^ b : b \in byte})

Longest == CHOOSE n \in Sizes : \A k \in Sizes : k <= n
RegionA == 4
RegionB == 4 * ((Longest + 12) \div 4) + 4
Addresses == 0 .. 2 * RegionB

Extent(at, n) == at .. at + n - 1

-----------------------------------------------------------------------------
(* The calls a program makes *)

\* A byte in a register is sign extended.
Extended(byte) ==
    [i \in 0 .. 3 |-> IF i = 0 THEN byte ELSE IF Sign \in byte THEN Bits ELSE {}]

Call(op, sizes, others, offsetsA, offsetsB, vals, ats) ==
    [op : {op}, size : sizes, other : others, a : offsetsA, b : offsetsB,
     val : vals, at : ats, greater : IF op = "compare" THEN BOOLEAN ELSE {FALSE}]

Fills == {Extended(f) : f \in FillBytes}
Multiples(n) == {s \in Sizes : s % n = 0}

Calls ==
    Call("memseti32", Multiples(4), {None}, {0}, {0}, Fills, {None})
    \cup Call("memseti64", Multiples(8), {None}, {0}, {0}, Fills, {None})
    \cup Call("memseti8", Sizes, {None}, Offsets, {0}, Fills, {None})
    \cup Call("memcpy", Sizes, {None}, Offsets, Offsets, {None}, {None})
    \cup Call("memcmp", Sizes, {None}, Offsets, Offsets, {None}, Sizes \cup {None})
    \cup Call("compare", Sizes, Sizes, Offsets, Offsets, {None}, Sizes \cup {None})

Pattern(i) == IF i % 3 = 2 THEN {} ELSE IF i % 3 = 0 THEN {Sign} ELSE Bits

(***************************************************************************)
(* The memory before a call: the same pattern in both regions, apart from  *)
(* one byte of one of them, the first of a string or the one after it      *)
(* included.                                                               *)
(***************************************************************************)
Memory0(c) ==
    LET atA == RegionA + c.a
        atB == RegionB + c.b
        mark(x) == \/ c.at # None /\ ~c.greater /\ x = atB + c.at
                   \/ c.at # None /\ c.greater /\ x = atA + c.at
    IN  [x \in Addresses |->
            IF mark(x) THEN {Sign} \cup Pattern((x - (IF x < RegionB THEN atA ELSE atB)) + 1)
            ELSE IF x < RegionB THEN Pattern(x - atA + 300)
            ELSE IF c.op = "memcpy" THEN Pattern(x - atB + 301)
            ELSE Pattern(x - atB + 300)]

(***************************************************************************)
(* The calls of _memseti8 it is right for: an argument at a word boundary  *)
(* and a byte that is not negative, or -1.  A program may make others: a   *)
(* slice of an array of bytes, or the value -2.                            *)
(***************************************************************************)
Supported ==
    "memseti8" \in Ops => Offsets \subseteq {0} /\ \A f \in FillBytes : Sign \in f => f = Bits

(***************************************************************************)
(* R9 holds no address behind the first words when _memcmp is called.      *)
(* Nothing in the code sees to it: R9 is what the caller left there.       *)
(***************************************************************************)
LowScratch == \A s \in Scratch : s <= RegionA + 4

-----------------------------------------------------------------------------
(* The interpreter *)

\* prv_memset, prv_memseti32, prv_memset64 and prv_memcpy of vm.c.  The high
\* word of a real is the low one with its bits inverted.
HighWord(w) == [i \in 0 .. 3 |-> Bits \ w[i]]

VmByte(c, i) ==
    CASE c.op = "memcpy" -> Memory0(c)[RegionB + c.b + i]
      [] c.op = "memseti8" -> c.val[0]
      [] c.op = "memseti32" -> c.val[i % 4]
      [] c.op = "memseti64" ->
           IF i % 8 < 4 THEN c.val[i % 4] ELSE HighWord(c.val)[i % 4]

VmMemory(c) ==
    [x \in Addresses |->
        IF c.op \notin {"memcmp", "compare"} /\ x \in Extent(RegionA + c.a, c.size)
          THEN VmByte(c, x - RegionA - c.a)
          ELSE Memory0(c)[x]]

TextA(c, i) == Memory0(c)[RegionA + c.a + i]
TextB(c, i) == Memory0(c)[RegionB + c.b + i]
Differing(c, n) == {i \in 0 .. n - 1 : TextA(c, i) # TextB(c, i)}

\* prv_memcmp
VmEqual(c) == Differing(c, c.size) = {}

\* The order of two strings: the first difference, or the shorter string.  The
\* strcmp by which the compiler compares constants (without a character 0).
Order(c) ==
    LET n == IF c.size < c.other THEN c.size ELSE c.other
        d == Differing(c, n)
        first == CHOOSE i \in d : \A j \in d : i <= j
    IN  IF d = {} THEN c.size - c.other
        ELSE Weight(TextA(c, first)) - Weight(TextB(c, first))

\* strncmp ends at the first difference, or where both strings have a 0.
StrNCmp(c, n) ==
    LET ends == {i \in 0 .. n - 1 : TextA(c, i) # TextB(c, i) \/ TextA(c, i) = {}}
        first == CHOOSE i \in ends : \A j \in ends : i <= j
    IN  IF ends = {} \/ TextA(c, first) = TextB(c, first) THEN 0
        ELSE Weight(TextA(c, first)) - Weight(TextB(c, first))

(***************************************************************************)
(* prv_compare: strings that agree up to the length of the shorter one are *)
(* equal unless it is empty.                                               *)
(***************************************************************************)
VmCompare(c) ==
    CASE c.size = 0 /\ c.other > 0 -> -1
      [] c.size > 0 /\ c.other = 0 -> 1
      [] OTHER -> StrNCmp(c, IF c.size < c.other THEN c.size ELSE c.other)

(***************************************************************************)
(* The comparisons that prv_compare is right about: with an empty string,  *)
(* of two strings that are the same, and of strings that differ before one *)
(* of them ends and with no character 0 before that.                       *)
(***************************************************************************)
VmOrders(c) ==
    LET d == Differing(c, IF c.size < c.other THEN c.size ELSE c.other)
    IN  \/ c.size = 0 \/ c.other = 0
        \/ c.size = c.other /\ d = {}
        \/ \E j \in d : \A i \in 0 .. j - 1 : TextA(c, i) # {}

-----------------------------------------------------------------------------
(* The ARM routines *)

Aligned(x) == x % 4 = 0

\* BIC x, x, #3
RoundDown(x) == x - (x % 4)

Word(x) == [i \in 0 .. 3 |-> mem[x + i]]

\* n bytes of f from address x on
Store(x, n, f(_)) ==
    mem' = [z \in Addresses |-> IF z \in Extent(x, n) THEN f(z - x) ELSE mem[z]]

Goto(label) == pc' = label

\* ORR val, val, val LSL #16 and ORR val, val, val LSL #8
Widened(w) ==
    LET h == [i \in 0 .. 3 |-> IF i < 2 THEN w[i] ELSE w[i] \cup w[i - 2]]
    IN  [i \in 0 .. 3 |-> IF i < 1 THEN h[i] ELSE h[i] \cup h[i - 1]]

\* Mutant: the end of the words is not rounded down.
CoreEndUnrounded(c) == RegionA + c.a + c.size

\* The end prv_memseti32_core is given.
CoreEnd(c) ==
    IF c.op = "memseti8" THEN RoundDown(RegionA + c.a + c.size)
    ELSE RegionA + c.a + c.size

Init ==
    /\ call \in {c \in Calls : c.op \in Ops}
    /\ pc = "enter"
    /\ mem = Memory0(call)
    /\ \E s \in Scratch :
          r = [x |-> RegionA + call.a, y |-> RegionB + call.b, end |-> 0,
               words |-> s, val |-> call.val, res |-> None]

\* prv_memseti32_core and the start of subtilis_arm_mem_memseti8
EnterSet ==
    /\ pc = "enter"
    /\ call.op \in {"memseti32", "memseti8", "memseti64"}
    /\ IF call.op = "memseti8" /\ call.size < 4
         THEN r' = [r EXCEPT !.end = r.x + call.size] /\ Goto("bytes")
         ELSE /\ r' = [r EXCEPT !.end = CoreEnd(call),
                                !.val = IF call.op = "memseti8" THEN Widened(@) ELSE @]
              /\ Goto(IF r.x > CoreEnd(call) - BlockSize THEN "words" ELSE "block")
    /\ UNCHANGED <<call, mem>>

\* Is the next word of a real its high one?
ValueAt(i) ==
    IF call.op = "memseti64" /\ i % 8 >= 4 THEN HighWord(r.val)[i % 4] ELSE r.val[i % 4]

SetBlock ==
    /\ pc = "block" /\ call.op \in {"memseti32", "memseti8", "memseti64"}
    /\ Store(r.x, BlockSize, ValueAt)
    /\ r' = [r EXCEPT !.x = @ + BlockSize]
    /\ Goto(IF r'.x < r.end - BlockSize THEN "block" ELSE "words")
    /\ UNCHANGED call

SetWords ==
    /\ pc = "words" /\ call.op \in {"memseti32", "memseti8", "memseti64"}
    /\ IF r.x >= r.end
         THEN /\ IF call.op = "memseti8"
                   THEN r' = [r EXCEPT !.end = r.x + (call.size % 4)] /\ Goto("bytes")
                   ELSE Goto("done") /\ UNCHANGED r
              /\ UNCHANGED mem
         ELSE /\ LET n == IF call.op = "memseti64" THEN 8 ELSE 4
                 IN  Store(r.x, n, ValueAt) /\ r' = [r EXCEPT !.x = @ + n]
              /\ Goto("words")
    /\ UNCHANGED call

SetBytes ==
    /\ pc = "bytes" /\ call.op = "memseti8"
    /\ IF r.x >= r.end
         THEN Goto("done") /\ UNCHANGED <<mem, r>>
         ELSE /\ Store(r.x, 1, ValueAt)
              /\ r' = [r EXCEPT !.x = @ + 1]
              /\ Goto("bytes")
    /\ UNCHANGED call

-----------------------------------------------------------------------------
(* subtilis_arm_mem_memcpy *)

EnterCopy ==
    /\ pc = "enter" /\ call.op = "memcpy"
    /\ r' = [r EXCEPT !.end = r.x + call.size]
    /\ Goto(IF ~Aligned(r.x) \/ ~Aligned(r.y) THEN "bytes"
            ELSE IF r.x > r'.end - BlockSize THEN "words" ELSE "block")
    /\ UNCHANGED <<call, mem>>

Source(i) == mem[r.y + i]

\* Mutant: the destination is not moved on.
CopyStepStuck(n, next) ==
    /\ Store(r.x, n, Source)
    /\ r' = [r EXCEPT !.y = @ + 0]
    /\ Goto(next)

CopyStep(n, next) ==
    /\ Store(r.x, n, Source)
    /\ r' = [r EXCEPT !.x = @ + n, !.y = @ + n]
    /\ Goto(next)

CopyBlock ==
    /\ pc = "block" /\ call.op = "memcpy"
    /\ CopyStep(BlockSize,
                IF r.x + BlockSize < r.end - BlockSize THEN "block" ELSE "words")
    /\ UNCHANGED call

CopyWords ==
    /\ pc = "words" /\ call.op = "memcpy"
    /\ IF r.x >= RoundDown(r.end)
         THEN Goto("bytes") /\ UNCHANGED <<mem, r>>
         ELSE CopyStep(4, "words")
    /\ UNCHANGED call

CopyBytes ==
    /\ pc = "bytes" /\ call.op = "memcpy"
    /\ IF r.x >= r.end
         THEN Goto("done") /\ UNCHANGED <<mem, r>>
         ELSE CopyStep(1, "bytes")
    /\ UNCHANGED call

-----------------------------------------------------------------------------
(* subtilis_arm_mem_memcmp *)

CompareBlockSize == 16

EnterCompare ==
    /\ pc = "enter" /\ call.op = "memcmp"
    /\ r' = [r EXCEPT !.end = r.x + call.size]
    /\ Goto(IF r.x > r'.end - CompareBlockSize THEN "words" ELSE "block")
    /\ UNCHANGED <<call, mem>>

\* n bytes are equal and the loop goes on at next, or the result is FALSE.
CompareStep(n, next, words) ==
    IF \A i \in 0 .. n - 1 : mem[r.x + i] = mem[r.y + i]
      THEN /\ r' = [r EXCEPT !.x = @ + n, !.y = @ + n, !.words = words]
           /\ Goto(next)
      ELSE r' = [r EXCEPT !.res = 0, !.words = words] /\ Goto("done")

CompareBlock ==
    /\ pc = "block" /\ call.op = "memcmp"
    /\ LET more == r.x + 16 < r.end - CompareBlockSize
       IN  CompareStep(16, IF more THEN "block" ELSE "words",
                       IF more THEN r.words ELSE r.end)
    /\ UNCHANGED <<call, mem>>

(***************************************************************************)
(* R9 holds the end of the words only when the block loop has run, and     *)
(* moves down as the pointer moves up.                                     *)
(***************************************************************************)
CompareWords ==
    /\ pc = "words" /\ call.op = "memcmp"
    /\ IF r.x >= r.words - 4
         THEN r' = [r EXCEPT !.words = @ - 4] /\ Goto("bytes")
         ELSE CompareStep(4, "words", r.words - 4)
    /\ UNCHANGED <<call, mem>>

CompareBytes ==
    /\ pc = "bytes" /\ call.op = "memcmp"
    /\ IF r.x >= r.end
         THEN r' = [r EXCEPT !.res = -1] /\ Goto("done")
         ELSE CompareStep(1, "bytes", r.words)
    /\ UNCHANGED <<call, mem>>

-----------------------------------------------------------------------------
(* subtilis_arm_mem_strcmp *)

EnterOrder ==
    /\ pc = "enter" /\ call.op = "compare"
    /\ r' = [r EXCEPT !.end = r.x + (IF call.size <= call.other THEN call.size
                                     ELSE call.other)]
    /\ Goto("words")
    /\ UNCHANGED <<call, mem>>

\* Mutant: the first byte of a word is not compared.
OrderStepFirstLost(n, next) ==
    LET d == {i \in 0 .. n - 1 : (n = 1 \/ i > 0) /\ mem[r.x + i] # mem[r.y + i]}
        first == CHOOSE i \in d : \A j \in d : i <= j
    IN  IF d = {}
          THEN r' = [r EXCEPT !.x = @ + n, !.y = @ + n] /\ Goto(next)
          ELSE /\ r' = [r EXCEPT !.res = Weight(mem[r.x + first]) - Weight(mem[r.y + first])]
               /\ Goto("done")

\* The first of n bytes that differs decides.
OrderStep(n, next) ==
    LET d == {i \in 0 .. n - 1 : mem[r.x + i] # mem[r.y + i]}
        first == CHOOSE i \in d : \A j \in d : i <= j
    IN  IF d = {}
          THEN r' = [r EXCEPT !.x = @ + n, !.y = @ + n] /\ Goto(next)
          ELSE /\ r' = [r EXCEPT !.res = Weight(mem[r.x + first]) - Weight(mem[r.y + first])]
               /\ Goto("done")

OrderWords ==
    /\ pc = "words" /\ call.op = "compare"
    /\ IF r.x > r.end - 4
         THEN Goto("bytes") /\ UNCHANGED r
         ELSE OrderStep(4, "words")
    /\ UNCHANGED <<call, mem>>

OrderBytes ==
    /\ pc = "bytes" /\ call.op = "compare"
    /\ IF r.x >= r.end
         THEN r' = [r EXCEPT !.res = call.size - call.other] /\ Goto("done")
         ELSE OrderStep(1, "bytes")
    /\ UNCHANGED <<call, mem>>

Next ==
    \/ EnterSet \/ SetBlock \/ SetWords \/ SetBytes
    \/ EnterCopy \/ CopyBlock \/ CopyWords \/ CopyBytes
    \/ EnterCompare \/ CompareBlock \/ CompareWords \/ CompareBytes
    \/ EnterOrder \/ OrderWords \/ OrderBytes

Spec == Init /\ [][Next]_vars /\ WF_vars(Next)

-----------------------------------------------------------------------------
(* Comparisons of strings: frontend/string_type_if.c *)

(***************************************************************************)
(* prv_eq_non_const_const: a constant of the same length is compared with  *)
(* one load when it has one or four characters, with _memcmp otherwise.    *)
(***************************************************************************)
EqualConstant(c, memcmp) ==
    IF c.size \in {1, 4}
      THEN \A i \in 0 .. c.size - 1 : TextA(c, i) = TextB(c, i)
      ELSE memcmp

\* prv_compare: the result of _compare against 0, the operands swapped back.
Relations(res) == [lt |-> res < 0, lte |-> res <= 0, gt |-> res > 0, gte |-> res >= 0]

-----------------------------------------------------------------------------
(* Properties *)

TypeOK ==
    /\ mem \in [Addresses -> Byte]
    /\ pc \in {"enter", "block", "words", "bytes", "done"}
    /\ r.x \in Addresses /\ r.y \in Addresses

(***************************************************************************)
(* When a routine returns, the memory is what the interpreter makes of it: *)
(* every byte that was asked for is written, and no other.                 *)
(***************************************************************************)
WrittenRight == pc = "done" => mem = VmMemory(call)

(***************************************************************************)
(* _memcmp finds equality as the interpreter does, if R9 is low.  _compare *)
(* orders strings as the compiler orders constants, and as the interpreter *)
(* does where that is right.  This is so for every length and alignment    *)
(* and whatever bytes lie next to the strings.                             *)
(***************************************************************************)
ResultRight ==
    pc = "done" =>
        /\ call.op = "memcmp" /\ LowScratch => EqualConstant(call, r.res = -1) = VmEqual(call)
        /\ call.op = "compare" => Relations(r.res) = Relations(Order(call))
        /\ call.op = "compare" /\ VmOrders(call) => Relations(r.res) = Relations(VmCompare(call))

(***************************************************************************)
(* Whatever R9 holds, _memcmp does not find two different strings equal:   *)
(* it may compare too many words, but every word it passes is the same in  *)
(* both.                                                                   *)
(***************************************************************************)
DifferentDiffer ==
    pc = "done" /\ call.op = "memcmp" /\ EqualConstant(call, r.res = -1) => VmEqual(call)

(***************************************************************************)
(* No routine moves past the end of its argument, the shorter one of two   *)
(* strings, except _memcmp if R9 is not low.                               *)
(***************************************************************************)
PointersInRange ==
    r.end > 0 => /\ r.x <= RegionA + call.a + call.size
                 /\ call.op = "compare" => r.x <= RegionA + call.a + call.other

(***************************************************************************)
(* In calls with Supported and LowScratch, a routine fills and copies what *)
(* the interpreter does and nothing beside it, finds equality and order,   *)
(* and stays within its arguments.                                         *)
(***************************************************************************)
RoutinesRight == TypeOK /\ PointersInRange /\ WrittenRight /\ ResultRight /\ DifferentDiffer

Done == pc = "done"
=============================================================================
