---------------------------- MODULE MemoryProofs ----------------------------
(***************************************************************************)
(* Proofs about Memory, for arguments of every size and, but for the       *)
(* filling of bytes, every alignment: what the routines of the ARM back    *)
(* ends write and answer.  What _memcmp answers is right if R9 is low when *)
(* it is called; of any R9 it is proved that different strings are not     *)
(* found equal.                                                            *)
(*                                                                         *)
(* The invariant says what the loops have done so far: the bytes before    *)
(* the pointer x are as the interpreter would leave them, or are equal in  *)
(* both arguments, and a loop over words or blocks has room for one more.  *)
(***************************************************************************)
EXTENDS Memory, ListLemmas, FiniteSetTheorems

Labels == {"enter", "block", "words", "bytes", "done"}
Setting == {"memseti32", "memseti8", "memseti64"}
Comparing == {"memcmp", "compare"}
AllOps == Setting \cup Comparing \cup {"memcpy"}
WordValue == [0 .. 3 -> Byte]

-----------------------------------------------------------------------------
(* The arguments of a call *)

\* A finite set of naturals has a greatest element.
LEMMA Greatest ==
    ASSUME NEW S \in SUBSET Nat, IsFiniteSet(S), S # {}
    PROVE  \E x \in S : \A y \in S : y <= x
<1> DEFINE HasMax(U) == \E x \in U : \A y \in U : y <= x
           T == {k \in Nat : \A U \in SUBSET S : Cardinality(U) = k /\ U # {} => HasMax(U)}
<1>1. Cardinality(S) \in Nat
  BY FS_CardinalityType
<1>2. 0 \in T
  <2> SUFFICES ASSUME NEW U \in SUBSET S, Cardinality(U) = 0 PROVE U = {}
    OBVIOUS
  <2> QED
    BY FS_Subset, FS_EmptySet
<1>3. ASSUME NEW k \in Nat, k \in T
      PROVE  k + 1 \in T
  <2> SUFFICES ASSUME NEW U \in SUBSET S, Cardinality(U) = k + 1, U # {} PROVE HasMax(U)
    OBVIOUS
  <2>1. PICK u : u \in U
    OBVIOUS
  <2>2. IsFiniteSet(U)
    BY FS_Subset
  <2>3. Cardinality(U \ {u}) = k
    <3>1. Cardinality(U \ {u}) = Cardinality(U) - 1
      BY <2>1, <2>2, FS_RemoveElement
    <3> HIDE DEF T
    <3> QED
      BY <3>1
  <2>4. CASE U \ {u} = {}
    BY <2>1, <2>4
  <2>5. CASE U \ {u} # {}
    <3>1. PICK x \in U \ {u} : \A y \in U \ {u} : y <= x
      BY <1>3, <2>3, <2>5
    <3>2. u \in Nat /\ x \in Nat
      BY <2>1
    <3>3. CASE u <= x
      BY <3>1, <3>3
    <3>4. CASE ~ (u <= x)
      <4>1. \A y \in U : y <= u
        BY <3>1, <3>2, <3>4
      <4> QED
        BY <2>1, <4>1
    <3> QED
      BY <3>3, <3>4
  <2> QED
    BY <2>4, <2>5
<1> HIDE DEF T
<1>4. Cardinality(S) \in T
  BY <1>1, <1>2, <1>3, InductionUpTo
<1> QED
  BY <1>4 DEF T

\* The regions lie apart, and an argument of any size fits into its region.
LEMMA Regions ==
    ASSUME MemoryAssumption
    PROVE  /\ RegionA = 4 /\ RegionB \in Nat
           /\ \A n \in Sizes : n \in Nat /\ n + 13 <= RegionB
           /\ Sign \in Bits
<1>1. Sign \in Bits
  BY Greatest DEF MemoryAssumption, Sign
<1>2. \E m \in Sizes : \A k \in Sizes : k <= m
  BY Greatest DEF MemoryAssumption
<1>3. Longest \in Sizes /\ \A k \in Sizes : k <= Longest
  BY <1>2 DEF Longest
<1>4. Longest \in Nat /\ Sizes \subseteq Nat
  BY <1>3 DEF MemoryAssumption
<1> QED
  BY <1>1, <1>3, <1>4 DEF RegionA, RegionB
LEMMA CallTypes ==
    ASSUME MemoryAssumption, Supported, NEW c \in Calls, c.op \in Ops
    PROVE  /\ c.op \in AllOps
           /\ c.size \in Sizes /\ c.a \in 0 .. 3 /\ c.b \in 0 .. 3
           /\ c.op \in Setting => c.a = 0 /\ c.b = 0 /\ c.val \in WordValue
           /\ c.op = "memseti32" => c.size % 4 = 0
           /\ c.op = "memseti64" => c.size % 8 = 0
           /\ c.op = "memseti8" => \A i \in 0 .. 3 : c.val[i] \subseteq c.val[0]
           /\ c.op \notin Setting => c.val = None
           /\ c.op = "compare" => c.other \in Sizes
<1>1. \A w \in Fills : w \in WordValue
  <2>1. ASSUME NEW f \in FillBytes PROVE Extended(f) \in WordValue
    <3>1. f \in Byte /\ {} \in Byte /\ Bits \in Byte
      BY DEF MemoryAssumption, Byte
    <3> QED
      BY <3>1 DEF Extended, WordValue
  <2> QED
    BY <2>1 DEF Fills
<1>2. ASSUME "memseti8" \in Ops, NEW w \in Fills
      PROVE  \A i \in 0 .. 3 : w[i] \subseteq w[0]
  BY <1>2 DEF Fills, Extended, Supported
<1>3. Offsets \subseteq 0 .. 3 /\ Multiples(4) \subseteq Sizes /\ Multiples(8) \subseteq Sizes
  BY DEF MemoryAssumption, Multiples
<1>4. CASE c \in Call("memseti32", Multiples(4), {None}, {0}, {0}, Fills, {None})
  BY <1>1, <1>3, <1>4 DEF Call, AllOps, Setting, Comparing, Multiples
<1>5. CASE c \in Call("memseti64", Multiples(8), {None}, {0}, {0}, Fills, {None})
  BY <1>1, <1>3, <1>5 DEF Call, AllOps, Setting, Comparing, Multiples
<1>6. CASE c \in Call("memseti8", Sizes, {None}, Offsets, {0}, Fills, {None})
  <2>1. c.op = "memseti8" /\ c.size \in Sizes /\ c.a \in Offsets /\ c.b = 0 /\ c.val \in Fills
    BY <1>6 DEF Call
  <2> QED
    BY <1>1, <1>2, <1>3, <2>1 DEF AllOps, Setting, Comparing, Supported
<1>7. CASE c \in Call("memcpy", Sizes, {None}, Offsets, Offsets, {None}, {None})
  BY <1>3, <1>7 DEF Call, AllOps, Setting, Comparing
<1>8. CASE c \in Call("memcmp", Sizes, {None}, Offsets, Offsets, {None}, Sizes \cup {None})
  BY <1>3, <1>8 DEF Call, AllOps, Setting, Comparing
<1>9. CASE c \in Call("compare", Sizes, Sizes, Offsets, Offsets, {None}, Sizes \cup {None})
  BY <1>3, <1>9 DEF Call, AllOps, Setting, Comparing
<1> QED
  BY <1>4, <1>5, <1>6, <1>7, <1>8, <1>9 DEF Calls

\* A call, with its types and regions at hand.
Sound(c) ==
    /\ c.op \in AllOps
    /\ c.size \in Nat /\ c.a \in 0 .. 3 /\ c.b \in 0 .. 3
    /\ RegionA = 4 /\ RegionB \in Nat /\ c.size + 13 <= RegionB
    /\ c.op \in Setting => c.a = 0 /\ c.b = 0 /\ c.val \in WordValue
    /\ c.op = "memseti32" => c.size % 4 = 0
    /\ c.op = "memseti64" => c.size % 8 = 0
    /\ c.op = "memseti8" => \A i \in 0 .. 3 : c.val[i] \subseteq c.val[0]
    /\ c.op \notin Setting => c.val = None
    /\ c.op = "compare" => c.other \in Nat /\ c.other + 13 <= RegionB

LEMMA CallSound ==
    ASSUME MemoryAssumption, Supported, NEW c \in Calls, c.op \in Ops
    PROVE  Sound(c)
BY CallTypes, Regions DEF Sound

LEMMA MemoryType ==
    ASSUME MemoryAssumption, NEW c
    PROVE  Memory0(c) \in [Addresses -> Byte]
<1>1. {} \in Byte /\ {Sign} \in Byte /\ Bits \in Byte
  BY Regions DEF Byte
<1>2. \A i : Pattern(i) \in Byte
  BY <1>1 DEF Pattern
<1>3. \A i : {Sign} \cup Pattern(i) \in Byte
  BY <1>1, <1>2 DEF Byte
<1> QED
  BY <1>2, <1>3 DEF Memory0

-----------------------------------------------------------------------------
(* What is written *)

\* The memory when the bytes of the first argument before x are written.
Partial(c, x) ==
    [z \in Addresses |->
        IF c.op \notin Comparing /\ z \in Extent(RegionA + c.a, x - RegionA - c.a)
          THEN VmByte(c, z - RegionA - c.a)
          ELSE Memory0(c)[z]]

\* The beginning and the end of the work.
LEMMA PartialEnds ==
    ASSUME NEW c, Sound(c), NEW x \in Int
    PROVE  /\ c.op \in Comparing \/ x = RegionA + c.a => Partial(c, x) = Memory0(c)
           /\ c.op \in Comparing \/ x = RegionA + c.a + c.size => Partial(c, x) = VmMemory(c)
<1>1. RegionA + c.a \in Int /\ c.size \in Int
  BY DEF Sound
<1>2. x = RegionA + c.a + c.size => x - RegionA - c.a = c.size
  BY DEF Sound
<1>3. x = RegionA + c.a => Extent(RegionA + c.a, x - RegionA - c.a) = {}
  BY DEF Sound, Extent
<1>4. \A y : Memory0(c) = [z \in Addresses |-> Memory0(c)[z]]
  BY DEF Memory0
<1>5. c.op \in Comparing \/ x = RegionA + c.a => Partial(c, x) = Memory0(c)
  BY <1>3, <1>4 DEF Partial
<1>6. c.op \in Comparing \/ x = RegionA + c.a + c.size => Partial(c, x) = VmMemory(c)
  BY <1>2 DEF Partial, VmMemory, Comparing
<1> QED
  BY <1>5, <1>6

\* A store of what the interpreter writes there.
LEMMA PartialStore ==
    ASSUME NEW c, Sound(c), c.op \notin Comparing,
           NEW x \in Int, x >= RegionA + c.a, NEW n \in Nat, NEW g, NEW m,
           \A i \in 0 .. n - 1 : g[i] = VmByte(c, (x - RegionA - c.a) + i),
           m = [z \in Addresses |-> IF z \in Extent(x, n) THEN g[z - x] ELSE Partial(c, x)[z]]
    PROVE  m = Partial(c, x + n)
<1>1. RegionA + c.a \in Int /\ RegionA \in Int /\ c.a \in Int
  BY DEF Sound
<1>2. ASSUME NEW z \in Addresses
      PROVE  m[z] = Partial(c, x + n)[z]
  <2>1. z \in Int
    BY <1>1 DEF Addresses, Sound
  <2>2. CASE z \in Extent(x, n)
    <3>1. z - x \in 0 .. n - 1 /\ (x - RegionA - c.a) + (z - x) = z - RegionA - c.a
      BY <1>1, <2>1, <2>2 DEF Extent
    <3>2. z \in Extent(RegionA + c.a, (x + n) - RegionA - c.a)
      BY <1>1, <2>1, <2>2 DEF Extent
    <3> QED
      BY <2>2, <3>1, <3>2 DEF Partial
  <2>3. CASE z \notin Extent(x, n)
    <3>1. z \in Extent(RegionA + c.a, (x + n) - RegionA - c.a) <=> z \in Extent(RegionA + c.a, x - RegionA - c.a)
      BY <1>1, <2>1, <2>3 DEF Extent
    <3> QED
      BY <2>3, <3>1 DEF Partial
  <2> QED
    BY <2>2, <2>3
<1> QED
  BY <1>2 DEF Partial

\* The second argument is not written to.
LEMMA SourceKept ==
    ASSUME NEW c, Sound(c), NEW x \in Int, x >= RegionA + c.a, x <= RegionA + c.a + c.size,
           NEW i \in Nat, i < c.size
    PROVE  /\ RegionB + c.b + i \in Addresses
           /\ Partial(c, x)[RegionB + c.b + i] = Memory0(c)[RegionB + c.b + i]
<1>1. /\ RegionA + c.a \in Int /\ RegionB + c.b + i \in Int /\ RegionB + c.b + i >= x
      /\ x - RegionA - c.a \in Int /\ RegionB + c.b + i \in 0 .. 2 * RegionB
  BY DEF Sound
<1>2. RegionB + c.b + i \notin Extent(RegionA + c.a, x - RegionA - c.a)
  BY <1>1 DEF Extent, Sound
<1> QED
  BY <1>1, <1>2 DEF Partial, Addresses

-----------------------------------------------------------------------------
(* The invariant *)

Registers(s) ==
    s \in [x : Int, y : Int, end : Int, words : Int, val : WordValue \cup {None}, res : {s.res}]

Start == RegionA + call.a

\* What a loop that fills has in its registers: the bytes of a word as they are to be
\* written, and room for a block or a word.
FillInv ==
    /\ r.x - Start >= 0 /\ r.val \in WordValue
    /\ pc = "enter" => r.x = Start /\ r.val = call.val
    /\ pc \in {"block", "words"} =>
          /\ r.end = CoreEnd(call)
          /\ (r.x - Start) % (IF call.op = "memseti64" THEN 8 ELSE 4) = 0
          /\ \A i \in 0 .. 3 : r.val[i] = IF call.op = "memseti8" THEN call.val[0] ELSE call.val[i]
    /\ pc = "block" => r.x + BlockSize <= r.end
    /\ pc = "bytes" => call.op = "memseti8" /\ r.end = Start + call.size /\ r.val[0] = call.val[0]
    /\ pc = "done" => r.x = Start + call.size

\* Both pointers of a copy have moved equally far.
CopyInv ==
    /\ r.y - RegionB - call.b = r.x - Start
    /\ pc = "enter" => r.x = Start
    /\ pc \in {"block", "words", "bytes"} => r.end = Start + call.size
    /\ pc \in {"block", "words"} => r.x % 4 = 0
    /\ pc = "block" => r.x + BlockSize <= r.end
    /\ pc = "done" => r.x = Start + call.size

Agree(c, n) == \A i \in 0 .. n - 1 : TextA(c, i) = TextB(c, i)

\* The bytes before the pointers are equal, and R9 does not let a word reach past the
\* end.
EqualInv ==
    /\ r.y - RegionB - call.b = r.x - Start
    /\ pc # "done" => Agree(call, r.x - Start)
    /\ pc = "enter" => r.x = Start /\ r.words <= Start + 4 /\ r.res = None
    /\ pc \in {"block", "words", "bytes"} => r.end = Start + call.size /\ r.res = None
    /\ pc = "block" => r.x + CompareBlockSize <= r.end
    /\ pc = "words" => r.words <= r.end \/ r.words <= r.x + 4
    /\ pc = "done" => (r.res = None <=> Agree(call, call.size))

Shorter(c) == IF c.size <= c.other THEN c.size ELSE c.other

\* The same for the order, whose result is decided by the first difference.
OrderInv ==
    /\ r.y - RegionB - call.b = r.x - Start
    /\ r.x <= Start + Shorter(call)
    /\ pc # "done" => Agree(call, r.x - Start)
    /\ pc = "enter" => r.x = Start
    /\ pc \in {"words", "bytes"} => r.end = Start + Shorter(call)
    /\ pc # "block"
    /\ pc = "done" => r.res = Order(call)

IInv ==
    /\ call \in Calls /\ call.op \in Ops
    /\ pc \in Labels
    /\ Registers(r)
    /\ Start <= r.x /\ r.x <= Start + call.size
    /\ call.op \in Setting => r.y = RegionB
    /\ mem = Partial(call, r.x)
    /\ call.op \in Setting => FillInv
    /\ call.op = "memcpy" => CopyInv
    /\ call.op = "memcmp" => EqualInv
    /\ call.op = "compare" => OrderInv

\* What every action starts from.
LEMMA Ready ==
    ASSUME MemoryAssumption, Supported, IInv
    PROVE  /\ Sound(call) /\ call.op \in AllOps
           /\ Start \in Nat /\ call.size \in Nat /\ RegionA = 4 /\ call.a \in 0 .. 3
           /\ RegionA \in Int /\ call.a \in Int
           /\ r.x \in Int /\ r.y \in Int /\ r.end \in Int /\ r.words \in Int
           /\ r.x - RegionA - call.a = r.x - Start /\ r.x >= RegionA + call.a
<1>1. Sound(call)
  BY CallSound DEF IInv
<1> QED
  BY <1>1 DEF Sound, Start, Registers, IInv

-----------------------------------------------------------------------------
(* Filling *)

LEMMA Remainders ==
    ASSUME NEW k \in Nat, NEW i \in Nat
    PROVE  /\ k % 4 = 0 => (k + i) % 4 = i % 4
           /\ k % 8 = 0 => (k + i) % 8 = i % 8 /\ k % 4 = 0
OBVIOUS

\* A byte of a word that is stored is the one the interpreter writes.
LEMMA FilledRight ==
    ASSUME MemoryAssumption, Supported, IInv, call.op \in Setting, pc \in {"block", "words"}, NEW i \in Nat
    PROVE  ValueAt(i) = VmByte(call, (r.x - RegionA - call.a) + i)
<1> DEFINE k == r.x - RegionA - call.a
<1>1. FillInv /\ k \in Nat /\ k = r.x - Start
  BY Ready DEF IInv, FillInv
<1>2. i % 4 \in 0 .. 3 /\ (k + i) % 4 \in 0 .. 3
  BY <1>1
<1>3. CASE call.op = "memseti32"
  <2>1. (k + i) % 4 = i % 4
    BY <1>1, <1>3, Remainders DEF FillInv
  <2> QED
    BY <1>1, <1>2, <1>3, <2>1 DEF FillInv, ValueAt, VmByte
<1>4. CASE call.op = "memseti8"
  BY <1>1, <1>2, <1>4 DEF FillInv, ValueAt, VmByte
<1>5. CASE call.op = "memseti64"
  <2>1. (k + i) % 4 = i % 4 /\ (k + i) % 8 = i % 8 /\ i % 8 \in 0 .. 7
    BY <1>1, <1>5, Remainders DEF FillInv
  <2>2. r.val[i % 4] = call.val[i % 4]
    BY <1>1, <1>2, <1>5 DEF FillInv
  <2>3. HighWord(r.val)[i % 4] = HighWord(call.val)[i % 4]
    BY <1>2, <2>2 DEF HighWord
  <2>4. i % 8 >= 4 <=> ~ (i % 8 < 4)
    BY <2>1
  <2> QED
    BY <1>5, <2>1, <2>2, <2>3, <2>4 DEF ValueAt, VmByte
<1> QED
  BY <1>3, <1>4, <1>5 DEF Setting

\* A byte that is not negative, or is -1, is widened to a word of it four times.
LEMMA WidenedRight ==
    ASSUME MemoryAssumption, NEW w \in WordValue
    PROVE  /\ Widened(w) \in WordValue
           /\ (\A i \in 0 .. 3 : w[i] \subseteq w[0]) => \A i \in 0 .. 3 : Widened(w)[i] = w[0]
<1> DEFINE h == [i \in 0 .. 3 |-> IF i < 2 THEN w[i] ELSE w[i] \cup w[i - 2]]
<1>1. h \in WordValue
  <2>1. \A i \in 0 .. 3 : ~ (i < 2) => i - 2 \in 0 .. 3
    OBVIOUS
  <2> QED
    BY <2>1 DEF WordValue, Byte
<1>2. h[0] = w[0] /\ h[1] = w[1] /\ h[2] = w[2] \cup w[0] /\ h[3] = w[3] \cup w[1]
  OBVIOUS
<1>3. Widened(w) = [i \in 0 .. 3 |-> IF i < 1 THEN h[i] ELSE h[i] \cup h[i - 1]]
  BY DEF Widened
<1> HIDE DEF h
<1>4. \A i \in 0 .. 3 : ~ (i < 1) => i - 1 \in 0 .. 3
  OBVIOUS
<1>5. Widened(w) \in WordValue
  BY <1>1, <1>3, <1>4 DEF WordValue, Byte
<1>6. /\ Widened(w)[0] = h[0] /\ Widened(w)[1] = h[1] \cup h[0]
      /\ Widened(w)[2] = h[2] \cup h[1] /\ Widened(w)[3] = h[3] \cup h[2]
  BY <1>3
<1>7. ASSUME \A j \in 0 .. 3 : w[j] \subseteq w[0], NEW i \in 0 .. 3
      PROVE  Widened(w)[i] = w[0]
  <2>1. i = 0 \/ i = 1 \/ i = 2 \/ i = 3
    OBVIOUS
  <2>2. w[1] \subseteq w[0] /\ w[2] \subseteq w[0] /\ w[3] \subseteq w[0]
    BY <1>7
  <2> QED
    BY <1>2, <1>6, <2>1, <2>2
<1> QED
  BY <1>5, <1>7

\* The steps that leave the memory and the pointers alone.
LEMMA EnterSetStep ==
    ASSUME MemoryAssumption, Supported, IInv, EnterSet
    PROVE  IInv'
<1>1. /\ Sound(call) /\ Start \in Nat /\ RegionA = 4 /\ Registers(r) /\ FillInv
      /\ call.op \in Setting /\ pc = "enter" /\ r.x = Start /\ r.val = call.val
      /\ call.a = 0 /\ Start = 4 /\ call.size \in Nat /\ call.val \in WordValue
  BY Ready DEF IInv, FillInv, EnterSet, Setting, Start, Sound
<1>2. call' = call /\ mem' = mem /\ Start' = Start
  BY DEF EnterSet, Start
<1>3. CASE call.op = "memseti8" /\ call.size < 4
  <2>1. r' = [r EXCEPT !.end = r.x + call.size] /\ pc' = "bytes"
    BY <1>3 DEF EnterSet, Goto
  <2>2. Registers(r') /\ r'.x = r.x /\ r'.y = r.y /\ r'.val = r.val /\ r'.end = Start + call.size
    BY <1>1, <2>1 DEF Registers
  <2>3. FillInv'
    BY <1>1, <1>2, <1>3, <2>1, <2>2 DEF FillInv
  <2> QED
    BY <1>1, <1>2, <2>1, <2>2, <2>3 DEF IInv, Labels, Setting
<1>4. CASE ~ (call.op = "memseti8" /\ call.size < 4)
  <2> DEFINE v == IF call.op = "memseti8" THEN Widened(call.val) ELSE call.val
  <2>1. /\ r' = [r EXCEPT !.end = CoreEnd(call), !.val = v]
        /\ pc' = IF r.x > CoreEnd(call) - BlockSize THEN "words" ELSE "block"
    BY <1>1, <1>4 DEF EnterSet, Goto
  <2>2. /\ v \in WordValue
        /\ \A i \in 0 .. 3 : v[i] = IF call.op = "memseti8" THEN call.val[0] ELSE call.val[i]
    BY <1>1, WidenedRight DEF Sound
  <2>3. CoreEnd(call) \in Int /\ CoreEnd(call)' = CoreEnd(call)
    BY <1>1, <1>2 DEF CoreEnd, RoundDown
  <2> HIDE DEF v
  <2>4. /\ Registers(r') /\ r'.x = r.x /\ r'.y = r.y /\ r'.val = v /\ r'.end = CoreEnd(call)
    BY <1>1, <2>1, <2>2, <2>3 DEF Registers
  <2>5. pc' \in {"words", "block"} /\ (pc' = "block" => r.x + BlockSize <= CoreEnd(call))
    BY <1>1, <2>1, <2>3 DEF BlockSize
  <2>6. r.x - Start = 0 /\ 0 % 4 = 0 /\ 0 % 8 = 0
    BY <1>1
  <2>7. FillInv'
    BY <1>1, <1>2, <2>2, <2>3, <2>4, <2>5, <2>6 DEF FillInv
  <2> QED
    BY <1>1, <1>2, <2>4, <2>5, <2>7 DEF IInv, Labels, Setting
<1> QED
  BY <1>3, <1>4

\* One more block, word or byte is filled.
LEMMA FillStep ==
    ASSUME MemoryAssumption, Supported, IInv, call.op \in Setting, call' = call,
           NEW n \in Nat, Store(r.x, n, ValueAt), r' = [r EXCEPT !.x = @ + n],
           \A i \in 0 .. n - 1 : ValueAt(i) = VmByte(call, (r.x - RegionA - call.a) + i),
           r.x + n <= Start + call.size, pc' \in Labels, FillInv'
    PROVE  IInv'
<1>1. /\ Sound(call) /\ Start \in Nat /\ Registers(r) /\ call.op \notin Comparing
      /\ call.op # "memcpy" /\ r.x \in Int /\ r.x >= RegionA + call.a
      /\ Start <= r.x
  BY Ready DEF IInv, Setting, Comparing
<1>2. Start' = Start
  BY DEF Start
<1>3. Registers(r') /\ r'.x = r.x + n /\ r'.y = r.y
  BY <1>1 DEF Registers
<1>4. mem' = Partial(call, r.x + n)
  <2> DEFINE g == [i \in 0 .. n - 1 |-> ValueAt(i)]
  <2>1. mem' = [z \in Addresses |-> IF z \in Extent(r.x, n) THEN ValueAt(z - r.x) ELSE Partial(call, r.x)[z]]
    BY DEF Store, IInv
  <2>2. \A z \in Addresses : z \in Extent(r.x, n) => z - r.x \in 0 .. n - 1
    BY <1>1 DEF Extent
  <2>3. mem' = [z \in Addresses |-> IF z \in Extent(r.x, n) THEN g[z - r.x] ELSE Partial(call, r.x)[z]]
    BY <2>1, <2>2
  <2>4. \A i \in 0 .. n - 1 : g[i] = VmByte(call, (r.x - RegionA - call.a) + i)
    OBVIOUS
  <2> HIDE DEF g
  <2> QED
    BY <1>1, <2>3, <2>4, PartialStore
<1> QED
  BY <1>1, <1>2, <1>3, <1>4 DEF IInv, Setting, Comparing

LEMMA SetBlockStep ==
    ASSUME MemoryAssumption, Supported, IInv, SetBlock
    PROVE  IInv'
<1>1. /\ Sound(call) /\ Start = 4 /\ Registers(r) /\ FillInv /\ pc = "block"
      /\ call.op \in Setting /\ call.size \in Nat /\ r.x \in Int /\ r.end \in Int
  BY Ready DEF IInv, SetBlock, Setting, Start, Sound
<1>2. /\ call' = call /\ Start' = Start /\ Store(r.x, 32, ValueAt)
      /\ r' = [r EXCEPT !.x = @ + 32]
      /\ pc' = IF r'.x < r.end - 32 THEN "block" ELSE "words"
  BY DEF SetBlock, Start, BlockSize, Goto
<1>3. r'.x = r.x + 32 /\ r'.y = r.y /\ r'.end = r.end /\ r'.val = r.val
  BY <1>1, <1>2 DEF Registers
<1>4. r.x + 32 <= r.end /\ r.end = CoreEnd(call) /\ CoreEnd(call) <= Start + call.size /\ CoreEnd(call)' = CoreEnd(call)
  BY <1>1, <1>2 DEF FillInv, BlockSize, CoreEnd, RoundDown, Start
<1>5. pc' \in {"block", "words"} /\ (pc' = "block" => r'.x + 32 <= r'.end)
  BY <1>1, <1>2, <1>3
<1>6. ((r.x + 32) - Start) % (IF call.op = "memseti64" THEN 8 ELSE 4) = 0
  <2>1. (r.x - Start) % (IF call.op = "memseti64" THEN 8 ELSE 4) = 0
    BY <1>1 DEF FillInv
  <2> QED
    BY <1>1, <2>1
<1>7. FillInv'
  BY <1>1, <1>2, <1>3, <1>4, <1>5, <1>6 DEF FillInv, BlockSize
<1>8. \A i \in 0 .. 32 - 1 : ValueAt(i) = VmByte(call, (r.x - RegionA - call.a) + i)
  BY <1>1, FilledRight
<1>9. r.x + 32 <= Start + call.size /\ pc' \in Labels
  BY <1>1, <1>4, <1>5 DEF CoreEnd, RoundDown, Start, Labels
<1> QED
  BY <1>1, <1>2, <1>7, <1>8, <1>9, FillStep

\* Numbers of words and of pairs of words.
LEMMA Multiple ==
    ASSUME NEW k \in Nat
    PROVE  /\ k % 4 = 0 => \E q \in Nat : k = 4 * q
           /\ k % 8 = 0 => \E q \in Nat : k = 8 * q
           /\ \E q \in Nat, e \in 0 .. 3 : k = 4 * q + e /\ RoundDown(k) = 4 * q /\ k % 4 = e
<1>1. k % 4 = 0 => k = 4 * (k \div 4) /\ k \div 4 \in Nat
  OBVIOUS
<1>2. k % 8 = 0 => k = 8 * (k \div 8) /\ k \div 8 \in Nat
  OBVIOUS
<1>3. PICK e \in 0 .. 3 : e = k % 4
  OBVIOUS
<1>4. k = 4 * (k \div 4) + e /\ k \div 4 \in Nat
  BY <1>3
<1>5. RoundDown(k) = k - e
  BY <1>3 DEF RoundDown
<1> QED
  BY <1>1, <1>2, <1>3, <1>4, <1>5

\* The pointer does not pass the end of the words, and a word fits before it.
LEMMA WordsLeft ==
    ASSUME NEW size \in Nat, NEW x \in Int, NEW end \in Nat, 4 <= x, x <= end, end = 4 + size
    PROVE  /\ (x - 4) % 4 = 0 =>
                 /\ x <= RoundDown(end) /\ RoundDown(end) \in Nat
                 /\ x < RoundDown(end) => x + 4 <= end
                 /\ x = RoundDown(end) => x + (size % 4) = end
           /\ (x - 4) % 4 = 0 /\ size % 4 = 0 => (x < end => x + 4 <= end)
           /\ (x - 4) % 8 = 0 /\ size % 8 = 0 => (x < end => x + 8 <= end)
<1>1. x - 4 \in Nat
  OBVIOUS
<1>2. ASSUME (x - 4) % 4 = 0
      PROVE  /\ x <= RoundDown(end) /\ RoundDown(end) \in Nat
             /\ x < RoundDown(end) => x + 4 <= end
             /\ x = RoundDown(end) => x + (size % 4) = end
  <2>1. PICK q \in Nat : x - 4 = 4 * q
    BY <1>1, <1>2, Multiple
  <2>2. PICK p \in Nat, e \in 0 .. 3 : end = 4 * p + e /\ RoundDown(end) = 4 * p
    BY Multiple
  <2>3. x = 4 * (q + 1) /\ q + 1 <= p
    BY <2>1, <2>2
  <2>4. PICK t \in Nat, f \in 0 .. 3 : size = 4 * t + f /\ size % 4 = f
    BY Multiple
  <2>5. e = f /\ p = t + 1
    BY <2>2, <2>4
  <2>6. RoundDown(end) \in Nat /\ RoundDown(end) + (size % 4) = end
    BY <2>2, <2>4, <2>5
  <2>7. x <= RoundDown(end) /\ (x < RoundDown(end) => x + 4 <= end)
    BY <2>2, <2>3
  <2> QED
    BY <2>6, <2>7
<1>3. ASSUME (x - 4) % 4 = 0, size % 4 = 0, x < end
      PROVE  x + 4 <= end
  <2>1. PICK q \in Nat : x - 4 = 4 * q
    BY <1>1, <1>3, Multiple
  <2>2. PICK p \in Nat : size = 4 * p
    BY <1>3, Multiple
  <2> QED
    BY <1>3, <2>1, <2>2
<1>4. ASSUME (x - 4) % 8 = 0, size % 8 = 0, x < end
      PROVE  x + 8 <= end
  <2>1. PICK q \in Nat : x - 4 = 8 * q
    BY <1>1, <1>4, Multiple
  <2>2. PICK p \in Nat : size = 8 * p
    BY <1>4, Multiple
  <2> QED
    BY <1>4, <2>1, <2>2
<1> QED
  BY <1>2, <1>3, <1>4

LEMMA SetWordsStep ==
    ASSUME MemoryAssumption, Supported, IInv, SetWords
    PROVE  IInv'
<1>1. /\ Sound(call) /\ Start = 4 /\ RegionA = 4 /\ call.a = 0 /\ Registers(r) /\ FillInv /\ pc = "words"
      /\ call.op \in Setting /\ call.size \in Nat /\ r.x \in Int /\ r.end \in Int
      /\ Start <= r.x /\ r.x <= Start + call.size
  BY Ready DEF IInv, SetWords, Setting, Start, Sound
<1>2. call' = call /\ Start' = Start
  BY DEF SetWords, Start
<1>3. r.end = CoreEnd(call) /\ (r.x - Start) % (IF call.op = "memseti64" THEN 8 ELSE 4) = 0
  BY <1>1 DEF FillInv
<1>4. PICK size, end, x : size = call.size /\ end = Start + size /\ x = r.x
  OBVIOUS
<1>5. size \in Nat /\ end \in Nat /\ end = 4 + size /\ x \in Int /\ 4 <= x /\ x <= end
  BY <1>1, <1>4
<1>6. CoreEnd(call) = IF call.op = "memseti8" THEN RoundDown(end) ELSE end
  BY <1>4 DEF CoreEnd, Start
<1>7. CASE x >= r.end
  <2>1. CASE call.op = "memseti8"
    <3>1. x = RoundDown(end) /\ x + (size % 4) = end
      <4>1. (x - 4) % 4 = 0 /\ r.end = RoundDown(end)
        BY <1>1, <1>3, <1>4, <1>6, <2>1
      <4>2. x <= RoundDown(end) /\ RoundDown(end) \in Nat /\ (x = RoundDown(end) => x + (size % 4) = end)
        BY <1>5, <4>1, WordsLeft
      <4> QED
        BY <1>5, <1>7, <4>1, <4>2
    <3>2. r' = [r EXCEPT !.end = x + (size % 4)] /\ pc' = "bytes" /\ mem' = mem
      <4>1. r' = [r EXCEPT !.end = r.x + (call.size % 4)] /\ pc' = "bytes" /\ mem' = mem
        BY <1>4, <1>7, <2>1 DEF SetWords, Goto
      <4> QED
        BY <1>4, <4>1
    <3>3. Registers(r') /\ r'.x = r.x /\ r'.y = r.y /\ r'.val = r.val /\ r'.end = end
      BY <1>1, <1>5, <3>1, <3>2 DEF Registers
    <3>4. r.val[0] = call.val[0]
      BY <1>1, <2>1 DEF FillInv
    <3>5. FillInv'
      BY <1>1, <1>2, <1>4, <2>1, <3>2, <3>3, <3>4 DEF FillInv
    <3> QED
      BY <1>1, <1>2, <3>2, <3>3, <3>5 DEF IInv, Labels, Setting
  <2>2. CASE call.op # "memseti8"
    <3>1. r' = r /\ pc' = "done" /\ mem' = mem
      BY <1>4, <1>7, <2>2 DEF SetWords, Goto
    <3>2. x = end
      BY <1>3, <1>5, <1>6, <1>7, <2>2
    <3>3. FillInv'
      BY <1>1, <1>2, <1>4, <3>1, <3>2 DEF FillInv
    <3> QED
      BY <1>1, <1>2, <3>1, <3>3 DEF IInv, Labels, Setting
  <2> QED
    BY <2>1, <2>2
<1>8. CASE ~ (x >= r.end)
  <2> DEFINE n == IF call.op = "memseti64" THEN 8 ELSE 4
  <2>1. Store(r.x, n, ValueAt) /\ r' = [r EXCEPT !.x = @ + n] /\ pc' = "words"
    BY <1>4, <1>8 DEF SetWords, Goto
  <2>2. n \in Nat /\ r'.x = r.x + n /\ r'.y = r.y /\ r'.end = r.end /\ r'.val = r.val
    BY <1>1, <2>1 DEF Registers
  <2>3. x + n <= end
    <3>1. x < r.end
      BY <1>1, <1>5, <1>8
    <3>2. CASE call.op = "memseti8"
      <4>1. (x - 4) % 4 = 0 /\ r.end = RoundDown(end)
        BY <1>1, <1>3, <1>4, <1>6, <3>2
      <4> QED
        BY <1>5, <3>1, <3>2, <4>1, WordsLeft
    <3>3. CASE call.op = "memseti32"
      BY <1>1, <1>3, <1>4, <1>5, <1>6, <3>1, <3>3, WordsLeft DEF Sound
    <3>4. CASE call.op = "memseti64"
      BY <1>1, <1>3, <1>4, <1>5, <1>6, <3>1, <3>4, WordsLeft DEF Sound
    <3> QED
      BY <1>1, <3>2, <3>3, <3>4 DEF Setting
  <2>4. ((r.x + n) - Start) % n = 0
    BY <1>1, <1>3
  <2>5. CoreEnd(call)' = CoreEnd(call)
    BY <1>2 DEF CoreEnd
  <2>6. FillInv'
    BY <1>1, <1>2, <1>3, <2>1, <2>2, <2>4, <2>5 DEF FillInv
  <2>7. \A i \in 0 .. n - 1 : ValueAt(i) = VmByte(call, (r.x - RegionA - call.a) + i)
    BY <1>1, <2>2, FilledRight
  <2>8. r.x + n <= Start + call.size /\ pc' \in Labels
    BY <1>4, <2>1, <2>3 DEF Labels
  <2> HIDE DEF n
  <2> QED
    BY <1>1, <1>2, <2>1, <2>2, <2>6, <2>7, <2>8, FillStep
<1> QED
  BY <1>7, <1>8

LEMMA SetBytesStep ==
    ASSUME MemoryAssumption, Supported, IInv, SetBytes
    PROVE  IInv'
<1>1. /\ Sound(call) /\ Start = 4 /\ Registers(r) /\ FillInv /\ pc = "bytes" /\ call.op = "memseti8"
      /\ call.op \in Setting /\ call.size \in Nat /\ r.x \in Int /\ r.end = Start + call.size
      /\ Start <= r.x /\ r.x <= Start + call.size /\ r.val[0] = call.val[0]
  BY Ready DEF IInv, SetBytes, Setting, Start, Sound, FillInv
<1>2. call' = call /\ Start' = Start
  BY DEF SetBytes, Start
<1>3. CASE r.x >= r.end
  <2>1. r' = r /\ pc' = "done" /\ mem' = mem /\ r.x = Start + call.size
    BY <1>1, <1>3 DEF SetBytes, Goto
  <2>2. FillInv'
    BY <1>1, <1>2, <2>1 DEF FillInv
  <2> QED
    BY <1>1, <1>2, <2>1, <2>2 DEF IInv, Labels, Setting
<1>4. CASE ~ (r.x >= r.end)
  <2>1. Store(r.x, 1, ValueAt) /\ r' = [r EXCEPT !.x = @ + 1] /\ pc' = "bytes"
    BY <1>4 DEF SetBytes, Goto
  <2>2. r'.x = r.x + 1 /\ r'.y = r.y /\ r'.end = r.end /\ r'.val = r.val
    BY <1>1, <2>1 DEF Registers
  <2>3. FillInv'
    BY <1>1, <1>2, <2>1, <2>2 DEF FillInv
  <2>4. \A i \in 0 .. 1 - 1 : ValueAt(i) = VmByte(call, (r.x - RegionA - call.a) + i)
    BY <1>1 DEF ValueAt, VmByte
  <2>5. r.x + 1 <= Start + call.size /\ pc' \in Labels
    BY <1>1, <1>4, <2>1 DEF Labels
  <2> QED
    BY <1>1, <1>2, <2>1, <2>3, <2>4, <2>5, FillStep
<1> QED
  BY <1>3, <1>4

-----------------------------------------------------------------------------
(* Copying *)

LEMMA EnterCopyStep ==
    ASSUME MemoryAssumption, Supported, IInv, EnterCopy
    PROVE  IInv'
<1>1. /\ Sound(call) /\ Start \in Nat /\ call.size \in Nat /\ Registers(r) /\ CopyInv
      /\ call.op = "memcpy" /\ pc = "enter" /\ r.x = Start /\ call.op \notin Setting
  BY Ready DEF IInv, CopyInv, EnterCopy, Setting
<1>2. call' = call /\ mem' = mem /\ Start' = Start
  BY DEF EnterCopy, Start
<1>3. r' = [r EXCEPT !.end = r.x + call.size]
  BY DEF EnterCopy
<1>4. Registers(r') /\ r'.x = r.x /\ r'.y = r.y /\ r'.end = Start + call.size
  BY <1>1, <1>3 DEF Registers
<1>5. pc' = IF ~Aligned(r.x) \/ ~Aligned(r.y) THEN "bytes" ELSE IF r.x > r'.end - BlockSize THEN "words" ELSE "block"
  BY DEF EnterCopy, Goto
<1>6. /\ pc' \in {"bytes", "words", "block"}
      /\ pc' \in {"words", "block"} => r.x % 4 = 0
      /\ pc' = "block" => r.x + BlockSize <= r'.end
  BY <1>1, <1>4, <1>5 DEF Aligned, BlockSize
<1>7. CopyInv'
  BY <1>1, <1>2, <1>4, <1>6 DEF CopyInv
<1> QED
  BY <1>1, <1>2, <1>4, <1>6, <1>7 DEF IInv, Labels, Setting

\* One more block, word or byte is copied: the source is as it was at the call.
LEMMA CopyingStep ==
    ASSUME MemoryAssumption, Supported, IInv, call.op = "memcpy", pc \in {"block", "words", "bytes"}, call' = call,
           NEW n \in Nat, NEW next \in {"block", "words", "bytes"}, CopyStep(n, next),
           r.x + n <= r.end,
           next \in {"block", "words"} => (r.x + n) % 4 = 0,
           next = "block" => r.x + n + BlockSize <= r.end
    PROVE  IInv'
<1>1. /\ Sound(call) /\ Start \in Nat /\ call.size \in Nat /\ Registers(r) /\ CopyInv
      /\ call.op \notin Setting /\ call.op \notin Comparing /\ r.x \in Int /\ r.y \in Int
      /\ Start <= r.x /\ r.x <= Start + call.size /\ r.x >= RegionA + call.a
      /\ r.end = Start + call.size /\ r.y - RegionB - call.b = r.x - Start
      /\ Start = RegionA + call.a /\ RegionA \in Int /\ call.a \in Int /\ RegionB \in Int /\ call.b \in Int
  BY Ready DEF IInv, CopyInv, Setting, Comparing, Sound, Start
<1>2. Start' = Start
  BY DEF Start
<1>3. /\ r' = [r EXCEPT !.x = @ + n, !.y = @ + n] /\ pc' = next
      /\ mem' = [z \in Addresses |-> IF z \in Extent(r.x, n) THEN Source(z - r.x) ELSE Partial(call, r.x)[z]]
  BY DEF CopyStep, Store, Goto, IInv
<1>4. Registers(r') /\ r'.x = r.x + n /\ r'.y = r.y + n /\ r'.end = r.end
  <2>1. r.x + n \in Int /\ r.y + n \in Int
    BY <1>1
  <2>2. r' = [r EXCEPT !.x = r.x + n, !.y = r.y + n]
    BY <1>3
  <2> QED
    BY <1>1, <2>1, <2>2 DEF Registers
<1>5. mem' = Partial(call, r.x + n)
  <2> DEFINE g == [i \in 0 .. n - 1 |-> Source(i)]
  <2>1. \A z \in Addresses : z \in Extent(r.x, n) => z - r.x \in 0 .. n - 1
    BY <1>1 DEF Extent
  <2>2. mem' = [z \in Addresses |-> IF z \in Extent(r.x, n) THEN g[z - r.x] ELSE Partial(call, r.x)[z]]
    BY <1>3, <2>1
  <2>3. ASSUME NEW i \in 0 .. n - 1
        PROVE  g[i] = VmByte(call, (r.x - RegionA - call.a) + i)
    <3> DEFINE k == (r.x - RegionA - call.a) + i
    <3>1. k \in Nat /\ k < call.size /\ r.y + i = RegionB + call.b + k
      BY <1>1
    <3>2. g[i] = Partial(call, r.x)[r.y + i]
      BY DEF Source, IInv
    <3>3. VmByte(call, k) = Memory0(call)[RegionB + call.b + k]
      BY DEF VmByte
    <3> HIDE DEF k, g
    <3>4. Partial(call, r.x)[RegionB + call.b + k] = Memory0(call)[RegionB + call.b + k]
      BY <1>1, <3>1, SourceKept
    <3> QED
      BY <3>1, <3>2, <3>3, <3>4 DEF k
  <2> HIDE DEF g
  <2>4. \A i \in 0 .. n - 1 : g[i] = VmByte(call, (r.x - RegionA - call.a) + i)
    BY <2>3
  <2>5. Sound(call) /\ call.op \notin Comparing /\ r.x \in Int /\ r.x >= RegionA + call.a
    BY <1>1
  <2> QED
    BY <2>2, <2>4, <2>5, PartialStore
<1>6. CopyInv'
  BY <1>1, <1>2, <1>3, <1>4 DEF CopyInv
<1> QED
  BY <1>1, <1>2, <1>3, <1>4, <1>5, <1>6 DEF IInv, Labels, Setting, Comparing

LEMMA CopyBlockStep ==
    ASSUME MemoryAssumption, Supported, IInv, CopyBlock
    PROVE  IInv'
<1> DEFINE next == IF r.x + BlockSize < r.end - BlockSize THEN "block" ELSE "words"
<1>1. /\ CopyInv /\ call.op = "memcpy" /\ pc = "block" /\ call' = call /\ CopyStep(BlockSize, next)
      /\ r.x \in Int /\ r.end \in Int
  BY Ready DEF IInv, CopyBlock
<1>2. r.x + BlockSize <= r.end /\ r.x % 4 = 0 /\ BlockSize = 32
  BY <1>1 DEF CopyInv, BlockSize
<1>3. (r.x + 32) % 4 = 0 /\ (next = "block" => r.x + BlockSize + BlockSize <= r.end) /\ next \in {"block", "words", "bytes"}
  BY <1>1, <1>2
<1> HIDE DEF next
<1> QED
  BY <1>1, <1>2, <1>3, CopyingStep

LEMMA CopyWordsStep ==
    ASSUME MemoryAssumption, Supported, IInv, CopyWords
    PROVE  IInv'
<1>1. /\ CopyInv /\ call.op = "memcpy" /\ pc = "words" /\ call' = call
      /\ r.x \in Nat /\ r.end \in Nat /\ r.x % 4 = 0 /\ r.end = Start + call.size /\ r.x <= Start + call.size
      /\ Start \in Nat /\ call.size \in Nat
  BY Ready DEF IInv, CopyWords, CopyInv
<1>2. CASE r.x >= RoundDown(r.end)
  <2>1. pc' = "bytes" /\ mem' = mem /\ r' = r /\ Start' = Start
    BY <1>2 DEF CopyWords, Goto, Start
  <2>2. CopyInv'
    BY <1>1, <2>1 DEF CopyInv
  <2> QED
    BY <1>1, <2>1, <2>2 DEF IInv, Labels, Setting
<1>3. CASE ~ (r.x >= RoundDown(r.end))
  <2>1. CopyStep(4, "words")
    BY <1>3 DEF CopyWords
  <2>2. PICK q \in Nat : r.x = 4 * q
    BY <1>1, Multiple
  <2>3. PICK p \in Nat, e \in 0 .. 3 : r.end = 4 * p + e /\ RoundDown(r.end) = 4 * p
    BY <1>1, Multiple
  <2>4. r.x + 4 <= r.end /\ (r.x + 4) % 4 = 0
    BY <1>1, <1>3, <2>2, <2>3
  <2> QED
    BY <1>1, <2>1, <2>4, CopyingStep
<1> QED
  BY <1>2, <1>3

LEMMA CopyBytesStep ==
    ASSUME MemoryAssumption, Supported, IInv, CopyBytes
    PROVE  IInv'
<1>1. /\ CopyInv /\ call.op = "memcpy" /\ pc = "bytes" /\ call' = call
      /\ r.x \in Int /\ r.end \in Int /\ r.end = Start + call.size /\ r.x <= Start + call.size
  BY Ready DEF IInv, CopyBytes, CopyInv
<1>2. CASE r.x >= r.end
  <2>1. pc' = "done" /\ mem' = mem /\ r' = r /\ Start' = Start /\ r.x = Start + call.size
    BY <1>1, <1>2 DEF CopyBytes, Goto, Start
  <2>2. CopyInv'
    BY <1>1, <2>1 DEF CopyInv
  <2> QED
    BY <1>1, <2>1, <2>2 DEF IInv, Labels, Setting
<1>3. CASE ~ (r.x >= r.end)
  <2>1. CopyStep(1, "bytes") /\ r.x + 1 <= r.end
    BY <1>1, <1>3 DEF CopyBytes
  <2> QED
    BY <1>1, <2>1, CopyingStep
<1> QED
  BY <1>2, <1>3

-----------------------------------------------------------------------------
(* Comparing *)

\* A comparison reads the arguments as they were given.
LEMMA TextsRead ==
    ASSUME MemoryAssumption, Supported, IInv, call.op \in Comparing,
           r.y - RegionB - call.b = r.x - Start, NEW i \in Nat
    PROVE  /\ mem[r.x + i] = TextA(call, (r.x - Start) + i)
           /\ mem[r.y + i] = TextB(call, (r.x - Start) + i)
           /\ \A x \in Int : mem = Partial(call, x)
<1>1. /\ Sound(call) /\ r.x \in Int /\ r.y \in Int /\ RegionA \in Int /\ call.a \in Int
      /\ RegionB \in Int /\ call.b \in Int /\ Start = RegionA + call.a
  BY Ready DEF Sound, Start
<1>2. \A x \in Int : Partial(call, x) = Memory0(call)
  BY <1>1, PartialEnds
<1>3. mem = Memory0(call)
  BY <1>1, <1>2 DEF IInv
<1>4. r.x + i = RegionA + call.a + ((r.x - Start) + i) /\ r.y + i = RegionB + call.b + ((r.x - Start) + i)
  BY <1>1
<1> QED
  BY <1>2, <1>3, <1>4 DEF TextA, TextB

LEMMA AgreeOn ==
    ASSUME NEW c, NEW k \in Nat, NEW n \in Nat, Agree(c, k)
    PROVE  /\ (\A i \in 0 .. n - 1 : TextA(c, k + i) = TextB(c, k + i)) => Agree(c, k + n)
           /\ \A size \in Nat : k + n <= size /\ (\E i \in 0 .. n - 1 : TextA(c, k + i) # TextB(c, k + i)) =>
                 ~ Agree(c, size)
<1>1. ASSUME \A i \in 0 .. n - 1 : TextA(c, k + i) = TextB(c, k + i), NEW j \in 0 .. (k + n) - 1
      PROVE  TextA(c, j) = TextB(c, j)
  <2>1. CASE j < k
    BY <2>1 DEF Agree
  <2>2. CASE ~ (j < k)
    <3>1. j - k \in 0 .. n - 1 /\ k + (j - k) = j
      BY <2>2
    <3> QED
      BY <1>1, <3>1
  <2> QED
    BY <2>1, <2>2
<1>2. ASSUME NEW size \in Nat, k + n <= size, NEW i \in 0 .. n - 1, TextA(c, k + i) # TextB(c, k + i)
      PROVE  ~ Agree(c, size)
  <2>1. k + i \in 0 .. size - 1
    BY <1>2
  <2> QED
    BY <1>2, <2>1 DEF Agree
<1> QED
  BY <1>1, <1>2 DEF Agree

LEMMA EnterCompareStep ==
    ASSUME MemoryAssumption, Supported, IInv, EnterCompare
    PROVE  IInv'
<1>1. /\ Sound(call) /\ Start \in Nat /\ call.size \in Nat /\ Registers(r) /\ EqualInv
      /\ call.op = "memcmp" /\ pc = "enter" /\ r.x = Start /\ call.op \notin Setting
  BY Ready DEF IInv, EqualInv, EnterCompare, Setting
<1>2. call' = call /\ mem' = mem /\ Start' = Start
  BY DEF EnterCompare, Start
<1>3. r' = [r EXCEPT !.end = r.x + call.size]
  BY DEF EnterCompare
<1>4. /\ Registers(r') /\ r'.x = r.x /\ r'.y = r.y /\ r'.end = Start + call.size
      /\ r'.words = r.words /\ r'.res = r.res
  BY <1>1, <1>3 DEF Registers
<1>5. pc' = IF r.x > r'.end - CompareBlockSize THEN "words" ELSE "block"
  BY DEF EnterCompare, Goto
<1>6. pc' \in {"words", "block"} /\ (pc' = "block" => r.x + CompareBlockSize <= r'.end)
  BY <1>1, <1>4, <1>5 DEF CompareBlockSize
<1>7. EqualInv'
  BY <1>1, <1>2, <1>4, <1>6 DEF EqualInv
<1> QED
  BY <1>1, <1>2, <1>4, <1>6, <1>7 DEF IInv, Labels, Setting

\* One more block, word or byte is compared.
LEMMA ComparingStep ==
    ASSUME MemoryAssumption, Supported, IInv, call.op = "memcmp", pc \in {"block", "words", "bytes"},
           call' = call, mem' = mem,
           NEW n \in Nat, NEW next \in {"block", "words", "bytes"}, NEW w \in Int, CompareStep(n, next, w),
           r.x + n <= r.end,
           next = "block" => r.x + n + CompareBlockSize <= r.end,
           next = "words" => w <= r.end \/ w <= r.x + n + 4
    PROVE  IInv'
<1> DEFINE k == r.x - Start
<1>1. /\ Sound(call) /\ Start \in Nat /\ call.size \in Nat /\ Registers(r) /\ EqualInv
      /\ call.op \notin Setting /\ call.op \in Comparing /\ r.x \in Int /\ r.y \in Int
      /\ Start <= r.x /\ r.x <= Start + call.size
      /\ r.end = Start + call.size /\ r.res = None /\ r.y - RegionB - call.b = r.x - Start
      /\ RegionB \in Int /\ call.b \in Int /\ Agree(call, k) /\ k \in Nat /\ k + n <= call.size
  BY Ready DEF IInv, EqualInv, Setting, Comparing, Sound
<1>2. Start' = Start
  BY DEF Start
<1>3. /\ \A i \in 0 .. n - 1 : mem[r.x + i] = TextA(call, k + i) /\ mem[r.y + i] = TextB(call, k + i)
      /\ \A x \in Int : mem = Partial(call, x)
  BY <1>1, TextsRead
<1>4. CASE \A i \in 0 .. n - 1 : mem[r.x + i] = mem[r.y + i]
  <2>1. r' = [r EXCEPT !.x = r.x + n, !.y = r.y + n, !.words = w] /\ pc' = next
    BY <1>4 DEF CompareStep, Goto
  <2>2. r.x + n \in Int /\ r.y + n \in Int
    BY <1>1
  <2>3. /\ Registers(r') /\ r'.x = r.x + n /\ r'.y = r.y + n /\ r'.words = w
        /\ r'.end = r.end /\ r'.res = r.res
    BY <1>1, <2>1, <2>2 DEF Registers
  <2>4. Agree(call, k + n) /\ k + n = (r.x + n) - Start
    <3>1. \A i \in 0 .. n - 1 : TextA(call, k + i) = TextB(call, k + i)
      BY <1>3, <1>4
    <3>2. k + n = (r.x + n) - Start
      BY <1>1
    <3> HIDE DEF k
    <3> QED
      BY <1>1, <3>1, <3>2, AgreeOn
  <2> HIDE DEF k
  <2>5. EqualInv'
    BY <1>1, <1>2, <2>1, <2>3, <2>4 DEF EqualInv
  <2> QED
    BY <1>1, <1>2, <1>3, <2>1, <2>2, <2>3, <2>5 DEF IInv, Labels, Setting
<1>5. CASE ~ \A i \in 0 .. n - 1 : mem[r.x + i] = mem[r.y + i]
  <2>1. r' = [r EXCEPT !.res = 0, !.words = w] /\ pc' = "done"
    BY <1>5 DEF CompareStep, Goto
  <2>2. /\ Registers(r') /\ r'.x = r.x /\ r'.y = r.y /\ r'.res = 0
    <3>1. Registers(r) /\ 0 \in Int /\ w \in Int
      BY <1>1
    <3> QED
      BY <2>1, <3>1 DEF Registers
  <2>3. ~ Agree(call, call.size)
    BY <1>1, <1>3, <1>5, AgreeOn
  <2> HIDE DEF k
  <2>4. EqualInv'
    BY <1>1, <1>2, <2>1, <2>2, <2>3 DEF EqualInv, None
  <2> QED
    BY <1>1, <1>2, <1>3, <2>1, <2>2, <2>4 DEF IInv, Labels, Setting
<1> QED
  BY <1>4, <1>5

LEMMA CompareBlockStep ==
    ASSUME MemoryAssumption, Supported, IInv, CompareBlock
    PROVE  IInv'
<1> DEFINE more == r.x + 16 < r.end - CompareBlockSize
           next == IF more THEN "block" ELSE "words"
           w == IF more THEN r.words ELSE r.end
<1>1. /\ EqualInv /\ call.op = "memcmp" /\ pc = "block" /\ call' = call /\ mem' = mem /\ CompareStep(16, next, w)
      /\ r.x \in Int /\ r.end \in Int /\ w \in Int
  BY Ready DEF IInv, CompareBlock
<1>2. r.x + 16 <= r.end /\ CompareBlockSize = 16
  BY <1>1 DEF EqualInv, CompareBlockSize
<1>3. /\ next = "block" => r.x + 16 + CompareBlockSize <= r.end
      /\ next = "words" => w <= r.end \/ w <= r.x + 16 + 4
      /\ next \in {"block", "words", "bytes"}
  BY <1>1, <1>2
<1> HIDE DEF next, w
<1> QED
  BY <1>1, <1>2, <1>3, ComparingStep

LEMMA CompareWordsStep ==
    ASSUME MemoryAssumption, Supported, IInv, CompareWords
    PROVE  IInv'
<1>1. /\ EqualInv /\ call.op = "memcmp" /\ pc = "words" /\ call' = call /\ mem' = mem /\ Start' = Start
      /\ r.x \in Int /\ r.end \in Int /\ r.words \in Int /\ r.words - 4 \in Int /\ Registers(r)
  BY Ready DEF IInv, CompareWords, Start
<1>2. r.words <= r.end \/ r.words <= r.x + 4
  BY <1>1 DEF EqualInv
<1>3. CASE r.x >= r.words - 4
  <2>1. pc' = "bytes" /\ r' = [r EXCEPT !.words = r.words - 4]
    BY <1>3 DEF CompareWords, Goto
  <2>2. Registers(r') /\ r'.x = r.x /\ r'.y = r.y /\ r'.end = r.end /\ r'.res = r.res
    BY <1>1, <2>1 DEF Registers
  <2>3. EqualInv'
    BY <1>1, <2>1, <2>2 DEF EqualInv
  <2> QED
    BY <1>1, <2>1, <2>2, <2>3 DEF IInv, Labels, Setting
<1>4. CASE ~ (r.x >= r.words - 4)
  <2>1. CompareStep(4, "words", r.words - 4)
    BY <1>4 DEF CompareWords
  <2>2. r.x + 4 <= r.end /\ r.words - 4 <= r.end
    BY <1>1, <1>2, <1>4
  <2> QED
    BY <1>1, <2>1, <2>2, ComparingStep
<1> QED
  BY <1>3, <1>4

LEMMA CompareBytesStep ==
    ASSUME MemoryAssumption, Supported, IInv, CompareBytes
    PROVE  IInv'
<1>1. /\ EqualInv /\ call.op = "memcmp" /\ pc = "bytes" /\ call' = call /\ mem' = mem /\ Start' = Start
      /\ r.x \in Int /\ r.end \in Int /\ r.words \in Int /\ Registers(r)
      /\ r.end = Start + call.size /\ r.x <= Start + call.size /\ Start \in Nat /\ call.size \in Nat
  BY Ready DEF IInv, CompareBytes, Start, EqualInv
<1>2. CASE r.x >= r.end
  <2>1. pc' = "done" /\ r' = [r EXCEPT !.res = -1]
    BY <1>2 DEF CompareBytes, Goto
  <2>2. Registers(r') /\ r'.x = r.x /\ r'.y = r.y /\ r'.res = None
    BY <1>1, <2>1 DEF Registers, None
  <2>3. Agree(call, call.size)
    <3>1. r.x - Start = call.size
      BY <1>1, <1>2
    <3> QED
      BY <1>1, <3>1 DEF EqualInv
  <2>4. EqualInv'
    BY <1>1, <2>1, <2>2, <2>3 DEF EqualInv
  <2> QED
    BY <1>1, <2>1, <2>2, <2>4 DEF IInv, Labels, Setting
<1>3. CASE ~ (r.x >= r.end)
  <2>1. CompareStep(1, "bytes", r.words) /\ r.x + 1 <= r.end
    BY <1>1, <1>3 DEF CompareBytes
  <2> QED
    BY <1>1, <2>1, ComparingStep
<1> QED
  BY <1>2, <1>3

-----------------------------------------------------------------------------
(* The order of strings *)

\* The first of a set of places.
LEMMA First ==
    ASSUME NEW d \in SUBSET Nat, NEW f \in d, \A j \in d : f <= j
    PROVE  (CHOOSE i \in d : \A j \in d : i <= j) = f
<1> DEFINE g == CHOOSE i \in d : \A j \in d : i <= j
<1>1. g \in d /\ \A j \in d : g <= j
  OBVIOUS
<1> HIDE DEF g
<1>2. g <= f /\ f <= g /\ g \in Nat /\ f \in Nat
  BY <1>1
<1>3. g = f
  BY <1>2
<1> QED
  BY <1>3 DEF g

\* The order is that of the first difference, wherever a loop has come to.
LEMMA OrderOf ==
    ASSUME NEW c, c.size \in Nat, c.other \in Nat, NEW k \in Nat, Agree(c, k)
    PROVE  /\ k = Shorter(c) => Order(c) = c.size - c.other
           /\ \A n \in Nat : \A d :
                 d = {i \in 0 .. n - 1 : TextA(c, k + i) # TextB(c, k + i)} /\ d # {} /\ k + n <= Shorter(c) =>
                    LET f == CHOOSE i \in d : \A j \in d : i <= j
                    IN  Order(c) = Weight(TextA(c, k + f)) - Weight(TextB(c, k + f))
<1> DEFINE m == IF c.size < c.other THEN c.size ELSE c.other
           D == Differing(c, m)
           F == CHOOSE i \in D : \A j \in D : i <= j
<1>1. m = Shorter(c) /\ m \in Nat
  BY DEF Shorter
<1>2. Order(c) = IF D = {} THEN c.size - c.other ELSE Weight(TextA(c, F)) - Weight(TextB(c, F))
  BY DEF Order
<1>3. D \in SUBSET Nat /\ D = {i \in 0 .. m - 1 : TextA(c, i) # TextB(c, i)}
  BY <1>1 DEF Differing
<1> HIDE DEF m, D
<1>4. ASSUME k = Shorter(c)
      PROVE  Order(c) = c.size - c.other
  <2>1. D = {}
    BY <1>1, <1>3, <1>4 DEF Agree
  <2> QED
    BY <1>2, <2>1
<1>5. ASSUME NEW n \in Nat, NEW d, d = {i \in 0 .. n - 1 : TextA(c, k + i) # TextB(c, k + i)}, d # {},
             k + n <= Shorter(c)
      PROVE  LET f == CHOOSE i \in d : \A j \in d : i <= j
             IN  Order(c) = Weight(TextA(c, k + f)) - Weight(TextB(c, k + f))
  <2>1. d \in SUBSET Nat
    BY <1>5
  <2>2. PICK f : f = Min(d)
    OBVIOUS
  <2>3. f \in d /\ \A j \in d : f <= j
    BY <1>5, <2>1, <2>2, MinNat
  <2>4. f \in 0 .. n - 1 /\ TextA(c, k + f) # TextB(c, k + f)
    BY <1>5, <2>3
  <2>5. (CHOOSE i \in d : \A j \in d : i <= j) = f
    BY <2>1, <2>3, First
  <2>6. k + f \in D
    <3>1. k + f \in 0 .. m - 1
      BY <1>1, <1>5, <2>4
    <3> QED
      BY <1>3, <2>4, <3>1
  <2>7. ASSUME NEW j \in D PROVE k + f <= j
    <3>1. j \in 0 .. m - 1 /\ TextA(c, j) # TextB(c, j)
      BY <1>3
    <3>2. ~ (j \in 0 .. k - 1)
      BY <3>1 DEF Agree
    <3>3. j - k \in Nat /\ k + (j - k) = j
      BY <1>1, <3>1, <3>2
    <3>4. CASE j - k \in 0 .. n - 1
      <4>1. j - k \in d
        BY <1>5, <3>1, <3>3, <3>4
      <4>2. f <= j - k
        BY <2>3, <4>1
      <4> QED
        BY <2>4, <3>3, <4>2
    <3>5. CASE ~ (j - k \in 0 .. n - 1)
      BY <2>4, <3>3, <3>5
    <3> QED
      BY <3>4, <3>5
  <2>8. F = k + f
    BY <1>3, <2>6, <2>7, First
  <2> HIDE DEF F
  <2>9. Order(c) = Weight(TextA(c, k + f)) - Weight(TextB(c, k + f))
    BY <1>2, <2>6, <2>8
  <2> QED
    BY <2>5, <2>9
<1> QED
  BY <1>4, <1>5

LEMMA EnterOrderStep ==
    ASSUME MemoryAssumption, Supported, IInv, EnterOrder
    PROVE  IInv'
<1>1. /\ Sound(call) /\ Start \in Nat /\ call.size \in Nat /\ Registers(r) /\ OrderInv
      /\ call.op = "compare" /\ pc = "enter" /\ r.x = Start /\ call.op \notin Setting /\ call.other \in Nat
  BY Ready DEF IInv, OrderInv, EnterOrder, Setting, Sound
<1>2. call' = call /\ mem' = mem /\ Start' = Start /\ Shorter(call)' = Shorter(call) /\ pc' = "words"
  BY DEF EnterOrder, Start, Shorter, Goto
<1>3. r' = [r EXCEPT !.end = r.x + Shorter(call)] /\ Shorter(call) \in Nat
  BY <1>1 DEF EnterOrder, Shorter
<1>4. Registers(r') /\ r'.x = r.x /\ r'.y = r.y /\ r'.end = Start + Shorter(call)
  BY <1>1, <1>3 DEF Registers
<1>5. OrderInv'
  BY <1>1, <1>2, <1>4 DEF OrderInv
<1> QED
  BY <1>1, <1>2, <1>4, <1>5 DEF IInv, Labels, Setting

LEMMA OrderingStep ==
    ASSUME MemoryAssumption, Supported, IInv, call.op = "compare", pc \in {"words", "bytes"},
           call' = call, mem' = mem,
           NEW n \in Nat, NEW next \in {"words", "bytes"}, OrderStep(n, next), r.x + n <= r.end
    PROVE  IInv'
<1> DEFINE k == r.x - Start
           d == {i \in 0 .. n - 1 : mem[r.x + i] # mem[r.y + i]}
           f == CHOOSE i \in d : \A j \in d : i <= j
<1>1. /\ Sound(call) /\ Start \in Nat /\ call.size \in Nat /\ call.other \in Nat /\ Registers(r) /\ OrderInv
      /\ call.op \notin Setting /\ call.op \in Comparing /\ r.x \in Int /\ r.y \in Int
      /\ Start <= r.x /\ r.x <= Start + call.size
      /\ r.end = Start + Shorter(call) /\ r.y - RegionB - call.b = r.x - Start
      /\ RegionB \in Int /\ call.b \in Int /\ Agree(call, k)
  BY Ready DEF IInv, OrderInv, Setting, Comparing, Sound
<1>2. Start' = Start /\ Shorter(call)' = Shorter(call) /\ Order(call)' = Order(call)
  BY DEF Start
<1>3. /\ \A i \in Nat : mem[r.x + i] = TextA(call, k + i) /\ mem[r.y + i] = TextB(call, k + i)
      /\ \A x \in Int : mem = Partial(call, x)
  BY <1>1, TextsRead
<1>4. k \in Nat /\ Shorter(call) \in Nat /\ k + n <= Shorter(call) /\ Shorter(call) <= call.size
  BY <1>1 DEF Shorter
<1>5. d = {i \in 0 .. n - 1 : TextA(call, k + i) # TextB(call, k + i)}
  BY <1>3
<1>6. CASE d = {}
  <2>1. r' = [r EXCEPT !.x = r.x + n, !.y = r.y + n] /\ pc' = next
    BY <1>6 DEF OrderStep, Goto
  <2>2. r.x + n \in Int /\ r.y + n \in Int
    BY <1>1
  <2>3. Registers(r') /\ r'.x = r.x + n /\ r'.y = r.y + n /\ r'.end = r.end
    BY <1>1, <2>1, <2>2 DEF Registers
  <2>4. Agree(call, (r.x + n) - Start)
    <3>1. \A i \in 0 .. n - 1 : TextA(call, k + i) = TextB(call, k + i)
      BY <1>5, <1>6
    <3>2. k + n = (r.x + n) - Start
      BY <1>1
    <3> HIDE DEF k
    <3> QED
      BY <1>1, <1>4, <3>1, <3>2, AgreeOn
  <2> HIDE DEF k, d, f
  <2>5. r.x + n <= Start + Shorter(call) /\ r.x + n <= Start + call.size /\ Start <= r.x + n
    BY <1>1, <1>4
  <2>6. Agree(call, r.x - Start)'
    BY <1>1, <1>2, <2>2, <2>3, <2>4
  <2>7. OrderInv'
    <3>1. (r.y + n) - RegionB - call.b = (r.x + n) - Start
      BY <1>1
    <3>2. r'.y - RegionB - call'.b = r'.x - Start'
      BY <1>2, <2>3, <3>1
    <3>3. pc' # "done" /\ pc' # "enter" /\ pc' # "block"
      BY <2>1
    <3>4. r'.end = Start' + Shorter(call)' /\ r'.x <= Start' + Shorter(call)'
      BY <1>1, <1>2, <2>3, <2>5
    <3> QED
      BY <2>6, <3>2, <3>3, <3>4 DEF OrderInv
  <2> QED
    BY <1>1, <1>2, <1>3, <2>1, <2>2, <2>3, <2>5, <2>7 DEF IInv, Labels, Setting
<1>7. CASE d # {}
  <2>1. r' = [r EXCEPT !.res = Weight(mem[r.x + f]) - Weight(mem[r.y + f])] /\ pc' = "done"
    BY <1>7 DEF OrderStep, Goto
  <2>2. Registers(r') /\ r'.x = r.x /\ r'.y = r.y /\ r'.res = Weight(mem[r.x + f]) - Weight(mem[r.y + f])
    BY <1>1, <2>1 DEF Registers
  <2>3. Order(call) = Weight(TextA(call, k + f)) - Weight(TextB(call, k + f))
    <3>1. call.size \in Nat /\ call.other \in Nat /\ Agree(call, k) /\ k \in Nat /\ k + n <= Shorter(call)
      BY <1>1, <1>4
    <3>2. d = {i \in 0 .. n - 1 : TextA(call, k + i) # TextB(call, k + i)} /\ d # {}
      BY <1>5, <1>7
    <3> HIDE DEF k, d
    <3> QED
      BY <3>1, <3>2, OrderOf
  <2>4. f \in Nat
    <3>1. d \in SUBSET Nat
      OBVIOUS
    <3>2. Min(d) \in d /\ \A j \in d : Min(d) <= j
      BY <1>7, <3>1, MinNat
    <3> HIDE DEF d
    <3>3. f = Min(d)
      BY <3>1, <3>2, First
    <3> QED
      BY <3>1, <3>2, <3>3
  <2>5. r'.res = Order(call)
    BY <1>3, <2>2, <2>3, <2>4
  <2> HIDE DEF k, d, f
  <2>6. OrderInv'
    BY <1>1, <1>2, <2>1, <2>2, <2>5 DEF OrderInv
  <2> QED
    BY <1>1, <1>2, <1>3, <2>1, <2>2, <2>6 DEF IInv, Labels, Setting
<1> QED
  BY <1>6, <1>7

LEMMA OrderWordsStep ==
    ASSUME MemoryAssumption, Supported, IInv, OrderWords
    PROVE  IInv'
<1>1. /\ OrderInv /\ call.op = "compare" /\ pc = "words" /\ call' = call /\ mem' = mem /\ Start' = Start
      /\ r.x \in Int /\ r.end \in Int /\ Shorter(call)' = Shorter(call)
  BY Ready DEF IInv, OrderWords, Start, Shorter
<1>2. CASE r.x > r.end - 4
  <2>1. pc' = "bytes" /\ r' = r
    BY <1>2 DEF OrderWords, Goto
  <2>2. OrderInv'
    BY <1>1, <2>1 DEF OrderInv
  <2> QED
    BY <1>1, <2>1, <2>2 DEF IInv, Labels, Setting
<1>3. CASE ~ (r.x > r.end - 4)
  <2>1. OrderStep(4, "words") /\ r.x + 4 <= r.end
    BY <1>1, <1>3 DEF OrderWords
  <2> QED
    BY <1>1, <2>1, OrderingStep
<1> QED
  BY <1>2, <1>3

LEMMA OrderBytesStep ==
    ASSUME MemoryAssumption, Supported, IInv, OrderBytes
    PROVE  IInv'
<1>1. /\ OrderInv /\ call.op = "compare" /\ pc = "bytes" /\ call' = call /\ mem' = mem /\ Start' = Start
      /\ r.x \in Int /\ r.end \in Int /\ Order(call)' = Order(call)
      /\ Registers(r) /\ Sound(call) /\ Start \in Nat /\ call.size \in Nat /\ call.other \in Nat
  BY Ready DEF IInv, OrderBytes, Start, Shorter, Sound
<1>2. r.end = Start + Shorter(call) /\ r.x <= Start + Shorter(call) /\ Agree(call, r.x - Start)
  BY <1>1 DEF OrderInv
<1>3. CASE r.x >= r.end
  <2>1. pc' = "done" /\ r' = [r EXCEPT !.res = call.size - call.other]
    BY <1>3 DEF OrderBytes, Goto
  <2>2. Registers(r') /\ r'.x = r.x /\ r'.y = r.y /\ r'.res = call.size - call.other
    BY <1>1, <2>1 DEF Registers
  <2>3. r.x - Start = Shorter(call) /\ Shorter(call) \in Nat
    BY <1>1, <1>2, <1>3 DEF Shorter
  <2>4. Order(call) = call.size - call.other
    BY <1>1, <1>2, <2>3, OrderOf
  <2>5. OrderInv'
    BY <1>1, <2>1, <2>2, <2>4 DEF OrderInv
  <2> QED
    BY <1>1, <2>1, <2>2, <2>5 DEF IInv, Labels, Setting
<1>4. CASE ~ (r.x >= r.end)
  <2>1. OrderStep(1, "bytes") /\ r.x + 1 <= r.end
    BY <1>1, <1>4 DEF OrderBytes
  <2> QED
    BY <1>1, <2>1, OrderingStep
<1> QED
  BY <1>3, <1>4

-----------------------------------------------------------------------------
(* The invariant of a call *)

LEMMA InitLemma ==
    ASSUME MemoryAssumption, Supported, "memcmp" \in Ops => LowScratch, Init
    PROVE  IInv
<1>1. /\ call \in Calls /\ call.op \in Ops /\ pc = "enter" /\ mem = Memory0(call)
      /\ Sound(call)
  BY CallSound DEF Init
<1>2. PICK s \in Scratch :
          r = [x |-> RegionA + call.a, y |-> RegionB + call.b, end |-> 0,
               words |-> s, val |-> call.val, res |-> None]
  BY DEF Init
<1>3. /\ Start = RegionA + call.a /\ Start \in Nat /\ RegionA = 4 /\ call.a \in Nat
      /\ RegionB \in Nat /\ call.b \in Nat /\ call.size \in Nat /\ s \in Int
      /\ call.op \in Setting => call.b = 0
  BY <1>1 DEF Sound, Start, MemoryAssumption
<1>4. /\ r.x = Start /\ r.y = RegionB + call.b /\ r.end = 0 /\ r.words = s
      /\ r.val = call.val /\ r.res = None
  BY <1>2, <1>3
<1>5. call.val \in WordValue \cup {None} /\ (call.op \in Setting => call.val \in WordValue)
  BY <1>1 DEF Sound, Setting
<1>6. Registers(r)
  <2>1. RegionA + call.a \in Int /\ RegionB + call.b \in Int
    BY <1>3
  <2> QED
    BY <1>2, <1>3, <1>5, <2>1 DEF Registers
<1>7. mem = Partial(call, r.x)
  BY <1>1, <1>3, <1>4, PartialEnds
<1>8. Agree(call, r.x - Start) /\ r.x - Start = 0 /\ r.y - RegionB - call.b = 0
  <2>1. r.x - Start = 0 /\ r.y - RegionB - call.b = 0
    BY <1>3, <1>4
  <2> QED
    BY <2>1 DEF Agree
<1>9. call.op \in Setting => FillInv
  BY <1>1, <1>3, <1>4, <1>5, <1>8 DEF FillInv
<1>10. call.op = "memcpy" => CopyInv
  BY <1>1, <1>4, <1>8 DEF CopyInv
<1>11. call.op = "memcmp" => EqualInv
  <2> SUFFICES ASSUME call.op = "memcmp" PROVE EqualInv
    OBVIOUS
  <2>1. s <= RegionA + 4
    BY <1>1 DEF LowScratch
  <2>2. r.words <= Start + 4
    BY <1>3, <1>4, <2>1
  <2> QED
    BY <1>1, <1>4, <1>8, <2>2 DEF EqualInv
<1>12. call.op = "compare" => OrderInv
  <2> SUFFICES ASSUME call.op = "compare" PROVE OrderInv
    OBVIOUS
  <2>1. Start <= Start + Shorter(call)
    BY <1>1, <1>3 DEF Shorter, Sound
  <2> QED
    BY <1>1, <1>4, <1>8, <2>1 DEF OrderInv
<1>13. Start <= r.x /\ r.x <= Start + call.size /\ (call.op \in Setting => r.y = RegionB)
  BY <1>3, <1>4
<1> QED
  BY <1>1, <1>6, <1>7, <1>9, <1>10, <1>11, <1>12, <1>13 DEF IInv, Labels

LEMMA StepLemma ==
    ASSUME MemoryAssumption, Supported, IInv, [Next]_vars
    PROVE  IInv'
<1>1. CASE UNCHANGED vars
  <2>1. call' = call /\ pc' = pc /\ mem' = mem /\ r' = r
    BY <1>1 DEF vars
  <2>2. Start' = Start /\ Registers(r)' = Registers(r)
    BY <2>1 DEF Start, Registers
  <2>3. FillInv' = FillInv
    BY <2>1, <2>2 DEF FillInv
  <2>4. CopyInv' = CopyInv /\ EqualInv' = EqualInv /\ OrderInv' = OrderInv
    BY <2>1, <2>2 DEF CopyInv, EqualInv, OrderInv
  <2> QED
    BY <2>1, <2>2, <2>3, <2>4 DEF IInv
<1>2. CASE EnterSet
  BY <1>2, EnterSetStep
<1>3. CASE SetBlock
  BY <1>3, SetBlockStep
<1>4. CASE SetWords
  BY <1>4, SetWordsStep
<1>5. CASE SetBytes
  BY <1>5, SetBytesStep
<1>6. CASE EnterCopy
  BY <1>6, EnterCopyStep
<1>7. CASE CopyBlock
  BY <1>7, CopyBlockStep
<1>8. CASE CopyWords
  BY <1>8, CopyWordsStep
<1>9. CASE CopyBytes
  BY <1>9, CopyBytesStep
<1>10. CASE EnterCompare
  BY <1>10, EnterCompareStep
<1>11. CASE CompareBlock
  BY <1>11, CompareBlockStep
<1>12. CASE CompareWords
  BY <1>12, CompareWordsStep
<1>13. CASE CompareBytes
  BY <1>13, CompareBytesStep
<1>14. CASE EnterOrder
  BY <1>14, EnterOrderStep
<1>15. CASE OrderWords
  BY <1>15, OrderWordsStep
<1>16. CASE OrderBytes
  BY <1>16, OrderBytesStep
<1> QED
  BY <1>1, <1>2, <1>3, <1>4, <1>5, <1>6, <1>7, <1>8, <1>9, <1>10, <1>11, <1>12, <1>13, <1>14, <1>15, <1>16
     DEF Next

\* _memcmp has found equality when all bytes are equal, and one load of a constant
\* finds the same.
LEMMA EqualityFound ==
    ASSUME NEW c, c.size \in Nat, NEW res, res <=> Agree(c, c.size)
    PROVE  EqualConstant(c, res) <=> VmEqual(c)
<1>1. VmEqual(c) <=> Agree(c, c.size)
  BY DEF VmEqual, Differing, Agree
<1> QED
  BY <1>1 DEF EqualConstant, Agree

LEMMA SameFound ==
    ASSUME NEW c, c.size \in Nat, NEW res, res => Agree(c, c.size), EqualConstant(c, res)
    PROVE  VmEqual(c)
<1>1. VmEqual(c) <=> Agree(c, c.size)
  BY DEF VmEqual, Differing, Agree
<1> QED
  BY <1>1 DEF EqualConstant, Agree

\* Where the interpreter is right about the order of strings, it finds that of the
\* first difference.
LEMMA InterpretersOrder ==
    ASSUME NEW c, c.size \in Nat, c.other \in Nat, VmOrders(c)
    PROVE  Relations(Order(c)) = Relations(VmCompare(c))
<1> DEFINE n == IF c.size < c.other THEN c.size ELSE c.other
           d == Differing(c, n)
           ends == {i \in 0 .. n - 1 : TextA(c, i) # TextB(c, i) \/ TextA(c, i) = {}}
<1>1. n \in Nat /\ d \subseteq 0 .. n - 1 /\ d \subseteq ends /\ ends \subseteq Nat
  BY DEF Differing
<1>2. CASE c.size = 0 \/ c.other = 0
  <2>1. n = 0 /\ d = {} /\ ends = {}
    BY <1>2 DEF Differing
  <2>2. Order(c) = c.size - c.other
    BY <2>1 DEF Order
  <2>3. VmCompare(c) = IF c.size = 0 /\ c.other > 0 THEN -1 ELSE IF c.size > 0 /\ c.other = 0 THEN 1 ELSE 0
    BY <1>2, <2>1 DEF VmCompare, StrNCmp
  <2> HIDE DEF n, d, ends
  <2> QED
    BY <1>2, <2>2, <2>3 DEF Relations
<1>3. CASE c.size # 0 /\ c.other # 0
  <2>1. VmCompare(c) = StrNCmp(c, n)
    BY <1>3 DEF VmCompare
  <2>2. CASE c.size = c.other /\ d = {}
    <3>1. Order(c) = 0
      BY <2>2 DEF Order
    <3>2. \A i \in ends : TextA(c, i) = TextB(c, i)
      BY <2>2 DEF Differing
    <3>3. ends # {} => (CHOOSE i \in ends : \A j \in ends : i <= j) \in ends
      BY <1>1, MinNat
    <3>4. StrNCmp(c, n) = 0
      BY <3>2, <3>3 DEF StrNCmp
    <3> QED
      BY <2>1, <3>1, <3>4
  <2>3. CASE \E j \in d : \A i \in 0 .. j - 1 : TextA(c, i) # {}
    <3>1. PICK j \in d : \A i \in 0 .. j - 1 : TextA(c, i) # {}
      BY <2>3
    <3>2. PICK f \in d : \A i \in d : f <= i
      BY <1>1, <3>1, MinNat
    <3>3. f \in ends /\ \A i \in ends : f <= i
      <4> SUFFICES ASSUME NEW i \in ends, i < f PROVE FALSE
        BY <1>1, <3>2
      <4>1. i \in Nat /\ j \in Nat /\ f \in Nat /\ f <= j
        BY <1>1, <3>1, <3>2
      <4>2. i \notin d
        BY <3>2, <4>1
      <4>3. i \in 0 .. j - 1
        BY <4>1
      <4> QED
        BY <3>1, <4>2, <4>3 DEF Differing
    <3>4. (CHOOSE i \in d : \A k \in d : i <= k) = f /\ (CHOOSE i \in ends : \A k \in ends : i <= k) = f
      BY <1>1, <3>2, <3>3, First
    <3>5. TextA(c, f) # TextB(c, f)
      BY <3>2 DEF Differing
    <3>6. StrNCmp(c, n) = Weight(TextA(c, f)) - Weight(TextB(c, f))
      BY <3>3, <3>4, <3>5 DEF StrNCmp
    <3>7. Order(c) = Weight(TextA(c, f)) - Weight(TextB(c, f))
      BY <3>2, <3>4 DEF Order
    <3> QED
      BY <2>1, <3>6, <3>7
  <2> QED
    BY <1>3, <2>2, <2>3 DEF VmOrders
<1> QED
  BY <1>2, <1>3

\* What a routine has done when it returns, and where its pointers are until then.
LEMMA ReturnLemma ==
    ASSUME MemoryAssumption, Supported, IInv
    PROVE  RoutinesRight
<1>1. /\ Sound(call) /\ call.op \in AllOps /\ RegionA = 4 /\ call.a \in 0 .. 3 /\ call.b \in 0 .. 3
      /\ RegionB \in Nat /\ call.size \in Nat /\ call.size + 13 <= RegionB /\ Start = RegionA + call.a
      /\ r.x \in Int /\ r.y \in Int /\ Start <= r.x /\ r.x <= Start + call.size
      /\ mem = Partial(call, r.x) /\ pc \in Labels
  BY Ready DEF IInv, Sound, Start
<1>2. TypeOK
  <2>1. \A z \in Addresses : call.op \notin Comparing /\ z \in Extent(RegionA + call.a, r.x - RegionA - call.a) =>
           VmByte(call, z - RegionA - call.a) \in Byte
    <3> SUFFICES ASSUME call.op \notin Comparing, NEW i \in Nat, i < call.size
                 PROVE  VmByte(call, i) \in Byte
      BY <1>1 DEF Extent, Addresses
    <3>1. i % 4 \in 0 .. 3
      OBVIOUS
    <3>2. CASE call.op = "memcpy"
      <4>1. RegionB + call.b + i \in Addresses
        BY <1>1 DEF Addresses
      <4> QED
        BY <3>2, <4>1, MemoryType DEF VmByte
    <3>3. CASE call.op \in Setting
      <4>1. call.val \in WordValue
        BY <1>1, <3>3 DEF Sound
      <4>2. call.val[i % 4] \in Byte /\ call.val[0] \in Byte /\ HighWord(call.val)[i % 4] \in Byte
        BY <3>1, <4>1 DEF WordValue, HighWord, Byte
      <4> QED
        BY <3>3, <4>2 DEF VmByte, Setting
    <3> QED
      BY <1>1, <3>2, <3>3 DEF AllOps
  <2>2. mem \in [Addresses -> Byte]
    BY <1>1, <2>1, MemoryType DEF Partial
  <2>3. r.y >= RegionB + call.b /\ r.y <= RegionB + call.b + call.size
    <3>1. CASE call.op \in Setting
      BY <1>1, <3>1 DEF IInv, Sound
    <3>2. CASE call.op \notin Setting
      <4>1. r.y - RegionB - call.b = r.x - Start
        BY <1>1, <3>2 DEF IInv, AllOps, Setting, Comparing, CopyInv, EqualInv, OrderInv
      <4> QED
        BY <1>1, <4>1
    <3> QED
      BY <3>1, <3>2
  <2>4. r.x \in Addresses /\ r.y \in Addresses
    BY <1>1, <2>3 DEF Addresses
  <2> QED
    BY <1>1, <2>2, <2>4 DEF TypeOK, Labels
<1>3. PointersInRange
  <2>1. call.op = "compare" => r.x <= Start + call.other
    <3> SUFFICES ASSUME call.op = "compare" PROVE r.x <= Start + call.other
      OBVIOUS
    <3>1. r.x <= Start + Shorter(call) /\ call.other \in Nat
      BY <1>1 DEF IInv, OrderInv, Sound
    <3>2. Shorter(call) <= call.other /\ Shorter(call) \in Nat
      BY <1>1, <3>1 DEF Shorter
    <3> QED
      BY <1>1, <3>1, <3>2
  <2> QED
    BY <1>1, <2>1 DEF PointersInRange
<1>4. WrittenRight
  <2> SUFFICES ASSUME pc = "done" PROVE mem = VmMemory(call)
    BY DEF WrittenRight
  <2>1. call.op \in Comparing \/ r.x = Start + call.size
    BY <1>1 DEF IInv, FillInv, CopyInv, AllOps
  <2> QED
    BY <1>1, <2>1, PartialEnds
<1>5. ResultRight
  <2> SUFFICES ASSUME pc = "done"
               PROVE  /\ call.op = "memcmp" => EqualConstant(call, r.res = -1) = VmEqual(call)
                      /\ call.op = "compare" => Relations(r.res) = Relations(Order(call))
                      /\ call.op = "compare" /\ VmOrders(call) =>
                            Relations(r.res) = Relations(VmCompare(call))
    BY DEF ResultRight
  <2>1. ASSUME call.op = "memcmp" PROVE EqualConstant(call, r.res = -1) = VmEqual(call)
    <3>1. r.res = -1 <=> Agree(call, call.size)
      BY <2>1 DEF IInv, EqualInv, None
    <3>2. EqualConstant(call, r.res = -1) <=> VmEqual(call)
      BY <1>1, <3>1, EqualityFound
    <3>3. VmEqual(call) \in BOOLEAN /\ EqualConstant(call, r.res = -1) \in BOOLEAN
      BY DEF VmEqual, EqualConstant
    <3> QED
      BY <3>2, <3>3
  <2>2. ASSUME call.op = "compare" PROVE Relations(r.res) = Relations(Order(call))
    BY <2>2 DEF IInv, OrderInv
  <2>3. ASSUME call.op = "compare", VmOrders(call) PROVE Relations(Order(call)) = Relations(VmCompare(call))
    BY <1>1, <2>3, InterpretersOrder DEF Sound
  <2> QED
    BY <2>1, <2>2, <2>3
<1>6. DifferentDiffer
  BY <1>1, SameFound DEF IInv, EqualInv, None, DifferentDiffer
<1> QED
  BY <1>2, <1>3, <1>4, <1>5, <1>6 DEF RoutinesRight

\* In calls with Supported, and with a low R9 for _memcmp, a routine that has returned
\* has filled or copied what the interpreter fills and copies and no byte beside it,
\* has found equality as the interpreter does, or the order of two strings that the
\* compiler finds for constants; and its pointers never leave the arguments.
THEOREM RoutinesAreRight ==
    ASSUME MemoryAssumption, Supported, "memcmp" \in Ops => LowScratch
    PROVE  Spec => []RoutinesRight
<1>1. Init => IInv
  BY InitLemma
<1>2. IInv /\ [Next]_vars => IInv'
  BY StepLemma
<1>3. IInv => RoutinesRight
  BY ReturnLemma
<1> QED
  BY <1>1, <1>2, <1>3, PTL DEF Spec

-----------------------------------------------------------------------------
(* Whatever R9 holds *)

\* The part of EqualInv that does not need a low R9: the pointers may move past the
\* end, but all bytes they have passed are equal.
PassedInv ==
    /\ call.op = "memcmp" /\ call.size \in Nat /\ Start \in Int
    /\ mem = Memory0(call)
    /\ Registers(r) /\ r.y - RegionB - call.b = r.x - Start /\ r.x - Start \in Nat
    /\ RegionB \in Int /\ call.b \in Int
    /\ pc = "enter" => r.x = Start
    /\ pc # "done" => Agree(call, r.x - Start)
    /\ pc \in {"block", "words", "bytes"} => r.end = Start + call.size
    /\ pc = "done" /\ r.res = -1 => Agree(call, call.size)

\* One more block, word or byte is passed.
LEMMA PassingStep ==
    ASSUME PassedInv, pc # "done", call' = call, mem' = mem, r.end = Start + call.size,
           NEW n \in Nat, NEW next \in {"block", "words", "bytes"}, NEW w \in Int, CompareStep(n, next, w)
    PROVE  PassedInv'
<1> DEFINE k == r.x - Start
<1>1. /\ Registers(r) /\ r.x \in Int /\ r.y \in Int /\ Start \in Int /\ k \in Nat
      /\ RegionB \in Int /\ call.b \in Int /\ r.y - RegionB - call.b = k
  BY DEF PassedInv, Registers
<1>2. Start' = Start
  BY DEF Start
<1>3. CASE \A i \in 0 .. n - 1 : mem[r.x + i] = mem[r.y + i]
  <2>1. r' = [r EXCEPT !.x = r.x + n, !.y = r.y + n, !.words = w] /\ pc' = next
    BY <1>3 DEF CompareStep, Goto
  <2>2. r.x + n \in Int /\ r.y + n \in Int
    BY <1>1
  <2>3. Registers(r') /\ r'.x = r.x + n /\ r'.y = r.y + n /\ r'.end = r.end
    BY <1>1, <2>1, <2>2 DEF Registers
  <2>4. ASSUME NEW i \in 0 .. n - 1 PROVE TextA(call, k + i) = TextB(call, k + i)
    <3>1. /\ RegionA + call.a + (k + i) = r.x + i
          /\ RegionB + call.b + (k + i) = r.y + i
      <4>1. Start + (k + i) = r.x + i /\ RegionB + call.b + (k + i) = r.y + i
        BY <1>1
      <4> QED
        BY <4>1 DEF Start
    <3> QED
      BY <1>3, <3>1 DEF PassedInv, TextA, TextB
  <2>5. Agree(call, k)
    BY DEF PassedInv
  <2>6. k + n = r'.x - Start /\ k + n \in Nat /\ r'.y - RegionB - call.b = k + n
    BY <1>1, <2>3
  <2> HIDE DEF k
  <2>7. Agree(call, k + n)
    BY <1>1, <2>4, <2>5, AgreeOn
  <2> QED
    BY <1>1, <1>2, <2>1, <2>3, <2>6, <2>7 DEF PassedInv
<1>4. CASE ~ \A i \in 0 .. n - 1 : mem[r.x + i] = mem[r.y + i]
  <2>1. r' = [r EXCEPT !.res = 0, !.words = w] /\ pc' = "done"
    BY <1>4 DEF CompareStep, Goto
  <2>2. Registers(r') /\ r'.x = r.x /\ r'.y = r.y /\ r'.res = 0
    BY <1>1, <2>1 DEF Registers
  <2> QED
    BY <1>1, <1>2, <2>1, <2>2 DEF PassedInv
<1> QED
  BY <1>3, <1>4

LEMMA PassedStep ==
    ASSUME PassedInv, [Next]_vars
    PROVE  PassedInv'
<1>1. /\ Registers(r) /\ r.x \in Int /\ r.y \in Int /\ r.end \in Int /\ r.words \in Int
      /\ call.op = "memcmp" /\ call.size \in Nat /\ Start \in Int
  BY DEF PassedInv, Registers
<1>2. CASE UNCHANGED vars
  <2>1. call' = call /\ pc' = pc /\ mem' = mem /\ r' = r
    BY <1>2 DEF vars
  <2>2. Start' = Start /\ Registers(r)' = Registers(r)
    BY <2>1 DEF Start, Registers
  <2> QED
    BY <2>1, <2>2 DEF PassedInv
<1>3. CASE EnterCompare
  <2>1. call' = call /\ mem' = mem /\ Start' = Start /\ pc = "enter" /\ pc' \in {"words", "block"}
    BY <1>3 DEF EnterCompare, Start, Goto
  <2>2. r' = [r EXCEPT !.end = r.x + call.size] /\ r.x + call.size \in Int
    BY <1>1, <1>3 DEF EnterCompare
  <2>3. Registers(r') /\ r'.x = r.x /\ r'.y = r.y /\ r'.end = r.x + call.size /\ r.x = Start
    BY <1>1, <2>1, <2>2 DEF Registers, PassedInv
  <2> QED
    BY <2>1, <2>3 DEF PassedInv
<1>4. CASE CompareBlock
  <2> DEFINE more == r.x + 16 < r.end - CompareBlockSize
             next == IF more THEN "block" ELSE "words"
             w == IF more THEN r.words ELSE r.end
  <2>1. /\ pc # "done" /\ call' = call /\ mem' = mem /\ CompareStep(16, next, w) /\ w \in Int
        /\ next \in {"block", "words", "bytes"} /\ r.end = Start + call.size
    BY <1>1, <1>4 DEF CompareBlock, PassedInv
  <2> HIDE DEF next, w
  <2> QED
    BY <2>1, PassingStep
<1>5. CASE CompareWords
  <2>1. /\ pc = "words" /\ call' = call /\ mem' = mem /\ Start' = Start /\ r.end = Start + call.size
        /\ r.words - 4 \in Int
    BY <1>1, <1>5 DEF CompareWords, PassedInv, Start
  <2>2. CASE r.x >= r.words - 4
    <3>1. pc' = "bytes" /\ r' = [r EXCEPT !.words = r.words - 4]
      BY <1>5, <2>2 DEF CompareWords, Goto
    <3>2. Registers(r') /\ r'.x = r.x /\ r'.y = r.y /\ r'.end = r.end
      BY <1>1, <2>1, <3>1 DEF Registers
    <3> QED
      BY <2>1, <3>1, <3>2 DEF PassedInv
  <2>3. CASE ~ (r.x >= r.words - 4)
    <3>1. CompareStep(4, "words", r.words - 4)
      BY <1>5, <2>3 DEF CompareWords
    <3> QED
      BY <2>1, <3>1, PassingStep
  <2> QED
    BY <2>2, <2>3
<1>6. CASE CompareBytes
  <2>1. pc = "bytes" /\ call' = call /\ mem' = mem /\ Start' = Start /\ r.end = Start + call.size
    BY <1>6 DEF CompareBytes, PassedInv, Start
  <2>2. CASE r.x >= r.end
    <3>1. pc' = "done" /\ r' = [r EXCEPT !.res = -1]
      BY <1>6, <2>2 DEF CompareBytes, Goto
    <3>2. Registers(r') /\ r'.x = r.x /\ r'.y = r.y
      BY <1>1, <3>1 DEF Registers
    <3>3. Agree(call, r.x - Start) /\ call.size <= r.x - Start /\ r.x - Start \in Nat
      BY <1>1, <2>1, <2>2 DEF PassedInv
    <3>4. Agree(call, call.size)
      BY <1>1, <3>3 DEF Agree
    <3> QED
      BY <2>1, <3>1, <3>2, <3>4 DEF PassedInv
  <2>3. CASE ~ (r.x >= r.end)
    <3>1. CompareStep(1, "bytes", r.words)
      BY <1>6, <2>3 DEF CompareBytes
    <3> QED
      BY <1>1, <2>1, <3>1, PassingStep
  <2> QED
    BY <2>2, <2>3
<1>7. \/ UNCHANGED vars \/ EnterCompare \/ CompareBlock \/ CompareWords \/ CompareBytes
  BY <1>1 DEF Next, EnterSet, SetBlock, SetWords, SetBytes, EnterCopy, CopyBlock, CopyWords, CopyBytes,
     EnterOrder, OrderWords, OrderBytes
<1> QED
  BY <1>2, <1>3, <1>4, <1>5, <1>6, <1>7

\* Whatever its caller has left in R9, _memcmp does not find two different strings
\* equal, for every length and alignment.  (That it finds equal ones equal needs a
\* low R9.)
THEOREM DifferentStringsDiffer ==
    ASSUME MemoryAssumption, Ops = {"memcmp"}
    PROVE  Spec => []DifferentDiffer
<1>1. Init => PassedInv
  <2> SUFFICES ASSUME Init PROVE PassedInv
    OBVIOUS
  <2>1. Supported
    BY DEF Supported
  <2>2. call \in Calls /\ call.op = "memcmp" /\ pc = "enter" /\ mem = Memory0(call) /\ Sound(call)
    BY <2>1, CallSound DEF Init
  <2>3. PICK s \in Scratch :
            r = [x |-> RegionA + call.a, y |-> RegionB + call.b, end |-> 0,
                 words |-> s, val |-> call.val, res |-> None]
    BY DEF Init
  <2>4. /\ Start = RegionA + call.a /\ Start \in Int /\ RegionB \in Int /\ call.b \in Int
        /\ RegionB + call.b \in Int /\ call.size \in Nat /\ s \in Int /\ call.val = None
    BY <2>2 DEF Sound, Start, MemoryAssumption, Setting
  <2>5. Registers(r) /\ r.x = Start /\ r.y = RegionB + call.b
    BY <2>3, <2>4 DEF Registers
  <2>6. r.x - Start = 0 /\ r.y - RegionB - call.b = 0
    BY <2>4, <2>5
  <2>7. Agree(call, r.x - Start)
    BY <2>6 DEF Agree
  <2> QED
    BY <2>2, <2>4, <2>5, <2>6, <2>7 DEF PassedInv
<1>2. PassedInv /\ [Next]_vars => PassedInv'
  BY PassedStep
<1>3. PassedInv => DifferentDiffer
  BY SameFound DEF PassedInv, DifferentDiffer
<1> QED
  BY <1>1, <1>2, <1>3, PTL DEF Spec

=============================================================================
