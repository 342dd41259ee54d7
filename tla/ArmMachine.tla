----------------------------- MODULE ArmMachine -----------------------------
(***************************************************************************)
(* The interpreter of ARM code that the tests of the back ends run on       *)
(* (arch/arm32/arm_vm.c): what every instruction does to the registers, the *)
(* flags, the memory and the registers of the two floating point units.     *)
(* The operating system (SWI) is left out.                                  *)
(*                                                                         *)
(* A byte has ByteBits bits and a word four bytes; a word is a signed       *)
(* integer, as in the source.  A real number is its double, so that halves  *)
(* are whole numbers: a float is the word that holds it, a double two       *)
(* words.  Instructions are the records of ArmDisass; the program and the   *)
(* memory have addresses from 0 up.                                         *)
(***************************************************************************)
EXTENDS Integers, Sequences, FiniteSets, TLC

CONSTANT ByteBits       \* at least 6, so that the fields of FPSCR fit

-----------------------------------------------------------------------------
(* Words *)

W == 4 * ByteBits
H == 2 * ByteBits
Unsigned(x) == x % 2 ^ W
Word(x) == ((x + 2 ^ (W - 1)) % 2 ^ W) - 2 ^ (W - 1)
Bit(x, b) == (x \div 2 ^ b) % 2 = 1
BitsOf(x) == {b \in 0 .. W - 1 : Bit(x, b)}

\* The words with these bits.
RECURSIVE SumOf(_)
SumOf(S) == IF S = {} THEN 0 ELSE LET b == CHOOSE b \in S : TRUE IN 2 ^ b + SumOf(S \ {b})
WordOf(S) == Word(SumOf(S))

Least(a, b) == IF a < b THEN a ELSE b
Most(a, b) == IF a < b THEN b ELSE a

-----------------------------------------------------------------------------
(* Condition codes and flags *)

Match(s, cc) ==
    LET yes == CASE cc \div 2 = 0 -> s.z
                 [] cc \div 2 = 1 -> s.c
                 [] cc \div 2 = 2 -> s.n
                 [] cc \div 2 = 3 -> s.v
                 [] cc \div 2 = 4 -> s.c /\ ~s.z
                 [] cc \div 2 = 5 -> s.n = s.v
                 [] cc \div 2 = 6 -> ~s.z /\ s.n = s.v
                 [] cc \div 2 = 7 -> TRUE
    IN  yes = (cc % 2 = 0)

Fail(s) == [s EXCEPT !.failed = TRUE]
Advance(s) == [s EXCEPT !.regs[15] = @ + 4]
Set(s, r, x) == [s EXCEPT !.regs[r] = x]

\* The instruction that makes t of the machine s, if its condition holds.
When(s, i, t) == IF Match(s, i.cc) THEN IF t.failed THEN t ELSE Advance(t) ELSE Advance(s)

LogicFlags(s, res) == [s EXCEPT !.n = res < 0, !.z = res = 0]
SumFlags(s, res, carry, overflow) ==
    [s EXCEPT !.n = res < 0, !.z = res = 0, !.c = carry, !.v = overflow]

\* Mutant: the borrow of two negative numbers is forgotten.
SubFlagsNoBorrow(s, a, b, res) ==
    SumFlags(s, res, (a < 0 /\ b >= 0) \/ (b >= 0 /\ res >= 0),
             (a < 0) # (b < 0) /\ (a < 0) # (res < 0))

SubFlags(s, a, b, res) ==
    SumFlags(s, res, (a < 0 /\ b >= 0) \/ (a < 0 /\ res >= 0) \/ (b >= 0 /\ res >= 0),
             (a < 0) # (b < 0) /\ (a < 0) # (res < 0))

AddFlags(s, a, b, res) ==
    SumFlags(s, res, (a < 0 /\ b < 0) \/ (a < 0 /\ res >= 0) \/ (b < 0 /\ res >= 0),
             (a < 0) = (b < 0) /\ (a < 0) # (res < 0))

\* The instruction that the program counter is two ahead of.
Pc(s) == (s.regs[15] - 8) \div 4
InCode(s) == Pc(s) \in 0 .. s.length - 1

-----------------------------------------------------------------------------
(* Second operands *)

Distance(s, o) == IF o.byReg THEN Least(s.regs[o.by], W) ELSE o.by

ShiftFails(s, o) ==
    LET by == Distance(s, o)
    IN  CASE o.shift \in {"LSL", "ASL"} -> by < 0 \/ by > W - 1
          [] o.shift \in {"LSR", "ASR"} -> by < 0 \/ by > W
          [] o.shift = "ROR" -> by < 1 \/ by > W - 1
          [] o.shift = "RRX" -> FALSE

Left(x, by) == Word((Unsigned(x) % 2 ^ (W - by)) * 2 ^ by)
Right(x, by) == x \div 2 ^ by
ClearAbove(x, by) == IF x < 0 THEN Word(Unsigned(x) \div 2 ^ by) ELSE Right(x, by)

\* A shift to the right by as many places as a word has is undefined; the
\* processors the interpreter runs on do not shift then.
Shifted(s, o) ==
    LET x == s.regs[o.reg]
        by == Distance(s, o)
    IN  CASE o.shift \in {"LSL", "ASL"} -> Left(x, by)
          [] o.shift = "LSR" -> IF by = W THEN x ELSE ClearAbove(x, by)
          [] o.shift = "ASR" -> IF by \in {0, W} THEN x ELSE Right(x, by)
          [] o.shift = "ROR" -> WordOf(BitsOf(Right(x, by)) \cup BitsOf(Left(x, W - by)))
          [] o.shift = "RRX" ->
                WordOf((BitsOf(Right(x, 1)) \ {W - 1}) \cup (IF s.c THEN {W - 1} ELSE {}))

\* An encoded constant: a byte, and above it half the places it is rotated by.
DecodeImm(n) ==
    LET by == 2 * (n \div 2 ^ ByteBits)
        byte == n % 2 ^ ByteBits
    IN  IF by = 0 THEN n ELSE Word(byte \div 2 ^ by + (byte % 2 ^ by) * 2 ^ (W - by))

Op2Fails(s, o) == o.kind = "shift" /\ ShiftFails(s, o)
Op2(s, o) ==
    CASE o.kind = "reg" -> s.regs[o.reg]
      [] o.kind = "int" -> DecodeImm(o.int)
      [] o.kind = "shift" -> Shifted(s, o)

\* The last bit that is shifted out.
ShiftFlags(s, o) ==
    IF o.kind # "shift" THEN s
    ELSE LET x == s.regs[o.reg]
             by == Distance(s, o)
         IN  CASE o.shift = "RRX" -> [s EXCEPT !.c = Bit(x, 0)]
               [] o.shift # "RRX" /\ by = 0 -> s
               [] o.shift \in {"LSL", "ASL"} /\ by > 0 -> [s EXCEPT !.c = Bit(x, W - by)]
               [] o.shift \in {"LSR", "ASR", "ROR"} /\ by > 0 -> [s EXCEPT !.c = Bit(x, by - 1)]

-----------------------------------------------------------------------------
(* Integer instructions *)

Logic(type, a, b) ==
    CASE type \in {"AND", "TST"} -> WordOf(BitsOf(a) \cap BitsOf(b))
      [] type = "BIC" -> WordOf(BitsOf(a) \ BitsOf(b))
      [] type \in {"EOR", "TEQ"} -> WordOf((BitsOf(a) \cup BitsOf(b)) \ (BitsOf(a) \cap BitsOf(b)))
      [] type = "ORR" -> WordOf(BitsOf(a) \cup BitsOf(b))
      [] type = "MOV" -> b
      [] type = "MVN" -> -b - 1

\* MVN sets the flags for its operand.  A move into the program counter is a jump to
\* the address in the low three bytes; the program counter is two instructions ahead.
ProcessLogic(s, i) ==
    LET b == Op2(s, i.op2)
        res == Logic(i.type, s.regs[i.op1], b)
        flagged == IF i.status
                   THEN LogicFlags(ShiftFlags(s, i.op2), IF i.type = "MVN" THEN b ELSE res)
                   ELSE s
    IN  IF i.type \in {"TST", "TEQ"} THEN Advance(flagged)
        ELSE IF i.type = "MOV" /\ i.dest = 15
             THEN Set(flagged, 15, (Unsigned(res) % 2 ^ (3 * ByteBits)) + 8)
             ELSE Advance(Set(flagged, i.dest, res))

\* ADC sets the flags for the sum of the operand and the carry; CMN those of a
\* comparison with the negated operand.  ADD and RSB write their result when the
\* program counter is already on the next instruction, the others before.
ProcessArith(s, i) ==
    LET a == s.regs[i.op1]
        b == Op2(s, i.op2)
        after == IF i.op2.kind = "shift" /\ i.op2.shift = "RRX" /\ i.status
                 THEN ShiftFlags(s, i.op2) ELSE s
        carried == Word(b + IF after.c THEN 1 ELSE 0)
        Put(res, flagged) == Advance(Set(IF i.status THEN flagged ELSE after, i.dest, res))
        PutLast(res, flagged) == Set(Advance(IF i.status THEN flagged ELSE after), i.dest, res)
    IN  CASE i.type = "ADD" -> PutLast(Word(a + b), AddFlags(s, a, b, Word(a + b)))
          [] i.type = "ADC" -> Put(Word(a + carried), AddFlags(s, a, carried, Word(a + carried)))
          [] i.type = "SUB" -> Put(Word(a - b), SubFlags(s, a, b, Word(a - b)))
          [] i.type = "RSB" -> PutLast(Word(b - a), SubFlags(s, b, a, Word(b - a)))
          [] i.type = "CMP" -> Advance(SubFlags(s, a, b, Word(a - b)))
          [] i.type = "CMN" -> Advance(SubFlags(s, a, Word(-b), Word(a - Word(-b))))

Comparisons == {"CMP", "CMN", "TST", "TEQ"}
Arithmetic == {"ADD", "ADC", "SUB", "RSB", "CMP", "CMN"}

\* SBC and RSC are not interpreted.
ProcessData(s, i) ==
    IF (i.type \in Comparisons /\ ~i.status) \/ i.type \in {"SBC", "RSC"} THEN Fail(s)
    ELSE IF ~Match(s, i.cc) THEN Advance(s)
    ELSE IF Op2Fails(s, i.op2) THEN Fail(s)
    ELSE IF i.type \in Arithmetic THEN ProcessArith(s, i) ELSE ProcessLogic(s, i)

ProcessMul(s, i) ==
    When(s, i, Set(s, i.dest, Word(s.regs[i.rm] * s.regs[i.rs]
                                   + IF i.type = "MLA" THEN s.regs[i.rn] ELSE 0)))

ProcessBranch(s, i) ==
    IF ~Match(s, i.cc) THEN Advance(s)
    ELSE LET linked == IF i.link THEN Set(s, 14, s.regs[15] - 4) ELSE s
             t == Set(linked, 15, s.regs[15] + 4 * i.offset + 8)
         IN  IF InCode(t) THEN t ELSE Fail(t)

-----------------------------------------------------------------------------
(* Memory *)

Size(s) == Cardinality(DOMAIN s.mem)

\* The n bytes at address a, the lowest first, as a number without a sign.
RECURSIVE Load(_, _, _)
Load(s, a, n) == IF n = 0 THEN 0 ELSE s.mem[a] + 2 ^ ByteBits * Load(s, a + 1, n - 1)
LoadWord(s, a) == Word(Load(s, a, 4))
Store(s, a, n, x) ==
    [s EXCEPT !.mem = [b \in DOMAIN @ |->
        IF b \in a .. a + n - 1 THEN (x \div 2 ^ (ByteBits * (b - a))) % 2 ^ ByteBits ELSE @[b]]]

\* The address of a transfer of size bytes, and the machine with its base register
\* changed.  (The test lets addresses just below the memory pass.)
Address(s, i, offset) ==
    IF i.preIndexed THEN s.regs[i.base] + offset ELSE s.regs[i.base]
Based(s, i, offset, always) ==
    IF i.writeBack \/ (always /\ ~i.preIndexed) THEN Set(s, i.base, s.regs[i.base] + offset) ELSE s
Outside(s, a, size) == a < 0 \/ a + size > Size(s)
Offset(i, x) == IF i.subtract THEN -x ELSE x

\* A byte is tested as if it were a word.
ProcessStran(s, i) ==
    LET off == Offset(i, IF i.offset.kind = "int" THEN i.offset.int ELSE Op2(s, i.offset))
        a == Address(s, i, off)
        t == Based(s, i, off, TRUE)
        n == IF i.byte THEN 1 ELSE 4
    IN  IF ~Match(s, i.cc) THEN Advance(s)
        ELSE IF Op2Fails(s, i.offset) \/ Outside(s, a, 4) THEN Fail(s)
        ELSE Advance(IF i.type = "STR" THEN Store(t, a, n, t.regs[i.dest])
                     ELSE Set(t, i.dest, IF i.byte THEN Load(t, a, 1) ELSE LoadWord(t, a)))

MiscSize == [SB |-> 1, SH |-> 2, H |-> 2, D |-> 8]
SignedLoad(s, a, n) ==
    LET x == Load(s, a, n) IN IF Bit(x, n * ByteBits - 1) THEN x - 2 ^ (n * ByteBits) ELSE x

ProcessStranMisc(s, i) ==
    LET off == Offset(i, IF i.byReg THEN s.regs[i.offset] ELSE i.offset)
        a == Address(s, i, off)
        t == Based(s, i, off, TRUE)
        store == i.type = "MISC_STR"
    IN  IF ~Match(s, i.cc) THEN Advance(s)
        ELSE IF \/ Outside(s, a, MiscSize[i.width])
                \/ store /\ i.width \in {"SB", "SH"}
                \/ i.width = "D" /\ i.dest % 2 = 1
             THEN Fail(s)
        ELSE Advance(
             CASE i.width = "D" /\ store -> Store(Store(t, a, 4, t.regs[i.dest]), a + 4, 4, t.regs[i.dest + 1])
               [] i.width = "D" /\ ~store -> Set(Set(t, i.dest, LoadWord(t, a)), i.dest + 1, LoadWord(t, a + 4))
               [] i.width # "D" /\ store -> Store(t, a, 2, t.regs[i.dest])
               [] i.width = "H" /\ ~store -> Set(t, i.dest, Load(t, a, 2))
               [] i.width \in {"SB", "SH"} -> Set(t, i.dest, SignedLoad(t, a, MiscSize[i.width])))

\* Upwards the lowest register comes first, downwards the highest, and the pointer
\* moves before or after each.  The program counter is not transferred.
Upwards(i) == i.mode \in IF i.type = "LDM" THEN {"FD", "IA", "ED", "IB"} ELSE {"FA", "IB", "EA", "IA"}
Before(i) == i.mode \in IF i.type = "LDM" THEN {"EA", "DB", "ED", "IB"} ELSE {"FA", "IB", "FD", "DB"}
SlotOf(s, i, r) ==
    LET rank == Cardinality({q \in i.regs \ {15} : IF Upwards(i) THEN q < r ELSE q > r})
                + IF Before(i) THEN 1 ELSE 0
    IN  s.regs[i.op0] + IF Upwards(i) THEN 4 * rank ELSE -4 * rank

RECURSIVE StoreAll(_, _, _, _)
StoreAll(s, t, i, R) ==
    IF R = {} THEN t
    ELSE LET r == CHOOSE r \in R : TRUE
         IN  StoreAll(s, Store(t, SlotOf(s, i, r), 4, s.regs[r]), i, R \ {r})

ProcessMtran(s, i) ==
    LET R == i.regs \ {15}
        moved == 4 * Cardinality(R)
        t == IF i.type = "STM" THEN StoreAll(s, s, i, R)
             ELSE [s EXCEPT !.regs = [r \in 0 .. 15 |-> IF r \in R THEN LoadWord(s, SlotOf(s, i, r)) ELSE @[r]]]
        based == IF i.writeBack
                 THEN Set(t, i.op0, s.regs[i.op0] + IF Upwards(i) THEN moved ELSE -moved) ELSE t
    IN  IF ~Match(s, i.cc) THEN Advance(s)
        ELSE IF \E r \in R : Outside(s, SlotOf(s, i, r), 4) THEN Fail(s)
        ELSE IF i.type = "LDM" /\ 15 \in i.regs THEN based ELSE Advance(based)

-----------------------------------------------------------------------------
(* Status words.  Both instructions use the one of the VFP. *)

FieldBits(fields) ==
    {b \in 0 .. W - 1 : Bit(fields, b \div ByteBits)}

ProcessFlags(s, i) ==
    IF ~Match(s, i.cc) THEN Advance(s)
    ELSE IF i.flagReg = "SPSR" THEN Fail(s)
    ELSE IF i.type = "MRS" THEN Advance(Set(s, i.reg, s.fpscr))
    ELSE Advance([s EXCEPT !.fpscr =
            WordOf(BitsOf(IF i.byReg THEN s.regs[i.reg] ELSE i.int) \cap FieldBits(i.fields))])

-----------------------------------------------------------------------------
(* The floating point accelerator: eight registers, which know their size. *)

FpaConstants == <<0, 2, 4, 6, 8, 10, 1, 20>>
FpaValue(s, i) == IF i.immediate THEN FpaConstants[i.op2 - 7] ELSE s.fpa[i.op2].val
SetFpa(s, r, size, x) == [s EXCEPT !.fpa[r] = [size |-> size, val |-> x]]

Halve(x) == IF x < 0 THEN -((-x) \div 2) ELSE x \div 2
Infinity == 2 ^ 20
Quotient(a, b) ==
    IF b = 0 THEN Infinity
    ELSE LET q == (2 * (IF a < 0 THEN -a ELSE a)) \div (IF b < 0 THEN -b ELSE b)
         IN  IF (a < 0) = (b < 0) THEN q ELSE -q
RECURSIVE RaisedTo(_, _)
RaisedTo(a, n) == IF n = 0 THEN 2 ELSE Halve(a * RaisedTo(a, n - 1))
Root(x) == CHOOSE r \in 0 .. x + 1 : r * r = 2 * x

\* What the C library returns, for the arguments where that is 0 or 1.
Library(type, x) ==
    CASE type \in {"SIN", "TAN", "ASN", "ATN"} /\ x = 0 -> 0
      [] type \in {"COS", "EXP"} /\ x = 0 -> 2
      [] type \in {"ACS", "LOG", "LGN"} /\ x = 2 -> 0
      [] OTHER -> Infinity

FpaResult(type, a, b) ==
    CASE type = "MVF" -> b
      [] type = "MNF" -> -b
      [] type = "ABS" -> IF b < 0 THEN -b ELSE b
      [] type = "ADF" -> a + b
      [] type = "SUF" -> a - b
      [] type = "RSF" -> b - a
      [] type = "MUF" -> Halve(a * b)
      [] type = "DVF" -> Quotient(a, b)
      [] type = "RDF" -> Quotient(b, a)
      [] type = "POW" -> RaisedTo(a, b \div 2)
      [] type = "SQT" -> Root(b)
      [] OTHER -> Library(type, b)

\* Bit 1 is for a division by zero and bit 0 for an argument that has no result.
FpaTrouble(s, i) ==
    LET x == FpaValue(s, i)
    IN  CASE i.type = "DVF" /\ ~i.immediate /\ x = 0 -> {1}
          [] i.type = "RDF" /\ s.fpa[i.op1].val = 0 -> {1}
          [] i.type = "LOG" /\ ~i.immediate /\ x = 0 -> {1}
          [] i.type = "LOG" /\ ~i.immediate /\ x < 0 -> {0}
          [] i.type = "LGN" /\ ~i.immediate /\ x < 0 -> {1}
          [] OTHER -> {}

\* The status is set and MNF negates even if the condition does not hold.
ProcessFpaData(s, i) ==
    LET warned == [s EXCEPT !.fpaStatus = WordOf(BitsOf(@) \cup FpaTrouble(s, i))]
    IN  IF i.type = "MNF" /\ ~Match(s, i.cc)
        THEN Advance(SetFpa(s, i.dest, i.size, -s.fpa[i.dest].val))
        ELSE When(warned, i, SetFpa(warned, i.dest, i.size,
                    FpaResult(i.type, IF "op1" \in DOMAIN i THEN s.fpa[i.op1].val ELSE 0, FpaValue(s, i))))

\* A number of halves, rounded to a whole number; halves go away from zero.
Rounded(x, rounding) ==
    CASE rounding = "zero" -> Halve(x)
      [] rounding = "minus_infinity" -> x \div 2
      [] rounding = "plus_infinity" -> (x + 1) \div 2
      [] rounding = "nearest" -> Halve(IF x < 0 THEN x - 1 ELSE x + 1)

ProcessFpaTran(s, i) ==
    When(s, i, IF i.type = "FIX" THEN Set(s, i.dest, Rounded(FpaValue(s, i), i.rounding))
               ELSE SetFpa(s, i.dest, i.size, 2 * s.regs[i.op2]))

ProcessFpaCmp(s, i) ==
    LET a == s.fpa[i.dest].val
        b == IF i.type = "CNF" THEN -FpaValue(s, i) ELSE FpaValue(s, i)
    IN  When(s, i, SubFlags(s, a, b, a - b))

ProcessFpaCptran(s, i) ==
    Advance(IF i.type = "WFS" THEN [s EXCEPT !.fpaStatus = s.regs[i.dest]]
            ELSE Set(s, i.dest, s.fpaStatus))

\* The words of a real at address a; a double of the FPA has its high word first.
StoreReal(s, a, size, x, highFirst) ==
    IF size = 4 THEN Store(s, a, 4, x)
    ELSE Store(Store(s, IF highFirst THEN a + 4 ELSE a, 4, x), IF highFirst THEN a ELSE a + 4, 4, x \div 2 ^ W)
LoadReal(s, a, size, highFirst) ==
    IF size = 4 THEN LoadWord(s, a)
    ELSE Load(s, IF highFirst THEN a + 4 ELSE a, 4) + 2 ^ W * LoadWord(s, IF highFirst THEN a ELSE a + 4)

\* The base register is changed only if the instruction says so.
ProcessFpStran(s, i, size, Write(_, _), Read(_, _)) ==
    LET off == Offset(i, 4 * i.offset)
        a == Address(s, i, off)
        t == Based(s, i, off, FALSE)
    IN  IF ~Match(s, i.cc) THEN Advance(s)
        ELSE IF Outside(s, a, size) THEN Fail(s)
        ELSE Advance(IF i.type \in {"STF", "FSTS", "FSTD"} THEN Write(t, a) ELSE Read(t, a))

ProcessFpaStran(s, i) ==
    LET Write(t, a) == StoreReal(t, a, i.size, t.fpa[i.dest].val, TRUE)
        Read(t, a) == SetFpa(t, i.dest, i.size, LoadReal(t, a, i.size, TRUE))
    IN  ProcessFpStran(s, i, i.size, Write, Read)

-----------------------------------------------------------------------------
(* The VFP: 32 words, which are 16 doubles. *)

Float(s, k) == s.f[k]
Double(s, k) == Unsigned(s.f[2 * k]) + 2 ^ W * s.f[2 * k + 1]
SetFloat(s, k, x) == [s EXCEPT !.f[k] = x]
SetDouble(s, k, x) == [s EXCEPT !.f[2 * k] = Word(x), !.f[2 * k + 1] = x \div 2 ^ W]

\* Reads and writes of the precision of an instruction.
Real(s, double, k) == IF double THEN Double(s, k) ELSE Float(s, k)
SetReal(s, double, k, x) == IF double THEN SetDouble(s, k, x) ELSE SetFloat(s, k, x)

ProcessVfpStran(s, i) ==
    LET double == i.type \in {"FSTD", "FLDD"}
        size == IF double THEN 8 ELSE 4
        Write(t, a) == StoreReal(t, a, size, Real(t, double, i.dest), FALSE)
        Read(t, a) == SetReal(t, double, i.dest, LoadReal(t, a, size, FALSE))
    IN  ProcessFpStran(s, i, size, Write, Read)

ProcessVfpCopy(s, i) ==
    LET double == i.type \in {"FCPYD", "FNEGD", "FABSD"}
        x == Real(s, double, i.src)
    IN  When(s, i, SetReal(s, double, i.dest,
             CASE i.type \in {"FCPYS", "FCPYD"} -> x
               [] i.type \in {"FNEGS", "FNEGD"} -> -x
               [] i.type \in {"FABSS", "FABSD"} -> IF x < 0 THEN -x ELSE x))

\* The mode is in the status word, above the flags that the SIMD instructions set.
ModeBit == 3 * ByteBits - 2
Mode(s) == <<"nearest", "plus_infinity", "minus_infinity", "zero">>[1 + ((s.fpscr \div 2 ^ ModeBit) % 4)]

\* FTOUIZD writes the low word of a double, and FUITOD and FUITOS take their
\* operand for a real number.
ProcessVfpTran(s, i) ==
    LET Fixed(x, mode) == Word(Rounded(x, mode))
    IN  When(s, i,
        CASE i.type = "FSITOD" -> SetDouble(s, i.dest, 2 * s.f[i.src])
          [] i.type = "FSITOS" -> SetFloat(s, i.dest, 2 * s.f[i.src])
          [] i.type \in {"FTOSIS", "FTOUIS"} -> SetFloat(s, i.dest, Fixed(Float(s, i.src), Mode(s)))
          [] i.type \in {"FTOSID", "FTOUID"} -> SetFloat(s, i.dest, Fixed(Double(s, i.src), Mode(s)))
          [] i.type \in {"FTOSIZS", "FTOUIZS"} -> SetFloat(s, i.dest, Fixed(Float(s, i.src), "zero"))
          [] i.type = "FTOSIZD" -> SetFloat(s, i.dest, Fixed(Double(s, i.src), "zero"))
          [] i.type = "FTOUIZD" -> SetFloat(s, 2 * i.dest, Fixed(Double(s, i.src), "zero"))
          [] i.type = "FUITOD" -> SetDouble(s, i.dest, 2 * Halve(Float(s, i.src)))
          [] i.type = "FUITOS" -> SetFloat(s, i.dest, 2 * Halve(Float(s, i.src))))

ProcessVfpCptran(s, i) ==
    When(s, i, IF i.type = "FMRS" THEN Set(s, i.dest, s.f[i.src]) ELSE SetFloat(s, i.dest, s.regs[i.src]))

ProcessVfpTranDbl(s, i) ==
    When(s, i,
        CASE i.type = "FMRRD" -> Set(Set(s, i.dest1, s.f[2 * i.src1]), i.dest2, s.f[2 * i.src1 + 1])
          [] i.type = "FMDRR" -> SetFloat(SetFloat(s, 2 * i.dest1, s.regs[i.src1]), 2 * i.dest1 + 1, s.regs[i.src2])
          [] i.type = "FMSRR" -> SetFloat(SetFloat(s, i.dest1, s.regs[i.src1]), i.dest1 + 1, s.regs[i.src2])
          [] i.type = "FMRRS" -> Set(Set(s, i.dest1, s.f[i.src1]), i.dest2, s.f[i.src1 + 1]))

\* A division by zero sets bit 1 of the status word and a float, for doubles too.
ProcessVfpData(s, i) ==
    LET double == i.type[2] = "D"
        d == Real(s, double, i.dest)
        a == Real(s, double, i.op1)
        b == Real(s, double, i.op2)
        product == Halve(a * b)
    IN  When(s, i,
        IF i.type[1] = "FDIV" /\ b = 0
        THEN SetFloat([s EXCEPT !.fpscr = WordOf(BitsOf(@) \cup {1})], i.dest, Infinity)
        ELSE SetReal(s, double, i.dest,
             CASE i.type[1] = "FMAC" -> d + product
               [] i.type[1] = "FNMAC" -> d - product
               [] i.type[1] = "FMSC" -> product - d
               [] i.type[1] = "FNMSC" -> product + d
               [] i.type[1] = "FMUL" -> product
               [] i.type[1] = "FNMUL" -> -product
               [] i.type[1] = "FADD" -> a + b
               [] i.type[1] = "FSUB" -> a - b
               [] i.type[1] = "FDIV" -> Quotient(a, b)))

ProcessVfpCmp(s, i) ==
    LET double == i.type \in {"FCMPD", "FCMPED", "FCMPZD", "FCMPEZD"}
        a == Real(s, double, i.op1)
        b == IF i.type \in {"FCMPZS", "FCMPZD", "FCMPEZS", "FCMPEZD"} THEN 0 ELSE Real(s, double, i.op2)
        flags == CASE a = b -> {W - 2, W - 3} [] a < b -> {W - 1} [] a > b -> {W - 3}
    IN  When(s, i, [s EXCEPT !.fpscr = WordOf((BitsOf(@) \ (W - 4 .. W - 1)) \cup flags)])

ProcessVfpSqrt(s, i) ==
    LET double == i.type = "FSQRTD"
    IN  When(s, i, SetReal(s, double, i.dest, Root(Real(s, double, i.op1))))

ProcessVfpSysreg(s, i) ==
    IF ~Match(s, i.cc) THEN Advance(s)
    ELSE IF i.sysreg # "FPSCR" \/ (i.type = "FMXR" /\ i.armReg = 15) THEN Fail(s)
    ELSE Advance(
         CASE i.type = "FMXR" -> [s EXCEPT !.fpscr = s.regs[i.armReg]]
           [] i.type = "FMRX" /\ i.armReg # 15 -> Set(s, i.armReg, s.fpscr)
           [] i.type = "FMRX" /\ i.armReg = 15 ->
                [s EXCEPT !.n = Bit(s.fpscr, W - 1), !.z = Bit(s.fpscr, W - 2),
                          !.c = Bit(s.fpscr, W - 3), !.v = Bit(s.fpscr, W - 4)])

ProcessVfpCvt(s, i) ==
    When(s, i, IF i.type = "FCVTDS" THEN SetDouble(s, i.dest, Float(s, i.op1))
               ELSE SetFloat(s, i.dest, Double(s, i.op1)))

-----------------------------------------------------------------------------
(* SIMD: four bytes or two halves of a word at a time. *)

LaneOf(x, k, bits, signed) ==
    LET u == (x \div 2 ^ (k * bits)) % 2 ^ bits
    IN  IF signed /\ Bit(u, bits - 1) THEN u - 2 ^ bits ELSE u

Bytewise(type) == type[2] \in {"ADD8", "SUB8"}
Exchanged(type) == type[2] \in {"ADDSUBX", "SUBADDX"}
LaneBits(type) == IF Bytewise(type) THEN ByteBits ELSE H
LastLane(type) == IF Bytewise(type) THEN 3 ELSE 1
SignedType(type) == type[1] \in {"Q", "S", "SH"}

\* QADDSUBX and QSUBADDX do not exchange the halves.
Lanes(type, x, y) ==
    [k \in 0 .. LastLane(type) |->
        LET a == LaneOf(x, k, LaneBits(type), SignedType(type))
            other == IF Exchanged(type) /\ type[1] # "Q" THEN 1 - k ELSE k
            b == LaneOf(y, other, LaneBits(type), SignedType(type))
            adds == CASE type[2] \in {"ADD16", "ADD8"} -> TRUE
                      [] type[2] \in {"SUB16", "SUB8"} -> FALSE
                      [] type[2] = "ADDSUBX" -> k = 1
                      [] type[2] = "SUBADDX" -> k = 0
            res == IF adds THEN a + b ELSE a - b
        IN  IF SignedType(type) THEN res ELSE Unsigned(res)]

Clamped(type, x) ==
    LET bits == LaneBits(type)
    IN  IF type[1] = "Q" THEN Most(-2 ^ (bits - 1), Least(2 ^ (bits - 1) - 1, x))
        ELSE Least(2 ^ bits - 1, x)

Finished(type, x) ==
    CASE type[1] \in {"Q", "UQ"} -> Clamped(type, x)
      [] type[1] \in {"SH", "UH"} -> Halve(x)
      [] type[1] \in {"S", "U"} -> x

\* The bits of a lane that are kept.  The others are or-ed over the lanes above.
Kept(type, k) ==
    CASE type = <<"Q", "ADD8">> -> W
      [] type[1] \in {"S", "U"} /\ Bytewise(type) /\ k = 0 -> W
      [] type = <<"UH", "ADDSUBX">> -> H + 4
      [] OTHER -> LaneBits(type)

Packed(type, lanes) ==
    WordOf(UNION {{b + k * LaneBits(type) : b \in {b \in BitsOf(lanes[k]) : b < Kept(type, k)}} \cap 0 .. W - 1
                  : k \in DOMAIN lanes})

\* The tests of the instructions for the flags of a lane, which are not all alike.
LaneFlag(type, x) ==
    IF type[1] = "S" /\ ~Exchanged(type) THEN x >= 0
    ELSE IF type[1] = "U" /\ Bytewise(type) THEN x >= 2 ^ ByteBits - 1
    ELSE type[1] \in {"S", "U"} /\ x > 2 ^ H - 1

LaneFlags(type, lanes) ==
    {2 * ByteBits + g : g \in {g \in 0 .. 3 :
        LaneFlag(type, lanes[IF Bytewise(type) THEN g ELSE g \div 2])}}

\* The condition is not looked at.
ProcessSimd(s, i) ==
    LET lanes == Lanes(i.type, s.regs[i.op1], s.regs[i.op2])
        packed == Packed(i.type, [k \in DOMAIN lanes |-> Finished(i.type, lanes[k])])
    IN  Advance([Set(s, i.dest, packed) EXCEPT !.fpscr = WordOf(BitsOf(@) \cup LaneFlags(i.type, lanes))])

\* The shift to the right of a rotation brings copies of the sign.
Rotated(x, rotate) ==
    IF rotate = 0 THEN x
    ELSE WordOf(BitsOf(Left(x, W - ByteBits * rotate)) \cup BitsOf(Right(x, ByteBits * rotate)))

ProcessSignx(s, i) ==
    LET x == Rotated(s.regs[i.op1], i.rotate)
    IN  Advance(Set(s, i.dest,
        CASE i.type = "SXTB" -> LaneOf(x, 0, ByteBits, TRUE)
          [] i.type = "SXTH" -> LaneOf(x, 0, H, TRUE)
          [] i.type = "SXTB16" ->
                Left(LaneOf(x, 2, ByteBits, TRUE), H) + (LaneOf(x, 0, ByteBits, TRUE) % 2 ^ H)))

-----------------------------------------------------------------------------
\* The machine at the start: what the task puts into the registers, the rest zero.
Start(t) ==
    LET Given(f, D) == [k \in D |-> IF k \in DOMAIN f THEN f[k] ELSE 0]
    IN  [regs |-> Given(t.regs @@ (13 :> 16 @@ 15 :> 8), 0 .. 15), length |-> Len(t.code),
         n |-> FALSE, z |-> FALSE, c |-> t.carry, v |-> FALSE,
         mem |-> [a \in 0 .. 31 |-> a], failed |-> FALSE,
         fpa |-> [k \in 0 .. 7 |-> [size |-> t.size, val |-> IF k \in DOMAIN t.reals THEN t.reals[k] ELSE 0]],
         fpaStatus |-> 0, f |-> Given(t.floats, 0 .. 31), fpscr |-> t.mode * 2 ^ ModeBit]

\* What a condition means: cc, after a sum or difference whose exact value is d.
Holds(cc, d, carry) ==
    LET yes == CASE cc \div 2 = 0 -> Word(d) = 0
                 [] cc \div 2 = 1 -> carry
                 [] cc \div 2 = 2 -> Word(d) < 0
                 [] cc \div 2 = 3 -> Word(d) # d
                 [] cc \div 2 = 4 -> carry /\ Word(d) # 0
                 [] cc \div 2 = 5 -> d >= 0
                 [] cc \div 2 = 6 -> d > 0
                 [] cc \div 2 = 7 -> TRUE
    IN  yes = (cc % 2 = 0)

=============================================================================
