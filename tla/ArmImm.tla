------------------------------- MODULE ArmImm -------------------------------
(***************************************************************************)
(* Instructions with a constant operand (arch/arm32/arm_core.c).  A word of *)
(* ARM code has room for a byte, rotated by an even number of places.  For  *)
(* other constants the back ends use the negated or the inverted constant   *)
(* and the opposite instruction, two instructions, or a load of the         *)
(* constant from the pool of the procedure.                                 *)
(*                                                                         *)
(* The instructions that are added run on ArmMachine, whose bytes and words *)
(* may be smaller than those of the source.  The load of a constant is an   *)
(* instruction of its own here, "ldrc"; ArmPool places the constants.       *)
(***************************************************************************)
EXTENDS ArmMachine

CONSTANTS
    Requests,       \* the operations asked for
    Operands        \* what their register operand may hold

VARIABLES
    request,            \* the operation, its constant and its registers
    made                \* the instructions that were added

vars == <<request, made>>

\* The new virtual register of a sequence; none needs two.
Temp == 8

-----------------------------------------------------------------------------
(* Encoded constants *)

Ones == 2 ^ ByteBits - 1
Indices == 0 .. W \div 2 - 1

\* The bits of u, a word without a sign, that lie in a byte rotated to the right by
\* twice the index, moved to the byte.
Unrotated(u, index) ==
    IF index = 0 THEN u % 2 ^ ByteBits
    ELSE IF 2 * index < ByteBits
    THEN u \div 2 ^ (W - 2 * index) + (u % 2 ^ (ByteBits - 2 * index)) * 2 ^ (2 * index)
    ELSE (u \div 2 ^ (W - 2 * index)) % 2 ^ ByteBits

\* The bits of u that do not.
Remainder(u, index) == u - Unsigned(DecodeImm(Unrotated(u, index) + index * 2 ^ ByteBits))

Encoding(u, index) == Unrotated(u, index) + index * 2 ^ ByteBits
Encodings(u) == {k \in Indices : Remainder(u, k) = 0}
CanEncode(n) == Encodings(Unsigned(n)) # {}
Lowest(S) == CHOOSE k \in S : \A j \in S : k <= j
EncodeImm(n) == Encoding(Unsigned(n), Lowest(Encodings(Unsigned(n))))

\* A constant as the sum of two that can be encoded.
Splits(n) == {k \in Indices : CanEncode(Remainder(Unsigned(n), k))}
CanEncodeTwo(n) == Splits(n) # {}
EncodeTwo(n) ==
    LET k == Lowest(Splits(n))
    IN  <<Encoding(Unsigned(n), k), EncodeImm(Remainder(Unsigned(n), k))>>

\* The size of a stack frame may be larger than asked for.
HighestBit(u) == CHOOSE b \in 0 .. W - 1 : u \div 2 ^ b = 1
EncodeNearest(n) ==
    IF CanEncode(n) THEN EncodeImm(n)
    ELSE LET shift == HighestBit(Unsigned(n)) - (ByteBits - 1)
             even == shift + (shift % 2)
             kept == (((Unsigned(n) \div 2 ^ even) % 2 ^ ByteBits) + 1) * 2 ^ even
         IN  EncodeImm(Word(kept))

\* Frames that are nearly the whole address space fail an assertion.
NearestFails(n) == ~CanEncode(n) /\ Unsigned(n) >= Ones * 2 ^ (W - ByteBits)

-----------------------------------------------------------------------------
(* Instructions *)

Encoded(e) == [kind |-> "int", int |-> e]
InReg(r) == [kind |-> "reg", reg |-> r]
DataInstr(t, q, status, dest, op1, op2) ==
    [class |-> "data", type |-> t, cc |-> q.cc, status |-> status, dest |-> dest, op1 |-> op1, op2 |-> op2]
LoadConstant(q, dest, n) == [class |-> "ldrc", cc |-> q.cc, dest |-> dest, int |-> n]

\* A load of the constant and the instruction for registers.
ByLoad(q, t, n) == <<LoadConstant(q, Temp, n), DataInstr(t, q, q.status, q.dest, q.op1, InReg(Temp))>>

\* Flags of a conditional instruction cannot come from the second of two.
OnlyOne(q) == q.status /\ q.cc # 14

Opposite == [ADD |-> "SUB", SUB |-> "ADD", MOV |-> "MVN", MVN |-> "MOV"]

OneOrTwo(q, t, parts) ==
    IF Len(parts) = 1 THEN <<DataInstr(t, q, q.status, q.dest, q.op1, Encoded(parts[1]))>>
    ELSE <<DataInstr(t, q, q.status, Temp, q.op1, Encoded(parts[1])),
           DataInstr(t, q, q.status, q.dest, Temp, Encoded(parts[2]))>>

\* Mutant: the negated constant is used with the same instruction.
AddSubImmSame(q) ==
    LET n == q.int
    IN  CASE CanEncode(n) -> OneOrTwo(q, q.type, <<EncodeImm(n)>>)
          [] ~CanEncode(n) /\ n < 0 /\ CanEncode(-n) -> OneOrTwo(q, q.type, <<EncodeImm(-n)>>)
          [] OTHER -> ByLoad(q, q.type, n)

AddSubImm(q) ==
    LET n == q.int
    IN  CASE CanEncode(n) -> OneOrTwo(q, q.type, <<EncodeImm(n)>>)
          [] ~CanEncode(n) /\ n < 0 /\ CanEncode(-n) -> OneOrTwo(q, Opposite[q.type], <<EncodeImm(-n)>>)
          [] ~CanEncode(n) /\ ~(n < 0 /\ CanEncode(-n)) ->
                IF OnlyOne(q) THEN ByLoad(q, q.type, n)
                ELSE IF CanEncodeTwo(n) THEN OneOrTwo(q, q.type, EncodeTwo(n))
                ELSE IF n < 0 /\ CanEncodeTwo(-n) THEN OneOrTwo(q, Opposite[q.type], EncodeTwo(-n))
                ELSE ByLoad(q, q.type, n)

\* n - x is -x - (-n).
RsubImm(q) ==
    LET n == q.int
    IN  IF CanEncode(n) THEN <<DataInstr("RSB", q, q.status, q.dest, q.op1, Encoded(EncodeImm(n)))>>
        ELSE IF n < 0 /\ CanEncode(-n) /\ ~OnlyOne(q)
        THEN <<DataInstr("RSB", q, FALSE, Temp, q.op1, Encoded(0)),
               DataInstr("SUB", q, q.status, q.dest, Temp, Encoded(EncodeImm(-n)))>>
        ELSE ByLoad(q, "RSB", n)

MovMvnTo(q, status, dest) ==
    LET n == q.int
    IN  IF CanEncode(n) THEN <<DataInstr(q.type, q, status, dest, 0, Encoded(EncodeImm(n)))>>
        ELSE IF CanEncode(-n - 1)
        THEN <<DataInstr(Opposite[q.type], q, status, dest, 0, Encoded(EncodeImm(-n - 1)))>>
        ELSE <<LoadConstant(q, dest, n)>>
MovMvnImm(q) == MovMvnTo(q, q.status, q.dest)
MovTemp(q) == MovMvnTo([q EXCEPT !.type = "MOV"], FALSE, Temp)

DataImm(q) ==
    IF CanEncode(q.int) THEN <<DataInstr(q.type, q, q.status, q.dest, q.op1, Encoded(EncodeImm(q.int)))>>
    ELSE Append(MovTemp(q), DataInstr(q.type, q, q.status, q.dest, q.op1, InReg(Temp)))

\* Every comparison becomes CMN when the negated constant is used.
CmpImm(q) ==
    LET With(t, op2) == DataInstr(t, q, TRUE, 0, q.op1, op2)
    IN  IF CanEncode(q.int) THEN <<With(q.type, Encoded(EncodeImm(q.int)))>>
        ELSE IF CanEncode(-q.int) THEN <<With("CMN", Encoded(EncodeImm(-q.int)))>>
        ELSE <<LoadConstant(q, Temp, q.int), With(q.type, InReg(Temp))>>

MulInstr(q, rm, rs) ==
    [class |-> "mul", type |-> "MUL", cc |-> q.cc, status |-> q.status, dest |-> q.dest,
     rm |-> rm, rs |-> rs, rn |-> 0]
MulFails(q) == q.dest = q.op1 /\ (q.call = "mul" => q.dest = q.op2)
MulImm(q) == Append(MovTemp(q), MulInstr(q, q.op1, Temp))

\* The destination of a product may not be its first factor.
MulReg(q) ==
    IF q.dest = q.op1 THEN <<MulInstr(q, q.op2, q.op1)>> ELSE <<MulInstr(q, q.op1, q.op2)>>

\* An offset has two bytes less four bits, and a sign of its own.
OffsetLimit == 2 ^ (2 * ByteBits - 4)
StranImm(q) ==
    LET off == IF q.int < 0 THEN -q.int ELSE q.int
        far == off > OffsetLimit - 1
        tran == [class |-> "stran", type |-> q.type, cc |-> q.cc, byte |-> FALSE, dest |-> q.dest,
                 base |-> q.op1, offset |-> IF far THEN InReg(Temp) ELSE Encoded(off),
                 preIndexed |-> TRUE, writeBack |-> FALSE, subtract |-> q.int < 0]
    IN  IF far THEN <<LoadConstant(q, Temp, off), tran>> ELSE <<tran>>

Frame(q) ==
    <<DataInstr("SUB", q, FALSE, 13, 13, Encoded(EncodeNearest(q.int))),
      DataInstr("ADD", q, FALSE, 13, 13, Encoded(EncodeNearest(q.int)))>>

-----------------------------------------------------------------------------
Make(call, Instructions(_)) ==
    /\ made = <<>>
    /\ request.call = call
    /\ made' = Instructions(request)
    /\ UNCHANGED request

AddAddSubImm == Make("addsub", AddSubImm)
AddRsubImm == Make("rsub", RsubImm)
AddDataImm == Make("data", DataImm)
AddMovMvnImm == Make("movmvn", MovMvnImm)
AddCmpImm == Make("cmp", CmpImm)
AddMulImm == ~MulFails(request) /\ Make("mul_imm", MulImm)
AddMul == ~MulFails(request) /\ Make("mul", MulReg)
AddStranImm == Make("stran", StranImm)
AddFrame == ~NearestFails(request.int) /\ Make("frame", Frame)

Init == request \in Requests /\ made = <<>>
Next ==
    \/ AddAddSubImm \/ AddRsubImm \/ AddDataImm \/ AddMovMvnImm \/ AddCmpImm
    \/ AddMulImm \/ AddMul \/ AddStranImm \/ AddFrame
Spec == Init /\ [][Next]_vars

-----------------------------------------------------------------------------
(* What the instructions do *)

RunInstr(s, i) ==
    CASE i.class = "ldrc" -> When(s, i, Set(s, i.dest, i.int))
      [] i.class = "data" -> ProcessData(s, i)
      [] i.class = "mul" -> ProcessMul(s, i)
      [] i.class = "stran" -> ProcessStran(s, i)
RECURSIVE RunAll(_, _)
RunAll(s, code) == IF code = <<>> THEN s ELSE RunAll(RunInstr(s, Head(code)), Tail(code))

\* The machine before, with x in the register operand.
Before1(x, zero) ==
    [Start([regs |-> request.op1 :> x @@ 1 :> 77 @@ 2 :> -5, carry |-> FALSE, code |-> made, reals |-> <<>>,
            size |-> 8, floats |-> <<>>, mode |-> 0]) EXCEPT !.z = zero]

LogicOf(t, a, b) ==
    {k \in 0 .. W - 1 : CASE t = "AND" -> Bit(a, k) /\ Bit(b, k) [] t = "ORR" -> Bit(a, k) \/ Bit(b, k)
                          [] t = "EOR" -> Bit(a, k) # Bit(b, k) [] t = "BIC" -> Bit(a, k) /\ ~Bit(b, k)}
Meant(q, s) ==
    LET a == s.regs[q.op1]
    IN  CASE q.call = "mul" -> Word(a * s.regs[q.op2])
          [] q.call = "mul_imm" -> Word(a * q.int)
          [] q.type = "ADD" -> Word(a + q.int)
          [] q.type = "SUB" -> Word(a - q.int)
          [] q.type = "RSB" -> Word(q.int - a)
          [] q.type = "MOV" -> q.int
          [] q.type = "MVN" -> -q.int - 1
          [] q.type \in {"AND", "ORR", "EOR", "BIC"} -> WordOf(LogicOf(q.type, a, q.int))

Computes(q, s, t) ==
    /\ t.regs[q.dest] = IF Match(s, q.cc) THEN Meant(q, s) ELSE s.regs[q.dest]
    /\ q.status /\ Match(s, q.cc) => t.z = (t.regs[q.dest] = 0) /\ t.n = (t.regs[q.dest] < 0)
    /\ ~q.status => t.z = s.z

\* The frame has room for what is asked for and is the smallest that one instruction
\* makes.
FrameFits(q) ==
    LET size == Unsigned(DecodeImm(made[1].op2.int))
    IN  /\ size >= q.int
        /\ \A k \in Indices, b \in 0 .. Ones :
              LET u == Unsigned(DecodeImm(b + k * 2 ^ ByteBits)) IN u >= q.int => u >= size

RightFrom(q, s) ==
    LET t == RunAll(s, made)
        a == s.regs[q.op1]
    IN  /\ ~t.failed
        /\ \A r \in 0 .. 14 \ {Temp, q.dest} : t.regs[r] = s.regs[r]
        /\ q.call \notin {"cmp", "stran", "frame"} => Computes(q, s, t)
        /\ q.call = "cmp" => \A cc \in 0 .. 14 :
              Match(t, cc) = Holds(cc, a - q.int, Unsigned(a) >= Unsigned(q.int))
        /\ q.call = "stran" => LoadWord(t, a + q.int) = t.regs[q.dest]
        /\ q.call = "frame" => FrameFits(q) /\ t.regs[13] = s.regs[13]

\* The instructions that are chosen compute what the operation with the constant
\* computes, whatever the constant and the registers hold, and leave every other
\* register alone: the result and the flags that are asked for, every condition
\* after a comparison, the word at the address, a stack frame that is large enough.
ImmediatesRight ==
    made # <<>> =>
        \A x \in IF request.call = "stran" THEN {12 - request.int} ELSE Operands, zero \in BOOLEAN :
            RightFrom(request, Before1(x, zero))

=============================================================================
