------------------------------- MODULE ArmVm --------------------------------
(***************************************************************************)
(* Programs that run on ArmMachine: the loop of the interpreter             *)
(* (arch/arm32/arm_vm.c), and what the instructions of a program have to     *)
(* mean together.                                                           *)
(***************************************************************************)
EXTENDS ArmMachine

CONSTANT Tasks          \* families of programs, with the machine they start on and their goal

VARIABLES
    task,           \* the program that runs
    m               \* the machine

vars == <<task, m>>

-----------------------------------------------------------------------------
(* The run of a program *)

Running == InCode(m) /\ ~m.failed
Instr == task.code[Pc(m) + 1]

\* One turn of the loop: an instruction of the class, by its handler.
Run(class, Process(_, _)) ==
    /\ Running
    /\ Instr.class = class
    /\ m' = Process(m, Instr)
    /\ UNCHANGED task

Data == Run("data", ProcessData)
Mul == Run("mul", ProcessMul)
Branch == Run("br", ProcessBranch)
Stran == Run("stran", ProcessStran)
StranMisc == Run("stran_misc", ProcessStranMisc)
Mtran == Run("mtran", ProcessMtran)
Flags == Run("flags", ProcessFlags)
FpaData == Run("fpa_data", ProcessFpaData)
FpaTran == Run("fpa_tran", ProcessFpaTran)
FpaCmp == Run("fpa_cmp", ProcessFpaCmp)
FpaCptran == Run("fpa_cptran", ProcessFpaCptran)
FpaStran == Run("fpa_stran", ProcessFpaStran)
VfpStran == Run("vfp_stran", ProcessVfpStran)
VfpCopy == Run("vfp_copy", ProcessVfpCopy)
VfpTran == Run("vfp_tran", ProcessVfpTran)
VfpCptran == Run("vfp_cptran", ProcessVfpCptran)
VfpTranDbl == Run("vfp_tran_dbl", ProcessVfpTranDbl)
VfpData == Run("vfp_data", ProcessVfpData)
VfpCmp == Run("vfp_cmp", ProcessVfpCmp)
VfpSqrt == Run("vfp_sqrt", ProcessVfpSqrt)
VfpSysreg == Run("vfp_sysreg", ProcessVfpSysreg)
VfpCvt == Run("vfp_cvt", ProcessVfpCvt)
Simd == Run("simd", ProcessSimd)
Signx == Run("signx", ProcessSignx)

Init ==
    /\ \E family \in DOMAIN Tasks : task \in Tasks[family]
    /\ m = Start(task)

Next ==
    \/ Data \/ Mul \/ Branch \/ Stran \/ StranMisc \/ Mtran \/ Flags
    \/ FpaData \/ FpaTran \/ FpaCmp \/ FpaCptran \/ FpaStran
    \/ VfpStran \/ VfpCopy \/ VfpTran \/ VfpCptran \/ VfpTranDbl \/ VfpData
    \/ VfpCmp \/ VfpSqrt \/ VfpSysreg \/ VfpCvt
    \/ Simd \/ Signx

Spec == Init /\ [][Next]_vars

-----------------------------------------------------------------------------
(***************************************************************************)
(* What a program is for.  A goal names what registers hold at the end, in  *)
(* terms of what they held at the start; the rest of the memory and of the  *)
(* registers is as it was.                                                  *)
(***************************************************************************)
Goal == task.goal
Old == Start(task)
r(k) == Old.regs[k]

\* Register 2 is 1 if the condition holds for registers 0 and 1, and 0 if not.
Compares ==
    LET a == r(0)
        b == r(1)
        holds == CASE Goal.type \in {"CMP", "SUB"} -> Holds(Goal.cc, a - b, Unsigned(a) >= Unsigned(b))
                   [] Goal.type = "RSB" -> Holds(Goal.cc, b - a, Unsigned(b) >= Unsigned(a))
                   [] Goal.type \in {"CMN", "ADD"} ->
                        Holds(Goal.cc, a + b, Unsigned(a) + Unsigned(b) >= 2 ^ W)
    IN  m.regs[2] = IF holds THEN 1 ELSE 0

\* Registers 0 and 1 are the sum of two numbers of two words.
AddsLong ==
    LET low == Unsigned(r(0)) + Unsigned(r(2))
    IN  /\ Unsigned(m.regs[0]) = low % 2 ^ W
        /\ m.regs[1] = Word(r(1) + r(3) + low \div 2 ^ W)

BitOfLogic(type, a, b) ==
    CASE type \in {"AND", "TST"} -> a /\ b
      [] type \in {"EOR", "TEQ"} -> a # b
      [] type = "ORR" -> a \/ b
      [] type = "BIC" -> a /\ ~b
      [] type = "MOV" -> b
      [] type = "MVN" -> ~b

\* Register 1, shifted, and the last bit that is lost.
BitOfShift(shift, by, b) ==
    CASE shift \in {"LSL", "ASL"} -> b >= by /\ Bit(r(1), b - by)
      [] shift = "LSR" -> b + by < W /\ Bit(r(1), b + by)
      [] shift = "ASR" -> Bit(r(1), Least(b + by, W - 1))
      [] shift = "ROR" -> Bit(r(1), (b + by) % W)
      [] shift = "RRX" -> IF b = W - 1 THEN Old.c ELSE Bit(r(1), b + 1)
LostBit(shift, by) ==
    IF shift = "RRX" THEN Bit(r(1), 0)
    ELSE IF by = 0 THEN Old.c
    ELSE Bit(r(1), IF shift \in {"LSL", "ASL"} THEN W - by ELSE by - 1)

\* Register 2 is the result for registers 0 and 1, bit by bit, and the flags are
\* those of the result and the shift.
Combines ==
    LET BitAt(b) == BitOfLogic(Goal.type, Bit(r(0), b), BitOfShift(Goal.shift, Goal.by, b))
        result == {b \in 0 .. W - 1 : BitAt(b)}
    IN  /\ Goal.type \notin {"TST", "TEQ"} => BitsOf(m.regs[2]) = result
        /\ Goal.status /\ Goal.type # "MVN" => m.z = (result = {}) /\ m.n = (W - 1 \in result)
        /\ Goal.status => m.c = LostBit(Goal.shift, Goal.by) /\ m.v = Old.v

Multiplies == m.regs[2] = Word(r(0) * r(1) + Goal.addend)

\* Register 2 is what register 0 was when it was stored, and the base register is
\* where it should be.
Reloads ==
    /\ m.regs[2] = CASE Goal.width = "word" -> r(0)
                     [] Goal.width = "byte" -> LaneOf(r(0), 0, ByteBits, FALSE)
                     [] Goal.width = "SB" -> LaneOf(r(0), 0, ByteBits, TRUE)
                     [] Goal.width = "H" -> LaneOf(r(0), 0, H, FALSE)
                     [] Goal.width = "SH" -> LaneOf(r(0), 0, H, TRUE)
                     [] Goal.width = "D" -> r(0)
    /\ Goal.width = "D" => m.regs[3] = r(1)
    /\ m.regs[5] = Goal.base
    /\ \A a \in DOMAIN m.mem \ (Goal.at .. Goal.at + Goal.size - 1) : m.mem[a] = Old.mem[a]

\* The registers are what they were before they were stored and cleared, and in
\* memory the lowest register has the lowest address.
Restores ==
    /\ \A k \in 0 .. 14 : m.regs[k] = r(k)
    /\ \A k \in Goal.regs : LoadWord(m, Goal.at + 4 * Cardinality({q \in Goal.regs : q < k})) = r(k)
    /\ \A a \in DOMAIN m.mem \ (Goal.at .. Goal.at + 4 * Cardinality(Goal.regs) - 1) : m.mem[a] = Old.mem[a]

\* The procedure has run once and has returned.
Returns == m.regs[2] = 1 /\ m.regs[3] = 1 /\ m.regs[14] = Goal.back

\* Register 2 is 1 if the condition holds for two reals, and 0 if not.
OrdersReals ==
    LET d == Goal.a - Goal.b
        holds == CASE Goal.cc = 0 -> d = 0 [] Goal.cc = 1 -> d # 0 [] Goal.cc = 10 -> d >= 0
                   [] Goal.cc = 11 -> d < 0 [] Goal.cc = 12 -> d > 0 [] Goal.cc = 13 -> d <= 0
    IN  m.regs[2] = IF holds THEN 1 ELSE 0

\* The whole number next to x/2 on the side of the rounding.
IsRounded(n, x, rounding) ==
    CASE rounding = "minus_infinity" \/ (rounding = "zero" /\ x >= 0) -> 2 * n <= x /\ x < 2 * n + 2
      [] rounding = "plus_infinity" \/ (rounding = "zero" /\ x < 0) -> 2 * n - 2 < x /\ x <= 2 * n
      [] rounding = "nearest" -> 2 * n \in IF x % 2 = 0 THEN {x} ELSE IF x > 0 THEN {x + 1} ELSE {x - 1}
RoundsReal == IsRounded(m.regs[2], Goal.a, Goal.rounding)

\* The result x of an operation on the reals a and b, and d, which was there before.
IsResult(type, x, a, b, d) ==
    CASE type \in {"MVF", "FCPY", "FCVT"} -> x = b
      [] type \in {"MNF", "FNEG"} -> x + b = 0
      [] type \in {"ABS", "FABS"} -> x >= 0 /\ x \in {b, -b}
      [] type \in {"ADF", "FADD"} -> x - b = a
      [] type \in {"SUF", "FSUB"} -> x + b = a
      [] type = "RSF" -> x + a = b
      [] type \in {"MUF", "FMUL"} -> 2 * x = a * b
      [] type = "FNMUL" -> -2 * x = a * b
      [] type \in {"DVF", "FDIV"} -> b # 0 => x * b = 2 * a
      [] type = "RDF" -> a # 0 => x * a = 2 * b
      [] type = "POW" -> b = 4 => 2 * x = a * a
      [] type \in {"SQT", "FSQRT"} -> x >= 0 /\ x * x = 2 * b
      [] type = "FMAC" -> 2 * (x - d) = a * b
      [] type = "FNMAC" -> 2 * (d - x) = a * b
      [] type = "FMSC" -> 2 * (x + d) = a * b
      [] type \in {"SIN", "TAN", "ASN", "ATN"} -> b = 0 => x = 0
      [] type \in {"COS", "EXP"} -> b = 0 => x = 2
      [] type \in {"ACS", "LOG", "LGN"} -> b = 2 => x = 0

\* Register 2 tells whether there was a division by zero.
Calculates ==
    LET x == CASE Goal.unit = "fpa" -> m.fpa[3].val
               [] Goal.unit = "float" -> Float(m, 6)
               [] Goal.unit = "double" -> Double(m, 3)
    IN  /\ Goal.unit = "fpa" => m.fpa[3].size = Goal.size
        /\ IsResult(Goal.type, x, Goal.a, Goal.b, Goal.d)
        /\ Goal.type \in {"DVF", "FDIV"} => Bit(m.regs[2], 1) = (Goal.b = 0)

\* A real that is stored and loaded, or moved through the registers of the
\* processor, comes back, and an integer that is converted to a real and back.
Transfers ==
    CASE Goal.unit = "fpa" -> m.fpa[3].val = Goal.a /\ m.regs[5] = Goal.base
      [] Goal.unit = "float" -> Float(m, 6) = Goal.a /\ m.regs[5] = Goal.base
      [] Goal.unit = "double" -> Double(m, 3) = Goal.a /\ m.regs[5] = Goal.base
      [] Goal.unit = "integer" -> m.regs[2] = Goal.a
      [] Goal.unit = "status" ->
            BitsOf(m.regs[2]) = {b \in BitsOf(Goal.a) : Bit(Goal.fields, b \div ByteBits)}

\* Every lane of register 2 is the sum or difference of the lanes of registers 0
\* and 1, halved, clamped to the range of the lane or cut off, as the type says.
ActsOnLanes ==
    LET type == Goal.type
        bits == LaneBits(type)
        signed == SignedType(type)
        low == IF signed THEN -2 ^ (bits - 1) ELSE 0
        high == low + 2 ^ bits - 1
    IN  \A k \in 0 .. LastLane(type) :
            LET a == LaneOf(r(0), k, bits, signed)
                b == LaneOf(r(1), IF Exchanged(type) THEN 1 - k ELSE k, bits, signed)
                minus == type[2] \in {"SUB16", "SUB8"} \/ <<type[2], k>> \in {<<"ADDSUBX", 0>>, <<"SUBADDX", 1>>}
                d == IF minus THEN a - b ELSE a + b
                res == LaneOf(m.regs[2], k, bits, signed)
            IN  CASE type[1] \in {"S", "U"} -> (res - d) % (2 ^ bits) = 0
                  [] type[1] \in {"SH", "UH"} -> res = d \div 2
                  [] type[1] \in {"Q", "UQ"} ->
                        res = IF d < low THEN low ELSE IF d > high THEN high ELSE d

\* Register 2 has the bytes or the half of register 1, rotated, with their signs.
Extends ==
    LET Byte(k) == LaneOf(r(1), (Goal.rotate + k) % 4, ByteBits, TRUE)
    IN  CASE Goal.type = "SXTB" -> m.regs[2] = Byte(0)
          [] Goal.type = "SXTH" ->
                m.regs[2] = Byte(1) * 2 ^ ByteBits + LaneOf(r(1), Goal.rotate, ByteBits, FALSE)
          [] Goal.type = "SXTB16" ->
                LaneOf(m.regs[2], 0, H, TRUE) = Byte(0) /\ LaneOf(m.regs[2], 1, H, TRUE) = Byte(2)

Meets ==
    CASE Goal.kind = "compare" -> Compares
      [] Goal.kind = "long" -> AddsLong
      [] Goal.kind = "combine" -> Combines
      [] Goal.kind = "product" -> Multiplies
      [] Goal.kind = "reload" -> Reloads
      [] Goal.kind = "stack" -> Restores
      [] Goal.kind = "call" -> Returns
      [] Goal.kind = "order" -> OrdersReals
      [] Goal.kind = "round" -> RoundsReal
      [] Goal.kind = "calculate" -> Calculates
      [] Goal.kind = "transfer" -> Transfers
      [] Goal.kind = "lanes" -> ActsOnLanes
      [] Goal.kind = "extend" -> Extends

\* When a program comes to its end its goal is met, so that instructions that work
\* together agree about what they mean: every condition after every comparison, a
\* carry and the sum that takes it in, a store and the load of any other form, the
\* modes of a stack, a real and its words.  No instruction fails on the way.
ProgramsMeetGoals == ~m.failed /\ (~Running => Meets)

=============================================================================
