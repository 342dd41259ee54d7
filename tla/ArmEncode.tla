----------------------------- MODULE ArmEncode ------------------------------
(***************************************************************************)
(* The words of ARM instructions: the handlers of the encoder that make a  *)
(* word of an instruction (arch/arm32/arm_encode.c).  Constants, addresses *)
(* and constant pools are those of ArmPool.                                *)
(*                                                                         *)
(* A word is the set of its bits that are one, so that the "|=" of the     *)
(* source is a union and its masks are intersections.  An instruction is a *)
(* record with its type, its condition cc and the operands of its class.   *)
(* Registers are those that register allocation leaves: the handlers fail  *)
(* an assertion for larger ones.                                           *)
(***************************************************************************)
EXTENDS Integers, Sequences

Power == [i \in 0 .. 27 |-> 2 ^ i]

\* The bits of n, from bit at of the word up.
Put(n, at) == {b + at : b \in {i \in 0 .. 27 : (n \div Power[i]) % 2 = 1}}
Bits(n) == Put(n, 0)
If(c, at) == IF c THEN {at} ELSE {}

-----------------------------------------------------------------------------
(* Integer instructions *)

DataOps == <<"AND", "EOR", "SUB", "RSB", "ADD", "ADC", "SBC", "RSC",
             "TST", "TEQ", "CMP", "CMN", "ORR", "MOV", "BIC", "MVN">>
OpCode(ops, type) == CHOOSE k \in 0 .. Len(ops) - 1 : ops[k + 1] = type

\* ASL is LSL.  RRX fails an assertion.
ShiftCode(shift) == CASE shift \in {"LSL", "ASL"} -> 0 [] shift = "LSR" -> 1
                      [] shift = "ASR" -> 2 [] shift = "ROR" -> 3

\* The second operand: a register, an encoded constant, or a shifted register.
DataOp2(o) ==
    CASE o.kind = "reg" -> Put(o.reg, 0)
      [] o.kind = "int" -> Put(o.int, 0) \cup {25}
      [] o.kind = "shift" ->
            Put(o.reg, 0) \cup Put(ShiftCode(o.shift), 5)
            \cup IF o.byReg THEN {4} \cup Put(o.by % 16, 8) ELSE Put(o.by % 32, 7)

EncodeData(i) ==
    Put(OpCode(DataOps, i.type), 21) \cup If(i.status, 20)
    \cup Put(i.op1, 16) \cup Put(i.dest, 12) \cup DataOp2(i.op2)

EncodeMul(i) ==
    Bits(\H90) \cup (IF i.type = "MLA" THEN {21} \cup Put(i.rn, 12) ELSE {})
    \cup If(i.status, 20) \cup Put(i.dest, 16) \cup Put(i.rs, 8) \cup Put(i.rm, 0)

\* In a load the sense of the bit is the other way about, and a register shifts
\* by constants alone.
StranOp2(o) ==
    CASE o.kind = "reg" -> {25} \cup Put(o.reg, 0)
      [] o.kind = "int" -> Put(o.int, 0)
      [] o.kind = "shift" ->
            {25} \cup Put(o.reg, 0) \cup Put(o.by % 32, 7) \cup Put(ShiftCode(o.shift), 5)

EncodeStran(i) ==
    {26} \cup If(i.preIndexed, 24) \cup If(i.byte, 22) \cup If(i.writeBack, 21)
    \cup If(~i.subtract, 23) \cup If(i.type = "LDR", 20)
    \cup Put(i.base, 16) \cup Put(i.dest, 12) \cup StranOp2(i.offset)

\* The stack modes are names of the others, which differ for loads and stores.
StackMode(load, mode) ==
    CASE mode = "FA" -> IF load THEN "DA" ELSE "IB"
      [] mode = "FD" -> IF load THEN "IA" ELSE "DB"
      [] mode = "EA" -> IF load THEN "DB" ELSE "IA"
      [] mode = "ED" -> IF load THEN "IB" ELSE "DA"
      [] OTHER -> mode

EncodeMtran(i) ==
    LET mode == StackMode(i.type = "LDM", i.mode)
    IN  {27} \cup If(mode \in {"IA", "IB"}, 23) \cup If(mode \in {"IB", "DB"}, 24)
        \cup If(i.writeBack, 21) \cup If(i.status, 22) \cup If(i.type = "LDM", 20)
        \cup Put(i.op0, 16) \cup i.regs

\* The offset of a branch is put in when its label is known.
EncodeBranch(i) ==
    IF i.indirect THEN Put(13, 21) \cup Put(15, 12) \cup Put(i.reg % 16, 0)
    ELSE Put(5, 25) \cup If(i.link, 24)

EncodeSwi(i) == Put(15, 24) \cup Bits(i.code)

EncodeFlags(i) ==
    LET word == IF i.type = "MRS" THEN {24} \cup Put(i.reg % 16, 12)
                ELSE Bits(\H1200000) \cup Put(i.fields, 16)
                     \cup IF i.byReg THEN Put(i.reg % 16, 0) ELSE {25} \cup Put(i.int, 0)
    IN  word \cup If(i.flagReg = "SPSR", 22)

MiscBits(type, width) ==
    CASE width = "SB" -> {6} \cup If(type = "MISC_LDR", 20)
      [] width = "SH" -> {6, 5} \cup If(type = "MISC_LDR", 20)
      [] width = "H" -> {5} \cup If(type = "MISC_LDR", 20)
      [] width = "D" -> {6} \cup If(type = "MISC_STR", 5)

\* The upper half of an offset is shifted over the destination.
EncodeStranMisc(i) ==
    Bits(\H90) \cup If(i.preIndexed, 24) \cup If(i.writeBack, 21) \cup If(~i.subtract, 23)
    \cup Put(i.base, 16) \cup Put(i.dest, 12) \cup MiscBits(i.type, i.width)
    \cup IF i.byReg THEN Put(i.offset, 0)
         ELSE {22} \cup Put(i.offset % 16, 0) \cup Put(i.offset \div 16, 12)

-----------------------------------------------------------------------------
(* Parallel additions and sign extension *)

SimdSets == [Q |-> 2, S |-> 1, SH |-> 3, U |-> 5, UH |-> 7, UQ |-> 6]
SimdOps == [ADD16 |-> 1, ADD8 |-> 9, ADDSUBX |-> 3, SUB16 |-> 7, SUB8 |-> 15, SUBADDX |-> 5]

EncodeSimd(i) ==
    Put(6, 24) \cup Put(SimdSets[i.type[1]], 20) \cup Put(SimdOps[i.type[2]], 4)
    \cup Put(i.dest, 12) \cup Put(i.op1, 16) \cup Put(i.op2, 0)

SignxCodes == [SXTB |-> 10, SXTB16 |-> 8, SXTH |-> 11]

EncodeSignx(i) ==
    Bits(\H68f0070) \cup Put(SignxCodes[i.type], 20)
    \cup Put(i.rotate, 10) \cup Put(i.dest, 12) \cup Put(i.op1, 0)

-----------------------------------------------------------------------------
(* The FPA *)

Dyadic == <<"ADF", "MUF", "SUF", "RSF", "DVF", "RDF", "POW", "RPW",
            "RMF", "FML", "FDV", "FRD", "POL">>
Monadic == <<"MVF", "MNF", "ABS", "RND", "SQT", "LOG", "LGN", "EXP",
             "SIN", "COS", "TAN", "ASN", "ACS", "ATN", "URD", "NRM">>
IsIn(x, seq) == \E k \in DOMAIN seq : seq[k] = x

Rounding == <<"nearest", "plus_infinity", "minus_infinity", "zero">>
Precision(size, double, extended) == If(size = 8, double) \cup If(size = 12, extended)
FpaOp2(i) == If(i.immediate, 3) \cup Put(i.op2, 0)

EncodeFpaData(i) ==
    LET dyadic == IsIn(i.type, Dyadic)
    IN  Put(14, 24) \cup Put(OpCode(IF dyadic THEN Dyadic ELSE Monadic, i.type), 20)
        \cup Precision(i.size, 7, 19)
        \cup (IF dyadic THEN Put(i.op1, 16) ELSE {15})
        \cup Put(i.dest, 12) \cup {8} \cup Put(OpCode(Rounding, i.rounding), 5) \cup FpaOp2(i)

EncodeFpaStran(i) ==
    Put(12, 24) \cup If(i.preIndexed, 24) \cup If(~i.subtract, 23) \cup Precision(i.size, 15, 22)
    \cup If(i.writeBack, 21) \cup If(i.type = "LDF", 20)
    \cup Put(i.base, 16) \cup Put(i.dest, 12) \cup {8} \cup Put(i.offset, 0)

EncodeFpaTran(i) ==
    Put(14, 24) \cup {8, 4} \cup Put(OpCode(Rounding, i.rounding), 5)
    \cup IF i.type = "FLT" THEN Precision(i.size, 7, 19) \cup Put(i.dest, 16) \cup Put(i.op2, 12)
         ELSE FpaOp2(i) \cup Put(i.dest, 12) \cup {20}

FpaCompares == <<"CMF", "CNF", "CMFE", "CNFE">>
EncodeFpaCmp(i) ==
    Put(14, 24) \cup Put(4 + OpCode(FpaCompares, i.type), 21) \cup {20, 8, 4}
    \cup Put(i.dest, 16) \cup Put(15, 12) \cup FpaOp2(i)

EncodeFpaCptran(i) ==
    Put(14, 24) \cup Put(IF i.type = "WFS" THEN 2 ELSE 3, 20) \cup Put(i.dest, 12) \cup {8, 4}

-----------------------------------------------------------------------------
(* The VFP: the low bit of a single register is apart from the others *)

Single(r, at, low) == Put(r \div 2, at) \cup If(r % 2 = 1, low)
Source(r, single) == IF single THEN Single(r, 0, 5) ELSE Put(r, 0)
Destination(r, single) == IF single THEN Single(r, 12, 22) ELSE Put(r, 12)
First(r, single) == IF single THEN Single(r, 16, 7) ELSE Put(r, 16)

EncodeVfpStran(i) ==
    LET single == i.type \in {"FSTS", "FLDS"}
    IN  Put(12, 24) \cup If(i.preIndexed, 24) \cup If(~i.subtract, 23)
        \cup Destination(i.dest, single) \cup Put(IF single THEN 10 ELSE 11, 8)
        \cup If(i.writeBack, 21) \cup If(i.type \in {"FLDS", "FLDD"}, 20)
        \cup Put(i.base, 16) \cup Put(i.offset, 0)

CopyWords == [FCPYS |-> Bits(\Heb00a40), FCPYD |-> Bits(\Heb00b40),
              FNEGS |-> Bits(\Heb10a40), FNEGD |-> Bits(\Heb10b40),
              FABSS |-> Bits(\Heb00ac0), FABSD |-> Bits(\Heb00bc0)]
EncodeVfpCopy(i) ==
    LET single == i.type \in {"FCPYS", "FNEGS", "FABSS"}
    IN  CopyWords[i.type] \cup Source(i.src, single) \cup Destination(i.dest, single)

\* FUITOD has the word of FTOUIZD.
TranWords == [FTOSIS |-> Bits(\Hebd0a40), FTOUIS |-> Bits(\Hebc0a40),
              FTOUIZS |-> Bits(\Hebc0ac0), FTOSIZS |-> Bits(\Hebd0ac0),
              FSITOS |-> Bits(\Heb80ac0), FUITOS |-> Bits(\Heb80a40),
              FSITOD |-> Bits(\Heb80bc0), FTOSID |-> Bits(\Hebd0b40),
              FTOUID |-> Bits(\Hebc0b40), FTOSIZD |-> Bits(\Hebd0bc0),
              FTOUIZD |-> Bits(\Hebc0bc0), FUITOD |-> Bits(\Hebc0bc0)]
ToDouble == {"FSITOD", "FUITOD"}
FromDouble == {"FTOSID", "FTOUID", "FTOSIZD", "FTOUIZD"}

\* An integer in the VFP is in a single register, which useDregs numbers as a double.
SingleOf(i, r) == IF i.useDregs THEN 2 * r ELSE r

EncodeVfpTran(i) ==
    TranWords[i.type]
    \cup Source(IF i.type \in ToDouble THEN SingleOf(i, i.src) ELSE i.src, i.type \notin FromDouble)
    \cup Destination(IF i.type \in FromDouble THEN SingleOf(i, i.dest) ELSE i.dest,
                     i.type \notin ToDouble)

\* Two registers of the ARM and a double or two singles.  FMSRR and FMRRS fail an
\* assertion if the singles do not follow each other.
EncodeVfpTranDbl(i) ==
    CASE i.type = "FMDRR" -> Bits(\Hc400b10) \cup Put(i.dest1, 0) \cup Put(i.src1, 12) \cup Put(i.src2, 16)
      [] i.type = "FMRRD" -> Bits(\Hc500b10) \cup Put(i.src1, 0) \cup Put(i.dest1, 12) \cup Put(i.dest2, 16)
      [] i.type = "FMSRR" -> Bits(\Hc400a10) \cup Source(i.dest1, TRUE) \cup Put(i.src1, 12) \cup Put(i.src2, 16)
      [] i.type = "FMRRS" -> Bits(\Hc500a10) \cup Source(i.src1, TRUE) \cup Put(i.dest1, 12) \cup Put(i.dest2, 16)

EncodeVfpCptran(i) ==
    IF i.type = "FMSR"
    THEN Bits(\He000a10) \cup Put(i.src, 12) \cup First(SingleOf(i, i.dest), TRUE)
    ELSE Bits(\He100a10) \cup Put(i.dest, 12) \cup First(SingleOf(i, i.src), TRUE)

DataWords == [FMAC |-> Bits(\He000a00), FNMAC |-> Bits(\He000a40),
              FMSC |-> Bits(\He100a00), FNMSC |-> Bits(\He100a40),
              FMUL |-> Bits(\He200a00), FNMUL |-> Bits(\He200a40),
              FADD |-> Bits(\He300a00), FSUB |-> Bits(\He300a40), FDIV |-> Bits(\He800a00)]
EncodeVfpData(i) ==
    LET single == i.type[2] = "S"
    IN  DataWords[i.type[1]] \cup If(~single, 8)
        \cup First(i.op1, single) \cup Source(i.op2, single) \cup Destination(i.dest, single)

CmpWords == [FCMPS |-> Bits(\Heb40a40), FCMPD |-> Bits(\Heb40b40), FCMPES |-> Bits(\Heb40ac0),
             FCMPED |-> Bits(\Heb40bc0), FCMPZS |-> Bits(\Heb50a40), FCMPZD |-> Bits(\Heb50b40),
             FCMPEZS |-> Bits(\Heb50ac0), FCMPEZD |-> Bits(\Heb50bc0)]

\* FCMPEZS is encoded as if it had two operands, and doubles.
EncodeVfpCmp(i) ==
    LET single == i.type \in {"FCMPS", "FCMPES", "FCMPZS"}
        two == i.type \in {"FCMPS", "FCMPD", "FCMPES", "FCMPED", "FCMPEZS"}
    IN  CmpWords[i.type] \cup Destination(i.op1, single)
        \cup IF two THEN Source(i.op2, single) ELSE {}

EncodeVfpSqrt(i) ==
    LET single == i.type = "FSQRTS"
    IN  Bits(IF single THEN \Heb10ac0 ELSE \Heb10bc0)
        \cup Source(i.op1, single) \cup Destination(i.dest, single)

Sysregs == [FPSID |-> 0, FPSCR |-> 1, FPEXC |-> 8]
EncodeVfpSysreg(i) ==
    Bits(IF i.type = "FMRX" THEN \Hef00a10 ELSE \Hee00a10)
    \cup Put(i.armReg, 12) \cup Put(Sysregs[i.sysreg], 16)

EncodeVfpCvt(i) ==
    IF i.type = "FCVTDS" THEN Bits(\Heb70ac0) \cup Put(i.dest, 12) \cup Single(i.op1, 0, 5)
    ELSE Bits(\Heb70bc0) \cup Put(i.op1, 0) \cup Single(i.dest, 12, 22)

-----------------------------------------------------------------------------
\* The walker calls the handler of the class of an instruction.
Encode(i) ==
    Put(i.cc, 28) \cup
    CASE i.class = "data" -> EncodeData(i)
      [] i.class = "mul" -> EncodeMul(i)
      [] i.class = "stran" -> EncodeStran(i)
      [] i.class = "mtran" -> EncodeMtran(i)
      [] i.class = "br" -> EncodeBranch(i)
      [] i.class = "swi" -> EncodeSwi(i)
      [] i.class = "flags" -> EncodeFlags(i)
      [] i.class = "stran_misc" -> EncodeStranMisc(i)
      [] i.class = "simd" -> EncodeSimd(i)
      [] i.class = "signx" -> EncodeSignx(i)
      [] i.class = "fpa_data" -> EncodeFpaData(i)
      [] i.class = "fpa_stran" -> EncodeFpaStran(i)
      [] i.class = "fpa_tran" -> EncodeFpaTran(i)
      [] i.class = "fpa_cmp" -> EncodeFpaCmp(i)
      [] i.class = "fpa_cptran" -> EncodeFpaCptran(i)
      [] i.class = "vfp_stran" -> EncodeVfpStran(i)
      [] i.class = "vfp_copy" -> EncodeVfpCopy(i)
      [] i.class = "vfp_tran" -> EncodeVfpTran(i)
      [] i.class = "vfp_tran_dbl" -> EncodeVfpTranDbl(i)
      [] i.class = "vfp_cptran" -> EncodeVfpCptran(i)
      [] i.class = "vfp_data" -> EncodeVfpData(i)
      [] i.class = "vfp_cmp" -> EncodeVfpCmp(i)
      [] i.class = "vfp_sqrt" -> EncodeVfpSqrt(i)
      [] i.class = "vfp_sysreg" -> EncodeVfpSysreg(i)
      [] i.class = "vfp_cvt" -> EncodeVfpCvt(i)

=============================================================================
