----------------------------- MODULE ArmDisass ------------------------------
(***************************************************************************)
(* The disassembler of ARM code, which the ARM interpreter runs programs   *)
(* with (arch/arm32/arm_disass.c), and what it owes the encoder: the       *)
(* instruction that a word was made of.                                    *)
(***************************************************************************)
EXTENDS ArmEncode, TLC

CONSTANTS Instructions      \* what is encoded, with vfp: the unit that the code is for

VARIABLES instr, word, back

vars == <<instr, word, back>>

Nothing == [class |-> "nothing"]
Bad == [class |-> "bad"]            \* an error or a failed assertion
Init == instr \in Instructions /\ word = {} /\ back = Nothing

-----------------------------------------------------------------------------
\* The len bits of w from bit at up, and the bits of w under a mask.
Field(w, at, len) ==
    LET sum[k \in 0 .. len] ==
            IF k = 0 THEN 0 ELSE sum[k - 1] + (IF at + k - 1 \in w THEN Power[k - 1] ELSE 0)
    IN  sum[len]
Has(w, bit) == bit \in w
Under(w, mask, value) == (w \cap Bits(mask)) = Bits(value)
Cc(w) == Field(w, 28, 4)

DecodeMul(w) ==
    [class |-> "mul", type |-> IF Has(w, 21) THEN "MLA" ELSE "MUL", cc |-> Cc(w),
     status |-> Has(w, 20), dest |-> Field(w, 16, 4), rs |-> Field(w, 8, 4), rm |-> Field(w, 0, 4),
     rn |-> IF Has(w, 21) THEN Field(w, 12, 4) ELSE 0]

DecodeSwi(w) == [class |-> "swi", type |-> "SWI", cc |-> Cc(w), code |-> Field(w, 0, 24)]

\* Offsets count words, and are signed.
DecodeBranch(w) ==
    [class |-> "br", type |-> "B", cc |-> Cc(w), link |-> Has(w, 24), indirect |-> FALSE,
     offset |-> Field(w, 0, 24) - (IF Has(w, 23) THEN Power[24] ELSE 0)]

DecodeMtran(w) ==
    IF Has(w, 22) THEN Bad
    ELSE [class |-> "mtran", type |-> IF Has(w, 20) THEN "LDM" ELSE "STM", cc |-> Cc(w),
          op0 |-> Field(w, 16, 4), regs |-> w \cap 0 .. 15, writeBack |-> Has(w, 21),
          status |-> FALSE,
          mode |-> IF Has(w, 23) THEN IF Has(w, 24) THEN "IB" ELSE "IA"
                   ELSE IF Has(w, 24) THEN "DB" ELSE "DA"]

ShiftTypes == <<"LSL", "LSR", "ASR", "ROR">>
ShiftOf(w) == ShiftTypes[Field(w, 5, 2) + 1]
ShiftBy(w) == IF Field(w, 7, 5) = 0 THEN 32 ELSE Field(w, 7, 5)

Register(w) == [kind |-> "reg", reg |-> Field(w, 0, 4)]
Constant(w) == [kind |-> "int", int |-> Field(w, 0, 12)]

DecodeOp2(w) ==
    IF Has(w, 25) THEN Constant(w)
    ELSE IF w \cap 4 .. 11 = {} THEN Register(w)
    ELSE [kind |-> "shift", reg |-> Field(w, 0, 4), shift |-> ShiftOf(w), byReg |-> Has(w, 4),
          by |-> IF Has(w, 4) THEN Field(w, 8, 4) ELSE ShiftBy(w)]

DecodeStranOp2(w) ==
    IF ~Has(w, 25) THEN Constant(w)
    ELSE IF w \cap 4 .. 11 = {} THEN Register(w)
    ELSE [kind |-> "shift", reg |-> Field(w, 0, 4), shift |-> ShiftOf(w), byReg |-> FALSE,
          by |-> ShiftBy(w)]

DecodeStran(w) ==
    [class |-> "stran", type |-> IF Has(w, 20) THEN "LDR" ELSE "STR", cc |-> Cc(w),
     preIndexed |-> Has(w, 24), byte |-> Has(w, 22), writeBack |-> Has(w, 21),
     subtract |-> ~Has(w, 23), dest |-> Field(w, 12, 4), base |-> Field(w, 16, 4),
     offset |-> DecodeStranOp2(w)]

DecodeDatai(w) ==
    [class |-> "data", type |-> DataOps[Field(w, 21, 4) + 1], cc |-> Cc(w),
     status |-> Has(w, 20), dest |-> Field(w, 12, 4), op1 |-> Field(w, 16, 4),
     op2 |-> DecodeOp2(w)]

FlagReg(w) == IF Has(w, 22) THEN "SPSR" ELSE "CPSR"
DecodeMrs(w) ==
    [class |-> "flags", type |-> "MRS", cc |-> Cc(w), fields |-> 0, flagReg |-> FlagReg(w),
     byReg |-> TRUE, reg |-> Field(w, 12, 4)]
DecodeMsr(w) ==
    [class |-> "flags", type |-> "MSR", cc |-> Cc(w), fields |-> Field(w, 16, 4),
     flagReg |-> FlagReg(w), byReg |-> ~Has(w, 25)]
    @@ IF Has(w, 25) THEN [int |-> Field(w, 0, 12)] ELSE [reg |-> Field(w, 0, 4)]

\* The offset is taken for a constant by the bits of 22 (4, 2 and 1), and the upper
\* half of a constant from the bits that have its lower half.
MiscTypes == [k \in 1 .. 7 |->
    CASE k = 1 -> <<"MISC_STR", "H">> [] k = 2 -> <<"MISC_LDR", "D">> [] k = 3 -> <<"MISC_STR", "D">>
      [] k = 5 -> <<"MISC_LDR", "H">> [] k = 6 -> <<"MISC_LDR", "SB">> [] k = 7 -> <<"MISC_LDR", "SH">>
      [] OTHER -> <<>>]
DecodeStranMisc(w) ==
    LET type == MiscTypes[Field(w, 5, 2) + (IF Has(w, 20) THEN 4 ELSE 0)]
        byReg == w \cap {4, 2, 1} = {}
    IN  IF type = <<>> THEN Bad
        ELSE [class |-> "stran_misc", type |-> type[1], width |-> type[2], cc |-> Cc(w),
              byReg |-> byReg,
              offset |-> IF byReg THEN Field(w, 0, 4)
                         ELSE Field(w \cup {b - 8 : b \in w \cap 8 .. 11}, 0, 4),
              writeBack |-> Has(w, 21), subtract |-> ~Has(w, 23),
              dest |-> Field(w, 12, 4), base |-> Field(w, 16, 4)]

-----------------------------------------------------------------------------
\* The name of the number n in a record of numbers.
NameOf(table, n) == CHOOSE name \in DOMAIN table : table[name] = n
Known(table, n) == \E name \in DOMAIN table : table[name] = n

DecodeSimd(w) ==
    IF ~Known(SimdOps, Field(w, 4, 4)) \/ ~Known(SimdSets, Field(w, 20, 4)) THEN Bad
    ELSE [class |-> "simd",
          type |-> <<NameOf(SimdSets, Field(w, 20, 4)), NameOf(SimdOps, Field(w, 4, 4))>>,
          cc |-> Cc(w), dest |-> Field(w, 12, 4), op1 |-> Field(w, 16, 4), op2 |-> Field(w, 0, 4)]

DecodeSignx(w) ==
    IF ~Known(SignxCodes, Field(w, 20, 4)) THEN Bad
    ELSE [class |-> "signx", type |-> NameOf(SignxCodes, Field(w, 20, 4)), cc |-> Cc(w),
          rotate |-> Field(w, 10, 2), dest |-> Field(w, 12, 4), op1 |-> Field(w, 0, 4)]

-----------------------------------------------------------------------------
(* The FPA *)

\* Two bits of a precision: 4, 8 or 12 bytes as 0, 1 and 2; 4 << 2 is 16 for the last.
SizeOf(w, high, low) ==
    LET code == (IF Has(w, high) THEN 2 ELSE 0) + (IF Has(w, low) THEN 1 ELSE 0)
    IN  IF code = 3 THEN -1 ELSE 4 * Power[code]

ImmediateOp2(w) == Has(w, 3)
DecodeFpaOp2(w) == IF Has(w, 3) THEN Field(w, 0, 4) ELSE Field(w, 0, 3)

DecodeFpaData(w) ==
    LET code == Field(w, 20, 4) + 1
        ops == IF Has(w, 15) THEN Monadic ELSE Dyadic
    IN  IF code > Len(ops) \/ SizeOf(w, 19, 7) = -1 THEN Bad
        ELSE [class |-> "fpa_data", type |-> ops[code], cc |-> Cc(w), size |-> SizeOf(w, 19, 7),
              rounding |-> Rounding[Field(w, 5, 2) + 1], dest |-> Field(w, 12, 3),
              op1 |-> IF Has(w, 15) THEN 6 ELSE Field(w, 16, 3),
              immediate |-> ImmediateOp2(w), op2 |-> DecodeFpaOp2(w)]

DecodeFpaStran(w) ==
    IF SizeOf(w, 22, 15) = -1 THEN Bad
    ELSE [class |-> "fpa_stran", type |-> IF Has(w, 20) THEN "LDF" ELSE "STF", cc |-> Cc(w),
          size |-> SizeOf(w, 22, 15), preIndexed |-> Has(w, 24), writeBack |-> Has(w, 21),
          subtract |-> ~Has(w, 23), dest |-> Field(w, 12, 3), base |-> Field(w, 16, 4),
          offset |-> Field(w, 0, 8)]

DecodeFpaCmp(w) ==
    IF Field(w, 21, 3) < 4 THEN Bad
    ELSE [class |-> "fpa_cmp", type |-> FpaCompares[Field(w, 21, 3) - 3], cc |-> Cc(w),
          dest |-> Field(w, 16, 3), immediate |-> ImmediateOp2(w), op2 |-> DecodeFpaOp2(w)]

DecodeFpaTran(w) ==
    LET tran == [class |-> "fpa_tran", cc |-> Cc(w), rounding |-> Rounding[Field(w, 5, 2) + 1]]
    IN  CASE Field(w, 20, 4) = 0 /\ SizeOf(w, 19, 7) # -1 ->
                tran @@ [type |-> "FLT", size |-> SizeOf(w, 19, 7), dest |-> Field(w, 16, 3),
                         immediate |-> FALSE, op2 |-> Field(w, 12, 4)]
          [] Field(w, 20, 4) = 1 ->
                tran @@ [type |-> "FIX", size |-> 0, dest |-> Field(w, 12, 4),
                         immediate |-> ImmediateOp2(w), op2 |-> DecodeFpaOp2(w)]
          [] OTHER -> Bad

DecodeFpaCptran(w) ==
    [class |-> "fpa_cptran", type |-> IF Field(w, 20, 3) = 2 THEN "WFS" ELSE "RFS", cc |-> Cc(w),
     dest |-> Field(w, 12, 4)]

DisassFpa(w) ==
    CASE Field(w, 25, 3) = 6 -> DecodeFpaStran(w)
      [] Field(w, 25, 3) = 7 /\ ~Has(w, 4) -> DecodeFpaData(w)
      [] Field(w, 25, 3) = 7 /\ Has(w, 4) /\ Field(w, 12, 4) = 15 -> DecodeFpaCmp(w)
      [] Field(w, 25, 3) = 7 /\ Has(w, 4) /\ Field(w, 12, 4) # 15 /\ Field(w, 20, 3) <= 1 ->
            DecodeFpaTran(w)
      [] Field(w, 25, 3) = 7 /\ Has(w, 4) /\ Field(w, 12, 4) # 15 /\ Field(w, 20, 3) \in {2, 3} ->
            DecodeFpaCptran(w)
      [] OTHER -> Bad

-----------------------------------------------------------------------------
(* The VFP *)

SingleAt(w, at, low) == 2 * Field(w, at, 4) + (IF Has(w, low) THEN 1 ELSE 0)
SourceOf(w, single) == IF single THEN SingleAt(w, 0, 5) ELSE Field(w, 0, 4)
DestinationOf(w, single) == IF single THEN SingleAt(w, 12, 22) ELSE Field(w, 12, 4)
FirstOf(w, single) == IF single THEN SingleAt(w, 16, 7) ELSE Field(w, 16, 4)

DecodeVfpSysreg(w) ==
    IF ~Known(Sysregs, Field(w, 16, 4)) \/ Has(w, 7) THEN Bad
    ELSE [class |-> "vfp_sysreg", type |-> IF Has(w, 20) THEN "FMRX" ELSE "FMXR", cc |-> Cc(w),
          sysreg |-> NameOf(Sysregs, Field(w, 16, 4)), armReg |-> Field(w, 12, 4)]

\* Other codes leave the type of the instruction as it was.
DecodeVfpCptran(w) ==
    LET tran == [class |-> "vfp_cptran", cc |-> Cc(w), useDregs |-> FALSE]
    IN  CASE Field(w, 20, 4) = 0 ->
                tran @@ [type |-> "FMSR", src |-> Field(w, 12, 4), dest |-> FirstOf(w, TRUE)]
          [] Field(w, 20, 4) = 1 ->
                tran @@ [type |-> "FMRS", dest |-> Field(w, 12, 4), src |-> FirstOf(w, TRUE)]
          [] OTHER -> Bad

\* The mask that chooses the type has neither bit 20 nor bit 8, which tell the four
\* apart, so that the second two of its cases and the first two are never met.
DecodeVfpTranDbl(w) ==
    [class |-> "vfp_tran_dbl", type |-> "FMRRS", cc |-> Cc(w),
     dest1 |-> Field(w, 12, 4), dest2 |-> Field(w, 16, 4),
     src1 |-> SourceOf(w, TRUE), src2 |-> SourceOf(w, TRUE) + 1]

DecodeVfpStran(w) ==
    LET single == Field(w, 8, 4) # 11
    IN  IF ~single /\ Has(w, 22) THEN Bad
        ELSE [class |-> "vfp_stran", cc |-> Cc(w),
              type |-> IF single THEN IF Has(w, 20) THEN "FLDS" ELSE "FSTS"
                       ELSE IF Has(w, 20) THEN "FLDD" ELSE "FSTD",
              dest |-> DestinationOf(w, single), preIndexed |-> Has(w, 24),
              writeBack |-> Has(w, 21), subtract |-> ~Has(w, 23),
              base |-> Field(w, 16, 4), offset |-> Field(w, 0, 8)]

Choose(n, single, names) == names[(IF n THEN 3 ELSE 1) + (IF single THEN 0 ELSE 1)]

DecodeVfpCopy(w, single) ==
    [class |-> "vfp_copy", cc |-> Cc(w),
     type |-> IF Field(w, 16, 4) = 0
              THEN Choose(Has(w, 7), single, <<"FCPYS", "FCPYD", "FABSS", "FABSD">>)
              ELSE IF single THEN "FNEGS" ELSE "FNEGD",
     dest |-> DestinationOf(w, single), src |-> SourceOf(w, single)]

DecodeVfpSqrt(w, single) ==
    [class |-> "vfp_sqrt", cc |-> Cc(w), type |-> IF single THEN "FSQRTS" ELSE "FSQRTD",
     dest |-> DestinationOf(w, single), op1 |-> SourceOf(w, single)]

\* For singles the low bits of the operands are taken from each other's places.
DecodeVfpCmp(w, single) ==
    [class |-> "vfp_cmp", cc |-> Cc(w),
     type |-> IF Field(w, 16, 4) = 4
              THEN Choose(Has(w, 7), single, <<"FCMPS", "FCMPD", "FCMPES", "FCMPED">>)
              ELSE Choose(Has(w, 7), single, <<"FCMPZS", "FCMPZD", "FCMPEZS", "FCMPEZD">>),
     op1 |-> IF single THEN SingleAt(w, 12, 5) ELSE Field(w, 12, 4),
     op2 |-> IF single THEN SingleAt(w, 0, 22) ELSE Field(w, 0, 4)]

DecodeVfpTran(w, single) ==
    LET code == Field(w, 16, 4)
    IN  [class |-> "vfp_tran", cc |-> Cc(w), useDregs |-> FALSE,
         type |-> CASE code = 8 -> Choose(Has(w, 7), single, <<"FUITOS", "FUITOD", "FSITOS", "FSITOD">>)
                    [] code = 12 -> Choose(Has(w, 7), single, <<"FTOUIS", "FTOUID", "FTOUIZS", "FTOUIZD">>)
                    [] code = 13 -> Choose(Has(w, 7), single, <<"FTOSIS", "FTOSID", "FTOSIZS", "FTOSIZD">>),
         src |-> SourceOf(w, single \/ code = 8),
         dest |-> DestinationOf(w, single \/ code # 8)]

DecodeVfpExtension(w, single) ==
    LET code == Field(w, 16, 4)
    IN  CASE code = 0 \/ (code = 1 /\ ~Has(w, 7)) -> DecodeVfpCopy(w, single)
          [] code = 1 /\ Has(w, 7) -> DecodeVfpSqrt(w, single)
          [] code \in {4, 5} -> DecodeVfpCmp(w, single)
          [] code \in {8, 12, 13} -> DecodeVfpTran(w, single)
          [] OTHER -> Bad

DataCodes == [FMAC |-> 0, FNMAC |-> 1, FMSC |-> 2, FNMSC |-> 3, FMUL |-> 4, FNMUL |-> 5,
              FADD |-> 6, FSUB |-> 7, FDIV |-> 8]

\* Mutant: the bits of the code are not spread.
DecodeVfpDataShort(w) ==
    LET single == Field(w, 8, 4) # 11
        code == Field(w, 20, 4)
    IN  CASE code = 11 -> DecodeVfpExtension(w, single)
          [] code # 11 /\ Known(DataCodes, code) ->
                [class |-> "vfp_data", cc |-> Cc(w),
                 type |-> <<NameOf(DataCodes, code), IF single THEN "S" ELSE "D">>,
                 dest |-> DestinationOf(w, single), op1 |-> FirstOf(w, single),
                 op2 |-> SourceOf(w, single)]
          [] OTHER -> Bad

DecodeVfpData(w) ==
    LET single == Field(w, 8, 4) # 11
        code == (IF Has(w, 6) THEN 1 ELSE 0) + 2 * Field(w, 20, 2) + (IF Has(w, 23) THEN 8 ELSE 0)
    IN  CASE code = 15 -> DecodeVfpExtension(w, single)
          [] Known(DataCodes, code) ->
                [class |-> "vfp_data", cc |-> Cc(w),
                 type |-> <<NameOf(DataCodes, code), IF single THEN "S" ELSE "D">>,
                 dest |-> DestinationOf(w, single), op1 |-> FirstOf(w, single),
                 op2 |-> SourceOf(w, single)]
          [] OTHER -> Bad

DecodeVfpCvt(w) ==
    IF Has(w, 8)
    THEN [class |-> "vfp_cvt", type |-> "FCVTSD", cc |-> Cc(w),
          op1 |-> Field(w, 0, 4), dest |-> DestinationOf(w, TRUE)]
    ELSE [class |-> "vfp_cvt", type |-> "FCVTDS", cc |-> Cc(w),
          op1 |-> SourceOf(w, TRUE), dest |-> Field(w, 12, 4)]

DisassVfp(w) ==
    IF Under(w, \Heb70ac0, \Heb70ac0) THEN DecodeVfpCvt(w)
    ELSE IF Under(w, \Hf000a10, \He000a10)
         THEN IF Field(w, 21, 3) = 7 THEN DecodeVfpSysreg(w) ELSE DecodeVfpCptran(w)
    ELSE IF Under(w, \Hf400af0, \Hc400a10) THEN DecodeVfpTranDbl(w)
    ELSE IF Under(w, \He000000, \Hc000000) /\ Field(w, 8, 4) \in {10, 11} THEN DecodeVfpStran(w)
    ELSE IF Under(w, \He000a00, \He000a00) THEN DecodeVfpData(w)
    ELSE Bad

-----------------------------------------------------------------------------
IsSimd(w) ==
    /\ Field(w, 24, 4) = 6 /\ Field(w, 20, 4) \in {1, 2, 3, 5, 6, 7} /\ Field(w, 8, 4) = 0
    /\ Has(w, 4) /\ Field(w, 4, 4) \notin {11, 13}
IsMsr(w) == Under(w, \Hdb0f000, \H1200000)
IsStranMisc(w) ==
    /\ Under(w, \He400090, \H400090) \/ Under(w, \He400f90, \H90)
    /\ w \cap {5, 6} # {}

\* The tests are made in this order.
Disass(w, vfp) ==
    IF w \cap 22 .. 27 = {} /\ Field(w, 4, 4) = 9 THEN DecodeMul(w)
    ELSE IF Field(w, 24, 4) = 15 THEN DecodeSwi(w)
    ELSE IF Field(w, 25, 3) = 5 THEN DecodeBranch(w)
    ELSE IF Field(w, 25, 3) = 4 THEN DecodeMtran(w)
    ELSE IF IsSimd(w) THEN DecodeSimd(w)
    ELSE IF Under(w, \H68f0370, \H68f0070) THEN DecodeSignx(w)
    ELSE IF Field(w, 26, 2) = 1 THEN DecodeStran(w)
    ELSE IF Under(w, \Hfbf0fff, \H1000000) THEN DecodeMrs(w)
    ELSE IF IsMsr(w) THEN DecodeMsr(w)
    ELSE IF IsStranMisc(w) THEN DecodeStranMisc(w)
    ELSE IF Field(w, 26, 2) = 0 THEN DecodeDatai(w)
    ELSE IF vfp THEN DisassVfp(w) ELSE DisassFpa(w)

-----------------------------------------------------------------------------
Assemble ==
    /\ word = {}
    /\ word' = Encode(instr)
    /\ UNCHANGED <<instr, back>>

Disassemble ==
    /\ word # {} /\ back = Nothing
    /\ back' = Disass(word, instr.vfp)
    /\ UNCHANGED <<instr, word>>

Next == Assemble \/ Disassemble

Spec == Init /\ [][Next]_vars

-----------------------------------------------------------------------------
(***************************************************************************)
(* Names of one instruction.  ASL is LSL, and a shift to the left by 0 no  *)
(* shift; the stack modes are directions; integers in the VFP are in       *)
(* singles.  The disassembler does not say whether the offset of a         *)
(* stran_misc is added before the transfer.                                *)
(***************************************************************************)
CanonicalOp2(o) ==
    IF o.kind # "shift" THEN o
    ELSE IF o.shift \in {"LSL", "ASL"} /\ ~o.byReg /\ o.by = 0 THEN [kind |-> "reg", reg |-> o.reg]
    ELSE [o EXCEPT !.shift = IF @ = "ASL" THEN "LSL" ELSE @]

Canonical(i) ==
    CASE i.class = "data" -> [i EXCEPT !.op2 = CanonicalOp2(@)]
      [] i.class = "stran" -> [i EXCEPT !.offset = CanonicalOp2(@)]
      [] i.class = "mtran" -> [i EXCEPT !.mode = StackMode(i.type = "LDM", @)]
      [] i.class = "vfp_tran" ->
            [i EXCEPT !.useDregs = FALSE,
                      !.src = IF i.type \in ToDouble THEN SingleOf(i, @) ELSE @,
                      !.dest = IF i.type \in FromDouble THEN SingleOf(i, @) ELSE @]
      [] i.class = "vfp_cptran" ->
            [i EXCEPT !.useDregs = FALSE,
                      !.src = IF i.type = "FMRS" THEN SingleOf(i, @) ELSE @,
                      !.dest = IF i.type = "FMSR" THEN SingleOf(i, @) ELSE @]
      [] i.class = "stran_misc" -> [f \in DOMAIN i \ {"preIndexed"} |-> i[f]]
      [] OTHER -> i

(***************************************************************************)
(* An offset of a stran_misc above 15 does not arrive: the encoder puts    *)
(* its upper half over the destination, where the disassembler reads it as *)
(* a part of the destination.                                              *)
(***************************************************************************)
Arriving(i) ==
    IF i.class # "stran_misc" THEN i
    ELSE [i EXCEPT !.offset = @ % 16,
                   !.dest = Field(Put(@, 0) \cup Put(i.offset \div 16, 0), 0, 4)]

Same(a, b) == \A f \in DOMAIN a \ {"vfp"} : f \in DOMAIN b /\ a[f] = b[f]

(***************************************************************************)
(* What the disassembler makes of a word is the instruction that the       *)
(* encoder made it of, but for the offsets and destinations of Arriving:   *)
(* no other two instructions share a word, no operand is cut off or read   *)
(* from the bits of another, and no test takes a word of another class for *)
(* its own.                                                                *)
(***************************************************************************)
EncodingRoundTrips == back # Nothing => Same(Canonical(Arriving(instr)), back)

=============================================================================
