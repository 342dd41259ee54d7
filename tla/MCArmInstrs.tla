---------------------------- MODULE MCArmInstrs -----------------------------
(***************************************************************************)
(* Instructions to encode and to decode: every class and type, with the    *)
(* condition, the flags and the registers that have bits of their own in a *)
(* word.                                                                   *)
(***************************************************************************)
EXTENDS Integers, Sequences, TLC

Ccs == {1, 14}
Regs == {0, 5, 10, 15}
Few == {5, 10}
FpaRegs == {0, 2, 5, 7}
Singles == {0, 10, 21, 31}
Flags2 == {<<FALSE, TRUE>>, <<TRUE, FALSE>>}

ShiftOps(by, regs) ==
    [kind : {"shift"}, reg : regs, shift : {"LSL", "ASL", "LSR", "ASR", "ROR"},
     byReg : {FALSE}, by : by]
LongShifts(regs) ==
    [kind : {"shift"}, reg : regs, shift : {"LSR", "ASR"}, byReg : {FALSE}, by : {32}]
RegShifts ==
    [kind : {"shift"}, reg : Few, shift : {"LSL", "ASL", "LSR", "ASR", "ROR"},
     byReg : {TRUE}, by : Few]
PlainOps == [kind : {"reg"}, reg : Few] \cup [kind : {"int"}, int : {0, 1365, 2730, 4095}]
NoShifts == [kind : {"shift"}, reg : Few, shift : {"LSL", "ASL"}, byReg : {FALSE}, by : {0}]
Op2s == PlainOps \cup NoShifts \cup ShiftOps({1, 10, 21, 31}, Few) \cup LongShifts(Few)

DataSet(ops, status) ==
    [class : {"data"}, type : ops, cc : Ccs, status : status,
     dest : Few, op1 : Few, op2 : Op2s \cup RegShifts, vfp : {TRUE}]
CompareTypes == {"TST", "TEQ", "CMP", "CMN"}
MulSet ==
    [class : {"mul"}, type : {"MUL"}, cc : Ccs, status : BOOLEAN, dest : Regs, rm : Regs,
     rs : Few, rn : {0}, vfp : {FALSE}]
    \cup [class : {"mul"}, type : {"MLA"}, cc : Ccs, status : BOOLEAN, dest : Few, rm : Few,
          rs : Regs, rn : Regs, vfp : {TRUE}]
StranSet ==
    [class : {"stran"}, type : {"LDR", "STR"}, cc : {6}, preIndexed : BOOLEAN, byte : BOOLEAN,
     writeBack : BOOLEAN, subtract : BOOLEAN, dest : {5, 10}, base : {9, 15}, offset : Op2s, vfp : {TRUE}]
MtranSet ==
    [class : {"mtran"}, type : {"LDM", "STM"}, cc : Ccs, op0 : {2, 13},
     regs : {{0, 15}, {1, 14}, 4 .. 11, 0 .. 15}, writeBack : BOOLEAN, status : {FALSE},
     mode : {"IA", "IB", "DA", "DB", "FA", "FD", "EA", "ED"}, vfp : {FALSE}]
SwiSet == [class : {"swi"}, type : {"SWI"}, cc : Ccs, code : {0, 17, 69651, 16777215}, vfp : {FALSE}]
FlagsSet ==
    [class : {"flags"}, type : {"MRS"}, cc : Ccs, fields : {0}, flagReg : {"CPSR", "SPSR"},
     byReg : {TRUE}, reg : Regs, vfp : {FALSE}]
    \cup [class : {"flags"}, type : {"MSR"}, cc : Ccs, fields : 0 .. 15, flagReg : {"CPSR", "SPSR"},
          byReg : {TRUE}, reg : Regs, vfp : {FALSE}]
    \cup [class : {"flags"}, type : {"MSR"}, cc : Ccs, fields : 0 .. 15, flagReg : {"CPSR", "SPSR"},
          byReg : {FALSE}, int : {0, 1365, 2730, 4095}, vfp : {FALSE}]
MiscSet ==
    [class : {"stran_misc"}, type : {"MISC_LDR"}, width : {"SB", "SH", "H", "D"}, cc : Ccs,
     byReg : {FALSE}, offset : {0, 5, 10, 15, 85, 170, 255}, writeBack : BOOLEAN, subtract : BOOLEAN,
     preIndexed : BOOLEAN, dest : Few, base : Regs, vfp : {TRUE}]
    \cup [class : {"stran_misc"}, type : {"MISC_STR"}, width : {"H", "D"}, cc : Ccs,
     byReg : {FALSE}, offset : {0, 5, 10, 15, 85, 170, 255}, writeBack : BOOLEAN, subtract : BOOLEAN,
     preIndexed : BOOLEAN, dest : Few, base : Regs, vfp : {TRUE}]
SimdSet ==
    [class : {"simd"}, type : {"Q", "S", "SH", "U", "UH", "UQ"} \X
        {"ADD16", "ADD8", "ADDSUBX", "SUB16", "SUB8", "SUBADDX"},
     cc : Ccs, dest : Few, op1 : Few, op2 : Regs, vfp : {TRUE}]
SignxSet ==
    [class : {"signx"}, type : {"SXTB", "SXTB16", "SXTH"}, cc : Ccs, rotate : 0 .. 3,
     dest : Regs, op1 : Regs, vfp : {TRUE}]
FpaOps(S) == {o @@ i : o \in S, i \in [immediate : {FALSE}, op2 : FpaRegs] \cup [immediate : {TRUE}, op2 : {8, 13, 15}]}
RoundingModes == {"nearest", "plus_infinity", "minus_infinity", "zero"}
FpaDataSet ==
    FpaOps([class : {"fpa_data"}, type : {"ADF", "MUF", "SUF", "RSF", "DVF", "RDF", "POW", "RPW",
            "RMF", "FML", "FDV", "FRD", "POL"}, cc : Ccs, size : {4, 8}, rounding : RoundingModes,
            dest : {2, 5}, op1 : {1, 6}, vfp : {FALSE}]
    \cup [class : {"fpa_data"}, type : {"MVF", "MNF", "ABS", "RND", "SQT", "LOG", "LGN", "EXP",
             "SIN", "COS", "TAN", "ASN", "ACS", "ATN", "URD", "NRM"}, cc : Ccs, size : {4, 8},
             rounding : RoundingModes, dest : {2, 5}, op1 : {6}, vfp : {FALSE}])
FpaOther ==
    [class : {"fpa_stran"}, type : {"LDF", "STF"}, cc : Ccs, size : {4, 8}, preIndexed : BOOLEAN,
     writeBack : BOOLEAN, subtract : BOOLEAN, dest : {2, 5}, base : Few, offset : {0, 85, 170, 255}, vfp : {FALSE}]
    \cup [class : {"fpa_tran"}, type : {"FLT"}, cc : Ccs, size : {4, 8}, rounding : RoundingModes,
          dest : FpaRegs, immediate : {FALSE}, op2 : {0, 5, 10, 14}, vfp : {FALSE}]
    \cup FpaOps([class : {"fpa_tran"}, type : {"FIX"}, cc : Ccs, size : {0}, rounding : RoundingModes,
          dest : {0, 5, 10, 14}, vfp : {FALSE}])
    \cup FpaOps([class : {"fpa_cmp"}, type : {"CMF", "CNF", "CMFE", "CNFE"}, cc : Ccs,
          dest : FpaRegs, vfp : {FALSE}])
    \cup [class : {"fpa_cptran"}, type : {"WFS", "RFS"}, cc : Ccs, dest : {0, 5, 10, 14}, vfp : {FALSE}]

VfpStranSet ==
    [class : {"vfp_stran"}, type : {"FSTS", "FLDS"}, cc : Ccs, preIndexed : BOOLEAN, writeBack : BOOLEAN,
     subtract : BOOLEAN, dest : Singles, base : Few, offset : {0, 85, 170, 255}, vfp : {TRUE}]
    \cup [class : {"vfp_stran"}, type : {"FSTD", "FLDD"}, cc : Ccs, preIndexed : BOOLEAN, writeBack : BOOLEAN,
     subtract : BOOLEAN, dest : Regs, base : Few, offset : {0, 85, 170, 255}, vfp : {TRUE}]
VfpTwo(class, types, d, s, dests, sources) ==
    {x @@ (d :> y) @@ (s :> z) : x \in [class : {class}, type : types, cc : Ccs, vfp : {TRUE}],
                     y \in dests, z \in sources}
NoDregs(S) == {x @@ [useDregs |-> FALSE] : x \in S}
Dregs(S) == {x @@ [useDregs |-> TRUE] : x \in S}
VfpSet ==
    VfpStranSet
    \cup VfpTwo("vfp_copy", {"FCPYS", "FNEGS", "FABSS"}, "dest", "src", Singles, Singles)
    \cup VfpTwo("vfp_copy", {"FCPYD", "FNEGD", "FABSD"}, "dest", "src", Regs, Regs)
    \cup NoDregs(VfpTwo("vfp_tran", {"FTOSIS", "FTOUIS", "FTOUIZS", "FTOSIZS", "FSITOS", "FUITOS"}, "dest", "src", Singles, Singles))
    \cup NoDregs(VfpTwo("vfp_tran", {"FSITOD"}, "dest", "src", Regs, Singles))
    \cup NoDregs(VfpTwo("vfp_tran", {"FTOSID", "FTOUID", "FTOSIZD", "FTOUIZD"}, "dest", "src", Singles, Regs))
    \cup Dregs(VfpTwo("vfp_tran", {"FSITOD", "FTOSID", "FTOUID", "FTOSIZD", "FTOUIZD"}, "dest", "src", Regs, Regs))
    \cup NoDregs(VfpTwo("vfp_cptran", {"FMSR"}, "dest", "src", Singles, Regs))
    \cup NoDregs(VfpTwo("vfp_cptran", {"FMRS"}, "dest", "src", Regs, Singles))
    \cup Dregs(VfpTwo("vfp_cptran", {"FMSR", "FMRS"}, "dest", "src", Regs, Regs))
    \cup [class : {"vfp_data"}, type : {"FMAC", "FNMAC", "FMSC", "FNMSC", "FMUL", "FNMUL", "FADD", "FSUB", "FDIV"} \X {"S"},
          cc : Ccs, dest : Singles, op1 : Singles, op2 : Singles, vfp : {TRUE}]
    \cup [class : {"vfp_data"}, type : {"FMAC", "FNMAC", "FMSC", "FNMSC", "FMUL", "FNMUL", "FADD", "FSUB", "FDIV"} \X {"D"},
          cc : Ccs, dest : Regs, op1 : Regs, op2 : Regs, vfp : {TRUE}]
    \cup VfpTwo("vfp_cmp", {"FCMPD", "FCMPED"}, "op1", "op2", Regs, Regs)
    \cup VfpTwo("vfp_cmp", {"FCMPZD", "FCMPEZD"}, "op1", "op2", Regs, {0})
    \cup VfpTwo("vfp_cmp", {"FCMPS", "FCMPES"}, "op1", "op2", {0, 10}, {0, 30})
    \cup VfpTwo("vfp_cmp", {"FCMPZS", "FCMPEZS"}, "op1", "op2", {0}, {0})
    \cup VfpTwo("vfp_sqrt", {"FSQRTS"}, "dest", "op1", Singles, Singles)
    \cup VfpTwo("vfp_sqrt", {"FSQRTD"}, "dest", "op1", Regs, Regs)
    \cup VfpTwo("vfp_sysreg", {"FMRX", "FMXR"}, "sysreg", "armReg", {"FPSID", "FPSCR", "FPEXC"}, Regs)
    \cup VfpTwo("vfp_cvt", {"FCVTDS"}, "dest", "op1", Regs, Singles)
    \cup VfpTwo("vfp_cvt", {"FCVTSD"}, "dest", "op1", Singles, Regs)
    \cup [class : {"vfp_tran_dbl"}, type : {"FMRRS"}, cc : Ccs, dest1 : Few, dest2 : Few,
          src1 : {10}, src2 : {11}, vfp : {TRUE}]

-----------------------------------------------------------------------------
AllInstructions ==
    DataSet({"AND", "EOR", "SUB", "RSB", "ADD", "ADC", "SBC", "RSC", "ORR", "MOV", "BIC", "MVN"}, BOOLEAN)
    \cup DataSet(CompareTypes, {TRUE}) \cup MulSet \cup StranSet \cup MtranSet \cup SwiSet
    \cup FlagsSet \cup MiscSet \cup SimdSet \cup SignxSet \cup FpaDataSet \cup FpaOther \cup VfpSet

=============================================================================
