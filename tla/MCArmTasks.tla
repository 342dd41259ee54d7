----------------------------- MODULE MCArmTasks -----------------------------
(***************************************************************************)
(* Programs for the interpreter of ARM code, with the registers and reals  *)
(* they start with and their goals.                                        *)
(***************************************************************************)
EXTENDS ArmVm

AL == 14
Reg(k) == [kind |-> "reg", reg |-> k]
Const(n) == [kind |-> "int", int |-> n]
ShiftedBy(shift, by) == [kind |-> "shift", reg |-> 1, shift |-> shift, byReg |-> FALSE, by |-> by]
ShiftedByReg(shift) == [kind |-> "shift", reg |-> 1, shift |-> shift, byReg |-> TRUE, by |-> 4]
Dp(t, status, dest, op1, op2) ==
    [class |-> "data", type |-> t, cc |-> AL, status |-> status, dest |-> dest, op1 |-> op1, op2 |-> op2]
OneIf(cc) == [Dp("MOV", FALSE, 2, 0, Const(1)) EXCEPT !.cc = cc]
Task(code, regs, goal) ==
    [code |-> code, regs |-> regs, carry |-> FALSE, reals |-> <<>>, size |-> 8, floats |-> <<>>,
     mode |-> 0, goal |-> goal]

Lowest == -(2 ^ (W - 1))
Highest == 2 ^ (W - 1) - 1
Edges == {Lowest, Lowest + 1, -2 ^ (W - 2), -1, 0, 1, 2 ^ (W - 2), Highest}

CompareTasks ==
    {Task(<<Dp(t, TRUE, 4, 0, Reg(1)), OneIf(cc)>>, (0 :> a @@ 1 :> b), [kind |-> "compare", type |-> t, cc |-> cc])
     : t \in {"CMP", "SUB", "RSB", "ADD"}, cc \in 0 .. AL, a \in Edges, b \in Edges}
    \cup
    {Task(<<Dp("CMN", TRUE, 4, 0, Reg(1)), OneIf(cc)>>, (0 :> a @@ 1 :> b), [kind |-> "compare", type |-> "CMN", cc |-> cc])
     : cc \in 0 .. AL, a \in Edges, b \in Edges \ {0, Lowest}}

LongTasks ==
    {Task(<<Dp("ADD", TRUE, 0, 0, Reg(2)), Dp("ADC", FALSE, 1, 1, Reg(3))>>,
          (0 :> a @@ 1 :> b @@ 2 :> c @@ 3 :> d), [kind |-> "long"])
     : a \in Edges, b \in {Lowest, -1, Highest}, c \in Edges, d \in {-1, 0, Highest}}

Shifts ==
    {<<s, by>> : s \in {"LSL", "ASL"}, by \in 0 .. W - 1}
    \cup {<<s, by>> : s \in {"LSR", "ASR", "ROR"}, by \in 1 .. W - 1} \cup {<<"RRX", 1>>}
Combine(t, status, s, byReg, x, y, c) ==
    [Task(<<Dp(t, status, 2, 0, IF byReg THEN ShiftedByReg(s[1]) ELSE ShiftedBy(s[1], s[2]))>>,
          (0 :> x @@ 1 :> y @@ 4 :> s[2]),
          [kind |-> "combine", type |-> t, status |-> status, shift |-> s[1], by |-> s[2]])
     EXCEPT !.carry = c]
CombineTasks ==
    {Combine("MOV", TRUE, s, byReg, 0, y, c)
     : s \in {z \in Shifts : z[1] # "ROR"}, byReg \in BOOLEAN, y \in Edges, c \in BOOLEAN}
    \cup {Combine("MOV", TRUE, <<"ROR", by>>, byReg, 0, y, c)
     : by \in 1 .. W - 1, byReg \in BOOLEAN, y \in {y \in Edges : y >= 0}, c \in BOOLEAN}
    \cup {Combine(t, t \in {"TST", "TEQ"} \/ st, s, FALSE, x, y, FALSE)
     : t \in {"AND", "EOR", "ORR", "BIC", "MVN", "TST", "TEQ", "MOV"}, st \in BOOLEAN,
       s \in {<<"LSL", 0>>, <<"LSL", 3>>, <<"LSR", 5>>, <<"ASR", 2>>, <<"RRX", 1>>}, x \in Edges, y \in Edges}

MulInstr(t) == [class |-> "mul", type |-> t, cc |-> AL, status |-> FALSE, dest |-> 2, rm |-> 0, rs |-> 1, rn |-> 3]
ProductTasks ==
    {Task(<<MulInstr(t)>>, (0 :> a @@ 1 :> b @@ 3 :> c),
          [kind |-> "product", addend |-> IF t = "MLA" THEN c ELSE 0])
     : t \in {"MUL", "MLA"}, a \in Edges, b \in {-100, -1, 0, 2, 100}, c \in {Lowest, 7}}

\* A transfer in every form, and one of the same address with no offset.
Forms == [preIndexed : BOOLEAN, writeBack : BOOLEAN, subtract : BOOLEAN]
Plain == [preIndexed |-> TRUE, writeBack |-> FALSE, subtract |-> FALSE, base |-> 6, cc |-> AL]
At(f, off) == IF f.preIndexed THEN IF f.subtract THEN 12 - off ELSE 12 + off ELSE 12
BaseAfter(f, off, always) ==
    IF f.writeBack \/ (always /\ ~f.preIndexed) THEN IF f.subtract THEN 12 - off ELSE 12 + off ELSE 12
Word1(t, byte, dest, offset) ==
    [class |-> "stran", type |-> t, byte |-> byte, dest |-> dest, offset |-> offset, cc |-> AL, base |-> 5]
Misc(t, width, dest) ==
    [class |-> "stran_misc", type |-> t, width |-> width, byReg |-> FALSE, offset |-> 4, dest |-> dest,
     cc |-> AL, base |-> 5]
ReloadGoal(width, size, f, off) ==
    [kind |-> "reload", width |-> width, size |-> size, at |-> At(f, off), base |-> BaseAfter(f, off, TRUE)]
ReloadRegs(x, f, off) == (0 :> x @@ 1 :> 3000 @@ 4 :> 2 @@ 5 :> 12 @@ 6 :> At(f, off) @@ 7 :> 1)
Bare(i) == [i EXCEPT !.offset = IF i.class = "stran" THEN Const(0) ELSE 0]
ReloadTasks ==
    {LET o == [kind |-> "shift", reg |-> 7, shift |-> "LSL", byReg |-> FALSE, by |-> 3]
         off == IF shifted THEN 8 ELSE 4
         Tran(t, d) == Word1(t, byte, d, IF shifted THEN o ELSE Const(4))
     IN  Task(IF store THEN <<Tran("STR", 0) @@ f, Plain @@ Bare(Tran("LDR", 2))>>
              ELSE <<Plain @@ Bare(Tran("STR", 0)), Tran("LDR", 2) @@ f>>,
              ReloadRegs(x, f, off), ReloadGoal(IF byte THEN "byte" ELSE "word", IF byte THEN 1 ELSE 4, f, off))
     : byte \in BOOLEAN, store \in BOOLEAN, shifted \in BOOLEAN, f \in Forms, x \in {Lowest, -2, 77}}
    \cup
    {LET stored == IF width \in {"SH", "SB"} THEN "H" ELSE width
     IN  Task(IF store THEN <<Misc("MISC_STR", stored, 0) @@ f, Plain @@ Bare(Misc("MISC_LDR", width, 2))>>
              ELSE <<Plain @@ Bare(Misc("MISC_STR", stored, 0)), Misc("MISC_LDR", width, 2) @@ f>>,
              ReloadRegs(x, f, 4), ReloadGoal(width, IF width = "D" THEN 8 ELSE 2, f, 4))
     : width \in {"H", "SH", "SB", "D"}, store \in BOOLEAN, f \in Forms, x \in {Lowest, -2, 77, 2 ^ (H - 1)}}

Several(t, mode, R) ==
    [class |-> "mtran", type |-> t, cc |-> AL, op0 |-> 13, regs |-> R, writeBack |-> TRUE,
     status |-> FALSE, mode |-> mode]
StackPairs == {<<s, s>> : s \in {"FD", "FA", "ED", "EA"}} \cup {<<"DB", "IA">>, <<"IB", "DA">>, <<"IA", "DB">>, <<"DA", "IB">>}
LowEnd(mode, n) ==
    CASE mode \in {"FD", "DB"} -> 16 - 4 * n [] mode \in {"ED", "DA"} -> 20 - 4 * n
      [] mode \in {"FA", "IB"} -> 20 [] mode \in {"EA", "IA"} -> 16
StackTasks ==
    {Task(<<Several("STM", p[1], {x \in 0 .. 14 : R[x]})>>
            \o [k \in 1 .. 15 |-> [Dp("MOV", FALSE, k - 1, 0, Const(0)) EXCEPT !.cc = IF R[k - 1] THEN 14 ELSE 15]]
            \o <<Several("LDM", p[2], {x \in 0 .. 14 : R[x]})>>,
          [k \in 0 .. 12 \cup {14} |-> 1000 - 300 * k],
          [kind |-> "stack", regs |-> {x \in 0 .. 14 : R[x]},
           at |-> LowEnd(p[1], Cardinality({x \in 0 .. 14 : R[x]}))])
     : p \in StackPairs, R \in {[k \in 0 .. 14 |-> k \in S] : S \in {{0}, {2, 14}, {0, 1, 3}, {4, 9, 14}}}}

Br(off, link) == [class |-> "br", type |-> "B", cc |-> AL, link |-> link, indirect |-> FALSE, offset |-> off]
CallTasks ==
    {Task(<<Br(1, FALSE), Dp("ADD", FALSE, 3, 3, Const(1)), Dp("MOV", FALSE, 15, 0, Reg(14)),
            Br(-4, TRUE), Dp("ADD", FALSE, 2, 2, Const(1))>>, (0 :> 0), [kind |-> "call", back |-> 16])}

\* Reals, in halves.
Halves == {-7, -2, -1, 0, 1, 2, 5}
Orders == {0, 1, 10, 11, 12, 13}
HighWord(x) == IF x < 0 THEN -1 ELSE 0
Doubled(k, x) == (2 * k :> x @@ 2 * k + 1 :> HighWord(x))
FpaOp(class, t, size, immediate, op2) ==
    [class |-> class, type |-> t, cc |-> AL, size |-> size, rounding |-> "nearest", dest |-> 3, op1 |-> 1,
     immediate |-> immediate, op2 |-> op2]
Vfp(class, t) == [class |-> class, type |-> t, cc |-> AL, useDregs |-> FALSE]
VfpCompare(t) == Vfp("vfp_cmp", t) @@ (IF t \in {"FCMPS", "FCMPES", "FCMPZS", "FCMPEZS"}
                                      THEN [op1 |-> 2, op2 |-> 4] ELSE [op1 |-> 1, op2 |-> 2])
Status(t, k) == Vfp("vfp_sysreg", t) @@ [sysreg |-> "FPSCR", armReg |-> k]
OrderTasks ==
    {[Task(<<[FpaOp("fpa_cmp", t, size, FALSE, 2) EXCEPT !.dest = 1], OneIf(cc)>>, (0 :> 0),
           [kind |-> "order", cc |-> cc, a |-> a, b |-> IF t = "CNF" THEN -b ELSE b])
      EXCEPT !.reals = (1 :> a @@ 2 :> b), !.size = size]
     : t \in {"CMF", "CNF"}, size \in {4, 8}, a \in Halves, b \in Halves, cc \in Orders}
    \cup
    {[Task(<<VfpCompare(t), Status("FMRX", 15), OneIf(cc)>>, (0 :> 0),
           [kind |-> "order", cc |-> cc, a |-> a, b |-> IF t \in {"FCMPZS", "FCMPEZS", "FCMPZD", "FCMPEZD"} THEN 0 ELSE b])
      EXCEPT !.floats = Doubled(1, a) @@ Doubled(2, b)]
     : t \in {"FCMPS", "FCMPES", "FCMPD", "FCMPED", "FCMPZS", "FCMPEZS", "FCMPZD", "FCMPEZD"},
       a \in Halves, b \in Halves, cc \in Orders}

Roundings == <<"nearest", "plus_infinity", "minus_infinity", "zero">>
ToInteger(t, dest) == Vfp("vfp_tran", t) @@ [dest |-> dest, src |-> IF t \in {"FTOSIS", "FTOUIS", "FTOSIZS", "FTOUIZS"} THEN 2 ELSE 1]
FromVfp(dest, src) == Vfp("vfp_cptran", "FMRS") @@ [dest |-> dest, src |-> src]
ToVfp(dest, src) == Vfp("vfp_cptran", "FMSR") @@ [dest |-> dest, src |-> src]
RoundTasks ==
    {[Task(<<[FpaOp("fpa_tran", "FIX", 0, FALSE, 2) EXCEPT !.dest = 2, !.rounding = Roundings[g]]>>, (0 :> 0),
           [kind |-> "round", a |-> a, rounding |-> Roundings[g]])
      EXCEPT !.reals = (2 :> a), !.size = size] : a \in Halves, g \in 1 .. 4, size \in {4, 8}}
    \cup
    {[Task(<<ToInteger(t, 6), FromVfp(2, 6)>>, (0 :> 0),
           [kind |-> "round", a |-> a, rounding |-> IF t \in {"FTOSIZS", "FTOSIZD", "FTOUIZS"} THEN "zero" ELSE Roundings[g]])
      EXCEPT !.floats = Doubled(1, a), !.mode = g - 1]
     : t \in {"FTOSIS", "FTOSID", "FTOSIZS", "FTOSIZD"}, a \in Halves, g \in 1 .. 4}
    \cup
    {[Task(<<ToInteger(t, 0), FromVfp(2, 0)>>, (0 :> 0),
           [kind |-> "round", a |-> a, rounding |-> IF t \in {"FTOUIZS", "FTOUIZD"} THEN "zero" ELSE Roundings[g]])
      EXCEPT !.floats = Doubled(1, a), !.mode = g - 1]
     : t \in {"FTOUIS", "FTOUID", "FTOUIZS", "FTOUIZD"}, a \in {h \in Halves : h >= 0}, g \in 1 .. 4}

ReadStatus == [class |-> "fpa_cptran", type |-> "RFS", cc |-> AL, dest |-> 2]
Calc(unit, t, a, b, d, size) ==
    [kind |-> "calculate", unit |-> unit, type |-> t, a |-> a, b |-> b, d |-> d, size |-> size]
Wholes == {-12, 0, 4, 12}
Divisors == {-4, 0, 2}
FpaCalc(t, a, b, size) ==
    [Task(<<FpaOp("fpa_data", t, size, FALSE, 2), ReadStatus>>, (0 :> 0), Calc("fpa", t, a, b, 0, size))
     EXCEPT !.reals = (1 :> a @@ 2 :> b), !.size = size]
FpaConst(t, a, imm, b, size) ==
    [Task(<<FpaOp("fpa_data", t, size, TRUE, imm)>>, (0 :> 0), Calc("fpa", t, a, b, 0, size))
     EXCEPT !.reals = (1 :> a), !.size = size]
VfpThree(t, p) == Vfp("vfp_data", <<t, p>>) @@ (IF p = "S" THEN [dest |-> 6, op1 |-> 2, op2 |-> 4] ELSE [dest |-> 3, op1 |-> 1, op2 |-> 2])
VfpUnary(class, t, p) ==
    Vfp(class, t \o p) @@ (IF p = "S" THEN [dest |-> 6, op1 |-> 4, src |-> 4] ELSE [dest |-> 3, op1 |-> 2, src |-> 2])
Unit(p) == IF p = "S" THEN "float" ELSE "double"
VfpCalc(i, p, t, a, b, d) ==
    [Task(<<i, Status("FMRX", 2)>>, (0 :> 0), Calc(Unit(p), t, a, b, d, 8))
     EXCEPT !.floats = Doubled(1, a) @@ Doubled(2, b) @@ Doubled(3, d)]
CalculateTasks ==
    {FpaCalc(t, a, b, size) : t \in {"ADF", "SUF", "RSF", "MUF", "DVF", "MVF", "MNF", "ABS"},
                              a \in Wholes, b \in Divisors, size \in {4, 8}}
    \cup {FpaCalc("RDF", b, a, 8) : a \in Wholes, b \in Divisors}
    \cup {FpaCalc("POW", a, 4, 8) : a \in Wholes} \cup {FpaCalc("SQT", 0, b, 8) : b \in {0, 2, 8, 18}}
    \cup {FpaCalc(t, 0, 0, 8) : t \in {"SIN", "COS", "TAN", "ASN", "ATN", "EXP"}}
    \cup {FpaCalc(t, 0, 2, 8) : t \in {"ACS", "LOG", "LGN"}}
    \cup {FpaConst(t, a, 8 + k, FpaConstants[k + 1], 8) : t \in {"ADF", "RSF", "MVF", "MUF"}, a \in Wholes, k \in 0 .. 7}
    \cup {VfpCalc(VfpThree(t, p), p, t, a, b, d)
          : t \in {"FMAC", "FNMAC", "FMSC", "FMUL", "FNMUL", "FADD", "FSUB", "FDIV"},
            p \in {"S", "D"}, a \in Wholes, b \in Divisors, d \in {-3, 5}}
    \cup {VfpCalc(VfpUnary("vfp_copy", t, p), p, t, 0, b, 5) : t \in {"FCPY", "FNEG", "FABS"}, p \in {"S", "D"}, b \in Halves}
    \cup {VfpCalc(VfpUnary("vfp_sqrt", "FSQRT", p), p, "FSQRT", 0, b, 5) : p \in {"S", "D"}, b \in {0, 2, 8, 18}}
    \cup {VfpCalc(Vfp("vfp_cvt", "FCVTDS") @@ [dest |-> 3, op1 |-> 4], "D", "FCVT", 0, b, 5) : b \in Halves}
    \cup {VfpCalc(Vfp("vfp_cvt", "FCVTSD") @@ [dest |-> 6, op1 |-> 2], "S", "FCVT", 0, b, 5) : b \in Halves}

FpStran(class, t, dest) == [class |-> class, type |-> t, dest |-> dest, offset |-> 1, cc |-> AL, base |-> 5]
NoOffset(i) == [i EXCEPT !.offset = 0]
Transfer(unit, a, base) == [kind |-> "transfer", unit |-> unit, a |-> a, base |-> base]
FpTask(st, ld, unit, f, a, size) ==
    [Task(<<st @@ f, NoOffset(ld) @@ Plain>>, (5 :> 12 @@ 6 :> At(f, 4)), Transfer(unit, a, BaseAfter(f, 4, FALSE)))
     EXCEPT !.reals = (1 :> a), !.size = size, !.floats = Doubled(1, a)]
Based6(i) == [i EXCEPT !.base = 6]
Double2(t, a, b, c, d) == Vfp("vfp_tran_dbl", t) @@ [dest1 |-> a, dest2 |-> b, src1 |-> c, src2 |-> d]
FlagsInstr(t, fields, k) ==
    [class |-> "flags", type |-> t, cc |-> AL, fields |-> fields, flagReg |-> "CPSR", byReg |-> TRUE, reg |-> k]
FloatTask(code, unit, a) ==
    [Task(code, (5 :> 12 @@ 0 :> a), Transfer(unit, a, 12)) EXCEPT !.floats = Doubled(1, a)]
Integers8 == {-2 ^ (W - 3), -3, 0, 9}
TransferTasks ==
    {FpTask(FpStran("fpa_stran", "STF", 1) @@ [size |-> size],
            Based6(FpStran("fpa_stran", "LDF", 3)) @@ [size |-> size], "fpa", f, a, size)
     : size \in {4, 8}, f \in Forms, a \in Halves}
    \cup {FpTask(FpStran("vfp_stran", "FSTS", 2), Based6(FpStran("vfp_stran", "FLDS", 6)), "float", f, a, 8) : f \in Forms, a \in Halves}
    \cup {FpTask(FpStran("vfp_stran", "FSTD", 1), Based6(FpStran("vfp_stran", "FLDD", 3)), "double", f, a, 8) : f \in Forms, a \in Halves}
    \cup {FloatTask(<<Double2("FMRRD", 7, 8, 1, 0), Double2("FMDRR", 3, 0, 7, 8)>>, "double", a) : a \in Halves}
    \cup {FloatTask(<<Double2("FMRRS", 7, 8, 2, 3), Double2("FMSRR", 6, 7, 7, 8)>>, "double", a) : a \in Halves}
    \cup {FloatTask(<<FromVfp(7, 2), ToVfp(6, 7)>>, "float", a) : a \in Halves}
    \cup {FloatTask(<<[FpaOp("fpa_tran", "FLT", size, FALSE, 0) EXCEPT !.dest = 3],
                      [FpaOp("fpa_tran", "FIX", 0, FALSE, 3) EXCEPT !.dest = 2]>>, "integer", n) : n \in Integers8, size \in {4, 8}}
    \cup {FloatTask(<<ToVfp(0, 0), Vfp("vfp_tran", "FSITO" \o p) @@ [dest |-> IF p = "S" THEN 2 ELSE 1, src |-> 0],
                      ToInteger("FTOSIZ" \o p, 6), FromVfp(2, 6)>>, "integer", n) : p \in {"S", "D"}, n \in Integers8}
    \cup {FloatTask(<<FlagsInstr("MSR", fields, 0), FlagsInstr("MRS", 0, 2)>>, "status", n)
          : n \in {-1, 2 ^ (W - 2)}, fields \in {0, 1, 6, 15}}
    \cup {FloatTask(<<Status("FMXR", 0), Status("FMRX", 2)>>, "integer", n) : n \in Edges}
TransferTasksWithFields == {IF t.goal.unit = "status" THEN [t EXCEPT !.goal = @ @@ [fields |-> t.code[1].fields]] ELSE t : t \in TransferTasks}

SimdTypes == {"Q", "S", "SH", "U", "UH", "UQ"} \X {"ADD16", "ADD8", "ADDSUBX", "SUB16", "SUB8", "SUBADDX"}
Bytes4(a, b, c, d) == Word(a + 2 ^ 6 * b + 2 ^ 12 * c + 2 ^ 18 * d)
Words4 == {Bytes4(a, b, a, b) : a \in {0, 31, 63}, b \in {1, 32}} \cup {Bytes4(33, 0, 62, 31), Bytes4(7, 8, 9, 10)}
\* The operands for which a result keeps to its lane, and is not negative where it is halved.
LaneAllowed(t, k, d) ==
    LET bits == LaneBits(t)
        plain == IF d >= 2 ^ (W - 1) THEN d - 2 ^ W ELSE d
    IN  CASE t = <<"Q", "ADD8">> -> k = 3 \/ d >= 0
          [] t[1] \in {"S", "U"} /\ Bytewise(t) -> k # 0 \/ plain \in 0 .. 2 ^ bits - 1
          [] t[1] = "SH" -> d >= 0 \/ d % 2 = 0
          [] t[1] \in {"UH", "UQ"} -> plain >= 0
          [] OTHER -> TRUE
SimdAllowed(t, x, y) ==
    /\ \A k \in 0 .. LastLane(t) : LaneAllowed(t, k, Lanes(t, x, y)[k])
    /\ t[1] = "Q" /\ Exchanged(t) => LaneOf(y, 0, H, TRUE) = LaneOf(y, 1, H, TRUE)
Lane(t) == [class |-> "simd", type |-> t, cc |-> AL, dest |-> 2, op1 |-> 0, op2 |-> 1]
SimdTasks ==
    {Task(<<Lane(p[1])>>, (0 :> p[2] @@ 1 :> p[3]), [kind |-> "lanes", type |-> p[1]])
     : p \in {q \in SimdTypes \X Words4 \X Words4 : SimdAllowed(q[1], q[2], q[3])}}
SignxTasks ==
    {Task(<<[class |-> "signx", type |-> t, cc |-> AL, rotate |-> g, dest |-> 2, op1 |-> 1]>>, (1 :> x),
          [kind |-> "extend", type |-> t, rotate |-> g])
     : t \in {"SXTB", "SXTB16", "SXTH"}, g \in 0 .. 3, x \in {y \in Words4 : y >= 0}}
    \cup {Task(<<[class |-> "signx", type |-> t, cc |-> AL, rotate |-> 0, dest |-> 2, op1 |-> 1]>>, (1 :> x),
          [kind |-> "extend", type |-> t, rotate |-> 0])
     : t \in {"SXTB", "SXTB16", "SXTH"}, x \in Words4}

TaskFamilies == <<CompareTasks, LongTasks, CombineTasks, ProductTasks, ReloadTasks, StackTasks, CallTasks, OrderTasks,
         RoundTasks, CalculateTasks, TransferTasksWithFields, SimdTasks, SignxTasks>>

-----------------------------------------------------------------------------
(***************************************************************************)
(* Constants beside those of one byte, of two bytes and of their negations *)
(* for bytes of six bits.                                                  *)
(***************************************************************************)
Constants ==
    {Word(c * 2 ^ s + d) : c \in {1, 63}, s \in {0, 1, 6, 7, 13, 17, 18, 23}, d \in {-1, 0, 1, 2 ^ 11}}
    \cup {-1, -2 ^ 20, -12345, -64, -65, -4097, Lowest, Lowest + 1, Lowest + 2 ^ 10, Highest, 1 - 2 ^ 22, 2 ^ 22 + 5}

Req(call, type, cc, status, dest, op1, op2, k) ==
    [call |-> call, type |-> type, cc |-> cc, status |-> status, dest |-> dest, op1 |-> op1, op2 |-> op2, int |-> k]
SmallConstants == {k \in Constants : k \in -100 .. 100}

Encodable(n) == \E k \in 0 .. W \div 2 - 1, b \in 0 .. 2 ^ ByteBits - 1 : DecodeImm(b + k * 2 ^ ByteBits) = n
Invertible == {k \in Constants : Encodable(k) \/ Encodable(-k - 1)}

AllRequests ==
    {Req(p[1], p[2], cc, status, dest, 0, 1, k)
     : p \in {<<"addsub", "ADD">>, <<"addsub", "SUB">>, <<"rsub", "RSB">>, <<"data", "AND">>, <<"data", "EOR">>},
       cc \in {0, 14}, status \in BOOLEAN, dest \in {0, 2}, k \in Constants}
    \cup {Req("movmvn", "MOV", cc, FALSE, dest, 0, 1, k) : cc \in {0, 14}, dest \in {0, 2}, k \in Constants}
    \cup {Req("data", type, 14, FALSE, 2, 0, 1, k) : type \in {"BIC", "ORR", "RSB", "ADD"}, k \in Constants}
    \cup {Req("movmvn", "MVN", 14, FALSE, 2, 0, 1, k) : k \in Invertible}
    \cup {Req("cmp", "CMP", 14, TRUE, 0, 0, 1, k) : k \in Constants}
    \cup {Req("mul", "MUL", 14, FALSE, dest, p[1], p[2], 0) : dest \in 0 .. 2, p \in {<<1, 2>>, <<2, 1>>}}
    \cup {Req("mul_imm", "MUL", 14, FALSE, 2, 0, 1, k) : k \in SmallConstants}
    \cup {Req("stran", t, 14, FALSE, 2, 0, 1, k) : t \in {"LDR", "STR"}, k \in {-255, -256, 255, 256, -4, 0, 3000, -3000}}
    \cup {Req("frame", "SUB", 14, FALSE, 13, 13, 13, k) : k \in {k \in Constants : k >= 0}}

=============================================================================
