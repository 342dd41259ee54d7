------------------------------ MODULE Folding ------------------------------
(***************************************************************************)
(* The operators of BASIC on integers, reals and bytes, as the compiler     *)
(* treats them: frontend/type_if.c picks a function by the type of an      *)
(* operand; int32_type.c, float64_type.c and byte_type_if.c fold what is   *)
(* constant and emit instructions for the rest.                            *)
(*                                                                         *)
(* An expression is [t, v].  v is the number of a constant, or what the    *)
(* register of a variable holds when the program runs; the register of a   *)
(* byte may hold anything above the bits of the byte.  left and right are  *)
(* one BASIC expression, written with constants in different places.       *)
(***************************************************************************)
EXTENDS Arith, Sequences, FiniteSets

CONSTANTS
    MaxReal,    \* bound: reals are smaller than this, in 1/Scale, and the
                \* bound is in the range of an integer
    Quirks      \* the disagreements of the source, see Differs, to include

ASSUME FoldingAssumption == MaxReal \in 1 .. (2 ^ (W - 1)) * Scale

VARIABLES left, right

vars == <<left, right>>

CInt(n) == [t |-> "cint", v |-> n]
IVar(n) == [t |-> "int", v |-> n]
CReal(r) == [t |-> "creal", v |-> r]
RVar(r) == [t |-> "real", v |-> r]
Byte(n) == [t |-> "byte", v |-> n]
Failed == [t |-> "error", v |-> 0]

IsConst(e) == e.t \in {"cint", "creal"}
IsReal(e) == e.t \in {"creal", "real"}

Orders == {"gt", "lte", "lt", "gte"}
BinaryOps == {"add", "sub", "mul", "and", "or", "eor", "eq", "neq", "div", "mod",
              "divr", "pow", "lsl", "lsr", "asr"} \cup Orders

-----------------------------------------------------------------------------
(* Conversions *)

\* exp_to_var: a constant is loaded into a register.
ToVar(e) == CASE e.t = "cint" -> IVar(e.v) [] e.t = "creal" -> RVar(e.v) [] OTHER -> e

\* subtilis_type_if_to_int
ToInt32(e) ==
    CASE e.t = "creal" -> CInt(ToInt(e.v))
      [] e.t = "real" -> IVar(ToInt(e.v))
      [] e.t = "byte" -> IVar(SignExtend(e.v))
      [] OTHER -> e

\* subtilis_type_if_to_float64
ToFloat64(e) ==
    CASE e.t = "cint" -> CReal(ToReal(e.v))
      [] e.t = "int" -> RVar(ToReal(e.v))
      [] e.t = "byte" -> RVar(ToReal(SignExtend(e.v)))
      [] OTHER -> e

\* prv_coerce_type of variables and of constants, to the type of a variable.
IntCoerce(e, t) ==
    CASE t = "real" -> ToFloat64(ToVar(e))
      [] t = "byte" -> Byte(e.v)
      [] t = "int" -> ToVar(e)
RealCoerce(e, t) ==
    LET var == ToVar(e)
    IN  CASE t = "real" -> var
          [] t = "int" -> ToInt32(var)
          [] t = "byte" -> Byte(ToInt32(var).v)
ByteCoerce(e, t) ==
    CASE t = "real" -> ToFloat64(e) [] t = "byte" -> e [] t = "int" -> ToInt32(e)

Coerce(e, t) ==
    CASE e.t \in {"cint", "int"} -> IntCoerce(e, t)
      [] IsReal(e) -> RealCoerce(e, t)
      [] e.t = "byte" -> ByteCoerce(e, t)

(***************************************************************************)
(* prv_coerce_type_const to the type of a constant: the elements of a list *)
(* that initialises an array.  A real that becomes an integer is read from *)
(* the wrong member of a union, and its low word is what is stored; for    *)
(* the numbers here that is 0.                                             *)
(***************************************************************************)
CoerceConst(e, t) ==
    CASE t = "real" -> RVar(ToFloat64(e).v)
      [] t = "int" -> IF e.t = "creal" THEN IVar(0) ELSE IVar(e.v)
      [] t = "byte" -> IF e.t = "creal" THEN Failed ELSE Byte(e.v)

-----------------------------------------------------------------------------
(* int32_type.c, both operands constant *)

\* prv_add_const, prv_mul_const
IntFoldSum(op, a, b) ==
    IF b.t = "cint" THEN CInt(WordSum(op, a.v, b.v))
                    ELSE CReal(RealSum(op, ToReal(a.v), b.v))

\* prv_sub_const
IntFoldSub(a, b) ==
    IF b.t = "cint" THEN CInt(WordSum("sub", a.v, b.v))
                    ELSE CReal(RealSum("sub", ToReal(a.v), b.v))

\* prv_and_const, prv_or_const, prv_eor_const
IntFoldBits(op, a, b) == CInt(WordBits(op, a.v, ToInt32(b).v))

\* prv_eq_const, prv_neq_const
IntFoldEq(op, a, b) ==
    CInt(IF b.t = "cint" THEN Compare(op, a.v, b.v) ELSE Compare(op, ToReal(a.v), b.v))

(***************************************************************************)
(* prv_gt_const, prv_lte_const, prv_lt_const, prv_gte_const.  Against a    *)
(* real the operands are read from the wrong members of their unions: the  *)
(* bits of an integer are next to 0.0 as a double, and the integer that is *)
(* read of the doubles here is 0.                                          *)
(***************************************************************************)
IntFoldOrder(op, a, b) ==
    CInt(IF b.t = "cint" THEN Compare(op, a.v, b.v)
         ELSE Compare(op, IF a.v = 0 THEN 0 ELSE 1, 0))

\* prv_div_const, prv_mod_const with prv_div_mod_const_var and prv_div_mod_vars
IntFoldDiv(op, a, b) ==
    IF ~Divides(a.v, b.v) THEN Failed
    ELSE [t |-> b.t, v |-> WordDiv(op, a.v, b.v)]

(***************************************************************************)
(* prv_pow_const.  To the power of 0.0 it writes a real 1 into what stays  *)
(* an integer, whose low word is 0.                                        *)
(***************************************************************************)
IntFoldPow(a, b) ==
    LET Times[n \in 0 .. Magnitude(b.v)] == IF n = 0 THEN 1 ELSE Wrap(Times[n - 1] * a.v)
    IN  CASE b.t = "cint" /\ b.v >= 0 -> CInt(Times[b.v])
          [] b.t = "cint" /\ b.v < 0 -> CReal(Power(ToReal(a.v), ToReal(b.v)))
          [] b.t = "creal" /\ b.v = 0 -> CInt(0)
          [] b.t = "creal" /\ b.v = Scale -> a
          [] OTHER -> CReal(Power(ToReal(a.v), b.v))

\* prv_lsl_const, prv_lsr_const, prv_asr_const: the count need not be constant.
IntFoldShift(op, a, b) ==
    IF b.t = "cint" THEN CInt(WordShift(op, a.v, b.v))
                    ELSE IVar(WordShift(op, a.v, ToInt32(b).v))

\* prv_unary_minus_const, prv_not_const, prv_abs_const, prv_sgn_const
Sign(n) == IF n < 0 THEN -1 ELSE IF n > 0 THEN 1 ELSE 0
IntFoldUnary(op, e) ==
    CInt(CASE op = "minus" -> Wrap(-e.v) [] op = "not" -> WordNot(e.v)
           [] op = "abs" -> Wrap(Magnitude(e.v)) [] op = "sgn" -> Sign(e.v))

-----------------------------------------------------------------------------
(* int32_type.c, the first operand in a register *)

(***************************************************************************)
(* prv_commutative, prv_commutative_real and the instructions prv_add,     *)
(* prv_mul and prv_sub give it: a constant operand is an immediate.        *)
(***************************************************************************)
IntCommutative(op, a, b) ==
    IF IsReal(b) THEN RVar(RealSum(op, ToReal(a.v), b.v))
                 ELSE IVar(WordSum(op, a.v, ToInt32(b).v))

\* prv_and, prv_or, prv_eor, prv_not
IntBits(op, a, b) == IVar(WordBits(op, a.v, ToInt32(b).v))

\* prv_commutative_logical: prv_eq, prv_neq
IntEq(op, a, b) ==
    IVar(IF IsReal(b) THEN Compare(op, ToReal(a.v), b.v) ELSE Compare(op, a.v, ToInt32(b).v))

\* prv_sub: the reverse instruction if the operands were swapped.
IntSub(a, b, swapped) == IntCommutative(IF swapped THEN "rsub" ELSE "sub", a, b)

\* The power of two that the loop of prv_optimise_div stops at, or -1.
Log2(n) ==
    IF \E s \in 0 .. W - 1 : 2 ^ s = n THEN CHOOSE s \in 0 .. W - 1 : 2 ^ s = n ELSE -1

(***************************************************************************)
(* What is added to a dividend before it is shifted: the divisor less one  *)
(* if the dividend is negative.  The shift is by the width less s.         *)
(***************************************************************************)
Rounding(a, s) == WordShift("lsr", WordShift("asr", a, W - 1), W - s)

\* Mutant: a negative dividend is not rounded.
OptimiseDivFloors(a, b) ==
    LET d == WordShift("asr", a, Log2(Magnitude(b)))
    IN  IF b < 0 THEN Wrap(-d) ELSE d

\* prv_optimise_div
OptimiseDiv(a, b) ==
    LET s == Log2(Magnitude(b))
        d == WordShift("asr", WordSum("add", a, Rounding(a, s)), s)
    IN  IF b < 0 THEN Wrap(-d) ELSE d

\* prv_optimise_mod
OptimiseMod(a, b) ==
    LET r == Rounding(a, Log2(Magnitude(b)))
    IN  WordSum("sub", WordBits("and", WordSum("add", a, r), Magnitude(b) - 1), r)

\* prv_div_by_constant, prv_div
IntDiv(a, b) ==
    CASE b.t = "cint" /\ b.v # 0 /\ Log2(Magnitude(b.v)) >= 0 -> IVar(OptimiseDiv(a.v, b.v))
      [] ~Divides(a.v, b.v) -> Failed
      [] OTHER -> IVar(WordDiv("div", a.v, b.v))

\* prv_mod_by_constant, prv_mod
IntMod(a, b) ==
    CASE b.t = "cint" /\ b.v # 0 /\ Log2(Magnitude(b.v)) >= 0 -> IVar(OptimiseMod(a.v, b.v))
      [] ~Divides(a.v, b.v) -> Failed
      [] OTHER -> IVar(WordDiv("mod", a.v, b.v))

Mirror == [gt |-> "lt", lt |-> "gt", lte |-> "gte", gte |-> "lte"]

(***************************************************************************)
(* prv_gt, prv_lte, prv_lt, prv_gte.  Only an instruction with an          *)
(* immediate needs to be mirrored.  With a real the result has the type    *)
(* real until prv_call_binary_nc_logical_fn corrects it.                   *)
(***************************************************************************)
IntOrder(op, a, b, swapped) ==
    LET o == IF swapped THEN Mirror[op] ELSE op
    IN  IF IsReal(b) THEN RVar(Compare(o, ToReal(a.v), b.v))
                     ELSE IVar(Compare(o, a.v, ToInt32(b).v))

\* prv_pow: x ^ 0 and x ^ 1 need no instruction; a byte has no case.
IntPow(a, b, swapped) ==
    LET one == IF b.t = "creal" THEN Scale ELSE 1
        x == ToFloat64(a).v
        y == ToFloat64(ToVar(b)).v
    IN  CASE ~swapped /\ IsConst(b) /\ b.v = 0 -> CInt(1)
          [] ~swapped /\ IsConst(b) /\ b.v = one -> a
          [] b.t = "byte" -> Failed
          [] OTHER -> RVar(IF swapped THEN Power(y, x) ELSE Power(x, y))

\* prv_shift: a byte in a register is taken as it is.
IntShift(op, a, b) == IVar(WordShift(op, a.v, b.v))

\* prv_abs, prv_sgn, prv_unary_minus
IntAbs(n) ==
    LET s == WordShift("asr", n, W - 1) IN WordBits("eor", WordSum("add", n, s), s)
IntSgn(n) == IF Compare("lt", n, 0) # 0 THEN -1 ELSE IntAbs(Compare("gt", n, 0))
IntUnary(op, e) ==
    IVar(CASE op = "minus" -> WordSum("rsub", e.v, 0) [] op = "not" -> WordNot(e.v)
          [] op = "abs" -> IntAbs(e.v) [] op = "sgn" -> IntSgn(e.v))

-----------------------------------------------------------------------------
(* float64_type.c *)

\* prv_add_const, prv_mul_const, and prv_sub_const with them
RealFoldSum(op, a, b) == CReal(RealSum(op, a.v, ToFloat64(b).v))

\* prv_args_to_int, prv_and_const, prv_or_const, prv_eor_const
RealFoldBits(op, a, b) == IntFoldBits(op, ToInt32(a), b)

\* prv_eq_const, prv_neq_const
RealFoldEq(op, a, b) == CInt(Compare(op, a.v, ToFloat64(b).v))

\* prv_gt_const, prv_lte_const, prv_lt_const, prv_gte_const
RealFoldOrder(op, a, b) == CInt(Compare(op, a.v, ToFloat64(b).v))

\* prv_divr_const
RealFoldDivr(a, b) == IF b.v = 0 THEN Failed ELSE CReal(RealDiv(a.v, b.v))

\* prv_pow_const
RealFoldPow(a, b) ==
    LET y == ToFloat64(b).v
    IN  CASE y = 0 -> CInt(1) [] y = Scale -> a [] OTHER -> CReal(Power(a.v, y))

\* prv_unary_minus_const, prv_not_const, prv_abs_const, prv_sgn_const
RealFoldUnary(op, e) ==
    CASE op = "minus" -> CReal(-e.v) [] op = "abs" -> CReal(Magnitude(e.v))
      [] op = "not" -> CInt(WordNot(ToInt(e.v))) [] op = "sgn" -> CInt(Sign(e.v))

\* prv_commutative of reals
RealCommutative(op, a, b) == RVar(RealSum(op, a.v, ToFloat64(b).v))

\* prv_commutative_logical: prv_eq, prv_neq
RealEq(op, a, b) == IVar(Compare(op, a.v, ToFloat64(b).v))

\* prv_sub
RealSub(a, b, swapped) == RealCommutative(IF swapped THEN "rsub" ELSE "sub", a, b)

\* prv_divr: a constant divisor is not 0; the others are checked as they run.
RealDivr(a, b, swapped) ==
    LET n == IF swapped THEN b.v ELSE a.v
        d == IF swapped THEN a.v ELSE b.v
    IN  IF d = 0 THEN Failed ELSE RVar(RealDiv(n, d))

\* prv_gt, prv_lte, prv_lt, prv_gte: two of the mirrored instructions are wrong.
RealMirror == [gt |-> "lte", lt |-> "gte", lte |-> "gte", gte |-> "lte"]
RealOrder(op, a, b, swapped) ==
    RVar(Compare(IF swapped THEN RealMirror[op] ELSE op, a.v, ToFloat64(b).v))

\* prv_pow
RealPow(a, b, swapped) ==
    LET y == ToFloat64(b).v
    IN  CASE ~swapped /\ IsConst(b) /\ y = 0 -> CInt(1)
          [] ~swapped /\ IsConst(b) /\ y = Scale -> a
          [] OTHER -> RVar(IF swapped THEN Power(y, a.v) ELSE Power(a.v, y))

\* prv_abs, prv_sgn, prv_unary_minus, prv_not
RealUnary(op, e) ==
    CASE op = "minus" -> RVar(RealSum("rsub", e.v, 0))
      [] op = "abs" -> RVar(Magnitude(e.v))
      [] op = "not" -> IntUnary("not", ToInt32(e))
      [] op = "sgn" -> IVar(IF Compare("lt", e.v, 0) # 0 THEN -1
                           ELSE IntAbs(Compare("gt", e.v, 0)))

-----------------------------------------------------------------------------
(* byte_type_if.c.  Two bytes are combined as they are in their registers; *)
(* a byte and anything else become integers first.                         *)

\* prv_commutative, prv_commutative_nc
ByteCommutative(op, a, b) ==
    Byte(IF op \in {"and", "or", "eor"} THEN WordBits(op, a.v, b.v) ELSE WordSum(op, a.v, b.v))

\* prv_compare
ByteEq(op, a, b) == IVar(Compare(op, ZeroExtend(a.v), ZeroExtend(b.v)))

\* prv_lsl, prv_lsr, prv_asr: only the last extends the sign.
ByteShift(op, a, b) ==
    Byte(WordShift(op, IF op = "asr" THEN SignExtend(a.v) ELSE a.v, b.v))

\* prv_unary_minus, prv_not, prv_abs, prv_sgn
ByteUnary(op, e) ==
    CASE op = "minus" -> Byte(WordSum("rsub", e.v, 0))
      [] op = "not" -> Byte(WordNot(e.v))
      [] op = "abs" -> Byte(IntAbs(SignExtend(e.v)))
      [] op = "sgn" -> IVar(IntSgn(SignExtend(e.v)))

-----------------------------------------------------------------------------
(* type_if.c *)

\* prv_type_map[...]->add ... : the function of the type of the first operand.
IntFold(op, a, b) ==
    CASE op \in {"add", "mul"} -> IntFoldSum(op, a, b)
      [] op = "sub" -> IntFoldSub(a, b)
      [] op \in {"and", "or", "eor"} -> IntFoldBits(op, a, b)
      [] op \in {"eq", "neq"} -> IntFoldEq(op, a, b)
      [] op \in Orders -> IntFoldOrder(op, a, b)
      [] op = "pow" -> IntFoldPow(a, b)

IntVar(op, a, b, swapped) ==
    CASE op \in {"add", "mul"} -> IntCommutative(op, a, b)
      [] op = "sub" -> IntSub(a, b, swapped)
      [] op \in {"and", "or", "eor"} -> IntBits(op, a, b)
      [] op \in {"eq", "neq"} -> IntEq(op, a, b)
      [] op \in Orders -> IntOrder(op, a, b, swapped)
      [] op = "pow" -> IntPow(a, b, swapped)

RealFold(op, a, b) ==
    CASE op \in {"add", "mul", "sub"} -> RealFoldSum(op, a, b)
      [] op \in {"and", "or", "eor"} -> RealFoldBits(op, a, b)
      [] op \in {"eq", "neq"} -> RealFoldEq(op, a, b)
      [] op \in Orders -> RealFoldOrder(op, a, b)
      [] op = "pow" -> RealFoldPow(a, b)

RealVar(op, a, b, swapped) ==
    CASE op \in {"add", "mul"} -> RealCommutative(op, a, b)
      [] op = "sub" -> RealSub(a, b, swapped)
      [] op \in {"and", "or", "eor"} -> IntBits(op, ToInt32(a), b)
      [] op \in {"eq", "neq"} -> RealEq(op, a, b)
      [] op \in Orders -> RealOrder(op, a, b, swapped)
      [] op = "pow" -> RealPow(a, b, swapped)

ByteVar(op, a, b, swapped) ==
    CASE b.t = "byte" /\ op \in {"add", "sub", "mul", "and", "or", "eor"} -> ByteCommutative(op, a, b)
      [] b.t = "byte" /\ op \in {"eq", "neq"} -> ByteEq(op, a, b)
      [] OTHER -> IntVar(op, ToInt32(a), b, swapped)

\* prv_call_binary_nc_logical_fn
Logical(op, e) == IF op \in Orders /\ e.t = "real" THEN IVar(e.v) ELSE e

(***************************************************************************)
(* subtilis_type_if_add ... subtilis_type_if_pow: a constant that comes    *)
(* first is swapped with a variable that comes second.                     *)
(***************************************************************************)
Ordered(op, x, y) ==
    LET swapped == IsConst(x) /\ ~IsConst(y)
        a == IF swapped THEN y ELSE x
        b == IF swapped THEN x ELSE y
    IN  Logical(op, CASE a.t = "cint" -> IntFold(op, a, b)
                      [] a.t = "int" -> IntVar(op, a, b, swapped)
                      [] a.t = "creal" -> RealFold(op, a, b)
                      [] a.t = "real" -> RealVar(op, a, b, swapped)
                      [] a.t = "byte" -> ByteVar(op, a, b, swapped))

\* subtilis_type_if_div, subtilis_type_if_mod
Division(op, x, y) ==
    LET a == ToInt32(x)
        b == ToInt32(y)
    IN  CASE a.t = "cint" -> IntFoldDiv(op, a, b)
          [] op = "div" -> IntDiv(a, b)
          [] OTHER -> IntMod(a, b)

\* subtilis_type_if_divr
RealDivision(x, y) ==
    LET a == ToFloat64(x)
        b == ToFloat64(y)
        swapped == IsConst(a) /\ ~IsConst(b)
    IN  CASE IsConst(a) /\ IsConst(b) -> RealFoldDivr(a, b)
          [] swapped -> RealDivr(b, a, swapped)
          [] OTHER -> RealDivr(a, b, swapped)

\* subtilis_type_if_lsl, subtilis_type_if_lsr, subtilis_type_if_asr
Shift(op, x, y) ==
    LET a == IF IsReal(x) THEN ToInt32(x) ELSE x
        b == IF IsReal(y) THEN ToInt32(y) ELSE y
    IN  CASE a.t = "cint" -> IntFoldShift(op, a, b)
          [] a.t = "int" -> IntShift(op, a, b)
          [] a.t = "byte" -> ByteShift(op, a, b)

Apply(op, x, y) ==
    CASE op \in {"div", "mod"} -> Division(op, x, y)
      [] op = "divr" -> RealDivision(x, y)
      [] op \in {"lsl", "lsr", "asr"} -> Shift(op, x, y)
      [] OTHER -> Ordered(op, x, y)

\* subtilis_type_if_unary_minus, _not, _abs, _sgn
ApplyUnary(op, e) ==
    CASE e.t = "cint" -> IntFoldUnary(op, e) [] e.t = "int" -> IntUnary(op, e)
      [] e.t = "creal" -> RealFoldUnary(op, e) [] e.t = "real" -> RealUnary(op, e)
      [] e.t = "byte" -> ByteUnary(op, e)

-----------------------------------------------------------------------------
(* What an expression means *)

Kind(e) ==
    CASE e.t \in {"cint", "int"} -> "integer" [] IsReal(e) -> "real" [] OTHER -> e.t

Number(e) ==
    CASE e.t \in {"cint", "int"} -> ToReal(e.v)
      [] e.t = "byte" -> ToReal(SignExtend(e.v))
      [] OTHER -> e.v

Reals == -(MaxReal - 1) .. MaxReal - 1
Exprs ==
    {CInt(n) : n \in Ints} \cup {IVar(n) : n \in Ints} \cup {Byte(n) : n \in Ints}
      \cup {CReal(r) : r \in Reals} \cup {RVar(r) : r \in Reals}

Alike(e, f) == Kind(e) = Kind(f) /\ Number(e) = Number(f)

\* One operand, written in two ways.  To agree is transitive: where only one of them
\* is a constant, it is the first.
Pairs == {p \in Exprs \X Exprs : Alike(p[1], p[2]) /\ (IsConst(p[2]) => IsConst(p[1]))}

(***************************************************************************)
(* The disagreements of the source that are modelled above, by name: for   *)
(* an operator and operands, the ones it meets.                            *)
(***************************************************************************)
Differs(op, a, b) ==
    {q \in {"divide by one", "swapped order", "mixed order", "power", "byte power", "byte shift"} :
       CASE q = "divide by one" -> /\ op \in {"div", "mod"} /\ ~IsConst(a)
                                   /\ IsConst(b) /\ Magnitude(ToInt32(b).v) = 1
         [] q = "swapped order" -> op \in {"gt", "lt"} /\ IsConst(a) /\ b.t = "real"
         [] q = "mixed order" -> op \in Orders /\ a.t = "cint" /\ b.t = "creal"
         [] q = "power" -> /\ op = "pow" /\ IsConst(b)
                           /\ \/ Number(b) = 0
                              \/ ~IsReal(a) /\ Number(b) = Scale
                              \/ a.t = "cint" /\ b.t = "cint"
         [] q = "byte power" -> op = "pow" /\ a.t \in {"int", "byte"} /\ b.t = "byte"
         [] q = "byte shift" -> op = "lsr" /\ a.t = "byte"}

InBounds(e) == IsReal(e) => e.v \in Reals

-----------------------------------------------------------------------------
(* The specification *)

Init ==
    \E p \in Pairs : left = p[1] /\ right = p[2]

Compiles == left.t # "error" /\ right.t # "error"

Become(l, r) ==
    /\ InBounds(l) /\ InBounds(r)
    /\ left' = l
    /\ right' = r

\* An operator with another pair of operands, on either side of it.
Binary(op, x, y) ==
    /\ Compiles
    /\ \/ /\ Differs(op, left, x) \cup Differs(op, right, y) \subseteq Quirks
          /\ Become(Apply(op, left, x), Apply(op, right, y))
       \/ /\ Differs(op, x, left) \cup Differs(op, y, right) \subseteq Quirks
          /\ Become(Apply(op, x, left), Apply(op, y, right))

Unary(op) ==
    /\ Compiles
    /\ Become(ApplyUnary(op, left), ApplyUnary(op, right))

\* The expression is assigned to a variable, which is then used.
Assign(t) ==
    /\ Compiles
    /\ Become(Coerce(left, t), Coerce(right, t))

\* The expression is an element of a list of constants, and an assignment.
Initialise(t) ==
    /\ Compiles
    /\ IsConst(left)
    /\ t # "real" /\ IsReal(left) => "initialiser" \in Quirks
    /\ Become(CoerceConst(left, t), Coerce(right, t))

Next ==
    \/ \E op \in BinaryOps, p \in Pairs : Binary(op, p[1], p[2])
    \/ \E op \in {"minus", "not", "abs", "sgn"} : Unary(op)
    \/ \E t \in {"int", "real", "byte"} : Assign(t) \/ Initialise(t)

Spec == Init /\ [][Next]_vars

-----------------------------------------------------------------------------
(* Properties *)

TypeOK ==
    /\ left \in Exprs \cup {Failed}
    /\ right \in Exprs \cup {Failed}

(***************************************************************************)
(* However a program writes an expression, with constants or with          *)
(* variables that hold them, it has one type and one value, and it is an   *)
(* error for both or for neither: folding, strength reduction, the         *)
(* swapping of operands and the lazy extension of bytes are invisible.     *)
(***************************************************************************)
Agree == Alike(left, right)
=============================================================================
