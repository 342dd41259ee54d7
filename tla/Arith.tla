------------------------------- MODULE Arith -------------------------------
(***************************************************************************)
(* The arithmetic of the IR interpreter (frontend/vm.c) on one machine     *)
(* word, on doubles and on bytes, at a width small enough to enumerate.    *)
(* A double is a fixed-point number: an integer that counts 1/Scale.       *)
(* Instructions with an immediate operand compute what the ones with two   *)
(* registers do, apart from the checks noted below.                        *)
(***************************************************************************)
EXTENDS Integers, Bitwise

CONSTANTS
    W,          \* bits of a register; a power of two, as 32 is
    ByteBits,   \* bits of a byte
    Scale       \* what 1.0 is in fixed point

ASSUME ArithAssumption ==
    /\ W \in {2, 4, 8, 16}
    /\ ByteBits \in 1 .. W
    /\ Scale \in Nat \ {0}

MinInt == -(2 ^ (W - 1))
Ints == MinInt .. -MinInt - 1

\* What a register keeps of n, read with a sign and without.
Wrap(n) == ((n - MinInt) % 2 ^ W) + MinInt
Word(n) == n % 2 ^ W

Truth(p) == IF p THEN -1 ELSE 0

Magnitude(n) == IF n < 0 THEN -n ELSE n

\* The division of C truncates.
Quotient(a, b) ==
    LET q == Magnitude(a) \div Magnitude(b)
    IN  IF (a < 0) = (b < 0) THEN q ELSE -q

\* prv_addi32 ... prv_mulr; rsub is an instruction with an immediate only.
WordSum(op, a, b) ==
    Wrap(CASE op = "add" -> a + b [] op = "sub" -> a - b
           [] op = "rsub" -> b - a [] op = "mul" -> a * b)

RealSum(op, a, b) ==
    CASE op = "add" -> a + b [] op = "sub" -> a - b
      [] op = "rsub" -> b - a [] op = "mul" -> Quotient(a * b, Scale)

(***************************************************************************)
(* prv_divi32, prv_modi32: a divisor of 0 raises an error the program can  *)
(* trap.  The least integer divided by -1 stops the interpreter as it      *)
(* stops the compiler that folds it.                                       *)
(***************************************************************************)
Divides(a, b) == b # 0 /\ ~(a = MinInt /\ b = -1)
WordDiv(op, a, b) ==
    CASE op = "div" -> Quotient(a, b) [] op = "mod" -> a - b * Quotient(a, b)

RealDiv(a, b) == Quotient(a * Scale, b)

\* prv_andi32 ... prv_noti32
WordBits(op, a, b) ==
    Wrap(CASE op = "and" -> Word(a) & Word(b) [] op = "or" -> Word(a) | Word(b)
           [] op = "eor" -> Word(a) ^^ Word(b))
WordNot(a) == -a - 1

\* prv_eqi32 ... prv_gteir: on words and, in the same units, on doubles.
Compare(op, a, b) ==
    Truth(CASE op = "eq" -> a = b [] op = "neq" -> a # b [] op = "gt" -> a > b
            [] op = "lte" -> a <= b [] op = "lt" -> a < b [] op = "gte" -> a >= b)

(***************************************************************************)
(* prv_lsli32 ... prv_asrii32: the count is masked to twice the width; of  *)
(* a count that is still too large C promises nothing, and the build takes *)
(* it modulo the width.                                                    *)
(***************************************************************************)
ShiftCount(c) == (c % (2 * W)) % W
WordShift(op, a, c) ==
    LET s == ShiftCount(c)
    IN  CASE op = "lsl" -> Wrap(a * 2 ^ s)
          [] op = "lsr" -> Wrap(Word(a) \div 2 ^ s)
          [] op = "asr" -> a \div 2 ^ s

\* prv_movi32fp, prv_movfpi32
ToReal(n) == n * Scale
ToInt(r) == Quotient(r, Scale)

\* prv_signx8to32, and the mask of 255 of the compiler.
ZeroExtend(n) == n % 2 ^ ByteBits
SignExtend(n) ==
    LET z == ZeroExtend(n)
    IN  IF z < 2 ^ (ByteBits - 1) THEN z ELSE z - 2 ^ ByteBits

(***************************************************************************)
(* POWR.  Whole powers are repeated products; of the others only that they *)
(* depend on nothing but the operands.                                     *)
(***************************************************************************)
Power(x, y) ==
    LET Times[n \in 0 .. Magnitude(y)] == IF n = 0 THEN Scale ELSE RealSum("mul", Times[n - 1], x)
    IN  IF y >= 0 /\ y % Scale = 0 THEN Times[y \div Scale] ELSE (x + y) % Scale
=============================================================================
