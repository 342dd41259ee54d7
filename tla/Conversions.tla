---------------------------- MODULE Conversions ----------------------------
(***************************************************************************)
(* Numbers to text and back: STR$, STR$~, PRINT and VAL.  The compiler     *)
(* adds the routines that do it to the program as IR                       *)
(* (frontend/builtins_ir.c); VAL of a literal is evaluated by the compiler *)
(* with the C library instead (frontend/parser_string.c).  A job writes a  *)
(* number and reads the text back, or reads a text of its own.  One action *)
(* is one pass through a loop of a routine.                                *)
(*                                                                         *)
(* A character is its code.  A real is a whole number of units, 10^Scale   *)
(* of them to one: rounding in binary is not modelled.                     *)
(***************************************************************************)
EXTENDS Integers, Sequences, FiniteSets

CONSTANTS
    Width,      \* the bits of an integer, a multiple of 4
    Ints,       \* the integers that are written
    Reals,      \* the reals that are written, in units
    ToRead,     \* what is read: [text, base], the arguments of VAL
    Places,     \* the digits after the point that are written at most
    Scale       \* the digits after the point that a real has

Half == 2 ^ (Width - 1)
Word == -Half .. Half - 1
One == 10 ^ Scale

ConversionsAssumption ==
    /\ Width \in Nat \ {0} /\ Width % 4 = 0
    /\ Places \in Nat \ {0} /\ Scale \in Nat /\ Scale >= Places
    /\ Ints \subseteq Word
    /\ Reals \subseteq Int
    /\ \A x \in Reals : x < Half * One /\ x > -(Half + 1) * One
    /\ \A q \in ToRead : q.text \in Seq(0 .. 127) /\ q.base \in Word

VARIABLES
    job,    \* [kind, n, text, base]
    pc,     \* the loop that is running
    buf,    \* the text that has been written, or is read
    r,      \* the registers of the routine
    out     \* what VAL returned, or the error it raised

vars == <<job, pc, buf, r, out>>

Zero == 48
Nine == 57
Plus == 43
Minus == 45
Point == 46
UpperA == 65
LowerA == 97
LowerF == 102

Wrap(n) == ((n + Half) % (2 * Half)) - Half
Magnitude(n) == IF n < 0 THEN -n ELSE n
Quotient(n, d) == IF n < 0 THEN -((-n) \div d) ELSE n \div d
Remainder(n, d) == n - d * Quotient(n, d)

None == [kind |-> "none"]
Value(v) == [kind |-> "value", v |-> v]
Failed(e) == [kind |-> "error", e |-> e]

\* ORI with 32 makes a letter small.
Lowered(c) == IF (c \div 32) % 2 = 0 THEN c + 32 ELSE c

-----------------------------------------------------------------------------
(* The jobs *)

IsReal == job.kind \in {"str_real", "val_real"}

\* bound: the digits after the point are places of a real.
RealTexts == {t \in {q.text : q \in ToRead} : Len(t) <= Scale + 1}

Jobs ==
    [kind : {"str"}, n : Ints, text : {<<>>}, base : {10}]
    \cup [kind : {"hex"}, n : Ints, text : {<<>>}, base : {16}]
    \cup [kind : {"str_real"}, n : Reals, text : {<<>>}, base : {10}]
    \cup {[kind |-> "val", n |-> 0, text |-> q.text, base |-> q.base] : q \in ToRead}
    \cup [kind : {"val_real"}, n : {0}, text : RealTexts, base : {10}]

Registers0(j) ==
    [val |-> IF j.kind = "str_real" THEN Quotient(j.n, One) ELSE j.n,
     left |-> 0, right |-> 0, ptr |-> 1, first |-> 1, factor |-> 1,
     sign |-> 1, sum |-> 0, frac |-> 0, count |-> 0, shift |-> Width]

First(j) ==
    CASE j.kind \in {"str", "str_real"} -> "decimal"
      [] j.kind = "hex" -> IF j.n = 0 THEN "hex_zero" ELSE "hex"
      [] OTHER -> "read"

Init ==
    /\ job \in Jobs
    /\ pc = First(job)
    /\ buf = job.text
    /\ r = Registers0(job)
    /\ out = None

-----------------------------------------------------------------------------
(* Integers to text *)

\* prv_builtins_ir_dec_to_str: the sign.
WriteSign ==
    /\ pc = "decimal"
    /\ buf' = IF r.val < 0 THEN <<Minus>> ELSE <<>>
    /\ r' = [r EXCEPT !.left = Len(buf') + 1]
    /\ pc' = "digits"
    /\ UNCHANGED <<job, out>>

\* The digits, the last one first; ABS is taken of the digit, not of the number.
Digit(n) == Zero + Magnitude(Remainder(n, 10))

WriteDigit ==
    /\ pc = "digits"
    /\ buf' = Append(buf, Digit(r.val))
    /\ r' = [r EXCEPT !.val = Quotient(@, 10), !.right = Len(buf')]
    /\ pc' = IF r'.val = 0 THEN "reverse" ELSE "digits"
    /\ UNCHANGED <<job, out>>

\* Mutant: the last pair is left alone.
SwapMoreFar(left, right) == left + 1 < right

\* The digits are swapped end for end.
SwapMore(left, right) == left < right

Reverse ==
    /\ pc = "reverse"
    /\ UNCHANGED <<job, out>>
    /\ \/ /\ SwapMore(r.left, r.right)
          /\ buf' = [buf EXCEPT ![r.left] = buf[r.right], ![r.right] = buf[r.left]]
          /\ r' = [r EXCEPT !.left = @ + 1, !.right = @ - 1]
          /\ UNCHANGED pc
       \/ /\ ~SwapMore(r.left, r.right)
          /\ pc' = IF IsReal THEN "point" ELSE "read"
          /\ UNCHANGED <<buf, r>>

\* prv_builtins_ir_hex_to_str
WriteHexZero ==
    /\ pc = "hex_zero"
    /\ buf' = <<Zero>>
    /\ pc' = "read"
    /\ UNCHANGED <<job, r, out>>

HexDigit(d) == IF d >= 10 THEN d + UpperA - 10 ELSE d + Zero

WriteNibble ==
    /\ pc = "hex"
    /\ LET shift == r.shift - 4
           nibble == ((r.val % (2 * Half)) \div (2 ^ shift)) % 16
       IN  /\ buf' = IF nibble # 0 \/ Len(buf) > 0
                       THEN Append(buf, HexDigit(nibble)) ELSE buf
           /\ r' = [r EXCEPT !.shift = shift]
           /\ pc' = IF shift = 0 THEN "read" ELSE "hex"
    /\ UNCHANGED <<job, out>>

-----------------------------------------------------------------------------
(* Reals to text *)

\* The counter of the places.
PlacesToWrite == Places

\* subtilis_builtins_ir_fp_to_str: the whole part is written as an integer, and
\* the sign with it.
WritePoint ==
    /\ pc = "point"
    /\ LET number == Magnitude(job.n) % One
       IN  /\ r' = [r EXCEPT !.frac = number, !.count = PlacesToWrite, !.right = Len(buf)]
           /\ buf' = IF number # 0 THEN Append(buf, Point) ELSE buf
           /\ pc' = IF number # 0 THEN "places" ELSE "trim"
    /\ UNCHANGED <<job, out>>

\* r.right is last_non_zero.
WritePlace ==
    /\ pc = "places"
    /\ LET digit == (r.frac * 10) \div One
           left == (r.frac * 10) % One
       IN  /\ buf' = Append(buf, Zero + digit)
           /\ r' = [r EXCEPT !.frac = left,
                             !.count = @ - 1,
                             !.right = IF digit # 0 THEN Len(buf') ELSE @]
           /\ pc' = IF left = 0 \/ r'.count = 0 THEN "trim" ELSE "places"
    /\ UNCHANGED <<job, out>>

\* The size that is returned ends the text at its last digit that is not zero.
Trim ==
    /\ pc = "trim"
    /\ buf' = SubSeq(buf, 1, r.right)
    /\ pc' = "read"
    /\ UNCHANGED <<job, r, out>>

-----------------------------------------------------------------------------
(* Text to numbers *)

\* prv_call_val_int
BaseAllowed(b) == b \in 2 .. 10 \cup {16}

(***************************************************************************)
(* The characters that end the digits.  A digit is compared with '0' +     *)
(* base, and so the character after the digits of the base does not end    *)
(* them.                                                                   *)
(***************************************************************************)
MaxDigit == IF IsReal \/ job.base = 16 THEN Nine ELSE Zero + job.base
NotDigit(c) == c < Zero \/ c > MaxDigit
NotLetter(c) == Lowered(c) < LowerA \/ Lowered(c) > LowerF

\* Mutant: the letters are compared before they are made small.
StopsAtCapitals(c) ==
    IF ~IsReal /\ job.base = 16
      THEN NotDigit(c) = (c < LowerA \/ c > LowerF) ELSE NotDigit(c)

Stops(c) ==
    IF ~IsReal /\ job.base = 16 THEN NotDigit(c) = NotLetter(c) ELSE NotDigit(c)

(***************************************************************************)
(* prv_find_first_stop_prolog: the sign, and the first character.  A text  *)
(* of a sign alone ends at once.                                           *)
(***************************************************************************)
Finish(v) == pc' = "done" /\ out' = Value(v)

ReadSign ==
    /\ pc = "read"
    /\ UNCHANGED <<job, buf>>
    /\ \/ /\ job.kind = "val" /\ ~BaseAllowed(job.base)
          /\ pc' = "done" /\ out' = Failed("bad_args")
          /\ UNCHANGED r
       \/ /\ job.kind = "val" => BaseAllowed(job.base)
          /\ buf = <<>>
          /\ Finish(0)
          /\ UNCHANGED r
       \/ /\ job.kind = "val" => BaseAllowed(job.base)
          /\ buf # <<>>
          /\ LET signed == buf[1] \in {Plus, Minus}
                 from == IF signed THEN 2 ELSE 1
                 sign == IF buf[1] = Minus THEN -1 ELSE 1
             IN  r' = [r EXCEPT !.first = from, !.ptr = from, !.sign = sign,
                                !.factor = IF IsReal THEN sign * One ELSE sign]
          /\ pc' = "scan"
          /\ UNCHANGED out

\* prv_find_first_stop and prv_find_first_stop_hex
Scan ==
    /\ pc = "scan"
    /\ IF r.ptr > Len(buf) \/ Stops(buf[r.ptr])
         THEN /\ pc' = "whole"
              /\ r' = [r EXCEPT !.right = r.ptr, !.left = r.ptr - 1]
         ELSE /\ r' = [r EXCEPT !.ptr = @ + 1]
              /\ UNCHANGED pc
    /\ UNCHANGED <<job, buf, out>>

DigitValue(c) ==
    IF ~IsReal /\ job.base = 16 /\ c > Nine THEN Lowered(c) - (LowerA - 10) ELSE c - Zero

\* The place after the point.
FirstPlace(sign) == Quotient(sign * One, 10)

\* prv_compute_whole_part: from the last digit back, in floating point.
WholeReal ==
    /\ pc = "whole" /\ IsReal
    /\ IF r.left >= r.first
         THEN /\ r' = [r EXCEPT !.sum = @ + DigitValue(buf[r.left]) * r.factor,
                                !.factor = 10 * @, !.left = @ - 1]
              /\ UNCHANGED <<pc, out>>
         ELSE IF r.ptr <= Len(buf) /\ buf[r.ptr] = Point
                THEN /\ r' = [r EXCEPT !.factor = FirstPlace(r.sign),
                                       !.ptr = @ + 1]
                     /\ pc' = "fraction"
                     /\ UNCHANGED out
                ELSE /\ Finish(r.sum)
                     /\ UNCHANGED r
    /\ UNCHANGED <<job, buf>>

\* prv_compute_fractional_part
Fraction ==
    /\ pc = "fraction"
    /\ IF r.ptr <= Len(buf) /\ buf[r.ptr] >= Zero /\ buf[r.ptr] <= Nine
         THEN /\ r' = [r EXCEPT !.sum = @ + (buf[r.ptr] - Zero) * r.factor,
                                !.factor = Quotient(@, 10), !.ptr = @ + 1]
              /\ UNCHANGED <<pc, out>>
         ELSE /\ Finish(r.sum)
              /\ UNCHANGED r
    /\ UNCHANGED <<job, buf>>

(***************************************************************************)
(* prv_compute_whole_int_part and prv_compute_whole_hex_part: the sum and  *)
(* the factor wrap, and a sum that is not zero must have the sign of the   *)
(* text.                                                                   *)
(***************************************************************************)
Overflowed(sum, sign) == sum # 0 /\ (sum < 0) # (sign < 0)

WholeInteger ==
    /\ pc = "whole" /\ ~IsReal
    /\ IF r.left >= r.first
         THEN LET sum == Wrap(r.sum + DigitValue(buf[r.left]) * r.factor)
              IN  /\ r' = [r EXCEPT !.sum = sum, !.left = @ - 1,
                                    !.factor = Wrap(@ * job.base)]
                  /\ IF Overflowed(sum, r.sign)
                       THEN pc' = "done" /\ out' = Failed("number_too_big")
                       ELSE UNCHANGED <<pc, out>>
         ELSE /\ Finish(r.sum)
              /\ UNCHANGED r
    /\ UNCHANGED <<job, buf>>

Next ==
    \/ WriteSign \/ WriteDigit \/ Reverse
    \/ WriteHexZero \/ WriteNibble
    \/ WritePoint \/ WritePlace \/ Trim
    \/ ReadSign \/ Scan \/ WholeReal \/ Fraction \/ WholeInteger

Spec == Init /\ [][Next]_vars /\ WF_vars(Next)

-----------------------------------------------------------------------------
(* The number a text denotes: the digits of the base after the sign, up to *)
(* the first character that is none.                                       *)

DigitsOf(base) ==
    {c \in 0 .. 127 : \/ c >= Zero /\ c <= Nine /\ c - Zero < base
                      \/ base = 16 /\ Lowered(c) >= LowerA /\ Lowered(c) <= LowerF
                         /\ c >= UpperA}

ValueIn(c) == IF c <= Nine THEN c - Zero ELSE Lowered(c) - (LowerA - 10)

Start(t) == IF t # <<>> /\ t[1] \in {Plus, Minus} THEN 2 ELSE 1
SignOf(t) == IF t # <<>> /\ t[1] = Minus THEN -1 ELSE 1

EndOf(t, from, base) ==
    CHOOSE i \in from .. Len(t) + 1 :
        /\ \A k \in from .. i - 1 : t[k] \in DigitsOf(base)
        /\ i = Len(t) + 1 \/ t[i] \notin DigitsOf(base)

Horner(t, from, to, base) ==
    LET f[i \in from - 1 .. to] ==
            IF i < from THEN 0 ELSE base * f[i - 1] + ValueIn(t[i])
    IN  f[to]

Denoted(t, base) ==
    SignOf(t) * Horner(t, Start(t), EndOf(t, Start(t), base) - 1, base)

\* The real a text denotes, in units: digits, and digits after a point.
DenotedReal(t) ==
    LET p == EndOf(t, Start(t), 10)
        q == IF p <= Len(t) /\ t[p] = Point THEN EndOf(t, p + 1, 10) ELSE p
        places == IF q > p THEN q - p - 1 ELSE 0
    IN  Denoted(t, 10) * One
        + IF places = 0 THEN 0
          ELSE SignOf(t) * Horner(t, p + 1, q - 1, 10) * (10 ^ (Scale - places))

(***************************************************************************)
(* prv_val_int of a literal: strtol, which takes 0x before a hexadecimal   *)
(* number.                                                                 *)
(***************************************************************************)
Prefixed(t, base) ==
    LET s == Start(t)
    IN  /\ base = 16 /\ Len(t) >= s + 2
        /\ t[s] = Zero /\ t[s + 1] \in {88, 120}
        /\ t[s + 2] \in DigitsOf(16)

Literal(t, base) ==
    LET s == Start(t)
        n == IF Prefixed(t, base)
               THEN SignOf(t) * Horner(t, s + 2, EndOf(t, s + 2, 16) - 1, 16)
               ELSE Denoted(t, base)
    IN  IF ~BaseAllowed(base) THEN Failed("bad_args")
        ELSE IF n \in Word THEN Value(n) ELSE Failed("number_too_big")

-----------------------------------------------------------------------------
(* Properties *)

Done == pc = "done"

\* A text that is written fits in the buffer its caller reserves: a sign and
\* the digits of an integer, and for a real a point and the places as well.
TypeOK ==
    /\ pc \in {"decimal", "digits", "reverse", "hex_zero", "hex", "point", "places",
               "trim", "read", "scan", "whole", "fraction", "done"}
    /\ Len(buf) <= IF job.kind \in {"val", "val_real"} THEN Len(job.text)
                   ELSE Len(job.text) + 1 + Cardinality({i \in 0 .. Width : 10 ^ i <= Half})
                        + IF IsReal THEN 1 + Places ELSE 0
    /\ r.ptr \in 1 .. Len(buf) + 1
    /\ out.kind \in {"none", "value", "error"}

\* Every integer is written so that VAL reads it back, the least one included:
\* its digits are taken from the negative number.  STR$~ writes the bits: the
\* text of a negative number is that of a number VAL refuses.
IntegersRoundTrip ==
    Done => /\ job.kind = "str" => out = Value(job.n)
            /\ job.kind = "hex" =>
                 /\ Denoted(buf, 16) = job.n % (2 * Half)
                 /\ out = IF job.n >= 0 THEN Value(job.n) ELSE Failed("number_too_big")

\* A real that is written is read back without what its places cannot hold.
RealsRoundTrip ==
    Done /\ job.kind = "str_real" =>
        /\ out.kind = "value"
        /\ out.v = Quotient(job.n, 10 ^ (Scale - Places)) * 10 ^ (Scale - Places)

\* VAL of a string is VAL of the literal with the same characters, in any base.
\* The factor and the sum wrap: the test of the sign finds every overflow below
\* twice the range, and beyond it there is none.  A text that starts with 0x is a
\* number for strtol only.
ValRight ==
    Done /\ job.kind = "val" =>
        \/ out = Literal(job.text, job.base)
        \/ Prefixed(job.text, job.base)
        \/ Magnitude(Denoted(job.text, job.base)) >= 2 * Half

\* VAL of a real reads the digits before and after the point.
ValRealRight ==
    Done /\ job.kind = "val_real" => out = Value(DenotedReal(job.text))

=============================================================================
