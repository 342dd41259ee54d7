------------------------------- MODULE Slices -------------------------------
(***************************************************************************)
(* LEFT$, RIGHT$, MID$ and STRING$ (frontend/string_type.c).  Each of them *)
(* is compiled in several ways: folded when the string and the numbers are *)
(* constants, to code over a constant in the constant pool, or to code     *)
(* over a string variable, and the statement forms have code of their own. *)
(* A call is one such compilation run on arguments the program may have:   *)
(* the state machine makes one call and records what it returned and what  *)
(* the register of its numeric argument holds afterwards, which is the     *)
(* program's variable when the argument is one.                            *)
(*                                                                         *)
(* A string is a sequence of characters; None is an argument left out.     *)
(***************************************************************************)
EXTENDS Integers, Sequences, SequencesExt

CONSTANTS
    Strings,    \* the strings of the program
    Numbers,    \* the integers it passes, below, in and above their lengths
    None

SlicesAssumption ==
    /\ \A s \in Strings : s \in Seq(Nat)
    /\ Numbers \subseteq Int
    /\ None \notin Int

VARIABLES
    call,   \* what is called: [op, str, start, len, value]
    out     \* what it did: [str, len], or None before the call

vars == <<call, out>>

Take(s, n) == SubSeq(s, 1, n)
Skip(s, n) == SubSeq(s, n + 1, Len(s))
Final(s, n) == Skip(s, Len(s) - n)

\* A conversion to size_t makes a negative number larger than any length.
Unsigned(n) == IF n < 0 THEN 1000000 ELSE n

-----------------------------------------------------------------------------
(* The compilations.  Each returns the string and the argument's register. *)

Result(s, n) == [str |-> s, len |-> n]

\* LEFT$ and RIGHT$ of two constants: prv_left_right_const_str.
LeftFolded(s, n) ==
    Result(IF Unsigned(n) < Len(s) THEN Take(s, n) ELSE s, n)
RightFolded(s, n) ==
    Result(IF Unsigned(n) < Len(s) THEN Final(s, n) ELSE s, n)

\* prv_left_right_const: the register of the count is overwritten.
ClippedCount(s, n) == IF n < 0 \/ n >= Len(s) THEN Len(s) ELSE n

\* prv_left_const and prv_right_const; an empty constant is returned as it is.
LeftOfConstant(s, n) ==
    IF s = <<>> THEN Result(s, n)
    ELSE Result(Take(s, ClippedCount(s, n)), ClippedCount(s, n))
RightOfConstant(s, n) ==
    IF s = <<>> THEN Result(s, n)
    ELSE Result(Final(s, ClippedCount(s, n)), ClippedCount(s, n))

(***************************************************************************)
(* prv_left_right_non_const: is the whole string returned?  A constant     *)
(* count below 0 returned the string before this code was reached.         *)
(***************************************************************************)
WholeString(s, n, isConst) ==
    \/ ~isConst /\ n < 0
    \/ n >= Len(s)
    \/ Len(s) = 0

\* subtilis_string_type_left_exp and _right_exp of a string variable.
LeftOfVariable(s, n, isConst) ==
    IF isConst /\ n < 0 THEN Result(s, n)
    ELSE IF isConst /\ n = 0 THEN Result(<<>>, n)
    ELSE Result(IF WholeString(s, n, isConst) THEN s ELSE Take(s, n), n)
RightOfVariable(s, n, isConst) ==
    IF isConst /\ n < 0 THEN Result(s, n)
    ELSE IF isConst /\ n = 0 THEN Result(<<>>, n)
    ELSE Result(IF WholeString(s, n, isConst) THEN s ELSE Final(s, n), n)

(***************************************************************************)
(* prv_mid_str_ccv: what is left of the constant once its constant start   *)
(* has been cut off, and a count in a register that may be overwritten.    *)
(***************************************************************************)
MidOfSuffix(s, n) ==
    LET copied == IF n < 0 \/ n > Len(s) THEN Len(s) ELSE n
    IN  Result(Take(s, copied), copied)

\* prv_mid_str_cc: constant string and start; the count may be a register.
MidConstantStart(s, start, n, nConst) ==
    LET first == IF start = 0 THEN 0 ELSE start - 1
        rest == Skip(s, first)
    IN  IF first < 0 \/ first >= Len(s) THEN Result(<<>>, n)
        ELSE IF n = None THEN Result(rest, n)
        ELSE IF nConst THEN Result(IF n < Len(rest) THEN Take(rest, n) ELSE rest, n)
        ELSE MidOfSuffix(rest, n)

(***************************************************************************)
(* prv_mid_str_check, the code MID$ runs when its start is in a register:  *)
(* MID$ counts from 1, and 0 is taken for 1.                               *)
(***************************************************************************)
MidStart(start) == IF start = 0 THEN 0 ELSE start - 1

MidEmpty(s, start, n) ==
    \/ MidStart(start) < 0
    \/ MidStart(start) >= Len(s)
    \/ n = 0

\* Mutant: a count below 0 is not taken for the rest of the string.
MidCountNoNegative(s, start, n) ==
    LET rest == Len(s) - MidStart(start)
    IN  IF n = None \/ n > rest THEN rest ELSE n

MidCount(s, start, n) ==
    LET rest == Len(s) - MidStart(start)
    IN  IF n = None \/ n > rest \/ n < 0 THEN rest ELSE n

MidByRegister(s, start, n) ==
    Result(IF MidEmpty(s, start, n)
             THEN <<>>
             ELSE Take(Skip(s, MidStart(start)), MidCount(s, start, n)),
           n)

(***************************************************************************)
(* subtilis_string_type_mid_exp chooses.  It replaces a constant count     *)
(* below 0 by the length before it does.                                   *)
(***************************************************************************)
MidOfConstant(s, start, n, startConst, nConst) ==
    LET count == IF n # None /\ nConst /\ n < 0 THEN Len(s) ELSE n
        found == IF s = <<>> THEN Result(s, n)
                 ELSE IF nConst /\ n = 0 THEN Result(<<>>, n)
                 ELSE IF startConst THEN MidConstantStart(s, start, count, nConst)
                 ELSE MidByRegister(s, start, count)
    IN  IF nConst THEN [found EXCEPT !.len = n] ELSE found

\* prv_mid_str_vvv
MidOfVariable(s, start, n) == MidByRegister(s, start, n)

-----------------------------------------------------------------------------
(* The statement forms: LEFT$(s, n) = v replaces the start of s, and so on *)

(***************************************************************************)
(* prv_left_right_calc_len: how many characters of the value are copied    *)
(* into a part of `size` characters.  The test is written once for a       *)
(* constant and once for a variable.                                       *)
(***************************************************************************)
StatementCount(size, n, isConst, valueLen) ==
    LET part == IF isConst
                  THEN IF n < 0 \/ size < n THEN size ELSE n
                  ELSE IF n < 0 \/ n >= size THEN size ELSE n
    IN  IF valueLen > part THEN part ELSE valueLen

\* Characters first + 1 .. first + Len(v) of s become v.
Overwritten(s, first, v) ==
    [i \in DOMAIN s |-> IF i - first \in DOMAIN v THEN v[i - first] ELSE s[i]]

\* prv_left_right_statement and prv_left_right_copy
LeftStatement(s, n, isConst, v) ==
    LET count == StatementCount(Len(s), n, isConst, Len(v))
    IN  Result(Overwritten(s, 0, Take(v, count)), n)

RightStatement(s, n, isConst, v) ==
    LET count == StatementCount(Len(s), n, isConst, Len(v))
    IN  Result(Overwritten(s, Len(s) - count, Final(v, count)), n)

\* subtilis_string_type_mid: here the first character is number 0.
MidStatement(s, start, n, isConst, v) ==
    LET count == StatementCount(Len(s) - start, n, isConst, Len(v))
    IN  Result(IF start < 0 \/ Len(s) <= start
                 THEN s
                 ELSE Overwritten(s, start, Take(v, count)),
               n)

-----------------------------------------------------------------------------
(* STRING$(n, s) *)

Repeat(s, n) == FlattenSeq([i \in 1 .. n |-> s])

\* prv_string_str_const
StringFolded(s, n) == Result(IF n <= 0 THEN <<>> ELSE Repeat(s, n), n)

(***************************************************************************)
(* The code over registers: prv_string_str_check_count, the allocation of  *)
(* n times the length, and a loop that copies until it reaches the end.    *)
(***************************************************************************)
StringByRegister(s, n) ==
    Result(IF s = <<>> \/ n < 1 THEN <<>>
           ELSE [i \in 1 .. n * Len(s) |-> s[((i - 1) % Len(s)) + 1]], n)

\* subtilis_string_type_string of a variable.
StringOfVariable(s, n, isConst) ==
    IF isConst /\ n = 1 THEN Result(s, n)
    ELSE IF isConst /\ n <= 1 THEN Result(<<>>, n)
    ELSE StringByRegister(s, n)

-----------------------------------------------------------------------------
(* The calls *)

Call(op, start, value) ==
    [op : {op}, str : Strings, start : start, value : value,
     len : IF op = "MID$" THEN Numbers \cup {None} ELSE Numbers]

Calls ==
    Call("LEFT$", {None}, {<<>>}) \cup Call("RIGHT$", {None}, {<<>>})
    \cup Call("STRING$", {None}, {<<>>})
    \cup Call("LEFT$=", {None}, Strings) \cup Call("RIGHT$=", {None}, Strings)
    \cup Call("MID$", Numbers, {<<>>}) \cup Call("MID$=", Numbers, Strings)

Init == call \in Calls /\ out = None

Returns(op, result) ==
    /\ out = None
    /\ call.op = op
    /\ out' = result
    /\ UNCHANGED call

Left ==
    \/ Returns("LEFT$", LeftFolded(call.str, call.len))
    \/ Returns("LEFT$", LeftOfConstant(call.str, call.len))
    \/ \E c \in BOOLEAN : Returns("LEFT$", LeftOfVariable(call.str, call.len, c))

Right ==
    \/ Returns("RIGHT$", RightFolded(call.str, call.len))
    \/ Returns("RIGHT$", RightOfConstant(call.str, call.len))
    \/ \E c \in BOOLEAN : Returns("RIGHT$", RightOfVariable(call.str, call.len, c))

Mid ==
    \/ \E sc, nc \in BOOLEAN :
          Returns("MID$", MidOfConstant(call.str, call.start, call.len, sc, nc))
    \/ Returns("MID$", MidOfVariable(call.str, call.start, call.len))

RepeatString ==
    \/ Returns("STRING$", StringFolded(call.str, call.len))
    \/ Returns("STRING$", StringByRegister(call.str, call.len))
    \/ \E c \in BOOLEAN :
          Returns("STRING$", StringOfVariable(call.str, call.len, c))

Assign ==
    \E c \in BOOLEAN :
       \/ Returns("LEFT$=", LeftStatement(call.str, call.len, c, call.value))
       \/ Returns("RIGHT$=", RightStatement(call.str, call.len, c, call.value))
       \/ Returns("MID$=",
                  MidStatement(call.str, call.start, call.len, c, call.value))

Next == Left \/ Right \/ Mid \/ RepeatString \/ Assign

Spec == Init /\ [][Next]_vars

-----------------------------------------------------------------------------
(* Properties *)

(***************************************************************************)
(* What the functions mean, whichever way they are compiled: a negative    *)
(* count, or one past the end, is the rest of the string.                  *)
(***************************************************************************)
Limit(n, most) == IF n \in 0 .. most THEN n ELSE most

Meaning ==
    LET s == call.str
        n == call.len
        first == MidStart(call.start)
    IN  CASE call.op = "LEFT$" -> Take(s, Limit(n, Len(s)))
          [] call.op = "RIGHT$" -> Final(s, Limit(n, Len(s)))
          [] call.op = "MID$" ->
               IF first \in 0 .. Len(s) - 1
                 THEN LET rest == Skip(s, first)
                      IN  Take(rest, Limit(n, Len(rest)))
                 ELSE <<>>
          [] call.op = "STRING$" -> IF n > 0 THEN Repeat(s, n) ELSE <<>>

Replaced ==
    LET s == call.str
        v == call.value
        first == IF call.op = "MID$=" THEN call.start ELSE 0
        most == Limit(call.len, Len(s) - first)
        count == IF Len(v) < most THEN Len(v) ELSE most
    IN  IF first \notin 0 .. Len(s) - 1 THEN s
        ELSE IF call.op = "RIGHT$="
          THEN Take(s, Len(s) - count) \o Final(v, count)
          ELSE Take(s, first) \o Take(v, count) \o Skip(s, first + count)

(***************************************************************************)
(* Every compilation of a call returns the same string: whether the        *)
(* arguments are constants, variables or a mixture cannot be seen, for     *)
(* counts and starts below 0, at 0, at the length and past it.  A count     *)
(* that is not clipped stays what it was: it may be a variable.            *)
(***************************************************************************)
SameString ==
    out # None =>
      /\ out.str = IF call.op \in {"LEFT$=", "RIGHT$=", "MID$="} THEN Replaced ELSE Meaning
      /\ call.len = Len(out.str) => out.len = call.len
=============================================================================
