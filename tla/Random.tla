------------------------------- MODULE Random -------------------------------
(***************************************************************************)
(* RND.  A hidden variable of the program holds the seed; what RND does    *)
(* with it depends on its argument.  For a literal argument the compiler   *)
(* chooses the code (prv_rnd_const of frontend/parser_rnd.c), for a        *)
(* variable the routines _rnd_int and _rnd_real choose when they run       *)
(* (prv_rnd_var).  Two programs, one with literals and one with variables, *)
(* make the same calls.                                                    *)
(*                                                                         *)
(* A real is counted in parts: Half - 1 of them make 1.                    *)
(***************************************************************************)
EXTENDS Integers

CONSTANTS
    Width,      \* the bits of an integer
    Arguments   \* the arguments of the calls, apart from RND without one

Half == 2 ^ (Width - 1)
Word == -Half .. Half - 1

RandomAssumption == Width \in Nat /\ Width > 1 /\ Arguments \subseteq Word

VARIABLES
    literal,    \* [seed, got] of the program with literals
    variable,   \* and of the one with variables
    last        \* the set of the last argument, or of none

vars == <<literal, variable, last>>

NoArgument == {}
Wrap(n) == ((n + Half) % (2 * Half)) - Half

\* Mutant: a factor with which the seeds do not all follow one another.
BasicRndEven(seed) == Wrap(Wrap(1664525 + 1) * seed + Wrap(1013904223))

\* subtilis_builtins_ir_basic_rnd
BasicRnd(seed) == Wrap(Wrap(1664525) * seed + Wrap(1013904223))

\* The sign bit is cleared.
Positive(n) == n % Half

Integer(n) == [type |-> "integer", v |-> n]
Real(parts) == [type |-> "real", v |-> parts]

\* The instruction MOV_I32_FP; a real stays as it is.
ToReal(x) == IF x.type = "integer" THEN Real(x.v * (Half - 1)) ELSE x

Call(seed, got) == [seed |-> seed, got |-> got]

Init ==
    /\ literal = Call(0, Integer(0))
    /\ variable = literal
    /\ last = NoArgument

-----------------------------------------------------------------------------
(* The code for literals *)

\* subtilis_builtins_ir_rnd_0: the seed stays.
Rnd0(seed) == Call(seed, Real(Positive(seed)))

\* subtilis_builtins_ir_rnd_1
Rnd1(seed) == Call(BasicRnd(seed), Real(Positive(BasicRnd(seed))))

\* subtilis_builtins_ir_rnd_neg: the seed is set.
RndNeg(n) == Call(Wrap(-n), Integer(Wrap(-n)))

\* subtilis_builtins_ir_rnd_pos
RndPos(seed, n) ==
    Call(BasicRnd(seed), Integer((Positive(BasicRnd(seed)) % n) + 1))

\* prv_rnd_const
RndConst(seed, n) ==
    CASE n = 0 -> Rnd0(seed)
      [] n = 1 -> Rnd1(seed)
      [] n < 0 -> RndNeg(n)
      [] OTHER -> RndPos(seed, n)

-----------------------------------------------------------------------------
(* The routines for variables *)

\* Mutant: the number is made before the seed is moved on.
RndIntBefore(seed, n) ==
    IF n < 0 THEN Call(Wrap(-n), Integer(Wrap(-n)))
    ELSE Call(BasicRnd(seed), Integer((Positive(seed) % n) + 1))

\* subtilis_builtins_ir_rnd_int
RndInt(seed, n) ==
    IF n < 0 THEN Call(Wrap(-n), Integer(Wrap(-n)))
    ELSE Call(BasicRnd(seed), Integer((Positive(BasicRnd(seed)) % n) + 1))

\* subtilis_builtins_ir_rnd_real
RndReal(seed, n) == IF n = 1 THEN Rnd1(seed) ELSE Rnd0(seed)

\* prv_rnd_var: the integer of _rnd_int is converted, the result is always a real.
RndVar(seed, n) ==
    LET int == RndInt(seed, n)
    IN  IF n \in {0, 1} THEN RndReal(seed, n) ELSE Call(int.seed, ToReal(int.got))

-----------------------------------------------------------------------------

\* RND without an argument is the whole seed.
Rnd ==
    /\ literal' = Call(BasicRnd(literal.seed), Integer(BasicRnd(literal.seed)))
    /\ variable' = Call(BasicRnd(variable.seed), Integer(BasicRnd(variable.seed)))
    /\ last' = NoArgument

RndOf(n) ==
    /\ literal' = RndConst(literal.seed, n)
    /\ variable' = RndVar(variable.seed, n)
    /\ last' = {n}

Next == Rnd \/ \E n \in Arguments : RndOf(n)

Spec == Init /\ [][Next]_vars

-----------------------------------------------------------------------------
(* Properties *)

\* The seeds are words; RND of 0 and 1 is a real between 0 and 1, of a larger
\* literal an integer between 1 and the literal, and of a variable always a real.
InRange ==
    /\ literal.seed \in Word /\ variable.seed \in Word
    /\ last \in {{0}, {1}} =>
           literal.got.type = "real" /\ literal.got.v \in 0 .. Half - 1
    /\ \A n \in last : variable.got.type = "real"
    /\ \A n \in last : n > 1 => literal.got.type = "integer" /\ literal.got.v \in 1 .. n

\* A program with literals and one with variables have the same seed and get the
\* same numbers, one as an integer and the other as a real perhaps, in all orders
\* of calls.
SameNumbers == literal.seed = variable.seed /\ ToReal(literal.got) = ToReal(variable.got)

\* RND(0) gives the real again that RND(1) gave.
Repeated ==
    last = {1} /\ last' = {0} => literal'.got = literal.got /\ variable'.got = variable.got

=============================================================================
