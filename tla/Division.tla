------------------------------ MODULE Division ------------------------------
(***************************************************************************)
(* The division of the processors that have no instruction for it: the     *)
(* routine _idiv that the ARM back ends add to a program                   *)
(* (arch/arm32/arm2_div.c).  It makes Chunk bits of the quotient a pass,   *)
(* and enters a pass in the middle when the quotient is known to be short. *)
(* The bits it sets at the top of the quotient leave it as carries and     *)
(* count the passes.                                                       *)
(*                                                                         *)
(* A word is four chunks.  One action is one of the tests that scale the   *)
(* divisor, or one bit of the quotient.                                    *)
(***************************************************************************)
EXTENDS Integers

CONSTANTS
    Chunk,      \* the bits of a pass: 8
    Middle,     \* the bits of a pass that is entered in the middle: 4
    Low,        \* and of the shortest: 3
    Dividends, Divisors

Width == 4 * Chunk
Power[n \in 0 .. Width] == IF n = 0 THEN 1 ELSE 2 * Power[n - 1]
U == Power[Width]
Half == U \div 2
Word == -Half .. Half - 1

DivisionAssumption ==
    /\ Chunk \in Nat /\ Middle \in Nat /\ Low \in Nat
    /\ 0 < Low /\ Low < Middle /\ Middle < Chunk
    /\ Dividends \subseteq Word /\ Divisors \subseteq Word

VARIABLES
    call,       \* [n, by, mod]
    pc,         \* the next step, or the next bit of the pass
    r, d, q,    \* the remainder, the divisor and the quotient, unsigned
    sign,       \* [top, rest]: the top bit of the register sign, and the others
    out         \* the result, or the error that is raised

vars == <<call, pc, r, d, q, sign, out>>

Unsigned(n) == n % U
Signed(n) == IF n >= Half THEN n - U ELSE n
Negated(n) == (-n) % U
Lsr(n, i) == n \div Power[i]
Lsl(n, i) == (n * Power[i]) % U

None == [kind |-> "none"]

\* The chunk of ones that ends k chunks above the bottom.
Ones(k) == (Power[Chunk] - 1) * Power[k * Chunk]

\* The pass is entered at its bit k.
Bit(k) == <<"bit", k>>
At(step) == <<step, 0>>

Init ==
    /\ call \in [n : Dividends, by : Divisors, mod : BOOLEAN]
    /\ pc = At("enter")
    /\ r = Unsigned(call.n) /\ d = Unsigned(call.by) /\ q = 0
    /\ sign = [top |-> FALSE, rest |-> FALSE]
    /\ out = None

\* Mutant: a quotient that needs one bit more is taken to fit.
FitsEqual(rem, div, i) == Lsr(rem, i) <= div

\* RSBS t, d, r LSR #i and BCC: the quotient has no more than i bits.
Fits(rem, div, i) == Lsr(rem, i) < div

(***************************************************************************)
(* The absolute values, and the signs: EOR with the dividend shifted right *)
(* by 32 flips the top bit and fills the others with its sign.             *)
(***************************************************************************)
Enter ==
    /\ pc = At("enter")
    /\ sign' = [top |-> (call.n < 0) # (call.by < 0), rest |-> call.n < 0]
    /\ d' = IF call.by < 0 THEN Negated(d) ELSE d
    /\ r' = IF call.n < 0 THEN Negated(r) ELSE r
    /\ pc' = IF Fits(r', d', Low) THEN Bit(Low - 1)
             ELSE IF Fits(r', d', Chunk) THEN Bit(Chunk - 1) ELSE At("scale")
    /\ UNCHANGED <<call, q, out>>

\* The divisor is moved up a chunk, and a chunk of the quotient marked.
ScaleFirst ==
    /\ pc = At("scale")
    /\ d' = Lsl(d, Chunk)
    /\ q' = q + Ones(3)
    /\ pc' = IF Fits(r, d', Middle) THEN Bit(Middle - 1)
             ELSE IF Fits(r, d', Chunk) THEN Bit(Chunk - 1) ELSE At("scale_again")
    /\ UNCHANGED <<call, r, sign, out>>

\* RSBS t, d, #0 sets the carry.
IsZero(div) == div = 0

(***************************************************************************)
(* Twice, or three times.  A divisor of 0 passes every test so far and is  *)
(* found here.                                                             *)
(***************************************************************************)
ScaleRest ==
    /\ pc = At("scale_again")
    /\ LET twice == Lsl(d, Chunk)
           more == ~Fits(r, twice, Chunk)
       IN  /\ d' = IF more THEN Lsl(twice, Chunk) ELSE twice
           /\ q' = q + Ones(2) + IF more THEN Ones(1) ELSE 0
    /\ IF ~Fits(r, d', Middle) /\ IsZero(d')
         THEN pc' = At("done") /\ out' = [kind |-> "error", e |-> "div_by_zero"]
         ELSE /\ pc' = IF Fits(r, d', Middle) THEN Bit(Middle - 1) ELSE Bit(Chunk - 1)
              /\ UNCHANGED out
    /\ UNCHANGED <<call, r, sign>>

\* prv_add_rsa_group: a bit of the quotient.
Subtract(k) ==
    LET one == Lsr(r, k) >= d
    IN  /\ r' = IF one THEN (r - Lsl(d, k)) % U ELSE r
        /\ q' = (2 * q + IF one THEN 1 ELSE 0) % U

BitOfPass ==
    \E k \in 1 .. Chunk - 1 :
        /\ pc = Bit(k)
        /\ Subtract(k)
        /\ pc' = Bit(k - 1)
        /\ UNCHANGED <<call, d, sign, out>>

\* MOVS sign, sign, LSL #1 and RSBCS: the sign of the result.
SignedLikeQuotient(n) == IF sign.top THEN Negated(n) ELSE n

\* The last bit of a pass.  The bit that leaves the quotient says that the divisor
\* is to be moved down again, for another pass.
LastBit ==
    /\ pc = Bit(0)
    /\ Subtract(0)
    /\ IF 2 * q >= U
         THEN /\ d' = Lsr(d, Chunk)
              /\ pc' = Bit(Chunk - 1)
              /\ UNCHANGED out
         ELSE /\ pc' = At("done")
              /\ out' = [kind |-> "value",
                         v |-> Signed(SignedLikeQuotient(IF call.mod THEN r' ELSE q'))]
              /\ UNCHANGED d
    /\ UNCHANGED <<call, sign>>

Next == Enter \/ ScaleFirst \/ ScaleRest \/ BitOfPass \/ LastBit

Spec == Init /\ [][Next]_vars /\ WF_vars(Next)

-----------------------------------------------------------------------------
(* prv_divi32 and prv_modi32 of the IR interpreter: as in C *)

Magnitude(n) == IF n < 0 THEN -n ELSE n
Truncated(n, by) ==
    LET m == Magnitude(n) \div Magnitude(by)
    IN  IF (n < 0) # (by < 0) THEN -m ELSE m

Expected ==
    IF call.by = 0 THEN [kind |-> "error", e |-> "div_by_zero"]
    ELSE LET quotient == Truncated(call.n, call.by)
         IN  [kind |-> "value",
              v |-> IF call.mod THEN call.n - call.by * quotient
                    ELSE Signed(Unsigned(quotient))]

Done == pc = At("done")

\* The words stay words, and the divisor is not scaled past them.
TypeOK ==
    /\ r \in 0 .. U - 1 /\ d \in 0 .. U - 1 /\ q \in 0 .. U - 1
    /\ pc \in {At(x) : x \in {"enter", "scale", "scale_again", "done"}}
            \cup {Bit(k) : k \in 0 .. Chunk - 1}
    /\ out.kind \in {"none", "value", "error"}
    /\ pc \in {Bit(k) : k \in 0 .. Chunk - 1} => d # 0

\* DIV and MOD by a positive number are those of the interpreter for every
\* dividend, and DIV by a negative one as well: whichever bit a pass is entered
\* at, the marks in the quotient have left it when the last pass ends.
QuotientRight ==
    Done /\ (call.mod => call.by >= 0) => out = Expected

=============================================================================
