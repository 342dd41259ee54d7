----------------------------- MODULE MCRoutines -----------------------------
(***************************************************************************)
(* What a program calls: operators and their folding, random numbers,      *)
(* numbers as texts, and the routines of the ARM back ends for division    *)
(* and for memory.  part says which of them a behaviour is about; the      *)
(* variables of the others are 0.                                          *)
(* The operators are on words of four bits with bytes of two, and halves   *)
(* for reals: every integer, byte and real of the bounds is an operand.    *)
(***************************************************************************)
EXTENDS Folding

VARIABLES
    part,                           \* the component that runs
    call, d, q, sign,               \* of Division, with pc, r and out
    mem,                            \* of Memory, with call, pc and r
    job, buf,                       \* of Conversions, with pc, r and out
    pc, r, out,
    literal, variable, last         \* of Random

allVars == <<part, left, right, call, d, q, sign, mem, job, buf, pc, r, out, literal, variable, last>>

-----------------------------------------------------------------------------
(***************************************************************************)
(* Division of words of 16 bits, with chunks of four: numbers at and       *)
(* beside the powers of two, their sums and the ends of the range.         *)
(***************************************************************************)
Powers == {2 ^ i : i \in 0 .. 14}
Near == UNION {{p - 1, p, p + 1} : p \in Powers}
Mixed == {p + (p \div 8) + 1 : p \in Powers} \cup {p - (p \div 4) : p \in Powers}
Positive == {n \in Near \cup Mixed : n < 2 ^ 15}
Numbers == Positive \cup {-n : n \in Positive} \cup {-(2 ^ 15)}

Divider == INSTANCE Division WITH
    Chunk <- 4, Middle <- 2, Low <- 1, Dividends <- Numbers, Divisors <- Numbers

(***************************************************************************)
(* Random numbers of 8 bits: the constants of the generator keep their     *)
(* last bits.  Generator is a program that calls RND without an argument.  *)
(***************************************************************************)
Numbered == INSTANCE Random WITH
    Width <- 8, Arguments <- {-128, -127, -3, -1, 0, 1, 2, 3, 6, 100, 127}
Generator == INSTANCE Random WITH Width <- 8, Arguments <- {}

(***************************************************************************)
(* All integers of 8 bits.  Reals of three places, two of them written:    *)
(* numbers between -128.999 and 127.999 around whole numbers, with a digit *)
(* in any place, but for those between -1 and 0.  Texts of signs, the      *)
(* point and digits, with a character that is not a digit of the base.     *)
(***************************************************************************)
Short(S, n) == UNION {[1 .. k -> S] : k \in 0 .. n}

WholeParts == {-128, -100, -10, -9, -1, 1, 10, 19, 100, 127}
Parts == {0, 1, 9, 10, 90, 100, 101, 250, 500, 900, 990, 999}
SomeReals ==
    {n * 1000 + p : n \in {k \in WholeParts : k > 0} \cup {0}, p \in Parts}
    \cup {n * 1000 - p : n \in {k \in WholeParts : k < 0}, p \in Parts}

BinaryDigits == {43, 45, 46, 48, 49}
DecimalDigits == {43, 45, 46, 48, 50, 57, 102}
HexDigits == {45, 48, 57, 65, 102, 103, 64}
SomeTexts ==
    [text : Short(DecimalDigits, 4) \cup Short(HexDigits, 3), base : {10}]
    \cup [text : Short(DecimalDigits, 3) \cup Short(HexDigits, 3), base : {16, 0, 1, 11, 17, -10}]
    \cup [text : Short(BinaryDigits, 5), base : {2, 10}]

Converter == INSTANCE Conversions WITH
    Width <- 8, Ints <- -128 .. 127, Reals <- SomeReals, ToRead <- SomeTexts,
    Places <- 2, Scale <- 3

(***************************************************************************)
(* Sizes around the bytes, the words and the blocks of 16 and 32 bytes,    *)
(* arguments at and beside a word boundary, and bytes that are not         *)
(* negative, or -1.  Comparer calls _memcmp with a low R9, Stale with what *)
(* another routine may have left there.                                    *)
(***************************************************************************)
MemorySizes == {0, 1, 3, 4, 7, 8, 16, 17, 22, 32, 33, 40, 64, 71}
TextSizes == {0, 1, 3, 4, 5, 16, 21, 37}
PlainBytes == {{}, {0}, {0, 1}}

Filler == INSTANCE Memory WITH
    Bits <- {0, 1}, Sizes <- MemorySizes, Offsets <- {0}, FillBytes <- PlainBytes,
    Scratch <- {0}, Ops <- {"memseti32", "memseti64", "memseti8"}
Copier == INSTANCE Memory WITH
    Bits <- {0, 1}, Sizes <- MemorySizes, Offsets <- {0, 1, 3}, FillBytes <- PlainBytes,
    Scratch <- {0}, Ops <- {"memcpy"}
Comparer == INSTANCE Memory WITH
    Bits <- {0, 1}, Sizes <- TextSizes, Offsets <- {0, 1, 3}, FillBytes <- PlainBytes,
    Scratch <- {0, 3}, Ops <- {"memcmp", "compare"}
Stale == INSTANCE Memory WITH
    Bits <- {0, 1}, Sizes <- TextSizes, Offsets <- {0, 1, 3}, FillBytes <- PlainBytes,
    Scratch <- {14, 21, 40}, Ops <- {"memcmp"}

ASSUME RoutinesAssumption ==
    /\ Divider!DivisionAssumption
    /\ Numbered!RandomAssumption /\ Generator!RandomAssumption
    /\ Converter!ConversionsAssumption
    /\ Filler!MemoryAssumption /\ Copier!MemoryAssumption /\ Comparer!MemoryAssumption
    /\ Filler!Supported /\ Comparer!LowScratch /\ Stale!MemoryAssumption

-----------------------------------------------------------------------------
NoOperators == left = 0 /\ right = 0
NoCall == call = 0 /\ mem = 0
NoDivider == d = 0 /\ q = 0 /\ sign = 0
NoConverter == job = 0 /\ buf = 0
NoRoutine == pc = 0 /\ r = 0 /\ out = 0
NoRandom == literal = 0 /\ variable = 0 /\ last = 0

\* A program that has called RND without an argument, whatever was the seed.
Seeded ==
    /\ literal \in {Generator!Call(n, Generator!Integer(n)) : n \in -128 .. 127}
    /\ variable = literal
    /\ last = Generator!NoArgument

RoutinesInit ==
    \/ /\ part = "operators" /\ Init
       /\ NoDivider /\ NoConverter /\ NoRoutine /\ NoRandom /\ NoCall
    \/ part = "divider" /\ Divider!Init /\ NoOperators /\ NoConverter /\ NoRandom /\ mem = 0
    \/ /\ \/ part = "fill" /\ Filler!Init
          \/ part = "copy" /\ Copier!Init
          \/ part = "compare" /\ Comparer!Init
          \/ part = "stale" /\ Stale!Init
       /\ NoOperators /\ NoDivider /\ NoConverter /\ NoRandom /\ out = 0
    \/ part = "converter" /\ Converter!Init /\ NoOperators /\ NoDivider /\ NoRandom /\ NoCall
    \/ /\ \/ part = "numbered" /\ Numbered!Init
          \/ part = "generator" /\ Seeded
       /\ NoOperators /\ NoDivider /\ NoConverter /\ NoRoutine /\ NoCall

RoutinesNext ==
    /\ UNCHANGED part
    /\ \/ /\ part = "operators" /\ Next
          /\ UNCHANGED <<call, d, q, sign, mem, job, buf, pc, r, out, literal, variable, last>>
       \/ /\ part = "divider" /\ Divider!Next
          /\ UNCHANGED <<left, right, mem, job, buf, literal, variable, last>>
       \/ /\ \/ part = "fill" /\ Filler!Next
             \/ part = "copy" /\ Copier!Next
             \/ part \in {"compare", "stale"} /\ Comparer!Next
          /\ UNCHANGED <<left, right, d, q, sign, job, buf, out, literal, variable, last>>
       \/ /\ part = "converter" /\ Converter!Next
          /\ UNCHANGED <<left, right, call, d, q, sign, mem, literal, variable, last>>
       \/ /\ \/ part = "numbered" /\ Numbered!Next
             \/ part = "generator" /\ Generator!Next
          /\ UNCHANGED <<left, right, call, d, q, sign, mem, job, buf, pc, r, out>>

\* A routine runs on until it returns.
RoutinesSpec ==
    RoutinesInit /\ [][RoutinesNext]_allVars /\ WF_allVars(part # "operators" /\ RoutinesNext)

-----------------------------------------------------------------------------
\* However an expression is written, with constants or with variables, it has one
\* type and one value, which is in the range of the type.
OperatorsAgree == part = "operators" => TypeOK /\ Agree

\* The software division gives the quotients and remainders of the interpreter.
QuotientRight == part = "divider" => Divider!TypeOK /\ Divider!QuotientRight

(***************************************************************************)
(* Memory is filled and copied as the interpreter does it: every byte that *)
(* was asked for is written, no other, and no byte past the end is read.   *)
(* _memcmp and _compare find equality and the order of strings for every   *)
(* length and alignment of the bounds, whatever bytes lie next to them; a  *)
(* _memcmp that is called with an R9 that is not low may find equal        *)
(* strings different, but never different ones equal.                      *)
(***************************************************************************)
MemoryRight ==
    /\ part = "fill" => Filler!RoutinesRight
    /\ part = "copy" => Copier!RoutinesRight
    /\ part = "compare" => Comparer!RoutinesRight
    /\ part = "stale" => Stale!DifferentDiffer

\* Every integer is written so that VAL reads it back, and a real but for what its
\* places cannot hold; the texts fit in the buffers of the routines' callers.
NumbersRoundTrip ==
    part = "converter" =>
        Converter!TypeOK /\ Converter!IntegersRoundTrip /\ Converter!RealsRoundTrip

\* VAL of a string is VAL of the literal with the same characters, for integers of
\* every base and for reals.
ValRight == part = "converter" => Converter!ValRight /\ Converter!ValRealRight

\* Every routine returns.
RoutinesEnd ==
    <>(CASE part = "divider" -> Divider!Done
         [] part = "converter" -> Converter!Done
         [] part \in {"fill", "copy", "compare", "stale"} -> Copier!Done
         [] OTHER -> TRUE)

\* A program with literals and one with variables get the same random numbers in
\* every order of calls, the one with variables as reals, in the range of their
\* arguments.
SameNumbers ==
    part \in {"numbered", "generator"} => Numbered!SameNumbers /\ Numbered!InRange

\* RND(0) gives the real again that RND(1) gave.  Whatever the seed, a program that
\* only calls RND comes to the number 0 again and again: the seeds are one cycle.
FullPeriod ==
    /\ [][part = "numbered" => Numbered!Repeated]_allVars
    /\ []<>(part = "generator" => literal.seed = 0)

=============================================================================
