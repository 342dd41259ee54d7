--------------------------- MODULE DivisionProofs ---------------------------
(***************************************************************************)
(* The software division is right for words of any number of bits.         *)
(*                                                                         *)
(* Before bit k of a pass, with j passes still to come, the divisor is     *)
(* j chunks above the bottom.  Some z is the quotient so far: the dividend *)
(* is z times the divisor at bit k + 1, and the remainder.  The register   *)
(* of the quotient has z at its bottom and the marks at its top, as many   *)
(* as there are bits to come after the first pass.  So the bit that leaves *)
(* the register at the end of a pass is a mark exactly when there is       *)
(* another pass, and z is never cut off.                                   *)
(***************************************************************************)
EXTENDS Division, ListLemmas

(* The powers of two *)

\* The recursion of Power, up to some exponent.
Doubles(n, f) ==
    f = [i \in 0 .. n |-> IF i = 0 THEN 1 ELSE 2 * f[i - 1]]

\* The recursion has a solution for every width.
LEMMA DoublesExist ==
    ASSUME NEW n \in Nat
    PROVE  \E f : Doubles(n, f)
<1> DEFINE T == {i \in Nat : \E f : Doubles(i, f)}
<1>1. 0 \in T
  <2> DEFINE f == [i \in 0 .. 0 |-> 1]
  <2>1. Doubles(0, f)
    BY DEF Doubles
  <2> QED
    BY <2>1
<1>2. ASSUME NEW m \in 0 .. n - 1, m \in T
      PROVE  m + 1 \in T
  <2>1. PICK f : Doubles(m, f)
    BY <1>2
  <2> DEFINE g == [i \in 0 .. m + 1 |-> IF i = m + 1 THEN 2 * f[m] ELSE f[i]]
  <2>2. ASSUME NEW i \in 0 .. m + 1
        PROVE  g[i] = IF i = 0 THEN 1 ELSE 2 * g[i - 1]
    <3>1. CASE i = m + 1
      <4>1. i - 1 = m /\ m \in 0 .. m + 1 /\ m # m + 1 /\ i # 0
        BY <3>1
      <4>2. g[m] = f[m] /\ g[i] = 2 * f[m]
        BY <3>1, <4>1
      <4> QED
        BY <3>1, <4>1, <4>2
    <3>2. CASE i # m + 1
      <4>1. i \in 0 .. m /\ (i # 0 => i - 1 \in 0 .. m + 1 /\ i - 1 # m + 1)
        BY <3>2
      <4>2. f[i] = IF i = 0 THEN 1 ELSE 2 * f[i - 1]
        BY <2>1, <4>1 DEF Doubles
      <4>3. g[i] = f[i] /\ (i # 0 => g[i - 1] = f[i - 1])
        BY <3>2, <4>1
      <4> QED
        BY <4>2, <4>3
    <3> QED
      BY <3>1, <3>2
  <2>3. g = [i \in 0 .. m + 1 |-> g[i]]
    OBVIOUS
  <2> HIDE DEF g
  <2>4. Doubles(m + 1, g)
    BY <2>2, <2>3 DEF Doubles
  <2> QED
    BY <2>4
<1> HIDE DEF T
<1>3. n \in 0 .. n /\ \A i \in 0 .. n : i \in T
  BY <1>1, <1>2, InductionUpTo
<1> QED
  BY <1>3 DEF T

\* A word has 4 * Chunk bits, and the parts of a pass lie in it.
LEMMA WidthLemma ==
    ASSUME DivisionAssumption
    PROVE  /\ Width \in Nat /\ Width = 4 * Chunk
           /\ Chunk \in Nat /\ Middle \in Nat /\ Low \in Nat
           /\ 1 <= Low /\ Low + 1 <= Middle /\ Middle + 1 <= Chunk
BY DEF DivisionAssumption, Width

\* Each power is a positive number, and twice the one before it.
LEMMA PowerDoubles ==
    ASSUME DivisionAssumption
    PROVE  /\ Power[0] = 1
           /\ \A i \in 0 .. Width : Power[i] \in Nat \ {0}
           /\ \A i \in 0 .. Width - 1 : Power[i + 1] = 2 * Power[i]
<1> DEFINE f == CHOOSE g : Doubles(Width, g)
<1>1. Width \in Nat
  BY WidthLemma
<1>2. Power = f
  BY DEF Power, Doubles
<1>3. Doubles(Width, f)
  BY <1>1, DoublesExist
<1> HIDE DEF f
<1>4. \A i \in 0 .. Width : f[i] = IF i = 0 THEN 1 ELSE 2 * f[i - 1]
  BY <1>3 DEF Doubles
<1>5. f[0] = 1
  BY <1>1, <1>4
<1>6. \A i \in 0 .. Width - 1 : f[i + 1] = 2 * f[i]
  <2> TAKE i \in 0 .. Width - 1
  <2>1. i + 1 \in 0 .. Width /\ i + 1 # 0 /\ (i + 1) - 1 = i
    BY <1>1
  <2> QED
    BY <1>4, <2>1
<1> DEFINE T == {i \in 0 .. Width : f[i] \in Nat \ {0}}
<1>7. 0 \in T
  BY <1>1, <1>5
<1>8. ASSUME NEW i \in 0 .. Width - 1, i \in T
      PROVE  i + 1 \in T
  <2>1. i + 1 \in 0 .. Width
    BY <1>1
  <2> QED
    BY <1>6, <1>8, <2>1
<1> HIDE DEF T
<1>9. \A i \in 0 .. Width : i \in T
  BY <1>1, <1>7, <1>8, InductionUpTo
<1>10. \A i \in 0 .. Width : f[i] \in Nat \ {0}
  BY <1>9 DEF T
<1> QED
  BY <1>2, <1>5, <1>6, <1>10

\* The powers of a sum of exponents.
LEMMA PowerSum ==
    ASSUME DivisionAssumption, NEW a \in Nat, NEW b \in Nat, a + b <= Width
    PROVE  Power[a + b] = Power[a] * Power[b]
<1> DEFINE T == {i \in 0 .. b : Power[a + i] = Power[a] * Power[i]}
<1>0. Width \in Nat /\ a \in 0 .. Width
  BY WidthLemma
<1>1. 0 \in T
  <2>1. Power[0] = 1 /\ Power[a] \in Nat /\ a + 0 = a
    BY <1>0, PowerDoubles
  <2> QED
    BY <2>1
<1>2. ASSUME NEW i \in 0 .. b - 1, i \in T
      PROVE  i + 1 \in T
  <2>1. /\ i \in 0 .. Width - 1 /\ a + i \in 0 .. Width - 1
        /\ (a + i) + 1 = a + (i + 1) /\ i + 1 \in 0 .. b
    BY <1>0
  <2>2. Power[i + 1] = 2 * Power[i] /\ Power[(a + i) + 1] = 2 * Power[a + i]
    BY <2>1, PowerDoubles
  <2>3. i \in 0 .. Width /\ a \in 0 .. Width
    BY <1>0
  <2>4. PICK x \in Nat, y \in Nat : x = Power[a] /\ y = Power[i]
    BY <2>3, PowerDoubles
  <2>5. Power[a + i] = x * y
    BY <1>2, <2>4
  <2>6. 2 * (x * y) = x * (2 * y)
    OBVIOUS
  <2> QED
    BY <2>1, <2>2, <2>4, <2>5, <2>6
<1> HIDE DEF T
<1>3. b \in 0 .. b /\ \A i \in 0 .. b : i \in T
  BY <1>1, <1>2, InductionUpTo
<1> QED
  BY <1>3 DEF T

\* A word is twice its half.
LEMMA WordLemma ==
    ASSUME DivisionAssumption
    PROVE  /\ Half \in Nat \ {0} /\ U = 2 * Half /\ U \in Nat /\ U > 0
           /\ U = Power[Width]
<1>1. Width - 1 \in 0 .. Width - 1 /\ (Width - 1) + 1 = Width /\ Width - 1 \in 0 .. Width
  BY WidthLemma
<1>2. PICK h \in Nat \ {0} : h = Power[Width - 1]
  BY <1>1, PowerDoubles
<1>3. Power[Width] = 2 * h
  BY <1>1, <1>2, PowerDoubles
<1>4. (2 * h) \div 2 = h
  OBVIOUS
<1> QED
  BY <1>2, <1>3, <1>4 DEF U, Half

-----------------------------------------------------------------------------
(* Arithmetic *)

LEMMA Monotone ==
    ASSUME NEW a \in Nat, NEW b \in Nat, NEW c \in Nat, a <= b
    PROVE  a * c <= b * c
<1>1. PICK e \in Nat : b = a + e
  <2>1. b - a \in Nat /\ b = a + (b - a)
    OBVIOUS
  <2> QED
    BY <2>1
<1>2. b * c = a * c + e * c /\ e * c \in Nat /\ a * c \in Nat
  BY <1>1
<1> QED
  BY <1>2

LEMMA Quotients ==
    ASSUME NEW x \in Nat, NEW p \in Nat \ {0}
    PROVE  /\ x \div p \in Nat
           /\ (x \div p) * p <= x /\ x < (x \div p) * p + p
OBVIOUS

\* The quotient is the only number that leaves a remainder less than the divisor.
LEMMA QuotientIs ==
    ASSUME NEW x \in Nat, NEW p \in Nat \ {0}, NEW z \in Nat, NEW r0 \in Nat,
           x = z * p + r0, r0 < p
    PROVE  x \div p = z
<1>1. PICK e \in Nat : e = x \div p
  BY Quotients
<1>2. e * p <= x /\ x < e * p + p
  BY <1>1, Quotients
<1>3. ~ (e + 1 <= z)
  <2> SUFFICES ASSUME e + 1 <= z PROVE FALSE
    OBVIOUS
  <2>1. (e + 1) * p <= z * p
    BY Monotone
  <2>2. (e + 1) * p = e * p + p /\ e * p \in Nat /\ z * p \in Nat
    OBVIOUS
  <2> QED
    BY <1>2, <2>1, <2>2
<1>4. ~ (z + 1 <= e)
  <2> SUFFICES ASSUME z + 1 <= e PROVE FALSE
    OBVIOUS
  <2>1. (z + 1) * p <= e * p
    BY Monotone
  <2>2. (z + 1) * p = z * p + p /\ e * p \in Nat /\ z * p \in Nat
    OBVIOUS
  <2> QED
    BY <1>2, <2>1, <2>2
<1> QED
  BY <1>1, <1>3, <1>4

\* The test of a bit compares with the divisor shifted up.
LEMMA ShiftLess ==
    ASSUME NEW x \in Nat, NEW p \in Nat \ {0}, NEW y \in Nat
    PROVE  (x \div p < y) <=> (x < y * p)
<1>1. PICK e \in Nat : e = x \div p
  BY Quotients
<1>2. e * p <= x /\ x < e * p + p
  BY <1>1, Quotients
<1>3. e * p \in Nat /\ y * p \in Nat /\ (e + 1) * p = e * p + p
  OBVIOUS
<1>4. ASSUME e < y
      PROVE  x < y * p
  <2>1. (e + 1) * p <= y * p
    BY <1>4, Monotone
  <2> QED
    BY <1>2, <1>3, <2>1
<1>5. ASSUME y <= e
      PROVE  y * p <= x
  <2>1. y * p <= e * p
    BY <1>5, Monotone
  <2> QED
    BY <1>2, <1>3, <2>1
<1> QED
  BY <1>1, <1>3, <1>4, <1>5

\* Numbers below the word, in the next word, and negative ones.
LEMMA Words ==
    ASSUME NEW u \in Nat \ {0}, NEW x \in Int
    PROVE  /\ x \in 0 .. u - 1 => x % u = x
           /\ x \in u .. 2 * u - 1 => x % u = x - u
           /\ x \in -u .. -1 => x % u = x + u
OBVIOUS

LEMMA MinusZero == \A x \in Int : x <= 0 /\ x >= 0 => -x = x
OBVIOUS

\* A multiple shifted down again.
LEMMA Exact ==
    ASSUME NEW x \in Nat, NEW p \in Nat \ {0}
    PROVE  (x * p) \div p = x
<1>1. x * p \in Nat /\ x * p = x * p + 0 /\ 0 \in Nat /\ 0 < p
  OBVIOUS
<1> QED
  BY <1>1, QuotientIs

-----------------------------------------------------------------------------
(* The invariant *)

Num == Magnitude(call.n)
Div == Magnitude(call.by)

\* The marks left before bit k, with j passes to come and e bits in the first one.
Marks(k, j, e) == LET left == k + 1 + j * Chunk IN IF left > e THEN left - e ELSE 0

\* The bits below c marks hold z.
Below(c, z) == q = U - Power[Width - c] + z /\ z < Power[Width - c]

\* The dividend is z times the divisor at bit k + 1, and the remainder.
Divided(k, z) == Num = z * (d * Power[k + 1]) + r /\ r < d * Power[k + 1]

Scaled(j) == d = Div * Power[j * Chunk]

\* Before bit k.
Pass(k, j, e, z) ==
    /\ Div # 0
    /\ Scaled(j)
    /\ Divided(k, z)
    /\ Below(Marks(k, j, e), z)

Passing(k) == \E j \in 0 .. 3, e \in 1 .. Chunk, z \in 0 .. Num : Pass(k, j, e, z)

Signs == sign = [top |-> (call.n < 0) # (call.by < 0), rest |-> call.n < 0]

Types ==
    /\ call \in [n : Dividends, by : Divisors, mod : BOOLEAN]
    /\ TypeOK

\* Before each step of the routine.
Steps ==
    /\ pc = At("enter") => r = Unsigned(call.n) /\ d = Unsigned(call.by) /\ q = 0 /\ out = None
    /\ pc # At("enter") => Signs
    /\ pc = At("scale") => r = Num /\ Scaled(0) /\ q = 0 /\ d * Power[Chunk] <= Num
    /\ pc = At("scale_again") => r = Num /\ Scaled(1) /\ q = Ones(3) /\ d * Power[Chunk] <= Num
    /\ \A k \in 0 .. Chunk - 1 : pc = Bit(k) => Passing(k)

IInv == Types /\ Steps /\ QuotientRight

-----------------------------------------------------------------------------
(* Numbers and marks *)

\* The routine divides magnitudes.
LEMMA Magnitudes ==
    ASSUME DivisionAssumption, NEW n \in Word
    PROVE  /\ Magnitude(n) \in 0 .. Half
           /\ Unsigned(n) \in 0 .. U - 1
           /\ (IF n < 0 THEN Negated(Unsigned(n)) ELSE Unsigned(n)) = Magnitude(n)
<1> USE WordLemma
<1>1. n \in -Half .. Half - 1 /\ n \in Int
  BY DEF Word
<1>2. CASE n < 0
  <2>1. n \in -U .. -1 /\ -(n + U) \in -U .. -1 /\ n + U \in Int
    BY <1>1, <1>2
  <2>2. n % U = n + U
    BY <2>1, Words
  <2>3. (-(n + U)) % U = -(n + U) + U
    BY <2>1, Words
  <2> QED
    BY <1>1, <1>2, <2>2, <2>3 DEF Unsigned, Negated, Magnitude
<1>3. CASE n >= 0
  <2>1. n \in 0 .. U - 1
    BY <1>1, <1>3
  <2>2. n % U = n
    BY <2>1, Words
  <2> QED
    BY <1>1, <1>3, <2>2 DEF Unsigned, Magnitude
<1> QED
  BY <1>1, <1>2, <1>3

LEMMA CallLemma ==
    ASSUME DivisionAssumption, Types
    PROVE  /\ call.n \in Word /\ call.by \in Word /\ call.mod \in BOOLEAN
           /\ Num \in 0 .. Half /\ Div \in 0 .. Half
           /\ r \in 0 .. U - 1 /\ d \in 0 .. U - 1 /\ q \in 0 .. U - 1
<1>1. call.n \in Dividends /\ call.by \in Divisors /\ call.mod \in BOOLEAN
  BY DEF Types
<1>2. call.n \in Word /\ call.by \in Word
  BY <1>1 DEF DivisionAssumption
<1> QED
  BY <1>1, <1>2, Magnitudes DEF Num, Div, Types, TypeOK

\* The bits of the passes to come.
LEMMA Chunks ==
    ASSUME DivisionAssumption, NEW j \in 0 .. 3
    PROVE  /\ j * Chunk \in 0 .. Width - Chunk
           /\ j # 0 => j - 1 \in 0 .. 3 /\ (j - 1) * Chunk \in Nat /\ (j - 1) * Chunk + Chunk = j * Chunk
<1>1. Chunk \in Nat /\ Width = 4 * Chunk
  BY WidthLemma
<1>2. j \in {0, 1, 2, 3}
  OBVIOUS
<1> QED
  BY <1>1, <1>2

LEMMA MarksLemma ==
    ASSUME DivisionAssumption, NEW k \in 0 .. Chunk - 1, NEW j \in 0 .. 3, NEW e \in 1 .. Chunk
    PROVE  /\ Marks(k, j, e) \in 0 .. Width - 1
           /\ k > 0 => Marks(k - 1, j, e) = IF Marks(k, j, e) > 0 THEN Marks(k, j, e) - 1 ELSE 0
           /\ k = 0 /\ j = 0 => Marks(k, j, e) = 0
           /\ k = 0 /\ j # 0 => Marks(k, j, e) > 0 /\ Marks(Chunk - 1, j - 1, e) = Marks(k, j, e) - 1
<1>1. Chunk \in Nat /\ Width = 4 * Chunk
  BY WidthLemma
<1>2. PICK m \in Nat : m = j * Chunk /\ m <= Width - Chunk /\ (j # 0 => m - Chunk = (j - 1) * Chunk)
                       /\ (j # 0 => m >= Chunk) /\ (j = 0 => m = 0)
  BY <1>1, Chunks
<1> QED
  BY <1>1, <1>2 DEF Marks

-----------------------------------------------------------------------------
(* One bit *)

LEMMA BitOfDividend ==
    ASSUME NEW n \in Nat, NEW z \in Nat, NEW w \in Nat \ {0}, NEW x \in Nat,
           n = z * (2 * w) + x, x < 2 * w
    PROVE  /\ x >= w => n = (2 * z + 1) * w + (x - w) /\ x - w \in 0 .. w - 1 /\ 2 * z + 1 <= n
           /\ x < w => n = (2 * z) * w + x /\ 2 * z <= n
<1>1. PICK y \in Nat : y = z * w
  OBVIOUS
<1>2. z * (2 * w) = 2 * y /\ (2 * z) * w = 2 * y /\ (2 * z + 1) * w = 2 * y + w
  BY <1>1
<1>3. z <= y
  <2>1. 1 * z <= w * z
    BY Monotone
  <2> QED
    BY <1>1, <2>1
<1> QED
  BY <1>2, <1>3

LEMMA BitOfQuotient ==
    ASSUME NEW u \in Nat \ {0}, NEW h \in Nat \ {0}, NEW z \in Nat, NEW b \in {0, 1}, NEW x,
           z < h, x = u - h + z
    PROVE  /\ 2 * h <= u => /\ (2 * x + b) % u = u - 2 * h + (2 * z + b)
                            /\ 2 * z + b < 2 * h /\ 2 * x >= u
           /\ h = u /\ 2 * z + b < u => (2 * x + b) % u = 2 * z + b /\ ~(2 * x >= u)
<1>1. PICK y \in Int : y = 2 * x + b
  OBVIOUS
<1>2. ASSUME 2 * h <= u
      PROVE  /\ (2 * x + b) % u = u - 2 * h + (2 * z + b)
             /\ 2 * z + b < 2 * h /\ 2 * x >= u
  <2>1. 2 * x + b \in u .. 2 * u - 1 /\ 2 * z + b < 2 * h /\ 2 * x >= u
    BY <1>2
  <2>2. y \in u .. 2 * u - 1
    BY <1>1, <2>1
  <2>3. y % u = y - u
    BY <2>2, Words
  <2> QED
    BY <1>1, <2>1, <2>3
<1>3. ASSUME h = u, 2 * z + b < u
      PROVE  (2 * x + b) % u = 2 * z + b /\ ~(2 * x >= u)
  <2>1. 2 * x + b \in 0 .. u - 1 /\ 2 * x + b = 2 * z + b
    BY <1>3
  <2>2. y \in 0 .. u - 1
    BY <1>1, <2>1
  <2>3. y % u = y
    BY <2>2, Words
  <2> QED
    BY <1>1, <1>3, <2>1, <2>3
<1> QED
  BY <1>2, <1>3

\* No power is past the word.
LEMMA PowerInWord ==
    ASSUME DivisionAssumption, NEW i \in 0 .. Width
    PROVE  Power[i] \in 1 .. U
<1>1. i \in Nat /\ Width - i \in Nat /\ Width - i \in 0 .. Width /\ i + (Width - i) = Width
  BY WidthLemma
<1>2. U = Power[i] * Power[Width - i]
  BY <1>1, PowerSum, WordLemma
<1>3. PICK x \in Nat \ {0}, y \in Nat \ {0} : x = Power[i] /\ y = Power[Width - i]
  BY <1>1, PowerDoubles
<1>4. 1 * x <= y * x
  BY Monotone
<1> QED
  BY <1>2, <1>3, <1>4

\* A bit of the quotient is made: what the dividend and the quotient are then.
Made(k, c, y) ==
    /\ Num = y * (d * Power[k]) + r' /\ r' < d * Power[k]
    /\ q' = U - Power[Width - c] + y /\ y < Power[Width - c]

LEMMA SubtractLemma ==
    ASSUME DivisionAssumption, Types, NEW k \in 0 .. Chunk - 1, NEW c \in 0 .. Width - 1,
           NEW z \in 0 .. Num, Divided(k, z), Below(c, z), Subtract(k)
    PROVE  /\ r' \in 0 .. U - 1 /\ q' \in 0 .. U - 1
           /\ (2 * q >= U) <=> (c > 0)
           /\ \E y \in 0 .. Num : Made(k, IF c > 0 THEN c - 1 ELSE 0, y)
<1>0. /\ Num \in 0 .. Half /\ Half \in Nat /\ U \in Nat \ {0} /\ Half < U
      /\ r \in 0 .. U - 1 /\ d \in 0 .. U - 1 /\ q \in 0 .. U - 1
  BY CallLemma, WordLemma
<1>1. PICK p \in Nat \ {0} : p = Power[k] /\ Power[k + 1] = 2 * p
  <2>1. k \in 0 .. Width - 1 /\ k \in 0 .. Width
    BY WidthLemma
  <2> QED
    BY <2>1, PowerDoubles
<1>2. PICK w \in Nat : w = d * p /\ d * (2 * p) = 2 * w
  <2>1. d * p \in Nat /\ d * (2 * p) = 2 * (d * p)
    BY <1>0
  <2> QED
    BY <2>1
<1>3. PICK n \in Nat, x \in Nat : n = Num /\ x = r
  BY <1>0
<1>4. n = z * (2 * w) + x /\ x < 2 * w /\ w # 0
  BY <1>1, <1>2, <1>3 DEF Divided
<1>5. z \in Nat /\ n <= Half
  BY <1>0, <1>3
<1>6. (Lsr(r, k) >= d) <=> (x >= w)
  <2>1. (x \div p < d) <=> (x < d * p)
    BY <1>0, ShiftLess
  <2>2. x \div p \in Nat
    BY Quotients
  <2> QED
    BY <1>0, <1>1, <1>2, <1>3, <2>1, <2>2 DEF Lsr
<1>7. PICK b \in {0, 1} : b = IF x >= w THEN 1 ELSE 0
  OBVIOUS
<1>8. PICK y \in Nat : y = 2 * z + b
  BY <1>5
<1>9. q' = (2 * q + b) % U
  BY <1>6, <1>7 DEF Subtract
<1>10. /\ r' \in 0 .. U - 1 /\ r' < w
       /\ n = y * w + r' /\ y <= n
  <2>1. CASE x >= w
    <3>1. n = (2 * z + 1) * w + (x - w) /\ x - w \in 0 .. w - 1 /\ 2 * z + 1 <= n
      BY <1>4, <1>5, <2>1, BitOfDividend
    <3>2. w \in 0 .. U - 1 /\ x - w \in 0 .. U - 1 /\ x - w \in Int /\ w \in Int
      BY <1>0, <1>3, <2>1
    <3>3. w % U = w /\ (x - w) % U = x - w
      BY <1>0, <3>2, Words
    <3>4. Lsl(d, k) = w
      BY <1>1, <1>2, <3>3 DEF Lsl
    <3>5. r' = x - w
      BY <1>3, <1>6, <2>1, <3>3, <3>4 DEF Subtract
    <3>6. y = 2 * z + 1
      BY <1>7, <1>8, <2>1
    <3> QED
      BY <3>1, <3>2, <3>5, <3>6
  <2>2. CASE ~ (x >= w)
    <3>1. n = (2 * z) * w + x /\ 2 * z <= n
      BY <1>4, <1>5, <2>2, BitOfDividend
    <3>2. r' = x
      BY <1>3, <1>6, <2>2 DEF Subtract
    <3>3. y = 2 * z
      BY <1>7, <1>8, <2>2
    <3> QED
      BY <1>0, <1>3, <2>2, <3>1, <3>2, <3>3
  <2> QED
    BY <2>1, <2>2
<1>11. PICK h \in Nat \ {0} : h = Power[Width - c] /\ h <= U
  <2>1. Width - c \in 0 .. Width
    BY WidthLemma
  <2> QED
    BY <2>1, PowerInWord, WordLemma
<1>12. q = U - h + z /\ z < h
  BY <1>11 DEF Below
<1>13. d * Power[k] = w
  BY <1>1, <1>2
<1>14. y <= n /\ r' \in 0 .. U - 1
  BY <1>10
<1>15. Num = y * (d * Power[k]) + r' /\ r' < d * Power[k]
  <2>1. n = y * w + r' /\ r' < w
    BY <1>10
  <2> QED
    BY <1>3, <1>13, <2>1, Zenon
<1>16. CASE c > 0
  <2>1. Width - c \in 0 .. Width - 1 /\ (Width - c) + 1 = Width - (c - 1) /\ Width - (c - 1) \in 0 .. Width
    BY <1>16, WidthLemma
  <2>2. Power[Width - (c - 1)] = 2 * h /\ 2 * h <= U
    BY <1>11, <2>1, PowerDoubles, PowerInWord, WordLemma
  <2>3. (2 * q + b) % U = U - 2 * h + (2 * z + b) /\ 2 * z + b < 2 * h /\ 2 * q >= U
    BY <1>0, <1>5, <1>12, <2>2, BitOfQuotient
  <2>4. q' = U - 2 * h + y /\ y < 2 * h /\ q' \in 0 .. U - 1
    BY <1>0, <1>8, <1>9, <2>2, <2>3
  <2>5. Made(k, c - 1, y)
    BY <1>15, <2>2, <2>4 DEF Made
  <2>6. y \in 0 .. Num
    BY <1>0, <1>3, <1>14
  <2> QED
    BY <1>14, <1>16, <2>3, <2>4, <2>5, <2>6
<1>17. CASE c = 0
  <2>1. h = U
    <3>1. Width - c = Width
      BY <1>17, WidthLemma
    <3> QED
      BY <1>11, <3>1, WordLemma
  <2>2. 2 * z + b < U
    BY <1>0, <1>5, <1>8, <1>14
  <2>3. (2 * q + b) % U = 2 * z + b /\ ~ (2 * q >= U)
    BY <1>0, <1>5, <1>12, <2>1, <2>2, BitOfQuotient
  <2>4. q' = U - h + y /\ y < h /\ q' \in 0 .. U - 1
    BY <1>0, <1>8, <1>9, <2>1, <2>2, <2>3
  <2>5. Made(k, 0, y)
    <3>1. Power[Width - 0] = h
      BY <1>11, <1>17
    <3> QED
      BY <1>15, <2>4, <3>1 DEF Made
  <2>6. y \in 0 .. Num
    BY <1>0, <1>3, <1>14
  <2> QED
    BY <1>14, <1>17, <2>3, <2>4, <2>5, <2>6
<1> QED
  BY <1>16, <1>17

-----------------------------------------------------------------------------
(* The steps *)

\* A place in the routine is one step or one bit.
LEMMA Places ==
    /\ \A k, m : Bit(k) = Bit(m) => k = m
    /\ \A k : At("enter") # Bit(k) /\ At("scale") # Bit(k) /\ At("scale_again") # Bit(k) /\ At("done") # Bit(k)
    /\ At("enter") # At("scale") /\ At("enter") # At("scale_again") /\ At("enter") # At("done")
    /\ At("scale") # At("scale_again") /\ At("scale") # At("done") /\ At("scale_again") # At("done")
<1>1. \A k, m : Bit(k) = Bit(m) => k = m
  <2> TAKE k, m
  <2> HAVE Bit(k) = Bit(m)
  <2>1. Bit(k)[2] = k /\ Bit(m)[2] = m
    BY DEF Bit
  <2> QED
    BY <2>1
<1>2. \A k : Bit(k)[1] = "bit"
  BY DEF Bit
<1>3. /\ At("enter")[1] = "enter" /\ At("scale")[1] = "scale"
      /\ At("scale_again")[1] = "scale_again" /\ At("done")[1] = "done"
  BY DEF At
<1>4. \A k : At("enter") # Bit(k) /\ At("scale") # Bit(k) /\ At("scale_again") # Bit(k) /\ At("done") # Bit(k)
  <2> TAKE k
  <2>1. Bit(k)[1] = "bit"
    BY <1>2
  <2> QED
    BY <1>3, <2>1
<1> QED
  BY <1>1, <1>3, <1>4

\* What holds after a step to a bit.
LEMMA ToBit ==
    ASSUME NEW m \in 0 .. Chunk - 1, pc' = Bit(m), Passing(m)', Signs', Types'
    PROVE  IInv'
<1>1. Steps'
  BY Places DEF Steps
<1>2. QuotientRight'
  BY Places DEF QuotientRight, Done
<1> QED
  BY <1>1, <1>2 DEF IInv

LEMMA TypesToBit ==
    ASSUME Types, UNCHANGED call, r' \in 0 .. U - 1, d' \in 1 .. U - 1, q' \in 0 .. U - 1,
           NEW m \in 0 .. Chunk - 1, pc' = Bit(m), UNCHANGED out
    PROVE  Types'
<1>1. pc' \in {Bit(k) : k \in 0 .. Chunk - 1} /\ d' # 0 /\ d' \in 0 .. U - 1
  BY WordLemma
<1> QED
  BY <1>1 DEF Types, TypeOK

\* Before the first bit of the quotient.
LEMMA FirstPass ==
    ASSUME DivisionAssumption, NEW m \in 1 .. Chunk, NEW j \in 0 .. 3,
           Num' \in Nat, r' = Num', Div' # 0, Scaled(j)', r' < d' * Power[m],
           q' = U - Power[Width - j * Chunk], d' \in Nat
    PROVE  Passing(m - 1)'
<1>1. Chunk \in Nat /\ (m - 1) + 1 = m /\ m \in Nat /\ 0 \in 0 .. Num'
  BY WidthLemma
<1>2. Marks(m - 1, j, m) = j * Chunk
  <2>1. PICK x \in Nat : x = j * Chunk
    BY <1>1
  <2> QED
    BY <1>1, <2>1 DEF Marks
<1>3. Width - j * Chunk \in 0 .. Width
  <2>1. PICK x : x = j * Chunk /\ x \in 0 .. Width - Chunk
    BY Chunks
  <2> QED
    BY <2>1, WidthLemma
<1>4. PICK h \in Nat \ {0} : h = Power[Width - j * Chunk]
  BY <1>3, PowerDoubles
<1>5. Below(j * Chunk, 0)'
  BY <1>4, WordLemma DEF Below
<1>6. Divided(m - 1, 0)'
  <2>1. PICK x \in Nat : x = d' * Power[m]
    <3>1. m \in 0 .. Width
      BY WidthLemma
    <3> QED
      BY <3>1, PowerDoubles
  <2>2. 0 * (d' * Power[m]) = 0
    BY <2>1
  <2> QED
    BY <1>1, <2>2 DEF Divided
<1>7. Pass(m - 1, j, m, 0)'
  BY <1>2, <1>5, <1>6 DEF Pass
<1> QED
  BY <1>1, <1>7 DEF Passing

\* The test that ends the scaling.
LEMMA FitsLemma ==
    ASSUME DivisionAssumption, NEW x \in Nat, NEW y \in Nat, NEW i \in 0 .. Width
    PROVE  Fits(x, y, i) <=> x < y * Power[i]
<1>1. PICK p \in Nat \ {0} : p = Power[i]
  BY PowerDoubles
<1> QED
  BY <1>1, ShiftLess DEF Fits, Lsr

LEMMA InitIInv ==
    ASSUME DivisionAssumption, Init
    PROVE  IInv
<1>1. call.n \in Word /\ call.by \in Word
  BY DEF Init, DivisionAssumption
<1>2. Unsigned(call.n) \in 0 .. U - 1 /\ Unsigned(call.by) \in 0 .. U - 1
  BY <1>1, Magnitudes
<1>3. Types
  BY <1>2, WordLemma, Places DEF Init, Types, TypeOK, None
<1>4. Steps
  BY Places DEF Init, Steps
<1>5. QuotientRight
  BY Places DEF Init, QuotientRight, Done
<1> QED
  BY <1>3, <1>4, <1>5 DEF IInv

LEMMA BitOfPassIInv ==
    ASSUME DivisionAssumption, IInv, BitOfPass
    PROVE  IInv'
<1>0. Types
  BY DEF IInv
<1>1. PICK k \in 1 .. Chunk - 1 :
          pc = Bit(k) /\ Subtract(k) /\ pc' = Bit(k - 1) /\ UNCHANGED <<call, d, sign, out>>
  BY DEF BitOfPass
<1>2. k \in 0 .. Chunk - 1 /\ k - 1 \in 0 .. Chunk - 1 /\ (k - 1) + 1 = k /\ k > 0
  BY WidthLemma
<1>3. PICK j \in 0 .. 3, e \in 1 .. Chunk, z \in 0 .. Num : Pass(k, j, e, z)
  BY <1>1, <1>2 DEF IInv, Steps, Passing
<1>4. PICK c \in 0 .. Width - 1 :
          c = Marks(k, j, e) /\ Marks(k - 1, j, e) = IF c > 0 THEN c - 1 ELSE 0
  BY <1>2, MarksLemma
<1>5. PICK y \in 0 .. Num : Made(k, IF c > 0 THEN c - 1 ELSE 0, y)
  BY <1>0, <1>1, <1>2, <1>3, <1>4, SubtractLemma DEF Pass
<1>6. r' \in 0 .. U - 1 /\ q' \in 0 .. U - 1
  BY <1>0, <1>1, <1>2, <1>3, <1>4, SubtractLemma DEF Pass
<1>7. Num' = Num /\ Div' = Div /\ d' = d
  BY <1>1 DEF Num, Div
<1>8. Pass(k - 1, j, e, y)'
  <2>1. Scaled(j)' /\ Div' # 0
    BY <1>3, <1>7 DEF Pass, Scaled
  <2>2. Divided(k - 1, y)'
    BY <1>2, <1>5, <1>7 DEF Made, Divided
  <2>3. Below(Marks(k - 1, j, e), y)'
    BY <1>4, <1>5 DEF Made, Below
  <2> QED
    BY <2>1, <2>2, <2>3 DEF Pass
<1>9. Passing(k - 1)'
  BY <1>7, <1>8 DEF Passing
<1>10. Signs'
  BY <1>1, Places DEF IInv, Steps, Signs
<1>11. Types'
  <2>1. d \in 1 .. U - 1
    BY <1>0, <1>1, <1>2 DEF Types, TypeOK
  <2> QED
    BY <1>0, <1>1, <1>2, <1>6, <2>1, TypesToBit
<1> QED
  BY <1>1, <1>2, <1>9, <1>10, <1>11, ToBit

\* The result gets the sign of the quotient.
LEMMA SignedLemma ==
    ASSUME DivisionAssumption, NEW m \in 0 .. Half
    PROVE  /\ Unsigned(m) = m
           /\ Negated(m) = Unsigned(-m)
           /\ m < Half => Signed(m) = m /\ Signed(Negated(m)) = -m
<1> USE WordLemma
<1>1. m \in 0 .. U - 1 /\ m \in Int /\ -m \in Int
  OBVIOUS
<1>2. m % U = m
  BY <1>1, Words
<1>3. CASE m <= 0
  <2>1. -m = m
    BY <1>1, <1>3, MinusZero
  <2> QED
    BY <1>2, <2>1 DEF Unsigned, Negated, Signed
<1>4. CASE ~ (m <= 0)
  <2>1. -m \in -U .. -1
    BY <1>4
  <2>2. (-m) % U = -m + U
    BY <1>1, <2>1, Words
  <2> QED
    BY <1>2, <1>4, <2>2 DEF Unsigned, Negated, Signed
<1> QED
  BY <1>3, <1>4

\* The quotient and the remainder of the magnitudes give the result.
LEMMA ResultLemma ==
    ASSUME DivisionAssumption, Types, Div # 0, NEW m \in Nat, NEW x \in Nat,
           Num = m * Div + x, x < Div, call.mod => call.by >= 0
    PROVE  [kind |-> "value",
            v |-> Signed(IF (call.n < 0) # (call.by < 0)
                           THEN Negated(IF call.mod THEN x ELSE m) ELSE IF call.mod THEN x ELSE m)] = Expected
<1>0. /\ call.n \in Word /\ call.by \in Word /\ call.mod \in BOOLEAN
      /\ Num \in 0 .. Half /\ Div \in 0 .. Half /\ Half \in Nat
      /\ call.n \in Int /\ call.by \in Int
  BY CallLemma, WordLemma DEF Word
<1>1. Magnitude(call.n) \div Magnitude(call.by) = m
  BY <1>0, QuotientIs DEF Num, Div
<1>2. m \in 0 .. Half
  <2>1. 1 * m <= Div * m
    BY <1>0, Monotone
  <2>2. m * Div = Div * m
    BY <1>0
  <2> QED
    BY <1>0, <2>1, <2>2
<1>3. call.by # 0
  BY DEF Div, Magnitude
<1>4. CASE ~ call.mod
  <2>1. Negated(m) = Unsigned(-m) /\ Unsigned(m) = m
    BY <1>2, SignedLemma
  <2> QED
    BY <1>1, <1>3, <1>4, <2>1 DEF Expected, Truncated
<1>5. CASE call.mod
  <2>1. call.by > 0 /\ Div = call.by /\ ~(call.by < 0)
    BY <1>0, <1>3, <1>5 DEF Div, Magnitude
  <2>2. x \in 0 .. Half /\ x < Half
    BY <1>0
  <2>3. Signed(x) = x /\ Signed(Negated(x)) = -x
    BY <2>2, SignedLemma
  <2>4. PICK y \in Nat : y = m * Div /\ y = call.by * m /\ -y = call.by * (-m)
    BY <1>0, <2>1
  <2>5. CASE call.n < 0
    <3>1. Truncated(call.n, call.by) = -m
      BY <1>1, <2>1, <2>5 DEF Truncated
    <3>2. Num = -call.n
      BY <2>5 DEF Num, Magnitude
    <3>3. call.n - call.by * (-m) = -x
      BY <1>0, <2>4, <3>2
    <3> QED
      BY <1>3, <1>5, <2>1, <2>3, <2>5, <3>1, <3>3 DEF Expected
  <2>6. CASE ~ (call.n < 0)
    <3>1. Truncated(call.n, call.by) = m
      BY <1>1, <2>1, <2>6 DEF Truncated
    <3>2. Num = call.n
      BY <2>6 DEF Num, Magnitude
    <3>3. call.n - call.by * m = x
      BY <1>0, <2>4, <3>2
    <3> QED
      BY <1>3, <1>5, <2>1, <2>3, <2>6, <3>1, <3>3 DEF Expected
  <2> QED
    BY <2>5, <2>6
<1> QED
  BY <1>0, <1>4, <1>5

LEMMA LastBitIInv ==
    ASSUME DivisionAssumption, IInv, LastBit
    PROVE  IInv'
<1>0. Types
  BY DEF IInv
<1>1. pc = Bit(0) /\ Subtract(0) /\ UNCHANGED <<call, sign>>
  BY DEF LastBit
<1>2. 0 \in 0 .. Chunk - 1 /\ Chunk - 1 \in 0 .. Chunk - 1 /\ (Chunk - 1) + 1 = Chunk /\ Chunk \in 0 .. Width
  BY WidthLemma
<1>3. PICK j \in 0 .. 3, e \in 1 .. Chunk, z \in 0 .. Num : Pass(0, j, e, z)
  BY <1>1, <1>2 DEF IInv, Steps, Passing
<1>4. PICK c \in 0 .. Width - 1 :
          /\ c = Marks(0, j, e) /\ (j = 0 => c = 0)
          /\ j # 0 => c > 0 /\ Marks(Chunk - 1, j - 1, e) = c - 1
  BY <1>2, MarksLemma
<1>5. PICK y \in 0 .. Num : Made(0, IF c > 0 THEN c - 1 ELSE 0, y)
  BY <1>0, <1>1, <1>2, <1>3, <1>4, SubtractLemma DEF Pass
<1>6. r' \in 0 .. U - 1 /\ q' \in 0 .. U - 1 /\ ((2 * q >= U) <=> (c > 0))
  BY <1>0, <1>1, <1>2, <1>3, <1>4, SubtractLemma DEF Pass
<1>7. /\ Num' = Num /\ Div' = Div
      /\ Num \in 0 .. Half /\ Div \in 0 .. Half /\ Half \in Nat /\ d \in 0 .. U - 1 /\ U \in Nat
      /\ Div # 0
  BY <1>0, <1>1, <1>3, CallLemma, WordLemma DEF Num, Div, Pass
<1>8. Num = y * d + r' /\ r' < d
  <2>1. d * Power[0] = d
    BY <1>7, PowerDoubles
  <2> QED
    BY <1>5, <2>1 DEF Made
<1>9. Signs'
  BY <1>1, Places DEF IInv, Steps, Signs
<1>10. CASE j # 0
  <2>1. d' = Lsr(d, Chunk) /\ pc' = Bit(Chunk - 1) /\ UNCHANGED out
    BY <1>4, <1>6, <1>10 DEF LastBit
  <2>2. PICK i \in 0 .. Width : i = (j - 1) * Chunk /\ i + Chunk = j * Chunk /\ i + Chunk <= Width /\ i \in Nat
    <3>1. PICK i : i = (j - 1) * Chunk /\ i \in Nat /\ i + Chunk = j * Chunk
      BY <1>10, Chunks
    <3>2. j * Chunk \in 0 .. Width - Chunk /\ Width \in Nat /\ Chunk \in Nat
      BY Chunks, WidthLemma
    <3> QED
      BY <3>1, <3>2
  <2>3. PICK p \in Nat \ {0}, s \in Nat \ {0} : p = Power[Chunk] /\ s = Power[i]
    BY <1>2, PowerDoubles
  <2>4. d = Div * (s * p)
    <3>1. Power[i + Chunk] = s * p
      BY <1>2, <2>2, <2>3, PowerSum
    <3> QED
      BY <1>3, <2>2, <3>1 DEF Pass, Scaled
  <2>5. PICK w \in Nat \ {0} : w = Div * s /\ d = w * p
    <3>1. Div * s \in Nat \ {0} /\ Div * (s * p) = (Div * s) * p
      BY <1>7
    <3> QED
      BY <2>4, <3>1
  <2>6. d' = w
    <3>1. (w * p) \div p = w
      BY Exact
    <3> QED
      BY <2>1, <2>3, <2>5, <3>1 DEF Lsr
  <2>7. d' \in 1 .. U - 1
    <3>1. 1 * w <= p * w
      BY Monotone
    <3> QED
      BY <1>7, <2>5, <2>6, <3>1
  <2>8. Pass(Chunk - 1, j - 1, e, y)'
    <3>1. Scaled(j - 1)' /\ Div' # 0
      BY <1>7, <2>2, <2>3, <2>5, <2>6 DEF Scaled
    <3>2. d' * Power[(Chunk - 1) + 1] = d
      BY <1>2, <2>3, <2>5, <2>6
    <3>3. Divided(Chunk - 1, y)'
      BY <1>7, <1>8, <3>2 DEF Divided
    <3>4. Below(Marks(Chunk - 1, j - 1, e), y)'
      BY <1>4, <1>5, <1>10 DEF Made, Below
    <3> QED
      BY <3>1, <3>3, <3>4 DEF Pass
  <2>9. Passing(Chunk - 1)'
    <3>1. j - 1 \in 0 .. 3
      BY <1>10
    <3> QED
      BY <1>7, <2>8, <3>1 DEF Passing
  <2>10. Types'
    BY <1>0, <1>1, <1>2, <1>6, <2>1, <2>7, TypesToBit
  <2> QED
    BY <1>2, <1>9, <2>1, <2>9, <2>10, ToBit
<1>11. CASE j = 0
  <2>1. /\ pc' = At("done") /\ UNCHANGED d
        /\ out' = [kind |-> "value", v |-> Signed(SignedLikeQuotient(IF call.mod THEN r' ELSE q'))]
    BY <1>4, <1>6, <1>11 DEF LastBit
  <2>2. d = Div
    <3>1. 0 * Chunk = 0 /\ Div * 1 = Div
      BY <1>7, WidthLemma
    <3> QED
      BY <1>3, <1>11, <3>1, PowerDoubles DEF Pass, Scaled
  <2>3. q' = y
    <3>1. Width - 0 = Width /\ c = 0
      BY <1>4, <1>11, WidthLemma
    <3>2. q' = U - Power[Width] + y
      BY <1>5, <3>1 DEF Made
    <3> QED
      BY <3>2, <1>7, WordLemma
  <2>4. ASSUME call.mod => call.by >= 0
        PROVE  out' = Expected
    <3>1. y \in Nat /\ r' \in Nat /\ Num = y * Div + r' /\ r' < Div
      BY <1>6, <1>7, <1>8, <2>2
    <3>2. [kind |-> "value",
           v |-> Signed(IF (call.n < 0) # (call.by < 0)
                          THEN Negated(IF call.mod THEN r' ELSE y) ELSE IF call.mod THEN r' ELSE y)] = Expected
      BY <1>0, <1>7, <2>4, <3>1, ResultLemma
    <3>3. sign.top = ((call.n < 0) # (call.by < 0))
      BY <1>1, Places DEF IInv, Steps, Signs
    <3> QED
      BY <2>1, <2>3, <3>2, <3>3 DEF SignedLikeQuotient
  <2>5. QuotientRight'
    BY <1>1, <2>4 DEF QuotientRight, Expected
  <2>6. Types'
    BY <1>0, <1>1, <1>6, <2>1, Places DEF Types, TypeOK
  <2>7. Steps'
    BY <1>9, <2>1, Places DEF Steps
  <2> QED
    BY <2>5, <2>6, <2>7 DEF IInv
<1> QED
  BY <1>10, <1>11

\* The divisor fits, and the first pass is entered at bit m - 1.
LEMMA ToFirstPass ==
    ASSUME DivisionAssumption, Types, UNCHANGED <<call, out>>, Signs',
           NEW m \in 1 .. Chunk, NEW j \in 0 .. 3, pc' = Bit(m - 1),
           r' = Num, d' \in 0 .. U - 1, Scaled(j)', Fits(r', d', m),
           q' = U - Power[Width - j * Chunk]
    PROVE  IInv'
<1>1. /\ Num' = Num /\ Div' = Div /\ Num \in 0 .. Half /\ Div \in 0 .. Half
      /\ Half \in Nat /\ U \in Nat /\ Half < U /\ m \in 0 .. Width /\ m - 1 \in 0 .. Chunk - 1
  <2>1. Num' = Num /\ Div' = Div
    BY DEF Num, Div
  <2>2. Num \in 0 .. Half /\ Div \in 0 .. Half
    BY CallLemma
  <2>3. m \in 0 .. Width /\ m - 1 \in 0 .. Chunk - 1
    <3>1. PICK n \in Nat : n = Chunk /\ Width = 4 * n
      BY WidthLemma
    <3>2. m \in 1 .. n /\ m \in Nat
      BY <3>1
    <3> QED
      BY <3>1, <3>2
  <2> QED
    BY <2>1, <2>2, <2>3, WordLemma
<1>2. r' < d' * Power[m] /\ r' \in Nat /\ r' \in 0 .. U - 1
  BY <1>1, FitsLemma
<1>3. d' # 0
  <2> SUFFICES ASSUME d' = 0 PROVE FALSE
    OBVIOUS
  <2>1. d' * Power[m] = 0
    BY <1>1, PowerDoubles
  <2> QED
    BY <1>2, <2>1
<1>4. Div' # 0
  <2> SUFFICES ASSUME Div' = 0 PROVE FALSE
    OBVIOUS
  <2>1. j * Chunk \in 0 .. Width
    <3>1. PICK i : i = j * Chunk /\ i \in 0 .. Width - Chunk
      BY Chunks
    <3> QED
      BY <3>1, WidthLemma
  <2>2. Div' * Power[j * Chunk] = 0
    BY <2>1, PowerDoubles
  <2> QED
    BY <1>3, <2>2 DEF Scaled
<1>5. Passing(m - 1)'
  BY <1>1, <1>2, <1>4, FirstPass
<1>6. q' \in 0 .. U - 1
  <2>1. PICK i : i = j * Chunk /\ i \in 0 .. Width - Chunk
    BY Chunks
  <2>2. Width - i \in 0 .. Width
    BY <2>1, WidthLemma
  <2>3. Power[Width - i] \in 1 .. U
    BY <2>2, PowerInWord
  <2> QED
    BY <1>1, <2>1, <2>3
<1>7. d' \in 1 .. U - 1
  BY <1>1, <1>3
<1>8. Types'
  BY <1>1, <1>2, <1>6, <1>7, TypesToBit
<1> QED
  BY <1>1, <1>5, <1>8, ToBit

\* The chunks of the marks.
LEMMA OnesLemma ==
    ASSUME DivisionAssumption
    PROVE  /\ Ones(3) = U - Power[Width - 1 * Chunk]
           /\ Ones(3) + Ones(2) + 0 = U - Power[Width - 2 * Chunk]
           /\ Ones(3) + Ones(2) + Ones(1) = U - Power[Width - 3 * Chunk]
<1>1. /\ Chunk \in Nat /\ Chunk \in 0 .. Width
      /\ Width - 1 * Chunk = 3 * Chunk /\ Width - 2 * Chunk = 2 * Chunk /\ Width - 3 * Chunk = 1 * Chunk
      /\ Width = 3 * Chunk + Chunk /\ 3 * Chunk = 2 * Chunk + Chunk /\ 2 * Chunk = 1 * Chunk + Chunk
      /\ \A k \in {1, 2, 3} : k * Chunk \in 0 .. Width /\ k * Chunk + Chunk <= Width
  <2>1. PICK n \in Nat : n = Chunk /\ Width = 4 * n
    BY WidthLemma
  <2>2. \A k \in {1, 2, 3} : k * n \in 0 .. 4 * n /\ k * n + n <= 4 * n
    <3>1. 1 * n \in 0 .. 4 * n /\ 2 * n \in 0 .. 4 * n /\ 3 * n \in 0 .. 4 * n
      OBVIOUS
    <3> QED
      BY <3>1
  <2>3. 4 * n - 1 * n = 3 * n /\ 4 * n - 2 * n = 2 * n /\ 4 * n - 3 * n = 1 * n
    OBVIOUS
  <2>4. 4 * n = 3 * n + n /\ 3 * n = 2 * n + n /\ 2 * n = 1 * n + n /\ n \in 0 .. 4 * n
    OBVIOUS
  <2> QED
    BY <2>1, <2>2, <2>3, <2>4
<1>2. ASSUME NEW k \in {1, 2, 3}
      PROVE  Ones(k) = Power[k * Chunk + Chunk] - Power[k * Chunk]
  <2>1. k * Chunk \in Nat
    BY <1>1
  <2>2. Power[k * Chunk + Chunk] = Power[k * Chunk] * Power[Chunk]
    BY <1>1, <2>1, PowerSum
  <2>3. PICK x \in Nat, p \in Nat : x = Power[k * Chunk] /\ p = Power[Chunk]
    BY <1>1, PowerDoubles
  <2>4. (p - 1) * x = x * p - x
    OBVIOUS
  <2> QED
    BY <2>2, <2>3, <2>4 DEF Ones
<1>3. PICK a \in Nat, b \in Nat, c \in Nat :
          a = Power[1 * Chunk] /\ b = Power[2 * Chunk] /\ c = Power[3 * Chunk]
  BY <1>1, PowerDoubles
<1>4. Ones(3) = U - c /\ Ones(2) = c - b /\ Ones(1) = b - a
  BY <1>1, <1>2, <1>3, WordLemma
<1> QED
  BY <1>1, <1>3, <1>4, WordLemma

\* The divisor moved up a chunk, when that does not pass the dividend.
LEMMA MoveUp ==
    ASSUME DivisionAssumption, NEW j \in 0 .. 2, NEW x \in Nat, x = Div * Power[j * Chunk],
           Div \in Nat, x * Power[Chunk] <= Num, Num \in 0 .. Half
    PROVE  /\ Lsl(x, Chunk) \in 0 .. Half
           /\ Lsl(x, Chunk) = x * Power[Chunk]
           /\ Lsl(x, Chunk) = Div * Power[(j + 1) * Chunk]
<1>1. PICK i \in Nat : i = j * Chunk /\ i + Chunk = (j + 1) * Chunk /\ i + Chunk <= Width /\ i \in 0 .. Width
                       /\ Chunk \in Nat /\ Chunk \in 0 .. Width
  <2>1. PICK n \in Nat : n = Chunk /\ Width = 4 * n
    BY WidthLemma
  <2>2. j * n \in Nat /\ j * n + n = (j + 1) * n /\ j * n + n <= 4 * n /\ j * n \in 0 .. 4 * n
    <3>1. CASE j = 0
      BY <3>1
    <3>2. CASE j = 1
      BY <3>2
    <3>3. CASE j = 2
      BY <3>3
    <3> QED
      BY <3>1, <3>2, <3>3
  <2>3. n \in 0 .. 4 * n
    OBVIOUS
  <2> QED
    BY <2>1, <2>2, <2>3
<1>2. PICK p \in Nat \ {0}, s \in Nat \ {0} : p = Power[Chunk] /\ s = Power[i]
  BY <1>1, PowerDoubles
<1>3. Power[i + Chunk] = s * p
  BY <1>1, <1>2, PowerSum
<1>4. PICK y \in Nat : y = x * p /\ y = Div * (s * p)
  <2>1. x * p \in Nat /\ (Div * s) * p = Div * (s * p)
    OBVIOUS
  <2> QED
    BY <1>1, <1>2, <2>1
<1>5. y \in 0 .. Half /\ y \in 0 .. U - 1 /\ y \in Int
  BY <1>2, <1>4, WordLemma
<1>6. y % U = y
  BY <1>5, Words, WordLemma
<1> QED
  BY <1>1, <1>2, <1>3, <1>4, <1>5, <1>6 DEF Lsl

LEMMA EnterIInv ==
    ASSUME DivisionAssumption, IInv, Enter
    PROVE  IInv'
<1>0. Types
  BY DEF IInv
<1>1. /\ pc = At("enter") /\ UNCHANGED <<call, q, out>>
      /\ r = Unsigned(call.n) /\ d = Unsigned(call.by) /\ q = 0
  BY DEF Enter, IInv, Steps
<1>2. /\ call.n \in Word /\ call.by \in Word
      /\ Num \in 0 .. Half /\ Div \in 0 .. Half /\ Half \in Nat /\ U \in Nat /\ Half < U
  BY <1>0, CallLemma, WordLemma
<1>3. r' = Num
  BY <1>1, <1>2, Magnitudes DEF Enter, Num
<1>4. d' = Div
  BY <1>1, <1>2, Magnitudes DEF Enter, Div
<1>5. Num' = Num /\ Div' = Div
  BY <1>1 DEF Num, Div
<1>6. Signs'
  BY <1>1 DEF Enter, Signs
<1>7. Scaled(0)'
  <2>1. 0 * Chunk = 0 /\ Div * 1 = Div
    BY <1>2, WidthLemma
  <2> QED
    BY <1>4, <1>5, <2>1, PowerDoubles DEF Scaled
<1>8. q' = U - Power[Width - 0 * Chunk] /\ d' \in 0 .. U - 1
  <2>1. Width - 0 * Chunk = Width
    BY WidthLemma
  <2> QED
    BY <1>1, <1>2, <1>4, <2>1, WordLemma
<1>9. Low \in 1 .. Chunk /\ Chunk \in 1 .. Chunk /\ 0 \in 0 .. 3 /\ Chunk \in 0 .. Width
  BY WidthLemma
<1>10. CASE Fits(r', d', Low)
  <2>1. pc' = Bit(Low - 1)
    BY <1>10 DEF Enter
  <2> QED
    BY <1>0, <1>1, <1>3, <1>6, <1>7, <1>8, <1>9, <1>10, <2>1, ToFirstPass
<1>11. CASE ~ Fits(r', d', Low) /\ Fits(r', d', Chunk)
  <2>1. pc' = Bit(Chunk - 1)
    BY <1>11 DEF Enter
  <2> QED
    BY <1>0, <1>1, <1>3, <1>6, <1>7, <1>8, <1>9, <1>11, <2>1, ToFirstPass
<1>12. CASE ~ Fits(r', d', Low) /\ ~ Fits(r', d', Chunk)
  <2>1. pc' = At("scale")
    BY <1>12 DEF Enter
  <2>2. d' * Power[Chunk] <= Num'
    <3>1. PICK p \in Nat : p = d' * Power[Chunk]
      BY <1>2, <1>4, <1>9, PowerDoubles
    <3>2. ~ (Num < d' * Power[Chunk])
      BY <1>2, <1>3, <1>4, <1>9, <1>12, FitsLemma
    <3> QED
      BY <1>2, <1>5, <3>1, <3>2
  <2>3. Steps'
    BY <1>1, <1>3, <1>5, <1>6, <1>7, <2>1, <2>2, Places DEF Steps
  <2>4. Types'
    <3>1. r' \in 0 .. U - 1
      BY <1>2, <1>3
    <3> QED
      BY <1>0, <1>1, <1>8, <2>1, <3>1, Places DEF Types, TypeOK
  <2>5. QuotientRight'
    BY <2>1, Places DEF QuotientRight, Done
  <2> QED
    BY <2>3, <2>4, <2>5 DEF IInv
<1> QED
  BY <1>10, <1>11, <1>12

LEMMA ScaleFirstIInv ==
    ASSUME DivisionAssumption, IInv, ScaleFirst
    PROVE  IInv'
<1>0. Types
  BY DEF IInv
<1>1. /\ pc = At("scale") /\ UNCHANGED <<call, r, sign, out>>
      /\ r = Num /\ Scaled(0) /\ q = 0 /\ d * Power[Chunk] <= Num
  BY DEF ScaleFirst, IInv, Steps
<1>2. /\ Num \in 0 .. Half /\ Div \in 0 .. Half /\ Half \in Nat /\ U \in Nat /\ Half < U
      /\ d \in 0 .. U - 1 /\ d \in Nat /\ Div \in Nat /\ 0 \in 0 .. 2 /\ 0 + 1 = 1
  BY <1>0, CallLemma, WordLemma
<1>3. d' \in 0 .. Half /\ d' = Div * Power[1 * Chunk]
  BY <1>1, <1>2, MoveUp DEF ScaleFirst, Scaled
<1>4. Num' = Num /\ Div' = Div /\ r' = Num /\ d' \in 0 .. U - 1
  BY <1>1, <1>2, <1>3 DEF Num, Div
<1>5. Signs'
  BY <1>1, Places DEF IInv, Steps, Signs
<1>6. Scaled(1)'
  BY <1>3, <1>4 DEF Scaled
<1>7. PICK i \in 0 .. U - 1 : Ones(3) = i
  <2>1. Width - 1 * Chunk \in 0 .. Width
    BY WidthLemma
  <2>2. Power[Width - 1 * Chunk] \in 1 .. U
    BY <2>1, PowerInWord
  <2> QED
    BY <1>2, <2>2, OnesLemma
<1>8. q' = Ones(3)
  BY <1>1, <1>7 DEF ScaleFirst
<1>9. Middle \in 1 .. Chunk /\ Chunk \in 1 .. Chunk /\ 1 \in 0 .. 3 /\ Chunk \in 0 .. Width
  BY WidthLemma
<1>10. CASE Fits(r, d', Middle)
  <2>1. pc' = Bit(Middle - 1)
    BY <1>10 DEF ScaleFirst
  <2> QED
    BY <1>0, <1>1, <1>4, <1>5, <1>6, <1>8, <1>9, <1>10, <2>1, OnesLemma, ToFirstPass
<1>11. CASE ~ Fits(r, d', Middle) /\ Fits(r, d', Chunk)
  <2>1. pc' = Bit(Chunk - 1)
    BY <1>11 DEF ScaleFirst
  <2> QED
    BY <1>0, <1>1, <1>4, <1>5, <1>6, <1>8, <1>9, <1>11, <2>1, OnesLemma, ToFirstPass
<1>12. CASE ~ Fits(r, d', Middle) /\ ~ Fits(r, d', Chunk)
  <2>1. pc' = At("scale_again")
    BY <1>12 DEF ScaleFirst
  <2>2. d' * Power[Chunk] <= Num'
    <3>1. PICK p \in Nat : p = d' * Power[Chunk]
      BY <1>2, <1>3, <1>9, PowerDoubles
    <3>2. ~ (Num < d' * Power[Chunk])
      BY <1>1, <1>2, <1>3, <1>9, <1>12, FitsLemma
    <3> QED
      BY <1>2, <1>4, <3>1, <3>2
  <2>3. Steps'
    BY <1>4, <1>5, <1>6, <1>8, <2>1, <2>2, Places DEF Steps
  <2>4. Types'
    <3>1. r' \in 0 .. U - 1
      BY <1>2, <1>4
    <3> QED
      BY <1>0, <1>1, <1>4, <1>7, <1>8, <2>1, <3>1, Places DEF Types, TypeOK
  <2>5. QuotientRight'
    BY <2>1, Places DEF QuotientRight, Done
  <2> QED
    BY <2>3, <2>4, <2>5 DEF IInv
<1> QED
  BY <1>10, <1>11, <1>12

LEMMA ScaleRestIInv ==
    ASSUME DivisionAssumption, IInv, ScaleRest
    PROVE  IInv'
<1>0. Types
  BY DEF IInv
<1>1. /\ pc = At("scale_again") /\ UNCHANGED <<call, r, sign>>
      /\ r = Num /\ Scaled(1) /\ q = Ones(3) /\ d * Power[Chunk] <= Num
  BY DEF ScaleRest, IInv, Steps
<1>2. /\ Num \in 0 .. Half /\ Div \in 0 .. Half /\ Half \in Nat /\ U \in Nat /\ Half < U
      /\ d \in 0 .. U - 1 /\ d \in Nat /\ Div \in Nat /\ Num < U /\ Num \in Nat
  BY <1>0, CallLemma, WordLemma
<1>3. PICK t : t = Lsl(d, Chunk)
  OBVIOUS
<1>4. t \in 0 .. Half /\ t = Div * Power[2 * Chunk]
  <2>1. 1 \in 0 .. 2 /\ 1 + 1 = 2
    OBVIOUS
  <2> QED
    BY <1>1, <1>2, <1>3, <2>1, MoveUp DEF Scaled
<1>5. Num' = Num /\ Div' = Div /\ r' = Num
  BY <1>1 DEF Num, Div
<1>6. Signs'
  BY <1>1, Places DEF IInv, Steps, Signs
<1>7. Middle \in 1 .. Chunk /\ Chunk \in 1 .. Chunk /\ 2 \in 0 .. 3 /\ 3 \in 0 .. 3 /\ Chunk \in 0 .. Width
  BY WidthLemma
<1>8. t \in Nat /\ (Fits(r, t, Chunk) <=> Num < t * Power[Chunk])
  BY <1>1, <1>2, <1>4, <1>7, FitsLemma
\* The divisor is a divisor of the program two or three chunks up.
<1>9. PICK j \in {2, 3} :
          /\ d' \in 0 .. Half /\ d' = Div * Power[j * Chunk]
          /\ q' = U - Power[Width - j * Chunk]
          /\ d' # 0 => Fits(r, d', Chunk)
  <2>1. CASE Fits(r, t, Chunk)
    <3>1. d' = t /\ q' = q + Ones(2) + 0
      BY <1>3, <2>1 DEF ScaleRest
    <3>2. q' = U - Power[Width - 2 * Chunk]
      BY <1>1, <3>1, OnesLemma
    <3> QED
      BY <1>4, <2>1, <3>1, <3>2
  <2>2. CASE ~ Fits(r, t, Chunk)
    <3>1. d' = Lsl(t, Chunk) /\ q' = q + Ones(2) + Ones(1)
      BY <1>3, <2>2 DEF ScaleRest
    <3>2. q' = U - Power[Width - 3 * Chunk]
      BY <1>1, <3>1, OnesLemma
    <3>3. t * Power[Chunk] <= Num
      <4>1. PICK p \in Nat : p = t * Power[Chunk]
        BY <1>7, <1>8, PowerDoubles
      <4> QED
        BY <1>2, <1>8, <2>2, <4>1
    <3>4. d' \in 0 .. Half /\ d' = Div * Power[3 * Chunk]
      <4>1. 2 \in 0 .. 2 /\ 2 + 1 = 3
        OBVIOUS
      <4> QED
        BY <1>2, <1>4, <1>8, <3>1, <3>3, <4>1, MoveUp
    <3>5. ASSUME d' # 0
          PROVE  Fits(r, d', Chunk)
      <4>1. /\ 3 * Chunk \in Nat /\ 3 * Chunk + Chunk = Width /\ Chunk \in Nat
            /\ 3 * Chunk \in 0 .. Width /\ Chunk \in 0 .. Width /\ Width <= Width
        BY WidthLemma
      <4>2. PICK s \in Nat \ {0}, p \in Nat \ {0} : s = Power[3 * Chunk] /\ p = Power[Chunk]
        BY <4>1, PowerDoubles
      <4>3. U = s * p
        BY <4>1, <4>2, PowerSum, WordLemma
      <4>4. PICK v \in Nat \ {0} : v = Div
        <5>1. Div # 0
          <6> SUFFICES ASSUME Div = 0 PROVE FALSE
            OBVIOUS
          <6>1. 0 * s = 0
            OBVIOUS
          <6> QED
            BY <3>4, <3>5, <4>2, <6>1
        <5> QED
          BY <1>2, <5>1
      <4>5. d' * p = v * (s * p)
        <5>1. (v * s) * p = v * (s * p)
          OBVIOUS
        <5> QED
          BY <3>4, <4>2, <4>4, <5>1
      <4>6. 1 * U <= v * U
        BY <1>2, Monotone
      <4>7. Num < d' * Power[Chunk]
        <5>1. PICK u \in Nat : u = v * U
          BY <1>2
        <5>2. d' * Power[Chunk] = u
          BY <4>2, <4>3, <4>5, <5>1
        <5> QED
          BY <1>2, <4>6, <5>1, <5>2
      <4>8. d' \in Nat
        BY <1>2, <3>4
      <4> QED
        BY <1>1, <1>2, <1>7, <4>7, <4>8, FitsLemma
    <3> QED
      BY <3>2, <3>4, <3>5
  <2> QED
    BY <2>1, <2>2
<1>10. j \in 0 .. 3 /\ d' \in 0 .. U - 1
  BY <1>2, <1>9
<1>11. Scaled(j)'
  BY <1>5, <1>9 DEF Scaled
<1>12. CASE Fits(r, d', Middle)
  <2>1. pc' = Bit(Middle - 1) /\ UNCHANGED out
    BY <1>12 DEF ScaleRest
  <2> QED
    BY <1>0, <1>1, <1>5, <1>6, <1>7, <1>9, <1>10, <1>11, <1>12, <2>1, ToFirstPass
<1>13. CASE ~ Fits(r, d', Middle) /\ d' # 0
  <2>1. pc' = Bit(Chunk - 1) /\ UNCHANGED out
    BY <1>13 DEF ScaleRest, IsZero
  <2> QED
    BY <1>0, <1>1, <1>5, <1>6, <1>7, <1>9, <1>10, <1>11, <1>13, <2>1, ToFirstPass
<1>14. CASE ~ Fits(r, d', Middle) /\ d' = 0
  <2>1. pc' = At("done") /\ out' = [kind |-> "error", e |-> "div_by_zero"]
    BY <1>14 DEF ScaleRest, IsZero
  <2>2. Div = 0
    <3> SUFFICES ASSUME Div # 0 PROVE FALSE
      OBVIOUS
    <3>1. PICK i : i = j * Chunk /\ i \in 0 .. Width - Chunk
      BY <1>10, Chunks
    <3>2. i \in 0 .. Width
      BY <3>1, WidthLemma
    <3>3. PICK s \in Nat \ {0}, v \in Nat \ {0} : s = Power[i] /\ v = Div
      BY <1>2, <3>2, PowerDoubles
    <3>4. v * s # 0
      OBVIOUS
    <3> QED
      BY <1>9, <1>14, <3>1, <3>3, <3>4
  <2>3. call.by = 0
    <3>1. call.by \in Int
      BY <1>0, CallLemma, WordLemma DEF Word
    <3>2. (IF call.by < 0 THEN -call.by ELSE call.by) = 0
      BY <2>2 DEF Div, Magnitude
    <3> QED
      BY <3>1, <3>2
  <2>4. QuotientRight'
    BY <1>1, <2>1, <2>3 DEF QuotientRight, Expected
  <2>5. Steps'
    BY <1>6, <2>1, Places DEF Steps
  <2>6. Types'
    <3>1. r' \in 0 .. U - 1
      BY <1>2, <1>5
    <3>2. q' \in 0 .. U - 1
      <4>1. PICK i : i = j * Chunk /\ i \in 0 .. Width - Chunk
        BY <1>10, Chunks
      <4>2. Width - i \in 0 .. Width
        BY <4>1, WidthLemma
      <4>3. Power[Width - i] \in 1 .. U
        BY <4>2, PowerInWord
      <4> QED
        BY <1>2, <1>9, <4>1, <4>3
    <3> QED
      BY <1>0, <1>1, <1>10, <2>1, <3>1, <3>2, Places DEF Types, TypeOK
  <2> QED
    BY <2>4, <2>5, <2>6 DEF IInv
<1> QED
  BY <1>12, <1>13, <1>14

LEMMA NextIInv ==
    ASSUME DivisionAssumption
    PROVE  IInv /\ [Next]_vars => IInv'
<1> SUFFICES ASSUME IInv, [Next]_vars PROVE IInv'
  OBVIOUS
<1>1. CASE Enter
  BY <1>1, EnterIInv
<1>2. CASE ScaleFirst
  BY <1>2, ScaleFirstIInv
<1>3. CASE ScaleRest
  BY <1>3, ScaleRestIInv
<1>4. CASE BitOfPass
  BY <1>4, BitOfPassIInv
<1>5. CASE LastBit
  BY <1>5, LastBitIInv
<1>6. CASE UNCHANGED vars
  BY <1>6 DEF vars, IInv, Types, TypeOK, Steps, Signs, Passing, Pass, Scaled, Divided, Below,
              Num, Div, QuotientRight, Expected, Done
<1> QED
  BY <1>1, <1>2, <1>3, <1>4, <1>5, <1>6 DEF Next

(***************************************************************************)
(* For every width of a chunk, and of the passes that are entered in the   *)
(* middle, the routine _idiv gives the quotient of the interpreter for all *)
(* dividends and divisors, the remainder for divisors that are not         *)
(* negative, and the error when the divisor is 0.  The code has chunks of  *)
(* 8 bits, in words of 32.                                                 *)
(***************************************************************************)
THEOREM DivisionIsRight ==
    ASSUME DivisionAssumption
    PROVE  Spec => [](TypeOK /\ QuotientRight)
<1>1. Init => IInv
  BY InitIInv
<1>2. IInv /\ [Next]_vars => IInv'
  BY NextIInv
<1>3. IInv => TypeOK /\ QuotientRight
  BY DEF IInv, Types
<1> QED
  BY <1>1, <1>2, <1>3, PTL DEF Spec

=============================================================================
