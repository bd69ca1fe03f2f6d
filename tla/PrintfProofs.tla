---------------------------- MODULE PrintfProofs ----------------------------
(* Proofs about Printf.                                                    *)
EXTENDS Printf, SequenceTheorems, TLAPS, LeastNat

-----------------------------------------------------------------------------
(* Arithmetic.                                                             *)

(* A remainder of what is smaller already.                                 *)
LEMMA SmallMod ==
  ASSUME NEW m \in Nat \ {0}, NEW a \in Nat, a < m
  PROVE  a % m = a
<1>1. a = m * (a \div m) + (a % m) /\ a \div m \in Nat /\ a % m \in 0 .. m - 1
  OBVIOUS
<1>2. CASE a \div m = 0
  <2>1. m * 0 = 0
    OBVIOUS
  <2> QED BY <1>1, <1>2, <2>1
<1>3. CASE a \div m # 0
  <2>1. PICK d \in Nat : a \div m = 1 + d
    <3>1. a \div m - 1 \in Nat /\ a \div m = 1 + (a \div m - 1)
      BY <1>1, <1>3
    <3> QED BY <3>1
  <2>2. m * (1 + d) = m + m * d /\ m * d \in Nat
    OBVIOUS
  <2> QED BY <1>1, <2>1, <2>2
<1> QED BY <1>2, <1>3

(* The quotient is the only number whose multiple is so near.              *)
LEMMA QuotientIs ==
  ASSUME NEW m \in Nat \ {0}, NEW a \in Nat, NEW q \in Nat, NEW r \in Nat,
         a = m * q + r, r < m
  PROVE  a \div m = q
<1> DEFINE p == a \div m
           s == a % m
<1>1. a = m * p + s /\ p \in Nat /\ s \in Nat /\ s < m
  OBVIOUS
<1> HIDE DEF p, s
<1>2. ASSUME NEW x \in Nat, NEW y \in Nat, NEW u \in Nat, NEW v \in Nat, x < y, v < m,
             m * x + v = m * y + u
      PROVE  FALSE
  <2>1. PICK d \in Nat : y = x + 1 + d
    <3>1. y - x - 1 \in Nat /\ y = x + 1 + (y - x - 1)
      BY <1>2
    <3> QED BY <3>1
  <2>2. m * (x + 1 + d) = m * x + m + m * d /\ m * d \in Nat /\ m * x \in Nat
    OBVIOUS
  <2> QED BY <1>2, <2>1, <2>2
<1>3. ~(p < q) /\ ~(q < p)
  BY <1>1, <1>2
<1> QED BY <1>1, <1>3 DEF p

(* Dividing by ten, then by m.                                             *)
LEMMA DivTwice ==
  ASSUME NEW m \in Nat \ {0}, NEW n \in Nat
  PROVE  (n \div 10) \div m = n \div (10 * m)
<1> DEFINE d == n \div 10
           q == d \div m
           r == d % m
           e == n % 10
<1>1. n = 10 * d + e /\ d \in Nat /\ e \in 0 .. 9
  OBVIOUS
<1>2. d = m * q + r /\ q \in Nat /\ r \in Nat /\ r < m
  BY <1>1
<1> HIDE DEF d, q, r, e
<1>3. 10 * (m * q + r) = (10 * m) * q + 10 * r
  BY <1>2
<1>4. n = (10 * m) * q + (10 * r + e) /\ 10 * r + e \in Nat /\ 10 * r + e < 10 * m
  BY <1>1, <1>2, <1>3
<1>5. n \div (10 * m) = q
  BY <1>2, <1>4, QuotientIs
<1> QED BY <1>5 DEF d, q

-----------------------------------------------------------------------------
(* Powers, and the numerals they define.                                   *)

IsPower(b, p, n) == p = [k \in 0 .. n |-> IF k = 0 THEN 1 ELSE b * p[k - 1]]

(* Multiplying n times defines a function.                                 *)
LEMMA PowerExists ==
  ASSUME NEW b \in Nat \ {0}, NEW n \in Nat
  PROVE  \E p : IsPower(b, p, n)
<1> DEFINE Bad == {m \in Nat : ~\E p : IsPower(b, p, m)}
<1>1. SUFFICES ASSUME Bad # {} PROVE FALSE
  OBVIOUS
<1>2. PICK m \in Bad : \A j \in Bad : m <= j
  <2>1. Bad \in SUBSET Nat
    OBVIOUS
  <2> HIDE DEF Bad
  <2> QED BY <1>1, <2>1, LeastNatural
<1>3. m \in Nat /\ ~\E p : IsPower(b, p, m)
  OBVIOUS
<1>4. CASE m = 0
  <2> DEFINE p == [k \in 0 .. 0 |-> 1]
  <2>1. p = [k \in 0 .. 0 |-> IF k = 0 THEN 1 ELSE b * p[k - 1]]
    OBVIOUS
  <2> QED BY <1>3, <1>4, <2>1 DEF IsPower
<1>5. CASE m # 0
  <2>1. m - 1 \in Nat /\ m - 1 \notin Bad
    <3>1. m - 1 \in Nat /\ ~(m <= m - 1)
      BY <1>3, <1>5
    <3> HIDE DEF Bad
    <3> QED BY <1>2, <3>1
  <2>2. PICK p : IsPower(b, p, m - 1)
    BY <2>1
  <2> DEFINE r == [k \in 0 .. m |-> IF k = m THEN b * p[m - 1] ELSE p[k]]
  <2>3. p = [k \in 0 .. m - 1 |-> IF k = 0 THEN 1 ELSE b * p[k - 1]]
    BY <2>2 DEF IsPower
  <2>4. ASSUME NEW k \in 0 .. m
        PROVE  r[k] = IF k = 0 THEN 1 ELSE b * r[k - 1]
    <3>1. CASE k = m
      <4>1. k - 1 \in 0 .. m /\ k - 1 # m /\ k # 0
        BY <1>3, <1>5, <3>1
      <4> QED BY <3>1, <4>1
    <3>2. CASE k # m
      <4>1. k \in 0 .. m - 1 /\ (k # 0 => k - 1 \in 0 .. m /\ k - 1 # m)
        BY <1>3, <3>2
      <4>2. p[k] = IF k = 0 THEN 1 ELSE b * p[k - 1]
        BY <2>3, <4>1
      <4> QED BY <3>2, <4>1, <4>2
    <3> QED BY <3>1, <3>2
  <2>5. r = [k \in 0 .. m |-> r[k]]
    OBVIOUS
  <2> HIDE DEF r
  <2>6. r = [k \in 0 .. m |-> IF k = 0 THEN 1 ELSE b * r[k - 1]]
    BY <2>4, <2>5
  <2> QED BY <1>3, <2>6 DEF IsPower
<1> QED BY <1>4, <1>5

(* Functions so defined agree.                                             *)
LEMMA PowersAgree ==
  ASSUME NEW b \in Nat \ {0}, NEW n \in Nat, NEW m \in Nat, NEW p, NEW r,
         IsPower(b, p, n), IsPower(b, r, m)
  PROVE  \A k \in 0 .. n : k \in 0 .. m => p[k] = r[k] /\ p[k] \in Nat \ {0}
<1> DEFINE Bad == {k \in Nat : k <= n /\ k <= m /\ ~(p[k] = r[k] /\ p[k] \in Nat \ {0})}
<1>1. SUFFICES ASSUME Bad # {} PROVE FALSE
  OBVIOUS
<1>2. PICK k \in Bad : \A j \in Bad : k <= j
  <2>1. Bad \in SUBSET Nat
    OBVIOUS
  <2> HIDE DEF Bad
  <2> QED BY <1>1, <2>1, LeastNatural
<1>3. k \in 0 .. n /\ k \in 0 .. m /\ ~(p[k] = r[k] /\ p[k] \in Nat \ {0})
  OBVIOUS
<1>4. /\ p[k] = IF k = 0 THEN 1 ELSE b * p[k - 1]
      /\ r[k] = IF k = 0 THEN 1 ELSE b * r[k - 1]
  BY <1>3 DEF IsPower
<1>5. k # 0
  BY <1>3, <1>4
<1>6. k - 1 \in Nat /\ k - 1 <= n /\ k - 1 <= m /\ ~(k <= k - 1)
  BY <1>3, <1>5
<1>7. p[k - 1] = r[k - 1] /\ p[k - 1] \in Nat \ {0}
  <2>1. k - 1 \notin Bad
    <3> HIDE DEF Bad
    <3> QED BY <1>2, <1>6
  <2> QED BY <1>6, <2>1
<1>8. \A x, y \in Nat \ {0} : x * y \in Nat \ {0}
  OBVIOUS
<1> QED BY <1>3, <1>4, <1>5, <1>7, <1>8

(* Powers are positive, and each is b times the one before.                *)
LEMMA PowerFacts ==
  ASSUME NEW b \in Nat \ {0}
  PROVE  /\ Power(b, 0) = 1
         /\ \A n \in Nat : Power(b, n) \in Nat \ {0} /\ Power(b, n + 1) = b * Power(b, n)
<1> DEFINE power(n) == CHOOSE p : IsPower(b, p, n)
<1>1. ASSUME NEW n \in Nat
      PROVE  Power(b, n) = power(n)[n] /\ IsPower(b, power(n), n)
  <2>1. \E p : IsPower(b, p, n)
    BY PowerExists
  <2> QED BY <2>1 DEF Power, IsPower
<1>2. Power(b, 0) = 1
  <2>1. Power(b, 0) = power(0)[0] /\ IsPower(b, power(0), 0)
    BY <1>1
  <2> HIDE DEF power
  <2> QED BY <2>1 DEF IsPower
<1>3. ASSUME NEW n \in Nat
      PROVE  Power(b, n) \in Nat \ {0} /\ Power(b, n + 1) = b * Power(b, n)
  <2>1. /\ Power(b, n) = power(n)[n] /\ IsPower(b, power(n), n)
        /\ Power(b, n + 1) = power(n + 1)[n + 1] /\ IsPower(b, power(n + 1), n + 1)
    BY <1>1
  <2> HIDE DEF power
  <2>2. n \in 0 .. n /\ n \in 0 .. n + 1 /\ n + 1 \in 0 .. n + 1 /\ n + 1 # 0 /\ n + 1 - 1 = n
        /\ n + 1 \in Nat
    OBVIOUS
  <2>3. power(n)[n] = power(n + 1)[n] /\ power(n)[n] \in Nat \ {0}
    BY <2>1, <2>2, PowersAgree
  <2>4. power(n + 1)[n + 1] = b * power(n + 1)[n]
    BY <2>1, <2>2 DEF IsPower
  <2> QED BY <2>1, <2>3, <2>4
<1> HIDE DEF power
<1> QED BY <1>2, <1>3

(* Powers of ten grow.                                                     *)
LEMMA PowersGrow ==
  ASSUME NEW i \in Nat, NEW j \in Nat, i <= j
  PROVE  Power(10, i) <= Power(10, j)
<1>1. /\ \A n \in Nat : Power(10, n) \in Nat \ {0} /\ Power(10, n + 1) = 10 * Power(10, n)
  BY PowerFacts
<1> DEFINE Bad == {m \in Nat : i <= m /\ ~(Power(10, i) <= Power(10, m))}
<1>2. SUFFICES ASSUME Bad # {} PROVE FALSE
  OBVIOUS
<1>3. PICK m \in Bad : \A k \in Bad : m <= k
  <2>1. Bad \in SUBSET Nat
    OBVIOUS
  <2> HIDE DEF Bad
  <2> QED BY <1>2, <2>1, LeastNatural
<1>4. m \in Nat /\ i <= m /\ ~(Power(10, i) <= Power(10, m))
  OBVIOUS
<1>5. m # i
  BY <1>1, <1>4
<1>6. PICK k \in Nat : m = k + 1 /\ i <= k
  <2>1. m - 1 \in Nat /\ m = (m - 1) + 1 /\ i <= m - 1
    BY <1>4, <1>5
  <2> QED BY <2>1
<1>7. Power(10, i) <= Power(10, k)
  <2>1. k \notin Bad
    <3>1. ~(m <= k)
      BY <1>6
    <3> HIDE DEF Bad
    <3> QED BY <1>3, <3>1
  <2> QED BY <1>6, <2>1
<1>8. Power(10, k) <= Power(10, k + 1)
  <2>1. Power(10, k) \in Nat /\ Power(10, k + 1) = 10 * Power(10, k)
    BY <1>1
  <2> QED BY <2>1
<1>9. Power(10, i) \in Nat /\ Power(10, k) \in Nat /\ Power(10, k + 1) \in Nat
  BY <1>1
<1> QED BY <1>4, <1>6, <1>7, <1>8, <1>9

(* k digits are the least that will do for n.                              *)
IsLength(n, k) ==
  k \in Nat \ {0} /\ n < Power(10, k) /\ (k = 1 \/ Power(10, k - 1) <= n)

(* A digit does for the numbers below ten.                                 *)
LEMMA LengthOne ==
  /\ Power(10, 1) = 10
  /\ \A n \in 0 .. 9 : IsLength(n, 1)
<1>1. Power(10, 0) = 1 /\ Power(10, 0 + 1) = 10 * Power(10, 0)
  BY PowerFacts
<1>2. 0 + 1 = 1
  OBVIOUS
<1>3. Power(10, 1) = 10
  BY <1>1, <1>2
<1> QED BY <1>3 DEF IsLength

(* A number takes one more digit than its quotient by ten.                 *)
LEMMA LengthNext ==
  ASSUME NEW n \in Nat, n > 9, NEW k, IsLength(n \div 10, k)
  PROVE  IsLength(n, k + 1)
<1> DEFINE d == n \div 10
           e == n % 10
<1>1. n = 10 * d + e /\ d \in Nat /\ e \in 0 .. 9
  OBVIOUS
<1>2. k \in Nat \ {0} /\ d < Power(10, k) /\ (k = 1 \/ Power(10, k - 1) <= d)
  BY DEF IsLength
<1> HIDE DEF d, e
<1>3. /\ Power(10, k) \in Nat /\ Power(10, k + 1) = 10 * Power(10, k)
      /\ Power(10, k - 1) \in Nat /\ Power(10, k) = 10 * Power(10, k - 1)
  <2>1. \A m \in Nat : Power(10, m) \in Nat \ {0} /\ Power(10, m + 1) = 10 * Power(10, m)
    BY PowerFacts
  <2>2. k \in Nat /\ k - 1 \in Nat /\ (k - 1) + 1 = k
    BY <1>2
  <2>3. Power(10, (k - 1) + 1) = 10 * Power(10, k - 1)
    BY <2>1, <2>2
  <2> QED BY <2>1, <2>2, <2>3
<1>4. n < Power(10, k + 1)
  BY <1>1, <1>2, <1>3
<1>5. Power(10, k) <= n
  <2>1. CASE k = 1
    BY <2>1, LengthOne
  <2>2. CASE Power(10, k - 1) <= d
    BY <1>1, <1>3, <2>2
  <2> QED BY <1>2, <2>1, <2>2
<1>6. k + 1 \in Nat \ {0} /\ k + 1 - 1 = k
  BY <1>2
<1> QED BY <1>4, <1>5, <1>6 DEF IsLength

(* Some length will do, and it is the only one.                            *)
LEMMA LengthExists ==
  ASSUME NEW n \in Nat
  PROVE  \E k \in 1 .. n + 1 : IsLength(n, k)
<1> DEFINE Bad == {m \in Nat : ~\E k \in 1 .. m + 1 : IsLength(m, k)}
<1>1. SUFFICES ASSUME Bad # {} PROVE FALSE
  OBVIOUS
<1>2. PICK m \in Bad : \A j \in Bad : m <= j
  <2>1. Bad \in SUBSET Nat
    OBVIOUS
  <2> HIDE DEF Bad
  <2> QED BY <1>1, <2>1, LeastNatural
<1>3. m \in Nat /\ ~\E k \in 1 .. m + 1 : IsLength(m, k)
  OBVIOUS
<1>4. m > 9
  <2>1. 1 \in 1 .. m + 1
    BY <1>3
  <2>2. m \notin 0 .. 9
    BY <1>3, <2>1, LengthOne
  <2> QED BY <1>3, <2>2
<1>5. m \div 10 \in Nat /\ m \div 10 < m /\ ~(m <= m \div 10)
  BY <1>3, <1>4
<1>6. PICK k \in 1 .. (m \div 10) + 1 : IsLength(m \div 10, k)
  <2>1. m \div 10 \notin Bad
    <3> HIDE DEF Bad
    <3> QED BY <1>2, <1>5
  <2> QED BY <1>5, <2>1
<1>7. IsLength(m, k + 1)
  BY <1>3, <1>4, <1>6, LengthNext
<1>8. k + 1 \in 1 .. m + 1
  BY <1>3, <1>5, <1>6
<1> QED BY <1>3, <1>7, <1>8

LEMMA LengthUnique ==
  ASSUME NEW n \in Nat, NEW j, NEW k, IsLength(n, j), IsLength(n, k)
  PROVE  j = k
<1>1. ASSUME NEW a \in Nat \ {0}, NEW b \in Nat \ {0}, a < b, IsLength(n, a), IsLength(n, b)
      PROVE  FALSE
  <2>1. b # 1 /\ b - 1 \in Nat /\ a <= b - 1
    BY <1>1
  <2>2. Power(10, a) <= Power(10, b - 1)
    BY <2>1, PowersGrow
  <2>3. n < Power(10, a) /\ Power(10, b - 1) <= n
    BY <1>1, <2>1 DEF IsLength
  <2>4. Power(10, a) \in Nat /\ Power(10, b - 1) \in Nat
    <3>1. \A m \in Nat : Power(10, m) \in Nat
      BY PowerFacts
    <3> QED BY <1>1, <2>1, <3>1
  <2> QED BY <2>2, <2>3, <2>4
<1>2. j \in Nat \ {0} /\ k \in Nat \ {0}
  BY DEF IsLength
<1>3. ~(j < k) /\ ~(k < j)
  BY <1>1, <1>2
<1> QED BY <1>2, <1>3

(* The digits of a numeral of k digits.                                    *)
LEMMA NumeralIs ==
  ASSUME NEW n \in Nat, NEW k, IsLength(n, k)
  PROVE  Numeral(n) = [i \in 1 .. k |-> HexDigit[1 + ((n \div Power(10, k - i)) % 10)]]
<1> DEFINE len == CHOOSE m \in 1 .. n + 1 :
                    n < Power(10, m) /\ (m = 1 \/ Power(10, m - 1) <= n)
<1>1. PICK m \in 1 .. n + 1 : IsLength(n, m)
  BY LengthExists
<1>2. n < Power(10, m) /\ (m = 1 \/ Power(10, m - 1) <= n)
  BY <1>1 DEF IsLength
<1>3. len \in 1 .. n + 1 /\ n < Power(10, len) /\ (len = 1 \/ Power(10, len - 1) <= n)
  BY <1>2
<1>4. Numeral(n) = [i \in 1 .. len |-> HexDigit[1 + ((n \div Power(10, len - i)) % 10)]]
  BY DEF Numeral
<1> HIDE DEF len
<1>5. IsLength(n, len)
  BY <1>3 DEF IsLength
<1>6. len = k
  BY <1>5, LengthUnique
<1> QED BY <1>4, <1>6

(* Characters: those of the formats and the strings, and those it adds.    *)
Char == STRING \cup {"0", "1", "2", "3", "4", "5", "6", "7", "8", "9",
                     "a", "b", "c", "d", "e", "f", "x", "-", "%", "s", "p", "z", "u"}

(* The digits are those of ASCII.                                          *)
LEMMA Digits ==
  /\ \A d \in 0 .. 9 : Ascii[d + 9] = HexDigit[1 + d]
  /\ \A d \in 0 .. 15 : HexDigit[1 + d] \in Char
<1>1. /\ Ascii[9] = "0" /\ Ascii[10] = "1" /\ Ascii[11] = "2" /\ Ascii[12] = "3"
      /\ Ascii[13] = "4" /\ Ascii[14] = "5" /\ Ascii[15] = "6" /\ Ascii[16] = "7"
      /\ Ascii[17] = "8" /\ Ascii[18] = "9"
  BY DEF Ascii
<1>2. /\ HexDigit[1] = "0" /\ HexDigit[2] = "1" /\ HexDigit[3] = "2" /\ HexDigit[4] = "3"
      /\ HexDigit[5] = "4" /\ HexDigit[6] = "5" /\ HexDigit[7] = "6" /\ HexDigit[8] = "7"
      /\ HexDigit[9] = "8" /\ HexDigit[10] = "9"
  BY DEF HexDigit
<1>3. /\ HexDigit[11] = "a" /\ HexDigit[12] = "b" /\ HexDigit[13] = "c"
      /\ HexDigit[14] = "d" /\ HexDigit[15] = "e" /\ HexDigit[16] = "f"
  BY DEF HexDigit
<1>4. ASSUME NEW d \in 0 .. 9
      PROVE  Ascii[d + 9] = HexDigit[1 + d] /\ HexDigit[1 + d] \in Char
  <2>1. d \in {0, 1, 2, 3, 4, 5, 6, 7, 8, 9}
    OBVIOUS
  <2> QED BY <1>1, <1>2, <2>1 DEF Char
<1>5. ASSUME NEW d \in 10 .. 15
      PROVE  HexDigit[1 + d] \in Char
  <2>1. d \in {10, 11, 12, 13, 14, 15}
    OBVIOUS
  <2> QED BY <1>3, <2>1 DEF Char
<1>6. \A d \in 0 .. 15 : d \in 0 .. 9 \/ d \in 10 .. 15
  OBVIOUS
<1> QED BY <1>4, <1>5, <1>6

(* A function on 1 .. k is a sequence.                                     *)
LEMMA SeqOf ==
  ASSUME NEW S, NEW k \in Nat, NEW s, s = [i \in 1 .. k |-> s[i]], \A i \in 1 .. k : s[i] \in S
  PROVE  s \in Seq(S) /\ Len(s) = k
<1>1. s \in [1 .. k -> S]
  OBVIOUS
<1>2. s \in Seq(S)
  BY <1>1, SeqDef
<1>3. DOMAIN s = 1 .. k
  BY <1>1
<1> QED BY <1>2, <1>3, LenProperties

(* Numerals are texts.                                                     *)
LEMMA NumeralText ==
  ASSUME NEW n \in Nat, NEW k, IsLength(n, k)
  PROVE  Numeral(n) \in Seq(Char) /\ Len(Numeral(n)) = k
<1>1. k \in Nat
  BY DEF IsLength
<1>2. Numeral(n) = [i \in 1 .. k |-> HexDigit[1 + ((n \div Power(10, k - i)) % 10)]]
  BY NumeralIs
<1>3. ASSUME NEW i \in 1 .. k
      PROVE  Numeral(n)[i] \in Char
  <2> DEFINE d == (n \div Power(10, k - i)) % 10
  <2>1. Power(10, k - i) \in Nat \ {0}
    <3>1. k - i \in Nat /\ \A m \in Nat : Power(10, m) \in Nat \ {0}
      BY <1>1, PowerFacts
    <3> QED BY <3>1
  <2>2. d \in 0 .. 15
    BY <2>1
  <2>3. Numeral(n)[i] = HexDigit[1 + d]
    BY <1>2
  <2> HIDE DEF d
  <2> QED BY <2>2, <2>3, Digits
<1>4. Numeral(n) = [i \in 1 .. k |-> Numeral(n)[i]]
  BY <1>2
<1> QED BY <1>1, <1>3, <1>4, SeqOf

LEMMA NumeralDigit ==
  ASSUME NEW n \in 0 .. 9
  PROVE  Numeral(n) = Append(<<>>, Ascii[n + 9])
<1>1. IsLength(n, 1)
  BY LengthOne
<1>2. Numeral(n) = [i \in 1 .. 1 |-> HexDigit[1 + ((n \div Power(10, 1 - i)) % 10)]]
  <2>1. n \in Nat
    OBVIOUS
  <2> QED BY <1>1, <2>1, NumeralIs
<1>3. Power(10, 1 - 1) = 1 /\ (n \div 1) % 10 = n
  BY PowerFacts
<1>4. Numeral(n)[1] = HexDigit[1 + n]
  BY <1>2, <1>3
<1>5. Ascii[n + 9] = HexDigit[1 + n] /\ HexDigit[1 + n] \in Char
  BY Digits
<1>6. Numeral(n) \in Seq(Char) /\ Len(Numeral(n)) = 1
  <2>1. n \in Nat
    OBVIOUS
  <2> QED BY <1>1, <2>1, NumeralText
<1>7. <<>> \in Seq(Char) /\ Len(<<>>) = 0
  OBVIOUS
<1> DEFINE t == Append(<<>>, Ascii[n + 9])
<1>8. t \in Seq(Char) /\ Len(t) = 1 /\ t[1] = Ascii[n + 9]
  BY <1>5, <1>7, AppendProperties
<1> HIDE DEF t
<1>9. \A i \in 1 .. Len(t) : t[i] = Numeral(n)[i]
  BY <1>4, <1>5, <1>8
<1>10. Numeral(n) = t
  BY <1>6, <1>8, <1>9, SeqEqual
<1> QED BY <1>10 DEF t

LEMMA NumeralNext ==
  ASSUME NEW n \in Nat, n > 9
  PROVE  Numeral(n) = Append(Numeral(n \div 10), Ascii[(n % 10) + 9])
<1> DEFINE d == n \div 10
           e == n % 10
           t == Append(Numeral(d), Ascii[e + 9])
<1>1. d \in Nat /\ e \in 0 .. 9
  OBVIOUS
<1>2. PICK k : IsLength(d, k)
  BY <1>1, LengthExists
<1>3. k \in Nat /\ k + 1 \in Nat
  BY <1>2 DEF IsLength
<1>4. PICK len : len = k + 1 /\ IsLength(n, len)
  BY <1>2, LengthNext
<1> HIDE DEF d
<1>5. /\ Numeral(d) = [i \in 1 .. k |-> HexDigit[1 + ((d \div Power(10, k - i)) % 10)]]
      /\ Numeral(d) \in Seq(Char) /\ Len(Numeral(d)) = k
  BY <1>1, <1>2, NumeralIs, NumeralText
<1>6. /\ Numeral(n) = [i \in 1 .. len |-> HexDigit[1 + ((n \div Power(10, len - i)) % 10)]]
      /\ Numeral(n) \in Seq(Char) /\ Len(Numeral(n)) = len
  BY <1>4, NumeralIs, NumeralText
<1>7. Ascii[e + 9] = HexDigit[1 + e] /\ HexDigit[1 + e] \in Char
  BY <1>1, Digits
<1>8. /\ t \in Seq(Char) /\ Len(t) = k + 1 /\ t[k + 1] = HexDigit[1 + e]
      /\ \A i \in 1 .. k : t[i] = Numeral(d)[i]
  BY <1>3, <1>5, <1>7, AppendProperties
<1>9. ASSUME NEW i \in 1 .. k
      PROVE  t[i] = Numeral(n)[i]
  <2>1. /\ k - i \in Nat /\ k + 1 - i = (k - i) + 1 /\ i \in 1 .. k + 1
    BY <1>3
  <2>2. Power(10, k - i) \in Nat \ {0} /\ Power(10, (k - i) + 1) = 10 * Power(10, k - i)
    <3>1. \A m \in Nat : Power(10, m) \in Nat \ {0} /\ Power(10, m + 1) = 10 * Power(10, m)
      BY PowerFacts
    <3> QED BY <2>1, <3>1
  <2>3. d \div Power(10, k - i) = n \div Power(10, len - i)
    <3>1. PICK m \in Nat \ {0} : m = Power(10, k - i)
      BY <2>2
    <3>2. len - i = (k - i) + 1
      BY <1>3, <1>4
    <3>3. Power(10, len - i) = 10 * m
      BY <2>2, <3>1, <3>2
    <3>4. (n \div 10) \div m = n \div (10 * m)
      BY DivTwice
    <3> QED BY <3>1, <3>3, <3>4 DEF d
  <2> HIDE DEF t
  <2>4. t[i] = HexDigit[1 + ((d \div Power(10, k - i)) % 10)]
    BY <1>5, <1>8
  <2>5. Numeral(n)[i] = HexDigit[1 + ((n \div Power(10, len - i)) % 10)]
    BY <1>4, <1>6, <2>1
  <2> QED BY <2>3, <2>4, <2>5
<1>10. t[k + 1] = Numeral(n)[k + 1]
  <2>1. Power(10, len - (k + 1)) = 1
    <3>1. len - (k + 1) = 0 /\ Power(10, 0) = 1
      BY <1>3, <1>4, PowerFacts
    <3> QED BY <3>1
  <2>2. n \div 1 = n /\ k + 1 \in 1 .. len
    BY <1>3, <1>4
  <2> HIDE DEF t
  <2> QED BY <1>6, <1>8, <2>1, <2>2
<1> HIDE DEF t
<1>11. \A i \in 1 .. k + 1 : t[i] = Numeral(n)[i]
  <2>1. \A i \in 1 .. k + 1 : i \in 1 .. k \/ i = k + 1
    BY <1>3
  <2> QED BY <1>9, <1>10, <2>1
<1>12. Numeral(n) = t
  BY <1>4, <1>6, <1>8, <1>11, SeqEqual
<1> QED BY <1>12 DEF t, d

IsDigits(g) ==
  g = [k \in Int |->
         Append(IF Quotient(k) > 0 THEN g[Quotient(k)] ELSE <<>>, Ascii[Remainder(k) + 9])]

(* The digit loop writes numerals.                                         *)
LEMMA DecimalIs ==
  ASSUME NEW n \in Nat
  PROVE  Decimal(n) = Numeral(n)
<1> DEFINE digits == CHOOSE g : IsDigits(g)
<1>1. \A k \in Nat : Quotient(k) = k \div 10 /\ Remainder(k) = k % 10
  BY DEF Quotient, Remainder
<1>2. \E g : IsDigits(g)
  <2> DEFINE Last(k) == Ascii[Remainder(k) + 9]
             g == [k \in Int |-> IF Quotient(k) > 0 THEN Numeral(k) ELSE Append(<<>>, Last(k))]
  <2>1. ASSUME NEW k \in Int
        PROVE  g[k] = Append(IF Quotient(k) > 0 THEN g[Quotient(k)] ELSE <<>>, Last(k))
    <3>1. CASE ~(Quotient(k) > 0)
      BY <3>1
    <3>2. CASE Quotient(k) > 0
      <4>1. k \in Nat /\ k > 9
        BY <3>2 DEF Quotient
      <4>2. Numeral(k) = Append(Numeral(Quotient(k)), Last(k))
        BY <1>1, <4>1, NumeralNext
      <4>3. g[Quotient(k)] = Numeral(Quotient(k))
        <5>1. PICK q \in Nat : q = Quotient(k) /\ q \in Int
          BY <1>1, <4>1
        <5>2. CASE Quotient(q) > 0
          BY <5>1, <5>2
        <5>3. CASE ~(Quotient(q) > 0)
          <6>1. q \in 0 .. 9 /\ Remainder(q) = q
            BY <1>1, <5>1, <5>3
          <6>2. Numeral(q) = Append(<<>>, Last(q))
            BY <6>1, NumeralDigit
          <6> QED BY <5>1, <5>3, <6>2
        <5> QED BY <5>2, <5>3
      <4> HIDE DEF Last
      <4> QED BY <3>2, <4>2, <4>3
    <3> QED BY <3>1, <3>2
  <2>2. g = [k \in Int |-> g[k]]
    OBVIOUS
  <2> HIDE DEF g
  <2>3. g = [k \in Int |-> Append(IF Quotient(k) > 0 THEN g[Quotient(k)] ELSE <<>>, Last(k))]
    BY <2>1, <2>2
  <2> QED BY <2>3 DEF IsDigits
<1>3. IsDigits(digits) /\ \A k \in Int : Decimal(k) = digits[k]
  BY <1>2 DEF Decimal, IsDigits
<1> HIDE DEF digits
<1>4. ASSUME NEW k \in Nat
      PROVE  digits[k] =
               Append(IF k \div 10 > 0 THEN digits[k \div 10] ELSE <<>>, Ascii[(k % 10) + 9])
  <2>1. k \in Int
    OBVIOUS
  <2>2. digits[k] =
          Append(IF Quotient(k) > 0 THEN digits[Quotient(k)] ELSE <<>>, Ascii[Remainder(k) + 9])
    BY <1>3, <2>1 DEF IsDigits
  <2> QED BY <1>1, <2>2
<1> DEFINE Bad == {k \in Nat : digits[k] # Numeral(k)}
<1>5. ASSUME Bad # {} PROVE FALSE
  <2>1. PICK k \in Bad : \A j \in Bad : k <= j
    <3>1. Bad \in SUBSET Nat
      OBVIOUS
    <3> HIDE DEF Bad
    <3> QED BY <1>5, <3>1, LeastNatural
  <2>2. k \in Nat /\ digits[k] # Numeral(k)
    OBVIOUS
  <2>3. CASE k > 9
    <3>1. k \div 10 \in Nat /\ k \div 10 > 0 /\ ~(k <= k \div 10)
      BY <2>2, <2>3
    <3>2. digits[k \div 10] = Numeral(k \div 10)
      <4>1. k \div 10 \notin Bad
        <5> HIDE DEF Bad
        <5> QED BY <2>1, <3>1
      <4> QED BY <3>1, <4>1
    <3> QED BY <1>4, <2>2, <2>3, <3>1, <3>2, NumeralNext
  <2>4. CASE k \in 0 .. 9
    <3>1. ~(k \div 10 > 0) /\ k % 10 = k
      BY <2>4
    <3> QED BY <1>4, <2>2, <2>4, <3>1, NumeralDigit
  <2> QED BY <2>2, <2>3, <2>4
<1> QED BY <1>3, <1>5

-----------------------------------------------------------------------------
(* What conversions print.                                                 *)

(* An int in range does not wrap.                                          *)
LEMMA WrappedIs ==
  ASSUME NEW n \in INT_MIN .. INT_MAX
  PROVE  Wrapped(n) = n
<1> DEFINE m == 2 * (INT_MAX + 1)
           a == n - INT_MIN
<1>1. m \in Nat \ {0} /\ a \in Nat /\ a < m /\ INT_MIN \in Int /\ n \in Int
  BY PrintfAssumption DEF INT_MIN
<1> HIDE DEF m
<1>2. a % m = a
  BY <1>1, SmallMod
<1>3. INT_MIN + a = n
  BY <1>1
<1> QED BY <1>2, <1>3 DEF Wrapped, m

(* An int whose opposite is one prints its sign and its numeral.           *)
LEMMA SignedIs ==
  ASSUME NEW n \in INT_MIN .. INT_MAX, n # INT_MIN
  PROVE  Signed(n) = IF n < 0 THEN <<"-">> \o Numeral(-n) ELSE Numeral(n)
<1>1. CASE n < 0
  <2>1. -n \in INT_MIN .. INT_MAX /\ -n \in Nat
    BY <1>1, PrintfAssumption DEF INT_MIN
  <2>2. Wrapped(-n) = -n
    BY <2>1, WrappedIs
  <2>3. Decimal(-n) = Numeral(-n)
    BY <2>1, DecimalIs
  <2> QED BY <1>1, <2>2, <2>3 DEF Signed
<1>2. CASE ~(n < 0)
  <2>1. n \in Nat
    BY <1>2, PrintfAssumption DEF INT_MIN
  <2>2. Decimal(n) = Numeral(n)
    BY <2>1, DecimalIs
  <2> QED BY <1>2, <2>2 DEF Signed
<1> QED BY <1>1, <1>2

(* Numerals, and pointers, are texts.                                      *)
LEMMA Texts ==
  /\ \A n \in Nat : Numeral(n) \in Seq(Char) /\ Pointer(n) \in Seq(Char)
  /\ \A c \in STRING : <<c>> \in Seq(Char)
  /\ Seq(STRING) \subseteq Seq(Char) /\ <<"%">> \in Seq(Char)
<1>1. ASSUME NEW n \in Nat
      PROVE  Numeral(n) \in Seq(Char)
  <2>1. PICK k : IsLength(n, k)
    BY LengthExists
  <2> QED BY <2>1, NumeralText
<1>2. ASSUME NEW n \in Nat
      PROVE  Pointer(n) \in Seq(Char)
  <2> DEFINE hex == [i \in 1 .. Nibbles |-> HexDigit[1 + ((n \div Power(16, Nibbles - i)) % 16)]]
  <2>1. ASSUME NEW i \in 1 .. Nibbles
        PROVE  hex[i] \in Char
    <3> DEFINE d == (n \div Power(16, Nibbles - i)) % 16
    <3>1. Power(16, Nibbles - i) \in Nat \ {0}
      <4>1. Nibbles - i \in Nat /\ 16 \in Nat \ {0}
        BY PrintfAssumption
      <4>2. \A m \in Nat : Power(16, m) \in Nat \ {0}
        BY PowerFacts
      <4> QED BY <4>1, <4>2
    <3>2. d \in 0 .. 15
      BY <3>1
    <3>3. hex[i] = HexDigit[1 + d]
      OBVIOUS
    <3> HIDE DEF d, hex
    <3> QED BY <3>2, <3>3, Digits
  <2>2. hex = [i \in 1 .. Nibbles |-> hex[i]]
    OBVIOUS
  <2> HIDE DEF hex
  <2>3. hex \in Seq(Char)
    BY <2>1, <2>2, SeqOf, PrintfAssumption
  <2>4. <<"0", "x">> \in Seq(Char)
    BY DEF Char
  <2>5. <<"0", "x">> \o hex \in Seq(Char)
    BY <2>3, <2>4, ConcatProperties
  <2> QED BY <2>5 DEF Pointer, hex
<1>3. STRING \subseteq Char
  BY DEF Char
<1>4. ASSUME NEW c \in STRING
      PROVE  <<c>> \in Seq(Char)
  <2>1. PICK x \in Char : x = c
    BY <1>3
  <2>2. <<x>> \in Seq(Char)
    OBVIOUS
  <2> QED BY <2>1, <2>2
<1>5. Seq(STRING) \subseteq Seq(Char)
  BY <1>3, SeqMonotonic
<1>6. <<"%">> \in Seq(Char)
  BY DEF Char
<1> QED BY <1>1, <1>2, <1>4, <1>5, <1>6

(* What each conversion stands for.                                        *)
LEMMA Spellings ==
  ASSUME NEW arg
  PROVE  /\ Spelled(<<"c">>, arg) = <<arg.c>>
         /\ Spelled(<<"s">>, arg) = arg.s
         /\ Spelled(<<"d">>, arg) = IF arg.d < 0 THEN <<"-">> \o Numeral(-arg.d) ELSE Numeral(arg.d)
         /\ Spelled(<<"p">>, arg) = Pointer(arg.p)
         /\ Spelled(<<"z", "u">>, arg) = Numeral(arg.zu)
<1>1. <<"c">>[1] = "c" /\ <<"s">>[1] = "s" /\ <<"d">>[1] = "d" /\ <<"p">>[1] = "p" /\ <<"z", "u">>[1] = "z"
  OBVIOUS
<1>2. /\ <<"c">> # <<"s">> /\ <<"c">> # <<"d">> /\ <<"c">> # <<"p">> /\ <<"c">> # <<"z", "u">>
      /\ <<"s">> # <<"d">> /\ <<"s">> # <<"p">> /\ <<"s">> # <<"z", "u">>
      /\ <<"d">> # <<"p">> /\ <<"d">> # <<"z", "u">> /\ <<"p">> # <<"z", "u">>
  BY <1>1
<1> QED BY <1>2, Zenon DEF Spelled

(* It is a text.                                                           *)
LEMMA SpelledText ==
  ASSUME NEW conv \in Conversions, NEW arg \in Arg
  PROVE  Spelled(conv, arg) \in Seq(Char)
<1>1. /\ arg.c \in STRING /\ arg.s \in Seq(STRING) /\ arg.d \in INT_MIN .. INT_MAX
      /\ arg.p \in Nat /\ arg.zu \in Nat
  BY DEF Arg
<1>2. CASE conv = <<"c">>
  <2>1. <<arg.c>> \in Seq(Char)
    BY <1>1, Texts
  <2> QED BY <1>2, <2>1, Spellings
<1>3. CASE conv = <<"s">>
  <2>1. arg.s \in Seq(Char)
    BY <1>1, Texts
  <2> QED BY <1>3, <2>1, Spellings
<1>4. CASE conv = <<"d">>
  <2>1. CASE arg.d < 0
    <3>1. -arg.d \in Nat
      BY <1>1, <2>1, PrintfAssumption DEF INT_MIN
    <3>2. Numeral(-arg.d) \in Seq(Char) /\ <<"-">> \in Seq(Char)
      BY <3>1, Texts DEF Char
    <3>3. <<"-">> \o Numeral(-arg.d) \in Seq(Char)
      BY <3>2, ConcatProperties
    <3> QED BY <1>4, <2>1, <3>3, Spellings
  <2>2. CASE ~(arg.d < 0)
    <3>1. arg.d \in Nat
      BY <1>1, <2>2, PrintfAssumption DEF INT_MIN
    <3>2. Numeral(arg.d) \in Seq(Char)
      BY <3>1, Texts
    <3> QED BY <1>4, <2>2, <3>2, Spellings
  <2> QED BY <2>1, <2>2
<1>5. CASE conv = <<"p">>
  <2>1. Pointer(arg.p) \in Seq(Char)
    BY <1>1, Texts
  <2> QED BY <1>5, <2>1, Spellings
<1>6. CASE conv = <<"z", "u">>
  <2>1. Numeral(arg.zu) \in Seq(Char)
    BY <1>1, Texts
  <2> QED BY <1>6, <2>1, Spellings
<1> QED BY <1>2, <1>3, <1>4, <1>5, <1>6 DEF Conversions

-----------------------------------------------------------------------------
(* Parts of formats.                                                       *)

(* What is left of a format.                                               *)
LEMMA DropFacts ==
  ASSUME NEW S, NEW f \in Seq(S), NEW n \in 0 .. Len(f)
  PROVE  /\ Drop(f, n) \in Seq(S) /\ Len(Drop(f, n)) = Len(f) - n
         /\ \A i \in 1 .. Len(f) - n : Drop(f, n)[i] = f[n + i]
<1>1. Len(f) \in Nat /\ n \in Nat /\ n + 1 \in Int /\ Len(f) \in Int
  BY LenProperties
<1>2. \A i \in n + 1 .. Len(f) : f[i] \in S
  <2>1. \A i \in n + 1 .. Len(f) : i \in 1 .. Len(f)
    BY <1>1
  <2> QED BY <2>1, ElementOfSeq
<1>3. /\ SubSeq(f, n + 1, Len(f)) \in Seq(S)
      /\ Len(SubSeq(f, n + 1, Len(f))) = IF n + 1 <= Len(f) THEN Len(f) - (n + 1) + 1 ELSE 0
      /\ \A i \in 1 .. Len(f) - (n + 1) + 1 : SubSeq(f, n + 1, Len(f))[i] = f[(n + 1) + i - 1]
  BY <1>1, <1>2, SubSeqProperties
<1>4. /\ (IF n + 1 <= Len(f) THEN Len(f) - (n + 1) + 1 ELSE 0) = Len(f) - n
      /\ Len(f) - (n + 1) + 1 = Len(f) - n
      /\ \A i \in 1 .. Len(f) - n : (n + 1) + i - 1 = n + i
  BY <1>1
<1> QED BY <1>3, <1>4 DEF Drop

(* Dropping twice.                                                         *)
LEMMA DropDrop ==
  ASSUME NEW S, NEW f \in Seq(S), NEW n \in Nat, NEW m \in Nat, n + m <= Len(f)
  PROVE  Drop(Drop(f, n), m) = Drop(f, n + m)
<1>1. Len(f) \in Nat /\ n \in 0 .. Len(f) /\ n + m \in 0 .. Len(f) /\ m \in 0 .. Len(f) - n
  BY LenProperties
<1> DEFINE g == Drop(f, n)
           h == Drop(f, n + m)
           k == Drop(g, m)
<1>2. g \in Seq(S) /\ Len(g) = Len(f) - n /\ \A i \in 1 .. Len(f) - n : g[i] = f[n + i]
  BY <1>1, DropFacts
<1>3. /\ h \in Seq(S) /\ Len(h) = Len(f) - (n + m)
      /\ \A i \in 1 .. Len(f) - (n + m) : h[i] = f[n + m + i]
  BY <1>1, DropFacts
<1> HIDE DEF g, h
<1>4. k \in Seq(S) /\ Len(k) = Len(g) - m /\ \A i \in 1 .. Len(g) - m : k[i] = g[m + i]
  <2>1. m \in 0 .. Len(g) /\ g \in Seq(S)
    BY <1>1, <1>2
  <2> QED BY ONLY <2>1, DropFacts, Zenon DEF k
<1> HIDE DEF k
<1>5. Len(k) = Len(h) /\ \A i \in 1 .. Len(k) : k[i] = h[i]
  <2>1. Len(g) - m = Len(f) - (n + m)
    BY <1>1, <1>2
  <2>2. ASSUME NEW i \in 1 .. Len(f) - (n + m)
        PROVE  k[i] = h[i]
    <3>1. m + i \in 1 .. Len(f) - n /\ n + (m + i) = n + m + i
      BY <1>1
    <3> QED BY <1>2, <1>3, <1>4, <2>1, <3>1
  <2> QED BY <1>3, <1>4, <2>1, <2>2
<1>6. k = h
  BY <1>3, <1>4, <1>5, SeqEqual
<1> QED BY <1>6 DEF g, h, k

(* A text begins another if its characters are the first ones.             *)
LEMMA BeginsFacts ==
  ASSUME NEW S, NEW f \in Seq(S), NEW t \in Seq(S)
  PROVE  Begins(f, t) <=> Len(t) <= Len(f) /\ \A i \in 1 .. Len(t) : f[i] = t[i]
<1>1. Len(f) \in Nat /\ Len(t) \in Nat
  BY LenProperties
<1>2. ASSUME Len(t) <= Len(f)
      PROVE  SubSeq(f, 1, Len(t)) = t <=> \A i \in 1 .. Len(t) : f[i] = t[i]
  <2>1. \A i \in 1 .. Len(t) : f[i] \in S
    <3>1. \A i \in 1 .. Len(t) : i \in 1 .. Len(f)
      BY <1>1, <1>2
    <3> QED BY <3>1, ElementOfSeq
  <2>2. PICK g \in Seq(S) : g = SubSeq(f, 1, Len(t)) /\ Len(g) = Len(t) /\ \A i \in 1 .. Len(t) : g[i] = f[i]
    <3>1. 1 \in Int /\ Len(t) \in Int
      BY <1>1
    <3>2. /\ SubSeq(f, 1, Len(t)) \in Seq(S)
          /\ Len(SubSeq(f, 1, Len(t))) = IF 1 <= Len(t) THEN Len(t) - 1 + 1 ELSE 0
          /\ \A i \in 1 .. Len(t) - 1 + 1 : SubSeq(f, 1, Len(t))[i] = f[1 + i - 1]
      BY <2>1, <3>1, SubSeqProperties
    <3>3. /\ (IF 1 <= Len(t) THEN Len(t) - 1 + 1 ELSE 0) = Len(t)
          /\ Len(t) - 1 + 1 = Len(t) /\ \A i \in 1 .. Len(t) : 1 + i - 1 = i
      BY <1>1
    <3> QED BY <3>2, <3>3
  <2>3. ASSUME \A i \in 1 .. Len(t) : f[i] = t[i]
        PROVE  g = t
    BY <2>2, <2>3, SeqEqual
  <2> QED BY <2>2, <2>3
<1> QED BY <1>2 DEF Begins

(* The conversions, as texts.                                              *)
LEMMA ConvTexts ==
  \A c \in Conversions \cup {<<"%">>} :
     /\ c \in Seq(Char) /\ Len(c) \in {1, 2} /\ c[1] \in {"c", "s", "d", "p", "z", "%"}
     /\ c[1] = "%" <=> c = <<"%">>
     /\ \A d \in Conversions \cup {<<"%">>} : c[1] = d[1] => c = d
<1>1. ASSUME NEW c \in Conversions \cup {<<"%">>}
      PROVE  /\ c \in Seq(Char) /\ Len(c) \in {1, 2}
             /\ \/ c = <<"c">> /\ c[1] = "c"
                \/ c = <<"s">> /\ c[1] = "s"
                \/ c = <<"d">> /\ c[1] = "d"
                \/ c = <<"p">> /\ c[1] = "p"
                \/ c = <<"z", "u">> /\ c[1] = "z"
                \/ c = <<"%">> /\ c[1] = "%"
  <2>1. CASE c = <<"c">>
    BY <2>1 DEF Char
  <2>2. CASE c = <<"s">>
    BY <2>2 DEF Char
  <2>3. CASE c = <<"d">>
    BY <2>3 DEF Char
  <2>4. CASE c = <<"p">>
    BY <2>4 DEF Char
  <2>5. CASE c = <<"z", "u">>
    BY <2>5 DEF Char
  <2>6. CASE c = <<"%">>
    BY <2>6 DEF Char
  <2> QED BY <2>1, <2>2, <2>3, <2>4, <2>5, <2>6 DEF Conversions
<1>2. ASSUME NEW c \in Conversions \cup {<<"%">>}, NEW d \in Conversions \cup {<<"%">>}, c[1] = d[1]
      PROVE  c = d
  BY <1>1, <1>2
<1>3. ASSUME NEW c \in Conversions \cup {<<"%">>}
      PROVE  c[1] = "%" <=> c = <<"%">>
  BY <1>1
<1> QED BY <1>1, <1>2, <1>3

(* At most one conversion begins a text.                                   *)
LEMMA OneConv ==
  ASSUME NEW r \in Seq(Char), NEW c \in Conversions \cup {<<"%">>}, NEW d \in Conversions \cup {<<"%">>},
         Begins(r, c), Begins(r, d)
  PROVE  c = d
<1>1. /\ c \in Seq(Char) /\ Len(c) \in {1, 2} /\ d \in Seq(Char) /\ Len(d) \in {1, 2}
      /\ c[1] = d[1] => c = d
  BY ConvTexts
<1>2. r[1] = c[1]
  <2>1. 1 \in 1 .. Len(c)
    BY <1>1
  <2> QED BY <1>1, <2>1, BeginsFacts
<1>3. r[1] = d[1]
  <2>1. 1 \in 1 .. Len(d)
    BY <1>1
  <2> QED BY <1>1, <2>1, BeginsFacts
<1> QED BY <1>1, <1>2, <1>3

(* A character begins what is left if it is the next one.                  *)
LEMMA BeginsChar ==
  ASSUME NEW f \in Seq(Char), NEW n \in 0 .. Len(f), NEW x \in Char
  PROVE  Begins(Drop(f, n), <<x>>) <=> n < Len(f) /\ f[n + 1] = x
<1> DEFINE g == Drop(f, n)
<1>1. g \in Seq(Char) /\ Len(g) = Len(f) - n /\ \A i \in 1 .. Len(f) - n : g[i] = f[n + i]
  BY DropFacts
<1>2. <<x>> \in Seq(Char) /\ Len(<<x>>) = 1 /\ <<x>>[1] = x
  OBVIOUS
<1> HIDE DEF g
<1>3. Begins(g, <<x>>) <=> Len(<<x>>) <= Len(g) /\ \A i \in 1 .. Len(<<x>>) : g[i] = <<x>>[i]
  <2> DEFINE t == <<x>>
  <2>1. g \in Seq(Char) /\ t \in Seq(Char)
    BY <1>1, <1>2
  <2> HIDE DEF t
  <2>2. Begins(g, t) <=> Len(t) <= Len(g) /\ \A i \in 1 .. Len(t) : g[i] = t[i]
    BY <2>1, BeginsFacts, Zenon
  <2> QED BY <2>2 DEF t
<1>4. Len(f) \in Nat /\ n \in Nat
  BY LenProperties
<1>5. \A i \in 1 .. 1 : i = 1
  OBVIOUS
<1>6. Begins(g, <<x>>) <=> 1 <= Len(g) /\ g[1] = x
  BY <1>2, <1>3, <1>5
<1>7. n < Len(f) => 1 \in 1 .. Len(f) - n
  BY <1>4
<1>8. 1 <= Len(g) <=> n < Len(f)
  BY <1>1, <1>4
<1> QED BY <1>1, <1>6, <1>7, <1>8 DEF g

(* What a conversion begins with its percent sign.                         *)
LEMMA BeginsConv ==
  ASSUME NEW f \in Seq(Char), NEW n \in 0 .. Len(f), NEW c \in Seq(Char)
  PROVE  Begins(Drop(f, n), <<"%">> \o c) <=>
           n < Len(f) /\ f[n + 1] = "%" /\ Begins(Drop(f, n + 1), c)
<1> DEFINE g == Drop(f, n)
           t == <<"%">> \o c
<1>1. g \in Seq(Char) /\ Len(g) = Len(f) - n /\ \A i \in 1 .. Len(f) - n : g[i] = f[n + i]
  BY DropFacts
<1>2. Len(f) \in Nat /\ n \in Nat /\ Len(c) \in Nat
  BY LenProperties
<1>3. t \in Seq(Char) /\ Len(t) = 1 + Len(c) /\ t[1] = "%" /\ \A i \in 1 .. Len(c) : t[i + 1] = c[i]
  <2>1. <<"%">> \in Seq(Char) /\ Len(<<"%">>) = 1 /\ <<"%">>[1] = "%"
    BY DEF Char
  <2>2. /\ t \in Seq(Char) /\ Len(t) = 1 + Len(c)
        /\ \A i \in 1 .. 1 + Len(c) : t[i] = IF i <= 1 THEN <<"%">>[i] ELSE c[i - 1]
    BY <2>1, ConcatProperties
  <2> HIDE DEF t
  <2>3. t[1] = "%"
    <3>1. 1 \in 1 .. 1 + Len(c) /\ 1 <= 1
      BY <1>2
    <3> QED BY <2>1, <2>2, <3>1
  <2>4. ASSUME NEW i \in 1 .. Len(c)
        PROVE  t[i + 1] = c[i]
    <3>1. i + 1 \in 1 .. 1 + Len(c) /\ ~(i + 1 <= 1) /\ (i + 1) - 1 = i
      BY <1>2
    <3> QED BY <2>2, <3>1
  <2> QED BY <2>2, <2>3, <2>4
<1> HIDE DEF g, t
<1>4. Begins(g, t) <=> Len(t) <= Len(g) /\ \A i \in 1 .. Len(t) : g[i] = t[i]
  <2>1. g \in Seq(Char) /\ t \in Seq(Char)
    BY <1>1, <1>3
  <2> QED BY <2>1, BeginsFacts
<1>5. CASE n < Len(f)
  <2> DEFINE h == Drop(f, n + 1)
  <2>1. n + 1 \in 0 .. Len(f)
    BY <1>2, <1>5
  <2>2. /\ h \in Seq(Char) /\ Len(h) = Len(f) - (n + 1)
        /\ \A i \in 1 .. Len(f) - (n + 1) : h[i] = f[n + 1 + i]
    BY <2>1, DropFacts
  <2> HIDE DEF h
  <2>3. Begins(h, c) <=> Len(c) <= Len(h) /\ \A i \in 1 .. Len(c) : h[i] = c[i]
    BY <2>2, BeginsFacts
  <2>4. Len(t) <= Len(g) <=> Len(c) <= Len(h)
    BY <1>1, <1>2, <1>3, <2>2
  <2>5. ASSUME Len(c) <= Len(h)
        PROVE  (\A i \in 1 .. Len(t) : g[i] = t[i]) <=>
                 f[n + 1] = "%" /\ \A i \in 1 .. Len(c) : h[i] = c[i]
    <3>1. 1 \in 1 .. Len(t) /\ g[1] = f[n + 1]
      <4>1. 1 \in 1 .. Len(t) /\ 1 \in 1 .. Len(f) - n
        BY <1>2, <1>3, <1>5
      <4> QED BY <1>1, <4>1
    <3>2. ASSUME NEW i \in 1 .. Len(c)
          PROVE  i + 1 \in 1 .. Len(t) /\ g[i + 1] = h[i]
      <4>1. /\ i + 1 \in 1 .. Len(t) /\ i + 1 \in 1 .. Len(f) - n
            /\ i \in 1 .. Len(f) - (n + 1) /\ n + (i + 1) = n + 1 + i
        BY <1>2, <1>3, <1>5, <2>2, <2>5
      <4> QED BY <1>1, <2>2, <4>1
    <3>3. \A i \in 1 .. Len(t) : i = 1 \/ \E j \in 1 .. Len(c) : i = j + 1
      <4>1. ASSUME NEW i \in 1 .. Len(t), i # 1
            PROVE  i - 1 \in 1 .. Len(c) /\ i = (i - 1) + 1
        BY <1>2, <1>3, <4>1
      <4> QED BY <4>1
    <3>4. ASSUME \A i \in 1 .. Len(t) : g[i] = t[i]
          PROVE  f[n + 1] = "%" /\ \A i \in 1 .. Len(c) : h[i] = c[i]
      <4>1. ASSUME NEW i \in 1 .. Len(c)
            PROVE  h[i] = c[i]
        <5>1. g[i + 1] = t[i + 1] /\ t[i + 1] = c[i]
          BY <1>3, <3>2, <3>4
        <5> QED BY <3>2, <5>1
      <4> QED BY <1>3, <3>1, <3>4, <4>1
    <3>5. ASSUME f[n + 1] = "%", \A i \in 1 .. Len(c) : h[i] = c[i], NEW i \in 1 .. Len(t)
          PROVE  g[i] = t[i]
      <4>1. CASE i = 1
        BY <1>3, <3>1, <3>5, <4>1
      <4>2. ASSUME NEW j \in 1 .. Len(c), i = j + 1
            PROVE  g[i] = t[i]
        <5>1. g[j + 1] = h[j] /\ t[j + 1] = c[j]
          BY <1>3, <3>2
        <5> QED BY <3>5, <4>2, <5>1
      <4> QED BY <3>3, <4>1, <4>2
    <3> QED BY <3>4, <3>5
  <2> QED BY <1>4, <1>5, <2>3, <2>4, <2>5 DEF g, h, t
<1>6. CASE ~(n < Len(f))
  <2>1. ~(Len(t) <= Len(g))
    BY <1>1, <1>2, <1>3, <1>6
  <2> QED BY <1>4, <1>6, <2>1 DEF g, t
<1> QED BY <1>5, <1>6

-----------------------------------------------------------------------------
(* Pieces of formats.                                                      *)

(* Its cases: a character, two percent signs, a conversion and the rest.   *)
LEMMA PieceLiteral ==
  ASSUME NEW f, NEW i, NEW args, NEW k, f[i] # "%"
  PROVE  Piece(f, i, args, k) = [text |-> <<f[i]>>, length |-> 1, read |-> 0]
BY DEF Piece

(* A percent sign begins no conversion.                                    *)
LEMMA ConvNoPercent ==
  ASSUME NEW f \in Seq(Char), NEW i \in 1 .. Len(f), NEW conv \in Conversions,
         Begins(Drop(f, i), conv)
  PROVE  ~Begins(Drop(f, i), <<"%">>)
<1>1. Drop(f, i) \in Seq(Char)
  <2>1. i \in 0 .. Len(f)
    OBVIOUS
  <2> QED BY <2>1, DropFacts
<1>2. ASSUME Begins(Drop(f, i), <<"%">>) PROVE FALSE
  <2>1. conv = <<"%">>
    BY <1>1, <1>2, OneConv
  <2>2. conv[1] # "%"
    BY DEF Conversions
  <2> QED BY <2>1, <2>2
<1> QED BY <1>2

LEMMA PiecePercent ==
  ASSUME NEW f \in Seq(Char), NEW i \in 1 .. Len(f), NEW args, NEW k,
         f[i] = "%", Begins(Drop(f, i), <<"%">>)
  PROVE  Piece(f, i, args, k) = [text |-> <<"%">>, length |-> 2, read |-> 0]
<1> DEFINE convs == {c \in Conversions : Begins(Drop(f, i), c)}
<1>1. convs = {}
  BY ConvNoPercent
<1> HIDE DEF convs
<1>2. Piece(f, i, args, k) =
        CASE f[i] # "%" -> [text |-> <<f[i]>>, length |-> 1, read |-> 0]
          [] f[i] = "%" /\ Begins(Drop(f, i), <<"%">>) ->
               [text |-> <<"%">>, length |-> 2, read |-> 0]
          [] f[i] = "%" /\ convs # {} ->
               [text |-> Spelled(CHOOSE c \in convs : TRUE, args[k + 1]),
                length |-> 1 + Len(CHOOSE c \in convs : TRUE), read |-> 1]
          [] OTHER -> [text |-> Drop(f, i - 1), length |-> Len(f) + 1 - i, read |-> 0]
  BY DEF Piece, convs
<1> QED BY <1>1, <1>2

LEMMA PieceConv ==
  ASSUME NEW f \in Seq(Char), NEW i \in 1 .. Len(f), NEW args, NEW k, NEW conv \in Conversions,
         f[i] = "%", Begins(Drop(f, i), conv)
  PROVE  Piece(f, i, args, k) =
           [text |-> Spelled(conv, args[k + 1]), length |-> 1 + Len(conv), read |-> 1]
<1> DEFINE rest  == Drop(f, i)
           convs == {c \in Conversions : Begins(rest, c)}
<1>1. rest \in Seq(Char)
  <2>1. i \in 0 .. Len(f)
    OBVIOUS
  <2> QED BY <2>1, DropFacts
<1>2. \A c \in Conversions : Begins(rest, c) => c = conv
  BY <1>1, OneConv
<1>3. convs = {conv}
  BY <1>2
<1>4. (CHOOSE c \in convs : TRUE) = conv /\ convs # {}
  BY <1>3
<1>5. ~Begins(rest, <<"%">>)
  BY ConvNoPercent
<1> HIDE DEF convs
<1>6. Piece(f, i, args, k) =
        CASE f[i] # "%" -> [text |-> <<f[i]>>, length |-> 1, read |-> 0]
          [] f[i] = "%" /\ Begins(rest, <<"%">>) -> [text |-> <<"%">>, length |-> 2, read |-> 0]
          [] f[i] = "%" /\ convs # {} ->
               [text |-> Spelled(CHOOSE c \in convs : TRUE, args[k + 1]),
                length |-> 1 + Len(CHOOSE c \in convs : TRUE), read |-> 1]
          [] OTHER -> [text |-> Drop(f, i - 1), length |-> Len(f) + 1 - i, read |-> 0]
  BY DEF Piece, convs
<1> QED BY <1>4, <1>5, <1>6

LEMMA PieceRest ==
  ASSUME NEW f, NEW i, NEW args, NEW k, f[i] = "%",
         \A c \in Conversions \cup {<<"%">>} : ~Begins(Drop(f, i), c)
  PROVE  Piece(f, i, args, k) = [text |-> Drop(f, i - 1), length |-> Len(f) + 1 - i, read |-> 0]
<1>1. {c \in Conversions : Begins(Drop(f, i), c)} = {} /\ ~Begins(Drop(f, i), <<"%">>)
  OBVIOUS
<1> QED BY <1>1 DEF Piece

(* A piece takes a character at least and ends within the format; its text *)
(* is one, whose argument, if it reads one, is there.                      *)
LEMMA PieceFacts ==
  ASSUME NEW f \in Seq(Char), NEW i \in 1 .. Len(f), NEW args \in Seq(Arg), NEW k \in Nat
  PROVE  LET piece == Piece(f, i, args, k)
         IN  /\ piece.length \in Nat \ {0} /\ i + piece.length \in 1 .. Len(f) + 1
             /\ piece.read \in {0, 1}
             /\ k + piece.read <= Len(args) => piece.text \in Seq(Char)
<1> DEFINE piece == Piece(f, i, args, k)
<1>1. Len(f) \in Nat /\ i \in 0 .. Len(f) /\ i - 1 \in 0 .. Len(f) /\ i \in Nat
  BY LenProperties
<1>2. f[i] \in Char
  BY ElementOfSeq
<1>3. CASE f[i] # "%"
  <2>1. piece = [text |-> <<f[i]>>, length |-> 1, read |-> 0]
    BY <1>3, PieceLiteral
  <2>2. <<f[i]>> \in Seq(Char)
    BY <1>2
  <2> QED BY <1>1, <2>1, <2>2
<1>4. CASE f[i] = "%" /\ Begins(Drop(f, i), <<"%">>)
  <2>1. piece = [text |-> <<"%">>, length |-> 2, read |-> 0]
    BY <1>4, PiecePercent
  <2>2. i < Len(f)
    BY <1>1, <1>4, BeginsChar DEF Char
  <2> QED BY <1>1, <2>1, <2>2, Texts
<1>5. ASSUME NEW conv \in Conversions, f[i] = "%", Begins(Drop(f, i), conv)
      PROVE  /\ piece.length \in Nat \ {0} /\ i + piece.length \in 1 .. Len(f) + 1
             /\ piece.read \in {0, 1}
             /\ k + piece.read <= Len(args) => piece.text \in Seq(Char)
  <2>1. piece = [text |-> Spelled(conv, args[k + 1]), length |-> 1 + Len(conv), read |-> 1]
    BY <1>5, PieceConv
  <2>2. conv \in Seq(Char) /\ Len(conv) \in Nat
    BY ConvTexts, LenProperties
  <2>3. Len(conv) <= Len(f) - i
    <3>1. Drop(f, i) \in Seq(Char) /\ Len(Drop(f, i)) = Len(f) - i
      BY <1>1, DropFacts
    <3> QED BY <1>5, <3>1 DEF Begins
  <2>4. ASSUME k + 1 <= Len(args)
        PROVE  Spelled(conv, args[k + 1]) \in Seq(Char)
    <3>1. k + 1 \in 1 .. Len(args)
      BY <2>4, LenProperties
    <3>2. args[k + 1] \in Arg
      BY <3>1, ElementOfSeq
    <3> QED BY <3>2, SpelledText
  <2> HIDE DEF piece
  <2>5. /\ piece.length = 1 + Len(conv) /\ piece.read = 1
        /\ piece.text = Spelled(conv, args[k + 1])
    BY <2>1
  <2> QED BY <1>1, <2>2, <2>3, <2>4, <2>5
<1>6. CASE f[i] = "%" /\ \A c \in Conversions \cup {<<"%">>} : ~Begins(Drop(f, i), c)
  <2>1. piece = [text |-> Drop(f, i - 1), length |-> Len(f) + 1 - i, read |-> 0]
    BY <1>6, PieceRest
  <2>2. Drop(f, i - 1) \in Seq(Char)
    BY <1>1, DropFacts
  <2> QED BY <1>1, <2>1, <2>2
<1> QED BY <1>3, <1>4, <1>5, <1>6

-----------------------------------------------------------------------------
(* What formats stand for, from each character on.                         *)

(* One turn of the recursion, and what it defines.                         *)
Turn(g, f, args, i) ==
  [k \in Nat |->
     IF i > Len(f) THEN [text |-> <<>>, read |-> k]
     ELSE LET piece == Piece(f, i, args, k)
              rest  == g[i + piece.length][k + piece.read]
          IN [text |-> piece.text \o rest.text, read |-> rest.read]]

IsFrom(g, f, args) == g = [i \in 1 .. Len(f) + 1 |-> Turn(g, f, args, i)]
From(f, args)      == CHOOSE g : IsFrom(g, f, args)

(* It looks ahead only.                                                    *)
LEMMA TurnAhead ==
  ASSUME NEW f \in Seq(Char), NEW args \in Seq(Arg), NEW i \in 1 .. Len(f) + 1, NEW g, NEW h,
         \A j \in 1 .. Len(f) + 1 : j > i => g[j] = h[j]
  PROVE  Turn(g, f, args, i) = Turn(h, f, args, i)
<1>1. Len(f) \in Nat /\ i \in Nat
  BY LenProperties
<1>2. CASE i > Len(f)
  BY <1>2 DEF Turn
<1>3. CASE ~(i > Len(f))
  <2>1. ASSUME NEW k \in Nat
        PROVE  g[i + Piece(f, i, args, k).length] = h[i + Piece(f, i, args, k).length]
    <3> DEFINE n == Piece(f, i, args, k).length
    <3>1. i \in 1 .. Len(f)
      BY <1>1, <1>3
    <3>2. n \in Nat \ {0} /\ i + n \in 1 .. Len(f) + 1
      BY <3>1, PieceFacts
    <3> HIDE DEF n
    <3>3. i + n > i
      BY <1>1, <3>2
    <3>4. g[i + n] = h[i + n]
      BY <3>2, <3>3
    <3> QED BY <3>4 DEF n
  <2> QED BY <1>3, <2>1 DEF Turn
<1> QED BY <1>2, <1>3

(* So it defines a function, from the end of the format on.                *)
LEMMA FromExists ==
  ASSUME NEW f \in Seq(Char), NEW args \in Seq(Arg)
  PROVE  \E g : IsFrom(g, f, args)
<1> DEFINE n == Len(f) + 1
           Solves(g, m) == \A i \in 1 .. n : i >= m => g[i] = Turn(g, f, args, i)
           Good == {m \in 1 .. n + 1 : \E g : Solves(g, m)}
<1>1. n \in Nat \ {0}
  BY LenProperties
<1>2. n + 1 \in Good
  <2>1. \A g : Solves(g, n + 1)
    BY <1>1
  <2> QED BY <1>1, <2>1
<1>3. PICK m \in Good : \A j \in Good : m <= j
  <2>1. Good \in SUBSET Nat /\ Good # {}
    BY <1>2
  <2> HIDE DEF Good
  <2> QED BY <2>1, LeastNatural
<1>4. m \in 1 .. n + 1
  OBVIOUS
<1>5. PICK g : Solves(g, m)
  OBVIOUS
<1>6. m = 1
  <2> SUFFICES ASSUME m # 1 PROVE FALSE
    OBVIOUS
  <2>1. m - 1 \in 1 .. n /\ m - 1 \in 1 .. n + 1 /\ ~(m <= m - 1)
    BY <1>1, <1>4
  <2> DEFINE h == [i \in 1 .. n |-> IF i = m - 1 THEN Turn(g, f, args, i) ELSE g[i]]
  <2>2. ASSUME NEW i \in 1 .. n, i >= m - 1
        PROVE  h[i] = Turn(h, f, args, i)
    <3>1. \A j \in 1 .. n : j > i => g[j] = h[j]
      BY <1>1, <1>4, <2>2
    <3>2. Turn(g, f, args, i) = Turn(h, f, args, i)
      <4> HIDE DEF h
      <4> QED BY <3>1, TurnAhead
    <3>3. CASE i = m - 1
      BY <3>2, <3>3
    <3>4. CASE i # m - 1
      <4>1. i >= m
        BY <1>4, <2>2, <3>4
      <4>2. g[i] = Turn(g, f, args, i)
        BY <1>5, <4>1
      <4> QED BY <3>2, <3>4, <4>2
    <3> QED BY <3>3, <3>4
  <2> HIDE DEF h
  <2>3. Solves(h, m - 1)
    BY <2>2
  <2>4. m - 1 \in Good
    BY <2>1, <2>3
  <2> HIDE DEF Good
  <2> QED BY <1>3, <2>1, <2>4
<1> DEFINE h == [i \in 1 .. n |-> g[i]]
<1>7. ASSUME NEW i \in 1 .. n
      PROVE  h[i] = Turn(h, f, args, i)
  <2>1. i >= m
    BY <1>6
  <2>2. g[i] = Turn(g, f, args, i)
    <3> HIDE DEF h
    <3> QED BY <1>5, <2>1
  <2>3. \A j \in 1 .. n : j > i => g[j] = h[j]
    OBVIOUS
  <2>4. Turn(g, f, args, i) = Turn(h, f, args, i)
    <3> HIDE DEF h
    <3> QED BY <2>3, TurnAhead
  <2> QED BY <2>2, <2>4
<1>8. h = [i \in 1 .. n |-> h[i]]
  OBVIOUS
<1> HIDE DEF h
<1>9. h = [i \in 1 .. n |-> Turn(h, f, args, i)]
  BY <1>7, <1>8
<1> QED BY <1>9 DEF IsFrom

(* What it is at the end, and at each character.                           *)
LEMMA FromFacts ==
  ASSUME NEW f \in Seq(Char), NEW args \in Seq(Arg)
  PROVE  /\ Stands(f, args) = From(f, args)[1][0]
         /\ \A k \in Nat : From(f, args)[Len(f) + 1][k] = [text |-> <<>>, read |-> k]
         /\ \A i \in 1 .. Len(f), k \in Nat :
              From(f, args)[i][k] =
                LET piece == Piece(f, i, args, k)
                    rest  == From(f, args)[i + piece.length][k + piece.read]
                IN  [text |-> piece.text \o rest.text, read |-> rest.read]
<1>1. Stands(f, args) = From(f, args)[1][0]
  BY DEF Stands, From, IsFrom, Turn
<1> DEFINE g == From(f, args)
<1>2. IsFrom(g, f, args)
  BY FromExists DEF From
<1> HIDE DEF g
<1>3. Len(f) \in Nat /\ Len(f) + 1 \in 1 .. Len(f) + 1 /\ Len(f) + 1 > Len(f)
  BY LenProperties
<1>4. ASSUME NEW i \in 1 .. Len(f) + 1, NEW k \in Nat
      PROVE  g[i][k] = IF i > Len(f) THEN [text |-> <<>>, read |-> k]
                       ELSE LET piece == Piece(f, i, args, k)
                                rest  == g[i + piece.length][k + piece.read]
                            IN [text |-> piece.text \o rest.text, read |-> rest.read]
  <2>1. g[i] = Turn(g, f, args, i)
    BY <1>2 DEF IsFrom
  <2> QED BY <2>1 DEF Turn
<1>5. \A k \in Nat : g[Len(f) + 1][k] = [text |-> <<>>, read |-> k]
  BY <1>3, <1>4
<1>6. ASSUME NEW i \in 1 .. Len(f), NEW k \in Nat
      PROVE  g[i][k] = LET piece == Piece(f, i, args, k)
                           rest  == g[i + piece.length][k + piece.read]
                       IN  [text |-> piece.text \o rest.text, read |-> rest.read]
  <2>1. i \in 1 .. Len(f) + 1 /\ ~(i > Len(f))
    BY <1>3
  <2> QED BY <1>4, <2>1
<1> QED BY <1>1, <1>5, <1>6 DEF g

(* Arguments are read in order; as long as there are enough of them, what  *)
(* is left of a format stands for a text.                                  *)
LEMMA FromText ==
  ASSUME NEW f \in Seq(Char), NEW args \in Seq(Arg)
  PROVE  \A i \in 1 .. Len(f) + 1, k \in Nat :
           /\ From(f, args)[i][k].read \in Nat /\ k <= From(f, args)[i][k].read
           /\ From(f, args)[i][k].read <= Len(args) => From(f, args)[i][k].text \in Seq(Char)
<1> DEFINE g == From(f, args)
           n == Len(f) + 1
           Holds(i, k) == /\ g[i][k].read \in Nat /\ k <= g[i][k].read
                          /\ g[i][k].read <= Len(args) => g[i][k].text \in Seq(Char)
           Good == {m \in 1 .. n : \A i \in m .. n, k \in Nat : Holds(i, k)}
<1>1. n \in Nat \ {0} /\ Len(f) \in Nat /\ n \in 1 .. n
  BY LenProperties
<1>2. n \in Good
  <2>1. ASSUME NEW k \in Nat
        PROVE  Holds(n, k)
    <3>1. g[n][k] = [text |-> <<>>, read |-> k]
      BY FromFacts
    <3>2. <<>> \in Seq(Char)
      OBVIOUS
    <3> HIDE DEF g
    <3> QED BY <3>1, <3>2
  <2>2. \A i \in n .. n : i = n
    BY <1>1
  <2> HIDE DEF Holds
  <2> QED BY <1>1, <2>1, <2>2
<1>3. PICK m \in Good : \A j \in Good : m <= j
  <2>1. Good \in SUBSET Nat /\ Good # {}
    BY <1>2
  <2> HIDE DEF Good
  <2> QED BY <2>1, LeastNatural
<1>4. m \in 1 .. n /\ \A i \in m .. n, k \in Nat : Holds(i, k)
  OBVIOUS
<1>5. m = 1
  <2> SUFFICES ASSUME m # 1 PROVE FALSE
    OBVIOUS
  <2>1. m - 1 \in 1 .. Len(f) /\ m - 1 \in 1 .. n /\ ~(m <= m - 1)
    BY <1>1, <1>4
  <2>2. ASSUME NEW k \in Nat
        PROVE  Holds(m - 1, k)
    <3> DEFINE piece == Piece(f, m - 1, args, k)
               rest  == g[m - 1 + piece.length][k + piece.read]
    <3>1. g[m - 1][k] = [text |-> piece.text \o rest.text, read |-> rest.read]
      BY <2>1, FromFacts
    <3>2. /\ piece.length \in Nat \ {0} /\ m - 1 + piece.length \in 1 .. n
          /\ piece.read \in {0, 1}
          /\ k + piece.read <= Len(args) => piece.text \in Seq(Char)
      BY <2>1, PieceFacts
    <3> HIDE DEF piece, g
    <3>3. /\ m - 1 + piece.length \in m .. n /\ k + piece.read \in Nat
          /\ k <= k + piece.read
      <4>1. PICK len \in Nat \ {0}, r \in {0, 1} : len = piece.length /\ r = piece.read
        BY <3>2
      <4>2. m - 1 + len \in 1 .. n
        BY <3>2, <4>1
      <4>3. m - 1 + len \in m .. n /\ k + r \in Nat /\ k <= k + r
        BY <1>1, <1>4, <4>2
      <4> QED BY <4>1, <4>3
    <3>4. /\ rest.read \in Nat /\ k + piece.read <= rest.read
          /\ rest.read <= Len(args) => rest.text \in Seq(Char)
      BY <1>4, <3>3
    <3> HIDE DEF rest
    <3>5. Len(args) \in Nat
      BY LenProperties
    <3>6. rest.read <= Len(args) => piece.text \o rest.text \in Seq(Char)
      <4>1. rest.read <= Len(args) => piece.text \in Seq(Char)
        <5>1. rest.read <= Len(args) => k + piece.read <= Len(args)
          BY <3>3, <3>4, <3>5
        <5> QED BY <3>2, <5>1
      <4> QED BY <3>4, <4>1, ConcatProperties
    <3>7. k <= rest.read
      BY <3>3, <3>4
    <3> QED BY <3>1, <3>4, <3>6, <3>7
  <2> HIDE DEF Holds
  <2>3. \A i \in m - 1 .. n : i = m - 1 \/ i \in m .. n
    BY <1>1, <1>4
  <2>4. m - 1 \in Good
    BY <1>4, <2>1, <2>2, <2>3
  <2> HIDE DEF Good
  <2> QED BY <1>3, <2>1, <2>4
<1>6. \A i \in 1 .. n, k \in Nat : Holds(i, k)
  <2> HIDE DEF Holds
  <2> QED BY <1>4, <1>5
<1> QED BY <1>6

(* Texts are joined in any order.                                          *)
LEMMA TextAssociative ==
  ASSUME NEW x \in Seq(Char), NEW y \in Seq(Char), NEW z \in Seq(Char)
  PROVE  (x \o y) \o z = x \o (y \o z)
BY ConcatAssociative

(* Characters that are no percent signs read no arguments...               *)
LEMMA RunReads ==
  ASSUME NEW f \in Seq(Char), NEW args \in Seq(Arg), NEW k \in Nat,
         NEW e \in 1 .. Len(f) + 1, NEW s \in 1 .. e, \A j \in s .. e - 1 : f[j] # "%"
  PROVE  From(f, args)[s][k].read = From(f, args)[e][k].read
<1> DEFINE g == From(f, args)
           Good == {i \in s .. e : g[i][k].read = g[e][k].read}
<1>1. Len(f) \in Nat /\ e \in Nat /\ s \in Nat /\ e \in s .. e
  BY LenProperties
<1>2. PICK m \in Good : \A j \in Good : m <= j
  <2>1. Good \in SUBSET Nat /\ Good # {}
    <3> HIDE DEF g
    <3> QED BY <1>1
  <2> HIDE DEF Good
  <2> QED BY <2>1, LeastNatural
<1>3. m \in s .. e /\ g[m][k].read = g[e][k].read
  OBVIOUS
<1>4. m = s
  <2> SUFFICES ASSUME m # s PROVE FALSE
    OBVIOUS
  <2>1. /\ m - 1 \in 1 .. Len(f) /\ m - 1 \in s .. e - 1 /\ m - 1 \in s .. e /\ ~(m <= m - 1)
        /\ m - 1 + 1 = m
    BY <1>1, <1>3
  <2> DEFINE piece == Piece(f, m - 1, args, k)
             rest  == g[m - 1 + piece.length][k + piece.read]
  <2>2. piece = [text |-> <<f[m - 1]>>, length |-> 1, read |-> 0]
    BY <2>1, PieceLiteral
  <2>3. g[m - 1][k] = [text |-> piece.text \o rest.text, read |-> rest.read]
    BY <2>1, FromFacts
  <2> HIDE DEF g, piece
  <2>4. piece.length = 1 /\ piece.read = 0
    BY <2>2
  <2>5. rest = g[m][k]
    BY <2>1, <2>4
  <2> HIDE DEF rest
  <2>6. m - 1 \in Good
    BY <1>3, <2>1, <2>3, <2>5
  <2> HIDE DEF Good
  <2> QED BY <1>2, <2>1, <2>6
<1> QED BY <1>3, <1>4

(* ... and stand for themselves.                                           *)
LEMMA FromRun ==
  ASSUME NEW f \in Seq(Char), NEW args \in Seq(Arg), NEW k \in Nat,
         NEW e \in 1 .. Len(f) + 1, NEW s \in 1 .. e, \A j \in s .. e - 1 : f[j] # "%",
         From(f, args)[s][k].read <= Len(args)
  PROVE  /\ From(f, args)[s][k].text = SubSeq(f, s, e - 1) \o From(f, args)[e][k].text
         /\ From(f, args)[s][k].read = From(f, args)[e][k].read
<1> DEFINE g == From(f, args)
           Holds(i) == /\ g[i][k].text = SubSeq(f, i, e - 1) \o g[e][k].text
                       /\ g[i][k].read = g[e][k].read
           Good == {i \in s .. e : Holds(i)}
<1>1. Len(f) \in Nat /\ e \in Nat /\ s \in Nat /\ e \in s .. e
  BY LenProperties
<1>2. g[e][k].text \in Seq(Char)
  <2>1. g[e][k].read <= Len(args)
    BY RunReads
  <2> QED BY <2>1, FromText
<1>3. e \in Good
  <2>1. SubSeq(f, e, e - 1) = <<>>
    BY <1>1, SubSeqEmpty
  <2>2. <<>> \o g[e][k].text = g[e][k].text
    BY <1>2, ConcatEmptySeq
  <2> HIDE DEF g
  <2> QED BY <1>1, <2>1, <2>2
<1>4. PICK m \in Good : \A j \in Good : m <= j
  <2> HIDE DEF Holds
  <2>1. Good \in SUBSET Nat /\ Good # {}
    BY <1>1, <1>3
  <2> HIDE DEF Good
  <2> QED BY <2>1, LeastNatural
<1>5. m \in s .. e /\ Holds(m)
  OBVIOUS
<1>6. m = s
  <2> SUFFICES ASSUME m # s PROVE FALSE
    OBVIOUS
  <2>1. /\ m - 1 \in 1 .. Len(f) /\ m - 1 \in s .. e - 1 /\ m - 1 \in s .. e /\ ~(m <= m - 1)
        /\ e - 1 \in m - 1 .. Len(f) /\ m - 1 + 1 = m
    BY <1>1, <1>5
  <2>2. g[m - 1][k] = [text |-> <<f[m - 1]>> \o g[m][k].text, read |-> g[m][k].read]
    <3> DEFINE piece == Piece(f, m - 1, args, k)
               rest  == g[m - 1 + piece.length][k + piece.read]
    <3>1. piece = [text |-> <<f[m - 1]>>, length |-> 1, read |-> 0]
      BY <2>1, PieceLiteral
    <3>2. g[m - 1][k] = [text |-> piece.text \o rest.text, read |-> rest.read]
      BY <2>1, FromFacts
    <3> HIDE DEF g, piece
    <3>3. piece.text = <<f[m - 1]>> /\ piece.length = 1 /\ piece.read = 0
      BY <3>1
    <3>4. rest = g[m][k]
      BY <2>1, <3>3
    <3> HIDE DEF rest
    <3> QED BY <3>2, <3>3, <3>4
  <2> HIDE DEF g
  <2>3. f[m - 1] \in Char /\ <<f[m - 1]>> \in Seq(Char)
    BY <2>1, ElementOfSeq
  <2>4. SubSeq(f, m - 1, e - 1) = <<f[m - 1]>> \o SubSeq(f, m, e - 1)
    BY <2>1, SubSeqRecursiveFirst
  <2>5. SubSeq(f, m, e - 1) \in Seq(Char)
    <3>1. \A j \in m .. e - 1 : f[j] \in Char
      <4>1. \A j \in m .. e - 1 : j \in 1 .. Len(f)
        BY <1>1, <1>5
      <4> QED BY <4>1, ElementOfSeq
    <3>2. m \in Int /\ e - 1 \in Int
      BY <1>1, <1>5
    <3> QED BY <3>1, <3>2, SubSeqProperties
  <2>6. (<<f[m - 1]>> \o SubSeq(f, m, e - 1)) \o g[e][k].text =
          <<f[m - 1]>> \o (SubSeq(f, m, e - 1) \o g[e][k].text)
    <3>2. g[e][k].text \in Seq(Char)
      BY <1>2 DEF g
    <3> QED BY <2>3, <2>5, <3>2, TextAssociative
  <2>7. Holds(m - 1)
    <3>1. /\ g[m][k].text = SubSeq(f, m, e - 1) \o g[e][k].text
          /\ g[m][k].read = g[e][k].read
      BY <1>5 DEF g
    <3>2. g[m - 1][k].text = <<f[m - 1]>> \o g[m][k].text /\ g[m - 1][k].read = g[m][k].read
      <4> DEFINE text == <<f[m - 1]>> \o g[m][k].text
                 read == g[m][k].read
      <4>1. g[m - 1][k] = [text |-> text, read |-> read]
        BY <2>2
      <4> HIDE DEF text, read
      <4>2. g[m - 1][k].text = text /\ g[m - 1][k].read = read
        BY <4>1
      <4> QED BY <4>2 DEF text, read
    <3> QED BY <2>4, <2>6, <3>1, <3>2
  <2>8. m - 1 \in Good
    BY <2>1, <2>7
  <2> HIDE DEF Good
  <2> QED BY <1>4, <2>1, <2>8
<1> QED BY <1>5, <1>6

-----------------------------------------------------------------------------
(* The turns of printf's loop.                                             *)

(* From its i-th character on, k arguments read, the format stands for a   *)
(* text and what it stands for n characters and so many arguments later.   *)
Advances(f, args, i, k, text, n, read) ==
  /\ n \in Nat /\ read \in Nat /\ i + n \in 1 .. Len(f) + 1 /\ text \in Seq(Char)
  /\ From(f, args)[i][k].text = text \o From(f, args)[i + n][k + read].text
  /\ From(f, args)[i][k].read = From(f, args)[i + n][k + read].read

(* A piece is a turn.                                                      *)
LEMMA PieceAdvances ==
  ASSUME NEW f \in Seq(Char), NEW args \in Seq(Arg), NEW i \in 1 .. Len(f), NEW k \in Nat,
         NEW text, NEW n, NEW read,
         Piece(f, i, args, k) = [text |-> text, length |-> n, read |-> read],
         From(f, args)[i][k].read <= Len(args)
  PROVE  Advances(f, args, i, k, text, n, read) /\ k + read <= Len(args)
<1> DEFINE g == From(f, args)
           piece == Piece(f, i, args, k)
           rest  == g[i + piece.length][k + piece.read]
<1>1. g[i][k] = [text |-> piece.text \o rest.text, read |-> rest.read]
  BY FromFacts
<1>2. /\ piece.length \in Nat \ {0} /\ i + piece.length \in 1 .. Len(f) + 1
      /\ piece.read \in {0, 1}
      /\ k + piece.read <= Len(args) => piece.text \in Seq(Char)
  BY PieceFacts
<1>3. piece.text = text /\ piece.length = n /\ piece.read = read
  OBVIOUS
<1> HIDE DEF piece
<1>4. n \in Nat /\ read \in Nat /\ i + n \in 1 .. Len(f) + 1 /\ k + read \in Nat
  BY <1>2, <1>3
<1>5. /\ g[i][k].text = text \o g[i + n][k + read].text
      /\ g[i][k].read = g[i + n][k + read].read
  <2>1. rest = g[i + n][k + read]
    BY <1>3
  <2> HIDE DEF g, rest
  <2> QED BY <1>1, <1>3, <2>1
<1>6. g[i + n][k + read].read \in Nat /\ k + read <= g[i + n][k + read].read
  BY <1>4, FromText
<1>7. k + read <= Len(args)
  <2>1. g[i][k].read <= Len(args) /\ Len(args) \in Nat
    BY LenProperties
  <2> HIDE DEF g
  <2> QED BY <1>4, <1>5, <1>6, <2>1
<1>8. text \in Seq(Char)
  BY <1>2, <1>3, <1>7
<1> QED BY <1>4, <1>5, <1>7, <1>8 DEF Advances

(* There is an amount, and no percent sign after its first character.      *)
LEMMA AmountFacts ==
  ASSUME NEW f \in Seq(Char), f # <<>>
  PROVE  Amount(f) \in 1 .. Len(f) /\ \A j \in 1 .. Amount(f) - 1 : f[j + 1] # "%"
<1> DEFINE Ends == {n \in 1 .. Len(f) : n = Len(f) \/ f[n + 1] = "%"}
<1>1. Len(f) \in Nat /\ Len(f) # 0
  BY LenProperties, EmptySeq
<1>2. PICK n \in Ends : \A m \in Ends : n <= m
  <2>1. Ends \in SUBSET Nat /\ Len(f) \in Ends
    BY <1>1
  <2> HIDE DEF Ends
  <2> QED BY <2>1, LeastNatural
<1>3. \A j \in 1 .. n - 1 : f[j + 1] # "%"
  <2>1. ASSUME NEW j \in 1 .. n - 1
        PROVE  j \notin Ends /\ j \in 1 .. Len(f)
    <3>1. ~(n <= j) /\ j \in 1 .. Len(f)
      BY <1>1
    <3> HIDE DEF Ends
    <3> QED BY <1>2, <3>1
  <2> QED BY <2>1
<1>4. \E a \in 1 .. Len(f) : /\ a = Len(f) \/ f[a + 1] = "%"
                             /\ \A j \in 1 .. a - 1 : f[j + 1] # "%"
  BY <1>3
<1> QED BY <1>4 DEF Amount

(* A part of what is left is a part of the format.                         *)
LEMMA PartOfRest ==
  ASSUME NEW f \in Seq(Char), NEW n \in Nat, NEW a \in Nat \ {0}, n + a <= Len(f)
  PROVE  SubSeq(Drop(f, n), 1, a) = SubSeq(f, n + 1, n + a)
<1>1. /\ Len(f) \in Nat /\ n + 1 \in 1 .. Len(f) /\ Len(f) \in 1 .. Len(f)
      /\ 1 \in 1 .. Len(f) - (n + 1) + 1 /\ a \in 1 .. Len(f) - (n + 1) + 1
  BY LenProperties
<1>2. SubSeq(SubSeq(f, n + 1, Len(f)), 1, a) = SubSeq(f, (n + 1) + 1 - 1, (n + 1) + a - 1)
  BY <1>1, SubSeqOfSubSeq
<1>3. (n + 1) + 1 - 1 = n + 1 /\ (n + 1) + a - 1 = n + a
  OBVIOUS
<1> QED BY <1>2, <1>3 DEF Drop

(* What an amount of characters is made of.                                *)
LEMMA AmountOfRest ==
  ASSUME NEW f \in Seq(Char), NEW n \in Nat, n < Len(f)
  PROVE  LET a == Amount(Drop(f, n))
         IN  /\ a \in Nat \ {0} /\ n + a <= Len(f)
             /\ SubSeq(Drop(f, n), 1, a) = SubSeq(f, n + 1, n + a)
             /\ \A j \in n + 2 .. n + a : f[j] # "%"
<1> DEFINE g == Drop(f, n)
           a == Amount(g)
<1>1. Len(f) \in Nat /\ n \in 0 .. Len(f)
  BY LenProperties
<1>2. g \in Seq(Char) /\ Len(g) = Len(f) - n /\ \A i \in 1 .. Len(f) - n : g[i] = f[n + i]
  BY <1>1, DropFacts
<1> HIDE DEF g
<1>3. g # <<>>
  BY <1>1, <1>2
<1>4. a \in 1 .. Len(g) /\ \A j \in 1 .. a - 1 : g[j + 1] # "%"
  BY <1>2, <1>3, AmountFacts
<1> HIDE DEF a
<1>5. a \in Nat \ {0} /\ n + a <= Len(f)
  BY <1>1, <1>2, <1>4
<1>6. SubSeq(g, 1, a) = SubSeq(f, n + 1, n + a)
  BY <1>5, PartOfRest DEF g
<1>7. ASSUME NEW j \in n + 2 .. n + a
      PROVE  f[j] # "%"
  <2>1. /\ j - n - 1 \in 1 .. a - 1 /\ (j - n - 1) + 1 = j - n
        /\ j - n \in 1 .. Len(f) - n /\ n + (j - n) = j
    BY <1>1, <1>5
  <2> QED BY <1>2, <1>4, <2>1
<1> QED BY <1>5, <1>6, <1>7 DEF a, g

(* Characters up to a percent sign are a turn.                             *)
LEMMA LiteralAdvances ==
  ASSUME NEW f \in Seq(Char), NEW args \in Seq(Arg), NEW i \in 1 .. Len(f), NEW k \in Nat,
         From(f, args)[i][k].read <= Len(args), f[i] # "%"
  PROVE  LET g == Drop(f, i - 1)
         IN  Advances(f, args, i, k, SubSeq(g, 1, Amount(g)), Amount(g), 0)
<1> DEFINE g == Drop(f, i - 1)
           a == Amount(g)
<1>1. /\ a \in Nat \ {0} /\ i - 1 + a <= Len(f)
      /\ SubSeq(g, 1, a) = SubSeq(f, i - 1 + 1, i - 1 + a)
      /\ \A j \in i - 1 + 2 .. i - 1 + a : f[j] # "%"
  <2>1. i - 1 \in Nat /\ i - 1 < Len(f)
    BY LenProperties
  <2> QED BY <2>1, AmountOfRest
<1> HIDE DEF g, a
<1>2. PICK e \in 1 .. Len(f) + 1 : e = i + a /\ i \in 1 .. e
  <2>1. i + a \in 1 .. Len(f) + 1 /\ i \in 1 .. i + a
    BY <1>1, LenProperties
  <2> QED BY <2>1
<1>3. SubSeq(g, 1, a) = SubSeq(f, i, e - 1)
  <2>1. i - 1 + 1 = i /\ i - 1 + a = e - 1
    BY <1>1, <1>2
  <2> QED BY <1>1, <2>1
<1>4. \A j \in i .. e - 1 : f[j] # "%"
  <2>1. \A j \in i .. e - 1 : j = i \/ j \in i - 1 + 2 .. i - 1 + a
    BY <1>1, <1>2
  <2> QED BY <1>1, <2>1
<1>5. /\ From(f, args)[i][k].text = SubSeq(f, i, e - 1) \o From(f, args)[e][k].text
      /\ From(f, args)[i][k].read = From(f, args)[e][k].read
  BY <1>2, <1>4, FromRun
<1>6. SubSeq(f, i, e - 1) \in Seq(Char)
  <2>1. \A j \in i .. e - 1 : f[j] \in Char
    <3>1. \A j \in i .. e - 1 : j \in 1 .. Len(f)
      BY <1>2, LenProperties
    <3> QED BY <3>1, ElementOfSeq
  <2>2. i \in Int /\ e - 1 \in Int
    BY <1>2
  <2> QED BY <2>1, <2>2, SubSeqProperties
<1>7. k + 0 = k /\ i + a \in 1 .. Len(f) + 1 /\ a \in Nat
  BY <1>1, <1>2
<1> QED BY <1>2, <1>3, <1>5, <1>6, <1>7 DEF Advances, a, g

(* So are the second of two percent signs and the characters after it.     *)
LEMMA PercentAdvances ==
  ASSUME NEW f \in Seq(Char), NEW args \in Seq(Arg), NEW i \in 1 .. Len(f), NEW k \in Nat,
         From(f, args)[i][k].read <= Len(args), f[i] = "%", Begins(Drop(f, i), <<"%">>)
  PROVE  LET g == Drop(f, i)
         IN  Advances(f, args, i, k, SubSeq(g, 1, Amount(g)), 1 + Amount(g), 0)
<1> DEFINE g == Drop(f, i)
           a == Amount(g)
<1>1. i < Len(f) /\ f[i + 1] = "%" /\ i \in Nat /\ Len(f) \in Nat
  <2>1. i \in 0 .. Len(f) /\ "%" \in Char
    BY DEF Char
  <2> QED BY <2>1, BeginsChar, LenProperties
<1>2. /\ a \in Nat \ {0} /\ i + a <= Len(f)
      /\ SubSeq(g, 1, a) = SubSeq(f, i + 1, i + a)
      /\ \A j \in i + 2 .. i + a : f[j] # "%"
  BY <1>1, AmountOfRest
<1> HIDE DEF g, a
<1>3. PICK e \in 1 .. Len(f) + 1, s \in 1 .. Len(f) + 1 : e = i + a + 1 /\ s = i + 2 /\ s \in 1 .. e
  <2>1. i + a + 1 \in 1 .. Len(f) + 1 /\ i + 2 \in 1 .. Len(f) + 1 /\ i + 2 \in 1 .. i + a + 1
    BY <1>1, <1>2
  <2> QED BY <2>1
<1>4. /\ Advances(f, args, i, k, <<"%">>, 2, 0)
  <2>1. Piece(f, i, args, k) = [text |-> <<"%">>, length |-> 2, read |-> 0]
    BY PiecePercent
  <2> QED BY <2>1, PieceAdvances
<1>5. /\ From(f, args)[i][k].text = <<"%">> \o From(f, args)[s][k].text
      /\ From(f, args)[i][k].read = From(f, args)[s][k].read
  <2>1. k + 0 = k
    OBVIOUS
  <2> QED BY <1>3, <1>4, <2>1 DEF Advances
<1>6. \A j \in s .. e - 1 : f[j] # "%"
  <2>1. \A j \in s .. e - 1 : j \in i + 2 .. i + a
    BY <1>1, <1>2, <1>3
  <2> QED BY <1>2, <2>1
<1>7. /\ From(f, args)[s][k].text = SubSeq(f, s, e - 1) \o From(f, args)[e][k].text
      /\ From(f, args)[s][k].read = From(f, args)[e][k].read
  BY <1>3, <1>5, <1>6, FromRun
<1>8. SubSeq(g, 1, a) = <<"%">> \o SubSeq(f, s, e - 1)
  <2>1. i + 1 \in 1 .. Len(f) /\ i + a \in i + 1 .. Len(f) /\ i + 1 + 1 = s /\ i + a = e - 1
    BY <1>1, <1>2, <1>3
  <2>2. SubSeq(f, i + 1, i + a) = <<f[i + 1]>> \o SubSeq(f, i + 1 + 1, i + a)
    BY <2>1, SubSeqRecursiveFirst
  <2> QED BY <1>1, <1>2, <2>1, <2>2
<1>9. SubSeq(f, s, e - 1) \in Seq(Char) /\ <<"%">> \in Seq(Char)
  <2>1. \A j \in s .. e - 1 : f[j] \in Char
    <3>1. \A j \in s .. e - 1 : j \in 1 .. Len(f)
      BY <1>1, <1>2, <1>3
    <3> QED BY <3>1, ElementOfSeq
  <2>2. s \in Int /\ e - 1 \in Int
    BY <1>3
  <2> QED BY <2>1, <2>2, SubSeqProperties, Texts
<1>10. From(f, args)[e][k].text \in Seq(Char)
  <2>1. From(f, args)[e][k].read <= Len(args)
    BY <1>5, <1>7
  <2> QED BY <2>1, FromText
<1>11. SubSeq(g, 1, a) \in Seq(Char)
  <2>1. <<"%">> \o SubSeq(f, s, e - 1) \in Seq(Char)
    BY <1>9, ConcatProperties, Zenon
  <2> QED BY <1>8, <2>1
<1>12. From(f, args)[i][k].text = SubSeq(g, 1, a) \o From(f, args)[e][k].text
  <2>1. (<<"%">> \o SubSeq(f, s, e - 1)) \o From(f, args)[e][k].text =
          <<"%">> \o (SubSeq(f, s, e - 1) \o From(f, args)[e][k].text)
    BY <1>9, <1>10, TextAssociative
  <2> QED BY <1>5, <1>7, <1>8, <2>1
<1>13. k + 0 = k /\ i + (1 + a) = e /\ 1 + a \in Nat
  BY <1>2, <1>3
<1> QED BY <1>3, <1>5, <1>7, <1>11, <1>12, <1>13 DEF Advances, a, g

-----------------------------------------------------------------------------
(* The invariant: what was sent, and what is left of the format, are what  *)
(* the format stands for.                                                  *)

(* A call the formats and arguments of the model make, or none yet.        *)
Given(f, args) == f \in Seq(Char) /\ args \in Seq(Arg) /\ Stands(f, args).read <= Len(args)

(* The call is at the i-th character, k arguments read.                    *)
Reached(f, args, left, unread, out, i, k) ==
  /\ i \in 1 .. Len(f) + 1 /\ k \in Nat /\ left = Drop(f, i - 1) /\ unread = Drop(args, k)
  /\ Stands(f, args).text = out \o From(f, args)[i][k].text
  /\ Stands(f, args).read = From(f, args)[i][k].read

(* Its count is that of an int as long as it can be.                       *)
Counted(f, out, count) ==
  /\ out \in Seq(Char)
  /\ Len(out) <= INT_MAX => count = Len(out)
  /\ ~Unchecked(f) => Len(out) <= INT_MAX

(* It returned the count, or -1 because the text is too long.              *)
Ended(f, args, left, out, result) ==
  \/ left = <<>> /\ (Len(out) <= INT_MAX => result = Len(out))
  \/ result = -1 /\ Len(Stands(f, args).text) > INT_MAX

PrintInv ==
  /\ Given(given.format, given.args)
  /\ Negatable(given.args) =>
       /\ Counted(given.format, sent, written)
       /\ \E i \in 1 .. Len(given.format) + 1, k \in Nat :
             Reached(given.format, given.args, format, parameters, sent, i, k)
       /\ ~running => Ended(given.format, given.args, format, sent, returned)

(* Nothing dropped, everything dropped, and nothing but the first.         *)
LEMMA DropEnds ==
  ASSUME NEW S, NEW f \in Seq(S)
  PROVE  /\ Drop(f, 0) = f
         /\ \A n \in 0 .. Len(f) : Drop(f, n) = <<>> <=> n = Len(f)
         /\ \A n \in 0 .. Len(f) : n < Len(f) =>
              Head(Drop(f, n)) = f[n + 1] /\ Tail(Drop(f, n)) = Drop(f, n + 1)
<1>1. Len(f) \in Nat
  BY LenProperties
<1>2. Drop(f, 0) = f
  <2>1. SubSeq(f, 1, Len(f)) = f /\ 0 + 1 = 1
    BY SubSeqFull
  <2> QED BY <2>1 DEF Drop
<1>3. ASSUME NEW n \in 0 .. Len(f)
      PROVE  Drop(f, n) = <<>> <=> n = Len(f)
  <2> DEFINE g == Drop(f, n)
  <2>1. g \in Seq(S) /\ Len(g) = Len(f) - n
    BY DropFacts
  <2> HIDE DEF g
  <2>2. g = <<>> <=> Len(g) = 0
    BY <2>1, EmptySeq
  <2> QED BY <1>1, <2>1, <2>2 DEF g
<1>4. ASSUME NEW n \in 0 .. Len(f), n < Len(f)
      PROVE  Head(Drop(f, n)) = f[n + 1] /\ Tail(Drop(f, n)) = Drop(f, n + 1)
  <2>1. n + 1 \in 1 .. Len(f) /\ Len(f) \in n + 1 .. Len(f)
    BY <1>1, <1>4
  <2> QED BY <2>1, HeadTailOfSubSeq DEF Drop
<1> QED BY <1>2, <1>3, <1>4

(* What the call is at, with what is left a text.                          *)
LEMMA ReachedFacts ==
  ASSUME NEW f, NEW args, Given(f, args), NEW left, NEW unread, NEW out, NEW i, NEW k,
         Reached(f, args, left, unread, out, i, k)
  PROVE  /\ From(f, args)[i][k].read <= Len(args) /\ k <= Len(args)
         /\ From(f, args)[i][k].text \in Seq(Char)
<1>1. f \in Seq(Char) /\ args \in Seq(Arg) /\ i \in 1 .. Len(f) + 1 /\ k \in Nat
  BY DEF Given, Reached
<1>2. From(f, args)[i][k].read <= Len(args)
  BY DEF Given, Reached
<1>3. /\ From(f, args)[i][k].read \in Nat /\ k <= From(f, args)[i][k].read
      /\ From(f, args)[i][k].read <= Len(args) => From(f, args)[i][k].text \in Seq(Char)
  BY <1>1, FromText
<1>4. \A r \in Nat : k <= r /\ r <= Len(args) => k <= Len(args)
  BY <1>1, LenProperties
<1> QED BY <1>2, <1>3, <1>4

(* A turn moves on in the text.                                            *)
LEMMA ReachedNext ==
  ASSUME NEW f, NEW args, Given(f, args), NEW left, NEW unread, NEW out \in Seq(Char), NEW i, NEW k,
         Reached(f, args, left, unread, out, i, k), NEW text, NEW n, NEW read,
         Advances(f, args, i, k, text, n, read)
  PROVE  /\ Reached(f, args, Drop(left, n), Drop(unread, read), out \o text, i + n, k + read)
         /\ out \o text \in Seq(Char) /\ Len(out \o text) = Len(out) + Len(text)
         /\ Len(out) + Len(text) <= Len(Stands(f, args).text)
<1> DEFINE rest == From(f, args)[i + n][k + read]
<1>1. /\ f \in Seq(Char) /\ args \in Seq(Arg) /\ i \in 1 .. Len(f) + 1 /\ k \in Nat
      /\ left = Drop(f, i - 1) /\ unread = Drop(args, k)
  BY DEF Given, Reached
<1>2. n \in Nat /\ read \in Nat /\ i + n \in 1 .. Len(f) + 1 /\ text \in Seq(Char)
  BY DEF Advances
<1>3. /\ Stands(f, args).text = out \o (text \o rest.text)
      /\ Stands(f, args).read = rest.read
  BY DEF Advances, Reached
<1>4. k + read \in Nat /\ k + read <= Len(args) /\ rest.text \in Seq(Char)
  <2>1. k + read \in Nat
    BY <1>1, <1>2
  <2>2. /\ rest.read \in Nat /\ k + read <= rest.read
        /\ rest.read <= Len(args) => rest.text \in Seq(Char)
    BY <1>1, <1>2, <2>1, FromText
  <2>3. rest.read <= Len(args) /\ Len(args) \in Nat
    BY <1>1, <1>3, LenProperties DEF Given
  <2> HIDE DEF rest
  <2> QED BY <2>1, <2>2, <2>3
<1> HIDE DEF rest
<1>5. out \o text \in Seq(Char) /\ Len(out \o text) = Len(out) + Len(text)
  BY <1>2, ConcatProperties
<1>6. Stands(f, args).text = (out \o text) \o rest.text
  BY <1>2, <1>3, <1>4, TextAssociative
<1>7. Len(out) + Len(text) <= Len(Stands(f, args).text)
  <2>1. Len((out \o text) \o rest.text) = Len(out \o text) + Len(rest.text)
    BY <1>4, <1>5, ConcatProperties
  <2>2. Len(out) \in Nat /\ Len(text) \in Nat /\ Len(rest.text) \in Nat
    BY <1>2, <1>4, LenProperties
  <2>3. Len(Stands(f, args).text) = Len(out) + Len(text) + Len(rest.text)
    BY <1>5, <1>6, <2>1
  <2>4. \A x, y, z \in Nat : x + y <= x + y + z
    OBVIOUS
  <2> QED BY <2>2, <2>3, <2>4
<1>8. Drop(left, n) = Drop(f, i + n - 1)
  <2>1. i - 1 \in Nat /\ i - 1 + n <= Len(f) /\ i - 1 + n = i + n - 1
    BY <1>1, <1>2, LenProperties
  <2> QED BY <1>1, <1>2, <2>1, DropDrop
<1>9. Drop(unread, read) = Drop(args, k + read)
  BY <1>1, <1>2, <1>4, DropDrop
<1>10. Reached(f, args, Drop(left, n), Drop(unread, read), out \o text, i + n, k + read)
  <2>1. /\ Stands(f, args).text = (out \o text) \o From(f, args)[i + n][k + read].text
        /\ Stands(f, args).read = From(f, args)[i + n][k + read].read
    BY <1>3, <1>6 DEF rest
  <2> QED BY <1>2, <1>4, <1>8, <1>9, <2>1 DEF Reached
<1> QED BY <1>5, <1>7, <1>10

(* The room is what an int has left.                                       *)
LEMMA RoomIs ==
  ASSUME NEW n \in Nat, n <= INT_MAX, written = n
  PROVE  Room = INT_MAX - n
<1>1. INT_MAX - n \in Nat /\ 2 * (INT_MAX + 1) \in Nat \ {0} /\ INT_MAX - n < 2 * (INT_MAX + 1)
  BY PrintfAssumption
<1> QED BY <1>1, SmallMod DEF Room

(* A turn sends its text, unless it looks at the room and there is none.   *)
LEMMA TurnKeeps ==
  ASSUME PrintInv, running, NEW i, NEW k, Negatable(given.args),
         Reached(given.format, given.args, format, parameters, sent, i, k),
         NEW text, NEW n, NEW read, Advances(given.format, given.args, i, k, text, n, read),
         \/ Checks(text, n, read)
         \/ Sends(text, n, read) /\ Unchecked(given.format)
  PROVE  PrintInv'
<1>1. /\ Given(given.format, given.args) /\ Counted(given.format, sent, written)
      /\ sent \in Seq(Char) /\ Len(sent) \in Nat /\ INT_MAX \in Nat
  BY LenProperties, PrintfAssumption DEF PrintInv, Counted
<1>2. text \in Seq(Char) /\ Len(text) \in Nat
  BY LenProperties DEF Advances
<1>3. /\ Reached(given.format, given.args, Drop(format, n), Drop(parameters, read), sent \o text,
                 i + n, k + read)
      /\ sent \o text \in Seq(Char) /\ Len(sent \o text) = Len(sent) + Len(text)
      /\ Len(sent) + Len(text) <= Len(Stands(given.format, given.args).text)
  BY <1>1, ReachedNext
<1>4. ASSUME Sends(text, n, read), Len(text) <= Room \/ Unchecked(given.format)
      PROVE  PrintInv'
  <2>1. /\ given' = given /\ running' = running /\ sent' = sent \o text
        /\ format' = Drop(format, n) /\ parameters' = Drop(parameters, read)
        /\ written' = Wrapped(written + Len(text))
    BY <1>4 DEF Sends
  <2>2. ASSUME Len(sent') <= INT_MAX
        PROVE  written' = Len(sent')
    <3>1. Len(sent) <= INT_MAX /\ Len(sent) + Len(text) <= INT_MAX
      BY <1>1, <1>2, <1>3, <2>1, <2>2
    <3>2. written + Len(text) = Len(sent')
      BY <1>1, <1>3, <2>1, <3>1 DEF Counted
    <3>3. Len(sent') \in INT_MIN .. INT_MAX
      BY <1>1, <1>2, <1>3, <2>1, <2>2 DEF INT_MIN
    <3> QED BY <2>1, <3>2, <3>3, WrappedIs
  <2>3. ASSUME ~Unchecked(given.format)
        PROVE  Len(sent') <= INT_MAX
    <3>1. Len(sent) <= INT_MAX /\ written = Len(sent) /\ Len(text) <= Room
      BY <1>1, <1>4, <2>3 DEF Counted
    <3>2. Room = INT_MAX - Len(sent)
      BY <1>1, <3>1, RoomIs
    <3> QED BY <1>1, <1>2, <1>3, <2>1, <3>1, <3>2
  <2>4. Counted(given.format, sent', written')
    BY <1>3, <2>1, <2>2, <2>3 DEF Counted
  <2>5. i + n \in 1 .. Len(given.format) + 1 /\ k + read \in Nat
    BY <1>3 DEF Reached
  <2>6. \E j \in 1 .. Len(given.format) + 1, m \in Nat :
          Reached(given.format, given.args, format', parameters', sent', j, m)
    BY <1>3, <2>1, <2>5
  <2> QED BY <1>1, <2>1, <2>4, <2>6 DEF PrintInv
<1>5. ASSUME Len(text) > Room, Fails
      PROVE  PrintInv'
  <2>1. /\ returned' = -1
        /\ UNCHANGED <<format, parameters, written, sent, given>>
    BY <1>5 DEF Fails
  <2>2. Len(Stands(given.format, given.args).text) > INT_MAX
    <3> DEFINE len == Len(Stands(given.format, given.args).text)
    <3>1. Stands(given.format, given.args).text \in Seq(Char)
      <4>1. From(given.format, given.args)[i][k].text \in Seq(Char)
        BY <1>1, ReachedFacts
      <4> QED BY <1>1, <4>1, ConcatProperties DEF Reached
    <3>2. len \in Nat
      BY <3>1, LenProperties
    <3>3. CASE Len(sent) <= INT_MAX
      <4>1. written = Len(sent)
        BY <1>1, <3>3 DEF Counted
      <4>2. Room = INT_MAX - Len(sent)
        BY <1>1, <3>3, <4>1, RoomIs
      <4> HIDE DEF len
      <4>3. Len(sent) + Len(text) <= len
        BY <1>3 DEF len
      <4>4. len > INT_MAX
        BY <1>1, <1>2, <1>5, <3>2, <4>2, <4>3
      <4> QED BY <4>4 DEF len
    <3>4. CASE ~(Len(sent) <= INT_MAX)
      <4> HIDE DEF len
      <4>1. Len(sent) + Len(text) <= len
        BY <1>3 DEF len
      <4>2. len > INT_MAX
        BY <1>1, <1>2, <3>2, <3>4, <4>1
      <4> QED BY <4>2 DEF len
    <3> QED BY <3>3, <3>4
  <2>3. Ended(given.format, given.args, format', sent', returned')
    BY <2>1, <2>2 DEF Ended
  <2>4. \E j \in 1 .. Len(given.format) + 1, m \in Nat :
          Reached(given.format, given.args, format', parameters', sent', j, m)
    BY <2>1 DEF Reached
  <2> QED BY <1>1, <2>1, <2>3, <2>4 DEF PrintInv
<1> QED BY <1>4, <1>5 DEF Checks

(* A conversion is one of the format, and its argument the next one.       *)
LEMMA ConversionAdvances ==
  ASSUME PrintInv, NEW i, NEW k,
         Reached(given.format, given.args, format, parameters, sent, i, k),
         NEW conv \in Conversions, Conversion(conv)
  PROVE  /\ Advances(given.format, given.args, i, k, Spelled(conv, Head(parameters)), 1 + Len(conv), 1)
         /\ \E n \in DOMAIN given.args : Head(parameters) = given.args[n]
         /\ Head(parameters) \in Arg
<1> DEFINE f == given.format
           args == given.args
<1>1. Given(f, args) /\ Reached(f, args, format, parameters, sent, i, k)
  BY DEF PrintInv
<1> HIDE DEF f, args
<1>2. /\ f \in Seq(Char) /\ args \in Seq(Arg) /\ i \in 1 .. Len(f) + 1 /\ k \in Nat
      /\ format = Drop(f, i - 1) /\ parameters = Drop(args, k)
      /\ From(f, args)[i][k].read <= Len(args)
  BY <1>1, ReachedFacts DEF Given, Reached
<1>3. Len(f) \in Nat /\ Len(args) \in Nat
  BY <1>2, LenProperties
<1>4. conv \in Seq(Char)
  BY ConvTexts
<1>5. i \in 1 .. Len(f) /\ f[i] = "%" /\ Begins(Drop(f, i), conv)
  <2>1. i - 1 \in 0 .. Len(f) /\ (i - 1) + 1 = i
    BY <1>2, <1>3
  <2>2. Begins(Drop(f, i - 1), <<"%">> \o conv)
    BY <1>2 DEF Conversion
  <2>3. i - 1 < Len(f) /\ f[(i - 1) + 1] = "%" /\ Begins(Drop(f, (i - 1) + 1), conv)
    BY <1>2, <1>4, <2>1, <2>2, BeginsConv
  <2> QED BY <1>2, <1>3, <2>1, <2>3
<1>6. Piece(f, i, args, k) =
        [text |-> Spelled(conv, args[k + 1]), length |-> 1 + Len(conv), read |-> 1]
  <2>1. f[i] = "%" /\ Begins(Drop(f, i), conv) /\ conv \in Conversions
    BY <1>5
  <2>2. f \in Seq(Char) /\ i \in 1 .. Len(f)
    BY <1>2, <1>5
  <2> QED BY ONLY <2>1, <2>2, PieceConv, SMT
<1>7. /\ Advances(f, args, i, k, Spelled(conv, args[k + 1]), 1 + Len(conv), 1)
      /\ k + 1 <= Len(args)
  BY <1>2, <1>5, <1>6, PieceAdvances
<1>8. Head(parameters) = args[k + 1]
  <2>1. k \in 0 .. Len(args) /\ k < Len(args)
    BY <1>2, <1>3, <1>7
  <2> QED BY <1>2, <2>1, DropEnds
<1>9. k + 1 \in DOMAIN args /\ args[k + 1] \in Arg
  <2>1. k + 1 \in 1 .. Len(args)
    BY <1>2, <1>3, <1>7
  <2> QED BY <1>2, <2>1, LenProperties, ElementOfSeq
<1> QED BY <1>7, <1>8, <1>9 DEF f, args

(* Characters go out as they are.                                          *)
LEMMA LiteralKeeps ==
  ASSUME PrintInv, NEW i, NEW k, Negatable(given.args),
         Reached(given.format, given.args, format, parameters, sent, i, k), PrintsLiteral
  PROVE  PrintInv'
<1> DEFINE f == given.format
           args == given.args
<1>1. Given(f, args) /\ Reached(f, args, format, parameters, sent, i, k)
  BY DEF PrintInv
<1> HIDE DEF f, args
<1>2. /\ f \in Seq(Char) /\ args \in Seq(Arg) /\ i \in 1 .. Len(f) + 1 /\ k \in Nat
      /\ format = Drop(f, i - 1) /\ From(f, args)[i][k].read <= Len(args)
  BY <1>1, ReachedFacts DEF Given, Reached
<1>3. Len(f) \in Nat /\ i - 1 \in 0 .. Len(f) /\ (i - 1) + 1 = i /\ "%" \in Char /\ i \in Nat
  BY <1>2, LenProperties DEF Char
<1>4. CASE running /\ format # <<>> /\ ~Begins(format, <<"%">>) /\ Literal(format, 0)
  <2>1. i - 1 < Len(f)
    <3>1. i - 1 # Len(f)
      BY <1>2, <1>3, <1>4, DropEnds
    <3> QED BY <1>2, <1>3, <3>1
  <2>2. i \in 1 .. Len(f) /\ f[i] # "%"
    <3>1. ~(f[(i - 1) + 1] = "%")
      BY <1>2, <1>3, <1>4, <2>1, BeginsChar
    <3> QED BY <1>2, <1>3, <2>1, <3>1
  <2>3. Advances(f, args, i, k, SubSeq(format, 1, Amount(format)), Amount(format), 0)
    BY <1>2, <2>2, LiteralAdvances
  <2>4. 0 + Amount(format) = Amount(format)
    <3>1. Amount(format) \in Nat
      BY <2>3 DEF Advances
    <3> QED BY <3>1
  <2>5. Checks(SubSeq(format, 1, Amount(format)), Amount(format), 0)
    BY <1>4, <2>4 DEF Literal
  <2> QED BY <1>4, <2>3, <2>5, TurnKeeps DEF f, args
<1>5. CASE Conversion(<<"%">>) /\ Literal(Tail(format), 1)
  <2>1. i - 1 < Len(f) /\ f[(i - 1) + 1] = "%" /\ Begins(Drop(f, (i - 1) + 1), <<"%">>)
    <3>1. Begins(Drop(f, i - 1), <<"%">> \o <<"%">>)
      BY <1>2, <1>5 DEF Conversion
    <3> QED BY <1>2, <1>3, <3>1, Texts, BeginsConv
  <2>2. i \in 1 .. Len(f) /\ f[i] = "%" /\ Begins(Drop(f, i), <<"%">>)
    BY <1>2, <1>3, <2>1
  <2>3. Tail(format) = Drop(f, i)
    <3>1. Tail(Drop(f, i - 1)) = Drop(f, (i - 1) + 1)
      BY <1>2, <1>3, <2>1, DropEnds
    <3> QED BY <1>2, <1>3, <3>1
  <2> DEFINE g == Tail(format)
  <2>4. Advances(f, args, i, k, SubSeq(g, 1, Amount(g)), 1 + Amount(g), 0)
    BY <1>2, <2>2, <2>3, PercentAdvances
  <2>5. Checks(SubSeq(g, 1, Amount(g)), 1 + Amount(g), 0) /\ running
    BY <1>5 DEF Literal, Conversion
  <2> HIDE DEF g
  <2> QED BY <2>4, <2>5, TurnKeeps DEF f, args
<1> QED BY <1>4, <1>5 DEF PrintsLiteral

(* So does what no conversion of printf begins.                            *)
LEMMA RestKeeps ==
  ASSUME PrintInv, NEW i, NEW k, Negatable(given.args),
         Reached(given.format, given.args, format, parameters, sent, i, k), PrintsRest
  PROVE  PrintInv'
<1> DEFINE f == given.format
           args == given.args
<1>1. Given(f, args) /\ Reached(f, args, format, parameters, sent, i, k)
  BY DEF PrintInv
<1> HIDE DEF f, args
<1>2. /\ f \in Seq(Char) /\ args \in Seq(Arg) /\ i \in 1 .. Len(f) + 1 /\ k \in Nat
      /\ format = Drop(f, i - 1) /\ From(f, args)[i][k].read <= Len(args)
  BY <1>1, ReachedFacts DEF Given, Reached
<1>3. Len(f) \in Nat /\ i - 1 \in 0 .. Len(f) /\ (i - 1) + 1 = i
  BY <1>2, LenProperties
<1>4. i - 1 < Len(f) /\ f[i] = "%"
  <2>1. Begins(Drop(f, i - 1), <<"%">> \o <<>>) /\ <<>> \in Seq(Char)
    BY <1>2 DEF PrintsRest, Conversion
  <2> QED BY <1>2, <1>3, <2>1, BeginsConv
<1>5. ASSUME NEW c \in Conversions \cup {<<"%">>}
      PROVE  ~Begins(Drop(f, i), c)
  <2>1. ~Begins(Drop(f, i - 1), <<"%">> \o c) /\ c \in Seq(Char)
    BY <1>2, ConvTexts DEF PrintsRest, Conversion
  <2> QED BY <1>2, <1>3, <1>4, <2>1, BeginsConv
<1>6. Piece(f, i, args, k) = [text |-> Drop(f, i - 1), length |-> Len(f) + 1 - i, read |-> 0]
  BY <1>4, <1>5, PieceRest
<1>7. Len(format) = Len(f) + 1 - i /\ i \in 1 .. Len(f)
  <2>1. Len(Drop(f, i - 1)) = Len(f) - (i - 1)
    BY <1>2, <1>3, DropFacts
  <2> QED BY <1>2, <1>3, <1>4, <2>1
<1>8. Advances(f, args, i, k, format, Len(format), 0)
  BY <1>2, <1>6, <1>7, PieceAdvances
<1>9. Checks(format, Len(format), 0) /\ running
  BY DEF PrintsRest, Conversion
<1> QED BY <1>8, <1>9, TurnKeeps DEF f, args


(* A character before a text.                                              *)
LEMMA CharBefore ==
  ASSUME NEW x \in Char, NEW t \in Seq(Char), NEW u \in Seq(Char),
         Len(u) = 1 + Len(t), u[1] = x, \A i \in 1 .. Len(t) : u[i + 1] = t[i]
  PROVE  <<x>> \o t = u
<1>1. <<x>> \in Seq(Char) /\ Len(<<x>>) = 1 /\ <<x>>[1] = x /\ Len(t) \in Nat
  BY LenProperties
<1>2. /\ <<x>> \o t \in Seq(Char) /\ Len(<<x>> \o t) = 1 + Len(t)
      /\ \A i \in 1 .. 1 + Len(t) : (<<x>> \o t)[i] = IF i <= 1 THEN <<x>>[i] ELSE t[i - 1]
  <2>1. /\ <<x>> \o t \in Seq(Char) /\ Len(<<x>> \o t) = Len(<<x>>) + Len(t)
        /\ \A i \in 1 .. Len(<<x>>) + Len(t) :
             (<<x>> \o t)[i] = IF i <= Len(<<x>>) THEN <<x>>[i] ELSE t[i - Len(<<x>>)]
    BY <1>1, ConcatProperties
  <2> QED BY <1>1, <2>1
<1>3. ASSUME NEW i \in 1 .. Len(<<x>> \o t)
      PROVE  (<<x>> \o t)[i] = u[i]
  <2>1. CASE i = 1
    BY <1>1, <1>2, <2>1
  <2>2. CASE i # 1
    <3>1. i - 1 \in 1 .. Len(t) /\ (i - 1) + 1 = i /\ ~(i <= 1) /\ i \in 1 .. 1 + Len(t)
      BY <1>1, <1>2, <2>2
    <3> QED BY <1>2, <3>1
  <2> QED BY <2>1, <2>2
<1> QED BY <1>2, <1>3, SeqEqual

(* A conversion as a turn takes it: its parts.                             *)
LEMMA ConvParts ==
  /\ \A c \in {<<"c">>, <<"s">>, <<"d">>, <<"p">>} : c \in Conversions /\ 1 + Len(c) = 2
  /\ <<"z", "u">> \in Conversions /\ 1 + Len(<<"z", "u">>) = 3
  /\ <<"%">> \o <<"p">> = <<"%", "p">> /\ <<"%">> \o <<"z", "u">> = <<"%", "z", "u">>
<1>1. Len(<<"c">>) = 1 /\ Len(<<"s">>) = 1 /\ Len(<<"d">>) = 1 /\ Len(<<"p">>) = 1
  OBVIOUS
<1>2. Len(<<"z", "u">>) = 2
  OBVIOUS
<1>3. 1 + 1 = 2 /\ 1 + 2 = 3
  OBVIOUS
<1>4. \A c \in {<<"c">>, <<"s">>, <<"d">>, <<"p">>} : c \in Conversions /\ 1 + Len(c) = 2
  <2> TAKE c \in {<<"c">>, <<"s">>, <<"d">>, <<"p">>}
  <2>1. c = <<"c">> \/ c = <<"s">> \/ c = <<"d">> \/ c = <<"p">>
    OBVIOUS
  <2>2. Len(c) = 1
    BY <1>1, <2>1, Zenon
  <2>3. c \in Conversions
    BY <2>1, Zenon DEF Conversions
  <2> QED BY <1>3, <2>2, <2>3
<1>5. <<"z", "u">> \in Conversions
  BY Zenon DEF Conversions
<1>6. <<"%">> \o <<"p">> = <<"%", "p">>
  <2> DEFINE t == <<"p">>
             u == <<"%", "p">>
  <2>1. "%" \in Char /\ t \in Seq(Char) /\ u \in Seq(Char)
    BY DEF Char
  <2>2. Len(u) = 1 + Len(t) /\ u[1] = "%" /\ \A i \in 1 .. Len(t) : u[i + 1] = t[i]
    OBVIOUS
  <2> HIDE DEF t, u
  <2>3. <<"%">> \o t = u
    BY <2>1, <2>2, CharBefore
  <2> QED BY <2>3 DEF t, u
<1>7. <<"%">> \o <<"z", "u">> = <<"%", "z", "u">>
  <2> DEFINE t == <<"z", "u">>
             u == <<"%", "z", "u">>
  <2>1. "%" \in Char /\ t \in Seq(Char) /\ u \in Seq(Char)
    BY DEF Char
  <2>2. Len(u) = 1 + Len(t) /\ u[1] = "%" /\ \A i \in 1 .. Len(t) : u[i + 1] = t[i]
    OBVIOUS
  <2> HIDE DEF t, u
  <2>3. <<"%">> \o t = u
    BY <2>1, <2>2, CharBefore
  <2> QED BY <2>3 DEF t, u
<1> QED BY <1>2, <1>3, <1>4, <1>5, <1>6, <1>7

(* A character, a string and an int look at the room.                      *)
LEMMA CheckedKeep ==
  ASSUME PrintInv, NEW i, NEW k, Negatable(given.args),
         Reached(given.format, given.args, format, parameters, sent, i, k),
         PrintsC \/ PrintsS \/ PrintsD
  PROVE  PrintInv'
<1> DEFINE arg == Head(parameters)
<1>1. ASSUME NEW conv \in {<<"c">>, <<"s">>, <<"d">>}, Conversion(conv),
             Checks(Spelled(conv, arg), 2, 1)
      PROVE  PrintInv'
  <2>1. conv \in Conversions /\ 1 + Len(conv) = 2
    BY ConvParts
  <2>2. Advances(given.format, given.args, i, k, Spelled(conv, arg), 1 + Len(conv), 1)
    BY <1>1, <2>1, ConversionAdvances
  <2>3. Advances(given.format, given.args, i, k, Spelled(conv, arg), 2, 1) /\ running
    BY <1>1, <2>1, <2>2 DEF Conversion
  <2> HIDE DEF arg
  <2> QED BY <1>1, <2>3, TurnKeeps
<1>2. CASE PrintsC
  <2>1. Spelled(<<"c">>, arg) = <<arg.c>>
    BY Spellings
  <2> QED BY <1>1, <1>2, <2>1 DEF PrintsC
<1>3. CASE PrintsS
  <2>1. Spelled(<<"s">>, arg) = arg.s
    BY Spellings
  <2> QED BY <1>1, <1>3, <2>1 DEF PrintsS
<1>4. CASE PrintsD
  <2>1. Conversion(<<"d">>) /\ <<"d">> \in Conversions
    BY <1>4, ConvParts DEF PrintsD
  <2>2. (\E n \in DOMAIN given.args : arg = given.args[n]) /\ arg \in Arg
    BY <2>1, ConversionAdvances
  <2>3. arg.d \in INT_MIN .. INT_MAX /\ arg.d # INT_MIN
    BY <2>2 DEF Negatable, Arg
  <2> HIDE DEF arg
  <2>4. Signed(arg.d) = Spelled(<<"d">>, arg)
    <3>1. Signed(arg.d) = IF arg.d < 0 THEN <<"-">> \o Numeral(-arg.d) ELSE Numeral(arg.d)
      BY <2>3, SignedIs
    <3>2. Spelled(<<"d">>, arg) =
            IF arg.d < 0 THEN <<"-">> \o Numeral(-arg.d) ELSE Numeral(arg.d)
      BY Spellings
    <3> QED BY <3>1, <3>2
  <2>5. Checks(Spelled(<<"d">>, arg), 2, 1)
    BY <1>4, <2>4 DEF PrintsD, arg
  <2> QED BY <1>1, <2>1, <2>5
<1> QED BY <1>2, <1>3, <1>4

(* A pointer and a size do not, and the format says so.                    *)
LEMMA UncheckedKeep ==
  ASSUME PrintInv, NEW i, NEW k, Negatable(given.args),
         Reached(given.format, given.args, format, parameters, sent, i, k),
         PrintsP \/ PrintsZu
  PROVE  PrintInv'
<1> DEFINE arg == Head(parameters)
<1>1. ASSUME NEW conv \in {<<"p">>, <<"z", "u">>}, Conversion(conv)
      PROVE  Unchecked(given.format)
  <2> DEFINE f == given.format
  <2>1. f \in Seq(Char) /\ i \in 1 .. Len(f) + 1 /\ Begins(Drop(f, i - 1), <<"%">> \o conv)
    BY <1>1 DEF PrintInv, Given, Reached, Conversion
  <2> HIDE DEF f
  <2>2. Len(f) \in Nat /\ i - 1 \in 0 .. Len(f) /\ conv \in Seq(Char)
    <3>1. Len(f) \in Nat
      BY <2>1, LenProperties
    <3>2. conv \in Conversions
      BY ConvParts
    <3>3. conv \in Seq(Char)
      BY <3>2, ConvTexts
    <3> QED BY <2>1, <3>1, <3>3
  <2>3. i - 1 < Len(f)
    BY <2>1, <2>2, BeginsConv
  <2>4. i \in DOMAIN f
    BY <2>1, <2>2, <2>3, LenProperties
  <2>5. <<"%">> \o conv = <<"%", "p">> \/ <<"%">> \o conv = <<"%", "z", "u">>
    BY ConvParts
  <2>6. Unchecked(f)
    BY <2>1, <2>4, <2>5 DEF Unchecked
  <2> QED BY <2>6 DEF f
<1>2. CASE PrintsP
  <2>1. Conversion(<<"p">>) /\ <<"p">> \in Conversions /\ 1 + Len(<<"p">>) = 2 /\ running
    BY <1>2, ConvParts DEF PrintsP, Conversion
  <2>2. Advances(given.format, given.args, i, k, Pointer(arg.p), 2, 1)
    <3>1. Advances(given.format, given.args, i, k, Spelled(<<"p">>, arg), 1 + Len(<<"p">>), 1)
      BY <2>1, ConversionAdvances
    <3>2. Spelled(<<"p">>, arg) = Pointer(arg.p)
      BY Spellings
    <3> HIDE DEF arg
    <3> QED BY <2>1, <3>1, <3>2
  <2>3. Sends(Pointer(arg.p), 2, 1) /\ Unchecked(given.format)
    BY <1>1, <1>2, <2>1 DEF PrintsP
  <2> HIDE DEF arg
  <2> QED BY <2>1, <2>2, <2>3, TurnKeeps
<1>3. CASE PrintsZu
  <2>1. /\ Conversion(<<"z", "u">>) /\ <<"z", "u">> \in Conversions
        /\ 1 + Len(<<"z", "u">>) = 3 /\ running
    BY <1>3, ConvParts DEF PrintsZu, Conversion
  <2>2. Advances(given.format, given.args, i, k, Decimal(arg.zu), 3, 1)
    <3>1. /\ Advances(given.format, given.args, i, k, Spelled(<<"z", "u">>, arg),
                      1 + Len(<<"z", "u">>), 1)
          /\ arg \in Arg
      BY <2>1, ConversionAdvances
    <3>2. Spelled(<<"z", "u">>, arg) = Numeral(arg.zu)
      BY Spellings
    <3>3. arg.zu \in Nat
      BY <3>1 DEF Arg
    <3> HIDE DEF arg
    <3>4. Decimal(arg.zu) = Numeral(arg.zu)
      BY <3>3, DecimalIs
    <3> QED BY <2>1, <3>1, <3>2, <3>4
  <2>3. Sends(Decimal(arg.zu), 3, 1) /\ Unchecked(given.format)
    BY <1>1, <1>3, <2>1 DEF PrintsZu
  <2> HIDE DEF arg
  <2> QED BY <2>1, <2>2, <2>3, TurnKeeps
<1> QED BY <1>2, <1>3

(* A call begins with nothing sent and everything left.                    *)
LEMMA CallKeeps ==
  ASSUME PrintInv, NEW f \in InFormat, NEW args \in InArguments, printf(f, args)
  PROVE  PrintInv'
<1>1. f \in Seq(Char) /\ args \in Seq(Arg) /\ Stands(f, args).read <= Len(args)
  BY PrintfAssumption, SuppliedAssumption, Texts
<1>2. /\ given'.format = f /\ given'.args = args /\ running' = TRUE /\ format' = f
      /\ parameters' = args /\ sent' = <<>> /\ written' = 0
  BY DEF printf
<1>3. Given(f, args)
  BY <1>1 DEF Given
<1>4. Counted(f, <<>>, 0)
  BY PrintfAssumption, EmptySeq DEF Counted
<1>5. Reached(f, args, f, args, <<>>, 1, 0)
  <2>1. Drop(f, 1 - 1) = f /\ Drop(args, 0) = args
    BY <1>1, DropEnds
  <2>2. Stands(f, args) = From(f, args)[1][0]
    BY <1>1, FromFacts
  <2>3. From(f, args)[1][0].text \in Seq(Char)
    <3>1. 1 \in 1 .. Len(f) + 1 /\ From(f, args)[1][0].read <= Len(args)
      BY <1>1, <2>2, LenProperties
    <3> QED BY <1>1, <3>1, FromText
  <2>4. <<>> \o From(f, args)[1][0].text = From(f, args)[1][0].text
    BY <2>3, ConcatEmptySeq
  <2>5. 1 \in 1 .. Len(f) + 1 /\ 0 \in Nat
    BY <1>1, LenProperties
  <2> QED BY <2>1, <2>2, <2>4, <2>5 DEF Reached
<1>6. \E i \in 1 .. Len(f) + 1, k \in Nat : Reached(f, args, f, args, <<>>, i, k)
  BY <1>5 DEF Reached
<1> QED BY <1>2, <1>3, <1>4, <1>6 DEF PrintInv

(* A call that returns has the whole format behind it.                     *)
LEMMA ReturnKeeps ==
  ASSUME PrintInv, Returns
  PROVE  PrintInv'
<1>1. /\ format' = format /\ parameters' = parameters /\ written' = written /\ sent' = sent
      /\ given' = given /\ format = <<>> /\ returned' = written
  BY DEF Returns
<1>2. ASSUME Negatable(given.args)
      PROVE  Ended(given.format, given.args, format, sent, written)
  BY <1>1, <1>2 DEF PrintInv, Counted, Ended
<1> QED BY <1>1, <1>2 DEF PrintInv


(* Every step keeps the invariant.                                         *)
LEMMA StepKeeps ==
  ASSUME PrintInv, [PrintfNext]_printf_vars
  PROVE  PrintInv'
<1> DEFINE Turns == PrintsLiteral \/ PrintsC \/ PrintsS \/ PrintsD \/ PrintsP \/ PrintsZu \/ PrintsRest
<1>1. CASE Turns
  <2>1. given' = given /\ Given(given.format, given.args)
    BY <1>1 DEF PrintInv, PrintsLiteral, PrintsC, PrintsS, PrintsD, PrintsP, PrintsZu, PrintsRest,
                Literal, Checks, Sends, Fails
  <2>2. CASE ~Negatable(given.args)
    BY <2>1, <2>2 DEF PrintInv
  <2>3. CASE Negatable(given.args)
    <3>1. PICK i \in 1 .. Len(given.format) + 1, k \in Nat :
            Reached(given.format, given.args, format, parameters, sent, i, k)
      BY <2>3 DEF PrintInv
    <3>2. CASE PrintsLiteral
      BY <2>3, <3>1, <3>2, LiteralKeeps
    <3>3. CASE PrintsC \/ PrintsS \/ PrintsD
      BY <2>3, <3>1, <3>3, CheckedKeep
    <3>4. CASE PrintsP \/ PrintsZu
      BY <2>3, <3>1, <3>4, UncheckedKeep
    <3>5. CASE PrintsRest
      BY <2>3, <3>1, <3>5, RestKeeps
    <3> QED BY <1>1, <3>2, <3>3, <3>4, <3>5
  <2> QED BY <2>2, <2>3
<1>2. CASE Returns
  BY <1>2, ReturnKeeps
<1>3. CASE \E f \in InFormat, args \in InArguments : printf(f, args)
  BY <1>3, CallKeeps
<1>4. CASE UNCHANGED printf_vars
  <2>1. /\ running' = running /\ format' = format /\ parameters' = parameters
        /\ written' = written /\ sent' = sent /\ returned' = returned /\ given' = given
    BY <1>4 DEF printf_vars
  <2> QED BY <2>1 DEF PrintInv
<1> QED BY <1>1, <1>2, <1>3, <1>4 DEF PrintfNext

(* Before the first call nothing was given, sent or returned.              *)
LEMMA InitGood ==
  ASSUME PrintfInit
  PROVE  PrintInv
<1> DEFINE f == <<>>
<1>1. /\ running = FALSE /\ format = f /\ parameters = f /\ written = 0 /\ sent = f
      /\ returned = 0 /\ given.format = f /\ given.args = f
  BY DEF PrintfInit
<1>2. f \in Seq(Char) /\ f \in Seq(Arg) /\ Len(f) = 0 /\ 0 <= INT_MAX
  BY PrintfAssumption, EmptySeq
<1> HIDE DEF f
<1>3. /\ Stands(f, f) = From(f, f)[1][0]
      /\ From(f, f)[1][0] = [text |-> <<>>, read |-> 0]
  <2>1. From(f, f)[Len(f) + 1][0] = [text |-> <<>>, read |-> 0]
    <3>1. \A k \in Nat : From(f, f)[Len(f) + 1][k] = [text |-> <<>>, read |-> k]
      BY <1>2, FromFacts, Zenon
    <3>2. 0 \in Nat
      OBVIOUS
    <3> QED BY <3>1, <3>2
  <2>2. Len(f) + 1 = 1
    BY <1>2
  <2> QED BY <1>2, <2>1, <2>2, FromFacts
<1>4. Stands(f, f).read = 0 /\ From(f, f)[1][0].text = f
  BY <1>3 DEF f
<1>5. Given(f, f)
  BY <1>2, <1>4 DEF Given
<1>6. Counted(f, f, 0)
  BY <1>2 DEF Counted
<1>7. Ended(f, f, f, f, 0)
  BY <1>2 DEF Ended, f
<1>8. Reached(f, f, f, f, f, 1, 0)
  <2>1. Drop(f, 1 - 1) = f /\ Drop(f, 0) = f
    <3>1. Drop(f, 0) = f
      BY <1>2, DropEnds, Zenon
    <3>2. 1 - 1 = 0
      OBVIOUS
    <3> QED BY <3>1, <3>2
  <2>2. f \o f = f
    BY <1>2, ConcatEmptySeq DEF f
  <2>3. 1 \in 1 .. Len(f) + 1 /\ 0 \in Nat
    BY <1>2
  <2>4. Stands(f, f).text = f \o From(f, f)[1][0].text
    BY <1>3, <1>4, <2>2
  <2>5. Stands(f, f).read = From(f, f)[1][0].read
    BY <1>3
  <2> QED BY <2>1, <2>3, <2>4, <2>5 DEF Reached
<1>9. \E i \in 1 .. Len(f) + 1, k \in Nat : Reached(f, f, f, f, f, i, k)
  BY <1>8 DEF Reached
<1> QED BY <1>1, <1>5, <1>6, <1>7, <1>9 DEF PrintInv

(* A text begins with what it was put together from.                       *)
LEMMA BeginsConcat ==
  ASSUME NEW s \in Seq(Char), NEW t \in Seq(Char)
  PROVE  Begins(s \o t, s)
<1>1. /\ s \o t \in Seq(Char) /\ Len(s \o t) = Len(s) + Len(t)
      /\ \A i \in 1 .. Len(s) + Len(t) :
           (s \o t)[i] = IF i <= Len(s) THEN s[i] ELSE t[i - Len(s)]
  BY ConcatProperties
<1>2. Len(s) \in Nat /\ Len(t) \in Nat
  BY LenProperties
<1>3. Len(s) <= Len(s \o t)
  BY <1>1, <1>2
<1>4. \A i \in 1 .. Len(s) : (s \o t)[i] = s[i]
  <2> TAKE i \in 1 .. Len(s)
  <2>1. i \in 1 .. Len(s) + Len(t) /\ i <= Len(s)
    BY <1>2
  <2> QED BY <1>1, <2>1
<1> QED BY <1>1, <1>3, <1>4, BeginsFacts

(* The invariant says what PrintsText says.                                *)
LEMMA InvIsText ==
  ASSUME PrintInv
  PROVE  PrintsText
<1> DEFINE f == given.format
           args == given.args
           text == Stands(f, args).text
<1>1. SUFFICES ASSUME Negatable(args)
               PROVE  /\ Begins(text, sent)
                      /\ ~Unchecked(f) => Len(sent) <= INT_MAX
                      /\ ~running /\ Len(text) <= INT_MAX => sent = text /\ returned = Len(text)
                      /\ ~running /\ Len(text) > INT_MAX /\ ~Unchecked(f) => returned = -1
  BY DEF PrintsText
<1>2. /\ Given(f, args) /\ Counted(f, sent, written)
      /\ ~running => Ended(f, args, format, sent, returned)
  BY <1>1 DEF PrintInv
<1>3. PICK i \in 1 .. Len(f) + 1, k \in Nat : Reached(f, args, format, parameters, sent, i, k)
  BY <1>1 DEF PrintInv
<1> DEFINE rest == From(f, args)[i][k].text
<1>4. rest \in Seq(Char)
  BY <1>2, <1>3, ReachedFacts
<1>5. text = sent \o rest /\ format = Drop(f, i - 1) /\ f \in Seq(Char) /\ args \in Seq(Arg)
  BY <1>2, <1>3 DEF Reached, Given
<1>6. sent \in Seq(Char)
  BY <1>2 DEF Counted
<1>7. format = <<>> => text = sent
  <2> HAVE format = <<>>
  <2>1. Len(f) \in Nat
    BY <1>5, LenProperties
  <2>2. i - 1 \in 0 .. Len(f)
    BY <1>3, <2>1
  <2>3. i - 1 = Len(f)
    BY <1>5, <2>2, DropEnds
  <2>4. i = Len(f) + 1
    BY <1>3, <2>1, <2>3
  <2>5. From(f, args)[Len(f) + 1][k] = [text |-> <<>>, read |-> k]
    BY <1>3, <1>5, FromFacts
  <2>6. rest = <<>>
    BY <2>4, <2>5
  <2> HIDE DEF rest, text
  <2> QED BY <1>5, <1>6, <2>6, ConcatEmptySeq
<1> HIDE DEF text, rest
<1>8. Begins(text, sent)
  BY <1>4, <1>5, <1>6, BeginsConcat
<1>9. ~Unchecked(f) => Len(sent) <= INT_MAX
  BY <1>2 DEF Counted
<1>10. text \in Seq(Char) /\ Len(text) \in Nat /\ INT_MAX \in Nat
  BY <1>4, <1>5, <1>6, ConcatProperties, LenProperties, PrintfAssumption
<1>11. ASSUME ~running
       PROVE  \/ format = <<>> /\ (Len(sent) <= INT_MAX => returned = Len(sent))
              \/ returned = -1 /\ Len(text) > INT_MAX
  BY <1>2, <1>11 DEF Ended, text
<1>12. ASSUME ~running, Len(text) <= INT_MAX
       PROVE  sent = text /\ returned = Len(text)
  <2>1. ~(Len(text) > INT_MAX)
    BY <1>10, <1>12
  <2> QED BY <1>7, <1>11, <1>12, <2>1
<1>13. ASSUME ~running, Len(text) > INT_MAX, ~Unchecked(f)
       PROVE  returned = -1
  <2>1. ~(Len(text) <= INT_MAX)
    BY <1>10, <1>13
  <2>2. format # <<>>
    BY <1>7, <1>9, <1>13, <2>1
  <2> QED BY <1>11, <1>13, <2>2
<1> QED BY <1>8, <1>9, <1>12, <1>13

-----------------------------------------------------------------------------
(* What was sent and what is left stand for the whole text in every state. *)
THEOREM PrintfInvariance == PrintfSpec => []PrintInv
<1>1. PrintfInit => PrintInv
  BY InitGood
<1>2. PrintInv /\ [PrintfNext]_printf_vars => PrintInv'
  BY StepKeeps
<1> QED BY <1>1, <1>2, PTL DEF PrintfSpec

(* printf sends the text its format stands for and returns its length, or  *)
(* refuses a text longer than an int counts, whatever the format, its      *)
(* arguments and the width of an int.                                      *)
THEOREM TextCorrect == PrintfSpec => []PrintsText
<1>1. PrintInv => PrintsText
  BY InvIsText
<1> QED BY <1>1, PrintfInvariance, PTL
=============================================================================
