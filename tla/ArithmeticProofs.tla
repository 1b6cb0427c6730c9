-------------------------- MODULE ArithmeticProofs --------------------------
(***************************************************************************)
(* Proofs about the arithmetic of cpu.cc, for words of any width: sums,    *)
(* products, quotients and shifts are exact, loads and stores move the     *)
(* right bytes, and whatever an instruction computes is a word.            *)
(*                                                                         *)
(* Numbers are taken apart into quotients and remainders, which            *)
(* QuotientUnique identifies; products of unknowns are named and hidden,   *)
(* so that what is left is linear.                                         *)
(***************************************************************************)
EXTENDS LoadStore, WellFoundedInduction, TLAPS

-----------------------------------------------------------------------------
(* Division with remainder: the only quotient and remainder.                *)
LEMMA QuotientUnique ==
    ASSUME NEW m \in Nat \ {0}, NEW x \in Int, NEW q \in Int, x - q * m \in 0..m - 1
    PROVE  x \div m = q /\ x % m = x - q * m
<1> DEFINE u == x \div m
           v == x % m
           r == x - q * m
<1>1. x \in Int /\ u \in Int /\ v \in 0..m - 1 /\ x = u * m + v /\ x = q * m + r /\ r \in 0..m - 1
  OBVIOUS
<1> HIDE DEF u, v, r
<1>2. (q - u) * m = v - r
  BY <1>1
<1>3. q - u >= 1 => (q - u) * m >= m
  BY <1>1
<1>4. q - u <= -1 => (q - u) * m <= -m
  BY <1>1
<1>5. q = u
  BY <1>1, <1>2, <1>3, <1>4
<1>6. QED
  BY <1>1, <1>2, <1>5 DEF u, v, r

LEMMA ModuloNear ==
    ASSUME NEW m \in Nat \ {0}, NEW x \in -m..2 * m - 1
    PROVE  x % m = IF x < 0 THEN x + m ELSE IF x < m THEN x ELSE x - m
<1> DEFINE u == x \div m
           v == x % m
<1>1. u \in Int /\ v \in 0..m - 1 /\ x = u * m + v
  OBVIOUS
<1> HIDE DEF u, v
<1>2. (u >= 2 => u * m >= 2 * m) /\ (u <= -2 => u * m <= -2 * m)
  BY <1>1
<1>3. u \in {-1, 0, 1}
  BY <1>1, <1>2
<1>4. v = IF x < 0 THEN x + m ELSE IF x < m THEN x ELSE x - m
  BY <1>1, <1>3
<1>5. QED
  BY <1>4 DEF v

-----------------------------------------------------------------------------
(* Words and their signs.  M is the number of words, H half of it.          *)
M == 2^W
H == 2^(W - 1)

LEMMA WordSize == M \in Nat \ {0} /\ H \in Nat \ {0} /\ M = 2 * H
<1>1. W \in Nat \ {0} /\ W - 1 \in 0..W /\ W \in 0..W /\ 1 \in 0..W /\ (W - 1) + 1 = W
  BY ArithmeticAssumption
<1>2. M \in Nat \ {0} /\ H \in Nat \ {0} /\ 2^((W - 1) + 1) = H * 2^1
  BY <1>1, PowerAssumption DEF M, H
<1>3. 2^1 = 2
  OBVIOUS
<1>4. QED
  BY <1>1, <1>2, <1>3 DEF M

LEMMA Words == Word = 0..M - 1 /\ \A x \in Int : Wrap(x) = x % M
BY DEF Word, M, Wrap

LEMMA Signs ==
    ASSUME NEW x \in Int
    PROVE  /\ Negative(x) \in BOOLEAN /\ (Negative(x) <=> x >= H)
           /\ Signed(x) = IF x >= H THEN x - M ELSE x
BY DEF M, H, Negative, Signed

LEMMA WrapNear ==
    ASSUME NEW x \in -M..2 * M - 1
    PROVE  /\ Wrap(x) = IF x < 0 THEN x + M ELSE IF x < M THEN x ELSE x - M
           /\ Wrap(x) \in Word
<1>1. M \in Nat \ {0} /\ x \in Int /\ Wrap(x) = x % M
  BY WordSize, Words
<1>2. x % M = IF x < 0 THEN x + M ELSE IF x < M THEN x ELSE x - M
  BY <1>1, ModuloNear
<1>3. Wrap(x) \in 0..M - 1
  BY <1>1, <1>2
<1>4. QED
  BY <1>1, <1>2, <1>3, Words

LEMMA WrapTyped == ASSUME NEW x \in Int PROVE Wrap(x) \in Word
<1>1. M \in Nat \ {0} /\ Wrap(x) = x % M
  BY WordSize, Words
<1>2. x % M \in 0..M - 1
  BY <1>1
<1>3. QED
  BY <1>1, <1>2, Words

LEMMA SignedRange ==
    ASSUME NEW a \in Word
    PROVE  Signed(a) \in -H..H - 1 /\ (Negative(a) <=> Signed(a) < 0) /\ Wrap(Signed(a)) = a
<1>1. a \in 0..M - 1 /\ M = 2 * H /\ H \in Nat \ {0}
  BY WordSize, Words
<1>2. (Negative(a) <=> a >= H) /\ Signed(a) = IF a >= H THEN a - M ELSE a
  BY <1>1, Signs
<1>3. Signed(a) \in -H..H - 1 /\ (Negative(a) <=> Signed(a) < 0)
  BY <1>1, <1>2
<1>4. Signed(a) \in -M..2 * M - 1
  BY <1>1, <1>3
<1>5. Wrap(Signed(a)) = a
  BY <1>1, <1>2, <1>4, WrapNear
<1>6. QED
  BY <1>3, <1>5

LEMMA SignedWrap ==
    ASSUME NEW x \in -H..H - 1
    PROVE  Signed(Wrap(x)) = x /\ Wrap(x) \in Word
<1>1. M = 2 * H /\ H \in Nat \ {0} /\ x \in -M..2 * M - 1
  BY WordSize
<1>2. Wrap(x) = (IF x < 0 THEN x + M ELSE x) /\ Wrap(x) \in Word /\ Wrap(x) \in Int
  BY <1>1, WrapNear
<1>3. Signed(Wrap(x)) = IF Wrap(x) >= H THEN Wrap(x) - M ELSE Wrap(x)
  BY <1>2, Signs
<1>4. QED
  BY <1>1, <1>2, <1>3

(* Overflow of sums and differences.                                        *)
LEMMA SumsExact ==
    ASSUME NEW a \in Word, NEW b \in Word
    PROVE  /\ AddOverflows(a, b) <=> Signed(a) + Signed(b) \notin -H..H - 1
           /\ SubOverflows(a, b) <=> Signed(a) - Signed(b) \notin -H..H - 1
<1> DEFINE sum == Wrap(a + b)
           diff == Wrap(a - b)
<1>1. a \in 0..M - 1 /\ b \in 0..M - 1 /\ M = 2 * H /\ H \in Nat \ {0}
  BY WordSize, Words
<1>2. sum = (IF a + b < M THEN a + b ELSE a + b - M) /\ sum \in Int
  BY <1>1, WrapNear
<1>3. diff = (IF a - b < 0 THEN a - b + M ELSE a - b) /\ diff \in Int
  BY <1>1, WrapNear
<1>4. \A x \in {a, b} : Signed(x) = IF x >= H THEN x - M ELSE x
  BY <1>1, Signs
<1> HIDE DEF sum, diff
<1>5. AddOverflows(a, b) <=> (a >= H /\ b >= H /\ ~(sum >= H)) \/ (~(a >= H) /\ ~(b >= H) /\ sum >= H)
  BY <1>1, <1>2, Signs DEF AddOverflows, sum
<1>6. SubOverflows(a, b) <=> (a >= H /\ ~(b >= H) /\ ~(diff >= H)) \/ (~(a >= H) /\ b >= H /\ diff >= H)
  BY <1>1, <1>3, Signs DEF SubOverflows, diff
<1>7. QED
  BY <1>1, <1>2, <1>3, <1>4, <1>5, <1>6

-----------------------------------------------------------------------------
(* Products.  P is the number of halves of words.                           *)
P == 2^(W \div 2)

LEMMA HalfSize == P \in Nat \ {0} /\ M = P * P
<1>1. W \div 2 \in 0..W /\ (W \div 2) + (W \div 2) = W
  BY ArithmeticAssumption
<1>2. 2^((W \div 2) + (W \div 2)) = P * P /\ P \in Nat \ {0}
  BY <1>1, PowerAssumption DEF P
<1>3. QED
  BY <1>1, <1>2 DEF M

LEMMA Digits ==
    ASSUME NEW p \in Nat \ {0}, NEW n \in Nat
    PROVE  n \div p \in Nat /\ n % p \in 0..p - 1 /\ n = p * (n \div p) + (n % p)
OBVIOUS

LEMMA DigitBound ==
    ASSUME NEW p \in Nat \ {0}, NEW k \in Nat, NEW n \in 0..p * k - 1
    PROVE  n \div p \in 0..k - 1
<1> DEFINE u == n \div p
<1>1. u \in Nat /\ n % p \in Nat /\ n = p * u + (n % p)
  BY Digits
<1> HIDE DEF u
<1>2. u >= k => p * u >= p * k
  BY <1>1
<1>3. QED
  BY <1>1, <1>2 DEF u

LEMMA ProductBound ==
    ASSUME NEW p \in Nat, NEW q \in Nat, NEW x \in 0..p - 1, NEW y \in 0..q - 1
    PROVE  x * y \in Nat /\ x * y <= (p - 1) * (q - 1)
<1>1. x * y \in Nat /\ x * y <= x * (q - 1)
  OBVIOUS
<1>2. x * (q - 1) <= (p - 1) * (q - 1)
  OBVIOUS
<1>3. QED
  BY <1>1, <1>2

LEMMA Digit ==
    ASSUME NEW p \in Nat \ {0}, NEW k \in 0..p - 1
    PROVE  k % p = k
<1>1. k \in -p..2 * p - 1
  OBVIOUS
<1>2. QED
  BY <1>1, ModuloNear

LEMMA TwoDigits ==
    ASSUME NEW p \in Nat \ {0}, NEW n \in 0..p * p - 1
    PROVE  /\ n \div p \in 0..p - 1 /\ (n \div p) % p = n \div p
           /\ n % p \in 0..p - 1 /\ n = p * (n \div p) + (n % p)
<1>1. p * p \in Nat /\ n \in Nat
  OBVIOUS
<1>2. n \div p \in 0..p - 1
  BY DigitBound
<1>3. (n \div p) % p = n \div p
  BY <1>2, Digit
<1>4. n % p \in 0..p - 1 /\ n = p * (n \div p) + (n % p)
  BY <1>1, Digits
<1>5. QED
  BY <1>2, <1>3, <1>4

(* The columns of the long multiplication: each is a digit and a carry.     *)
LEMMA Mult64Exact ==
    ASSUME NEW n \in Word, NEW m \in Word
    PROVE  /\ Mult64(n, m) \in Word \X Word
           /\ Mult64(n, m)[1] * M + Mult64(n, m)[2] = n * m
<1> DEFINE w == n \div P
           x == n % P
           y == m \div P
           z == m % P
           zx == z * x
           yx == y * x
           zw == z * w + (zx \div P)
           yw == y * w + (yx \div P)
           b == zw % P
           a == (zw \div P) % P
           f == yx % P
           e == yw % P
           d == (yw \div P) % P
           h == (b + f) % P
           carry == (a + e) + ((b + f) \div P)
           i == (d + (carry \div P)) % P
           lo == h * P + (zx % P)
           hi == i * P + (carry % P)
<1>1. Mult64(n, m) = <<hi, lo>>
  BY DEF Mult64, P
<1>2. P \in Nat \ {0} /\ M = P * P /\ n \in 0..P * P - 1 /\ m \in 0..P * P - 1
  BY HalfSize, Words
<1>3. /\ w \in 0..P - 1 /\ x \in 0..P - 1 /\ n = P * w + x
      /\ y \in 0..P - 1 /\ z \in 0..P - 1 /\ m = P * y + z
  BY <1>2, TwoDigits
<1> HIDE DEF w, x, y, z
<1>4. \A s, t \in 0..P - 1 : s * t \in Nat /\ s * t <= P * P - 2 * P + 1
  <2>1. (P - 1) * (P - 1) = P * P - 2 * P + 1
    BY <1>2
  <2>2. QED
    BY <1>2, <2>1, ProductBound
<1>5. zx \in 0..P * P - 1 /\ yx \in 0..P * P - 1
  BY <1>2, <1>3, <1>4
<1> HIDE DEF zx, yx
<1>6. /\ zx \div P \in 0..P - 1 /\ zx % P \in 0..P - 1 /\ zx = P * (zx \div P) + (zx % P)
      /\ yx \div P \in 0..P - 1 /\ f \in 0..P - 1 /\ yx = P * (yx \div P) + f
  BY <1>2, <1>5, TwoDigits
<1>7. zw \in 0..P * P - 1 /\ yw \in 0..P * P - 1
  <2>1. z * w \in Nat /\ z * w <= P * P - 2 * P + 1 /\ y * w \in Nat /\ y * w <= P * P - 2 * P + 1
    BY <1>3, <1>4
  <2> DEFINE s == z * w
             t == y * w
             q == P * P
  <2>2. q \in Nat /\ P \in Nat \ {0} /\ s \in Nat /\ s <= q - 2 * P + 1 /\ t \in Nat /\ t <= q - 2 * P + 1
    BY <1>2, <2>1
  <2> HIDE DEF s, t, q
  <2>3. s + (zx \div P) \in 0..q - 1 /\ t + (yx \div P) \in 0..q - 1
    BY <1>6, <2>2
  <2>4. QED
    BY <2>3 DEF s, t, q
<1> HIDE DEF zw, yw
<1>8. a \in 0..P - 1 /\ b \in 0..P - 1 /\ zw = P * a + b
  BY <1>2, <1>7, TwoDigits
<1>9. d \in 0..P - 1 /\ e \in 0..P - 1 /\ yw = P * d + e
  BY <1>2, <1>7, TwoDigits
<1> HIDE DEF a, b, d, e, f
<1> DEFINE g == (b + f) \div P
<1>10. b + f \in Nat
  BY <1>6, <1>8
<1>11. h \in 0..P - 1 /\ g \in Nat /\ b + f = P * g + h
  BY <1>2, <1>10, Digits
<1>12. carry = (a + e) + g
  OBVIOUS
<1> HIDE DEF h, g, carry
<1>13. carry \in Nat
  BY <1>8, <1>9, <1>11, <1>12
<1> DEFINE c == carry \div P
           r == carry % P
           low == zx % P
<1>14. r \in 0..P - 1 /\ c \in Nat /\ carry = P * c + r
  BY <1>2, <1>13, Digits
<1> HIDE DEF c, r, low
<1>15. n * m = M * (P * (d + c) + r) + (P * h + low)
  <2>1. n * m = P * (P * (y * w)) + P * yx + P * (z * w) + zx
    <3>1. n * m = (P * w + x) * (P * y + z)
      BY <1>3
    <3>2. (P * w + x) * (P * y + z) = P * (P * (y * w)) + P * (y * x) + P * (z * w) + z * x
      BY <1>2, <1>3
    <3>3. QED
      BY <3>1, <3>2 DEF yx, zx
  <2> DEFINE zq == zx \div P
             yq == yx \div P
  <2>2. /\ zq \in Nat /\ yq \in Nat /\ zx = P * zq + low /\ yx = P * yq + f
        /\ z * w = P * a + b - zq /\ y * w = P * d + e - yq
        /\ low \in Nat
    <3>1. zq \in Nat /\ yq \in Nat /\ zx = P * zq + low /\ yx = P * yq + f /\ low \in Nat
      BY <1>6 DEF low
    <3>2. zw = z * w + zq /\ yw = y * w + yq
      BY DEF zw, yw
    <3>3. z * w \in Nat /\ y * w \in Nat
      BY <1>3, <1>4
    <3> HIDE DEF zq, yq
    <3>4. z * w = zw - zq /\ y * w = yw - yq
      BY <3>1, <3>2, <3>3
    <3> DEFINE u == P * a
               v == P * d
    <3>5. u \in Nat /\ v \in Nat
      BY <1>2, <1>8, <1>9
    <3> HIDE DEF u, v
    <3>6. z * w = u + b - zq /\ y * w = v + e - yq
      BY <1>8, <1>9, <3>1, <3>4, <3>5 DEF u, v
    <3>7. QED
      BY <3>1, <3>6, Zenon DEF u, v
  <2> HIDE DEF zq, yq
  <2>3. n * m = P * (P * (P * d + e - yq)) + P * (P * yq + f) + P * (P * a + b - zq) + (P * zq + low)
    BY <2>1, <2>2
  <2>4. n * m = P * (P * (P * d + e + a)) + P * (b + f) + low
    BY <1>2, <1>6, <1>8, <1>9, <2>2, <2>3
  <2>5. n * m = P * (P * (P * d + (carry - g))) + P * (P * g + h) + low
    <3>1. P * d + e + a = P * d + (carry - g) /\ b + f = P * g + h
      BY <1>2, <1>8, <1>9, <1>11, <1>12
    <3>2. QED
      BY <2>4, <3>1
  <2>6. n * m = P * (P * (P * d + (P * c + r))) + P * h + low
    BY <1>2, <1>9, <1>11, <1>13, <1>14, <2>2, <2>5
  <2>7. QED
    BY <1>2, <1>9, <1>11, <1>14, <2>2, <2>6
<1>16. d + c \in 0..P - 1
  <2>1. n * m <= (M - 1) * (M - 1)
    BY WordSize, Words, ProductBound
  <2>2. d + c >= P => P * (d + c) >= M
    BY <1>2, <1>9, <1>14
  <2>3. P * (d + c) >= M => M * (P * (d + c) + r) + (P * h + low) >= M * M
    <3> DEFINE X == P * (d + c)
    <3>1. X \in Nat /\ P * h + low \in Nat /\ r \in Nat /\ M \in Nat
      BY <1>2, <1>6, <1>9, <1>11, <1>14, WordSize DEF low
    <3> HIDE DEF X
    <3>2. X >= M => M * (X + r) >= M * M
      BY <3>1
    <3>3. M * (X + r) \in Nat /\ M * M \in Nat
      BY <3>1
    <3>4. QED
      BY <3>1, <3>2, <3>3 DEF X
  <2>4. (M - 1) * (M - 1) < M * M
    BY WordSize
  <2>5. d + c \in Nat
    BY <1>9, <1>14
  <2>6. QED
    <3>1. n * m \in Nat /\ (M - 1) * (M - 1) \in Nat /\ M * M \in Nat
      BY <1>2, WordSize
    <3>2. d + c >= P => n * m >= M * M
      BY <1>15, <2>2, <2>3
    <3>3. ~(d + c >= P)
      BY <2>1, <2>4, <3>1, <3>2
    <3>4. QED
      BY <1>2, <2>5, <3>3
<1>17. hi = P * (d + c) + r /\ lo = P * h + low
  <2>1. i = d + c
    BY <1>2, <1>16, Digit DEF c
  <2>2. QED
    BY <1>2, <1>9, <1>11, <1>14, <2>1 DEF r, low
<1>18. low \in 0..P - 1
  BY <1>6 DEF low
<1>19. \A s, t \in 0..P - 1 : P * s + t \in 0..M - 1
  <2> SUFFICES ASSUME NEW s \in 0..P - 1, NEW t \in 0..P - 1 PROVE P * s + t \in 0..M - 1
    OBVIOUS
  <2>1. P * s \in Nat /\ P * s <= P * (P - 1) /\ P * (P - 1) = P * P - P
    BY <1>2
  <2>2. QED
    BY <1>2, <2>1
<1>20. hi \in Word /\ lo \in Word
  BY <1>11, <1>14, <1>16, <1>17, <1>18, <1>19, Words
<1> HIDE DEF hi, lo, i
<1>21. hi * M + lo = n * m
  BY <1>2, <1>9, <1>11, <1>14, <1>15, <1>17, <1>18
<1>22. QED
  BY <1>1, <1>20, <1>21
(* The size of a signed word, as the code takes it.                         *)
Size(a) == IF Negative(a) THEN Wrap(-a) ELSE a

LEMMA SizeExact ==
    ASSUME NEW a \in Word
    PROVE  Size(a) \in 0..H /\ Size(a) \in Word /\ Size(a) = IF Signed(a) < 0 THEN -Signed(a) ELSE Signed(a)
<1>1. a \in 0..M - 1 /\ M = 2 * H /\ H \in Nat \ {0}
  BY WordSize, Words
<1>2. -a \in -M..2 * M - 1 /\ (-a < 0 \/ a = 0)
  BY <1>1
<1>3. Wrap(-a) = IF -a < 0 THEN -a + M ELSE IF -a < M THEN -a ELSE -a - M
  BY <1>2, WrapNear
<1>4. Wrap(-a) = IF a = 0 THEN 0 ELSE M - a
  BY <1>1, <1>3
<1>5. (Negative(a) <=> a >= H) /\ Signed(a) = IF a >= H THEN a - M ELSE a
  BY <1>1, Signs
<1>6. CASE a >= H
  <2>1. Size(a) = M - a /\ Signed(a) = a - M
    BY <1>1, <1>4, <1>5, <1>6 DEF Size
  <2>2. QED
    BY <1>1, <1>6, <2>1, Words
<1>7. CASE ~(a >= H)
  <2>1. Size(a) = a /\ Signed(a) = a
    BY <1>5, <1>7 DEF Size
  <2>2. QED
    BY <1>1, <1>7, <2>1
<1>8. QED
  BY <1>6, <1>7

(* The two's complement of a number of two words, taken one word at a time. *)
LEMMA Complement ==
    ASSUME NEW r1 \in Word, NEW r2 \in Word, NEW hi, hi = M - 1 - r1, NEW lo, lo = M - 1 - r2,
           NEW up, up = IF Negative(lo) /\ ~Negative(Wrap(lo + 1)) THEN Wrap(hi + 1) ELSE hi
    PROVE  /\ up \in Word /\ Wrap(lo + 1) \in Word
           /\ up * M + Wrap(lo + 1) = IF r1 = 0 /\ r2 = 0 THEN 0 ELSE M * M - (r1 * M + r2)
<1>1. r1 \in 0..M - 1 /\ r2 \in 0..M - 1 /\ M = 2 * H /\ H \in Nat \ {0}
  BY WordSize, Words
<1>2. lo \in 0..M - 1 /\ hi \in 0..M - 1
  BY <1>1
<1>3. Wrap(lo + 1) = (IF r2 = 0 THEN 0 ELSE M - r2) /\ Wrap(lo + 1) \in Word
  BY <1>1, <1>2, WrapNear
<1>4. Wrap(hi + 1) = IF r1 = 0 THEN 0 ELSE M - r1
  BY <1>1, <1>2, WrapNear
<1>5. (Negative(lo) <=> lo >= H) /\ (Negative(Wrap(lo + 1)) <=> Wrap(lo + 1) >= H)
  <2>1. Wrap(lo + 1) \in Int /\ lo \in Int
    BY <1>1, <1>2, <1>3
  <2>2. QED
    BY <2>1, Signs
<1>6. (Negative(lo) /\ ~Negative(Wrap(lo + 1))) <=> r2 = 0
  BY <1>1, <1>3, <1>5
<1>7. up = IF r2 # 0 THEN M - 1 - r1 ELSE IF r1 = 0 THEN 0 ELSE M - r1
  BY <1>4, <1>6
<1>8. up \in Word
  <2>1. up \in 0..M - 1
    BY <1>1, <1>7
  <2>2. QED
    BY <2>1, Words
<1>9. (M - r1) * M = M * M - r1 * M /\ (M - 1 - r1) * M = M * M - M - r1 * M /\ 0 * M = 0
        /\ M * M \in Nat /\ r1 * M \in Nat
  BY <1>1
<1>10. up * M + Wrap(lo + 1) = IF r1 = 0 /\ r2 = 0 THEN 0 ELSE M * M - (r1 * M + r2)
  <2>1. CASE r2 # 0
    <3>1. up * M = M * M - M - r1 * M /\ Wrap(lo + 1) = M - r2
      BY <1>3, <1>7, <1>9, <2>1
    <3>2. QED
      BY <1>1, <1>9, <2>1, <3>1
  <2>2. CASE r2 = 0 /\ r1 # 0
    <3>1. up * M = M * M - r1 * M /\ Wrap(lo + 1) = 0
      BY <1>3, <1>7, <1>9, <2>2
    <3>2. QED
      BY <1>1, <1>9, <2>2, <3>1
  <2>3. CASE r2 = 0 /\ r1 = 0
    BY <1>3, <1>7, <1>9, <2>3
  <2>4. QED
    BY <2>1, <2>2, <2>3
<1>11. QED
  BY <1>3, <1>8, <1>10

LEMMA Mult64sExact ==
    ASSUME NEW n \in Word, NEW m \in Word
    PROVE  /\ Mult64s(n, m) \in Word \X Word
           /\ Mult64s(n, m)[1] * M + Mult64s(n, m)[2] = (Signed(n) * Signed(m)) % 2^(2 * W)
<1> DEFINE r == Mult64(Size(n), Size(m))
           r1 == r[1]
           r2 == r[2]
           hi == M - 1 - r1
           lo == M - 1 - r2
           up == IF Negative(lo) /\ ~Negative(Wrap(lo + 1)) THEN Wrap(hi + 1) ELSE hi
           t == Size(n) * Size(m)
           s == Signed(n) * Signed(m)
<1>1. Mult64s(n, m) = IF Negative(n) = Negative(m) THEN r ELSE <<up, Wrap(lo + 1)>>
  BY DEF Mult64s, Size, M
<1>2. /\ Size(n) \in 0..H /\ Size(m) \in 0..H /\ Size(n) \in Word /\ Size(m) \in Word
      /\ Signed(n) \in Int /\ Signed(m) \in Int
      /\ Size(n) = (IF Signed(n) < 0 THEN -Signed(n) ELSE Signed(n))
      /\ Size(m) = (IF Signed(m) < 0 THEN -Signed(m) ELSE Signed(m))
  BY SizeExact, SignedRange, WordSize
<1>3. r \in Word \X Word /\ r1 \in Word /\ r2 \in Word /\ r1 * M + r2 = t /\ r = <<r1, r2>>
  <2>1. r \in Word \X Word /\ r[1] * M + r[2] = t
    BY <1>2, Mult64Exact
  <2>2. QED
    BY <2>1
<1>4. 2^(2 * W) = M * M
  <2>1. W + W = 2 * W /\ W \in 0..W
    BY ArithmeticAssumption
  <2>2. 2^(W + W) = M * M
    BY <2>1, PowerAssumption DEF M
  <2>3. QED
    BY <2>1, <2>2
<1>5. (Negative(n) <=> Signed(n) < 0) /\ (Negative(m) <=> Signed(m) < 0)
        /\ Negative(n) \in BOOLEAN /\ Negative(m) \in BOOLEAN
  BY SignedRange DEF Negative
<1>6. t \in Nat /\ t < M * M /\ M * M \in Nat \ {0}
  <2>1. t \in Nat /\ t <= H * H
    <3>1. t \in Nat /\ t <= Size(n) * H
      BY <1>2, WordSize
    <3>2. Size(n) * H <= H * H /\ Size(n) * H \in Nat /\ H * H \in Nat
      BY <1>2, WordSize
    <3>3. QED
      BY <3>1, <3>2
  <2>2. M * M = 4 * (H * H) /\ H * H \in Nat \ {0}
    BY WordSize
  <2>3. QED
    BY <2>1, <2>2
<1> HIDE DEF r, r1, r2, hi, lo, up
<1>7. CASE Negative(n) = Negative(m)
  <2>1. s = t
    BY <1>2, <1>5, <1>7
  <2>2. t % (M * M) = t
    <3> DEFINE MM == M * M
    <3> HIDE DEF t, MM
    <3>1. MM \in Nat \ {0} /\ t \in 0..MM - 1
      BY <1>6 DEF MM
    <3>2. QED
      BY <3>1, Digit DEF MM
  <2>3. QED
    BY <1>1, <1>3, <1>4, <1>7, <2>1, <2>2
<1>8. CASE Negative(n) # Negative(m)
  <2>1. s = -t
    BY <1>2, <1>5, <1>8
  <2>2. s % (M * M) = IF t = 0 THEN 0 ELSE M * M - t
    <3> DEFINE MM == M * M
    <3> HIDE DEF t, s, MM
    <3>1. MM \in Nat \ {0} /\ s \in -MM..2 * MM - 1 /\ s = -t /\ t \in Nat
      BY <1>6, <2>1 DEF MM
    <3>2. s % MM = IF s < 0 THEN s + MM ELSE IF s < MM THEN s ELSE s - MM
      BY <3>1, ModuloNear
    <3>3. QED
      BY <3>1, <3>2 DEF MM
  <2>3. /\ up \in Word /\ Wrap(lo + 1) \in Word
        /\ up * M + Wrap(lo + 1) = IF r1 = 0 /\ r2 = 0 THEN 0 ELSE M * M - (r1 * M + r2)
    BY <1>3, Complement DEF hi, lo, up
  <2>4. t = 0 <=> r1 = 0 /\ r2 = 0
    <3>1. r1 \in Nat /\ r2 \in Nat /\ M \in Nat \ {0} /\ r1 * M \in Nat /\ (r1 * M = 0 <=> r1 = 0)
      BY <1>3, WordSize, Words
    <3> HIDE DEF t
    <3>2. QED
      BY <1>3, <3>1
  <2>5. up * M + Wrap(lo + 1) = s % (M * M)
    BY <1>3, <2>2, <2>3, <2>4
  <2>6. Mult64s(n, m) = <<up, Wrap(lo + 1)>>
    BY <1>1, <1>8
  <2>7. QED
    BY <1>4, <2>3, <2>5, <2>6
<1>9. QED
  BY <1>7, <1>8

-----------------------------------------------------------------------------
(* Quotients.  q and r are the quotient and the remainder of n by d, towards *)
(* zero.                                                                    *)
Magnitude(k) == IF k < 0 THEN -k ELSE k

Quotient(n, d) == IF (n < 0) = (d < 0) THEN Magnitude(n) \div Magnitude(d)
                                       ELSE -(Magnitude(n) \div Magnitude(d))

LEMMA QuotientExact ==
    ASSUME NEW n \in Int, NEW d \in Int \ {0}
    PROVE  LET q == Quotient(n, d)
               r == n - q * d
           IN  /\ q \in Int /\ r \in Int
               /\ Magnitude(r) < Magnitude(d) /\ r * n >= 0
               /\ Magnitude(q) <= Magnitude(n)
               /\ (Magnitude(q) = Magnitude(n) /\ n # 0 => Magnitude(d) = 1)
               /\ (q >= 0 \/ ~((n < 0) = (d < 0)))
               /\ (q > 0 => (n < 0) = (d < 0))
<1> DEFINE a == Magnitude(n)
           b == Magnitude(d)
           k == a \div b
           l == a % b
           q == Quotient(n, d)
           r == n - q * d
<1>1. a \in Nat /\ b \in Nat \ {0} /\ a = (IF n < 0 THEN -n ELSE n) /\ b = (IF d < 0 THEN -d ELSE d)
  BY DEF Magnitude
<1> HIDE DEF a, b
<1>2. k \in Nat /\ l \in 0..b - 1 /\ a = b * k + l
  BY <1>1, Digits
<1>3. q = IF (n < 0) = (d < 0) THEN k ELSE -k
  BY DEF Quotient, a, b
<1> HIDE DEF k, l, q
<1>4. q * d = IF n < 0 THEN -(b * k) ELSE b * k
  <2>1. k * (-d) = -(k * d) /\ (-k) * d = -(k * d) /\ b * k = k * b
    BY <1>1, <1>2
  <2>2. CASE n < 0 /\ d < 0
    BY <1>1, <1>2, <1>3, <2>1, <2>2
  <2>3. CASE n < 0 /\ ~(d < 0)
    BY <1>1, <1>2, <1>3, <2>1, <2>3
  <2>4. CASE ~(n < 0) /\ d < 0
    BY <1>1, <1>2, <1>3, <2>1, <2>4
  <2>5. CASE ~(n < 0) /\ ~(d < 0)
    BY <1>1, <1>2, <1>3, <2>1, <2>5
  <2>6. QED
    BY <2>2, <2>3, <2>4, <2>5
<1>5. r = IF n < 0 THEN -l ELSE l
  <2> DEFINE p == b * k
  <2>1. p \in Nat
    BY <1>1, <1>2
  <2>2. a = p + l /\ q * d = IF n < 0 THEN -p ELSE p
    BY <1>2, <1>4
  <2> DEFINE u == q * d
  <2> HIDE DEF p, u
  <2>3. n - u = IF n < 0 THEN -l ELSE l
    BY <1>1, <1>2, <2>1, <2>2 DEF u
  <2>4. QED
    BY <2>3 DEF u
<1> HIDE DEF r
<1>6. k <= a /\ (k = a /\ a # 0 => b = 1)
  <2>1. b * k >= k /\ (b >= 2 => b * k >= 2 * k)
    BY <1>1, <1>2
  <2>2. QED
    BY <1>1, <1>2, <2>1
<1>7. q \in Int /\ r \in Int /\ Magnitude(r) = l /\ Magnitude(q) = k
  BY <1>2, <1>3, <1>5 DEF Magnitude
<1>8. r * n >= 0
  BY <1>1, <1>2, <1>5
<1>9. QED
  BY <1>1, <1>2, <1>3, <1>6, <1>7, <1>8 DEF a, b, r, q

(* What div leaves, as signed words, when the quotient fits.                *)
LEMMA DivExact ==
    ASSUME NEW a \in Word, NEW b \in Word, b # 0
    PROVE  \E p \in Quotients("div", a, b) :
              /\ (Signed(p[2]) * Signed(b) + Signed(p[1]) - Signed(a)) % M = 0
              /\ Signed(p[1]) * Signed(p[1]) < Signed(b) * Signed(b)
              /\ Signed(p[1]) * Signed(a) >= 0
<1> DEFINE n == Signed(a)
           d == Signed(b)
           q == Quotient(n, d)
           r == n - q * d
<1>1. /\ a \in 0..M - 1 /\ b \in 0..M - 1 /\ M = 2 * H /\ H \in Nat \ {0} /\ M \in Nat \ {0}
      /\ n = (IF a >= H THEN a - M ELSE a) /\ d = (IF b >= H THEN b - M ELSE b)
  <2>1. a \in 0..M - 1 /\ b \in 0..M - 1 /\ M = 2 * H /\ H \in Nat \ {0} /\ M \in Nat \ {0}
    BY WordSize, Words
  <2>2. a \in Int /\ b \in Int
    BY <2>1
  <2>3. QED
    BY <2>1, <2>2, Signs
<1>2. n \in -H..H - 1 /\ d \in -H..H - 1 /\ d # 0
  BY <1>1
<1>3. (a = H /\ b = M - 1) <=> (n = -H /\ d = -1)
  BY <1>1
<1>4. \A x : x = 0 => x % M = 0
  BY <1>1
<1>5. CASE a = H /\ b = M - 1
  <2>1. Quotients("div", a, b) = Word \X Word
    BY <1>5 DEF Quotients, H, M
  <2>2. 0 \in Word /\ H \in Word /\ Signed(0) = 0 /\ Signed(H) = -H
    BY <1>1, Words, Signs
  <2>3. Signed(H) * d + 0 - n = M /\ 0 * 0 < d * d /\ 0 * n >= 0
    BY <1>1, <1>2, <1>3, <1>5, <2>2
  <2>4. M % M = 0
    BY <1>1
  <2> DEFINE p == <<0, H>>
  <2>5. p \in Quotients("div", a, b) /\ p[1] = 0 /\ p[2] = H
    BY <2>1, <2>2
  <2> HIDE DEF p
  <2>6. QED
    BY <2>2, <2>3, <2>4, <2>5
<1>6. CASE ~(a = H /\ b = M - 1)
  <2>1. /\ q \in Int /\ r \in Int /\ Magnitude(r) < Magnitude(d) /\ r * n >= 0
        /\ Magnitude(q) <= Magnitude(n)
        /\ (Magnitude(q) = Magnitude(n) /\ n # 0 => Magnitude(d) = 1)
        /\ (q > 0 => (n < 0) = (d < 0))
    <3>1. n \in Int /\ d \in Int \ {0}
      BY <1>1, <1>2
    <3> HIDE DEF n, d
    <3>2. QED
      BY <3>1, QuotientExact
  <2>2. Quotients("div", a, b) = {<<Wrap(r), Wrap(q)>>}
    BY <1>1, <1>6 DEF Quotients, H, M, Divided, Quotient, Magnitude
  <2> HIDE DEF q, r, n, d
  <2>3. q \in -H..H - 1 /\ r \in -H..H - 1
    <3>1. Magnitude(n) <= H /\ (Magnitude(n) = H => n = -H) /\ Magnitude(d) <= H
      BY <1>1, <1>2 DEF Magnitude
    <3>2. q # H
      BY <1>1, <1>2, <1>3, <1>6, <2>1, <3>1 DEF Magnitude
    <3>3. QED
      BY <1>1, <1>2, <2>1, <3>1, <3>2 DEF Magnitude
  <2>4. Signed(Wrap(q)) = q /\ Signed(Wrap(r)) = r
    BY <2>3, SignedWrap
  <2>5. q * d + r - n = 0
    <3> DEFINE u == q * d
    <3>1. u \in Int /\ r = n - u
      BY <1>2, <2>1 DEF r
    <3> HIDE DEF u
    <3>2. u + r - n = 0
      BY <1>2, <2>1, <3>1
    <3>3. QED
      BY <3>2 DEF u
  <2>6. r * r < d * d
    BY <1>2, <2>1 DEF Magnitude
  <2> DEFINE p == <<Wrap(r), Wrap(q)>>
  <2>7. p \in Quotients("div", a, b) /\ p[1] = Wrap(r) /\ p[2] = Wrap(q)
    BY <2>2
  <2> HIDE DEF p
  <2>8. (q * d + r - n) % M = 0
    BY <1>4, <2>5
  <2>9. QED
    BY <2>1, <2>4, <2>6, <2>7, <2>8 DEF n, d
<1>7. QED
  BY <1>5, <1>6

-----------------------------------------------------------------------------
(* Shifts to the right by s, on either kind of host.                        *)
LEMMA ShiftSize ==
    ASSUME NEW s \in 0..W - 1
    PROVE  /\ 2^s \in Nat \ {0} /\ 2^(W - s) \in Nat \ {0} /\ M = 2^s * 2^(W - s)
           /\ s = 0 => 2^s = 1
           /\ s # 0 => 2^(W - s) <= H
<1>1. s \in 0..W /\ W - s \in 0..W /\ s + (W - s) = W /\ W \in Nat
  BY ArithmeticAssumption
<1>2. 2^s \in Nat \ {0} /\ 2^(W - s) \in Nat \ {0} /\ 2^(s + (W - s)) = 2^s * 2^(W - s)
  BY <1>1, PowerAssumption
<1>3. s = 0 => 2^s = 1
  <2>1. 2^0 = 1
    OBVIOUS
  <2>2. QED
    BY <2>1
<1>4. ASSUME s # 0 PROVE 2^(W - s) <= H
  <2>1. s - 1 \in 0..W /\ (s - 1) + (W - s) = W - 1
    BY <1>1, <1>4
  <2>2. 2^(s - 1) \in Nat \ {0} /\ 2^((s - 1) + (W - s)) = 2^(s - 1) * 2^(W - s)
    BY <1>1, <2>1, PowerAssumption
  <2> DEFINE x == 2^(s - 1)
             y == 2^(W - s)
  <2>3. x \in Nat \ {0} /\ y \in Nat \ {0} /\ H = x * y
    BY <1>2, <2>1, <2>2 DEF H
  <2> HIDE DEF x, y
  <2>4. y <= x * y
    BY <2>3
  <2>5. QED
    BY <2>3, <2>4 DEF y
<1>5. QED
  BY <1>1, <1>2, <1>3, <1>4 DEF M

(* What is left of a shift once its top bits are cut off.                   *)
LEMMA ShiftExact ==
    ASSUME NEW a \in Word, NEW s \in 0..W - 1
    PROVE  /\ a \div 2^s \in 0..2^(W - s) - 1 /\ a \div 2^s \in Word
           /\ Signed(a) \div 2^s = IF Negative(a) THEN a \div 2^s - 2^(W - s) ELSE a \div 2^s
           /\ ShiftRight(a, s) % 2^(W - s) = a \div 2^s
           /\ ~Negative(a) => ShiftRight(a, s) = a \div 2^s
<1> DEFINE S == 2^s
           T == 2^(W - s)
           u == a \div S
           l == a % S
<1>1. S \in Nat \ {0} /\ T \in Nat \ {0} /\ M = S * T /\ a \in 0..M - 1 /\ M = 2 * H /\ H \in Nat \ {0}
        /\ M \in Nat \ {0}
  BY ShiftSize, WordSize, Words
<1> HIDE DEF S, T
<1>2. u \in 0..T - 1 /\ l \in 0..S - 1 /\ a = S * u + l
  <2>1. a \in Nat /\ a \in 0..S * T - 1
    BY <1>1
  <2>2. u \in 0..T - 1
    BY <1>1, <2>1, DigitBound
  <2>3. l \in 0..S - 1 /\ a = S * u + l
    BY <1>1, <2>1, Digits
  <2>4. QED
    BY <2>2, <2>3
<1> HIDE DEF u, l
<1>3. T <= M /\ (S - 1) * T = M - T
  BY <1>1
<1>4. u \in Word /\ u \in Int
  <2>1. u \in 0..M - 1
    BY <1>1, <1>2, <1>3
  <2>2. QED
    BY <2>1, Words
<1>5. (Negative(a) <=> a >= H) /\ Signed(a) = (IF a >= H THEN a - M ELSE a)
  BY <1>1, Signs
<1>6. Signed(a) \div S = IF Negative(a) THEN u - T ELSE u
  <2>1. CASE a >= H
    <3>1. a - M = (u - T) * S + l /\ u - T \in Int
      BY <1>1, <1>2
    <3>2. (a - M) \div S = u - T
      <4> DEFINE x == a - M
                 q == u - T
      <4>1. x \in Int /\ q \in Int /\ x - q * S \in 0..S - 1
        BY <1>1, <1>2, <3>1
      <4> HIDE DEF x, q
      <4>2. x \div S = q
        BY <1>1, <4>1, QuotientUnique
      <4>3. QED
        BY <4>2 DEF x, q
    <3>3. QED
      BY <1>5, <2>1, <3>2
  <2>2. CASE ~(a >= H)
    BY <1>5, <2>2 DEF u
  <2>3. QED
    BY <2>1, <2>2
<1>7. u % T = u
  BY <1>1, <1>2, Digit
<1>8. Wrap(u) = u
  <2>1. u \in -M..2 * M - 1 /\ u >= 0 /\ u < M
    BY <1>1, <1>2, <1>3
  <2>2. QED
    BY <2>1, WrapNear
<1>9. Wrap(u - T) % T = u
  <2>1. u - T \in -M..2 * M - 1 /\ u - T < 0
    BY <1>1, <1>2, <1>3
  <2>2. Wrap(u - T) = u - T + M
    BY <2>1, WrapNear
  <2> DEFINE x == u - T + M
             q == S - 1
  <2>3. x = q * T + u /\ q \in Int /\ x \in Int /\ q * T \in Int
    BY <1>1, <1>2, <1>3
  <2> HIDE DEF x, q
  <2>4. x - q * T = u
    <3> DEFINE y == q * T
    <3>1. x = y + u /\ y \in Int /\ u \in Int
      BY <1>2, <2>3
    <3> HIDE DEF y
    <3>2. x - y = u
      BY <3>1
    <3>3. QED
      BY <3>2 DEF y
  <2>5. x % T = u
    BY <1>1, <1>2, <2>3, <2>4, QuotientUnique
  <2>6. QED
    BY <2>2, <2>5 DEF x
<1>10. ShiftRight(a, s) = IF HostShift = "arithmetic" THEN Wrap(Signed(a) \div S) ELSE u
  BY DEF ShiftRight, S, u
<1>11. ShiftRight(a, s) % T = u /\ (~Negative(a) => ShiftRight(a, s) = u)
  BY <1>6, <1>7, <1>8, <1>9, <1>10
<1>12. QED
  BY <1>2, <1>4, <1>6, <1>11 DEF u, S, T

LEMMA ShiftsExact ==
    ASSUME NEW a \in Word, NEW s \in 0..W - 1
    PROVE  /\ Srl(a, s) = a \div 2^s /\ Srl(a, s) \in Word
           /\ Signed(Sra(a, s)) = Signed(a) \div 2^s /\ Sra(a, s) \in Word
<1> DEFINE T == 2^(W - s)
           u == a \div 2^s
<1>1. /\ u \in 0..T - 1 /\ u \in Word
      /\ Signed(a) \div 2^s = (IF Negative(a) THEN u - T ELSE u)
      /\ ShiftRight(a, s) % T = u
      /\ (~Negative(a) => ShiftRight(a, s) = u)
  BY ShiftExact
<1>2. a \in 0..M - 1 /\ M = 2 * H /\ H \in Nat \ {0} /\ T \in Nat \ {0} /\ (s # 0 => T <= H)
  BY ShiftSize, WordSize, Words
<1>3. (s = 0 => 2^s = 1) /\ M = 2^s * T
  BY ShiftSize
<1>4. (2^s - 1) * T = M - T
  <2>1. 2^s \in Nat
    BY ShiftSize
  <2>2. QED
    BY <1>2, <1>3, <2>1
<1>5. s = 0 => u = a /\ Signed(a) \div 2^s = Signed(a)
  <2>1. Signed(a) \in Int
    BY SignedRange, <1>2
  <2>2. a \div 1 = a /\ Signed(a) \div 1 = Signed(a)
    BY <1>2, <2>1
  <2>3. QED
    BY <1>3, <2>2
<1>6. Srl(a, s) = u
  BY <1>1, <1>5 DEF Srl
<1> HIDE DEF T, u
<1>7. CASE s = 0
  <2>1. ShiftRight(a, s) = a
    <3>1. ShiftRight(a, s) = IF HostShift = "arithmetic" THEN Wrap(Signed(a) \div 2^s) ELSE u
      BY DEF ShiftRight, u
    <3>2. Wrap(Signed(a)) = a
      BY SignedRange
    <3>3. QED
      BY <1>5, <1>7, <3>1, <3>2
  <2>2. Sra(a, s) = a
    BY <1>7, <2>1 DEF Sra
  <2>3. QED
    BY <1>1, <1>5, <1>6, <1>7, <2>2 DEF u
<1>8. CASE s # 0 /\ ~Negative(a)
  <2>1. Sra(a, s) = u
    BY <1>1, <1>8 DEF Sra
  <2>2. a < H /\ u <= a
    <3>1. Negative(a) <=> a >= H
      BY <1>2, Signs
    <3>2. u <= a
      <4>1. 2^s \in Nat \ {0} /\ a \in Nat
        BY <1>2, ShiftSize
      <4> DEFINE S == 2^s
                 v == a \div S
      <4>2. S \in Nat \ {0}
        BY <4>1
      <4> HIDE DEF S
      <4>3. v \in Nat /\ a % S \in Nat /\ a = S * v + (a % S)
        <5>1. v \in Nat /\ a % S \in 0..S - 1 /\ a = S * v + (a % S)
          BY <4>1, <4>2, Digits
        <5>2. QED
          BY <4>2, <5>1
      <4> HIDE DEF v
      <4>4. S * v >= v
        BY <4>2, <4>3
      <4>5. v <= a
        <5> DEFINE x == S * v
        <5>1. x \in Nat
          BY <4>2, <4>3
        <5> HIDE DEF x
        <5>2. QED
          BY <4>3, <4>4, <5>1 DEF x
      <4>6. QED
        BY <4>5 DEF u, v, S
    <3>3. QED
      BY <1>2, <1>8, <3>1, <3>2
  <2>3. Signed(u) = u
    BY <1>1, <1>2, <2>2, Signs
  <2>4. QED
    BY <1>1, <1>6, <1>8, <2>1, <2>3 DEF u
<1>9. CASE s # 0 /\ Negative(a)
  <2>1. Sra(a, s) = M - T + u
    BY <1>1, <1>4, <1>9 DEF Sra, T
  <2>2. M - T + u \in H..M - 1
    BY <1>1, <1>2, <1>9
  <2>3. Signed(M - T + u) = u - T
    <3> DEFINE x == M - T + u
    <3>1. x \in Int /\ x >= H /\ x - M = u - T
      BY <1>1, <1>2, <2>2
    <3> HIDE DEF x
    <3>2. Signed(x) = x - M
      BY <3>1, Signs
    <3>3. QED
      BY <3>1, <3>2 DEF x
  <2>4. M - T + u \in Word
    BY <1>2, <2>2, Words
  <2>5. QED
    BY <1>1, <1>6, <1>9, <2>1, <2>3, <2>4 DEF u
<1>10. QED
  BY <1>7, <1>8, <1>9

-----------------------------------------------------------------------------
(* What divu leaves: the words are not signed, and both results fit.        *)
LEMMA DivuExact ==
    ASSUME NEW a \in Word, NEW b \in Word, b # 0, NEW p \in Quotients("divu", a, b)
    PROVE  p[2] * b + p[1] = a /\ p[1] < b
<1> DEFINE k == a \div b
           l == a % b
<1>1. a \in 0..M - 1 /\ b \in 1..M - 1 /\ M \in Nat
  BY WordSize, Words
<1>2. p = <<Wrap(a - k * b), Wrap(k)>>
  BY <1>1 DEF Quotients, Divided
<1>3. k \in Nat /\ l \in 0..b - 1 /\ a = b * k + l /\ b * k = k * b
  BY <1>1, Digits
<1> HIDE DEF k, l
<1>4. k * b \in Nat /\ k <= k * b
  BY <1>1, <1>3
<1> DEFINE u == k * b
<1>5. a - u = l /\ u \in Nat /\ k <= u
  <2>1. a = u + l /\ u \in Nat /\ k <= u
    BY <1>3, <1>4
  <2> HIDE DEF u
  <2>2. QED
    BY <1>1, <1>3, <2>1
<1>6. k \in 0..M - 1 /\ l \in 0..M - 1
  <2> HIDE DEF u
  <2>1. QED
    BY <1>1, <1>3, <1>5
<1>7. Wrap(k) = k /\ Wrap(l) = l
  <2>1. k \in -M..2 * M - 1 /\ ~(k < 0) /\ k < M /\ l \in -M..2 * M - 1 /\ ~(l < 0) /\ l < M
    BY <1>1, <1>6
  <2>2. QED
    BY <2>1, WrapNear
<1>8. p[1] = l /\ p[2] = k
  BY <1>2, <1>5, <1>7
<1>9. QED
  BY <1>3, <1>8

(* For words of any even number of bits and either kind of host: add and    *)
(* sub raise an overflow exactly when the result does not fit, mult, multu, *)
(* div and divu leave the mathematical product, quotient and remainder,     *)
(* and srl and sra are the mathematical shifts (add_emulate, sub_emulate,   *)
(* mult64, mult64s, div_emulate, divu_emulate, srl, sra).                   *)
THEOREM ArithmeticIsExact == Exact(Word)
<1>1. ASSUME NEW a \in Word, NEW b \in Word
      PROVE  /\ AddOverflows(a, b) <=> Signed(a) + Signed(b) \notin -(2^(W - 1))..2^(W - 1) - 1
             /\ SubOverflows(a, b) <=> Signed(a) - Signed(b) \notin -(2^(W - 1))..2^(W - 1) - 1
  BY SumsExact DEF H
<1>2. ASSUME NEW a \in Word, NEW b \in Word
      PROVE  /\ Mult64(a, b)[1] * 2^W + Mult64(a, b)[2] = a * b
             /\ Mult64s(a, b)[1] * 2^W + Mult64s(a, b)[2] = (Signed(a) * Signed(b)) % 2^(2 * W)
  BY Mult64Exact, Mult64sExact DEF M
<1>3. ASSUME NEW a \in Word, NEW b \in Word, b # 0
      PROVE  \E p \in Quotients("div", a, b) :
                /\ (Signed(p[2]) * Signed(b) + Signed(p[1]) - Signed(a)) % 2^W = 0
                /\ Signed(p[1]) * Signed(p[1]) < Signed(b) * Signed(b)
                /\ Signed(p[1]) * Signed(a) >= 0
  BY <1>3, DivExact DEF M
<1>4. ASSUME NEW a \in Word, NEW b \in Word, b # 0, NEW p \in Quotients("divu", a, b)
      PROVE  p[2] * b + p[1] = a /\ p[1] < b
  BY <1>4, DivuExact
<1>5. ASSUME NEW a \in Word, NEW s \in 0..W - 1
      PROVE  Srl(a, s) = a \div 2^s /\ Signed(Sra(a, s)) = Signed(a) \div 2^s
  BY ShiftsExact
<1>6. QED
  BY <1>1, <1>2, <1>3, <1>4, <1>5 DEF Exact

-----------------------------------------------------------------------------
(* Induction over the natural numbers below a bound, on the set of those    *)
(* for which what is to be shown holds.                                     *)
LEMMA InductionTo ==
    ASSUME NEW n \in Nat, NEW S, 0 \in S, \A k \in 0..n - 1 : k \in S => k + 1 \in S
    PROVE  \A k \in 0..n : k \in S
<1> DEFINE R == OpToRel(<, Nat)
           T == (0..n) \ S
<1>1. IsWellFoundedOn(R, Nat)
  BY NatLessThanWellFounded
<1>2. \A x, y \in Nat : y < x => <<y, x>> \in R
  BY DEF OpToRel
<1>3. T \subseteq Nat
  OBVIOUS
<1> HIDE DEF R
<1>4. ASSUME T # {} PROVE FALSE
  <2>1. PICK x \in T : \A y \in T : ~(<<y, x>> \in R)
    BY <1>1, <1>3, <1>4, WFMin
  <2>2. x \in 1..n /\ x - 1 \in 0..n - 1 /\ x - 1 < x /\ (x - 1) + 1 = x
    OBVIOUS
  <2>3. x - 1 \notin T
    <3>1. x \in Nat /\ x - 1 \in Nat
      BY <1>3, <2>2
    <3>2. <<x - 1, x>> \in R
      BY <1>2, <2>2, <3>1
    <3>3. QED
      BY <2>1, <3>2
  <2>4. QED
    BY <2>2, <2>3
<1>5. QED
  BY <1>4

(* The least of a set of natural numbers.                                   *)
LEMMA LeastOf ==
    ASSUME NEW T, T \subseteq Nat, T # {}
    PROVE  \E x \in T : \A y \in T : x <= y
<1> DEFINE R == OpToRel(<, Nat)
<1>1. IsWellFoundedOn(R, Nat)
  BY NatLessThanWellFounded
<1>2. \A x, y \in Nat : y < x => <<y, x>> \in R
  BY DEF OpToRel
<1> HIDE DEF R
<1>3. PICK x \in T : \A y \in T : ~(<<y, x>> \in R)
  BY <1>1, WFMin
<1>4. \A y \in T : ~(y < x)
  BY <1>2, <1>3
<1>5. QED
  BY <1>4

(* Words from sets of bits.  The sum has a solution, so it is one, and it   *)
(* stays below the next power of two.                                       *)
LEMMA FromBitsTyped == ASSUME NEW ks PROVE FromBits(ks) \in Word
<1> DEFINE bit(n) == IF n \in ks THEN 2^n ELSE 0
           Solves(f, n) == f = [k \in 0..n |-> IF k = 0 THEN 0 ELSE f[k - 1] + bit(k - 1)]
           S == {n \in Nat : \E f : Solves(f, n)}
           sum[n \in 0..W] == IF n = 0 THEN 0 ELSE sum[n - 1] + (IF n - 1 \in ks THEN 2^(n - 1) ELSE 0)
<1>1. W \in Nat
  BY ArithmeticAssumption
<1>2. 0 \in S
  <2>1. Solves([k \in 0..0 |-> 0], 0)
    OBVIOUS
  <2>2. QED
    BY <2>1
<1>3. ASSUME NEW n \in Nat, n \in S PROVE n + 1 \in S
  <2>1. PICK f : Solves(f, n)
    BY <1>3
  <2> DEFINE g == [k \in 0..n + 1 |-> IF k = n + 1 THEN f[n] + bit(n) ELSE f[k]]
  <2> HIDE DEF bit
  <2>2. Solves(g, n + 1)
    <3>1. \A k \in 0..n + 1 : g[k] = IF k = 0 THEN 0 ELSE g[k - 1] + bit(k - 1)
      <4> SUFFICES ASSUME NEW k \in 0..n + 1
                   PROVE  g[k] = IF k = 0 THEN 0 ELSE g[k - 1] + bit(k - 1)
        OBVIOUS
      <4>1. CASE k = n + 1
        BY <4>1
      <4>2. CASE k \in 0..n
        BY <2>1, <4>2
      <4>3. QED
        BY <4>1, <4>2
    <3>2. QED
      BY <3>1
  <2>3. n + 1 \in Nat
    BY <1>3
  <2> HIDE DEF g, Solves
  <2>4. QED
    BY <2>2, <2>3
<1>4. W \in S
  <2> HIDE DEF S
  <2>1. \A k \in 0..W : k \in S
    BY <1>1, <1>2, <1>3, InductionTo
  <2>2. QED
    BY <1>1, <2>1
<1>5. sum = [k \in 0..W |-> IF k = 0 THEN 0 ELSE sum[k - 1] + bit(k - 1)]
  BY <1>4
<1>6. FromBits(ks) = sum[W]
  BY DEF FromBits
<1> HIDE DEF S, Solves, sum, bit
<1> DEFINE U == {n \in Nat : sum[n] \in 0..2^n - 1}
<1>7. 0 \in U
  <2>1. sum[0] = 0 /\ 2^0 = 1
    BY <1>1, <1>5
  <2>2. QED
    BY <2>1
<1>8. ASSUME NEW n \in 0..W - 1, n \in U PROVE n + 1 \in U
  <2>1. n \in 0..W /\ 1 \in 0..W /\ n + 1 \in 0..W /\ n + 1 # 0 /\ (n + 1) - 1 = n /\ n + 1 \in Nat
    BY <1>1
  <2>2. sum[n + 1] = sum[n] + bit(n)
    BY <1>5, <2>1
  <2>3. 2^n \in Nat \ {0} /\ 2^(n + 1) = 2^n * 2
    <3>1. 2^n \in Nat \ {0} /\ 2^(n + 1) = 2^n * 2^1
      BY <2>1, PowerAssumption
    <3>2. 2^1 = 2
      OBVIOUS
    <3>3. QED
      BY <3>1, <3>2
  <2>4. bit(n) \in {0, 2^n}
    BY DEF bit
  <2>5. sum[n + 1] \in 0..2^(n + 1) - 1
    <3> DEFINE x == 2^n
               y == 2^(n + 1)
    <3>1. x \in Nat \ {0} /\ y = x * 2 /\ sum[n] \in 0..x - 1 /\ bit(n) \in {0, x}
      BY <1>8, <2>3, <2>4
    <3> HIDE DEF x, y
    <3>2. sum[n + 1] \in 0..y - 1
      BY <2>2, <3>1
    <3>3. QED
      BY <3>2 DEF y
  <2>6. QED
    BY <2>1, <2>5
<1>9. W \in U
  <2> HIDE DEF U
  <2>1. \A k \in 0..W : k \in U
    BY <1>1, <1>7, <1>8, InductionTo
  <2>2. QED
    BY <1>1, <2>1
<1>10. QED
  BY <1>6, <1>9 DEF Word

(* Whatever an instruction computes is a word.                              *)
LEMMA ComputeTyped ==
    ASSUME NEW op \in Computations, NEW a \in Word, NEW b \in Word
    PROVE  Compute(op, a, b) \in Word
<1>1. a \in 0..M - 1 /\ b \in 0..M - 1 /\ M \in Nat \ {0} /\ M >= 2 /\ M = 2^W
  BY WordSize, Words DEF M
<1>2. W \in Nat \ {0}
  BY ArithmeticAssumption
<1>3. a + b \in Int /\ a - b \in Int
  BY <1>1
<1>4. b * 2^(W \div 2) \in Int
  <2>1. 2^(W \div 2) \in Nat
    BY HalfSize DEF P
  <2>2. QED
    BY <1>1, <2>1
<1>5. b % W \in 0..W - 1
  BY <1>1, <1>2
<1>6. a * 2^(b % W) \in Int
  <2>1. 2^(b % W) \in Nat
    BY <1>5, ShiftSize
  <2>2. QED
    BY <1>1, <2>1
<1>7. \A ks : 2^W - 1 - FromBits(ks) \in Word /\ FromBits(ks) \in Word
  <2> SUFFICES ASSUME NEW ks PROVE 2^W - 1 - FromBits(ks) \in Word /\ FromBits(ks) \in Word
    OBVIOUS
  <2>1. FromBits(ks) \in 0..M - 1
    BY FromBitsTyped, Words
  <2>2. M - 1 - FromBits(ks) \in 0..M - 1
    BY <1>1, <2>1
  <2>3. QED
    BY <2>1, <2>2, Words DEF M
<1>8. 0 \in Word /\ 1 \in Word
  <2>1. 0 \in 0..M - 1 /\ 1 \in 0..M - 1
    BY <1>1
  <2>2. QED
    BY <2>1, Words
<1>9. /\ op \in {"add", "addu"} => Compute(op, a, b) = Wrap(a + b)
      /\ op \in {"sub", "subu"} => Compute(op, a, b) = Wrap(a - b)
      /\ op = "and" => Compute(op, a, b) = FromBits(Bits(a) \cap Bits(b))
      /\ op = "or" => Compute(op, a, b) = FromBits(Bits(a) \cup Bits(b))
      /\ op = "xor" => Compute(op, a, b) = FromBits((Bits(a) \cup Bits(b)) \ (Bits(a) \cap Bits(b)))
      /\ op = "nor" => Compute(op, a, b) = 2^W - 1 - FromBits(Bits(a) \cup Bits(b))
  BY DEF Compute
<1>10. /\ op = "lui" => Compute(op, a, b) = Wrap(b * 2^(W \div 2))
       /\ op = "sll" => Compute(op, a, b) = Wrap(a * 2^(b % W))
       /\ op = "slt" => Compute(op, a, b) \in {0, 1}
       /\ op = "sltu" => Compute(op, a, b) \in {0, 1}
       /\ op = "srl" => Compute(op, a, b) = Srl(a, b % W)
       /\ op = "sra" => Compute(op, a, b) = Sra(a, b % W)
  BY DEF Compute, Slt, Sltu
<1>11. CASE op \in {"add", "addu", "sub", "subu"}
  BY <1>3, <1>9, <1>11, WrapTyped
<1>12. CASE op \in {"and", "or", "xor", "nor"}
  BY <1>7, <1>9, <1>12
<1>13. CASE op \in {"lui", "sll"}
  BY <1>4, <1>6, <1>10, <1>13, WrapTyped
<1>14. CASE op \in {"slt", "sltu"}
  BY <1>8, <1>10, <1>14
<1>15. CASE op \in {"srl", "sra"}
  BY <1>5, <1>10, <1>15, ShiftsExact
<1>16. QED
  BY <1>11, <1>12, <1>13, <1>14, <1>15 DEF Computations

(* And so are hi and lo.                                                    *)
LEMMA ProductTyped ==
    ASSUME NEW op, NEW a \in Word, NEW b \in Word, NEW p \in Product(op, a, b)
    PROVE  p \in Word \X Word
<1>1. CASE op = "mult"
  BY <1>1, Mult64sExact DEF Product
<1>2. CASE op = "multu"
  BY <1>2, Mult64Exact DEF Product
<1>3. CASE op # "mult" /\ op # "multu"
  <2>1. p \in Quotients(op, a, b)
    BY <1>3 DEF Product
  <2>2. CASE b = 0 \/ (op = "div" /\ a = 2^(W - 1) /\ b = 2^W - 1)
    BY <2>1, <2>2 DEF Quotients
  <2>3. CASE ~(b = 0 \/ (op = "div" /\ a = 2^(W - 1) /\ b = 2^W - 1))
    <3>1. ASSUME NEW n \in Int, NEW d \in Int \ {0} PROVE Divided(n, d) \in Word \X Word
      <4>1. Divided(n, d) = <<Wrap(n - Quotient(n, d) * d), Wrap(Quotient(n, d))>>
        BY DEF Divided, Quotient, Magnitude
      <4>2. Quotient(n, d) \in Int /\ n - Quotient(n, d) * d \in Int
        BY QuotientExact
      <4>3. QED
        BY <4>1, <4>2, WrapTyped
    <3>2. Signed(a) \in Int /\ Signed(b) \in Int /\ a \in Int /\ b \in Int /\ b # 0
      BY <2>3, SignedRange, WordSize, Words
    <3>3. Signed(b) # 0
      <4>1. b \in 0..M - 1
        BY Words
      <4>2. QED
        BY <3>2, <4>1, Signs, WordSize
    <3>4. p = Divided(Signed(a), Signed(b)) \/ p = Divided(a, b)
      BY <2>1, <2>3 DEF Quotients
    <3>5. QED
      BY <3>1, <3>2, <3>3, <3>4
  <2>4. QED
    BY <2>2, <2>3
<1>4. QED
  BY <1>1, <1>2, <1>3

-----------------------------------------------------------------------------
(* Words as rows of bytes.                                                  *)
LEMMA ByteSize ==
    /\ Bytes(0) = 1 /\ Bytes(4) = M
    /\ \A j, k \in 0..4 : j + k <= 4 =>
          Bytes(j) \in Nat \ {0} /\ Bytes(j + k) = Bytes(j) * Bytes(k)
<1> DEFINE q == W \div 4
<1>1. W \in Nat \ {0} /\ q \in Nat \ {0} /\ W = q * 4
  BY ArithmeticAssumption, LoadStoreAssumption
<1> HIDE DEF q
<1>2. \A n \in 0..4 : Bytes(n) = 2^(n * q)
  BY DEF Bytes, q
<1>3. Bytes(0) = 1 /\ Bytes(4) = M
  <2>1. 0 * q = 0 /\ 4 * q = W
    BY <1>1
  <2>2. 2^0 = 1
    OBVIOUS
  <2>3. Bytes(0) = 2^(0 * q) /\ Bytes(4) = 2^(4 * q)
    BY <1>2
  <2>4. QED
    BY <2>1, <2>2, <2>3, Zenon DEF M
<1>4. ASSUME NEW j \in 0..4, NEW k \in 0..4, j + k <= 4
      PROVE  Bytes(j) \in Nat \ {0} /\ Bytes(j + k) = Bytes(j) * Bytes(k)
  <2>1. j * q \in 0..W /\ k * q \in 0..W /\ (j + k) * q = j * q + k * q /\ j + k \in 0..4
    BY <1>1, <1>4
  <2>2. 2^(j * q) \in Nat \ {0} /\ 2^(j * q + k * q) = 2^(j * q) * 2^(k * q)
    BY <2>1, PowerAssumption
  <2>3. QED
    BY <1>2, <2>1, <2>2
<1>5. QED
  BY <1>3, <1>4

LEMMA ByteTyped == \A j \in 0..4 : Bytes(j) \in Nat \ {0}
<1>1. \A j \in 0..4 : 0 \in 0..4 /\ j + 0 <= 4
  OBVIOUS
<1>2. QED
  BY <1>1, ByteSize

(* Two parts of a number, the upper one and the lower one.                  *)
LEMMA Join ==
    ASSUME NEW b \in Nat \ {0}, NEW hi \in Nat, NEW lo \in 0..b - 1
    PROVE  hi * b + lo \in Nat /\ (hi * b + lo) \div b = hi /\ (hi * b + lo) % b = lo
<1> DEFINE x == hi * b + lo
<1>1. hi * b \in Nat
  OBVIOUS
<1>2. x \in Nat /\ x - hi * b = lo
  BY <1>1
<1>3. x \div b = hi /\ x % b = x - hi * b
  <2> HIDE DEF x
  <2>1. x \in Int /\ hi \in Int /\ x - hi * b \in 0..b - 1
    BY <1>2
  <2>2. QED
    BY <2>1, QuotientUnique
<1>4. QED
  BY <1>2, <1>3

LEMMA Nested ==
    ASSUME NEW a \in Nat \ {0}, NEW b \in Nat \ {0}, NEW x \in Nat
    PROVE  /\ x \div (a * b) = (x \div a) \div b
           /\ x % (a * b) = ((x \div a) % b) * a + (x % a)
<1> DEFINE u == x \div a
           s == x % a
           q == u \div b
           t == u % b
           c == a * b
           d == t * a + s
<1>1. u \in Nat /\ s \in 0..a - 1 /\ x = a * u + s
  BY Digits
<1>2. q \in Nat /\ t \in 0..b - 1 /\ u = b * q + t
  <2>1. u \in Nat
    BY <1>1
  <2> HIDE DEF u
  <2>2. QED
    BY <2>1, Digits
<1>3. c \in Nat \ {0}
  OBVIOUS
<1>4. t * a \in Nat /\ t * a <= (b - 1) * a /\ (b - 1) * a = c - a
  <2> HIDE DEF t
  <2>1. QED
    BY <1>2
<1>5. d \in 0..c - 1
  <2> HIDE DEF t, s, c
  <2>1. (b - 1) * a \in Int
    OBVIOUS
  <2>2. QED
    BY <1>1, <1>3, <1>4, <2>1
<1>6. x = q * c + d
  <2>1. a * u = q * c + t * a
    <3> HIDE DEF u, q, t
    <3>1. QED
      BY <1>2
  <2> DEFINE v == a * u
             w == q * c
             y == t * a
  <2>2. v \in Int /\ w \in Int /\ y \in Int /\ s \in Int
    <3> HIDE DEF u, q, t, c, s
    <3>1. QED
      BY <1>1, <1>2, <1>3
  <2>3. x = v + s /\ v = w + y
    BY <1>1, <2>1
  <2> HIDE DEF v, w, y, s
  <2>4. x = w + (y + s)
    BY <2>2, <2>3
  <2>5. QED
    BY <2>4 DEF w, y
<1> HIDE DEF d, c, q
<1>7. x \div c = q /\ x % c = d
  BY <1>2, <1>3, <1>5, <1>6, Join
<1>8. QED
  BY <1>7 DEF c, q, d

(* A byte of a word, counted from the right.                                *)
Dig(x, i) == (x \div Bytes(i)) % Bytes(1)

(* The bytes of what is joined.                                             *)
LEMMA JoinBytes ==
    ASSUME NEW k \in 0..4, NEW hi \in Nat, NEW lo \in 0..Bytes(k) - 1, NEW i \in 0..3
    PROVE  Dig(hi * Bytes(k) + lo, i) = IF i < k THEN Dig(lo, i) ELSE Dig(hi, i - k)
<1> DEFINE b == Bytes(k)
           x == hi * b + lo
<1>1. b \in Nat \ {0} /\ Bytes(i) \in Nat \ {0} /\ Bytes(1) \in Nat \ {0}
  BY ByteTyped
<1>2. x \in Nat /\ x \div b = hi /\ x % b = lo
  <2>1. b \in Nat \ {0} /\ lo \in 0..b - 1
    BY <1>1
  <2> HIDE DEF b
  <2>2. QED
    BY <2>1, Join
<1>3. CASE i >= k
  <2>1. i - k \in 0..4 /\ k + (i - k) = i /\ k + (i - k) <= 4
    BY <1>3
  <2>2. Bytes(i) = b * Bytes(i - k) /\ Bytes(i - k) \in Nat \ {0}
    BY <2>1, ByteSize, ByteTyped
  <2>3. x \div Bytes(i) = (x \div b) \div Bytes(i - k)
    <3> DEFINE c == Bytes(i - k)
    <3>1. c \in Nat \ {0} /\ Bytes(i) = b * c
      BY <2>2
    <3> HIDE DEF x, b, c
    <3>2. x \div (b * c) = (x \div b) \div c
      BY <1>1, <1>2, <3>1, Nested
    <3>3. QED
      BY <3>1, <3>2 DEF c
  <2>4. Dig(x, i) = Dig(hi, i - k)
    BY <1>2, <2>3 DEF Dig
  <2>5. QED
    BY <1>3, <2>4
<1>4. CASE i < k
  <2> DEFINE j == k - i
             c == Bytes(i)
             r == k - (i + 1)
             e == lo \div c
             f == lo % c
  <2>1. j \in 0..4 /\ i + j = k /\ i + j <= 4 /\ r \in 0..4 /\ 1 + r = j /\ 1 + r <= 4 /\ 1 \in 0..4 /\ i \in 0..4
    BY <1>4
  <2>2. b = c * Bytes(j) /\ Bytes(j) = Bytes(1) * Bytes(r) /\ c \in Nat \ {0} /\ Bytes(j) \in Nat \ {0} /\ Bytes(r) \in Nat \ {0}
    BY <2>1, ByteSize, ByteTyped
  <2>3. lo \in Nat /\ e \in Nat /\ f \in 0..c - 1 /\ lo = c * e + f
    <3>1. lo \in Nat /\ c \in Nat \ {0}
      BY <1>1
    <3> HIDE DEF c
    <3>2. QED
      BY <3>1, Digits
  <2> DEFINE g == hi * Bytes(j) + e
  <2>4. hi * Bytes(j) \in Nat /\ g \in Nat /\ hi * Bytes(j) \in Int
    <3> DEFINE y == Bytes(j)
    <3>1. y \in Nat
      BY <2>2
    <3> HIDE DEF y, e
    <3>2. hi * y \in Nat /\ hi * y + e \in Nat
      BY <2>3, <3>1
    <3>3. QED
      BY <3>2 DEF y
  <2>5. x = g * c + f
    <3>1. hi * b = (hi * Bytes(j)) * c
      <4> DEFINE y == Bytes(j)
      <4>1. y \in Nat /\ b = c * y /\ c \in Nat /\ b \in Nat
        BY <1>1, <2>2
      <4> HIDE DEF y, c, b
      <4>2. hi * b = (hi * y) * c
        BY <4>1
      <4>3. QED
        BY <4>2 DEF y
    <3> DEFINE u == hi * b
               v == hi * Bytes(j)
    <3>2. u \in Int /\ v \in Int /\ u = v * c /\ x = u + lo /\ g = v + e
      BY <1>1, <2>4, <3>1
    <3> HIDE DEF u, v, x, g, c, e, f
    <3>3. x = (v + e) * c + f
      BY <2>2, <2>3, <3>2
    <3>4. QED
      BY <3>2, <3>3
  <2>6. x \div c = g
    <3>1. c \in Nat \ {0}
      BY <2>2
    <3> HIDE DEF x, g, c, f
    <3>2. QED
      BY <3>1, <2>3, <2>4, <2>5, Join
  <2>7. g % Bytes(1) = e % Bytes(1)
    <3> DEFINE B == Bytes(1)
               y == Bytes(r)
               m == e \div B
               n == e % B
               o == hi * y + m
    <3>1. B \in Nat \ {0} /\ y \in Nat \ {0} /\ Bytes(j) = B * y
      BY <1>1, <2>2
    <3>2. m \in Nat /\ n \in 0..B - 1 /\ e = B * m + n
      <4> HIDE DEF B, e
      <4>1. QED
        BY <2>3, <3>1, Digits
    <3>3. o \in Nat
      <4> HIDE DEF m, y
      <4>1. QED
        BY <3>1, <3>2
    <3>4. g = o * B + n
      <4>1. g = hi * (B * y) + e
        BY <3>1
      <4> HIDE DEF g, e, m, n, y, B
      <4>2. QED
        BY <3>1, <3>2, <4>1
    <3>5. g % B = n
      <4> HIDE DEF g, o, n, B
      <4>1. QED
        BY <3>1, <3>2, <3>3, <3>4, Join
    <3>6. QED
      BY <3>5
  <2>8. Dig(x, i) = Dig(lo, i)
    BY <2>6, <2>7 DEF Dig
  <2>9. QED
    BY <1>4, <2>8
<1>5. QED
  BY <1>3, <1>4

(* The parts of a word: the bytes from k on, and those below k.             *)
LEMMA PartBytes ==
    ASSUME NEW x \in Word, NEW k \in 0..4
    PROVE  /\ x \in Nat
           /\ x \div Bytes(k) \in 0..Bytes(4 - k) - 1
           /\ x % Bytes(k) \in 0..Bytes(k) - 1
           /\ x = (x \div Bytes(k)) * Bytes(k) + (x % Bytes(k))
           /\ \A i \in 0..3 : i < k => Dig(x % Bytes(k), i) = Dig(x, i)
           /\ \A i \in 0..3 : k + i < 4 => Dig(x \div Bytes(k), i) = Dig(x, k + i)
<1> DEFINE b == Bytes(k)
           hi == x \div b
           lo == x % b
<1>1. b \in Nat \ {0} /\ Bytes(4 - k) \in Nat \ {0} /\ M = b * Bytes(4 - k) /\ M \in Nat
  <2>1. 4 - k \in 0..4 /\ k + (4 - k) = 4 /\ k + (4 - k) <= 4
    OBVIOUS
  <2>2. QED
    BY <2>1, ByteSize, ByteTyped, WordSize
<1>2. x \in 0..M - 1
  BY Words
<1>3. hi \in Nat /\ lo \in 0..b - 1 /\ x = b * hi + lo
  <2>1. x \in Nat
    BY <1>1, <1>2
  <2> HIDE DEF b
  <2>2. QED
    BY <1>1, <2>1, Digits
<1>4. hi \in 0..Bytes(4 - k) - 1
  <2> DEFINE c == Bytes(4 - k)
  <2>1. b \in Nat \ {0} /\ c \in Nat /\ x \in 0..b * c - 1
    BY <1>1, <1>2
  <2> HIDE DEF b, c
  <2>2. x \div b \in 0..c - 1
    BY <2>1, DigitBound
  <2>3. QED
    BY <2>2 DEF c
<1>5. x = hi * b + lo
  <2> HIDE DEF b, hi, lo
  <2>1. b * hi = hi * b
    BY <1>1, <1>3
  <2>2. QED
    BY <1>3, <2>1
<1>6. ASSUME NEW i \in 0..3, i < k PROVE Dig(lo, i) = Dig(x, i)
  <2>1. Dig(hi * Bytes(k) + lo, i) = Dig(lo, i)
    <3>1. lo \in 0..Bytes(k) - 1 /\ hi \in Nat
      BY <1>3
    <3> HIDE DEF hi, lo
    <3>2. QED
      BY <1>6, <3>1, JoinBytes
  <2>2. QED
    BY <1>5, <2>1
<1>7. ASSUME NEW i \in 0..3, k + i < 4 PROVE Dig(hi, i) = Dig(x, k + i)
  <2>1. k + i \in 0..3 /\ ~(k + i < k) /\ (k + i) - k = i
    BY <1>7
  <2>2. Dig(hi * Bytes(k) + lo, k + i) = Dig(hi, i)
    <3>1. lo \in 0..Bytes(k) - 1 /\ hi \in Nat
      BY <1>3
    <3> HIDE DEF hi, lo
    <3>2. QED
      BY <2>1, <3>1, JoinBytes
  <2>3. QED
    BY <1>5, <2>2
<1>8. QED
  BY <1>2, <1>3, <1>4, <1>5, <1>6, <1>7

(* A word made of two parts.                                                *)
LEMMA Joined ==
    ASSUME NEW k \in 0..4, NEW hi \in 0..Bytes(4 - k) - 1, NEW lo \in 0..Bytes(k) - 1
    PROVE  hi * Bytes(k) + lo \in Word
<1> DEFINE b == Bytes(k)
           c == Bytes(4 - k)
<1>1. b \in Nat \ {0} /\ c \in Nat \ {0} /\ M = b * c
  <2>1. 4 - k \in 0..4 /\ k + (4 - k) = 4 /\ k + (4 - k) <= 4
    OBVIOUS
  <2>2. QED
    BY <2>1, ByteSize, ByteTyped
<1>2. hi \in 0..c - 1 /\ lo \in 0..b - 1
  OBVIOUS
<1> HIDE DEF b, c
<1>3. hi * b <= (c - 1) * b /\ (c - 1) * b = M - b /\ hi * b \in Nat /\ M \in Nat
  BY <1>1, <1>2
<1>4. hi * b + lo \in 0..M - 1
  BY <1>1, <1>2, <1>3
<1>5. QED
  BY <1>4, Words DEF b

(* What lwl and swr make of two words, and what lwr and swl make of them.   *)
LEMMA LowJoin ==
    ASSUME NEW x \in Word, NEW y \in Word, NEW k \in 0..3
    PROVE  /\ Wrap(x * Bytes(k)) + (y % Bytes(k)) \in Word
           /\ \A i \in 0..3 : Dig(Wrap(x * Bytes(k)) + (y % Bytes(k)), i) =
                                 IF i < k THEN Dig(y, i) ELSE Dig(x, i - k)
<1> DEFINE b == Bytes(k)
           c == Bytes(4 - k)
           u == x \div c
           hi == x % c
           lo == y % b
<1>1. k \in 0..4 /\ 4 - k \in 0..4 /\ 4 - (4 - k) = k /\ (4 - k) + k = 4 /\ (4 - k) + k <= 4
  OBVIOUS
<1>2. b \in Nat \ {0} /\ c \in Nat \ {0} /\ M = c * b /\ M \in Nat \ {0}
  BY <1>1, ByteSize, ByteTyped, WordSize
<1>3. /\ lo \in 0..b - 1 /\ \A i \in 0..3 : i < k => Dig(lo, i) = Dig(y, i)
  BY <1>1, PartBytes
<1>4. /\ x \in Nat /\ u \in 0..b - 1 /\ hi \in 0..c - 1 /\ x = u * c + hi
      /\ \A i \in 0..3 : i < 4 - k => Dig(hi, i) = Dig(x, i)
  BY <1>1, PartBytes
<1>5. Wrap(x * b) = hi * b
  <2> HIDE DEF b, c, u, hi, lo
  <2>1. x * b \in Nat /\ hi * b \in Nat /\ u * M \in Nat
    BY <1>2, <1>4
  <2>2. x * b = u * M + hi * b
    <3>1. (u * c) * b = u * M
      BY <1>2, <1>4
    <3>2. x * b = (u * c) * b + hi * b
      BY <1>2, <1>4
    <3>3. QED
      BY <3>1, <3>2
  <2>3. hi * b \in 0..M - 1
    <3>1. hi * b <= (c - 1) * b /\ (c - 1) * b = M - b
      BY <1>2, <1>4
    <3>2. QED
      BY <1>2, <2>1, <3>1
  <2> DEFINE v == x * b
             w == hi * b
  <2>4. v \in Nat /\ w \in 0..M - 1 /\ v = u * M + w
    BY <2>1, <2>2, <2>3
  <2> HIDE DEF v, w
  <2>5. v % M = w
    <3>1. M \in Nat \ {0} /\ u \in Nat /\ w \in 0..M - 1
      BY <1>2, <1>4, <2>4
    <3>2. (u * M + w) % M = w
      BY <3>1, Join
    <3>3. QED
      BY <2>4, <3>2
  <2>6. Wrap(v) = w
    BY <2>4, <2>5, Words
  <2>7. QED
    BY <2>6 DEF v, w
<1>6. hi * b + lo \in Word
  <2> HIDE DEF hi, lo
  <2>1. QED
    BY <1>1, <1>3, <1>4, Joined
<1>7. ASSUME NEW i \in 0..3 PROVE Dig(hi * b + lo, i) = IF i < k THEN Dig(y, i) ELSE Dig(x, i - k)
  <2>1. hi \in Nat /\ lo \in 0..Bytes(k) - 1
    BY <1>2, <1>3, <1>4
  <2>2. Dig(hi * Bytes(k) + lo, i) = IF i < k THEN Dig(lo, i) ELSE Dig(hi, i - k)
    <3> HIDE DEF hi, lo
    <3>1. QED
      BY <1>1, <2>1, JoinBytes
  <2>3. CASE i < k
    BY <1>3, <2>2, <2>3
  <2>4. CASE i >= k
    <3>1. i - k \in 0..3 /\ i - k < 4 - k /\ ~(i < k)
      BY <2>4
    <3>2. Dig(hi, i - k) = Dig(x, i - k)
      BY <1>4, <3>1
    <3>3. QED
      BY <2>2, <3>1, <3>2
  <2>5. QED
    BY <2>3, <2>4
<1>8. QED
  BY <1>5, <1>6, <1>7

LEMMA HighJoin ==
    ASSUME NEW x \in Word, NEW y \in Word, NEW k \in 0..3
    PROVE  /\ Upper(x, k) + (y \div Bytes(k)) \in Word
           /\ \A i \in 0..3 : Dig(Upper(x, k) + (y \div Bytes(k)), i) =
                                 IF k + i < 4 THEN Dig(y, k + i) ELSE Dig(x, i)
<1> DEFINE b == Bytes(4 - k)
           hi == x \div b
           lo == y \div Bytes(k)
<1>1. k \in 0..4 /\ 4 - k \in 0..4 /\ 4 - (4 - k) = k
  OBVIOUS
<1>2. b \in Nat \ {0} /\ Bytes(k) \in Nat \ {0}
  BY <1>1, ByteTyped
<1>3. lo \in 0..b - 1 /\ \A i \in 0..3 : k + i < 4 => Dig(lo, i) = Dig(y, k + i)
  BY <1>1, PartBytes
<1>4. /\ hi \in 0..Bytes(k) - 1 /\ x = hi * b + (x % b) /\ x % b \in 0..b - 1
      /\ \A i \in 0..3 : (4 - k) + i < 4 => Dig(hi, i) = Dig(x, (4 - k) + i)
  BY <1>1, PartBytes
<1>5. Upper(x, k) = hi * b
  <2> DEFINE v == hi * b
             r == x % b
  <2>1. v \in Int /\ r \in Int /\ x = v + r /\ Upper(x, k) = x - r
    <3>1. hi \in Int /\ b \in Int /\ r \in Int
      BY <1>2, <1>4
    <3>2. v \in Int
      <4> HIDE DEF hi, b
      <4>1. QED
        BY <3>1
    <3>3. QED
      BY <1>4, <3>1, <3>2 DEF Upper
  <2> HIDE DEF v, r
  <2>2. Upper(x, k) = v
    BY <2>1
  <2>3. QED
    BY <2>2 DEF v
<1>6. hi * b + lo \in Word
  <2>1. hi \in 0..Bytes(4 - (4 - k)) - 1 /\ lo \in 0..Bytes(4 - k) - 1
    BY <1>1, <1>3, <1>4
  <2> HIDE DEF hi, lo
  <2>2. QED
    BY <1>1, <2>1, Joined
<1>7. ASSUME NEW i \in 0..3 PROVE Dig(hi * b + lo, i) = IF k + i < 4 THEN Dig(y, k + i) ELSE Dig(x, i)
  <2>1. hi \in Nat /\ lo \in 0..Bytes(4 - k) - 1
    BY <1>2, <1>3, <1>4
  <2>2. Dig(hi * Bytes(4 - k) + lo, i) = IF i < 4 - k THEN Dig(lo, i) ELSE Dig(hi, i - (4 - k))
    <3> HIDE DEF hi, lo
    <3>1. QED
      BY <1>1, <2>1, JoinBytes
  <2>3. CASE k + i < 4
    BY <1>3, <2>2, <2>3
  <2>4. CASE k + i >= 4
    <3> DEFINE n == i - (4 - k)
    <3>1. n \in 0..3 /\ (4 - k) + n < 4 /\ (4 - k) + n = i /\ ~(i < 4 - k) /\ ~(k + i < 4)
      BY <2>4
    <3>2. Dig(hi, n) = Dig(x, (4 - k) + n)
      <4> HIDE DEF n
      <4>1. QED
        BY <1>4, <3>1
    <3>3. QED
      BY <2>2, <3>1, <3>2
  <2>5. QED
    BY <2>3, <2>4
<1>8. QED
  BY <1>5, <1>6, <1>7

(* The part of a word that an access takes, and what a store leaves.        *)
LEMMA RightOf ==
    ASSUME NEW va \in Int, NEW n \in {1, 2, 4}, va % n = 0
    PROVE  Right(va, n) \in 0..4 - n
<1>1. va % 4 \in 0..3
  OBVIOUS
<1>2. n = 1 \/ (n = 2 /\ va % 4 \in {0, 2}) \/ (n = 4 /\ va % 4 = 0)
  OBVIOUS
<1>3. QED
  BY <1>1, <1>2 DEF Right

LEMMA PartExact ==
    ASSUME NEW x \in Word, NEW r \in 0..4, NEW n \in 0..4, r + n <= 4
    PROVE  /\ (x \div Bytes(r)) % Bytes(n) \in 0..Bytes(n) - 1
           /\ \A i \in 0..3 : i < n => Dig((x \div Bytes(r)) % Bytes(n), i) = Dig(x, r + i)
<1> DEFINE u == x \div Bytes(r)
<1>1. /\ u \in 0..Bytes(4 - r) - 1
      /\ \A i \in 0..3 : r + i < 4 => Dig(u, i) = Dig(x, r + i)
  BY PartBytes
<1>2. u \in Word
  <2>1. 4 - r \in 0..4 /\ r + (4 - r) = 4 /\ r + (4 - r) <= 4
    OBVIOUS
  <2> DEFINE b == Bytes(r)
             c == Bytes(4 - r)
  <2>2. b \in Nat \ {0} /\ c \in Nat \ {0} /\ M = b * c
    BY <2>1, ByteSize, ByteTyped
  <2>3. c <= M /\ M \in Nat
    <3> HIDE DEF b, c
    <3>1. QED
      BY <2>2
  <2>4. u \in 0..c - 1
    BY <1>1
  <2> HIDE DEF u, c
  <2>5. u \in 0..M - 1
    BY <2>2, <2>3, <2>4
  <2>6. QED
    BY <2>5, Words
<1> HIDE DEF u
<1>3. /\ u % Bytes(n) \in 0..Bytes(n) - 1
      /\ \A i \in 0..3 : i < n => Dig(u % Bytes(n), i) = Dig(u, i)
  BY <1>2, PartBytes
<1>4. \A i \in 0..3 : i < n => Dig(u % Bytes(n), i) = Dig(x, r + i)
  <2> SUFFICES ASSUME NEW i \in 0..3, i < n PROVE Dig(u % Bytes(n), i) = Dig(x, r + i)
    OBVIOUS
  <2>1. r + i < 4
    OBVIOUS
  <2>2. QED
    BY <1>1, <1>3, <2>1
<1>5. QED
  BY <1>3, <1>4 DEF u

(* A store of n bytes leaves the others as they were.                       *)
LEMMA ReplacedExact ==
    ASSUME NEW x \in Word, NEW v \in Word, NEW va \in Int, NEW n \in {1, 2, 4}, va % n = 0
    PROVE  /\ Replaced(x, va, n, v) \in Word
           /\ \A i \in 0..3 : Dig(Replaced(x, va, n, v), i) =
                 IF Right(va, n) <= i /\ i < Right(va, n) + n THEN Dig(v, i - Right(va, n)) ELSE Dig(x, i)
<1> DEFINE r == Right(va, n)
           s == 4 - (r + n)
           b == Bytes(r)
           c == Bytes(n)
           d == Bytes(r + n)
           u == x \div b
           lo == x % b
           top == x \div d
           part == u % c
           low == v % c
           mid == top * c + low
<1>1. /\ n \in 0..4 /\ r \in 0..4 /\ r + n \in 0..4 /\ r + n <= 4 /\ s \in 0..4
      /\ 4 - r \in 0..4 /\ s + n = 4 - r /\ s + n <= 4 /\ 4 - (r + n) = s
  BY RightOf
<1> HIDE DEF r, s
<1>2. /\ b \in Nat \ {0} /\ c \in Nat \ {0} /\ d \in Nat \ {0} /\ d = b * c
      /\ Bytes(s) \in Nat \ {0} /\ Bytes(4 - r) = Bytes(s) * c
  <2>1. Bytes(r + n) = Bytes(r) * Bytes(n) /\ Bytes(s + n) = Bytes(s) * Bytes(n)
    BY <1>1, ByteSize
  <2>2. Bytes(r) \in Nat \ {0} /\ Bytes(n) \in Nat \ {0} /\ Bytes(r + n) \in Nat \ {0} /\ Bytes(s) \in Nat \ {0}
    BY <1>1, ByteTyped
  <2>3. QED
    BY <1>1, <2>1, <2>2
<1>3. x \in Nat /\ u \in Nat /\ lo \in 0..b - 1 /\ x = u * b + lo /\ \A i \in 0..3 : i < r => Dig(lo, i) = Dig(x, i)
  <2>1. u \in 0..Bytes(4 - r) - 1
    BY <1>1, PartBytes
  <2>2. u \in Nat
    <3>1. Bytes(4 - r) \in Int
      BY <1>1, ByteTyped
    <3> HIDE DEF u
    <3>2. QED
      BY <2>1, <3>1
  <2>3. QED
    BY <1>1, <2>2, PartBytes
<1>4. top \in 0..Bytes(s) - 1 /\ \A i \in 0..3 : (r + n) + i < 4 => Dig(top, i) = Dig(x, (r + n) + i)
  BY <1>1, PartBytes
<1>5. low \in 0..c - 1 /\ \A i \in 0..3 : i < n => Dig(low, i) = Dig(v, i)
  BY <1>1, PartBytes
<1>6. u \div c = top /\ part \in 0..c - 1 /\ u = top * c + part
  <2>1. u \div c = top
    <3> HIDE DEF b, c, d
    <3>1. b \in Nat \ {0} /\ c \in Nat \ {0} /\ x \in Nat
      BY <1>2, <1>3
    <3>2. x \div (b * c) = (x \div b) \div c
      BY <3>1, Nested
    <3>3. QED
      BY <1>2, <3>2
  <2>2. part \in 0..c - 1 /\ u = c * (u \div c) + part
    <3> HIDE DEF u, c
    <3>1. QED
      BY <1>2, <1>3, Digits
  <2>3. c * top = top * c
    <3> HIDE DEF c, top
    <3>1. top \in Int /\ c \in Int
      BY <1>2, <1>4
    <3>2. QED
      BY <3>1
  <2>4. QED
    BY <2>1, <2>2, <2>3
<1>7. mid \in Nat /\ mid <= Bytes(4 - r) - 1
  <2> DEFINE e == Bytes(s)
             f == Bytes(4 - r)
  <2>1. top \in 0..e - 1 /\ low \in 0..c - 1 /\ f = e * c /\ e \in Nat \ {0} /\ c \in Nat \ {0}
    BY <1>2, <1>4, <1>5
  <2> HIDE DEF e, f, top, low, c
  <2>2. top * c <= (e - 1) * c /\ (e - 1) * c = f - c /\ top * c \in Nat /\ f \in Int
    BY <2>1
  <2>3. top * c + low \in Nat /\ top * c + low <= f - 1
    BY <2>1, <2>2
  <2>4. QED
    BY <2>3 DEF f
<1>8. Replaced(x, va, n, v) = mid * b + lo
  <2>1. Replaced(x, va, n, v) = x + (low - part) * b
    BY DEF Replaced, Part, r
  <2>2. mid - u = low - part
    <3> DEFINE t == top * c
    <3>1. t \in Int
      <4>1. top \in Int /\ c \in Int
        <5> HIDE DEF top, c
        <5>1. QED
          BY <1>2, <1>4
      <4> HIDE DEF top, c
      <4>2. QED
        BY <4>1
    <3>2. u = t + part /\ mid = t + low /\ low \in Int /\ part \in Int
      BY <1>5, <1>6
    <3> HIDE DEF t, u, mid, low, part
    <3>3. QED
      BY <3>1, <3>2
  <2> HIDE DEF mid, u, low, part, lo, b
  <2>3. x + (mid - u) * b = mid * b + lo
    <3>1. mid \in Int /\ u \in Int /\ b \in Int /\ lo \in Int /\ x = u * b + lo
      BY <1>2, <1>3, <1>7
    <3>2. (mid - u) * b = mid * b - u * b
      BY <3>1
    <3> DEFINE p == mid * b
               q == u * b
    <3>3. p \in Int /\ q \in Int /\ x = q + lo
      BY <3>1
    <3> HIDE DEF p, q
    <3>4. x + (p - q) = p + lo
      BY <3>1, <3>3
    <3>5. QED
      BY <3>2, <3>4 DEF p, q
  <2>4. QED
    BY <2>1, <2>2, <2>3
<1>9. mid * b + lo \in Word
  <2> DEFINE f == Bytes(4 - r)
  <2>1. mid \in 0..f - 1
    <3>1. f \in Nat
      BY <1>1, ByteTyped
    <3> HIDE DEF mid, f
    <3>2. mid <= f - 1
      BY <1>7 DEF f
    <3>3. QED
      BY <1>7, <3>1, <3>2
  <2> HIDE DEF mid, lo
  <2>2. QED
    BY <1>1, <1>3, <2>1, Joined
<1>10. ASSUME NEW i \in 0..3
       PROVE  Dig(mid * b + lo, i) = IF r <= i /\ i < r + n THEN Dig(v, i - r) ELSE Dig(x, i)
  <2>1. Dig(mid * b + lo, i) = IF i < r THEN Dig(lo, i) ELSE Dig(mid, i - r)
    <3> HIDE DEF mid, lo
    <3>1. QED
      BY <1>1, <1>3, <1>7, JoinBytes
  <2>2. CASE i < r
    BY <1>1, <1>3, <2>1, <2>2
  <2>3. CASE i >= r
    <3> DEFINE j == i - r
    <3>1. j \in 0..3 /\ r + j = i /\ ~(i < r)
      BY <1>1, <2>3
    <3>2. Dig(mid, j) = IF j < n THEN Dig(low, j) ELSE Dig(top, j - n)
      <4>1. top \in Nat /\ low \in 0..Bytes(n) - 1
        <5> HIDE DEF top
        <5>1. QED
          BY <1>2, <1>4, <1>5
      <4> HIDE DEF top, low, j
      <4>2. QED
        BY <1>1, <3>1, <4>1, JoinBytes
    <3>3. CASE j < n
      BY <1>1, <1>5, <2>1, <3>1, <3>2, <3>3
    <3>4. CASE j >= n
      <4>1. j - n \in 0..3 /\ (r + n) + (j - n) = i /\ (r + n) + (j - n) < 4 /\ ~(i < r + n) /\ ~(j < n)
        BY <1>1, <3>1, <3>4
      <4>2. Dig(top, j - n) = Dig(x, i)
        BY <1>4, <4>1
      <4>3. QED
        BY <2>1, <3>1, <3>2, <4>1, <4>2
    <3>5. QED
      BY <1>1, <3>1, <3>3, <3>4
  <2>4. QED
    BY <1>1, <2>2, <2>3
<1>11. QED
  BY <1>8, <1>9, <1>10 DEF r

(* A part of a word with its sign.                                          *)
LEMMA ByteEven == Bytes(1) % 2 = 0 /\ Bytes(2) % 2 = 0
<1> DEFINE q == W \div 4
           h == 2^(q - 1)
<1>1. q \in Nat \ {0} /\ W = q * 4
  BY ArithmeticAssumption, LoadStoreAssumption
<1>2. q - 1 \in 0..W /\ 1 \in 0..W /\ (q - 1) + 1 = q /\ 1 * q = q
  <2> HIDE DEF q
  <2>1. QED
    BY <1>1
<1>3. h \in Nat /\ 2^q = h * 2^1
  <2>1. 2^((q - 1) + 1) = 2^(q - 1) * 2^1 /\ 2^(q - 1) \in Nat
    <3> HIDE DEF q
    <3>1. QED
      BY <1>2, PowerAssumption
  <2>2. QED
    BY <1>2, <2>1
<1>4. 2^1 = 2
  OBVIOUS
<1>5. Bytes(1) = h * 2 /\ Bytes(1) \in Nat
  <2>1. Bytes(1) = 2^(1 * q)
    BY DEF Bytes
  <2>2. Bytes(1) = 2^q
    BY <1>2, <2>1, Zenon
  <2> HIDE DEF h, q
  <2>3. QED
    BY <1>3, <1>4, <2>2
<1>6. Bytes(2) = Bytes(1) * Bytes(1)
  <2>1. 1 \in 0..4 /\ 1 + 1 <= 4 /\ 1 + 1 = 2
    OBVIOUS
  <2>2. Bytes(1 + 1) = Bytes(1) * Bytes(1)
    BY <2>1, ByteSize
  <2>3. QED
    BY <2>1, <2>2
<1> DEFINE B == Bytes(1)
<1> HIDE DEF h, B
<1>7. B = h * 2 /\ B \in Nat /\ h \in Nat
  BY <1>3, <1>5 DEF B
<1>8. B % 2 = 0
  BY <1>7
<1>9. B * B = (h * B) * 2 /\ h * B \in Nat
  BY <1>7
<1>10. (B * B) % 2 = 0
  <2> DEFINE y == h * B
             z == B * B
  <2>1. y \in Nat /\ z = y * 2
    BY <1>9
  <2> HIDE DEF y, z
  <2>2. z % 2 = 0
    BY <2>1
  <2>3. QED
    BY <2>2 DEF z
<1>11. QED
  BY <1>6, <1>8, <1>10 DEF B

LEMMA SignExact ==
    ASSUME NEW n \in {1, 2}, NEW part \in 0..Bytes(n) - 1
    PROVE  /\ SignExtended(part, n) \in Word
           /\ SignExtended(part, n) % Bytes(n) = part
           /\ Signed(SignExtended(part, n)) \in -(Bytes(n) \div 2)..(Bytes(n) \div 2) - 1
<1> DEFINE b == Bytes(n)
           h == b \div 2
           c == Bytes(4 - n)
<1>1. b \in Nat \ {0} /\ b % 2 = 0 /\ c \in Nat \ {0} /\ M = b * c /\ c % 2 = 0
  <2>1. n \in 0..4 /\ 4 - n \in 0..4 /\ n + (4 - n) = 4 /\ n + (4 - n) <= 4
    OBVIOUS
  <2>2. b \in Nat \ {0} /\ c \in Nat \ {0} /\ M = b * c /\ b % 2 = 0
    BY <2>1, ByteSize, ByteTyped, ByteEven
  <2>3. c % 2 = 0
    <3>1. n = 1 => 4 - n = 3 /\ 1 + 2 = 3
      OBVIOUS
    <3>2. Bytes(1 + 2) = Bytes(1) * Bytes(2) /\ Bytes(1) \in Nat /\ Bytes(2) \in Nat
      <4>1. 1 \in 0..4 /\ 2 \in 0..4 /\ 1 + 2 <= 4
        OBVIOUS
      <4>2. QED
        BY <4>1, ByteSize, ByteTyped
    <3>3. (Bytes(1) * Bytes(2)) % 2 = 0
      <4> DEFINE u == Bytes(1)
                 v == Bytes(2)
                 w == v \div 2
                 y == u * w
                 z == u * v
      <4>1. u \in Nat /\ v \in Nat /\ w \in Nat /\ v = 2 * w
        BY <3>2, ByteEven
      <4> HIDE DEF u, v, w
      <4>2. y \in Nat /\ z = 2 * y
        BY <4>1
      <4> HIDE DEF y, z
      <4>3. z % 2 = 0
        BY <4>2
      <4>4. QED
        BY <4>3 DEF z, u, v
    <3>4. QED
      BY <3>1, <3>2, <3>3, ByteEven
  <2>4. QED
    BY <2>2, <2>3
<1>2. h \in Nat /\ b = 2 * h
  <2> HIDE DEF b
  <2>1. QED
    BY <1>1
<1>3. b <= M /\ M = 2 * H /\ H \in Nat \ {0} /\ M \in Nat \ {0}
  <2>1. b <= M
    <3> HIDE DEF b, c
    <3>1. QED
      BY <1>1
  <2>2. QED
    BY <2>1, WordSize
<1>4. part \in 0..b - 1
  OBVIOUS
<1> HIDE DEF h, b
<1>5. CASE 2 * part < b
  <2>1. SignExtended(part, n) = part
    BY <1>5 DEF SignExtended, b
  <2>2. part \in -H..H - 1 /\ part \in 0..M - 1 /\ part \in -h..h - 1 /\ ~(part >= H) /\ part \in Int
    BY <1>2, <1>3, <1>4, <1>5
  <2>3. part % b = part
    BY <1>1, <1>4, Digit
  <2>4. Signed(part) = part
    BY <2>2, Signs
  <2>5. part \in Word
    BY <2>2, Words
  <2>6. QED
    BY <2>1, <2>2, <2>3, <2>4, <2>5 DEF b, h
<1>6. CASE ~(2 * part < b)
  <2> DEFINE x == part - b
  <2>1. SignExtended(part, n) = Wrap(x)
    BY <1>6 DEF SignExtended, b
  <2>2. x \in -H..H - 1 /\ x \in -h..h - 1 /\ x < 0 /\ x \in -M..2 * M - 1 /\ x + b = part
    BY <1>2, <1>3, <1>4, <1>6
  <2>3. Signed(Wrap(x)) = x /\ Wrap(x) \in Word
    <3> HIDE DEF x
    <3>1. QED
      BY <2>2, SignedWrap
  <2>4. Wrap(x) = x + M
    <3> HIDE DEF x
    <3>1. QED
      BY <2>2, WrapNear
  <2>5. Wrap(x) % b = part
    <3>1. x + M = (c - 1) * b + part
      <4>1. (c - 1) * b = M - b /\ c - 1 \in Nat
        <5> HIDE DEF c
        <5>1. QED
          BY <1>1
      <4> DEFINE y == (c - 1) * b
      <4>2. y = M - b
        BY <4>1
      <4> HIDE DEF y, c
      <4>3. b \in Int /\ M \in Int /\ part \in Int
        BY <1>1, <1>3, <1>4
      <4>4. x + M = y + part
        BY <4>2, <4>3
      <4>5. QED
        BY <4>4 DEF y
    <3> DEFINE e == c - 1
    <3>2. e \in Nat /\ x + M = e * b + part
      BY <1>1, <3>1
    <3> HIDE DEF e, x
    <3>3. (e * b + part) % b = part
      BY <1>1, <1>4, <3>2, Join
    <3>4. QED
      BY <2>4, <3>2, <3>3
  <2> HIDE DEF x
  <2>6. QED
    BY <2>1, <2>2, <2>3, <2>5 DEF b, h
<1>7. QED
  BY <1>5, <1>6

-----------------------------------------------------------------------------
(* What loads and stores make of any words is a word.                       *)
LEMMA Shifts ==
    ASSUME NEW va \in Int
    PROVE  LeftShift(va) \in 0..3 /\ RightShift(va) \in 0..3
<1>1. va % 4 \in 0..3
  OBVIOUS
<1>2. QED
  BY <1>1 DEF LeftShift, RightShift

LEMMA WholePart ==
    ASSUME NEW x \in Word, NEW va \in Int, NEW n \in {1, 2, 4}, va % n = 0
    PROVE  /\ Part(x, va, n) \in Word
           /\ n \in {1, 2} => Part(x, va, n) \in 0..Bytes(n) - 1
           /\ Part(x, va, n) \in 0..Bytes(n) - 1
           /\ \A i \in 0..3 : i < n => Dig(Part(x, va, n), i) = Dig(x, Right(va, n) + i)
<1> DEFINE r == Right(va, n)
           b == Bytes(n)
           c == Bytes(4 - n)
<1>1. r \in 0..4 /\ n \in 0..4 /\ r + n <= 4 /\ 4 - n \in 0..4 /\ n + (4 - n) = 4 /\ n + (4 - n) <= 4
  BY RightOf
<1> HIDE DEF r
<1>2. Part(x, va, n) \in 0..b - 1 /\ \A i \in 0..3 : i < n => Dig(Part(x, va, n), i) = Dig(x, r + i)
  BY <1>1, PartExact DEF Part, r
<1>3. b \in Nat \ {0} /\ c \in Nat \ {0} /\ M = b * c
  <2>1. Bytes(n + (4 - n)) = Bytes(n) * Bytes(4 - n) /\ Bytes(4) = M
    BY <1>1, ByteSize
  <2>2. Bytes(n) \in Nat \ {0} /\ Bytes(4 - n) \in Nat \ {0}
    BY <1>1, ByteTyped
  <2>3. QED
    BY <1>1, <2>1, <2>2
<1>4. b <= M /\ M \in Nat
  <2> HIDE DEF b, c
  <2>1. QED
    BY <1>3
<1>5. Part(x, va, n) \in 0..M - 1
  <2> HIDE DEF b
  <2>1. QED
    BY <1>2, <1>3, <1>4
<1>6. QED
  BY <1>2, <1>5, Words DEF r

(* The multiple of its width at which an aligned access takes place.        *)
LEMMA Widths ==
    /\ \A op \in Loads \cup Stores : Width(op) \in {1, 2, 4}
    /\ \A op \in {"lb", "lbu", "sb"} : Width(op) = 1
    /\ \A op \in {"lh", "lhu", "sh"} : Width(op) = 2
    /\ \A op \in {"lw", "sw"} : Width(op) = 4
<1>1. \A op \in {"lb", "lbu", "sb"} : Width(op) = 1
  BY DEF Width
<1>2. \A op \in {"lh", "lhu", "sh"} : Width(op) = 2
  BY DEF Width
<1>3. \A op \in {"lw", "sw", "lwl", "lwr", "swl", "swr"} : Width(op) = 4
  BY DEF Width
<1>4. QED
  BY <1>1, <1>2, <1>3 DEF Loads, Stores

LEMMA LoadedTyped ==
    ASSUME NEW op \in Loads, NEW reg \in Word, NEW x \in Word, NEW va \in Int,
           Accessed(op, va) % Width(op) = 0
    PROVE  Loaded(op, reg, x, va) \in Word
<1>1. CASE op \in {"lw", "lbu", "lhu", "lb", "lh"}
  <2> DEFINE n == Width(op)
  <2>1. Accessed(op, va) = va /\ n \in {1, 2, 4}
    BY <1>1, Widths DEF Accessed, Unaligned
  <2>2. va % n = 0
    BY <2>1
  <2> HIDE DEF n
  <2>3. Part(x, va, n) \in Word /\ Part(x, va, n) \in 0..Bytes(n) - 1
    BY <2>1, <2>2, WholePart
  <2>4. CASE op \in {"lw", "lbu", "lhu"}
    <3>1. Loaded(op, reg, x, va) = Part(x, va, n)
      BY <2>4 DEF Loaded, n
    <3>2. QED
      BY <2>3, <3>1
  <2>5. CASE op \in {"lb", "lh"}
    <3>1. Loaded(op, reg, x, va) = SignExtended(Part(x, va, n), n)
      BY <2>5 DEF Loaded, n
    <3>2. n \in {1, 2}
      BY <2>5, Widths DEF n
    <3>3. QED
      BY <2>3, <3>1, <3>2, SignExact
  <2>6. QED
    BY <1>1, <2>4, <2>5
<1>2. CASE op = "lwl"
  <2>1. Loaded(op, reg, x, va) = Lwl(reg, x, va)
    BY <1>2 DEF Loaded
  <2>2. QED
    BY <2>1, Shifts, LowJoin DEF Lwl
<1>3. CASE op = "lwr"
  <2>1. Loaded(op, reg, x, va) = Lwr(reg, x, va)
    BY <1>3 DEF Loaded
  <2>2. QED
    BY <2>1, Shifts, HighJoin DEF Lwr
<1>4. QED
  BY <1>1, <1>2, <1>3 DEF Loads

LEMMA StoredTyped ==
    ASSUME NEW op \in Stores, NEW reg \in Word, NEW x \in Word, NEW va \in Int,
           Accessed(op, va) % Width(op) = 0
    PROVE  Stored(op, reg, x, va) \in Word
<1>1. CASE op \in {"sw", "sb", "sh"}
  <2> DEFINE n == Width(op)
  <2>1. Accessed(op, va) = va /\ n \in {1, 2, 4}
    BY <1>1, Widths DEF Accessed, Unaligned
  <2>2. va % n = 0
    BY <2>1
  <2>3. Stored(op, reg, x, va) = Replaced(x, va, n, reg)
    BY <1>1 DEF Stored
  <2> HIDE DEF n
  <2>4. QED
    BY <2>1, <2>2, <2>3, ReplacedExact
<1>2. CASE op = "swl"
  <2>1. Stored(op, reg, x, va) = Swl(reg, x, va)
    BY <1>2 DEF Stored
  <2>2. QED
    BY <2>1, Shifts, HighJoin DEF Swl
<1>3. CASE op = "swr"
  <2>1. Stored(op, reg, x, va) = Swr(reg, x, va)
    BY <1>3 DEF Stored
  <2>2. QED
    BY <2>1, Shifts, LowJoin DEF Swr
<1>4. QED
  BY <1>1, <1>2, <1>3 DEF Stores

-----------------------------------------------------------------------------
(* Bytes by address.  Place is that of a byte in its word.                  *)
Place(b) == IF BigEndian THEN 3 - (b % 4) ELSE b % 4
Ordinal(n, k) == IF BigEndian THEN n - 1 - k ELSE k

LEMMA BytesByPlace ==
    /\ \A m, b : b \in Int /\ m[Base(b)] \in Word => ByteAt(m, b) = Dig(m[Base(b)], Place(b))
    /\ \A v, n, k : ByteOf(v, n, k) = Dig(v, Ordinal(n, k))
<1>1. ASSUME NEW m, NEW b, b \in Int, m[Base(b)] \in Word
      PROVE  ByteAt(m, b) = Dig(m[Base(b)], Place(b))
  <2>1. Right(b, 1) = Place(b)
    BY <1>1 DEF Right, Place
  <2>2. QED
    BY <2>1 DEF ByteAt, Part, Dig
<1>2. \A v, n, k : ByteOf(v, n, k) = Dig(v, Ordinal(n, k))
  BY DEF ByteOf, Dig, Ordinal
<1>3. QED
  BY <1>1, <1>2

LEMMA Bases ==
    /\ \A b \in 0..7 : Base(b) = (IF b < 4 THEN 0 ELSE 4) /\ b % 4 = (IF b < 4 THEN b ELSE b - 4)
    /\ \A b \in 0..7 : Place(b) \in 0..3
<1>1. \A b \in 0..7 : b % 4 = (IF b < 4 THEN b ELSE b - 4)
  OBVIOUS
<1>2. \A b \in 0..7 : Base(b) = (IF b < 4 THEN 0 ELSE 4)
  BY <1>1 DEF Base
<1>3. \A b \in 0..7 : Place(b) \in 0..3
  BY <1>1 DEF Place
<1>4. QED
  BY <1>1, <1>2, <1>3

(* An aligned store.                                                        *)
LEMMA StoresMove ==
    ASSUME NEW m \in [{0, 4} -> Word], NEW reg \in Word, NEW op \in {"sb", "sh", "sw"},
           NEW p \in 0..3, p % Width(op) = 0, NEW b \in 0..7
    PROVE  ByteAt(PutAt(m, op, reg, p), b) =
              IF b \in p..p + Width(op) - 1 THEN ByteOf(reg, Width(op), b - p) ELSE ByteAt(m, b)
<1> DEFINE n == Width(op)
           f == PutAt(m, op, reg, p)
           r == Right(p, n)
<1>1. n \in {1, 2, 4}
  BY Widths DEF Stores
<1>2. p % 4 = p /\ Base(p) = 0 /\ Base(b) = (IF b < 4 THEN 0 ELSE 4) /\ Place(b) \in 0..3
  BY Bases
<1>3. r = IF BigEndian THEN 4 - n - p ELSE p
  BY <1>2 DEF Right
<1>4. Stored(op, reg, m[0], p) = Replaced(m[0], p, n, reg)
  BY DEF Stored
<1>5. f = [m EXCEPT ![0] = Replaced(m[0], p, n, reg)]
  BY <1>2, <1>4 DEF PutAt
<1> HIDE DEF n, f, r
<1>6. p + n <= 4
  BY <1>1 DEF n
<1>7. m[0] \in Word /\ m[4] \in Word /\ p \in Int /\ p % n = 0
  BY DEF n
<1>8. /\ Replaced(m[0], p, n, reg) \in Word
      /\ \A i \in 0..3 : Dig(Replaced(m[0], p, n, reg), i) =
                            IF r <= i /\ i < r + n THEN Dig(reg, i - r) ELSE Dig(m[0], i)
  BY <1>1, <1>7, ReplacedExact DEF r
<1>9. f[0] = Replaced(m[0], p, n, reg) /\ f[4] = m[4]
  BY <1>5
<1>10. ByteAt(f, b) = Dig(f[Base(b)], Place(b)) /\ ByteAt(m, b) = Dig(m[Base(b)], Place(b))
  BY <1>2, <1>7, <1>8, <1>9, BytesByPlace
<1>11. ByteOf(reg, n, b - p) = Dig(reg, Ordinal(n, b - p))
  BY BytesByPlace
<1>12. CASE b >= 4
  BY <1>1, <1>2, <1>6, <1>9, <1>10, <1>12 DEF n, f
<1>13. CASE b < 4
  <2>1. Place(b) = IF BigEndian THEN 3 - b ELSE b
    BY <1>13, Bases DEF Place
  <2>2. (r <= Place(b) /\ Place(b) < r + n) <=> b \in p..p + n - 1
    BY <1>1, <1>3, <1>13, <2>1, LoadStoreAssumption
  <2>3. b \in p..p + n - 1 => Place(b) - r = Ordinal(n, b - p)
    BY <1>1, <1>3, <1>13, <2>1, LoadStoreAssumption DEF Ordinal
  <2>4. ByteAt(f, b) = Dig(Replaced(m[0], p, n, reg), Place(b)) /\ ByteAt(m, b) = Dig(m[0], Place(b))
    BY <1>2, <1>9, <1>10, <1>13
  <2>5. ByteAt(f, b) = IF b \in p..p + n - 1 THEN Dig(reg, Place(b) - r) ELSE Dig(m[0], Place(b))
    BY <1>2, <1>8, <2>2, <2>4
  <2>6. ByteAt(f, b) = IF b \in p..p + n - 1 THEN ByteOf(reg, n, b - p) ELSE ByteAt(m, b)
    BY <1>11, <2>3, <2>4, <2>5
  <2>7. QED
    BY <2>6 DEF n, f
<1>14. QED
  BY <1>12, <1>13

(* An aligned load.                                                         *)
LEMMA LoadsMove ==
    ASSUME NEW m \in [{0, 4} -> Word], NEW reg \in Word, NEW op \in {"lb", "lbu", "lh", "lhu", "lw"},
           NEW p \in 0..3, p % Width(op) = 0
    PROVE  LET v == GetAt(m, op, reg, p)
               n == Width(op)
           IN  /\ \A k \in 0..n - 1 : ByteOf(v % Bytes(n), n, k) = ByteAt(m, p + k)
               /\ IF op \in {"lb", "lh"} THEN Signed(v) \in -(Bytes(n) \div 2)..(Bytes(n) \div 2) - 1
                                         ELSE v < Bytes(n)
<1> DEFINE n == Width(op)
           v == GetAt(m, op, reg, p)
           r == Right(p, n)
           part == Part(m[0], p, n)
<1>1. n \in {1, 2, 4} /\ (op \in {"lb", "lh"} => n \in {1, 2})
  BY Widths DEF Loads
<1>2. p % 4 = p /\ Base(p) = 0
  BY Bases
<1>3. r = IF BigEndian THEN 4 - n - p ELSE p
  BY <1>2 DEF Right
<1>4. /\ op \in {"lw", "lbu", "lhu"} => v = part
      /\ op \in {"lb", "lh"} => v = SignExtended(part, n)
  BY <1>2 DEF GetAt, Loaded
<1> HIDE DEF n, v, r
<1>5. p + n <= 4 /\ p % n = 0 /\ p \in Int /\ m[0] \in Word
  BY <1>1 DEF n
<1>6. part \in 0..Bytes(n) - 1 /\ \A i \in 0..3 : i < n => Dig(part, i) = Dig(m[0], r + i)
  BY <1>1, <1>5, WholePart DEF r
<1>7. Bytes(n) \in Nat \ {0}
  BY <1>1, ByteTyped
<1> HIDE DEF part
<1>8. v % Bytes(n) = part
  <2>1. part % Bytes(n) = part
    BY <1>6, <1>7, Digit
  <2>2. CASE op \in {"lb", "lh"}
    BY <1>1, <1>4, <1>6, <2>2, SignExact
  <2>3. QED
    BY <1>4, <2>1, <2>2
<1>9. ASSUME NEW k \in 0..n - 1 PROVE ByteOf(v % Bytes(n), n, k) = ByteAt(m, p + k)
  <2>1. p + k \in 0..7 /\ p + k < 4
    BY <1>1, <1>5
  <2>2. Base(p + k) = 0 /\ (p + k) % 4 = p + k
    BY <2>1, Bases
  <2>3. ByteAt(m, p + k) = Dig(m[0], Place(p + k))
    BY <1>5, <2>1, <2>2, BytesByPlace
  <2>4. Ordinal(n, k) \in 0..3 /\ Ordinal(n, k) < n /\ r + Ordinal(n, k) = Place(p + k)
    BY <1>1, <1>3, <2>1, <2>2, LoadStoreAssumption DEF Ordinal, Place
  <2>5. ByteOf(part, n, k) = Dig(part, Ordinal(n, k))
    BY BytesByPlace
  <2>6. QED
    BY <1>6, <1>8, <2>3, <2>4, <2>5
<1>10. IF op \in {"lb", "lh"} THEN Signed(v) \in -(Bytes(n) \div 2)..(Bytes(n) \div 2) - 1
                              ELSE v < Bytes(n)
  <2>1. CASE op \in {"lb", "lh"}
    BY <1>1, <1>4, <1>6, <2>1, SignExact
  <2>2. CASE op \notin {"lb", "lh"}
    <3>1. v = part
      BY <1>4, <2>2
    <3>2. v < Bytes(n)
      BY <1>6, <1>7, <3>1
    <3>3. QED
      BY <2>2, <3>2
  <2>3. QED
    BY <2>1, <2>2
<1>11. QED
  BY <1>9, <1>10 DEF n, v

(* Where the two halves of an unaligned access fall.                        *)
LEMMA Halves ==
    ASSUME NEW p \in 0..3
    PROVE  /\ Leftmost(p) \in 0..7 /\ Rightmost(p) \in 0..7
           /\ BigEndian => /\ LeftShift(Leftmost(p)) = p /\ Base(Leftmost(p)) = 0
                           /\ RightShift(Rightmost(p)) = (IF p = 0 THEN 0 ELSE 4 - p)
                           /\ Base(Rightmost(p)) = (IF p = 0 THEN 0 ELSE 4)
           /\ ~BigEndian => /\ LeftShift(Leftmost(p)) = (IF p = 0 THEN 0 ELSE 4 - p)
                            /\ Base(Leftmost(p)) = (IF p = 0 THEN 0 ELSE 4)
                            /\ RightShift(Rightmost(p)) = p /\ Base(Rightmost(p)) = 0
<1>1. p \in 0..7 /\ p + 3 \in 0..7
  OBVIOUS
<1>2. p % 4 = p /\ Base(p) = 0 /\ (p + 3) % 4 = (IF p = 0 THEN 3 ELSE p - 1)
      /\ Base(p + 3) = IF p = 0 THEN 0 ELSE 4
  BY <1>1, Bases
<1>3. CASE BigEndian
  BY <1>1, <1>2, <1>3 DEF Leftmost, Rightmost, LeftShift, RightShift
<1>4. CASE ~BigEndian
  BY <1>1, <1>2, <1>4 DEF Leftmost, Rightmost, LeftShift, RightShift
<1>5. QED
  BY <1>3, <1>4

(* A pair of unaligned loads, and of unaligned stores.                      *)
LEMMA UnalignedLoadMoves ==
    ASSUME NEW m \in [{0, 4} -> Word], NEW reg \in Word, NEW p \in 0..3, NEW k \in 0..3
    PROVE  ByteOf(UnalignedLoad(m, reg, p), 4, k) = ByteAt(m, p + k)
<1> DEFINE L == Leftmost(p)
           R == Rightmost(p)
           ls == LeftShift(L)
           rs == RightShift(R)
           u == Lwl(reg, m[Base(L)], L)
           v == Lwr(u, m[Base(R)], R)
           i == Ordinal(4, k)
<1>1. UnalignedLoad(m, reg, p) = v
  BY DEF UnalignedLoad, GetAt, Loaded
<1>2. L \in Int /\ R \in Int /\ Base(L) \in {0, 4} /\ Base(R) \in {0, 4}
  BY Halves, LoadStoreAssumption
<1>3. ls \in 0..3 /\ rs \in 0..3 /\ m[Base(L)] \in Word /\ m[Base(R)] \in Word
  BY <1>2, Shifts
<1>4. /\ u \in Word
      /\ \A j \in 0..3 : Dig(u, j) = IF j < ls THEN Dig(reg, j) ELSE Dig(m[Base(L)], j - ls)
  BY <1>3, LowJoin DEF Lwl
<1> HIDE DEF u
<1>5. \A j \in 0..3 : Dig(v, j) = IF rs + j < 4 THEN Dig(m[Base(R)], rs + j) ELSE Dig(u, j)
  BY <1>3, <1>4, HighJoin DEF Lwr
<1> HIDE DEF v
<1>6. i \in 0..3 /\ ByteOf(v, 4, k) = Dig(v, i) /\ i = IF BigEndian THEN 3 - k ELSE k
  BY BytesByPlace, LoadStoreAssumption DEF Ordinal
<1>7. p + k \in 0..7 /\ Base(p + k) = (IF p + k < 4 THEN 0 ELSE 4)
      /\ (p + k) % 4 = (IF p + k < 4 THEN p + k ELSE p + k - 4)
  BY Bases
<1>8. ByteAt(m, p + k) = Dig(m[Base(p + k)], Place(p + k))
  <2>1. m[Base(p + k)] \in Word /\ p + k \in Int
    BY <1>7
  <2>2. QED
    BY <2>1, BytesByPlace
<1>9. Dig(v, i) = IF rs + i < 4 THEN Dig(m[Base(R)], rs + i)
                  ELSE IF i < ls THEN Dig(reg, i) ELSE Dig(m[Base(L)], i - ls)
  BY <1>4, <1>5, <1>6
<1> HIDE DEF i, L, R, ls, rs
<1>10. CASE BigEndian
  <2>1. ls = p /\ Base(L) = 0 /\ rs = (IF p = 0 THEN 0 ELSE 4 - p) /\ Base(R) = (IF p = 0 THEN 0 ELSE 4) /\ i = 3 - k
    BY <1>6, <1>10, Halves DEF ls, rs, L, R
  <2>2. Place(p + k) = 3 - (IF p + k < 4 THEN p + k ELSE p + k - 4)
    BY <1>7, <1>10 DEF Place
  <2>3. Dig(v, i) = Dig(m[Base(p + k)], Place(p + k))
    BY <1>7, <1>9, <2>1, <2>2
  <2>4. QED
    BY <1>1, <1>6, <1>8, <2>3
<1>11. CASE ~BigEndian
  <2>1. rs = p /\ Base(R) = 0 /\ ls = (IF p = 0 THEN 0 ELSE 4 - p) /\ Base(L) = (IF p = 0 THEN 0 ELSE 4) /\ i = k
    BY <1>6, <1>11, Halves DEF ls, rs, L, R
  <2>2. Place(p + k) = IF p + k < 4 THEN p + k ELSE p + k - 4
    BY <1>7, <1>11 DEF Place
  <2>3. Dig(v, i) = Dig(m[Base(p + k)], Place(p + k))
    BY <1>7, <1>9, <2>1, <2>2
  <2>4. QED
    BY <1>1, <1>6, <1>8, <2>3
<1>12. QED
  BY <1>10, <1>11

LEMMA UnalignedStoreMoves ==
    ASSUME NEW m \in [{0, 4} -> Word], NEW reg \in Word, NEW p \in 0..3, NEW b \in 0..7
    PROVE  ByteAt(UnalignedStore(m, reg, p), b) =
              IF b \in p..p + 3 THEN ByteOf(reg, 4, b - p) ELSE ByteAt(m, b)
<1> DEFINE L == Leftmost(p)
           R == Rightmost(p)
           ls == LeftShift(L)
           rs == RightShift(R)
           x == Swl(reg, m[Base(L)], L)
           f == [m EXCEPT ![Base(L)] = x]
           y == Swr(reg, f[Base(R)], R)
           g == [f EXCEPT ![Base(R)] = y]
           i == Place(b)
<1>1. UnalignedStore(m, reg, p) = g
  BY DEF UnalignedStore, PutAt, Stored
<1>2. L \in Int /\ R \in Int /\ Base(L) \in {0, 4} /\ Base(R) \in {0, 4}
  BY Halves, LoadStoreAssumption
<1>3. ls \in 0..3 /\ rs \in 0..3 /\ m[Base(L)] \in Word
  BY <1>2, Shifts
<1>4. /\ x \in Word
      /\ \A j \in 0..3 : Dig(x, j) = IF ls + j < 4 THEN Dig(reg, ls + j) ELSE Dig(m[Base(L)], j)
  BY <1>3, HighJoin DEF Swl
<1> HIDE DEF x
<1>5. f \in [{0, 4} -> Word] /\ f[Base(R)] \in Word
  BY <1>2, <1>4
<1>6. /\ y \in Word
      /\ \A j \in 0..3 : Dig(y, j) = IF j < rs THEN Dig(f[Base(R)], j) ELSE Dig(reg, j - rs)
  <2> HIDE DEF f
  <2>1. QED
    BY <1>3, <1>5, LowJoin DEF Swr
<1> HIDE DEF y
<1>7. g \in [{0, 4} -> Word]
  <2> HIDE DEF f
  <2>1. QED
    BY <1>5, <1>6
<1>8. b \in 0..7 /\ i \in 0..3 /\ Base(b) = (IF b < 4 THEN 0 ELSE 4)
      /\ b % 4 = (IF b < 4 THEN b ELSE b - 4) /\ Base(b) \in {0, 4} /\ b \in Int
  BY Bases
<1>9. ByteAt(g, b) = Dig(g[Base(b)], i) /\ ByteAt(m, b) = Dig(m[Base(b)], i)
  <2> HIDE DEF g
  <2>1. m[Base(b)] \in Word /\ g[Base(b)] \in Word
    BY <1>7, <1>8
  <2>2. QED
    BY <1>8, <2>1, BytesByPlace
<1>10. ByteOf(reg, 4, b - p) = Dig(reg, Ordinal(4, b - p))
  BY BytesByPlace
<1>11. g[Base(b)] = IF Base(b) = Base(R) THEN y ELSE IF Base(b) = Base(L) THEN x ELSE m[Base(b)]
  BY <1>2, <1>8
<1>12. f[Base(R)] = IF Base(R) = Base(L) THEN x ELSE m[Base(R)]
  BY <1>2
<1> HIDE DEF f, g
<1>13. Dig(g[Base(b)], i) =
          IF Base(b) = Base(R) /\ ~(i < rs) THEN Dig(reg, i - rs)
          ELSE IF Base(b) = Base(L) /\ ls + i < 4 THEN Dig(reg, ls + i) ELSE Dig(m[Base(b)], i)
  BY <1>4, <1>6, <1>8, <1>11, <1>12
<1> HIDE DEF i, L, R, ls, rs
<1>14. CASE BigEndian
  <2>1. ls = p /\ Base(L) = 0 /\ rs = (IF p = 0 THEN 0 ELSE 4 - p) /\ Base(R) = (IF p = 0 THEN 0 ELSE 4)
    BY <1>14, Halves DEF ls, rs, L, R
  <2>2. i = 3 - (IF b < 4 THEN b ELSE b - 4) /\ Ordinal(4, b - p) = 3 - (b - p)
    BY <1>8, <1>14 DEF i, Place, Ordinal
  <2>3. Dig(g[Base(b)], i) = IF b \in p..p + 3 THEN Dig(reg, Ordinal(4, b - p)) ELSE Dig(m[Base(b)], i)
    BY <1>8, <1>13, <2>1, <2>2
  <2>4. QED
    BY <1>1, <1>9, <1>10, <2>3
<1>15. CASE ~BigEndian
  <2>1. rs = p /\ Base(R) = 0 /\ ls = (IF p = 0 THEN 0 ELSE 4 - p) /\ Base(L) = (IF p = 0 THEN 0 ELSE 4)
    BY <1>15, Halves DEF ls, rs, L, R
  <2>2. i = (IF b < 4 THEN b ELSE b - 4) /\ Ordinal(4, b - p) = b - p
    BY <1>8, <1>15 DEF i, Place, Ordinal
  <2>3. Dig(g[Base(b)], i) = IF b \in p..p + 3 THEN Dig(reg, Ordinal(4, b - p)) ELSE Dig(m[Base(b)], i)
    BY <1>8, <1>13, <2>1, <2>2
  <2>4. QED
    BY <1>1, <1>9, <1>10, <2>3
<1>16. QED
  BY <1>14, <1>15

(* Whatever the width of words, the byte order and the offset, loads and    *)
(* stores move the bytes they are asked to and no others, and a pair of     *)
(* unaligned accesses moves the word at any address (lb_emulate to          *)
(* swr_emulate).                                                            *)
THEOREM LoadsAndStoresMoveBytes == MovesBytes(Word)
<1> SUFFICES ASSUME NEW m \in [{0, 4} -> Word], NEW reg \in Word
             PROVE  LET wrote(f, n, p) == \A b \in 0..7 :
                            ByteAt(f, b) = IF b \in p..p + n - 1 THEN ByteOf(reg, n, b - p) ELSE ByteAt(m, b)
                        read(v, n, p) == \A k \in 0..n - 1 : ByteOf(v, n, k) = ByteAt(m, p + k)
                    IN  /\ \A op \in {"sb", "sh", "sw"}, p \in 0..3 : p % Width(op) = 0 =>
                              wrote(PutAt(m, op, reg, p), Width(op), p)
                        /\ \A op \in {"lb", "lbu", "lh", "lhu", "lw"}, p \in 0..3 : p % Width(op) = 0 =>
                              LET v == GetAt(m, op, reg, p)
                                  n == Width(op)
                              IN  /\ read(v % Bytes(n), n, p)
                                  /\ IF op \in {"lb", "lh"}
                                       THEN Signed(v) \in -(Bytes(n) \div 2)..(Bytes(n) \div 2) - 1
                                       ELSE v < Bytes(n)
                        /\ \A p \in 0..3 : read(UnalignedLoad(m, reg, p), 4, p)
                                           /\ wrote(UnalignedStore(m, reg, p), 4, p)
  BY DEF MovesBytes
<1> DEFINE wrote(f, n, p) == \A b \in 0..7 :
               ByteAt(f, b) = IF b \in p..p + n - 1 THEN ByteOf(reg, n, b - p) ELSE ByteAt(m, b)
           read(v, n, p) == \A k \in 0..n - 1 : ByteOf(v, n, k) = ByteAt(m, p + k)
<1>1. ASSUME NEW op \in {"sb", "sh", "sw"}, NEW p \in 0..3, p % Width(op) = 0
      PROVE  wrote(PutAt(m, op, reg, p), Width(op), p)
  BY <1>1, StoresMove
<1>2. ASSUME NEW op \in {"lb", "lbu", "lh", "lhu", "lw"}, NEW p \in 0..3, p % Width(op) = 0
      PROVE  LET v == GetAt(m, op, reg, p)
                 n == Width(op)
             IN  /\ read(v % Bytes(n), n, p)
                 /\ IF op \in {"lb", "lh"} THEN Signed(v) \in -(Bytes(n) \div 2)..(Bytes(n) \div 2) - 1
                                           ELSE v < Bytes(n)
  BY <1>2, LoadsMove
<1>3. ASSUME NEW p \in 0..3
      PROVE  read(UnalignedLoad(m, reg, p), 4, p) /\ wrote(UnalignedStore(m, reg, p), 4, p)
  <2>1. 4 - 1 = 3 /\ p + 4 - 1 = p + 3
    OBVIOUS
  <2>2. read(UnalignedLoad(m, reg, p), 4, p)
    BY <2>1, UnalignedLoadMoves
  <2>3. wrote(UnalignedStore(m, reg, p), 4, p)
    BY <2>1, UnalignedStoreMoves
  <2>4. QED
    BY <2>2, <2>3
<1>4. QED
  BY <1>1, <1>2, <1>3
=============================================================================
