----------------------- MODULE SectionStorageProofs -------------------------
(***************************************************************************)
(* Proofs, for every number of positions, width of words and set of        *)
(* values, of what the packed storage of a section keeps.  They are built  *)
(* from below: fields of a word, by division and rest; widths, by powers   *)
(* of two; words and positions; the loop that repacks a storage, by the    *)
(* induction of Loops; the palette; the numbers of block states; and then  *)
(* the steps of SectionStorage.                                            *)
(*                                                                         *)
(* SectionIsGrid assumes that blocks.json is well formed, and nothing of    *)
(* the palettes in the region files.                                       *)
(***************************************************************************)
EXTENDS SectionStorage, Loops, FiniteSetTheorems

-----------------------------------------------------------------------------
(* Fields of a word                                                        *)

\* Division with rest.
LEMMA DivMod ==
    ASSUME NEW d \in Nat \ {0}, NEW x \in Int
    PROVE  /\ x \div d \in Int /\ x % d \in Int /\ 0 <= x % d /\ x % d < d
           /\ x = (x \div d) * d + (x % d)
<1>1. x \div d \in Int /\ x % d \in Int  OBVIOUS
<1>2. 0 <= x % d /\ x % d < d  OBVIOUS
<1>3. x = (x \div d) * d + (x % d)  OBVIOUS
<1>4. QED  BY <1>1, <1>2, <1>3

\* A product with a number that is not negative grows with the other factor.
LEMMA TimesGrows ==
    ASSUME NEW m \in Nat, NEW x \in Int, NEW y \in Int, x <= y
    PROVE  x * m <= y * m
  OBVIOUS

\* Quotient and rest are determined by their sum.
LEMMA DivModUnique ==
    ASSUME NEW d \in Nat \ {0}, NEW q \in Int, NEW r \in Int, 0 <= r, r < d
    PROVE  (q * d + r) \div d = q /\ (q * d + r) % d = r
  OBVIOUS

\* The field of a word above P and below P * M, and the word with the field set.
FieldOf(w, P, M) == (w \div P) % M
SetField(w, P, M, v) == w + (v - FieldOf(w, P, M)) * P

\* w is a high part, the field f and a low part.
InParts(w, P, M, hi, f, lo) ==
    /\ hi \in Nat /\ f \in Nat /\ lo \in Nat /\ f < M /\ lo < P
    /\ w = (hi * M + f) * P + lo

\* Every word has a high part, a field and a low part.
LEMMA Parts ==
    ASSUME NEW w \in Nat, NEW P \in Nat \ {0}, NEW M \in Nat \ {0}
    PROVE  \E hi, f, lo : InParts(w, P, M, hi, f, lo)
<1> DEFINE a == w \div P
           lo == w % P
           hi == a \div M
           f == a % M
<1>1. a \in Int /\ lo \in Int /\ 0 <= lo /\ lo < P /\ w = a * P + lo  BY DivMod
<1>2. a >= 0
  <2>1. SUFFICES ASSUME a <= -1 PROVE FALSE  BY <1>1
  <2>2. a * P <= (-1) * P  BY <1>1, <2>1, TimesGrows
  <2>3. QED  BY <1>1, <2>2
<1> HIDE DEF a, lo
<1>3. hi \in Int /\ f \in Int /\ 0 <= f /\ f < M /\ a = hi * M + f  BY <1>1, DivMod
<1>4. hi >= 0
  <2>1. SUFFICES ASSUME hi <= -1 PROVE FALSE  BY <1>3
  <2>2. hi * M <= (-1) * M
    <3> HIDE DEF hi, f
    <3>1. QED  BY <1>3, <2>1, TimesGrows
  <2>3. QED  BY <1>2, <1>3, <2>2
<1> HIDE DEF hi, f
<1>5. InParts(w, P, M, hi, f, lo)  BY <1>1, <1>3, <1>4 DEF InParts
<1>6. QED  BY <1>5

\* The field of a word given in parts is the middle one.
LEMMA FieldOfParts ==
    ASSUME NEW P \in Nat \ {0}, NEW M \in Nat \ {0},
           NEW w, NEW hi, NEW f, NEW lo, InParts(w, P, M, hi, f, lo)
    PROVE  FieldOf(w, P, M) = f
<1> USE DEF InParts
<1> DEFINE a == hi * M + f
<1>1. a \in Int  OBVIOUS
<1>2. a % M = f  BY DivModUnique
<1> HIDE DEF a
<1>3. (a * P + lo) \div P = a  BY <1>1, DivModUnique
<1>4. QED  BY <1>2, <1>3 DEF FieldOf, a

\* Setting the field changes the middle part only.
LEMMA SetFieldParts ==
    ASSUME NEW P \in Nat \ {0}, NEW M \in Nat \ {0},
           NEW w, NEW hi, NEW f, NEW lo, InParts(w, P, M, hi, f, lo), NEW v \in Nat, v < M
    PROVE  InParts(SetField(w, P, M, v), P, M, hi, v, lo)
<1>1. FieldOf(w, P, M) = f  BY FieldOfParts
<1>2. w + (v - f) * P = (hi * M + v) * P + lo  BY DEF InParts
<1>3. QED  BY <1>1, <1>2 DEF SetField, InParts

\* A field above the one that was set does not depend on it.
LEMMA HigherField ==
    ASSUME NEW P \in Nat \ {0}, NEW M \in Nat \ {0}, NEW R \in Nat \ {0},
           NEW w, NEW hi, NEW f, NEW lo, InParts(w, P, M, hi, f, lo)
    PROVE  FieldOf(w, P * M * R, M) = (hi \div R) % M
<1> USE DEF InParts
<1> DEFINE q == hi \div R
           r == hi % R
           Q == P * M * R
           rest == (r * M + f) * P + lo
<1>1. q \in Int /\ r \in Int /\ 0 <= r /\ r < R /\ hi = q * R + r  BY DivMod
<1> HIDE DEF q, r
<1>2. w = q * Q + rest  BY <1>1
<1>3. Q \in Nat \ {0} /\ rest \in Int /\ 0 <= rest /\ rest < Q
  <2>1. Q \in Nat \ {0}  OBVIOUS
  <2>2. r * M \in Nat /\ r * M + f < (r + 1) * M /\ (r + 1) * M <= R * M
    BY <1>1
  <2>3. r * M + f <= R * M - 1 /\ r * M + f >= 0 /\ r * M + f \in Int /\ R * M \in Int BY <1>1, <2>2
  <2>4. (r * M + f) * P <= (R * M - 1) * P /\ (r * M + f) * P >= 0 /\ (r * M + f) * P \in Int
    <3> DEFINE x == r * M + f
               y == R * M - 1
    <3>1. x \in Int /\ y \in Int /\ 0 <= x /\ x <= y  BY <2>3
    <3> HIDE DEF x, y
    <3>2. x * P <= y * P /\ 0 <= x * P /\ x * P \in Int  BY <3>1
    <3>3. QED  BY <3>2 DEF x, y
  <2>5. (R * M - 1) * P = Q - P /\ Q \in Int OBVIOUS
  <2>6. QED  BY <2>1, <2>4, <2>5
<1> HIDE DEF rest, Q
<1>4. w \div Q = q  BY <1>1, <1>2, <1>3, DivModUnique
<1>5. QED  BY <1>4 DEF FieldOf, q, Q

\* A field below does not depend on what is above.
LEMMA LowerField ==
    ASSUME NEW Q \in Nat \ {0}, NEW M \in Nat \ {0}, NEW R \in Nat \ {0},
           NEW a \in Nat, NEW lo \in Nat, NEW w, w = a * (Q * M * R) + lo
    PROVE  FieldOf(w, Q, M) = FieldOf(lo, Q, M)
<1> DEFINE b == lo \div Q
           c == lo % Q
           e == a * R
           g == b \div M
           h == b % M
<1>1. b \in Int /\ c \in Int /\ 0 <= c /\ c < Q /\ lo = b * Q + c  BY DivMod
<1> HIDE DEF b, c
<1>2. w = (e * M + b) * Q + c  BY <1>1
<1>3. e * M + b \in Int /\ e \in Int  BY <1>1
<1>4. w \div Q = e * M + b
  <2> DEFINE x == e * M + b
  <2>1. x \in Int /\ w = x * Q + c  BY <1>2, <1>3
  <2> HIDE DEF x
  <2>2. w \div Q = x  BY <1>1, <2>1, DivModUnique
  <2>3. QED  BY <2>2 DEF x
<1>5. g \in Int /\ h \in Int /\ 0 <= h /\ h < M /\ b = g * M + h  BY <1>1, DivMod
<1> HIDE DEF g, h, e
<1>6. e * M + b = (e + g) * M + h  BY <1>3, <1>5
<1>7. (e * M + b) % M = h
  <2> DEFINE x == e + g
  <2>1. x \in Int /\ e * M + b = x * M + h  BY <1>3, <1>5, <1>6
  <2> HIDE DEF x
  <2>2. QED  BY <1>5, <2>1, DivModUnique
<1>8. QED  BY <1>4, <1>7 DEF FieldOf, h, b

-----------------------------------------------------------------------------
(* Widths                                                                  *)

\* 1 << n, step by step.
LEMMA Pow2Def ==
    /\ Pow2 \in [Nat -> Nat \ {0}] /\ Pow2[0] = 1
    /\ \A n \in Nat : Pow2[n + 1] = 2 * Pow2[n]
<1> DEFINE X == Nat \ {0}
           g == [p \in (Nat \ {0}) \X X |-> 2 * p[2]]
<1>1. g \in [(Nat \ {0}) \X X -> X] /\ 1 \in X  OBVIOUS
<1>2. PICK f \in [Nat -> X] : f[0] = 1 /\ \A k \in Nat \ {0} : f[k] = g[<<k, f[k - 1]>>]
  <2> HIDE DEF X, g
  <2>1. QED  BY <1>1, EndlessLoop, SMTT(30)
<1>3. f = [n \in Nat |-> IF n = 0 THEN 1 ELSE 2 * f[n - 1]]
  <2>1. ASSUME NEW k \in Nat \ {0}  PROVE f[k] = 2 * f[k - 1]
    <3>1. f[k] = g[<<k, f[k - 1]>>] /\ f[k - 1] \in X  BY <1>2
    <3>2. QED  BY <3>1
  <2>2. QED  BY <1>2, <2>1
<1>4. Pow2 = [n \in Nat |-> IF n = 0 THEN 1 ELSE 2 * Pow2[n - 1]]
  BY <1>3 DEF Pow2
<1>5. Pow2[0] = 1 /\ \A n \in Nat : Pow2[n + 1] = 2 * Pow2[n]  BY <1>4
<1>6. \A n \in Nat : Pow2[n] \in X
  <2> DEFINE S == {n \in Nat : Pow2[n] \in X}
  <2>1. 0 \in S  BY <1>5
  <2>2. \A n \in Nat : n \in S => n + 1 \in S  BY <1>5
  <2>3. \A n \in Nat : n \in S
    <3> HIDE DEF S
    <3>1. QED  BY <2>1, <2>2, Induction
  <2>4. QED  BY <2>3
<1>7. Pow2 \in [Nat -> X]
  <2> HIDE DEF X
  <2>1. QED  BY <1>4, <1>6
<1>8. QED  BY <1>5, <1>7

\* 1 << n is a positive number.
LEMMA Pow2Type ==
    ASSUME NEW n \in Nat
    PROVE  Pow2[n] \in Nat \ {0}
  BY Pow2Def

\* Shifts add up.
LEMMA Pow2Sum ==
    ASSUME NEW a \in Nat, NEW b \in Nat
    PROVE  Pow2[a + b] = Pow2[a] * Pow2[b]
<1> DEFINE S == {n \in Nat : Pow2[a + n] = Pow2[a] * Pow2[n]}
<1>1. 0 \in S  BY Pow2Def
<1>2. ASSUME NEW n \in Nat, n \in S  PROVE n + 1 \in S
  <2>1. Pow2[a + (n + 1)] = 2 * Pow2[a + n]
    <3>1. a + (n + 1) = (a + n) + 1 /\ a + n \in Nat  OBVIOUS
    <3>2. QED  BY <3>1, Pow2Def
  <2>2. Pow2[n + 1] = 2 * Pow2[n]  BY Pow2Def
  <2>3. Pow2[a + n] = Pow2[a] * Pow2[n]  BY <1>2
  <2>4. Pow2[a] \in Nat /\ Pow2[n] \in Nat  BY Pow2Type
  <2>5. QED  BY <2>1, <2>2, <2>3, <2>4
<1>3. \A n \in Nat : n \in S
  <2> HIDE DEF S
  <2>1. QED  BY <1>1, <1>2, Induction
<1>4. QED  BY <1>3

\* A wider shift gives no smaller number.
LEMMA Pow2Grows ==
    ASSUME NEW a \in Nat, NEW b \in Nat, a <= b
    PROVE  Pow2[a] <= Pow2[b]
<1>1. b - a \in Nat /\ b = a + (b - a)  OBVIOUS
<1>2. Pow2[b] = Pow2[a] * Pow2[b - a]  BY <1>1, Pow2Sum
<1>3. Pow2[a] \in Nat /\ Pow2[b - a] \in Nat \ {0}  BY <1>1, Pow2Type
<1>4. QED
  <2> DEFINE x == Pow2[b - a]
             y == Pow2[a]
  <2>1. x \in Nat \ {0} /\ y \in Nat /\ Pow2[b] = y * x  BY <1>2, <1>3
  <2> HIDE DEF x, y
  <2>2. y * x >= y  BY <2>1
  <2>3. QED  BY <2>1, <2>2 DEF y

\* n bits number at least n values.
LEMMA Pow2Exceeds ==
    ASSUME NEW n \in Nat
    PROVE  n <= Pow2[n]
<1> DEFINE S == {k \in Nat : k <= Pow2[k]}
<1>1. 0 \in S  BY Pow2Def
<1>2. ASSUME NEW k \in Nat, k \in S  PROVE k + 1 \in S
  <2>1. Pow2[k + 1] = 2 * Pow2[k] /\ Pow2[k] \in Nat \ {0} /\ k <= Pow2[k]  BY <1>2, Pow2Def
  <2>2. QED  BY <2>1
<1>3. \A k \in Nat : k \in S
  <2> HIDE DEF S
  <2>1. QED  BY <1>1, <1>2, Induction
<1>4. QED  BY <1>3

-----------------------------------------------------------------------------

\* b bits tell n values apart, and no fewer do.
LeastBits(n, b) == b \in Nat /\ n <= Pow2[b] /\ \A c \in Nat : n <= Pow2[c] => b <= c

\* There is such a width for every number of values.
LEMMA BitsExist ==
    ASSUME NEW n \in Nat
    PROVE  \E b : LeastBits(n, b)
<1> DEFINE T == {b \in Nat : n <= Pow2[b]}
<1>1. n \in T  BY Pow2Exceeds
<1>2. T \subseteq Nat /\ T # {}  BY <1>1
<1>3. PICK b \in T : \A c \in T : b <= c
  <2> HIDE DEF T
  <2>1. QED  BY <1>2, LeastNumber
<1>4. QED  BY <1>3 DEF LeastBits

\* Half of the values need one bit less.
LEMMA HalfTheBits ==
    ASSUME NEW n \in Nat, n > 1, NEW b, LeastBits((n + 1) \div 2, b)
    PROVE  LeastBits(n, b + 1)
<1> DEFINE h == (n + 1) \div 2
<1>1. h \in Nat /\ \A x \in Nat : h <= x <=> n <= 2 * x  OBVIOUS
<1>2. b \in Nat /\ h <= Pow2[b] /\ \A c \in Nat : h <= Pow2[c] => b <= c  BY DEF LeastBits
<1> HIDE DEF h
<1>3. n <= Pow2[b + 1]
  <2>1. Pow2[b + 1] = 2 * Pow2[b] /\ Pow2[b] \in Nat  BY <1>2, Pow2Def
  <2>2. QED  BY <1>1, <1>2, <2>1
<1>4. ASSUME NEW c \in Nat, n <= Pow2[c]  PROVE b + 1 <= c
  <2>1. c # 0  BY <1>4, Pow2Def
  <2>2. c - 1 \in Nat /\ (c - 1) + 1 = c  BY <2>1
  <2>3. Pow2[c] = 2 * Pow2[c - 1] /\ Pow2[c - 1] \in Nat  BY <2>2, Pow2Def
  <2>4. h <= Pow2[c - 1]  BY <1>1, <1>4, <2>3
  <2>5. b <= c - 1  BY <1>2, <2>2, <2>4
  <2>6. QED  BY <1>2, <2>5
<1>5. QED  BY <1>2, <1>3, <1>4 DEF LeastBits

\* There is only one.
LEMMA LeastIsUnique ==
    ASSUME NEW n, NEW a, NEW b, LeastBits(n, a), LeastBits(n, b)
    PROVE  a = b
<1>1. a \in Nat /\ b \in Nat /\ a <= b /\ b <= a  BY DEF LeastBits
<1>2. QED  BY <1>1

\* One value needs no bits.
LEMMA NoBits ==
    ASSUME NEW n \in Nat, n <= 1
    PROVE  LeastBits(n, 0)
  BY Pow2Def DEF LeastBits

\* bitsNeeded() is the least width.
LEMMA BitsNeededIsLeast ==
    ASSUME NEW n \in Nat
    PROVE  LeastBits(n, BitsNeeded[n])
<1> DEFINE f == [m \in Nat |-> CHOOSE b : LeastBits(m, b)]
<1>1. ASSUME NEW m \in Nat  PROVE LeastBits(m, f[m])
  BY BitsExist
<1>2. f = [m \in Nat |-> IF m <= 1 THEN 0 ELSE 1 + f[(m + 1) \div 2]]
  <2>1. ASSUME NEW m \in Nat  PROVE f[m] = IF m <= 1 THEN 0 ELSE 1 + f[(m + 1) \div 2]
    <3> HIDE DEF f
    <3>1. CASE m <= 1
      <4>1. f[m] = 0  BY <1>1, <3>1, NoBits, LeastIsUnique
      <4>2. QED  BY <3>1, <4>1
    <3>2. CASE ~(m <= 1)
      <4> DEFINE h == (m + 1) \div 2
      <4>1. h \in Nat /\ m > 1  BY <3>2
      <4>2. LeastBits(h, f[h])  BY <1>1, <4>1
      <4>3. LeastBits(m, f[h] + 1)  BY <4>1, <4>2, HalfTheBits
      <4>4. f[h] \in Nat  BY <4>2 DEF LeastBits
      <4>5. f[m] = f[h] + 1  BY <1>1, <4>3, LeastIsUnique
      <4> HIDE DEF h
      <4>6. f[m] = 1 + f[h]  BY <4>4, <4>5
      <4>7. QED  BY <3>2, <4>6 DEF h
    <3>3. QED  BY <3>1, <3>2
  <2>2. f = [m \in Nat |-> f[m]]  OBVIOUS
  <2> HIDE DEF f
  <2>3. QED  BY <2>1, <2>2
<1>3. BitsNeeded = [m \in Nat |-> IF m <= 1 THEN 0 ELSE 1 + BitsNeeded[(m + 1) \div 2]]
  <2> HIDE DEF f
  <2>1. QED  BY <1>2 DEF BitsNeeded
<1>4. \A m \in Nat : BitsNeeded[m] = f[m]
  <2> DEFINE T == {m \in Nat : BitsNeeded[m] # f[m]}
  <2>1. SUFFICES ASSUME T # {}  PROVE FALSE  OBVIOUS
  <2>2. PICK m \in T : \A k \in T : m <= k
    <3>1. T \subseteq Nat  OBVIOUS
    <3> HIDE DEF T
    <3>2. QED  BY <2>1, <3>1, LeastNumber
  <2> HIDE DEF f
  <2>3. m \in Nat /\ BitsNeeded[m] # f[m] /\ \A k \in Nat : k < m => BitsNeeded[k] = f[k]
    BY <2>2
  <2>4. CASE m <= 1
    <3>1. BitsNeeded[m] = 0 /\ f[m] = 0  BY <1>2, <1>3, <2>3, <2>4
    <3>2. QED  BY <2>3, <3>1
  <2>5. CASE ~(m <= 1)
    <3> DEFINE h == (m + 1) \div 2
    <3>1. h \in Nat /\ h < m  BY <2>3, <2>5
    <3>2. BitsNeeded[m] = 1 + BitsNeeded[h]  BY <1>3, <2>3, <2>5
    <3>3. f[m] = 1 + f[h]  BY <1>2, <2>3, <2>5
    <3> HIDE DEF h
    <3>4. QED  BY <2>3, <3>1, <3>2, <3>3
  <2>6. QED  BY <2>4, <2>5
<1> HIDE DEF f
<1>5. QED  BY <1>1, <1>4

-----------------------------------------------------------------------------
(* Words and positions: DynamicStorage                                     *)

\* Fields at multiples of their width do not overlap.
LEMMA OtherField ==
    ASSUME NEW w \in Nat, NEW size \in Nat, NEW i \in Nat, NEW j \in Nat, i # j,
           NEW v \in Nat, v < Pow2[size]
    PROVE  Field(WithField(w, i * size, size, v), j * size, size) = Field(w, j * size, size)
<1> DEFINE P == Pow2[i * size]
           Q == Pow2[j * size]
           M == Pow2[size]
           x == SetField(w, P, M, v)
<1>1. i * size \in Nat /\ j * size \in Nat  OBVIOUS
<1>2. P \in Nat \ {0} /\ Q \in Nat \ {0} /\ M \in Nat \ {0}  BY <1>1, Pow2Type
<1>3. WithField(w, i * size, size, v) = x /\ \A u : Field(u, j * size, size) = FieldOf(u, Q, M)
  BY DEF WithField, Field, SetField, FieldOf
<1>4. SUFFICES FieldOf(x, Q, M) = FieldOf(w, Q, M)  BY <1>3
<1> HIDE DEF P, Q, M
<1>5. PICK hi, f, lo : InParts(w, P, M, hi, f, lo)  BY <1>2, Parts
<1>6. InParts(x, P, M, hi, v, lo)
  <2>1. v < M  BY DEF M
  <2>2. QED  BY <1>2, <1>5, <2>1, SetFieldParts
<1> HIDE DEF x
<1>7. CASE i < j
  <2> DEFINE R == Pow2[(j - i - 1) * size]
  <2>1. (j - i - 1) * size \in Nat  BY <1>7
  <2>2. R \in Nat \ {0}  BY <2>1, Pow2Type
  <2>3. Q = P * M * R
    <3>1. j * size = (i * size + size) + (j - i - 1) * size /\ i * size + size \in Nat  BY <1>7
    <3>2. Q = Pow2[i * size + size] * R  BY <2>1, <3>1, Pow2Sum DEF Q
    <3>3. Pow2[i * size + size] = P * M  BY <1>1, Pow2Sum DEF P, M
    <3>4. QED  BY <3>2, <3>3
  <2> HIDE DEF R
  <2>4. FieldOf(w, Q, M) = (hi \div R) % M /\ FieldOf(x, Q, M) = (hi \div R) % M
    BY <1>2, <1>5, <1>6, <2>2, <2>3, HigherField
  <2>5. QED  BY <2>4
<1>8. CASE j < i
  <2> DEFINE R == Pow2[(i - j - 1) * size]
             a == hi * M + f
             b == hi * M + v
  <2>1. (i - j - 1) * size \in Nat  BY <1>8
  <2>2. R \in Nat \ {0}  BY <2>1, Pow2Type
  <2>3. P = Q * M * R
    <3>1. i * size = (j * size + size) + (i - j - 1) * size /\ j * size + size \in Nat  BY <1>8
    <3>2. P = Pow2[j * size + size] * R  BY <2>1, <3>1, Pow2Sum DEF P
    <3>3. Pow2[j * size + size] = Q * M  BY <1>1, Pow2Sum DEF Q, M
    <3>4. QED  BY <3>2, <3>3
  <2> HIDE DEF R
  <2>4. a \in Nat /\ b \in Nat /\ lo \in Nat /\ w = a * P + lo /\ x = b * P + lo
    BY <1>2, <1>5, <1>6 DEF InParts
  <2> HIDE DEF a, b
  <2>5. w = a * (Q * M * R) + lo /\ x = b * (Q * M * R) + lo  BY <2>3, <2>4
  <2>6. FieldOf(w, Q, M) = FieldOf(lo, Q, M)  BY <1>2, <2>2, <2>4, <2>5, LowerField
  <2>7. FieldOf(x, Q, M) = FieldOf(lo, Q, M)  BY <1>2, <2>2, <2>4, <2>5, LowerField
  <2>8. QED  BY <2>6, <2>7
<1>9. QED  BY <1>7, <1>8

\* The same, of every word and all fields.
LEMMA OtherFields ==
    ASSUME NEW size \in Nat, NEW v \in Nat, v < Pow2[size]
    PROVE  \A w \in Nat, i \in Nat, j \in Nat : i # j =>
              Field(WithField(w, i * size, size, v), j * size, size) = Field(w, j * size, size)
  BY OtherField

\* A field that is set is a number and reads as it was set.
LEMMA SameField ==
    ASSUME NEW w \in Nat, NEW size \in Nat, NEW o \in Nat, NEW v \in Nat, v < Pow2[size]
    PROVE  WithField(w, o, size, v) \in Nat /\ Field(WithField(w, o, size, v), o, size) = v
<1> DEFINE P == Pow2[o]
           M == Pow2[size]
           x == SetField(w, P, M, v)
<1>1. P \in Nat \ {0} /\ M \in Nat \ {0} /\ v < M  BY Pow2Type
<1>2. WithField(w, o, size, v) = x /\ \A u : Field(u, o, size) = FieldOf(u, P, M)
  BY DEF WithField, Field, SetField, FieldOf
<1> HIDE DEF P, M
<1>3. PICK hi, f, lo : InParts(w, P, M, hi, f, lo)  BY <1>1, Parts
<1>4. InParts(x, P, M, hi, v, lo)  BY <1>1, <1>3, SetFieldParts
<1> HIDE DEF x
<1>5. x \in Nat  BY <1>1, <1>4 DEF InParts
<1>6. FieldOf(x, P, M) = v  BY <1>1, <1>4, FieldOfParts
<1>7. QED  BY <1>2, <1>5, <1>6

\* A field fits into its width.
LEMMA FieldType ==
    ASSUME NEW w \in Nat, NEW size \in Nat, NEW o \in Nat
    PROVE  Field(w, o, size) \in Nat /\ Field(w, o, size) < Pow2[size]
<1> DEFINE P == Pow2[o]
           M == Pow2[size]
           q == w \div P
<1>1. P \in Nat \ {0} /\ M \in Nat \ {0}  BY Pow2Type
<1> HIDE DEF P, M
<1>2. q \in Int  BY <1>1, DivMod
<1>3. Field(w, o, size) = q % M  BY DEF Field, P, M
<1> HIDE DEF q
<1>4. QED  BY <1>1, <1>2, <1>3, DivMod DEF M

-----------------------------------------------------------------------------

\* The widths of a storage, and the stores of a width.
Sizes == 1 .. StoreTypeSize
Stores(size) == [1 .. Words(size) -> Nat]

\* A word holds at least one value, and there is a number of words.
LEMMA PerWordType ==
    ASSUME NEW size \in Sizes
    PROVE  PerWord(size) \in Nat \ {0} /\ Words(size) \in Nat
<1>1. size \in Nat \ {0} /\ StoreTypeSize \in Nat /\ size <= StoreTypeSize /\ ArraySize \in Nat
  BY StorageAssumption DEF Sizes
<1>2. PerWord(size) \in Nat \ {0}  BY <1>1 DEF PerWord
<1> DEFINE d == PerWord(size)
<1>3. ArraySize \div d \in Nat
  <2> HIDE DEF d
  <2>1. QED  BY <1>1, <1>2 DEF d
<1>4. QED  BY <1>2, <1>3 DEF Words

\* Every position has its word in the store, and its place in the word.
LEMMA Places ==
    ASSUME NEW size \in Sizes, NEW idx \in Positions
    PROVE  /\ EntryNumber(size, idx) \in 1 .. Words(size)
           /\ idx % PerWord(size) \in Nat
           /\ idx = (EntryNumber(size, idx) - 1) * PerWord(size) + (idx % PerWord(size))
<1> DEFINE d == PerWord(size)
           q == idx \div d
           r == idx % d
           Q == ArraySize \div d
           R == ArraySize % d
<1>1. d \in Nat \ {0} /\ ArraySize \in Nat /\ idx \in Nat /\ idx < ArraySize
  BY PerWordType, StorageAssumption DEF Positions
<1>2. Words(size) = Q + (IF R # 0 THEN 1 ELSE 0) /\ EntryNumber(size, idx) = q + 1
  BY DEF Words, EntryNumber
<1> HIDE DEF d
<1>3. q \in Int /\ r \in Int /\ 0 <= r /\ r < d /\ idx = q * d + r  BY <1>1, DivMod
<1>4. Q \in Int /\ R \in Int /\ 0 <= R /\ R < d /\ ArraySize = Q * d + R  BY <1>1, DivMod
<1> HIDE DEF q, r, Q, R
<1>5. q >= 0
  <2>1. SUFFICES ASSUME q <= -1  PROVE FALSE  BY <1>3
  <2>2. q * d <= (-1) * d  BY <1>1, <1>3, <2>1, TimesGrows
  <2>3. QED  BY <1>1, <1>3, <2>2
<1>6. q < Words(size)
  <2>1. SUFFICES ASSUME Words(size) <= q  PROVE FALSE  BY <1>2, <1>3, <1>4
  <2>2. CASE R = 0
    <3>1. Q <= q  BY <1>2, <1>4, <2>1, <2>2
    <3>2. Q * d <= q * d  BY <1>1, <1>3, <1>4, <3>1, TimesGrows
    <3>3. QED  BY <1>1, <1>3, <1>4, <2>2, <3>2
  <2>3. CASE R # 0
    <3>1. Q + 1 <= q  BY <1>2, <1>4, <2>1, <2>3
    <3>2. (Q + 1) * d <= q * d  BY <1>1, <1>3, <1>4, <3>1, TimesGrows
    <3>3. (Q + 1) * d = Q * d + d  BY <1>1, <1>4
    <3>4. QED  BY <1>1, <1>3, <1>4, <3>2, <3>3
  <2>4. QED  BY <2>2, <2>3
<1>7. Words(size) \in Int  BY <1>2, <1>4
<1>8. QED
  <2>1. EntryNumber(size, idx) \in 1 .. Words(size)  BY <1>2, <1>3, <1>5, <1>6, <1>7
  <2>2. r \in Nat /\ idx = (EntryNumber(size, idx) - 1) * d + r  BY <1>2, <1>3
  <2>3. QED  BY <2>1, <2>2 DEF r, d

\* The first bit of a value.
LEMMA OffsetType ==
    ASSUME NEW size \in Sizes, NEW idx \in Positions
    PROVE  size \in Nat /\ StartOffset(size, idx) \in Nat
<1>1. idx % PerWord(size) \in Nat  BY Places
<1>2. size \in Nat  BY StorageAssumption DEF Sizes
<1>3. QED  BY <1>1, <1>2 DEF StartOffset

\* The store has a word for the position.
Reaches(st, size, idx) == EntryNumber(size, idx) \in DOMAIN st

\* What get() returns fits into the width.
LEMMA GetType ==
    ASSUME NEW size \in Sizes, NEW n \in Nat, NEW st \in [1 .. n -> Nat], NEW idx \in Positions, Reaches(st, size, idx)
    PROVE  Get(st, size, idx) \in Nat /\ Get(st, size, idx) < Pow2[size]
<1>1. EntryNumber(size, idx) \in DOMAIN st /\ st[EntryNumber(size, idx)] \in Nat  BY DEF Reaches
<1>2. QED  BY <1>1, OffsetType, FieldType DEF Get

\* set() keeps the store a store, with as many words.
LEMMA PutType ==
    ASSUME NEW size \in Sizes, NEW n \in Nat, NEW st \in [1 .. n -> Nat], NEW idx \in Positions,
           NEW v \in Nat, v < Pow2[size]
    PROVE  Put(st, size, idx, v) \in [1 .. n -> Nat]
<1> DEFINE e == EntryNumber(size, idx)
<1>1. CASE e \notin DOMAIN st
  <2>1. Put(st, size, idx, v) = st  BY <1>1 DEF Put
  <2>2. QED  BY <2>1
<1>2. CASE e \in DOMAIN st
  <2>1. st[e] \in Nat /\ e \in 1 .. n  BY <1>2
  <2>2. WithField(st[e], StartOffset(size, idx), size, v) \in Nat  BY <2>1, OffsetType, SameField
  <2>3. Put(st, size, idx, v) = [st EXCEPT ![e] = WithField(st[e], StartOffset(size, idx), size, v)]  BY <1>2 DEF Put
  <2> HIDE DEF e
  <2>4. QED  BY <2>1, <2>2, <2>3
<1>3. QED  BY <1>1, <1>2

\* get() after set(): the value at the position that was set, what was there before anywhere else.
LEMMA GetPut ==
    ASSUME NEW size \in Sizes, NEW n \in Nat, NEW st \in [1 .. n -> Nat], NEW i \in Positions, NEW j \in Positions,
           NEW v \in Nat, v < Pow2[size], Reaches(st, size, i)
    PROVE  Get(Put(st, size, i, v), size, j) = IF i = j THEN v ELSE Get(st, size, j)
<1> DEFINE e == EntryNumber(size, i)
           x == WithField(st[e], StartOffset(size, i), size, v)
           d == EntryNumber(size, j)
           put == Put(st, size, i, v)
<1>1. e \in DOMAIN st /\ st[e] \in Nat  BY DEF Reaches
<1>2. put = [st EXCEPT ![e] = x] /\ size \in Nat  BY <1>1, OffsetType DEF Put
<1>3. CASE d # e
  <2>1. DOMAIN put = DOMAIN st /\ (d \in DOMAIN st => put[d] = st[d])
    <3> HIDE DEF x, put, d, e
    <3>1. QED  BY <1>2, <1>3
  <2>2. i # j  BY <1>3
  <2> HIDE DEF put
  <2>3. Get(put, size, j) = Get(st, size, j)  BY <2>1 DEF Get
  <2>4. QED  BY <2>2, <2>3 DEF put
<1>4. CASE d = e
  <2>1. d \in DOMAIN put /\ d \in DOMAIN st /\ put[d] = x
    <3> HIDE DEF x, put, d, e
    <3>1. QED  BY <1>1, <1>2, <1>4
  <2>2. CASE i = j
    <3>1. Field(x, StartOffset(size, i), size) = v  BY <1>1, OffsetType, SameField
    <3> HIDE DEF x, put
    <3>2. Get(put, size, j) = v  BY <2>1, <2>2, <3>1 DEF Get
    <3>3. QED  BY <2>2, <3>2 DEF put
  <2>3. CASE i # j
    <3> DEFINE a == i % PerWord(size)
               b == j % PerWord(size)
    <3>1. a \in Nat /\ b \in Nat /\ a # b
      <4>1. i = (e - 1) * PerWord(size) + a /\ a \in Nat  BY Places
      <4>2. j = (e - 1) * PerWord(size) + b /\ b \in Nat  BY <1>4, Places
      <4> HIDE DEF a, b, e, d
      <4>3. QED  BY <2>3, <4>1, <4>2
    <3>2. StartOffset(size, i) = a * size /\ StartOffset(size, j) = b * size  BY DEF StartOffset
    <3> HIDE DEF a, b, e, put
    <3>3. Field(x, b * size, size) = Field(st[e], b * size, size)
      <4> DEFINE w == st[e]
      <4>1. w \in Nat /\ size \in Nat  BY <1>1, <1>2
      <4>2. x = WithField(w, a * size, size, v)  BY <3>2
      <4> HIDE DEF w, x
      <4>3. \A u \in Nat, y \in Nat, z \in Nat : y # z =>
                Field(WithField(u, y * size, size, v), z * size, size) = Field(u, z * size, size)
        BY <4>1, OtherFields
      <4>4. QED  BY <3>1, <4>1, <4>2, <4>3 DEF w
    <3> HIDE DEF x
    <3>4. Get(put, size, j) = Field(x, b * size, size)  BY <2>1, <3>2 DEF Get
    <3>5. Get(st, size, j) = Field(st[e], b * size, size)  BY <1>4, <2>1, <3>2 DEF Get
    <3>6. QED  BY <2>3, <3>3, <3>4, <3>5 DEF put
  <2>4. QED  BY <2>2, <2>3
<1>5. QED  BY <1>3, <1>4

\* A store of a width has a word for every position.
LEMMA StoresReach ==
    ASSUME NEW size \in Sizes, NEW st \in Stores(size), NEW idx \in Positions
    PROVE  Words(size) \in Nat /\ st \in [1 .. Words(size) -> Nat] /\ Reaches(st, size, idx)
  BY PerWordType, Places DEF Stores, Reaches

\* set() of a store of a width: it stays one, and is read as GetPut says.
LEMMA PutStore ==
    ASSUME NEW size \in Sizes, NEW st \in Stores(size), NEW i \in Positions, NEW v \in Nat, v < Pow2[size]
    PROVE  /\ Put(st, size, i, v) \in Stores(size)
           /\ \A j \in Positions : Get(Put(st, size, i, v), size, j) = IF i = j THEN v ELSE Get(st, size, j)
<1>1. Words(size) \in Nat /\ st \in [1 .. Words(size) -> Nat] /\ Reaches(st, size, i)  BY StoresReach
<1>2. Put(st, size, i, v) \in [1 .. Words(size) -> Nat]  BY <1>1, PutType
<1>3. ASSUME NEW j \in Positions  PROVE Get(Put(st, size, i, v), size, j) = IF i = j THEN v ELSE Get(st, size, j)
  <2> DEFINE n == Words(size)
  <2>1. n \in Nat /\ st \in [1 .. n -> Nat]  BY <1>1
  <2> HIDE DEF n
  <2>2. QED  BY <1>1, <2>1, GetPut
<1>4. QED  BY <1>2, <1>3 DEF Stores

\* A new storage reads as zero everywhere.
LEMMA BlankStore ==
    ASSUME NEW size \in Sizes
    PROVE  Blank(size) \in Stores(size) /\ \A p \in Positions : Get(Blank(size), size, p) = 0
<1>1. Blank(size) \in Stores(size)  BY DEF Blank, Stores
<1>2. ASSUME NEW p \in Positions  PROVE Get(Blank(size), size, p) = 0
  <2>1. EntryNumber(size, p) \in DOMAIN Blank(size) /\ Blank(size)[EntryNumber(size, p)] = 0  BY Places DEF Blank
  <2>2. Field(0, StartOffset(size, p), size) = 0
    <3> DEFINE P == Pow2[StartOffset(size, p)]
               M == Pow2[size]
    <3>1. P \in Nat \ {0} /\ M \in Nat \ {0}  BY OffsetType, Pow2Type
    <3> HIDE DEF P, M
    <3>2. 0 \div P = 0 /\ 0 % M = 0  BY <3>1
    <3>3. QED  BY <3>2 DEF Field, P, M
  <2>3. QED  BY <2>1, <2>2 DEF Get
<1>3. QED  BY <1>1, <1>2

\* The loop of Pack.
LEMMA PackLoop ==
    ASSUME NEW size \in Sizes, NEW values \in [Positions -> 0 .. Pow2[size] - 1]
    PROVE  \E F \in [0 .. ArraySize -> Stores(size)] :
              /\ F[0] = Blank(size) /\ Pack(size, values) = F[ArraySize]
              /\ \A k \in 1 .. ArraySize : F[k] = Put(F[k - 1], size, k - 1, values[k - 1])
<1> DEFINE n == ArraySize
           X == Stores(size)
           x0 == Blank(size)
           g == [p \in (1 .. n) \X X |-> Put(p[2], size, p[1] - 1, values[p[1] - 1])]
           F == CHOOSE put : put = [k \in 0 .. n |->
                   IF k = 0 THEN x0 ELSE Put(put[k - 1], size, k - 1, values[k - 1])]
<1>0. n \in Nat /\ \A k \in 1 .. n : k - 1 \in Positions /\ values[k - 1] \in Nat /\ values[k - 1] < Pow2[size]
  <2>1. n \in Nat /\ Pow2[size] \in Nat  BY StorageAssumption, Pow2Type DEF Sizes
  <2>2. \A k \in 1 .. n : k - 1 \in Positions  BY <2>1 DEF Positions
  <2>3. \A p \in Positions : values[p] \in Nat /\ values[p] < Pow2[size]  BY <2>1
  <2>4. QED  BY <2>1, <2>2, <2>3
<1>1. g \in [(1 .. n) \X X -> X] /\ x0 \in X
  <2>1. \A k \in 1 .. n, x \in X : Put(x, size, k - 1, values[k - 1]) \in X
    BY <1>0, PutStore
  <2>2. x0 \in X  BY BlankStore
  <2> HIDE DEF X, n
  <2>3. QED  BY <2>1, <2>2
<1>2. PICK s \in [0 .. n -> X] : IsLoop(s, n, x0, g)
  <2> HIDE DEF g, X, x0, n
  <2> QED BY <1>0, <1>1, LoopExists
<1>3. s = [k \in 0 .. n |-> IF k = 0 THEN x0 ELSE Put(s[k - 1], size, k - 1, values[k - 1])]
  <2>1. s[0] = x0  BY <1>2 DEF IsLoop
  <2>2. ASSUME NEW k \in 1 .. n  PROVE s[k] = Put(s[k - 1], size, k - 1, values[k - 1])
    <3>1. s[k] = g[<<k, s[k - 1]>>]  BY <1>2 DEF IsLoop
    <3>2. <<k, s[k - 1]>> \in (1 .. n) \X X  BY <1>0
    <3>3. QED  BY <3>1, <3>2
  <2> HIDE DEF X, g, x0, n
  <2> QED BY <1>0, <2>1, <2>2
<1>4. F = [k \in 0 .. n |-> IF k = 0 THEN x0 ELSE Put(F[k - 1], size, k - 1, values[k - 1])]
  BY <1>3
<1>5. Pack(size, values) = F[n]  BY DEF Pack
<1>6. F[0] = x0 /\ \A k \in 1 .. n : F[k] = Put(F[k - 1], size, k - 1, values[k - 1])
  <2> HIDE DEF F, x0
  <2>1. QED  BY <1>0, <1>4
<1>7. F \in [0 .. n -> X]
  <2> DEFINE S == {k \in 0 .. n : F[k] \in X}
  <2>1. 0 \in S  BY <1>0, <1>1, <1>6
  <2>2. ASSUME NEW k \in 1 .. n, k - 1 \in S  PROVE k \in S
    <3> HIDE DEF F
    <3>1. F[k] = Put(F[k - 1], size, k - 1, values[k - 1]) /\ F[k - 1] \in X  BY <1>6, <2>2
    <3>2. QED  BY <1>0, <3>1, PutStore
  <2>3. \A k \in 0 .. n : k \in S
    <3> HIDE DEF S, F, n
    <3> QED BY <1>0, <2>1, <2>2, BoundedInduction
  <2> HIDE DEF F, x0
  <2> QED BY <2>3, <1>4
<1> HIDE DEF F
<1>8. QED  BY <1>5, <1>6, <1>7

\* Values that are packed are found again.
LEMMA GetPack ==
    ASSUME NEW size \in Sizes, NEW values \in [Positions -> 0 .. Pow2[size] - 1]
    PROVE  /\ Pack(size, values) \in Stores(size)
           /\ \A p \in Positions : Get(Pack(size, values), size, p) = values[p]
<1>1. PICK F \in [0 .. ArraySize -> Stores(size)] :
              /\ F[0] = Blank(size) /\ Pack(size, values) = F[ArraySize]
              /\ \A k \in 1 .. ArraySize : F[k] = Put(F[k - 1], size, k - 1, values[k - 1])
  BY PackLoop
<1>2. ArraySize \in Nat /\ Positions = 0 .. ArraySize - 1 /\ Pow2[size] \in Nat
  BY StorageAssumption, Pow2Type DEF Sizes, Positions
<1> DEFINE S == {k \in 0 .. ArraySize : \A p \in Positions : p < k => Get(F[k], size, p) = values[p]}
<1>3. 0 \in S  BY <1>2
<1>4. ASSUME NEW k \in 1 .. ArraySize, k - 1 \in S  PROVE k \in S
  <2>1. /\ F[k - 1] \in Stores(size) /\ k - 1 \in Positions
        /\ values[k - 1] \in Nat /\ values[k - 1] < Pow2[size]
        /\ F[k] = Put(F[k - 1], size, k - 1, values[k - 1])
    BY <1>1, <1>2
  <2>2. ASSUME NEW p \in Positions, p < k  PROVE Get(F[k], size, p) = values[p]
    <3>1. Get(F[k], size, p) = IF k - 1 = p THEN values[k - 1] ELSE Get(F[k - 1], size, p)
      BY <2>1, PutStore
    <3>2. CASE k - 1 = p  BY <3>1, <3>2
    <3>3. CASE k - 1 # p
      <4>1. p < k - 1  BY <1>2, <2>2, <3>3
      <4>2. QED  BY <1>4, <3>1, <3>3, <4>1
    <3>4. QED  BY <3>2, <3>3
  <2>3. QED  BY <2>2
<1>5. ArraySize \in S
  <2>1. \A k \in 0 .. ArraySize : k \in S
    <3> HIDE DEF S
    <3>1. QED  BY <1>2, <1>3, <1>4, BoundedInduction
  <2>2. QED  BY <1>2, <2>1
<1>6. QED  BY <1>1, <1>2, <1>5

-----------------------------------------------------------------------------

\* setValueSize() to a width that is not narrower keeps every value.
LEMMA ResizeKeeps ==
    ASSUME NEW old \in Sizes, NEW new \in Sizes, old < new, NEW n \in Nat, NEW st \in [1 .. n -> Nat],
           \A p \in Positions : Reaches(st, old, p)
    PROVE  /\ Resized(st, old, new) \in Stores(new)
           /\ \A p \in Positions : Get(Resized(st, old, new), new, p) = Get(st, old, p)
<1>1. new # old  BY StorageAssumption DEF Sizes
<1>2. QED
  <2> DEFINE values == Unpack(st, old)
  <2>1. new # 0 /\ old # 0 /\ new \in Nat /\ old \in Nat  BY StorageAssumption DEF Sizes
  <2>2. Resized(st, old, new) = Pack(new, values)  BY <1>1, <2>1 DEF Resized
  <2>3. ASSUME NEW p \in Positions  PROVE values[p] = Get(st, old, p) /\ values[p] \in 0 .. Pow2[new] - 1
    <3>1. values[p] = Get(st, old, p)  BY DEF Unpack
    <3>2. Get(st, old, p) \in Nat /\ Get(st, old, p) < Pow2[old]  BY GetType
    <3>3. Pow2[old] <= Pow2[new] /\ Pow2[old] \in Nat /\ Pow2[new] \in Nat  BY <2>1, Pow2Grows, Pow2Type
    <3> HIDE DEF values
    <3>4. QED  BY <3>1, <3>2, <3>3
  <2>4. values = [p \in Positions |-> values[p]]  BY DEF Unpack
  <2> HIDE DEF values
  <2>5. values \in [Positions -> 0 .. Pow2[new] - 1]  BY <2>3, <2>4
  <2>6. QED  BY <2>2, <2>3, <2>5, GetPack

-----------------------------------------------------------------------------
(* Light                                                                   *)

\* The inductive invariant of a storage of light: it keeps its width, and the counter is the number of lit positions.
LightInv ==
  kind = "light" =>
    /\ valueSize = MinBits /\ store \in Stores(MinBits)
    /\ file # Read => file \in [light : [Positions -> LightLevels]]
    /\ lightCount = Cardinality({p \in Positions : Get(store, MinBits, p) # 0})

\* Light levels fit into the width of a storage of light.
LEMMA LightSizes ==
    /\ MinBits \in Sizes /\ MinBits \in Nat /\ Pow2[MinBits] \in Nat \ {0}
    /\ \A level \in LightLevels : level \in Nat /\ level < Pow2[MinBits]
    /\ Pow2[MinBits] - 1 \in LightLevels
<1>1. MinBits \in Sizes /\ MinBits \in Nat  BY StorageAssumption DEF Sizes
<1>2. Pow2[MinBits] \in Nat \ {0}  BY <1>1, Pow2Type
<1>3. QED  BY <1>1, <1>2 DEF LightLevels

\* There are finitely many positions.
LEMMA FinitePositions == IsFiniteSet(Positions)
  BY StorageAssumption, FS_Interval DEF Positions

\* A new section is dark.
LEMMA LightInitially == Init => LightInv
<1> SUFFICES ASSUME Init, kind = "light"  PROVE LightInv  BY DEF LightInv
<1>1. valueSize = MinBits /\ store = Blank(MinBits) /\ lightCount = 0  BY DEF Init
<1>2. file # Read => file \in [light : [Positions -> LightLevels]]  BY DEF Init
<1>3. store \in Stores(MinBits) /\ \A p \in Positions : Get(store, MinBits, p) = 0
  BY <1>1, LightSizes, BlankStore
<1>4. {p \in Positions : Get(store, MinBits, p) # 0} = {}  BY <1>3
<1>5. Cardinality({p \in Positions : Get(store, MinBits, p) # 0}) = 0  BY <1>4, FS_EmptySet
<1>6. QED  BY <1>1, <1>2, <1>3, <1>5 DEF LightInv

\* A store that holds the given light is counted by the light.
LEMMA PackedLight ==
    ASSUME LightInv, kind = "light", kind' = "light", valueSize' = valueSize, file' = Read,
           NEW light \in [Positions -> LightLevels],
           store' = Pack(valueSize, light), lightCount' = LightCount(light)
    PROVE  LightInv'
<1>1. valueSize = MinBits  BY DEF LightInv
<1>2. light \in [Positions -> 0 .. Pow2[MinBits] - 1]  BY DEF LightLevels
<1>3. store' \in Stores(MinBits) /\ \A p \in Positions : Get(store', MinBits, p) = light[p]
  BY <1>1, <1>2, LightSizes, GetPack
<1>4. {p \in Positions : Get(store', MinBits, p) # 0} = {p \in Positions : light[p] # 0}  BY <1>3
<1>5. lightCount' = Cardinality({p \in Positions : Get(store', MinBits, p) # 0})  BY <1>4 DEF LightCount
<1>6. QED  BY <1>1, <1>3, <1>5 DEF LightInv

\* setSkyLight() and setBlockLight() count what they change: one more, one less or as many as before.
LEMMA SetLightCounts ==
    ASSUME LightInv, NEW p \in Positions, NEW level \in LightLevels, SetLight(p, level)
    PROVE  LightInv'
<1> DEFINE old == Get(store, MinBits, p)
           Lit == {q \in Positions : Get(store, MinBits, q) # 0}
           LitNow == {q \in Positions : Get(store', MinBits, q) # 0}
<1>1. /\ valueSize = MinBits /\ store \in Stores(MinBits) /\ lightCount = Cardinality(Lit)
  BY DEF LightInv, SetLight
<1>2. /\ kind' = "light" /\ valueSize' = MinBits /\ file' = Read
      /\ store' = Put(store, MinBits, p, level)
      /\ lightCount' = lightCount + (IF old = 0 /\ level # 0 THEN 1 ELSE 0) - (IF old # 0 /\ level = 0 THEN 1 ELSE 0)
  BY <1>1 DEF SetLight
<1>3. level \in Nat /\ level < Pow2[MinBits]  BY LightSizes
<1>4. store' \in Stores(MinBits)  BY <1>1, <1>2, <1>3, LightSizes, PutStore
<1>5. \A q \in Positions : Get(store', MinBits, q) = IF p = q THEN level ELSE Get(store, MinBits, q)
  BY <1>1, <1>2, <1>3, LightSizes, PutStore
<1>6. IsFiniteSet(Lit) /\ Cardinality(Lit) \in Nat
  BY FinitePositions, FS_Subset, FS_CardinalityType
<1>7. p \in Lit <=> old # 0  OBVIOUS
<1>8. lightCount' = Cardinality(LitNow)
  <2>1. CASE level # 0
    <3>1. LitNow = Lit \cup {p}  BY <1>5, <2>1
    <3>2. Cardinality(LitNow) = IF p \in Lit THEN Cardinality(Lit) ELSE Cardinality(Lit) + 1
      <4> HIDE DEF Lit, LitNow
      <4>1. QED  BY <1>6, <3>1, FS_AddElement
    <3> HIDE DEF Lit, LitNow, old
    <3>3. QED  BY <1>1, <1>2, <1>6, <1>7, <2>1, <3>2
  <2>2. CASE level = 0
    <3>1. LitNow = Lit \ {p}  BY <1>5, <2>2
    <3>2. Cardinality(LitNow) = IF p \in Lit THEN Cardinality(Lit) - 1 ELSE Cardinality(Lit)
      <4> HIDE DEF Lit, LitNow
      <4>1. QED  BY <1>6, <3>1, FS_RemoveElement
    <3> HIDE DEF Lit, LitNow, old
    <3>3. QED  BY <1>1, <1>2, <1>6, <1>7, <2>2, <3>2
  <2>3. QED  BY <2>1, <2>2
<1>9. QED  BY <1>2, <1>4, <1>8 DEF LightInv

\* Every step keeps the light counted.
LEMMA LightInductive == LightInv /\ [Next]_vars => LightInv'
<1> SUFFICES ASSUME LightInv, [Next]_vars  PROVE LightInv'  OBVIOUS
<1>1. ASSUME NEW p \in Positions, NEW id \in Ids, SetBlock(p, id)  PROVE LightInv'
  BY <1>1 DEF SetBlock, LightInv
<1>2. ASSUME NEW p \in Positions, NEW level \in LightLevels, SetLight(p, level)  PROVE LightInv'
  BY <1>2, SetLightCounts
<1>3. CASE RegionLoadBlocks  BY <1>3 DEF RegionLoadBlocks, LightInv
<1>4. CASE RegionLoadLights
  <2>1. file.light \in [Positions -> LightLevels]  BY <1>4 DEF RegionLoadLights, LightInv
  <2>2. QED  BY <1>4, <2>1, PackedLight DEF RegionLoadLights
<1>5. CASE RecalculateSkyLight
  <2> DEFINE full == [p \in Positions |-> Pow2[MinBits] - 1]
  <2>1. full \in [Positions -> LightLevels]  BY LightSizes
  <2>2. /\ kind = "light" /\ kind' = "light" /\ valueSize' = valueSize /\ file' = Read
        /\ store' = Pack(valueSize, full) /\ lightCount' = LightCount(full)
    BY <1>5 DEF RecalculateSkyLight
  <2> HIDE DEF full
  <2>3. QED  BY <2>1, <2>2, PackedLight
<1>6. CASE UNCHANGED vars  BY <1>6 DEF vars, LightInv
<1>7. QED  BY <1>1, <1>2, <1>3, <1>4, <1>5, <1>6 DEF Next

\* The running count of lit positions never drifts from the light that the words hold, for every size of section, word and
\* level: hasSkyLight() and hasBlockLight() say what they should, after any mix of setters, loads and recalculations.
THEOREM LightCounted == Spec => []LightIsCounted
<1>1. LightInv => LightIsCounted  BY DEF LightInv, LightIsCounted
<1>2. QED  BY <1>1, LightInitially, LightInductive, PTL DEF Spec

-----------------------------------------------------------------------------
(* Palette                                                                 *)

\* More values never need fewer bits.
LEMMA BitsNeededGrows ==
    ASSUME NEW m \in Nat, NEW n \in Nat, m <= n
    PROVE  BitsNeeded[m] \in Nat /\ BitsNeeded[n] \in Nat /\ BitsNeeded[m] <= BitsNeeded[n]
<1>1. LeastBits(m, BitsNeeded[m]) /\ LeastBits(n, BitsNeeded[n])  BY BitsNeededIsLeast
<1>2. BitsNeeded[m] \in Nat /\ BitsNeeded[n] \in Nat /\ n <= Pow2[BitsNeeded[n]]  BY <1>1 DEF LeastBits
<1>3. Pow2[BitsNeeded[n]] \in Nat  BY <1>2, Pow2Type
<1>4. m <= Pow2[BitsNeeded[n]]  BY <1>2, <1>3
<1>5. QED  BY <1>1, <1>2, <1>4 DEF LeastBits

\* Several values need a bit.
LEMMA SomeBits ==
    ASSUME NEW n \in Nat, n > 1
    PROVE  BitsNeeded[n] # 0
<1>1. LeastBits(n, BitsNeeded[n])  BY BitsNeededIsLeast
<1>2. n <= Pow2[BitsNeeded[n]]  BY <1>1 DEF LeastBits
<1>3. QED  BY <1>2, Pow2Def

\* getBits(): no bits for a single value, a width of the storage for several, never less for a longer palette.
LEMMA BitsOfPalette ==
    ASSUME kind \in {"blocks", "biomes"}, NEW palette, Len(palette) \in Nat
    PROVE  /\ Len(palette) <= 1 => GetBits(palette) = 0
           /\ Len(palette) > 1 => GetBits(palette) \in Sizes
<1> DEFINE n == Len(palette)
           bits == BitsNeeded[n]
<1>1. bits \in Nat /\ (n > 1 => bits # 0)  BY BitsNeededGrows, SomeBits
<1>2. n <= 1 => GetBits(palette) = 0  BY DEF GetBits
<1>3. ASSUME n > 1  PROVE GetBits(palette) \in Sizes
  <2>1. ~(n <= 1)  BY <1>3
  <2>2. kind = "blocks" => GetBits(palette) = IF bits <= MinBits THEN MinBits ELSE IF bits <= MaxBits THEN bits ELSE DirectBits
    BY <1>3, <2>1 DEF GetBits
  <2>3. kind = "biomes" => GetBits(palette) = IF bits <= MaxBits THEN bits ELSE MaxBits
    BY <1>3, <2>1 DEF GetBits
  <2> HIDE DEF bits, n
  <2>4. QED  BY <1>1, <1>3, <2>2, <2>3, StorageAssumption DEF Sizes
<1>4. QED  BY <1>2, <1>3

\* getBits() of a longer palette is not narrower.
LEMMA BitsOfLonger ==
    ASSUME kind \in {"blocks", "biomes"}, NEW short, NEW long,
           Len(short) \in Nat, Len(long) \in Nat, Len(short) <= Len(long), Len(short) > 1
    PROVE  GetBits(short) <= GetBits(long)
<1> DEFINE m == Len(short)
           n == Len(long)
           a == BitsNeeded[m]
           b == BitsNeeded[n]
<1>1. a \in Nat /\ b \in Nat /\ a <= b  BY BitsNeededGrows
<1>2. ~(m <= 1) /\ ~(n <= 1) /\ m > 1 /\ n > 1  OBVIOUS
<1>3. kind = "blocks" =>
        /\ GetBits(short) = IF a <= MinBits THEN MinBits ELSE IF a <= MaxBits THEN a ELSE DirectBits
        /\ GetBits(long) = IF b <= MinBits THEN MinBits ELSE IF b <= MaxBits THEN b ELSE DirectBits
  BY <1>2 DEF GetBits
<1>4. kind = "biomes" =>
        /\ GetBits(short) = IF a <= MaxBits THEN a ELSE MaxBits
        /\ GetBits(long) = IF b <= MaxBits THEN b ELSE MaxBits
  BY <1>2 DEF GetBits
<1> HIDE DEF a, b, m, n
<1>5. {MinBits, MaxBits, DirectBits} \subseteq Nat /\ MinBits <= DirectBits /\ MaxBits <= DirectBits
  BY StorageAssumption
<1>6. QED  BY <1>1, <1>3, <1>4, <1>5

\* The widths of palettes: a block palette never asks for more than the direct width, and one that has room tells all its
\* values apart.
LEMMA BitsSuffice ==
    ASSUME kind \in {"blocks", "biomes"}, NEW palette, Len(palette) \in Nat, Len(palette) > 1
    PROVE  /\ kind = "blocks" => GetBits(palette) <= DirectBits
           /\ Len(palette) <= Pow2[IF kind = "biomes" THEN MaxBits ELSE DirectBits] => Len(palette) <= Pow2[GetBits(palette)]
<1> DEFINE n == Len(palette)
           bits == BitsNeeded[n]
           g == GetBits(palette)
<1>1. bits \in Nat /\ n <= Pow2[bits] /\ Pow2[bits] \in Nat /\ n \in Nat
  <2>1. LeastBits(n, bits)  BY BitsNeededIsLeast
  <2>2. bits \in Nat /\ n <= Pow2[bits]  BY <2>1 DEF LeastBits
  <2>3. QED  BY <2>2, Pow2Type
<1>2. ~(n <= 1)  OBVIOUS
<1>3. kind = "blocks" => g = IF bits <= MinBits THEN MinBits ELSE IF bits <= MaxBits THEN bits ELSE DirectBits
  BY <1>2 DEF GetBits
<1>4. kind = "biomes" => g = IF bits <= MaxBits THEN bits ELSE MaxBits
  BY <1>2 DEF GetBits
<1>5. {MinBits, MaxBits, DirectBits} \subseteq Nat /\ MinBits <= DirectBits /\ MaxBits <= DirectBits
  BY StorageAssumption
<1> HIDE DEF n, bits, g
<1>6. bits <= MinBits => n <= Pow2[MinBits]
  <2> SUFFICES ASSUME bits <= MinBits  PROVE n <= Pow2[MinBits]  OBVIOUS
  <2>1. Pow2[bits] <= Pow2[MinBits] /\ Pow2[MinBits] \in Nat  BY <1>1, <1>5, Pow2Grows, Pow2Type
  <2>2. QED  BY <1>1, <2>1
<1>7. kind = "blocks" => g <= DirectBits  BY <1>1, <1>3, <1>5
<1>8. CASE kind = "blocks"
  <2>1. n <= Pow2[DirectBits] => n <= Pow2[g]  BY <1>1, <1>3, <1>6, <1>8
  <2>2. QED  BY <1>7, <1>8, <2>1 DEF n, g
<1>9. CASE kind = "biomes"
  <2>1. n <= Pow2[MaxBits] => n <= Pow2[g]  BY <1>1, <1>4, <1>9
  <2>2. QED  BY <1>9, <2>1 DEF n, g
<1>10. QED  BY <1>8, <1>9

\* What a palette holds: values that are written, and the numbers that states of region files get.
Numbers == Ids \cup UNION {{FromBlockToProtocolId(blocks[i]) : i \in DOMAIN blocks} : blocks \in FilePalettes}

\* A palette that grows keeps the values it has, at the indices they have, and holds the new one.
LEMMA AddKeeps ==
    ASSUME NEW palette \in Seq(Numbers), NEW id \in Numbers
    PROVE  /\ Add(palette, id) \in Seq(Numbers) /\ Len(palette) <= Len(Add(palette, id))
           /\ Len(Add(palette, id)) <= Len(palette) + 1
           /\ \A i \in 1 .. Len(palette) : Add(palette, id)[i] = palette[i]
           /\ \E i \in 1 .. Len(Add(palette, id)) : Add(palette, id)[i] = id
<1>1. CASE id \in Range(palette)
  <2>1. Add(palette, id) = palette  BY <1>1 DEF Add
  <2>2. \E i \in 1 .. Len(palette) : palette[i] = id  BY <1>1 DEF Range
  <2>3. QED  BY <2>1, <2>2
<1>2. CASE id \notin Range(palette)
  <2>1. Add(palette, id) = Append(palette, id)  BY <1>2 DEF Add
  <2>2. QED  BY <2>1
<1>3. QED  BY <1>1, <1>2

\* getId() gives an index of the palette, at which getGlobalId() finds the value.
LEMMA IdAndBack ==
    ASSUME NEW palette \in Seq(Numbers), NEW id \in Numbers, \E i \in 1 .. Len(palette) : palette[i] = id
    PROVE  /\ GetId(palette, id) \in Nat /\ GetId(palette, id) < Len(palette)
           /\ GetGlobalId(palette, GetId(palette, id)) = id
<1>1. DOMAIN palette = 1 .. Len(palette) /\ Len(palette) \in Nat  OBVIOUS
<1> DEFINE i == CHOOSE i \in DOMAIN palette : palette[i] = id
<1>2. i \in DOMAIN palette /\ palette[i] = id  BY <1>1
<1>3. GetId(palette, id) = i - 1  BY DEF GetId
<1> HIDE DEF i
<1>4. i \in Nat /\ i >= 1 /\ i <= Len(palette) /\ (i - 1) + 1 = i  BY <1>1, <1>2
<1>5. GetGlobalId(palette, i - 1) = id  BY <1>2, <1>4 DEF GetGlobalId
<1>6. QED  BY <1>3, <1>4, <1>5, <1>1

-----------------------------------------------------------------------------
(* Blocks and biomes                                                       *)

\* The inductive invariant of a storage of blocks or biomes: its width is the one the palette asks for, it has a word for
\* every position unless the palette is direct, and only a new section has still a file to read.
PaletteInv ==
  /\ kind \in {"blocks", "biomes", "light"}
  /\ kind # "light" =>
       /\ nameToId \in Seq(Numbers) /\ Len(nameToId) # 0
       /\ valueSize = GetBits(nameToId)
       /\ valueSize # 0 => \E n \in Nat : store \in [1 .. n -> Nat]
       /\ valueSize # 0 /\ ~(kind = "blocks" /\ valueSize = DirectBits) => \A p \in Positions : Reaches(store, valueSize, p)
       /\ file # Read => kind = "blocks" /\ file \in SavedSections /\ valueSize = 0

\* A new section satisfies it.
LEMMA PaletteInitially == Init => PaletteInv
<1> SUFFICES ASSUME Init  PROVE PaletteInv  OBVIOUS
<1>1. kind \in {"blocks", "biomes", "light"}  BY DEF Init
<1>2. ASSUME kind # "light"
      PROVE  /\ nameToId = <<0>> /\ valueSize = 0
             /\ file # Read => kind = "blocks" /\ file \in SavedSections
  <2>1. nameToId = <<0>> /\ valueSize = 0  BY <1>2 DEF Init
  <2>2. file # Read => kind = "blocks" /\ file \in SavedSections  BY <1>2 DEF Init
  <2>3. QED  BY <2>1, <2>2
<1>3. ASSUME kind # "light"
      PROVE  <<0>> \in Seq(Numbers) /\ Len(<<0>>) # 0 /\ GetBits(<<0>>) = 0
  <2>1. <<0>> \in Seq(Numbers) /\ Len(<<0>>) = 1
    <3>1. 0 \in Numbers  BY StorageAssumption DEF Numbers
    <3>2. QED  BY <3>1
  <2>2. kind \in {"blocks", "biomes"}  BY <1>1, <1>3
  <2>3. PICK air : air = <<0>>  OBVIOUS
  <2>4. Len(air) \in Nat /\ Len(air) <= 1  BY <2>1, <2>3
  <2>5. GetBits(air) = 0  BY <2>2, <2>4, BitsOfPalette
  <2>6. QED  BY <2>1, <2>3, <2>5
<1>4. QED  BY <1>1, <1>2, <1>3 DEF PaletteInv

\* The index that a position holds.
Index(q) == IF valueSize = 0 THEN 0 ELSE Get(store, valueSize, q)

\* What setBlock() and setBiome() leave behind: a section that is sound, in it the old values at the other positions, and
\* the value at its own position or, for want of room, the old one.
LEMMA SetBlockStep ==
    ASSUME PaletteInv, NEW p \in Positions, NEW id \in Ids, SetBlock(p, id)
    PROVE  /\ PaletteInv'
           /\ \A q \in Positions \ {p} : Content(q) # -1 => Content(q)' = Content(q)
           /\ Content(p)' = id \/ (~HasRoom /\ (Content(p) # -1 => Content(p)' = Content(p)))
<1> DEFINE palette == Add(nameToId, id)
           bits    == GetBits(palette)
           resize  == GetBits(nameToId) # bits /\ bits # 0
           size    == IF resize THEN bits ELSE valueSize
           resized == IF resize THEN Resized(store, valueSize, bits) ELSE store
           local   == GetId(palette, id)
<1>1. /\ kind \in {"blocks", "biomes"} /\ nameToId \in Seq(Numbers) /\ Len(nameToId) \in Nat \ {0}
      /\ valueSize = GetBits(nameToId) /\ id \in Numbers
      /\ valueSize # 0 => \E n \in Nat : store \in [1 .. n -> Nat]
      /\ valueSize # 0 /\ ~(kind = "blocks" /\ valueSize = DirectBits) => \A q \in Positions : Reaches(store, valueSize, q)
  BY DEF PaletteInv, SetBlock, Numbers
<1>2. /\ nameToId' = palette /\ valueSize' = size /\ kind' = kind /\ file' = Read
      /\ store' = IF size = 0 \/ local > Pow2[size] - 1 THEN resized ELSE Put(resized, size, p, local)
  BY DEF SetBlock
<1>3. /\ palette \in Seq(Numbers) /\ Len(palette) \in Nat /\ Len(nameToId) <= Len(palette)
      /\ Len(palette) <= Len(nameToId) + 1
      /\ \A i \in 1 .. Len(nameToId) : palette[i] = nameToId[i]
      /\ \E i \in 1 .. Len(palette) : palette[i] = id
  <2>1. /\ palette \in Seq(Numbers) /\ Len(nameToId) <= Len(palette)
        /\ Len(palette) <= Len(nameToId) + 1
        /\ \A i \in 1 .. Len(nameToId) : palette[i] = nameToId[i]
        /\ \E i \in 1 .. Len(palette) : palette[i] = id
    BY <1>1, AddKeeps
  <2> HIDE DEF palette
  <2>2. QED  BY <2>1
<1>4. local \in Nat /\ local < Len(palette) /\ GetGlobalId(palette, local) = id  BY <1>1, <1>3, IdAndBack
<1>5. size = bits
  <2>1. CASE bits = 0
    <3>1. ~(Len(palette) > 1)
      <4>1. 0 \notin Sizes  BY StorageAssumption DEF Sizes
      <4>2. QED  BY <1>1, <1>3, <2>1, <4>1, BitsOfPalette
    <3>2. Len(nameToId) <= 1  BY <1>1, <1>3, <3>1
    <3>3. valueSize = 0  BY <1>1, <3>2, BitsOfPalette
    <3>4. QED  BY <2>1, <3>3
  <2>2. CASE bits # 0  BY <1>1, <2>2
  <2>3. QED  BY <2>1, <2>2
<1>6. GetBits(nameToId)' = bits  BY <1>2 DEF GetBits
<1>7. /\ valueSize # 0 => valueSize \in Sizes /\ Len(nameToId) > 1
      /\ size # 0 => size \in Sizes /\ size \in Nat /\ Len(palette) > 1
  <2>1. Len(nameToId) <= 1 => valueSize = 0  BY <1>1, BitsOfPalette
  <2>2. Len(nameToId) > 1 => valueSize \in Sizes  BY <1>1, BitsOfPalette
  <2>3. Len(palette) <= 1 => bits = 0  BY <1>1, <1>3, BitsOfPalette
  <2>4. Len(palette) > 1 => bits \in Sizes  BY <1>1, <1>3, BitsOfPalette
  <2>5. \A x \in Sizes : x \in Nat  BY StorageAssumption DEF Sizes
  <2> HIDE DEF palette, bits, size
  <2>6. QED  BY <1>1, <1>3, <1>5, <2>1, <2>2, <2>3, <2>4, <2>5
<1>8. \A q \in Positions : Content(q) = GetGlobalId(nameToId, Index(q))
  <2>1. 0 + 1 \in DOMAIN nameToId /\ 0 + 1 = 1  BY <1>1
  <2>2. QED  BY <2>1 DEF Content, Index, GetGlobalId
<1>9. \A k : GetGlobalId(nameToId, k) # -1 => GetGlobalId(palette, k) = GetGlobalId(nameToId, k)
  <2> SUFFICES ASSUME NEW k, k + 1 \in DOMAIN nameToId  PROVE GetGlobalId(palette, k) = GetGlobalId(nameToId, k)
    BY DEF GetGlobalId
  <2>1. k + 1 \in 1 .. Len(nameToId) /\ k + 1 \in 1 .. Len(palette)
    <3> HIDE DEF palette
    <3>1. QED  BY <1>1, <1>3
  <2>2. k + 1 \in DOMAIN palette /\ palette[k + 1] = nameToId[k + 1]
    <3> HIDE DEF palette
    <3>1. QED  BY <1>3, <2>1
  <2>3. QED  BY <2>2 DEF GetGlobalId
<1> HIDE DEF palette, local
<1>10. CASE size = 0
  <2>1. Len(palette) <= 1
    <3>1. 0 \notin Sizes  BY StorageAssumption DEF Sizes
    <3>2. ~(Len(palette) > 1)  BY <1>1, <1>3, <1>5, <1>10, <3>1, BitsOfPalette
    <3>3. QED  BY <3>2, <1>3
  <2>2. Len(nameToId) = 1 /\ Len(palette) = 1 /\ valueSize = 0
    <3>1. Len(nameToId) \in Nat \ {0} /\ Len(palette) \in Nat /\ Len(nameToId) <= Len(palette)  BY <1>1, <1>3
    <3>2. Len(nameToId) = 1 /\ Len(palette) = 1
      <4> DEFINE x == Len(nameToId)
                 y == Len(palette)
      <4>1. x \in Nat \ {0} /\ y \in Nat /\ x <= y /\ y <= 1  BY <2>1, <3>1
      <4> HIDE DEF x, y
      <4>2. x = 1 /\ y = 1  BY <4>1
      <4>3. QED  BY <4>2 DEF x, y
    <3>3. Len(nameToId) <= 1  BY ONLY <3>2
    <3>4. valueSize = 0  BY <1>1, <3>3, BitsOfPalette
    <3>5. QED  BY <3>2, <3>4
  <2>3. palette[1] = id /\ nameToId[1] = id  BY <1>3, <2>2
  <2>4. \A q \in Positions : Content(q)' = id /\ Content(q) = id
    BY <1>2, <1>10, <2>2, <2>3 DEF Content
  <2>5. PaletteInv'
    <3>1. nameToId' \in Seq(Numbers) /\ Len(nameToId') # 0  BY <1>2, <1>3, <2>2
    <3>2. valueSize' = GetBits(nameToId)'  BY <1>2, <1>5, <1>6
    <3>3. kind' \in {"blocks", "biomes", "light"} /\ file' = Read /\ valueSize' = 0  BY <1>1, <1>2, <1>10
    <3>4. QED  BY <3>1, <3>2, <3>3 DEF PaletteInv
  <2>6. QED  BY <2>4, <2>5
<1>11. CASE size # 0
  <2>1. size \in Sizes /\ size \in Nat /\ Pow2[size] \in Nat  BY <1>7, <1>11, Pow2Type
  <2>2. /\ \E n \in Nat : resized \in [1 .. n -> Nat]
        /\ \A q \in Positions : Get(resized, size, q) = Index(q)
        /\ HasRoom \/ ~(kind = "blocks" /\ size = DirectBits) => \A q \in Positions : Reaches(resized, size, q)
    <3>1. CASE valueSize = 0
      <4>1. resize  BY <1>1, <1>5, <1>11, <3>1
      <4>2. resized = Blank(bits)
        <5>1. bits # 0  BY <4>1
        <5> HIDE DEF bits
        <5>2. QED  BY <3>1, <4>1, <5>1 DEF Resized
      <4> HIDE DEF resized, resize, size, bits
      <4>3. resized \in Stores(size) /\ \A q \in Positions : Get(resized, size, q) = 0  BY <1>5, <2>1, <4>2, BlankStore
      <4>4. \A q \in Positions : Reaches(resized, size, q)  BY <2>1, <4>3, StoresReach
      <4>5. \E n \in Nat : resized \in [1 .. n -> Nat]  BY <2>1, <4>3, PerWordType DEF Stores
      <4>6. QED  BY <3>1, <4>3, <4>4, <4>5 DEF Index
    <3>2. CASE valueSize # 0 /\ resize
      <4>1. valueSize \in Sizes /\ Len(nameToId) > 1  BY <1>7, <3>2
      <4>2. GetBits(nameToId) <= GetBits(palette)  BY <1>1, <1>3, <4>1, BitsOfLonger
      <4>3. valueSize <= size /\ valueSize # size /\ resized = Resized(store, valueSize, size)  BY <1>1, <1>5, <3>2, <4>2
      <4>4. kind = "blocks" => size <= DirectBits  BY <1>1, <1>3, <1>5, <1>7, <1>11, BitsSuffice
      <4> HIDE DEF resized, resize, size, bits
      <4>5. valueSize < size /\ ~(kind = "blocks" /\ valueSize = DirectBits)
        <5>1. valueSize \in Nat /\ DirectBits \in Nat  BY <4>1, StorageAssumption DEF Sizes
        <5>2. valueSize < size  BY <2>1, <4>3, <5>1
        <5>3. QED  BY <2>1, <4>4, <5>1, <5>2
      <4>6. \A q \in Positions : Reaches(store, valueSize, q)  BY <1>1, <3>2, <4>5
      <4>7. PICK n \in Nat : store \in [1 .. n -> Nat]  BY <1>1, <3>2
      <4>8. resized \in Stores(size) /\ \A q \in Positions : Get(resized, size, q) = Get(store, valueSize, q)
        BY <2>1, <4>1, <4>3, <4>5, <4>6, <4>7, ResizeKeeps
      <4>9. \A q \in Positions : Reaches(resized, size, q)  BY <2>1, <4>8, StoresReach
      <4>10. \E k \in Nat : resized \in [1 .. k -> Nat]  BY <2>1, <4>8, PerWordType DEF Stores
      <4>11. QED  BY <3>2, <4>8, <4>9, <4>10 DEF Index
    <3>3. CASE valueSize # 0 /\ ~resize
      <4>1. resized = store /\ size = valueSize  BY <3>3
      <4>2. HasRoom => \A q \in Positions : Reaches(store, valueSize, q)  BY <3>3 DEF HasRoom, Reaches
      <4> HIDE DEF resized, resize, size, bits
      <4>3. QED  BY <1>1, <3>3, <4>1, <4>2 DEF Index
    <3>4. QED  BY <3>1, <3>2, <3>3
  <2> HIDE DEF bits, resize, size, resized
  <2>3. PICK n \in Nat : resized \in [1 .. n -> Nat]  BY <2>2
  <2>4. HasRoom => ~(local > Pow2[size] - 1)
    <3> SUFFICES ASSUME HasRoom  PROVE ~(local > Pow2[size] - 1)  OBVIOUS
    <3> DEFINE w == IF kind = "biomes" THEN MaxBits ELSE DirectBits
    <3>1. Len(nameToId) < Pow2[w]  BY DEF HasRoom
    <3>2. w \in Nat  BY StorageAssumption
    <3>3. Pow2[w] \in Nat  BY <3>2, Pow2Type
    <3>4. Len(palette) <= Pow2[w] => Len(palette) <= Pow2[size]
      BY <1>1, <1>3, <1>5, <1>7, <1>11, BitsSuffice DEF bits
    <3> HIDE DEF w
    <3>5. QED  BY <1>1, <1>3, <1>4, <2>1, <3>1, <3>3, <3>4
  <2>5. CASE local > Pow2[size] - 1 \/ ~Reaches(resized, size, p)
    <3>1. store' = resized
      <4>1. CASE local > Pow2[size] - 1  BY <1>2, <4>1
      <4>2. CASE ~(local > Pow2[size] - 1) /\ ~Reaches(resized, size, p)
        <5>1. Put(resized, size, p, local) = resized  BY <4>2 DEF Put, Reaches
        <5>2. QED  BY <1>2, <1>11, <4>2, <5>1
      <4>3. QED  BY <2>5, <4>1, <4>2
    <3>2. ~HasRoom  BY <2>2, <2>4, <2>5
    <3>3. \A q \in Positions : Content(q)' = GetGlobalId(palette, Index(q))
      <4>1. \A q \in Positions : Content(q)' = GetGlobalId(palette, Get(store', size, q))
        BY <1>2, <1>11 DEF Content, GetGlobalId
      <4>2. QED  BY <2>2, <3>1, <4>1
    <3>4. \A q \in Positions : Content(q) # -1 => Content(q)' = Content(q)  BY <1>8, <1>9, <3>3
    <3>5. PaletteInv'
      <4>1. nameToId' \in Seq(Numbers) /\ Len(nameToId') # 0  BY <1>1, <1>2, <1>3
      <4>2. valueSize' = GetBits(nameToId)'  BY <1>2, <1>5, <1>6
      <4>3. \E k \in Nat : store' \in [1 .. k -> Nat]  BY <2>3, <3>1
      <4>4. valueSize' # 0 /\ ~(kind' = "blocks" /\ valueSize' = DirectBits)
              => \A q \in Positions : Reaches(store', valueSize', q)
        BY <1>2, <2>2, <3>1
      <4>5. file' = Read /\ kind' \in {"blocks", "biomes", "light"}  BY <1>1, <1>2
      <4>6. QED  BY <4>1, <4>2, <4>3, <4>4, <4>5 DEF PaletteInv, Reaches
    <3>6. QED  BY <3>2, <3>4, <3>5
  <2>6. CASE ~(local > Pow2[size] - 1) /\ Reaches(resized, size, p)
    <3>1. local < Pow2[size]  BY <1>4, <2>1, <2>6
    <3>2. store' = Put(resized, size, p, local)  BY <1>2, <1>11, <2>6
    <3>3. store' \in [1 .. n -> Nat]  BY <1>4, <2>1, <2>3, <3>1, <3>2, PutType
    <3>4. \A q \in Positions : Get(store', size, q) = IF p = q THEN local ELSE Get(resized, size, q)
      BY <1>4, <2>1, <2>3, <2>6, <3>1, <3>2, GetPut
    <3>5. \A q \in Positions : Content(q)' = GetGlobalId(palette, Get(store', size, q))
      BY <1>2, <1>11 DEF Content, GetGlobalId
    <3>6. Content(p)' = id  BY <1>4, <3>4, <3>5
    <3>7. \A q \in Positions \ {p} : Content(q)' = GetGlobalId(palette, Index(q))  BY <2>2, <3>4, <3>5
    <3>8. \A q \in Positions \ {p} : Content(q) # -1 => Content(q)' = Content(q)  BY <1>8, <1>9, <3>7
    <3>9. PaletteInv'
      <4>1. nameToId' \in Seq(Numbers) /\ Len(nameToId') # 0  BY <1>1, <1>2, <1>3
      <4>2. valueSize' = GetBits(nameToId)'  BY <1>2, <1>5, <1>6
      <4>3. \E k \in Nat : store' \in [1 .. k -> Nat]  BY <3>3
      <4>4. valueSize' # 0 /\ ~(kind' = "blocks" /\ valueSize' = DirectBits)
              => \A q \in Positions : Reaches(store', valueSize', q)
        <5>1. DOMAIN store' = DOMAIN resized  BY <2>3, <3>3
        <5>2. QED  BY <1>2, <2>2, <5>1 DEF Reaches
      <4>5. file' = Read /\ kind' \in {"blocks", "biomes", "light"}  BY <1>1, <1>2
      <4>6. QED  BY <4>1, <4>2, <4>3, <4>4, <4>5 DEF PaletteInv, Reaches
    <3>10. QED  BY <3>6, <3>8, <3>9
  <2>7. QED  BY <2>5, <2>6
<1>12. QED  BY <1>10, <1>11

-----------------------------------------------------------------------------
(* Numbers of block states                                                 *)

\* A weight is the product of the numbers of values of the later properties.
LEMMA WeightsMultiply ==
    ASSUME NEW b, NEW m \in Nat, Len(b.properties) = m,
           \A k \in 1 .. m : Len(b.properties[k].values) \in Nat
    PROVE  /\ MaxThingy(b) \in [0 .. m -> Int] /\ MaxThingy(b)[0] = 0
           /\ \A i \in 1 .. m :
                MaxThingy(b)[m - i + 1] + 1 = (MaxThingy(b)[m - i] + 1) * Len(b.properties[i].values)
<1> DEFINE c(k) == Len(b.properties[m - k + 1].values)
           g == [p \in (1 .. m) \X Int |-> p[2] + (p[2] + 1) * (c(p[1]) - 1)]
           F == CHOOSE maxThingy : maxThingy = [k \in 0 .. m |->
                  IF k = 0 THEN 0
                  ELSE maxThingy[k - 1] + (maxThingy[k - 1] + 1) * (Len(b.properties[m - k + 1].values) - 1)]
<1>1. \A k \in 1 .. m : m - k + 1 \in 1 .. m /\ c(k) \in Nat  OBVIOUS
<1> HIDE DEF c
<1>2. g \in [(1 .. m) \X Int -> Int] /\ 0 \in Int
  <2>1. ASSUME NEW k \in 1 .. m, NEW x \in Int  PROVE x + (x + 1) * (c(k) - 1) \in Int  BY <1>1
  <2>2. QED  BY <2>1
<1>3. PICK s \in [0 .. m -> Int] : IsLoop(s, m, 0, g)
  <2> HIDE DEF g
  <2>1. QED  BY <1>2, LoopExists
<1>4. s = [k \in 0 .. m |-> IF k = 0 THEN 0 ELSE s[k - 1] + (s[k - 1] + 1) * (c(k) - 1)]
  <2>1. s[0] = 0  BY <1>3 DEF IsLoop
  <2>2. ASSUME NEW k \in 1 .. m  PROVE s[k] = s[k - 1] + (s[k - 1] + 1) * (c(k) - 1)
    <3>1. s[k] = g[<<k, s[k - 1]>>]  BY <1>3 DEF IsLoop
    <3>2. <<k, s[k - 1]>> \in (1 .. m) \X Int  OBVIOUS
    <3>3. QED  BY <3>1, <3>2
  <2> HIDE DEF g
  <2>3. QED  BY <2>1, <2>2
<1>5. MaxThingy(b) = F  BY DEF MaxThingy
<1>6. F = [k \in 0 .. m |-> IF k = 0 THEN 0 ELSE F[k - 1] + (F[k - 1] + 1) * (c(k) - 1)]
  BY <1>4 DEF c
<1> HIDE DEF F
<1>7. F[0] = 0 /\ \A k \in 1 .. m : F[k] = F[k - 1] + (F[k - 1] + 1) * (c(k) - 1)  BY <1>6
<1>8. \A k \in 0 .. m : F[k] \in Int
  <2> DEFINE S == {k \in 0 .. m : F[k] \in Int}
  <2>1. 0 \in S  BY <1>7
  <2>2. ASSUME NEW k \in 1 .. m, k - 1 \in S  PROVE k \in S
    <3>1. F[k] = F[k - 1] + (F[k - 1] + 1) * (c(k) - 1) /\ F[k - 1] \in Int /\ c(k) \in Nat
      BY <1>1, <1>7, <2>2
    <3>2. F[k] \in Int  BY <3>1
    <3>3. QED  BY <3>2
  <2>3. \A k \in 0 .. m : k \in S
    <3> HIDE DEF S
    <3>1. QED  BY <2>1, <2>2, BoundedInduction
  <2>4. QED  BY <2>3
<1>9. F \in [0 .. m -> Int]  BY <1>6, <1>8
<1>10. ASSUME NEW i \in 1 .. m
       PROVE  F[m - i + 1] + 1 = (F[m - i] + 1) * Len(b.properties[i].values)
  <2> DEFINE k == m - i + 1
             n == Len(b.properties[i].values)
             x == F[m - i]
  <2>1. k \in 1 .. m /\ k - 1 = m - i /\ m - k + 1 = i /\ m - i \in 0 .. m  OBVIOUS
  <2>2. c(k) = n /\ n \in Nat  BY <2>1 DEF c
  <2>3. x \in Int  BY <1>9, <2>1
  <2>4. F[k] = x + (x + 1) * (n - 1)  BY <1>7, <2>1, <2>2
  <2> HIDE DEF k, n, x
  <2>5. F[k] + 1 = (x + 1) * n  BY <2>2, <2>3, <2>4
  <2>6. QED  BY <2>5 DEF k, n, x
<1>11. QED  BY <1>5, <1>7, <1>9, <1>10

\* A loop that multiplies and adds.
IsHorner(f, m, x0, c, y) == f = [i \in 0 .. m |-> IF i = 0 THEN x0 ELSE f[i - 1] * c[i] + y[i]]

\* There is one for all factors and summands.
LEMMA HornerExists ==
    ASSUME NEW m \in Nat, NEW x0 \in Int, NEW c \in [1 .. m -> Int], NEW y \in [1 .. m -> Int]
    PROVE  \E f : IsHorner(f, m, x0, c, y)
<1> DEFINE g == [p \in (1 .. m) \X Int |-> p[2] * c[p[1]] + y[p[1]]]
<1>1. g \in [(1 .. m) \X Int -> Int]
  <2>1. ASSUME NEW k \in 1 .. m, NEW x \in Int  PROVE x * c[k] + y[k] \in Int  OBVIOUS
  <2>2. QED  BY <2>1
<1>2. PICK s \in [0 .. m -> Int] : IsLoop(s, m, x0, g)
  <2> HIDE DEF g
  <2>1. QED  BY <1>1, LoopExists
<1>3. IsHorner(s, m, x0, c, y)
  <2>1. s[0] = x0  BY <1>2 DEF IsLoop
  <2>2. ASSUME NEW k \in 1 .. m  PROVE s[k] = s[k - 1] * c[k] + y[k]
    <3>1. s[k] = g[<<k, s[k - 1]>>]  BY <1>2 DEF IsLoop
    <3>2. <<k, s[k - 1]>> \in (1 .. m) \X Int  OBVIOUS
    <3>3. QED  BY <3>1, <3>2
  <2> HIDE DEF g
  <2>3. QED  BY <2>1, <2>2 DEF IsHorner
<1>4. QED  BY <1>3

\* The steps of such a loop.
MultipliesAndAdds(f, m, x0, c, y) ==
  f \in [0 .. m -> Int] /\ f[0] = x0 /\ \A i \in 1 .. m : f[i] = f[i - 1] * c[i] + y[i]

\* Its results are numbers, and each follows from the one before.
LEMMA HornerNumbers ==
    ASSUME NEW m \in Nat, NEW x0 \in Int, NEW c \in [1 .. m -> Int], NEW y \in [1 .. m -> Int],
           NEW f, IsHorner(f, m, x0, c, y)
    PROVE  MultipliesAndAdds(f, m, x0, c, y)
<1>1. f[0] = x0 /\ \A i \in 1 .. m : f[i] = f[i - 1] * c[i] + y[i]  BY DEF IsHorner
<1> DEFINE S == {i \in 0 .. m : f[i] \in Int}
<1>2. 0 \in S  BY <1>1
<1>3. ASSUME NEW i \in 1 .. m, i - 1 \in S  PROVE i \in S
  <2>1. f[i] = f[i - 1] * c[i] + y[i] /\ f[i - 1] \in Int /\ c[i] \in Int /\ y[i] \in Int  BY <1>1, <1>3
  <2>2. f[i] \in Int  BY <2>1
  <2>3. QED  BY <2>2
<1>4. \A i \in 0 .. m : i \in S
  <2> HIDE DEF S
  <2>1. QED  BY <1>2, <1>3, BoundedInduction
<1>5. f \in [0 .. m -> Int]  BY <1>4 DEF IsHorner
<1>6. QED  BY <1>1, <1>5 DEF MultipliesAndAdds

\* Weights of the digits of a number, by the number of later digits: each is the product of the sizes of these.
AreWeights(w, m, c) == w \in [0 .. m -> Int] /\ w[0] = 1 /\ \A i \in 1 .. m : w[m - i + 1] = w[m - i] * c[i]

\* A loop that adds each digit with its weight.
AddsUp(sum, m, base, w, x) ==
  sum \in [0 .. m -> Int] /\ sum[0] = base /\ \A i \in 1 .. m : sum[i] = sum[i - 1] + w[m - i] * x[i]

\* Adding each digit with its weight gives the same number as multiplying and adding, when a weight is the product of the
\* sizes of the later digits.
LEMMA WeightsGiveRank ==
    ASSUME NEW m \in Nat, NEW base \in Int, NEW c, NEW x, NEW w, NEW sum, NEW rank,
           c \in [1 .. m -> Int], x \in [1 .. m -> Int],
           AreWeights(w, m, c), AddsUp(sum, m, base, w, x), IsHorner(rank, m, 0, c, x)
    PROVE  sum[m] = base + rank[m]
<1> USE DEF AreWeights, AddsUp
<1>0. rank \in [0 .. m -> Int] /\ rank[0] = 0 /\ \A i \in 1 .. m : rank[i] = rank[i - 1] * c[i] + x[i]
  <2>1. 0 \in Int  OBVIOUS
  <2>2. MultipliesAndAdds(rank, m, 0, c, x)  BY <2>1, HornerNumbers
  <2>3. QED  BY <2>2 DEF MultipliesAndAdds
<1> DEFINE S == {i \in 0 .. m : sum[i] = base + rank[i] * w[m - i]}
<1>1. 0 \in S
  <2>1. m \in 0 .. m /\ m - 0 = m /\ w[m] \in Int  OBVIOUS
  <2>2. QED  BY <1>0, <2>1
<1>2. ASSUME NEW i \in 1 .. m, i - 1 \in S  PROVE i \in S
  <2> DEFINE a == rank[i - 1]
             u == w[m - i]
             d == c[i]
             z == x[i]
  <2>1. m - (i - 1) = m - i + 1 /\ m - i \in 0 .. m /\ i - 1 \in 0 .. m  OBVIOUS
  <2>2. a \in Int /\ u \in Int /\ d \in Int /\ z \in Int  BY <1>0, <2>1
  <2>3. sum[i - 1] = base + a * (u * d)
    <3>1. sum[i - 1] = base + a * w[m - (i - 1)]  BY <1>2
    <3>2. w[m - (i - 1)] = u * d  BY <2>1
    <3> HIDE DEF a, u, d
    <3>3. QED  BY <3>1, <3>2
  <2>4. sum[i] = sum[i - 1] + u * z /\ rank[i] = a * d + z  BY <1>0
  <2>5. i \in 0 .. m  OBVIOUS
  <2>6. sum[i] = base + rank[i] * u
    <3> HIDE DEF a, u, d, z
    <3>1. a * (u * d) + u * z = (a * d + z) * u  BY <2>2
    <3>2. a * (u * d) \in Int /\ u * z \in Int  BY <2>2
    <3>3. QED  BY <2>3, <2>4, <3>1, <3>2
  <2>7. QED  BY <2>5, <2>6
<1>3. \A i \in 0 .. m : i \in S
  <2> HIDE DEF S
  <2>1. QED  BY <1>1, <1>2, BoundedInduction
<1>4. sum[m] = base + rank[m] * w[m - m]  BY <1>3
<1>5. QED  BY <1>0, <1>4

\* A block has as many names as properties.
LEMMA NamesCounted ==
    ASSUME NEW m \in Nat, NEW name, \A k, l \in 1 .. m : name[k] = name[l] => k = l,
           NEW D \in SUBSET {name[k] : k \in 1 .. m}, Cardinality(D) = m
    PROVE  D = {name[k] : k \in 1 .. m}
<1> DEFINE f == [k \in 1 .. m |-> name[k]]
           N == {name[k] : k \in 1 .. m}
<1>1. f \in [1 .. m -> N] /\ (\A n \in N : \E k \in 1 .. m : f[k] = n) /\ \A k, l \in 1 .. m : f[k] = f[l] => k = l
  OBVIOUS
<1>2. IsFiniteSet(1 .. m) /\ Cardinality(1 .. m) = m
  <2>1. m \in Int /\ 1 \in Int  OBVIOUS
  <2>2. QED  BY <2>1, FS_Interval
<1> HIDE DEF f, N
<1>3. f \in Surjection(1 .. m, N)  BY <1>1 DEF Surjection
<1>4. f \in Injection(1 .. m, N)  BY <1>1 DEF Injection, IsInjective
<1>5. IsFiniteSet(N) /\ Cardinality(N) = m  BY <1>2, <1>3, <1>4, FS_Surjection
<1>6. D \in SUBSET N  BY DEF N
<1>7. D = N  BY <1>5, <1>6, FS_Subset
<1>8. QED  BY <1>7 DEF N

\* The number of a state that the converter adds up from the weights of its properties is the rank of the state among those
\* of its block, whatever the properties it leaves out, as long as the weights it is made of fit into their type: those of
\* the properties that do not have their first value.  The other weights of the block, and those of other blocks, may be
\* cut off.
THEOREM StatesAreNumbered ==
    ASSUME BlocksDescribed, NEW block, IsState(block), IsCounted(block)
    PROVE  FromBlockToProtocolId(block) = StateNumber(block) /\ StateNumber(block) \in Int
<1>1. PICK j \in DOMAIN BlockList :
        BlockList[j].name = block.name /\ HasProperties(BlockList[j], block.properties)
  BY DEF IsState
<1> DEFINE b == BlockList[j]
           m == Len(b.properties)
           given == block.properties
           full == WithDefaults(given, b.default)
           props == Completed(b, given)
           Names == {b.properties[k].name : k \in 1 .. m}
           found == {i \in DOMAIN BlockList : BlockList[i].name = block.name}
<1>2. \A i \in DOMAIN BlockList : BlockList[i].name = block.name => i = j
  BY <1>1 DEF BlocksDescribed
<1>3. /\ b.base \in Nat /\ m \in Nat /\ DOMAIN b.properties = 1 .. m
      /\ \A k \in 1 .. m :
           /\ Len(b.properties[k].values) \in Nat
           /\ DOMAIN b.properties[k].values = 1 .. Len(b.properties[k].values)
           /\ \A l \in 1 .. m : b.properties[k].name = b.properties[l].name => k = l
      /\ DOMAIN b.default = Names /\ HasProperties(b, b.default)
  BY DEF BlocksDescribed
<1>4. HasProperties(b, given)  BY <1>1
<1>5. (CHOOSE i \in found : TRUE) = j /\ (CHOOSE i \in DOMAIN BlockList : BlockList[i].name = block.name) = j /\ found # {}
  <2>1. found = {j}  BY <1>1, <1>2
  <2>2. QED  BY <1>1, <1>2, <2>1
<1>0. \A i \in DOMAIN b.properties :
        IndexOf(b.properties[i].values, full[b.properties[i].name]) # 0 => WeightFits(b, i)
  BY <1>5 DEF IsCounted
<1> HIDE DEF b
<1>6. DOMAIN given \subseteq Names
  BY <1>3, <1>4 DEF HasProperties
<1>7. DOMAIN full = Names  BY <1>3, <1>6 DEF WithDefaults
<1>8. HasProperties(b, full)
  <2>1. ASSUME NEW n \in Names
        PROVE  \E i \in DOMAIN b.properties : b.properties[i].name = n /\ Contains(b.properties[i].values, full[n])
    <3>1. CASE n \in DOMAIN given
      <4>1. full[n] = given[n]  BY <3>1 DEF WithDefaults
      <4>2. QED  BY <1>4, <3>1, <4>1 DEF HasProperties
    <3>2. CASE n \notin DOMAIN given
      <4>1. full[n] = b.default[n]  BY <1>3, <3>2 DEF WithDefaults
      <4>2. QED  BY <1>3, <4>1 DEF HasProperties
    <3>3. QED  BY <3>1, <3>2
  <2>2. QED  BY <1>7, <2>1 DEF HasProperties
<1>9. DOMAIN props = Names /\ \A n \in Names : props[n] = full[n]
  <2>1. CASE Cardinality(DOMAIN given) = m
    <3> DEFINE name == [k \in 1 .. m |-> b.properties[k].name]
    <3>1. Names = {name[k] : k \in 1 .. m} /\ \A k, l \in 1 .. m : name[k] = name[l] => k = l  BY <1>3, ZenonT(40)
    <3>2. DOMAIN given = Names
      <4> HIDE DEF name
      <4>1. DOMAIN given \in SUBSET {name[k] : k \in 1 .. m}  BY <1>6, <3>1
      <4>2. DOMAIN given = {name[k] : k \in 1 .. m}
        <5> HIDE DEF m
        <5>1. m \in Nat  BY <1>3 DEF m
        <5>2. Cardinality(DOMAIN given) = m  BY <2>1 DEF m
        <5>3. QED  BY <3>1, <4>1, <5>1, <5>2, NamesCounted
      <4>3. QED  BY <3>1, <4>2
    <3>3. props = given  BY <2>1 DEF Completed
    <3>4. QED  BY <3>2, <3>3 DEF WithDefaults
  <2>2. CASE Cardinality(DOMAIN given) # m
    <3>1. props = full  BY <2>2 DEF Completed
    <3>2. QED  BY <1>7, <3>1
  <2>3. QED  BY <2>1, <2>2
<1> HIDE DEF props, full
<1>10. HasProperties(b, props)
  BY <1>7, <1>8, <1>9 DEF HasProperties
<1> DEFINE x == [i \in 1 .. m |-> IndexOf(b.properties[i].values, full[b.properties[i].name])]
           c == [i \in 1 .. m |-> Len(b.properties[i].values)]
           one == [i \in 1 .. m |-> 1]
           part == [i \in 1 .. m |-> BaseWeight(b, i) * x[i]]
           w == [k \in 0 .. m |-> MaxThingy(b)[k] + 1]
<1>11. x \in [1 .. m -> Int]
  <2>1. ASSUME NEW i \in 1 .. m  PROVE IndexOf(b.properties[i].values, full[b.properties[i].name]) \in Int
    <3> DEFINE v == full[b.properties[i].name]
               s == b.properties[i].values
    <3>1. Contains(s, v)
      <4>1. b.properties[i].name \in DOMAIN full  BY <1>7
      <4>2. PICK k \in 1 .. m : b.properties[k].name = b.properties[i].name /\ Contains(b.properties[k].values, v)
        BY <1>3, <1>8, <4>1 DEF HasProperties
      <4>3. k = i  BY <1>3, <4>2
      <4>4. QED  BY <4>2, <4>3
    <3>2. DOMAIN s = 1 .. Len(s) /\ Len(s) \in Nat  BY <1>3
    <3> HIDE DEF s, v
    <3>3. \E k \in DOMAIN s : s[k] = v  BY <3>1, <3>2 DEF Contains
    <3>4. (CHOOSE k \in DOMAIN s : s[k] = v) \in 1 .. Len(s)  BY <3>2, <3>3
    <3>5. IndexOf(s, v) \in Int  BY <3>2, <3>4 DEF IndexOf
    <3>6. QED  BY <3>5 DEF s, v
  <2>2. QED  BY <2>1
<1>12. c \in [1 .. m -> Int] /\ one \in [1 .. m -> Int] /\ m \in Nat /\ b.base \in Int  BY <1>3
<1>13. /\ MaxThingy(b) \in [0 .. m -> Int] /\ MaxThingy(b)[0] = 0
       /\ \A i \in 1 .. m : MaxThingy(b)[m - i + 1] + 1 = (MaxThingy(b)[m - i] + 1) * Len(b.properties[i].values)
  <2>1. \A k \in 1 .. m : Len(b.properties[k].values) \in Nat  BY <1>3
  <2>2. QED  BY <1>3, <2>1, WeightsMultiply
<1>14. AreWeights(w, m, c)
  <2>1. w \in [0 .. m -> Int] /\ w[0] = 1  BY <1>3, <1>13
  <2>2. ASSUME NEW i \in 1 .. m  PROVE w[m - i + 1] = w[m - i] * c[i]
    <3>1. m - i + 1 \in 0 .. m /\ m - i \in 0 .. m  BY <1>3
    <3>2. QED  BY <1>13, <3>1
  <2>3. QED  BY <2>1, <2>2 DEF AreWeights
<1>15. \A i \in 1 .. m : part[i] = w[m - i] * x[i]
  <2>1. ASSUME NEW i \in 1 .. m  PROVE part[i] = w[m - i] * x[i]
    <3>1. m - i \in 0 .. m  BY <1>3
    <3>2. CASE x[i] # 0
      <4>1. WeightFits(b, i)  BY <1>0, <1>3, <3>2
      <4>2. BaseWeight(b, i) = w[m - i]  BY <3>1, <4>1 DEF WeightFits
      <4>3. QED  BY <4>2
    <3>3. CASE x[i] = 0
      <4> DEFINE u == MaxThingy(b)[m - i] + 1
                 P == Pow2[WeightBits]
                 bw == BaseWeight(b, i)
      <4>1. u \in Int /\ P \in Nat \ {0} /\ bw = u % P
        <5>1. u \in Int
          <6>1. w[m - i] \in Int  BY <1>14, <3>1 DEF AreWeights
          <6>2. w[m - i] = u  BY <3>1
          <6>3. QED  BY <6>1, <6>2
        <5>2. P \in Nat \ {0}  BY WeightAssumption, Pow2Type
        <5>3. bw = u % P  BY DEF BaseWeight
        <5>4. QED  BY <5>1, <5>2, <5>3
      <4> HIDE DEF u, P, bw
      <4>2. bw \in Int  BY <4>1, DivMod
      <4>3. bw * 0 = 0  BY <4>2
      <4>4. part[i] = bw * x[i]  BY DEF bw
      <4>5. part[i] = 0
        <5> HIDE DEF part, x
        <5>1. QED  BY <3>3, <4>3, <4>4
      <4>6. w[m - i] \in Int  BY <1>14, <3>1 DEF AreWeights
      <4>7. w[m - i] * x[i] = 0
        <5> HIDE DEF w, x
        <5>1. QED  BY <3>3, <4>6
      <4>8. QED  BY <4>5, <4>7
    <3>4. QED  BY <3>2, <3>3
  <2>2. QED  BY <2>1
<1>16. part \in [1 .. m -> Int]
  <2> HIDE DEF w, x
  <2>1. ASSUME NEW i \in 1 .. m  PROVE part[i] \in Int
    <3>1. m - i \in 0 .. m  BY <1>3
    <3>2. w[m - i] \in Int /\ x[i] \in Int  BY <1>11, <1>14, <3>1 DEF AreWeights
    <3> HIDE DEF part
    <3>3. QED  BY <1>15, <3>2
  <2>2. QED  BY <2>1
<1> DEFINE Part(i) == IF b.properties[i].name \notin DOMAIN props THEN 0
                      ELSE BaseWeight(b, i) * IndexOf(b.properties[i].values, props[b.properties[i].name])
           sum == CHOOSE f : f = [i \in 0 .. m |-> IF i = 0 THEN b.base ELSE f[i - 1] + Part(i)]
           rank == CHOOSE f : f = [i \in 0 .. m |-> IF i = 0 THEN 0
                     ELSE f[i - 1] * Len(b.properties[i].values) + IndexOf(b.properties[i].values, full[b.properties[i].name])]
<1>17. \A i \in 1 .. m : Part(i) = part[i]  BY <1>9
<1>18. FromBlockToProtocolId(block) = sum[m]
  <2>1. FromBlockToProtocolId(block) = WeightedSum(b, props)
    <3>1. BlockList[CHOOSE i \in found : TRUE] = b  BY <1>5 DEF b
    <3> HIDE DEF found
    <3>2. FromBlockToProtocolId(block) = IF found = {} \/ ~HasProperties(b, Completed(b, given)) THEN 0
                                         ELSE WeightedSum(b, Completed(b, given))
      BY <3>1 DEF FromBlockToProtocolId, found
    <3>3. QED  BY <1>5, <1>10, <3>2 DEF props
  <2>2. WeightedSum(b, props) = sum[m]  BY DEF WeightedSum
  <2>3. QED  BY <2>1, <2>2
<1>19. StateNumber(block) = b.base + rank[m]
  <2>1. BlockList[CHOOSE i \in DOMAIN BlockList : BlockList[i].name = block.name] = b  BY <1>5 DEF b
  <2>2. StateNumber(block) = b.base + Rank(b, full)  BY <2>1 DEF StateNumber, full
  <2>3. Rank(b, full) = rank[m]  BY DEF Rank
  <2>4. QED  BY <2>2, <2>3
<1>20. IsHorner(rank, m, 0, c, x)
  <2> DEFINE L(i) == Len(b.properties[i].values)
             I(i) == IndexOf(b.properties[i].values, full[b.properties[i].name])
             Q(h) == h = [i \in 0 .. m |-> IF i = 0 THEN 0 ELSE h[i - 1] * L(i) + I(i)]
  <2>1. PICK f : IsHorner(f, m, 0, c, x)
    <3> HIDE DEF c, x, m
    <3>1. 0 \in Int  OBVIOUS
    <3>2. QED  BY <1>11, <1>12, <3>1, HornerExists
  <2>2. \A i \in 1 .. m : c[i] = L(i) /\ x[i] = I(i)  OBVIOUS
  <2>3. rank = CHOOSE h : Q(h)  OBVIOUS
  <2> HIDE DEF L, I, c, x, m, rank
  <2>4. Q(f)
    <3>1. f = [i \in 0 .. m |-> IF i = 0 THEN 0 ELSE f[i - 1] * c[i] + x[i]]  BY <2>1 DEF IsHorner
    <3>2. ASSUME NEW i \in 0 .. m
          PROVE  (IF i = 0 THEN 0 ELSE f[i - 1] * c[i] + x[i]) = (IF i = 0 THEN 0 ELSE f[i - 1] * L(i) + I(i))
      <4>1. i = 0 \/ i \in 1 .. m  BY <1>12
      <4>2. QED  BY <2>2, <4>1
    <3>3. QED  BY <3>1, <3>2
  <2>5. Q(rank)
    <3> HIDE DEF Q
    <3>1. QED  BY <2>3, <2>4
  <2>6. ASSUME NEW i \in 0 .. m
        PROVE  (IF i = 0 THEN 0 ELSE rank[i - 1] * c[i] + x[i]) = (IF i = 0 THEN 0 ELSE rank[i - 1] * L(i) + I(i))
    <3>1. i = 0 \/ i \in 1 .. m  BY <1>12
    <3>2. QED  BY <2>2, <3>1
  <2>7. QED  BY <2>5, <2>6 DEF IsHorner
<1>21. /\ sum \in [0 .. m -> Int] /\ sum[0] = b.base
       /\ \A i \in 1 .. m : sum[i] = sum[i - 1] + part[i]
  <2> DEFINE Q(f) == f = [i \in 0 .. m |-> IF i = 0 THEN b.base ELSE f[i - 1] + Part(i)]
  <2>1. PICK h : IsHorner(h, m, b.base, one, part)
    <3> HIDE DEF one, part, m
    <3>1. QED  BY <1>12, <1>16, HornerExists
  <2>2. /\ h \in [0 .. m -> Int] /\ h[0] = b.base
        /\ \A i \in 1 .. m : h[i] = h[i - 1] * one[i] + part[i]
    <3> HIDE DEF one, part, m
    <3>1. m \in Nat  BY <1>12
    <3>2. b.base \in Int  BY <1>12
    <3>3. one \in [1 .. m -> Int]  BY <1>12
    <3>4. MultipliesAndAdds(h, m, b.base, one, part)  BY <1>16, <2>1, <3>1, <3>2, <3>3, HornerNumbers
    <3>5. QED  BY <3>4 DEF MultipliesAndAdds
  <2> HIDE DEF Part, part
  <2>3. \A i \in 1 .. m : h[i] = h[i - 1] + Part(i)
    <3>1. ASSUME NEW i \in 1 .. m  PROVE h[i] = h[i - 1] + Part(i)
      <4>1. i - 1 \in 0 .. m /\ one[i] = 1  BY <1>12
      <4>2. QED  BY <1>17, <2>2, <4>1
    <3>2. QED  BY <3>1
  <2>4. Q(h)
    <3> HIDE DEF m
    <3>1. QED  BY <1>12, <2>2, <2>3
  <2>5. Q(sum)  BY <2>4
  <2> HIDE DEF sum
  <2>6. sum[0] = b.base /\ \A i \in 1 .. m : sum[i] = sum[i - 1] + part[i]
    <3> HIDE DEF m
    <3>1. sum = [i \in 0 .. m |-> IF i = 0 THEN b.base ELSE sum[i - 1] + Part(i)]  BY <2>5
    <3>2. QED  BY <1>12, <1>17, <3>1
  <2>7. sum \in [0 .. m -> Int]
    <3> DEFINE S == {i \in 0 .. m : sum[i] \in Int}
    <3> HIDE DEF m
    <3>1. 0 \in S  BY <1>12, <2>6
    <3>2. ASSUME NEW i \in 1 .. m, i - 1 \in S  PROVE i \in S
      BY <1>12, <1>16, <2>6, <3>2
    <3>3. \A i \in 0 .. m : i \in S
      <4> HIDE DEF S
      <4>1. QED  BY <1>12, <3>1, <3>2, BoundedInduction
    <3>4. QED  BY <2>5, <3>3
  <2>8. QED  BY <2>6, <2>7
<1>22. sum[m] = b.base + rank[m]
  <2> DEFINE base == b.base
  <2>1. base \in Int  BY <1>12
  <2>2. m \in Nat  BY <1>12
  <2> HIDE DEF sum, rank, w, part
  <2>3. AddsUp(sum, m, base, w, x)
    <3> HIDE DEF c, x, m
    <3>1. QED  BY <1>15, <1>21 DEF AddsUp
  <2>4. c \in [1 .. m -> Int] /\ x \in [1 .. m -> Int]  BY <1>11, <1>12
  <2> HIDE DEF c, x, m, base
  <2>5. AreWeights(w, m, c)  BY <1>14
  <2>6. IsHorner(rank, m, 0, c, x)  BY <1>20
  <2>7. sum[m] = base + rank[m]  BY ONLY <2>1, <2>2, <2>3, <2>4, <2>5, <2>6, WeightsGiveRank
  <2>8. QED  BY <2>7 DEF base
<1>23. b.base + rank[m] \in Int
  <2> HIDE DEF rank, c, x, m
  <2>1. 0 \in Int  OBVIOUS
  <2>2. MultipliesAndAdds(rank, m, 0, c, x)  BY <1>11, <1>12, <1>20, <2>1, HornerNumbers
  <2>3. rank[m] \in Int  BY <1>12, <2>2 DEF MultipliesAndAdds
  <2>4. QED  BY <1>12, <2>3
<1>24. QED  BY <1>18, <1>19, <1>22, <1>23

-----------------------------------------------------------------------------
(* Palettes of region files                                                *)

\* The values of a palette of a region file.
StateNumbers(blocks) == [i \in 1 .. Len(blocks) |-> StateNumber(blocks[i])]

\* The loop of _regionLoadPalette().
LEMMA LoadLoop ==
    ASSUME NEW blocks \in FilePalettes
    PROVE  \E F \in [0 .. Len(blocks) -> Seq(Numbers)] :
              /\ F[0] = <<>> /\ RegionLoadPalette(blocks) = F[Len(blocks)]
              /\ \A i \in 1 .. Len(blocks) : F[i] = Add(F[i - 1], FromBlockToProtocolId(blocks[i]))
<1> DEFINE n == Len(blocks)
           X == Seq(Numbers)
           N(i) == FromBlockToProtocolId(blocks[i])
           g == [p \in (1 .. n) \X X |-> Add(p[2], N(p[1]))]
           F == CHOOSE palette : palette = [i \in 0 .. n |-> IF i = 0 THEN <<>> ELSE Add(palette[i - 1], N(i))]
<1>1. n \in Nat /\ \A i \in 1 .. n : N(i) \in Numbers  BY StorageAssumption DEF Numbers
<1>2. RegionLoadPalette(blocks) = F[n]  BY DEF RegionLoadPalette
<1>3. <<>> \in X  OBVIOUS
<1>4. \A i \in 1 .. n, x \in X : Add(x, N(i)) \in X
  <2> HIDE DEF N, n
  <2>1. QED  BY <1>1, AddKeeps
<1> HIDE DEF N, n, X
<1>5. g \in [(1 .. n) \X X -> X]  BY <1>4
<1>6. PICK s \in [0 .. n -> X] : IsLoop(s, n, <<>>, g)
  <2> HIDE DEF g
  <2>1. QED  BY <1>1, <1>3, <1>5, LoopExists
<1>7. s = [i \in 0 .. n |-> IF i = 0 THEN <<>> ELSE Add(s[i - 1], N(i))]
  <2>1. s[0] = <<>>  BY <1>6 DEF IsLoop
  <2>2. ASSUME NEW i \in 1 .. n  PROVE s[i] = Add(s[i - 1], N(i))
    <3>1. s[i] = g[<<i, s[i - 1]>>]  BY <1>6 DEF IsLoop
    <3>2. <<i, s[i - 1]>> \in (1 .. n) \X X  BY <1>1
    <3>3. QED  BY <3>1, <3>2
  <2> HIDE DEF g
  <2>3. QED  BY <1>1, <2>1, <2>2
<1>8. F = [i \in 0 .. n |-> IF i = 0 THEN <<>> ELSE Add(F[i - 1], N(i))]  BY <1>7
<1> HIDE DEF F
<1>9. F[0] = <<>> /\ \A i \in 1 .. n : F[i] = Add(F[i - 1], N(i))  BY <1>1, <1>8
<1>10. F \in [0 .. n -> X]
  <2> DEFINE S == {i \in 0 .. n : F[i] \in X}
  <2>1. 0 \in S  BY <1>1, <1>3, <1>9
  <2>2. ASSUME NEW i \in 1 .. n, i - 1 \in S  PROVE i \in S
    BY <1>1, <1>4, <1>9, <2>2
  <2>3. \A i \in 0 .. n : i \in S
    <3> HIDE DEF S
    <3>1. QED  BY <1>1, <2>1, <2>2, BoundedInduction
  <2>4. QED  BY <1>8, <2>3
<1>11. QED  BY <1>2, <1>9, <1>10 DEF N, n, X

\* _regionLoadPalette() leaves a palette that is not empty and no longer than the one in the file, whatever this holds.
LEMMA LoadedLength ==
    ASSUME NEW blocks \in FilePalettes
    PROVE  /\ RegionLoadPalette(blocks) \in Seq(Numbers)
           /\ Len(RegionLoadPalette(blocks)) \in 1 .. Len(blocks)
<1>1. PICK F \in [0 .. Len(blocks) -> Seq(Numbers)] :
              /\ F[0] = <<>> /\ RegionLoadPalette(blocks) = F[Len(blocks)]
              /\ \A i \in 1 .. Len(blocks) : F[i] = Add(F[i - 1], FromBlockToProtocolId(blocks[i]))
  BY LoadLoop
<1> DEFINE n == Len(blocks)
           L(i) == Len(F[i])
           S == {i \in 0 .. n : L(i) <= i /\ (i # 0 => L(i) >= 1)}
<1>2. n \in Nat /\ n >= 1 /\ \A i \in 1 .. n : FromBlockToProtocolId(blocks[i]) \in Numbers
  <2>1. DOMAIN blocks = 1 .. n /\ n \in Nat /\ n >= 1
    <3>1. DOMAIN blocks = 1 .. n /\ n \in 1 .. Pow2[DirectBits]  BY StorageAssumption
    <3> HIDE DEF n
    <3>2. QED  BY <3>1
  <2>2. QED  BY <2>1 DEF Numbers
<1>3. \A i \in 0 .. n : F[i] \in Seq(Numbers) /\ L(i) \in Nat  BY <1>1
<1>4. 0 \in S
  <2>1. L(0) = 0  BY <1>1
  <2> HIDE DEF L
  <2>2. QED  BY <1>2, <2>1
<1>5. ASSUME NEW i \in 1 .. n, i - 1 \in S  PROVE i \in S
  <2> DEFINE x == F[i - 1]
             y == FromBlockToProtocolId(blocks[i])
  <2>1. i - 1 \in 0 .. n /\ i \in 0 .. n /\ i \in Nat  BY <1>2
  <2>2. x \in Seq(Numbers) /\ y \in Numbers /\ F[i] = Add(x, y)  BY <1>1, <1>2, <1>3, <2>1
  <2>3. L(i - 1) = Len(x) /\ L(i) = Len(Add(x, y))  BY <2>2
  <2> HIDE DEF x, y
  <2>4. Len(Add(x, y)) <= Len(x) + 1 /\ \E k \in 1 .. Len(Add(x, y)) : Add(x, y)[k] = y  BY <2>2, AddKeeps
  <2>5. L(i) <= L(i - 1) + 1 /\ \E k \in 1 .. L(i) : TRUE  BY <2>3, <2>4
  <2>6. L(i) \in Nat /\ L(i - 1) \in Nat /\ L(i - 1) <= i - 1  BY <1>3, <1>5, <2>1
  <2> HIDE DEF L
  <2>7. L(i) <= i /\ L(i) >= 1  BY <2>1, <2>5, <2>6
  <2>8. QED  BY <2>1, <2>7
<1>6. \A i \in 0 .. n : i \in S
  <2> HIDE DEF S
  <2>1. QED  BY <1>2, <1>4, <1>5, BoundedInduction
<1>7. n \in 0 .. n  BY <1>2
<1>8. L(n) \in Nat /\ L(n) <= n /\ L(n) >= 1  BY <1>2, <1>3, <1>6, <1>7
<1>9. QED
  <2>1. L(n) \in 1 .. n
    <3> HIDE DEF L, n
    <3>1. QED  BY <1>2, <1>8
  <2>2. QED  BY <1>1, <1>3, <1>7, <2>1

\* _regionLoadPalette() gives each block of a readable palette its number, at the index it has in the file.
LEMMA LoadedPalette ==
    ASSUME BlocksDescribed, NEW blocks \in FilePalettes, IsReadable(blocks)
    PROVE  RegionLoadPalette(blocks) = StateNumbers(blocks)
<1> DEFINE n == Len(blocks)
           N(i) == StateNumber(blocks[i])
           T(i) == [k \in 1 .. i |-> N(k)]
<1>1. PICK F \in [0 .. n -> Seq(Numbers)] :
              /\ F[0] = <<>> /\ RegionLoadPalette(blocks) = F[n]
              /\ \A i \in 1 .. n : F[i] = Add(F[i - 1], FromBlockToProtocolId(blocks[i]))
  BY LoadLoop
<1>2. n \in Nat /\ DOMAIN blocks = 1 .. n  BY StorageAssumption
<1>3. \A i \in 1 .. n : FromBlockToProtocolId(blocks[i]) = N(i) /\ N(i) \in Int
  <2> SUFFICES ASSUME NEW i \in 1 .. n  PROVE FromBlockToProtocolId(blocks[i]) = N(i) /\ N(i) \in Int  OBVIOUS
  <2>1. IsState(blocks[i]) /\ IsCounted(blocks[i])  BY <1>2 DEF IsReadable
  <2>2. QED  BY <2>1, StatesAreNumbered
<1>4. \A i \in 1 .. n, j \in 1 .. n : N(i) = N(j) => i = j  BY <1>2 DEF IsReadable
<1> HIDE DEF N, n
<1>5. ASSUME NEW i \in 1 .. n  PROVE Add(T(i - 1), N(i)) = T(i)
  <2> DEFINE t == T(i - 1)
  <2>1. t \in Seq(Int) /\ Len(t) = i - 1 /\ \A k \in 1 .. i - 1 : t[k] = N(k)  BY <1>2, <1>3
  <2>2. N(i) \notin Range(t)
    <3>1. SUFFICES ASSUME NEW k \in 1 .. i - 1, N(i) = N(k)  PROVE FALSE  BY <1>2 DEF Range
    <3>2. QED  BY <1>2, <1>4, <3>1
  <2>3. Add(t, N(i)) = Append(t, N(i))  BY <2>2 DEF Add
  <2> HIDE DEF t
  <2>4. Append(t, N(i)) = T(i)
    <3> DEFINE u == Append(t, N(i))
    <3>1. i \in Nat /\ N(i) \in Int /\ i = (i - 1) + 1  BY <1>2, <1>3
    <3>2. u \in Seq(Int) /\ Len(u) = i  BY <2>1, <3>1
    <3>3. \A k \in 1 .. i : u[k] = N(k)  BY <2>1, <3>1
    <3> HIDE DEF u
    <3>4. u = [k \in 1 .. i |-> u[k]]  BY <3>2
    <3>5. QED  BY <3>3, <3>4 DEF u
  <2>5. QED  BY <2>3, <2>4 DEF t
<1> DEFINE S == {i \in 0 .. n : F[i] = T(i)}
<1>6. 0 \in S  BY <1>1, <1>2
<1> HIDE DEF T
<1>7. ASSUME NEW i \in 1 .. n, i - 1 \in S  PROVE i \in S
  <2>1. i \in 0 .. n /\ F[i - 1] = T(i - 1)  BY <1>2, <1>7
  <2>2. F[i] = Add(F[i - 1], N(i))  BY <1>1, <1>3
  <2>3. QED  BY <1>5, <2>1, <2>2
<1>8. \A i \in 0 .. n : i \in S
  <2> HIDE DEF S
  <2>1. QED  BY <1>2, <1>6, <1>7, BoundedInduction
<1>9. F[n] = T(n)  BY <1>2, <1>8
<1>10. QED  BY <1>1, <1>9 DEF StateNumbers, T, N, n

\* A narrower index is in an earlier word.
LEMMA EarlierWord ==
    ASSUME NEW a \in Sizes, NEW b \in Sizes, a <= b, NEW idx \in Positions
    PROVE  EntryNumber(a, idx) \in 1 .. Words(b)
<1> DEFINE c == PerWord(a)
           d == PerWord(b)
           q == idx \div c
           r == idx \div d
<1>1. c \in Nat \ {0} /\ d \in Nat \ {0} /\ Words(b) \in Nat  BY PerWordType
<1>2. d <= c
  <2> DEFINE z == StoreTypeSize
  <2>1. z \in Nat /\ a \in Nat \ {0} /\ b \in Nat \ {0}  BY StorageAssumption DEF Sizes
  <2>2. c = z \div a /\ d = z \div b  BY DEF PerWord
  <2>3. z = c * a + (z % a) /\ z % a \in Int /\ z % a < a /\ z = d * b + (z % b) /\ z % b \in Int /\ 0 <= z % b
    BY <2>1, <2>2, DivMod
  <2> HIDE DEF c, d, z
  <2>4. SUFFICES ASSUME c + 1 <= d  PROVE FALSE  BY <1>1
  <2>5. (c + 1) * a <= d * a  BY <1>1, <2>1, <2>4, TimesGrows
  <2>6. a * d <= b * d  BY <1>1, <2>1, TimesGrows
  <2>7. (c + 1) * a = c * a + a /\ a * d = d * a /\ b * d = d * b  BY <1>1, <2>1
  <2>8. c * a \in Int /\ d * a \in Int /\ d * b \in Int  BY <1>1, <2>1
  <2>9. QED  BY <2>1, <2>3, <2>5, <2>6, <2>7, <2>8
<1>3. EntryNumber(a, idx) = q + 1 /\ EntryNumber(b, idx) = r + 1 /\ EntryNumber(b, idx) \in 1 .. Words(b)
  BY Places DEF EntryNumber
<1>4. EntryNumber(a, idx) \in 1 .. Words(a)  BY Places
<1> HIDE DEF c, d
<1>5. idx \in Nat  BY StorageAssumption DEF Positions
<1>6. /\ idx = q * c + (idx % c) /\ idx % c \in Int /\ 0 <= idx % c /\ q \in Int
      /\ idx = r * d + (idx % d) /\ idx % d \in Int /\ idx % d < d /\ r \in Int
  BY <1>1, <1>5, DivMod
<1> HIDE DEF q, r
<1>7. q >= 0  BY <1>3, <1>4, <1>6
<1>8. q <= r
  <2>1. SUFFICES ASSUME r + 1 <= q  PROVE FALSE  BY <1>6
  <2>2. (r + 1) * d <= q * d  BY <1>1, <1>6, <2>1, TimesGrows
  <2>3. d * q <= c * q  BY <1>1, <1>2, <1>6, <1>7, TimesGrows
  <2>4. (r + 1) * d = r * d + d /\ d * q = q * d /\ c * q = q * c  BY <1>1, <1>6
  <2>5. q * d \in Int /\ q * c \in Int /\ r * d \in Int  BY <1>1, <1>6
  <2>6. QED  BY <1>1, <1>5, <1>6, <2>2, <2>3, <2>4, <2>5
<1>9. QED  BY <1>1, <1>3, <1>6, <1>7, <1>8

\* The width in the file: a width of the storage that tells the values apart, no narrower than the one a palette that is no
\* longer asks for, unless this is direct, and the same for a palette that is as long and has room.
LEMMA FileWidth ==
    ASSUME kind = "blocks", NEW n \in 2 .. Pow2[DirectBits], NEW palette, Len(palette) \in 2 .. n
    PROVE  /\ FileBits(n) \in Sizes /\ n <= Pow2[FileBits(n)] /\ Pow2[FileBits(n)] \in Nat
           /\ GetBits(palette) <= FileBits(n) \/ GetBits(palette) = DirectBits
           /\ Len(palette) = n /\ n <= Pow2[MaxBits] => GetBits(palette) = FileBits(n)
<1> DEFINE m == Len(palette)
           a == BitsNeeded[m]
           b == BitsNeeded[n]
           F == FileBits(n)
           G == GetBits(palette)
<1>1. {MinBits, MaxBits, DirectBits} \subseteq 1 .. StoreTypeSize /\ StoreTypeSize \in Nat
      /\ {MinBits, MaxBits, DirectBits} \subseteq Nat /\ MinBits <= DirectBits
  BY StorageAssumption
<1>2. n \in Nat /\ m \in Nat /\ m <= n /\ m > 1 /\ ~(m <= 1) /\ n <= Pow2[DirectBits]
  <2>1. Pow2[DirectBits] \in Nat  BY <1>1, Pow2Type
  <2> HIDE DEF m
  <2>2. m \in 2 .. n  BY DEF m
  <2>3. QED  BY <2>1, <2>2
<1>3. LeastBits(n, b)  BY <1>2, BitsNeededIsLeast
<1>4. a \in Nat /\ b \in Nat /\ a <= b  BY <1>2, BitsNeededGrows
<1>5. n <= Pow2[b] /\ b <= DirectBits /\ (n <= Pow2[MaxBits] => b <= MaxBits)
  BY <1>1, <1>2, <1>3 DEF LeastBits
<1>6. F = IF b <= MinBits THEN MinBits ELSE b  BY DEF FileBits
<1>7. G = IF a <= MinBits THEN MinBits ELSE IF a <= MaxBits THEN a ELSE DirectBits
  BY <1>2 DEF GetBits
<1>8. m = n => a = b  OBVIOUS
<1> HIDE DEF F, G, a, b, m
<1>9. F \in Nat /\ b <= F /\ F \in Sizes
  <2>1. F = MinBits \/ (F = b /\ MinBits < b)  BY <1>1, <1>4, <1>6
  <2>2. F \in Nat /\ b <= F /\ 1 <= F /\ F <= StoreTypeSize  BY <1>1, <1>4, <1>5, <1>6, <2>1
  <2>3. QED  BY <1>1, <2>2 DEF Sizes
<1>10. Pow2[b] <= Pow2[F] /\ Pow2[b] \in Nat /\ Pow2[F] \in Nat  BY <1>4, <1>9, Pow2Grows, Pow2Type
<1>11. n <= Pow2[F]  BY <1>2, <1>5, <1>10
<1>12. G <= F \/ G = DirectBits  BY <1>1, <1>4, <1>6, <1>7
<1>13. m = n /\ n <= Pow2[MaxBits] => G = F  BY <1>1, <1>4, <1>5, <1>6, <1>7, <1>8
<1>14. QED  BY <1>9, <1>10, <1>11, <1>12, <1>13 DEF F, G, m

\* A section that is loaded is sound, whatever the file holds, and one with a readable palette holds what was saved.
LEMMA RegionLoadStep ==
    ASSUME PaletteInv, RegionLoadBlocks
    PROVE  /\ PaletteInv'
           /\ BlocksDescribed /\ IsReadable(file.palette) =>
                \A q \in Positions : Content(q)' = StateNumber(file.palette[file.values[q] + 1])
<1> DEFINE blocks == file.palette
           n == Len(blocks)
           palette == RegionLoadPalette(blocks)
           F == FileBits(n)
<1>1. /\ kind = "blocks" /\ kind' = "blocks" /\ file # Read /\ file' = Read /\ valueSize = 0
      /\ file \in SavedSections /\ nameToId' = palette
  BY DEF PaletteInv, RegionLoadBlocks
<1>2. blocks \in FilePalettes /\ file.values \in [Positions -> 0 .. n - 1]
  <2>1. PICK b \in FilePalettes : file \in [palette : {b}, values : [Positions -> 0 .. Len(b) - 1]]
    BY <1>1 DEF SavedSections
  <2>2. file.palette = b /\ file.values \in [Positions -> 0 .. Len(b) - 1]  BY <2>1
  <2>3. QED  BY <2>1, <2>2
<1>3. palette \in Seq(Numbers) /\ Len(palette) \in 1 .. n /\ n \in 1 .. Pow2[DirectBits]
  BY <1>2, LoadedLength, StorageAssumption
<1>4. GetBits(nameToId)' = GetBits(palette)  BY <1>1 DEF GetBits
<1>5. BlocksDescribed /\ IsReadable(blocks) =>
        /\ Len(palette) = n /\ n <= Pow2[MaxBits]
        /\ \A i \in 1 .. n : palette[i] = StateNumber(blocks[i])
  <2> SUFFICES ASSUME BlocksDescribed, IsReadable(blocks)
               PROVE  /\ Len(palette) = n /\ n <= Pow2[MaxBits]
                      /\ \A i \in 1 .. n : palette[i] = StateNumber(blocks[i])
    OBVIOUS
  <2>1. palette = StateNumbers(blocks)  BY <1>2, LoadedPalette
  <2>2. n <= Pow2[MaxBits]  BY DEF IsReadable
  <2>3. DOMAIN palette = 1 .. n /\ \A i \in 1 .. n : palette[i] = StateNumber(blocks[i])  BY <2>1 DEF StateNumbers
  <2> HIDE DEF palette
  <2>4. Len(palette) = n
    <3> HIDE DEF n
    <3>1. Len(palette) \in Nat /\ DOMAIN palette = 1 .. Len(palette) /\ n \in Nat /\ n >= 1 /\ Len(palette) >= 1
      BY <1>3
    <3>2. QED  BY <2>3, <3>1
  <2>5. QED  BY <2>2, <2>3, <2>4
<1> HIDE DEF palette
<1>6. n \in Nat /\ n >= 1 /\ Len(palette) \in Nat /\ Len(palette) >= 1 /\ Len(palette) <= n
  <2> HIDE DEF n
  <2>1. QED  BY <1>3
<1>7. CASE n = 1
  <2>1. valueSize' = 0  BY <1>1, <1>7 DEF RegionLoadBlocks
  <2>2. Len(palette) = 1
    <3> HIDE DEF n
    <3>1. QED  BY <1>6, <1>7
  <2>3. GetBits(palette) = 0
    <3>1. Len(palette) \in Nat /\ Len(palette) <= 1 /\ kind \in {"blocks", "biomes"}  BY <1>1, <2>2
    <3>2. QED  BY <3>1, BitsOfPalette
  <2>4. nameToId' \in Seq(Numbers) /\ Len(nameToId') # 0  BY <1>1, <1>3, <2>2
  <2>5. PaletteInv'  BY <1>1, <1>4, <2>1, <2>3, <2>4 DEF PaletteInv
  <2>6. ASSUME BlocksDescribed, IsReadable(blocks), NEW q \in Positions
        PROVE  Content(q)' = StateNumber(file.palette[file.values[q] + 1])
    <3>1. file.values[q] + 1 = 1  BY <1>2, <1>7
    <3>2. Content(q)' = palette[1]  BY <1>1, <2>1 DEF Content
    <3>3. palette[1] = StateNumber(blocks[1])  BY <1>5, <1>7, <2>6
    <3>4. QED  BY <3>1, <3>2, <3>3
  <2>7. QED  BY <2>5, <2>6
<1>8. CASE n > 1
  <2>1. n # 1
    <3> HIDE DEF n
    <3>1. QED  BY <1>6, <1>8
  <2>2. valueSize' = GetBits(palette) /\ store' = Pack(F, file.values)
    <3>1. valueSize' = GetBits(nameToId') /\ store' = Pack(F, file.values)  BY <2>1 DEF RegionLoadBlocks
    <3>2. QED  BY <1>1, <3>1
  <2>3. n \in 2 .. Pow2[DirectBits] /\ n \in 2 .. n
    <3>1. Pow2[DirectBits] \in Nat  BY StorageAssumption, Pow2Type
    <3> HIDE DEF n
    <3>2. QED  BY <1>3, <1>8, <3>1
  <2>4. F \in Sizes /\ n <= Pow2[F] /\ Pow2[F] \in Nat
    <3>1. PICK long \in Seq({0}) : Len(long) = n
      <4>1. [i \in 1 .. n |-> 0] \in Seq({0}) /\ Len([i \in 1 .. n |-> 0]) = n
        <5> HIDE DEF n
        <5>1. QED  BY <1>6
      <4>2. QED  BY <4>1
    <3>2. Len(long) \in 2 .. n  BY <2>3, <3>1
    <3> HIDE DEF n, F
    <3>3. QED  BY <1>1, <2>3, <3>2, FileWidth DEF F
  <2>5. file.values \in [Positions -> 0 .. Pow2[F] - 1]
    <3>1. file.values \in [Positions -> 0 .. n - 1]  BY <1>2
    <3> HIDE DEF n, F
    <3>2. 0 .. n - 1 \subseteq 0 .. Pow2[F] - 1  BY <1>6, <2>4
    <3>3. QED  BY <3>1, <3>2
  <2>6. store' \in Stores(F) /\ \A q \in Positions : Get(store', F, q) = file.values[q]
    <3> HIDE DEF F
    <3>1. QED  BY <2>2, <2>4, <2>5, GetPack
  <2>7. DOMAIN store' = 1 .. Words(F) /\ \E k \in Nat : store' \in [1 .. k -> Nat]
    <3> HIDE DEF F
    <3>1. QED  BY <2>4, <2>6, PerWordType DEF Stores
  <2>8. CASE Len(palette) = 1
    <3>1. GetBits(palette) = 0
      <4>1. Len(palette) \in Nat /\ Len(palette) <= 1 /\ kind \in {"blocks", "biomes"}  BY <1>1, <2>8
      <4>2. QED  BY <4>1, BitsOfPalette
    <3>2. nameToId' \in Seq(Numbers) /\ Len(nameToId') # 0  BY <1>1, <1>3, <2>8
    <3>3. PaletteInv'  BY <1>1, <1>4, <2>2, <3>1, <3>2 DEF PaletteInv
    <3>4. ~(BlocksDescribed /\ IsReadable(blocks))  BY <1>5, <2>1, <2>8
    <3>5. QED  BY <3>3, <3>4
  <2>9. CASE Len(palette) > 1
    <3> DEFINE G == GetBits(palette)
    <3>0. Len(palette) \in 2 .. n
      <4> HIDE DEF n
      <4>1. QED  BY <1>6, <2>9
    <3>1. G \in Sizes /\ (G <= F \/ G = DirectBits) /\ (Len(palette) = n /\ n <= Pow2[MaxBits] => G = F)
      <4>1. G \in Sizes  BY <1>1, <1>6, <2>9, BitsOfPalette
      <4> HIDE DEF n, F, G
      <4>2. QED  BY <1>1, <2>3, <3>0, <4>1, FileWidth DEF F, G
    <3> HIDE DEF G
    <3>2. G # 0  BY <3>1, StorageAssumption DEF Sizes
    <3>3. valueSize' = G /\ valueSize' = GetBits(nameToId)'  BY <1>4, <2>2 DEF G
    <3>4. ASSUME ~(kind' = "blocks" /\ valueSize' = DirectBits), NEW q \in Positions
          PROVE  Reaches(store', valueSize', q)
      <4>1. G <= F  BY <1>1, <3>1, <3>3, <3>4
      <4> HIDE DEF F
      <4>2. EntryNumber(G, q) \in 1 .. Words(F)  BY <2>4, <3>1, <4>1, EarlierWord
      <4>3. QED  BY <2>7, <3>3, <4>2 DEF Reaches
    <3>5. nameToId' \in Seq(Numbers) /\ Len(nameToId') # 0  BY <1>1, <1>3, <2>9
    <3>6. PaletteInv'
      <4>1. \A q \in Positions : ~(kind' = "blocks" /\ valueSize' = DirectBits) => Reaches(store', valueSize', q)
        BY <3>4
      <4>2. QED  BY <1>1, <2>7, <3>3, <3>5, <4>1 DEF PaletteInv, Reaches
    <3>7. ASSUME BlocksDescribed, IsReadable(blocks), NEW q \in Positions
          PROVE  Content(q)' = StateNumber(file.palette[file.values[q] + 1])
      <4> DEFINE v == file.values[q]
      <4>1. G = F  BY <1>5, <3>1, <3>7
      <4>2. v \in Nat /\ v + 1 \in 1 .. n
        <5>1. v \in 0 .. n - 1  BY <1>2
        <5> HIDE DEF v, n
        <5>2. QED  BY <1>6, <5>1
      <4>3. Content(q)' = GetGlobalId(palette, v)
        <5>1. valueSize' # 0 /\ Get(store', valueSize', q) = v  BY <2>6, <3>2, <3>3, <4>1
        <5>2. Content(q)' = GetGlobalId(nameToId', Get(store', valueSize', q))
          BY <5>1 DEF Content, GetGlobalId
        <5>3. QED  BY <1>1, <5>1, <5>2
      <4> HIDE DEF v
      <4>4. v + 1 \in DOMAIN palette /\ palette[v + 1] = StateNumber(blocks[v + 1])
        <5>1. Len(palette) = n /\ palette[v + 1] = StateNumber(blocks[v + 1])  BY <1>5, <3>7, <4>2
        <5>2. DOMAIN palette = 1 .. Len(palette)  BY <1>3
        <5>3. QED  BY <4>2, <5>1, <5>2
      <4>5. GetGlobalId(palette, v) = palette[v + 1]  BY <4>4 DEF GetGlobalId
      <4>6. QED  BY <4>3, <4>4, <4>5 DEF v
    <3>8. QED  BY <3>6, <3>7
  <2>10. Len(palette) = 1 \/ Len(palette) > 1  BY <1>6
  <2>11. QED  BY <2>8, <2>9, <2>10
<1>9. n = 1 \/ n > 1
  <2> HIDE DEF n
  <2>1. QED  BY <1>6
<1>10. QED  BY <1>7, <1>8, <1>9

\* Every step keeps it.
LEMMA PaletteInductive == PaletteInv /\ [Next]_vars => PaletteInv'
<1> SUFFICES ASSUME PaletteInv, [Next]_vars  PROVE PaletteInv'  OBVIOUS
<1>1. ASSUME NEW p \in Positions, NEW id \in Ids, SetBlock(p, id)  PROVE PaletteInv'
  BY <1>1, SetBlockStep
<1>2. ASSUME NEW p \in Positions, NEW level \in LightLevels, SetLight(p, level)  PROVE PaletteInv'
  BY <1>2 DEF SetLight, PaletteInv
<1>3. CASE RegionLoadBlocks  BY <1>3, RegionLoadStep
<1>4. CASE RegionLoadLights  BY <1>4 DEF RegionLoadLights, PaletteInv
<1>5. CASE RecalculateSkyLight  BY <1>5 DEF RecalculateSkyLight, PaletteInv
<1>6. CASE UNCHANGED vars
  <2>1. GetBits(nameToId)' = GetBits(nameToId)  BY <1>6 DEF vars, GetBits
  <2>2. QED  BY <1>6, <2>1 DEF vars, PaletteInv, Reaches
<1>7. QED  BY <1>1, <1>2, <1>3, <1>4, <1>5, <1>6 DEF Next

\* What addPalette() and addChunkColumn() send of such a section is read back.
LEMMA PeerReadsPalette == PaletteInv => PeerSeesSection
<1> SUFFICES ASSUME PaletteInv, kind # "light", ~(kind = "blocks" /\ GetBits(nameToId) = DirectBits),
                    valueSize = 0 => nameToId[1] = 0, NEW p \in Positions
             PROVE  PeerSees(p) = GetBlock(p)
  BY DEF PeerSeesSection
<1>1. nameToId \in Seq(Numbers) /\ Len(nameToId) # 0 /\ valueSize = GetBits(nameToId)
  BY DEF PaletteInv
<1>2. /\ WirePalette.bits = valueSize /\ WirePalette.values = nameToId
      /\ WirePalette.data = IF valueSize = 0 THEN <<>> ELSE store
  BY <1>1 DEF WirePalette
<1>3. CASE valueSize = 0
  <2>1. PeerSees(p) = Head(nameToId)  BY <1>2, <1>3 DEF PeerSees
  <2>2. Head(nameToId) = 0  BY <1>1, <1>3
  <2>3. QED  BY <1>3, <2>1, <2>2 DEF GetBlock
<1>4. CASE valueSize # 0
  <2>1. nameToId # <<>>  BY <1>1
  <2>2. PeerSees(p) = GetGlobalId(nameToId, Get(store, valueSize, p))
    BY <1>2, <1>4, <2>1 DEF PeerSees
  <2>3. QED  BY <1>4, <2>2 DEF GetBlock
<1>5. QED  BY <1>3, <1>4

\* The peer that gets the packet of a section sees, at every position, the block getBlock() returns: the width that is
\* sent, getBits() of the palette, is always the width of the store, through every growth of the palette and every load,
\* that of a file with states the converter misnumbers included.  Sections with a direct palette or with a single state
\* other than air are left out by PeerSeesSection itself.
THEOREM PeerSeesTheSection == Spec => []PeerSeesSection
<1>1. QED  BY PaletteInitially, PaletteInductive, PeerReadsPalette, PTL DEF Spec

-----------------------------------------------------------------------------
(* The section is a grid                                                   *)

\* The values of the section, as the grid has them.
Values == [p \in Positions |-> IF kind = "light" THEN 0 ELSE Content(p)]

\* A readable file of a section holds a grid of values.
LEMMA SavedType ==
    ASSUME BlocksDescribed, kind = "blocks", file # Read, file \in SavedSections, IsReadable(file.palette)
    PROVE  SavedGrid = SavedStates /\ SavedGrid \in [Positions -> Int] /\ SavedGrid \notin {Read, Unreadable}
<1>1. PICK b \in FilePalettes : file \in [palette : {b}, values : [Positions -> 0 .. Len(b) - 1]]
  BY DEF SavedSections
<1>2. file.palette = b /\ file.values \in [Positions -> 0 .. Len(b) - 1]  BY <1>1
<1>3. Len(b) \in Nat /\ DOMAIN b = 1 .. Len(b)  BY <1>1, StorageAssumption
<1>4. ASSUME NEW i \in 1 .. Len(b)  PROVE StateNumber(b[i]) \in Int
  <2>1. IsState(b[i]) /\ IsCounted(b[i])  BY <1>2, <1>3 DEF IsReadable
  <2>2. QED  BY <2>1, StatesAreNumbered
<1>5. \A p \in Positions : StateNumber(b[file.values[p] + 1]) \in Int
  <2> SUFFICES ASSUME NEW p \in Positions  PROVE StateNumber(b[file.values[p] + 1]) \in Int  OBVIOUS
  <2>1. file.values[p] + 1 \in 1 .. Len(b)  BY <1>2, <1>3
  <2>2. QED  BY <1>4, <2>1
<1>6. SavedGrid = SavedStates  BY DEF SavedGrid
<1>7. SavedStates \in [Positions -> Int]  BY <1>2, <1>5 DEF SavedStates
<1>8. QED  BY <1>6, <1>7, ReadAssumption

\* A new section is a grid of air.
LEMMA GridInitially == BlocksDescribed => (Init => Grid!Init)
<1> SUFFICES ASSUME BlocksDescribed, Init  PROVE Grid!Init  OBVIOUS
<1>1. PaletteInv  BY PaletteInitially
<1>2. Values = [p \in Positions |-> 0]
  <2>1. kind # "light" => valueSize = 0 /\ nameToId[1] = 0  BY DEF Init
  <2>2. QED  BY <2>1 DEF Values, Content
<1>3. SavedGrid \in [Positions -> Int] \cup {Read, Unreadable}
  <2>1. CASE kind = "blocks" /\ file # Read
    <3>1. file \in SavedSections  BY <1>1, <2>1 DEF PaletteInv
    <3>2. CASE IsReadable(file.palette)  BY <2>1, <3>1, <3>2, SavedType
    <3>3. CASE ~IsReadable(file.palette)
      <4>1. SavedGrid = Unreadable  BY <2>1, <3>3 DEF SavedGrid
      <4>2. QED  BY <4>1
    <3>4. QED  BY <3>2, <3>3
  <2>2. CASE ~(kind = "blocks" /\ file # Read)
    <3>1. SavedGrid = Read  BY <2>2 DEF SavedGrid
    <3>2. QED  BY <3>1
  <2>3. QED  BY <2>1, <2>2
<1>4. QED  BY <1>2, <1>3 DEF Grid!Init, Values

\* Every step sets one position of the grid, is refused, loads the saved grid or leaves the grid alone.
LEMMA GridStep ==
    ASSUME BlocksDescribed, PaletteInv, [Next]_vars
    PROVE  [Grid!Next]_(Grid!vars)
<1>0. Grid!vars = <<Values, SavedGrid>> /\ (Grid!vars)' = <<Values', SavedGrid'>>  BY DEF Grid!vars, Values
<1>1. ASSUME NEW p \in Positions, NEW id \in Ids, SetBlock(p, id)  PROVE Grid!Next
  <2>1. kind # "light" /\ kind' = kind /\ file' = Read  BY <1>1 DEF SetBlock
  <2>2. SavedGrid' = Read  BY <2>1 DEF SavedGrid
  <2>3. Values = [q \in Positions |-> Content(q)] /\ Values' = [q \in Positions |-> Content(q)']
    BY <2>1 DEF Values
  <2>4. DOMAIN Values' = Positions /\ \A q \in Positions : Values[q] = Content(q) /\ Values'[q] = Content(q)'  BY <2>3
  <2>5. \A q \in Positions \ {p} : Values[q] # -1 => Values'[q] = Values[q]  BY <1>1, <2>4, SetBlockStep
  <2>6. CASE Content(p)' = id
    <3>1. Grid!Set(p, id)  BY <2>2, <2>4, <2>5, <2>6 DEF Grid!Set, Grid!Keeps, Values
    <3>2. QED  BY <3>1 DEF Grid!Next
  <2>7. CASE ~HasRoom /\ (Content(p) # -1 => Content(p)' = Content(p))
    <3>1. \A q \in Positions : Values[q] # -1 => Values'[q] = Values[q]  BY <2>4, <2>5, <2>7
    <3>2. Grid!Refuse  BY <2>2, <2>4, <2>7, <3>1 DEF Grid!Refuse, Grid!Keeps, Values
    <3>3. QED  BY <3>2 DEF Grid!Next
  <2>8. QED  BY <1>1, <2>6, <2>7, SetBlockStep
<1>2. ASSUME kind = "light", kind' = "light"  PROVE UNCHANGED Grid!vars
  <2>1. Values' = Values  BY <1>2 DEF Values
  <2>2. SavedGrid' = SavedGrid  BY <1>2 DEF SavedGrid
  <2>3. QED  BY <1>0, <2>1, <2>2
<1>3. CASE RegionLoadBlocks
  <2>1. kind = "blocks" /\ kind' = "blocks" /\ file # Read /\ file' = Read /\ file \in SavedSections
    BY <1>3 DEF RegionLoadBlocks, PaletteInv
  <2>2. SavedGrid' = Read  BY <2>1 DEF SavedGrid
  <2>3. Values' = [q \in Positions |-> Content(q)']  BY <2>1 DEF Values
  <2>4. CASE IsReadable(file.palette)
    <3>1. SavedGrid = SavedStates /\ SavedGrid # Read /\ SavedGrid # Unreadable  BY <2>1, <2>4, SavedType
    <3>2. \A q \in Positions : Content(q)' = StateNumber(file.palette[file.values[q] + 1])  BY <1>3, <2>4, RegionLoadStep
    <3>3. Values' = SavedGrid  BY <2>3, <3>1, <3>2 DEF SavedStates
    <3>4. Grid!Load  BY <2>2, <3>1, <3>3 DEF Grid!Load, Values
    <3>5. QED  BY <3>4 DEF Grid!Next
  <2>5. CASE ~IsReadable(file.palette)
    <3>1. SavedGrid = Unreadable /\ SavedGrid # Read  BY <2>1, <2>5, ReadAssumption DEF SavedGrid
    <3>2. DOMAIN Values' = Positions  BY <2>3
    <3>3. Grid!Load  BY <2>2, <3>1, <3>2 DEF Grid!Load, Values
    <3>4. QED  BY <3>3 DEF Grid!Next
  <2>6. QED  BY <2>4, <2>5
<1>4. ASSUME NEW p \in Positions, NEW level \in LightLevels, SetLight(p, level)  PROVE UNCHANGED Grid!vars
  BY <1>2, <1>4 DEF SetLight
<1>5. CASE RegionLoadLights  BY <1>2, <1>5 DEF RegionLoadLights
<1>6. CASE RecalculateSkyLight  BY <1>2, <1>6 DEF RecalculateSkyLight
<1>7. CASE UNCHANGED vars
  <2>1. \A q \in Positions : Content(q)' = Content(q)  BY <1>7 DEF vars, Content, GetGlobalId
  <2>2. Values' = Values
    <3>1. kind' = kind  BY <1>7 DEF vars
    <3>2. QED  BY <2>1, <3>1 DEF Values
  <2>3. SavedGrid' = SavedGrid  BY <1>7 DEF vars, SavedGrid, SavedStates
  <2>4. QED  BY <1>0, <2>2, <2>3
<1>8. QED  BY <1>1, <1>3, <1>4, <1>5, <1>6, <1>7 DEF Next

\* A section implements the grid of BlockGrid: whatever its size and the width of its words, and whatever a region file has
\* filled it with, a write changes the position it names and no other one that holds a value, though it may resize every
\* index and move every word, a write is refused only when the palette or the store has no room for it, and a section whose
\* palette is readable holds the block states it was saved with.  Blocks with weights that do not fit, single states and
\* palettes that are too long are in the specification; IsReadable says which files the last part is about.
THEOREM SectionIsGrid == BlocksDescribed => (Spec => IsGrid)
<1> SUFFICES ASSUME BlocksDescribed  PROVE Spec => IsGrid  OBVIOUS
<1>1. Init => Grid!Init  BY GridInitially
<1>2. PaletteInv /\ [Next]_vars => [Grid!Next]_(Grid!vars)  BY GridStep
<1>3. QED  BY <1>1, <1>2, PaletteInitially, PaletteInductive, PTL DEF Spec, IsGrid, Grid!Spec
=============================================================================
