------------------------- MODULE ConversionsProofs -------------------------
(***************************************************************************)
(* The conversions are right in formats of any widths and for pictures of  *)
(* any length: facts about powers of two, the fields of a float and its    *)
(* magnitude; then widening a half, rounding, and base64.                  *)
(***************************************************************************)
EXTENDS Conversions, FiniteSetTheorems, WellFoundedInduction, TLAPS

-----------------------------------------------------------------------------
(* Powers of two, as the numbers of subsets of sets.                        *)

LEMMA PowerPositive ==
  ASSUME NEW n \in Nat
  PROVE  2 ^ n \in Nat /\ 2 ^ n > 0
<1> DEFINE S == 1 .. n
<1>1. IsFiniteSet(S) /\ Cardinality(S) = n
  <2>1. IsFiniteSet(S) /\ Cardinality(S) = IF 1 > n THEN 0 ELSE n - 1 + 1
    BY FS_Interval
  <2> QED BY <2>1
<1> HIDE DEF S
<1>2. IsFiniteSet(SUBSET S) /\ Cardinality(SUBSET S) = 2 ^ n
  BY <1>1, FS_SUBSET
<1>3. Cardinality(SUBSET S) \in Nat /\ Cardinality(SUBSET S) # 0
  <2>1. S \in SUBSET S
    OBVIOUS
  <2> QED BY <1>2, <2>1, FS_CardinalityType, FS_EmptySet
<1> QED BY <1>2, <1>3

LEMMA PowerZero == 2 ^ 0 = 1
  OBVIOUS

\* A new element doubles the subsets.
LEMMA PowerNext ==
  ASSUME NEW n \in Nat
  PROVE  2 ^ (n + 1) = 2 * 2 ^ n
<1> DEFINE S == 1 .. n
           T == 1 .. n + 1
           new == n + 1
           Old == SUBSET S
           Added == {A \cup {new} : A \in Old}
<1>1. IsFiniteSet(S) /\ Cardinality(S) = n /\ IsFiniteSet(T) /\ Cardinality(T) = n + 1
  <2>1. IsFiniteSet(S) /\ Cardinality(S) = IF 1 > n THEN 0 ELSE n - 1 + 1
    BY FS_Interval
  <2>2. n + 1 \in Int
    OBVIOUS
  <2>3. IsFiniteSet(T) /\ Cardinality(T) = IF 1 > n + 1 THEN 0 ELSE n + 1 - 1 + 1
    BY <2>2, FS_Interval
  <2> QED BY <2>1, <2>3
<1>2. T = S \cup {new} /\ new \notin S
  OBVIOUS
<1> HIDE DEF S, T, new
<1>3. IsFiniteSet(Old) /\ Cardinality(Old) = 2 ^ n
  BY <1>1, FS_SUBSET
<1>4. Cardinality(SUBSET T) = 2 ^ (n + 1)
  BY <1>1, FS_SUBSET
<1>5. IsFiniteSet(Added) /\ Cardinality(Added) = Cardinality(Old)
  <2> DEFINE f == [A \in Old |-> A \cup {new}]
  <2>1. f \in Bijection(Old, Added)
    <3>1. f \in [Old -> Added]
      OBVIOUS
    <3>2. ASSUME NEW A \in Old, NEW B \in Old, f[A] = f[B] PROVE A = B
      <4>1. A \cup {new} = B \cup {new} /\ new \notin A /\ new \notin B
        BY <1>2, <3>2
      <4> QED BY <4>1
    <3>3. \A C \in Added : \E A \in Old : f[A] = C
      OBVIOUS
    <3>4. f \in Injection(Old, Added)
      BY <3>1, <3>2 DEF Injection, IsInjective
    <3>5. f \in Surjection(Old, Added)
      BY <3>1, <3>3 DEF Surjection
    <3> QED BY <3>4, <3>5 DEF Bijection
  <2>2. ExistsBijection(Old, Added)
    BY <2>1 DEF ExistsBijection
  <2> QED BY <1>3, <2>2, FS_Bijection
<1>6. SUBSET T = Old \cup Added
  <2>1. ASSUME NEW C \in SUBSET T PROVE C \in Old \cup Added
    <3>1. CASE new \in C
      <4>1. C \ {new} \in Old /\ C = (C \ {new}) \cup {new}
        BY <1>2, <3>1
      <4> QED BY <4>1
    <3>2. CASE new \notin C
      BY <1>2, <3>2
    <3> QED BY <3>1, <3>2
  <2>2. ASSUME NEW C \in Old \cup Added PROVE C \in SUBSET T
    BY <1>2
  <2> QED BY <2>1, <2>2
<1>7. Old \cap Added = {}
  BY <1>2
<1>8. Cardinality(SUBSET T) = Cardinality(Old) + Cardinality(Added) - Cardinality(Old \cap Added)
  <2> HIDE DEF Old, Added
  <2> QED BY <1>3, <1>5, <1>6, FS_Union
<1>9. Cardinality(Old \cap Added) = 0
  BY <1>7, FS_EmptySet
<1>10. 2 ^ n \in Nat /\ 2 ^ (n + 1) \in Nat
  BY PowerPositive
<1> HIDE DEF Old, Added
<1>11. 2 ^ (n + 1) = 2 ^ n + 2 ^ n - 0
  BY <1>3, <1>4, <1>5, <1>8, <1>9
<1> QED BY <1>10, <1>11

LEMMA FirstOfSet ==
  ASSUME NEW S \in SUBSET Nat, S # {}
  PROVE  \E x \in S : \A y \in S : x <= y
<1>1. IsWellFoundedOn(OpToRel(<, Nat), Nat)
  BY NatLessThanWellFounded, Zenon
<1>2. \E x \in S : \A y \in S : ~ (<<y, x>> \in OpToRel(<, Nat))
  BY <1>1, WFMin, Zenon
<1>3. \A x, y \in Nat : x < y => <<x, y>> \in OpToRel(<, Nat)
  BY Zenon DEF OpToRel
<1>4. \E x \in S : \A y \in S : ~ (y < x)
  BY <1>2, <1>3, Zenon
<1> QED BY <1>4

LEMMA PowerSum ==
  ASSUME NEW a \in Nat, NEW b \in Nat
  PROVE  2 ^ (a + b) = 2 ^ a * 2 ^ b
<1> DEFINE Wrong == {n \in Nat : 2 ^ (a + n) # 2 ^ a * 2 ^ n}
<1>1. 2 ^ a \in Nat
  BY PowerPositive
<1>2. 0 \notin Wrong
  <2>1. a + 0 = a
    OBVIOUS
  <2> QED BY <1>1, <2>1, PowerZero
<1>3. ASSUME NEW n \in Nat, n \notin Wrong PROVE n + 1 \notin Wrong
  <2>1. 2 ^ (a + n) = 2 ^ a * 2 ^ n
    BY <1>3
  <2>2. a + (n + 1) = (a + n) + 1 /\ a + n \in Nat
    OBVIOUS
  <2>3. 2 ^ (a + (n + 1)) = 2 * 2 ^ (a + n)
    BY <2>2, PowerNext
  <2>4. 2 ^ (n + 1) = 2 * 2 ^ n /\ 2 ^ n \in Nat
    BY PowerNext, PowerPositive
  <2>5. ASSUME NEW A \in Nat, NEW N \in Nat PROVE 2 * (A * N) = A * (2 * N)
    OBVIOUS
  <2> QED BY <1>1, <2>1, <2>3, <2>4, <2>5
<1>4. SUFFICES ASSUME Wrong # {} PROVE FALSE
  OBVIOUS
<1>5. PICK n \in Wrong : \A k \in Wrong : n <= k
  BY <1>4, FirstOfSet
<1> HIDE DEF Wrong
<1>6. n \in Nat /\ n # 0
  BY <1>2, <1>5 DEF Wrong
<1>7. n - 1 \in Nat /\ n - 1 \notin Wrong
  BY <1>5, <1>6 DEF Wrong
<1>8. (n - 1) + 1 \notin Wrong
  BY <1>3, <1>7
<1> QED BY <1>5, <1>6, <1>8

LEMMA PowerGrows ==
  ASSUME NEW a \in Nat, NEW b \in Nat, a < b
  PROVE  2 * 2 ^ a <= 2 ^ b
<1>1. b - (a + 1) \in Nat /\ a + 1 \in Nat /\ (a + 1) + (b - (a + 1)) = b
  OBVIOUS
<1>2. 2 ^ b = 2 ^ (a + 1) * 2 ^ (b - (a + 1))
  BY <1>1, PowerSum
<1>3. 2 ^ (a + 1) = 2 * 2 ^ a
  BY PowerNext
<1>4. /\ 2 ^ (a + 1) \in Nat /\ 2 ^ a \in Nat
      /\ 2 ^ (b - (a + 1)) \in Nat /\ 2 ^ (b - (a + 1)) > 0
  BY <1>1, PowerPositive
<1>5. ASSUME NEW x \in Nat, NEW y \in Nat, y > 0 PROVE x <= x * y
  <2>1. y - 1 \in Nat /\ x * y = x + x * (y - 1)
    BY <1>5
  <2>2. x * (y - 1) \in Nat
    BY <2>1
  <2> QED BY <2>1, <2>2
<1> QED BY <1>2, <1>3, <1>4, <1>5

-----------------------------------------------------------------------------
(* Quotients and remainders, and the fields of a float.                     *)

LEMMA Division ==
  ASSUME NEW a \in Nat, NEW d \in Nat, d > 0
  PROVE  /\ a \div d \in Nat /\ a % d \in 0 .. d - 1
         /\ a = (a \div d) * d + (a % d)
<1>1. a \div d \in Nat /\ a % d \in Nat
  OBVIOUS
<1>2. a % d < d
  OBVIOUS
<1>3. ASSUME NEW x \in Int, NEW y \in Int, y > 0 PROVE x = y * (x \div y) + (x % y)
  BY <1>3, Z3
<1>4. a = d * (a \div d) + (a % d)
  <2>1. a \in Int /\ d \in Int
    OBVIOUS
  <2> QED BY <1>3, <2>1
<1>5. ASSUME NEW q \in Nat PROVE d * q = q * d
  OBVIOUS
<1> QED BY <1>1, <1>2, <1>4, <1>5

LEMMA DivisionUnique ==
  ASSUME NEW d \in Nat, d > 0, NEW q \in Nat, NEW r \in 0 .. d - 1
  PROVE  (q * d + r) \div d = q /\ (q * d + r) % d = r
<1>1. r \in Nat /\ r < d
  OBVIOUS
<1> QED BY <1>1

LEMMA ProductBound ==
  ASSUME NEW E \in Nat, NEW M \in Nat, NEW e \in 0 .. E - 1, NEW m \in 0 .. M - 1
  PROVE  e * M + m \in 0 .. E * M - 1
<1>1. E - 1 - e \in Nat /\ e \in Nat /\ m \in Nat /\ m <= M - 1
  OBVIOUS
<1>2. (E - 1 - e) * M \in Nat /\ e * M \in Nat /\ E * M \in Nat
  BY <1>1
<1>3. (E - 1 - e) * M = E * M - M - e * M
  BY <1>1
<1> QED BY <1>1, <1>2, <1>3

\* A number of three digits, of bases E and M.
LEMMA Digits ==
  ASSUME NEW E \in Nat, E > 0, NEW M \in Nat, M > 0,
         NEW s \in Nat, NEW e \in 0 .. E - 1, NEW m \in 0 .. M - 1
  PROVE  LET x == (s * E + e) * M + m
         IN  x \in Nat /\ x \div (E * M) = s /\ (x \div M) % E = e /\ x % M = m
<1> DEFINE x == (s * E + e) * M + m
<1>1. s * E + e \in Nat /\ s * E \in Nat /\ e \in Nat /\ m \in Nat
  OBVIOUS
<1>2. x \in Nat
  BY <1>1
<1>3. x \div M = s * E + e /\ x % M = m
  BY <1>1, DivisionUnique
<1>4. (s * E + e) % E = e
  BY DivisionUnique
<1>5. x = s * (E * M) + (e * M + m)
  BY <1>1
<1>6. e * M + m \in 0 .. E * M - 1
  BY ProductBound
<1>7. E * M \in Nat /\ E * M > 0
  OBVIOUS
<1>8. x \div (E * M) = s
  <2> DEFINE d == E * M
             r == e * M + m
  <2>1. d \in Nat /\ d > 0 /\ r \in 0 .. d - 1 /\ x = s * d + r
    BY <1>5, <1>6, <1>7
  <2> HIDE DEF d, r, x
  <2>2. x \div d = s
    BY <2>1, DivisionUnique
  <2> QED BY <2>2 DEF d
<1> QED BY <1>2, <1>3, <1>4, <1>8

IsFormat(f) == f.exp \in Nat \ {0} /\ f.mant \in Nat \ {0}

LEMMA Formats == IsFormat(F32) /\ IsFormat(Bf16) /\ IsFormat(F16)
  BY WidthsAssumption DEF IsFormat, F32, Bf16, F16

LEMMA FormatPowers ==
  ASSUME NEW f, IsFormat(f)
  PROVE  /\ 2 ^ f.exp \in Nat /\ 2 ^ f.exp > 0
         /\ 2 ^ f.mant \in Nat /\ 2 ^ f.mant > 0
         /\ 2 ^ (f.exp + f.mant) = 2 ^ f.exp * 2 ^ f.mant
         /\ 2 ^ (1 + f.exp + f.mant) = 2 * (2 ^ f.exp * 2 ^ f.mant)
<1>1. f.exp \in Nat /\ f.mant \in Nat
  BY DEF IsFormat
<1>2. 2 ^ (f.exp + f.mant) = 2 ^ f.exp * 2 ^ f.mant
  BY <1>1, PowerSum
<1>3. f.exp + f.mant \in Nat /\ 1 + f.exp + f.mant = (f.exp + f.mant) + 1
  BY <1>1
<1>4. 2 ^ ((f.exp + f.mant) + 1) = 2 * 2 ^ (f.exp + f.mant)
  BY <1>3, PowerNext
<1> QED BY <1>1, <1>2, <1>3, <1>4, PowerPositive

\* A float is put together from its fields, and from them alone.
LEMMA FloatOf ==
  ASSUME NEW f, IsFormat(f), NEW s \in {0, 1},
         NEW e \in 0 .. 2 ^ f.exp - 1, NEW m \in 0 .. 2 ^ f.mant - 1
  PROVE  LET x == Float(f, s, e, m)
         IN  /\ x \in Floats(f)
             /\ Sign(f, x) = s /\ Exponent(f, x) = e /\ Mantissa(f, x) = m
<1> DEFINE E == 2 ^ f.exp
           M == 2 ^ f.mant
           x == (s * E + e) * M + m
<1>1. /\ E \in Nat /\ E > 0 /\ M \in Nat /\ M > 0
      /\ 2 ^ (f.exp + f.mant) = E * M /\ 2 ^ (1 + f.exp + f.mant) = 2 * (E * M)
  BY FormatPowers
<1>2. e \in 0 .. E - 1 /\ m \in 0 .. M - 1 /\ s \in Nat /\ s \in 0 .. 2 - 1
  OBVIOUS
<1>3. Float(f, s, e, m) = x
  BY DEF Float
<1>4. Sign(f, x) = x \div (E * M) /\ Exponent(f, x) = (x \div M) % E /\ Mantissa(f, x) = x % M
  BY <1>1 DEF Sign, Exponent, Mantissa
<1>5. Floats(f) = 0 .. 2 * (E * M) - 1
  BY <1>1 DEF Floats
<1> HIDE DEF E, M
<1>6. x \in Nat /\ x \div (E * M) = s /\ (x \div M) % E = e /\ x % M = m
  BY <1>1, <1>2, Digits
<1>7. x \in 0 .. 2 * (E * M) - 1
  <2>1. s * E + e \in 0 .. 2 * E - 1
    BY <1>1, <1>2
  <2>2. 2 * E \in Nat
    BY <1>1
  <2>3. (s * E + e) * M + m \in 0 .. (2 * E) * M - 1
    <3> DEFINE a == s * E + e
               b == 2 * E
    <3>1. a \in 0 .. b - 1 /\ b \in Nat
      BY <2>1, <2>2
    <3> HIDE DEF a, b
    <3>2. a * M + m \in 0 .. b * M - 1
      BY <1>1, <1>2, <3>1, ProductBound
    <3> QED BY <3>2 DEF a, b
  <2>4. (2 * E) * M = 2 * (E * M)
    BY <1>1
  <2> QED BY <2>3, <2>4
<1> HIDE DEF x
<1> QED BY <1>3, <1>4, <1>5, <1>6, <1>7

LEMMA FieldsOf ==
  ASSUME NEW f, IsFormat(f), NEW x \in Floats(f)
  PROVE  /\ x \in Nat
         /\ Sign(f, x) \in {0, 1}
         /\ Exponent(f, x) \in 0 .. 2 ^ f.exp - 1
         /\ Mantissa(f, x) \in 0 .. 2 ^ f.mant - 1
         /\ x = Float(f, Sign(f, x), Exponent(f, x), Mantissa(f, x))
<1> DEFINE E == 2 ^ f.exp
           M == 2 ^ f.mant
           q == x \div M
           s == q \div E
           e == q % E
           m == x % M
<1>1. /\ E \in Nat /\ E > 0 /\ M \in Nat /\ M > 0
      /\ 2 ^ (f.exp + f.mant) = E * M /\ 2 ^ (1 + f.exp + f.mant) = 2 * (E * M)
  BY FormatPowers
<1>2. x \in Nat /\ x < 2 * (E * M)
  BY <1>1 DEF Floats
<1>3. Sign(f, x) = x \div (E * M) /\ Exponent(f, x) = e /\ Mantissa(f, x) = m
  BY <1>1 DEF Sign, Exponent, Mantissa
<1>4. \A a, b, c : Float(f, a, b, c) = (a * E + b) * M + c
  BY DEF Float
<1> HIDE DEF E, M
<1>5. q \in Nat /\ m \in 0 .. M - 1 /\ x = q * M + m
  BY <1>1, <1>2, Division
<1> HIDE DEF q, m
<1>6. s \in Nat /\ e \in 0 .. E - 1 /\ q = s * E + e
  BY <1>1, <1>5, Division
<1> HIDE DEF s, e
<1>7. x = (s * E + e) * M + m
  BY <1>5, <1>6
<1>8. x \div (E * M) = s
  BY <1>1, <1>5, <1>6, <1>7, Digits
<1>9. s < 2
  <2>1. SUFFICES ASSUME s >= 2 PROVE FALSE
    BY <1>6
  <2>2. s - 2 \in Nat /\ e \in Nat /\ m \in Nat
    BY <1>5, <1>6, <2>1
  <2>3. x = (s - 2) * (E * M) + 2 * (E * M) + e * M + m
    <3>1. x = s * (E * M) + e * M + m
      BY <1>1, <1>6, <1>7, <2>2
    <3>2. E * M \in Nat /\ s * (E * M) = (s - 2) * (E * M) + 2 * (E * M)
      BY <1>1, <1>6
    <3> QED BY <3>1, <3>2
  <2>4. (s - 2) * (E * M) \in Nat /\ e * M \in Nat /\ E * M \in Nat
    BY <1>1, <2>2
  <2> QED BY <1>2, <2>2, <2>3, <2>4
<1>10. s \in {0, 1}
  BY <1>6, <1>9
<1> QED BY <1>2, <1>3, <1>4, <1>5, <1>6, <1>7, <1>8, <1>10 DEF E, M

-----------------------------------------------------------------------------
(* A half becomes the float of the same value.                              *)

\* Shifting brings the leading one of a subnormal's mantissa to its place.
LEMMA LeadingOne ==
  ASSUME NEW n \in Nat, NEW m \in 1 .. 2 ^ n - 1
  PROVE  \E k \in 0 .. n : (m * 2 ^ k) \div 2 ^ n = 1
<1> DEFINE Reaching == {k \in Nat : 2 ^ n <= m * 2 ^ k}
<1>1. 2 ^ n \in Nat /\ 2 ^ n > 0 /\ m \in Nat /\ m >= 1 /\ m < 2 ^ n
  BY PowerPositive
<1>2. n \in Reaching
  <2>1. ASSUME NEW a \in Nat, NEW b \in Nat, a >= 1 PROVE b <= a * b
    <3>1. (a - 1) * b \in Nat /\ a * b = (a - 1) * b + b
      BY <2>1
    <3> QED BY <3>1
  <2> QED BY <1>1, <2>1
<1>3. PICK k \in Reaching : \A j \in Reaching : k <= j
  <2> HIDE DEF Reaching
  <2>1. Reaching \in SUBSET Nat
    BY DEF Reaching
  <2> QED BY <1>2, <2>1, FirstOfSet
<1>4. k \in 0 .. n /\ 2 ^ n <= m * 2 ^ k
  BY <1>2, <1>3
<1>5. k # 0
  <2>1. SUFFICES ASSUME k = 0 PROVE FALSE
    OBVIOUS
  <2>2. 2 ^ k = 1
    BY <2>1, PowerZero
  <2>3. m * 2 ^ k = m
    BY <1>1, <2>2
  <2> QED BY <1>1, <1>4, <2>3
<1>6. k - 1 \in Nat /\ (k - 1) + 1 = k
  BY <1>4, <1>5
<1>7. ~ (2 ^ n <= m * 2 ^ (k - 1))
  BY <1>3, <1>6
<1>8. 2 ^ k = 2 * 2 ^ (k - 1) /\ 2 ^ (k - 1) \in Nat
  BY <1>6, PowerNext, PowerPositive
<1>9. m * 2 ^ k = 2 * (m * 2 ^ (k - 1)) /\ m * 2 ^ (k - 1) \in Nat
  BY <1>1, <1>8
<1>10. m * 2 ^ k = 1 * 2 ^ n + (m * 2 ^ k - 2 ^ n) /\ m * 2 ^ k - 2 ^ n \in 0 .. 2 ^ n - 1
  BY <1>1, <1>4, <1>7, <1>9
<1>11. (m * 2 ^ k) \div 2 ^ n = 1
  <2> DEFINE a == m * 2 ^ k
             d == 2 ^ n
             r == a - d
  <2>1. d \in Nat /\ d > 0 /\ r \in 0 .. d - 1 /\ a = 1 * d + r
    BY <1>1, <1>10
  <2> HIDE DEF a, d, r
  <2>2. (1 * d + r) \div d = 1
    BY <2>1, DivisionUnique
  <2> QED BY <2>1, <2>2 DEF a, d
<1> QED BY <1>4, <1>11

\* The exponents of a half fit between those of a float, however far its subnormals
\* are shifted; the mantissas differ by zeros.
LEMMA WidthsRelate ==
  /\ 2 ^ ExpBits \in Nat /\ 2 ^ HalfExpBits \in Nat /\ 2 ^ HalfExpBits >= 2
  /\ Rebias \in Nat /\ HalfMantBits < Rebias
  /\ Rebias + 2 ^ HalfExpBits <= 2 ^ ExpBits
  /\ Widen \in Nat /\ Widen > 0
  /\ 2 ^ HalfMantBits \in Nat /\ 2 ^ HalfMantBits > 0
  /\ 2 ^ MantBits = 2 ^ HalfMantBits * Widen
<1> DEFINE A == 2 ^ (ExpBits - 1)
           B == 2 ^ (HalfExpBits - 1)
<1>1. /\ ExpBits \in Nat \ {0} /\ MantBits \in Nat /\ HalfExpBits \in Nat \ {0} /\ HalfMantBits \in Nat
      /\ HalfExpBits < ExpBits /\ HalfMantBits <= MantBits /\ HalfMantBits < A - B
  BY WidthsAssumption
<1>2. /\ ExpBits - 1 \in Nat /\ (ExpBits - 1) + 1 = ExpBits
      /\ HalfExpBits - 1 \in Nat /\ (HalfExpBits - 1) + 1 = HalfExpBits
      /\ HalfExpBits - 1 < ExpBits - 1
  BY <1>1
<1>3. A \in Nat /\ A > 0 /\ B \in Nat /\ B > 0
  BY <1>2, PowerPositive
<1>4. 2 ^ ExpBits = 2 * A
  BY <1>2, PowerNext
<1>5. 2 ^ HalfExpBits = 2 * B
  BY <1>2, PowerNext
<1>6. 2 * B <= A
  BY <1>2, PowerGrows
<1>7. Rebias = A - B
  BY DEF Rebias
<1>8. MantBits - HalfMantBits \in Nat /\ HalfMantBits + (MantBits - HalfMantBits) = MantBits
  BY <1>1
<1>9. 2 ^ MantBits = 2 ^ HalfMantBits * Widen
  BY <1>1, <1>8, PowerSum DEF Widen
<1>10. Widen \in Nat /\ Widen > 0
  BY <1>8, PowerPositive DEF Widen
<1>11. 2 ^ HalfMantBits \in Nat /\ 2 ^ HalfMantBits > 0
  BY <1>1, PowerPositive
<1> HIDE DEF A, B
<1>12. Rebias \in Nat /\ HalfMantBits < Rebias /\ Rebias + 2 * B <= 2 * A
  BY <1>1, <1>3, <1>6, <1>7
<1> QED BY <1>3, <1>4, <1>5, <1>9, <1>10, <1>11, <1>12

\* What a float of given fields is.
LEMMA FloatIs ==
  ASSUME NEW f, IsFormat(f), NEW s \in {0, 1},
         NEW e \in 0 .. 2 ^ f.exp - 1, NEW m \in 0 .. 2 ^ f.mant - 1
  PROVE  LET x == Float(f, s, e, m)
         IN  /\ x \in Floats(f) /\ Sign(f, x) = s
             /\ IsNaN(f, x) <=> e = AllOnes(f) /\ m # 0
             /\ IsInfinite(f, x) <=> e = AllOnes(f) /\ m = 0
             /\ Magnitude(f, x) = IF e = 0 THEN m ELSE (2 ^ f.mant + m) * 2 ^ (e - 1)
<1> DEFINE x == Float(f, s, e, m)
<1>1. x \in Floats(f) /\ Sign(f, x) = s /\ Exponent(f, x) = e /\ Mantissa(f, x) = m
  BY FloatOf
<1> HIDE DEF x
<1>2. x \in Floats(f) /\ Sign(f, x) = s
  BY <1>1
<1>3. IsNaN(f, x) <=> e = AllOnes(f) /\ m # 0
  BY <1>1 DEF IsNaN
<1>4. IsInfinite(f, x) <=> e = AllOnes(f) /\ m = 0
  BY <1>1 DEF IsInfinite
<1>5. Magnitude(f, x) = IF e = 0 THEN m ELSE (2 ^ f.mant + m) * 2 ^ (e - 1)
  BY <1>1 DEF Magnitude
<1> QED BY <1>2, <1>3, <1>4, <1>5 DEF x

LEMMA SubnormalWidened ==
  ASSUME NEW k \in Nat, NEW m \in Nat, NEW s \in {0, 1}, k <= HalfMantBits,
         (m * 2 ^ k) \div 2 ^ HalfMantBits = 1, m < 2 ^ HalfMantBits
  PROVE  LET x == Float(F32, s, 1 - k + Rebias, (m * 2 ^ k - 2 ^ HalfMantBits) * Widen)
         IN  /\ x \in Floats(F32) /\ Sign(F32, x) = s
             /\ ~ IsNaN(F32, x) /\ ~ IsInfinite(F32, x)
             /\ Magnitude(F32, x) = m * 2 ^ Rebias * Widen
<1> DEFINE H == 2 ^ HalfMantBits
           p == m * 2 ^ k
           e == 1 - k + Rebias
           n == (p - H) * Widen
<1>1. H \in Nat /\ H > 0 /\ Widen \in Nat /\ Widen > 0 /\ 2 ^ MantBits = H * Widen
  BY WidthsRelate
<1>2. 2 ^ k \in Nat /\ p \in Nat
  BY PowerPositive
<1>3. p \in H .. 2 * H - 1
  <2>1. p \div H = 1
    OBVIOUS
  <2> HIDE DEF p, H
  <2>2. p = 1 * H + (p % H) /\ p % H \in 0 .. H - 1
    BY <1>1, <1>2, <2>1, Division
  <2> QED BY <1>1, <1>2, <2>2
<1>4. k # 0
  <2>1. SUFFICES ASSUME k = 0 PROVE FALSE
    OBVIOUS
  <2>2. 2 ^ k = 1
    BY <2>1, PowerZero
  <2>3. p = m
    BY <2>2
  <2> QED BY <1>1, <1>3, <2>3
<1>5. Rebias \in Nat /\ k <= Rebias /\ Rebias + 2 <= 2 ^ ExpBits /\ 2 ^ ExpBits \in Nat
  <2>1. HalfMantBits \in Nat
    BY WidthsAssumption
  <2> QED BY <2>1, WidthsRelate
<1>6. e \in 1 .. 2 ^ ExpBits - 2 /\ e - 1 = Rebias - k /\ Rebias - k \in Nat
  BY <1>4, <1>5
<1>7. n \in 0 .. 2 ^ MantBits - 1
  <2> HIDE DEF p, H
  <2>1. p - H \in 0 .. H - 1 /\ 0 \in 0 .. Widen - 1
    BY <1>1, <1>3
  <2>2. (p - H) * Widen + 0 \in 0 .. H * Widen - 1
    BY <1>1, <2>1, ProductBound
  <2>3. (p - H) * Widen \in Nat
    BY <1>1, <2>1
  <2> QED BY <1>1, <2>2, <2>3
<1>8. F32.exp = ExpBits /\ F32.mant = MantBits /\ AllOnes(F32) = 2 ^ ExpBits - 1
  BY DEF F32, AllOnes
<1> DEFINE x == Float(F32, s, e, n)
<1>9. e \in 0 .. 2 ^ F32.exp - 1 /\ n \in 0 .. 2 ^ F32.mant - 1 /\ e # AllOnes(F32) /\ e # 0
  <2> HIDE DEF n, e
  <2> QED BY <1>5, <1>6, <1>7, <1>8
<1>10. /\ x \in Floats(F32) /\ Sign(F32, x) = s
       /\ ~ IsNaN(F32, x) /\ ~ IsInfinite(F32, x)
       /\ Magnitude(F32, x) = (2 ^ MantBits + n) * 2 ^ (e - 1)
  <2> HIDE DEF n, e
  <2>1. /\ x \in Floats(F32) /\ Sign(F32, x) = s
        /\ IsNaN(F32, x) <=> e = AllOnes(F32) /\ n # 0
        /\ IsInfinite(F32, x) <=> e = AllOnes(F32) /\ n = 0
        /\ Magnitude(F32, x) = IF e = 0 THEN n ELSE (2 ^ F32.mant + n) * 2 ^ (e - 1)
    BY <1>9, Formats, FloatIs
  <2> QED BY <1>8, <1>9, <2>1
<1>11. (2 ^ MantBits + n) * 2 ^ (e - 1) = m * 2 ^ Rebias * Widen
  <2>1. 2 ^ MantBits + n = p * Widen
    <3> HIDE DEF p, H
    <3>1. (p - H) * Widen = p * Widen - H * Widen /\ p * Widen \in Nat /\ H * Widen \in Nat
      BY <1>1, <1>2
    <3> QED BY <1>1, <3>1
  <2>2. 2 ^ (e - 1) = 2 ^ (Rebias - k)
    BY <1>6
  <2>3. 2 ^ Rebias = 2 ^ k * 2 ^ (Rebias - k)
    <3>1. k + (Rebias - k) = Rebias
      BY <1>5
    <3> QED BY <1>6, <3>1, PowerSum
  <2>4. 2 ^ (Rebias - k) \in Nat
    BY <1>6, PowerPositive
  <2>5. ASSUME NEW a \in Nat, NEW b \in Nat, NEW c \in Nat, NEW d \in Nat
        PROVE  (a * b) * d * c = a * (b * c) * d
    OBVIOUS
  <2>6. (m * 2 ^ k) * Widen * 2 ^ (Rebias - k) = m * (2 ^ k * 2 ^ (Rebias - k)) * Widen
    BY <1>1, <1>2, <2>4, <2>5
  <2> QED BY <2>1, <2>2, <2>3, <2>6
<1> QED BY <1>10, <1>11

LEMMA NormalWidened ==
  ASSUME NEW s \in {0, 1}, NEW e \in 1 .. 2 ^ HalfExpBits - 2, NEW m \in 0 .. 2 ^ HalfMantBits - 1
  PROVE  LET x == Float(F32, s, e + Rebias, m * Widen)
         IN  /\ x \in Floats(F32) /\ Sign(F32, x) = s
             /\ ~ IsNaN(F32, x) /\ ~ IsInfinite(F32, x)
             /\ Magnitude(F32, x) = ((2 ^ HalfMantBits + m) * 2 ^ (e - 1)) * 2 ^ Rebias * Widen
<1> DEFINE H == 2 ^ HalfMantBits
           g == e + Rebias
           n == m * Widen
           x == Float(F32, s, g, n)
<1>1. H \in Nat /\ H > 0 /\ Widen \in Nat /\ Widen > 0 /\ 2 ^ MantBits = H * Widen
  BY WidthsRelate
<1>2. /\ Rebias \in Nat /\ 2 ^ ExpBits \in Nat /\ 2 ^ HalfExpBits \in Nat
      /\ Rebias + 2 ^ HalfExpBits <= 2 ^ ExpBits
  BY WidthsRelate
<1>3. g \in 1 .. 2 ^ ExpBits - 2 /\ e - 1 \in Nat /\ g - 1 = (e - 1) + Rebias
  BY <1>2
<1>4. n \in 0 .. 2 ^ MantBits - 1 /\ m \in Nat
  <2>1. m \in 0 .. H - 1 /\ 0 \in 0 .. Widen - 1
    BY <1>1
  <2> HIDE DEF H
  <2>2. m * Widen + 0 \in 0 .. H * Widen - 1
    BY <1>1, <2>1, ProductBound
  <2> QED BY <1>1, <2>1, <2>2
<1>5. F32.exp = ExpBits /\ F32.mant = MantBits /\ AllOnes(F32) = 2 ^ ExpBits - 1
  BY DEF F32, AllOnes
<1>6. g \in 0 .. 2 ^ F32.exp - 1 /\ n \in 0 .. 2 ^ F32.mant - 1 /\ g # AllOnes(F32) /\ g # 0
  <2> HIDE DEF n, g
  <2> QED BY <1>2, <1>3, <1>4, <1>5
<1>7. /\ x \in Floats(F32) /\ Sign(F32, x) = s
      /\ ~ IsNaN(F32, x) /\ ~ IsInfinite(F32, x)
      /\ Magnitude(F32, x) = (2 ^ MantBits + n) * 2 ^ (g - 1)
  <2> HIDE DEF n, g
  <2>1. /\ x \in Floats(F32) /\ Sign(F32, x) = s
        /\ IsNaN(F32, x) <=> g = AllOnes(F32) /\ n # 0
        /\ IsInfinite(F32, x) <=> g = AllOnes(F32) /\ n = 0
        /\ Magnitude(F32, x) = IF g = 0 THEN n ELSE (2 ^ F32.mant + n) * 2 ^ (g - 1)
    BY <1>6, Formats, FloatIs
  <2> QED BY <1>5, <1>6, <2>1
<1>8. (2 ^ MantBits + n) * 2 ^ (g - 1) = ((H + m) * 2 ^ (e - 1)) * 2 ^ Rebias * Widen
  <2>1. 2 ^ MantBits + n = (H + m) * Widen /\ H + m \in Nat
    <3> HIDE DEF H
    <3> QED BY <1>1, <1>4
  <2>2. 2 ^ (g - 1) = 2 ^ (e - 1) * 2 ^ Rebias
    BY <1>2, <1>3, PowerSum
  <2>3. 2 ^ (e - 1) \in Nat /\ 2 ^ Rebias \in Nat
    BY <1>2, <1>3, PowerPositive
  <2>4. ASSUME NEW a \in Nat, NEW b \in Nat, NEW c \in Nat, NEW d \in Nat
        PROVE  (a * d) * (b * c) = (a * b) * c * d
    OBVIOUS
  <2>5. ((H + m) * Widen) * (2 ^ (e - 1) * 2 ^ Rebias) = ((H + m) * 2 ^ (e - 1)) * 2 ^ Rebias * Widen
    BY <1>1, <2>1, <2>3, <2>4
  <2> QED BY <2>1, <2>2, <2>5
<1> QED BY <1>7, <1>8

\* Zeros, infinities and NaNs stay what they are.
LEMMA SpecialWidened ==
  ASSUME NEW s \in {0, 1}, NEW e \in {0, 2 ^ ExpBits - 1}, NEW m \in 0 .. 2 ^ HalfMantBits - 1,
         e = 0 => m = 0
  PROVE  LET x == Float(F32, s, e, m * Widen)
         IN  /\ x \in Floats(F32) /\ Sign(F32, x) = s
             /\ IsNaN(F32, x) <=> e # 0 /\ m # 0
             /\ IsInfinite(F32, x) <=> e # 0 /\ m = 0
             /\ e = 0 => Magnitude(F32, x) = 0
<1> DEFINE H == 2 ^ HalfMantBits
           n == m * Widen
           x == Float(F32, s, e, n)
<1>1. H \in Nat /\ H > 0 /\ Widen \in Nat /\ Widen > 0 /\ 2 ^ MantBits = H * Widen
  BY WidthsRelate
<1>2. 2 ^ ExpBits \in Nat /\ 2 ^ ExpBits >= 2
  BY WidthsRelate
<1>3. n \in 0 .. 2 ^ MantBits - 1 /\ m \in Nat
  <2>1. m \in 0 .. H - 1 /\ 0 \in 0 .. Widen - 1
    BY <1>1
  <2> HIDE DEF H
  <2>2. m * Widen + 0 \in 0 .. H * Widen - 1
    BY <1>1, <2>1, ProductBound
  <2> QED BY <1>1, <2>1, <2>2
<1>4. n = 0 <=> m = 0
  BY <1>1, <1>3
<1>5. F32.exp = ExpBits /\ F32.mant = MantBits /\ AllOnes(F32) = 2 ^ ExpBits - 1
  BY DEF F32, AllOnes
<1>6. e \in 0 .. 2 ^ F32.exp - 1 /\ n \in 0 .. 2 ^ F32.mant - 1 /\ (e = AllOnes(F32) <=> e # 0)
  <2> HIDE DEF n
  <2> QED BY <1>2, <1>3, <1>5
<1> HIDE DEF n
<1>7. /\ x \in Floats(F32) /\ Sign(F32, x) = s
      /\ IsNaN(F32, x) <=> e = AllOnes(F32) /\ n # 0
      /\ IsInfinite(F32, x) <=> e = AllOnes(F32) /\ n = 0
      /\ Magnitude(F32, x) = IF e = 0 THEN n ELSE (2 ^ F32.mant + n) * 2 ^ (e - 1)
  BY <1>6, Formats, FloatIs
<1>8. e = 0 => n = 0
  BY <1>4
<1> QED BY <1>4, <1>6, <1>7, <1>8 DEF n

\* Every f16, subnormals included, becomes the f32 of the same value, whatever the
\* widths of the two formats.
THEOREM HalvesAreExact == HalvesExact
<1> SUFFICES ASSUME NEW h \in Floats(F16)
             PROVE  LET x == f16_bits_to_f32_bits(h) IN
                    /\ Sign(F32, x) = Sign(F16, h)
                    /\ IsNaN(F32, x) = IsNaN(F16, h)
                    /\ IsInfinite(F32, x) = IsInfinite(F16, h)
                    /\ Exponent(F16, h) # AllOnes(F16) =>
                         Magnitude(F32, x) = Magnitude(F16, h) * 2 ^ Rebias * Widen
  BY DEF HalvesExact
<1> DEFINE s == Sign(F16, h)
           e == Exponent(F16, h)
           m == Mantissa(F16, h)
           k == CHOOSE j \in 0 .. HalfMantBits : (m * 2 ^ j) \div 2 ^ HalfMantBits = 1
           x == f16_bits_to_f32_bits(h)
<1>1. /\ F16.exp = HalfExpBits /\ F16.mant = HalfMantBits
      /\ AllOnes(F16) = 2 ^ HalfExpBits - 1 /\ AllOnes(F32) = 2 ^ ExpBits - 1
  BY DEF F16, F32, AllOnes
<1>2. s \in {0, 1} /\ e \in 0 .. 2 ^ HalfExpBits - 1 /\ m \in 0 .. 2 ^ HalfMantBits - 1
  BY <1>1, Formats, FieldsOf
<1>3. /\ IsNaN(F16, h) <=> e = AllOnes(F16) /\ m # 0
      /\ IsInfinite(F16, h) <=> e = AllOnes(F16) /\ m = 0
      /\ Magnitude(F16, h) = IF e = 0 THEN m ELSE (2 ^ HalfMantBits + m) * 2 ^ (e - 1)
  BY <1>1 DEF IsNaN, IsInfinite, Magnitude
<1>4. x = IF e = 0 /\ m # 0
            THEN Float(F32, s, 1 - k + Rebias, (m * 2 ^ k - 2 ^ HalfMantBits) * Widen)
            ELSE Float(F32, s,
                       CASE e = 0 -> 0
                         [] e = AllOnes(F16) -> AllOnes(F32)
                         [] OTHER -> e + Rebias,
                       m * Widen)
  BY DEF f16_bits_to_f32_bits
<1>5. /\ 2 ^ HalfExpBits \in Nat /\ 2 ^ HalfExpBits >= 2 /\ 2 ^ ExpBits \in Nat
      /\ 2 ^ HalfExpBits <= 2 ^ ExpBits /\ Rebias \in Nat /\ Widen \in Nat
  BY WidthsRelate
<1>6. IsNaN(F16, h) \in BOOLEAN /\ IsNaN(F32, x) \in BOOLEAN
      /\ IsInfinite(F16, h) \in BOOLEAN /\ IsInfinite(F32, x) \in BOOLEAN
  BY DEF IsNaN, IsInfinite
<1> HIDE DEF s, e, m, k, x
<1>7. CASE e = 0 /\ m # 0
  <2>1. \E j \in 0 .. HalfMantBits : (m * 2 ^ j) \div 2 ^ HalfMantBits = 1
    <3>1. m \in 1 .. 2 ^ HalfMantBits - 1 /\ HalfMantBits \in Nat
      BY <1>2, <1>7, WidthsAssumption
    <3> QED BY <3>1, LeadingOne
  <2>2. k \in 0 .. HalfMantBits /\ (m * 2 ^ k) \div 2 ^ HalfMantBits = 1
    BY <2>1 DEF k
  <2>3. k \in Nat /\ k <= HalfMantBits /\ m \in Nat /\ m < 2 ^ HalfMantBits
    <3>1. HalfMantBits \in Nat
      BY WidthsAssumption
    <3>2. 2 ^ HalfMantBits \in Nat
      BY <3>1, PowerPositive
    <3> QED BY <1>2, <2>2, <3>1, <3>2
  <2>4. /\ Sign(F32, x) = s /\ ~ IsNaN(F32, x) /\ ~ IsInfinite(F32, x)
        /\ Magnitude(F32, x) = m * 2 ^ Rebias * Widen
    <3>1. x = Float(F32, s, 1 - k + Rebias, (m * 2 ^ k - 2 ^ HalfMantBits) * Widen)
      BY <1>4, <1>7
    <3> QED BY <1>2, <2>2, <2>3, <3>1, SubnormalWidened
  <2>5. ~ IsNaN(F16, h) /\ ~ IsInfinite(F16, h) /\ Magnitude(F16, h) = m
    BY <1>1, <1>3, <1>5, <1>7
  <2> QED BY <1>6, <2>4, <2>5 DEF s, x
<1>8. CASE e # 0 /\ e # AllOnes(F16)
  <2>1. e \in 1 .. 2 ^ HalfExpBits - 2
    BY <1>1, <1>2, <1>5, <1>8
  <2>2. x = Float(F32, s, e + Rebias, m * Widen)
    BY <1>4, <1>8
  <2>3. /\ Sign(F32, x) = s /\ ~ IsNaN(F32, x) /\ ~ IsInfinite(F32, x)
        /\ Magnitude(F32, x) = ((2 ^ HalfMantBits + m) * 2 ^ (e - 1)) * 2 ^ Rebias * Widen
    BY <1>2, <2>1, <2>2, NormalWidened
  <2>4. ~ IsNaN(F16, h) /\ ~ IsInfinite(F16, h)
        /\ Magnitude(F16, h) = (2 ^ HalfMantBits + m) * 2 ^ (e - 1)
    BY <1>3, <1>8
  <2> QED BY <1>6, <2>3, <2>4 DEF s, x
<1>9. CASE (e = 0 /\ m = 0) \/ e = AllOnes(F16)
  <2> DEFINE w == IF e = 0 THEN 0 ELSE 2 ^ ExpBits - 1
  <2>1. x = Float(F32, s, w, m * Widen)
    BY <1>1, <1>4, <1>5, <1>9
  <2>2. w \in {0, 2 ^ ExpBits - 1} /\ (w = 0 <=> e = 0) /\ (w = 0 => m = 0)
    BY <1>1, <1>5, <1>9
  <2> HIDE DEF w
  <2>3. /\ Sign(F32, x) = s
        /\ IsNaN(F32, x) <=> w # 0 /\ m # 0
        /\ IsInfinite(F32, x) <=> w # 0 /\ m = 0
        /\ w = 0 => Magnitude(F32, x) = 0
    BY <1>2, <2>1, <2>2, SpecialWidened
  <2>4. /\ IsNaN(F16, h) <=> w # 0 /\ m # 0
        /\ IsInfinite(F16, h) <=> w # 0 /\ m = 0
    BY <1>1, <1>3, <1>5, <1>9, <2>2
  <2>5. e # AllOnes(F16) => Magnitude(F32, x) = 0 /\ Magnitude(F16, h) = 0
    BY <1>3, <1>9, <2>2, <2>3
  <2>6. ASSUME e # AllOnes(F16) PROVE Magnitude(F32, x) = Magnitude(F16, h) * 2 ^ Rebias * Widen
    <3>1. 2 ^ Rebias \in Nat
      BY <1>5, PowerPositive
    <3>2. 0 = 0 * 2 ^ Rebias * Widen
      BY <1>5, <3>1
    <3> QED BY <2>5, <2>6, <3>2
  <2> QED BY <1>6, <2>3, <2>4, <2>6 DEF s, e, x
<1> QED BY <1>7, <1>8, <1>9

-----------------------------------------------------------------------------
(* Neighbouring floats.                                                     *)

LEMMA TimesGrows ==
  ASSUME NEW a \in Nat, NEW b \in Nat, NEW c \in Nat
  PROVE  /\ a <= b => a * c <= b * c
         /\ a < b /\ c > 0 => a * c < b * c
<1>1. ASSUME a <= b PROVE a * c <= b * c
  <2>1. b - a \in Nat /\ b = a + (b - a)
    BY <1>1
  <2>2. (b - a) * c \in Nat /\ b * c = a * c + (b - a) * c
    BY <2>1
  <2> QED BY <2>2
<1>2. ASSUME a < b, c > 0 PROVE a * c < b * c
  <2>1. b - a \in Nat /\ b - a > 0 /\ b = a + (b - a)
    BY <1>2
  <2>2. (b - a) * c \in Nat /\ (b - a) * c > 0 /\ b * c = a * c + (b - a) * c
    BY <1>2, <2>1
  <2>3. a * c \in Nat
    OBVIOUS
  <2> QED BY <2>2, <2>3
<1> QED BY <1>1, <1>2

\* Numbers of two digits are ordered by the first that differs.
LEMMA DigitsOrdered ==
  ASSUME NEW M \in Nat, NEW a \in Nat, NEW b \in Nat,
         NEW m \in 0 .. M - 1, NEW n \in 0 .. M - 1, a * M + m < b * M + n
  PROVE  a < b \/ (a = b /\ m < n)
<1>1. a * M \in Nat /\ b * M \in Nat /\ m \in Nat /\ n \in Nat
  OBVIOUS
<1>2. ~ (b < a)
  <2>1. SUFFICES ASSUME b < a PROVE FALSE
    OBVIOUS
  <2>2. (b + 1) * M <= a * M
    <3>1. b + 1 \in Nat /\ b + 1 <= a
      BY <2>1
    <3> QED BY <3>1, TimesGrows
  <2>3. (b + 1) * M = b * M + M
    OBVIOUS
  <2> QED BY <1>1, <2>2, <2>3
<1>3. a = b => m < n
  BY <1>1
<1> QED BY <1>2, <1>3

\* How far the next float is, in units of the smallest.
Ulp(f, x) == IF Exponent(f, x) = 0 THEN 1 ELSE 2 ^ (Exponent(f, x) - 1)

LEMMA MagnitudeType ==
  ASSUME NEW f, IsFormat(f), NEW x \in Floats(f)
  PROVE  Magnitude(f, x) \in Nat /\ Ulp(f, x) \in Nat /\ Ulp(f, x) > 0
<1> DEFINE e == Exponent(f, x)
           m == Mantissa(f, x)
<1>1. 2 ^ f.mant \in Nat
  BY FormatPowers
<1>2. e \in Nat /\ m \in Nat
  BY FieldsOf
<1>3. e # 0 => 2 ^ (e - 1) \in Nat /\ 2 ^ (e - 1) > 0
  BY <1>2, PowerPositive
<1>4. Magnitude(f, x) = (IF e = 0 THEN m ELSE (2 ^ f.mant + m) * 2 ^ (e - 1))
  BY DEF Magnitude
<1>5. Ulp(f, x) = (IF e = 0 THEN 1 ELSE 2 ^ (e - 1))
  BY DEF Ulp
<1> HIDE DEF e, m
<1>6. e # 0 => (2 ^ f.mant + m) * 2 ^ (e - 1) \in Nat
  BY <1>1, <1>2, <1>3
<1> QED BY <1>2, <1>3, <1>4, <1>5, <1>6

\* Floats of a sign are ordered as their exponents and mantissas are.
LEMMA FieldsOrdered ==
  ASSUME NEW f, IsFormat(f), NEW x \in Floats(f), NEW y \in Floats(f),
         Sign(f, x) = Sign(f, y), x < y
  PROVE  \/ Exponent(f, x) < Exponent(f, y)
         \/ Exponent(f, x) = Exponent(f, y) /\ Mantissa(f, x) < Mantissa(f, y)
<1> DEFINE E == 2 ^ f.exp
           M == 2 ^ f.mant
           s == Sign(f, x)
           a == Exponent(f, x)
           b == Exponent(f, y)
           m == Mantissa(f, x)
           n == Mantissa(f, y)
<1>1. E \in Nat /\ M \in Nat
  BY FormatPowers
<1>2. /\ s \in Nat /\ a \in Nat /\ b \in Nat /\ m \in 0 .. M - 1 /\ n \in 0 .. M - 1
      /\ x = (s * E + a) * M + m
  BY FieldsOf DEF Float
<1>3. y = (s * E + b) * M + n
  BY FieldsOf DEF Float
<1> HIDE DEF E, M, s, a, b, m, n
<1>4. s * E + a \in Nat /\ s * E + b \in Nat /\ s * E \in Nat
  BY <1>1, <1>2
<1>5. s * E + a < s * E + b \/ (s * E + a = s * E + b /\ m < n)
  BY <1>1, <1>2, <1>3, <1>4, DigitsOrdered
<1>6. a < b \/ (a = b /\ m < n)
  BY <1>2, <1>4, <1>5
<1> QED BY <1>6 DEF a, b, m, n

LEMMA MagnitudeGrows ==
  ASSUME NEW f, IsFormat(f), NEW x \in Floats(f), NEW y \in Floats(f),
         Sign(f, x) = Sign(f, y), x < y
  PROVE  Magnitude(f, x) < Magnitude(f, y)
<1> DEFINE M == 2 ^ f.mant
           a == Exponent(f, x)
           b == Exponent(f, y)
           m == Mantissa(f, x)
           n == Mantissa(f, y)
<1>1. M \in Nat /\ M > 0
  BY FormatPowers
<1>2. a \in Nat /\ b \in Nat /\ m \in 0 .. M - 1 /\ n \in 0 .. M - 1
  BY FieldsOf
<1>3. a < b \/ (a = b /\ m < n)
  BY FieldsOrdered
<1>4. /\ Magnitude(f, x) = IF a = 0 THEN m ELSE (M + m) * 2 ^ (a - 1)
      /\ Magnitude(f, y) = IF b = 0 THEN n ELSE (M + n) * 2 ^ (b - 1)
  BY DEF Magnitude
<1> HIDE DEF M, a, b, m, n
<1>5. /\ a # 0 => a - 1 \in Nat /\ 2 ^ (a - 1) \in Nat /\ 2 ^ (a - 1) > 0
      /\ b # 0 => b - 1 \in Nat /\ 2 ^ (b - 1) \in Nat /\ 2 ^ (b - 1) > 0
  BY <1>2, PowerPositive
<1>6. m \in Nat /\ n \in Nat /\ M + m \in Nat /\ M + n \in Nat /\ M + m <= 2 * M
  BY <1>1, <1>2
<1>7. CASE a = b
  <2>1. m < n
    BY <1>2, <1>3, <1>7
  <2>2. a # 0 => (M + m) * 2 ^ (a - 1) < (M + n) * 2 ^ (a - 1)
    <3>1. M + m < M + n
      BY <1>1, <1>6, <2>1
    <3> QED BY <1>5, <1>6, <3>1, TimesGrows
  <2> QED BY <1>4, <1>7, <2>1, <2>2
<1>8. CASE a < b
  <2>1. b # 0
    BY <1>2, <1>8
  <2>2. M * 2 ^ (b - 1) <= (M + n) * 2 ^ (b - 1)
    <3>1. M <= M + n
      BY <1>1, <1>6
    <3> QED BY <1>1, <1>5, <1>6, <2>1, <3>1, TimesGrows
  <2>3. CASE a = 0
    <3>1. 1 * M <= 2 ^ (b - 1) * M
      <4>1. 1 <= 2 ^ (b - 1)
        BY <1>5, <2>1
      <4> QED BY <1>1, <1>5, <2>1, <4>1, TimesGrows
    <3>2. 1 * M = M /\ 2 ^ (b - 1) * M = M * 2 ^ (b - 1)
      BY <1>1, <1>5, <2>1
    <3>3. m < M
      BY <1>1, <1>2
    <3>4. (M + n) * 2 ^ (b - 1) \in Nat /\ M * 2 ^ (b - 1) \in Nat
      BY <1>1, <1>5, <1>6, <2>1
    <3> QED BY <1>1, <1>4, <1>6, <2>1, <2>2, <2>3, <3>1, <3>2, <3>3, <3>4
  <2>4. CASE a # 0
    <3>1. 2 * 2 ^ (a - 1) <= 2 ^ (b - 1)
      <4>1. a - 1 < b - 1
        BY <1>2, <1>8
      <4> QED BY <1>5, <2>1, <2>4, <4>1, PowerGrows
    <3>2. (M + m) * 2 ^ (a - 1) < (2 * M) * 2 ^ (a - 1)
      <4>1. M + m < 2 * M /\ 2 * M \in Nat
        BY <1>1, <1>2
      <4> QED BY <1>5, <1>6, <2>4, <4>1, TimesGrows
    <3>3. (2 * 2 ^ (a - 1)) * M <= 2 ^ (b - 1) * M
      <4>1. 2 * 2 ^ (a - 1) \in Nat
        BY <1>5, <2>4
      <4> QED BY <1>1, <1>5, <2>1, <3>1, <4>1, TimesGrows
    <3>4. ASSUME NEW c \in Nat PROVE (2 * M) * c = (2 * c) * M /\ c * M = M * c /\ (2 * M) * c \in Nat
                                     /\ (M + m) * c \in Nat /\ (M + n) * c \in Nat /\ M * c \in Nat
      BY <1>1, <1>6
    <3> DEFINE p == 2 ^ (a - 1)
               q == 2 ^ (b - 1)
    <3>5. p \in Nat /\ q \in Nat
      BY <1>5, <2>1, <2>4
    <3>6. Magnitude(f, x) = (M + m) * p /\ Magnitude(f, y) = (M + n) * q
      BY <1>4, <2>1, <2>4
    <3>7. /\ (M + m) * p < (2 * M) * p /\ (2 * p) * M <= q * M /\ M * q <= (M + n) * q
      BY <2>2, <3>2, <3>3
    <3> HIDE DEF p, q
    <3>8. (2 * M) * p = (2 * p) * M /\ (2 * M) * p \in Nat /\ (M + m) * p \in Nat
      BY <3>4, <3>5
    <3>9. q * M = M * q /\ M * q \in Nat /\ (M + n) * q \in Nat
      BY <3>4, <3>5
    <3> QED BY <3>6, <3>7, <3>8, <3>9
  <2> QED BY <2>3, <2>4
<1> QED BY <1>3, <1>7, <1>8


\* The next number is the next float, one unit of its last place away, through the
\* carries out of the mantissa and into infinity.
LEMMA SuccessorOf ==
  ASSUME NEW f, IsFormat(f), NEW x \in Floats(f),
         Exponent(f, x) # AllOnes(f) \/ Mantissa(f, x) # 2 ^ f.mant - 1
  PROVE  /\ x + 1 \in Floats(f) /\ Sign(f, x + 1) = Sign(f, x)
         /\ Magnitude(f, x + 1) = Magnitude(f, x) + Ulp(f, x)
         /\ Exponent(f, x) # AllOnes(f) => ~ IsNaN(f, x + 1)
<1> DEFINE E == 2 ^ f.exp
           M == 2 ^ f.mant
           s == Sign(f, x)
           e == Exponent(f, x)
           m == Mantissa(f, x)
           carry == m = M - 1
           g == IF carry THEN e + 1 ELSE e
           n == IF carry THEN 0 ELSE m + 1
<1>1. E \in Nat /\ E > 0 /\ M \in Nat /\ M > 0
  BY FormatPowers
<1>2. /\ x \in Nat /\ s \in {0, 1} /\ e \in 0 .. E - 1 /\ m \in 0 .. M - 1
      /\ x = (s * E + e) * M + m
  BY FieldsOf DEF Float
<1>3. AllOnes(f) = E - 1
  BY DEF AllOnes
<1>4. Float(f, s, g, n) = (s * E + g) * M + n
  BY DEF Float
<1>5. Magnitude(f, x) = IF e = 0 THEN m ELSE (M + m) * 2 ^ (e - 1)
  BY DEF Magnitude
<1>6. Ulp(f, x) = IF e = 0 THEN 1 ELSE 2 ^ (e - 1)
  BY DEF Ulp
<1>7. g \in 0 .. E - 1 /\ n \in 0 .. M - 1
  <2> HIDE DEF E, M, s, e, m
  <2>1. e # E - 1 \/ m # M - 1
    BY <1>3 DEF e, m, M
  <2> QED BY <1>1, <1>2, <2>1
<1>8. x + 1 = (s * E + g) * M + n
  <2> HIDE DEF E, M, s, e, m
  <2>1. s * E + e \in Nat /\ s * E \in Nat
    BY <1>1, <1>2
  <2>2. CASE carry
    <3>1. ASSUME NEW a \in Nat PROVE (a + 1) * M + 0 = a * M + (M - 1) + 1
      BY <1>1
    <3>2. s * E + g = (s * E + e) + 1
      BY <1>2, <2>1, <2>2
    <3> QED BY <1>2, <2>1, <2>2, <3>1, <3>2
  <2>3. CASE ~ carry
    <3>1. ASSUME NEW a \in Nat PROVE a * M + (m + 1) = (a * M + m) + 1
      BY <1>1, <1>2
    <3> QED BY <1>2, <2>1, <2>3, <3>1
  <2> QED BY <2>2, <2>3
<1>9. x + 1 = Float(f, s, g, n)
  BY <1>4, <1>8
<1>10. /\ x + 1 \in Floats(f) /\ Sign(f, x + 1) = s
       /\ IsNaN(f, x + 1) <=> g = AllOnes(f) /\ n # 0
       /\ Magnitude(f, x + 1) = IF g = 0 THEN n ELSE (M + n) * 2 ^ (g - 1)
  <2> HIDE DEF g, n
  <2> QED BY <1>2, <1>7, <1>9, FloatIs
<1> HIDE DEF E, M, s, e, m
<1>11. e \in Nat /\ m \in Nat
  BY <1>2
<1>12. e # 0 => e - 1 \in Nat /\ 2 ^ (e - 1) \in Nat /\ 2 ^ ((e - 1) + 1) = 2 * 2 ^ (e - 1) /\ (e - 1) + 1 = e
  BY <1>11, PowerNext, PowerPositive
<1>13. (IF g = 0 THEN n ELSE (M + n) * 2 ^ (g - 1)) = Magnitude(f, x) + Ulp(f, x)
  <2>1. CASE ~ carry /\ e = 0
    BY <1>5, <1>6, <2>1
  <2>2. CASE ~ carry /\ e # 0
    <3>1. ASSUME NEW p \in Nat PROVE (M + (m + 1)) * p = (M + m) * p + p
      BY <1>1, <1>11
    <3> QED BY <1>5, <1>6, <1>12, <2>2, <3>1
  <2>3. CASE carry /\ e = 0
    <3>1. g - 1 = 0 /\ g # 0 /\ n = 0 /\ m + 1 = M
      BY <1>1, <1>11, <2>3
    <3>2. 2 ^ (g - 1) = 1
      BY <3>1, PowerZero
    <3> QED BY <1>1, <1>5, <1>6, <2>3, <3>1, <3>2
  <2>4. CASE carry /\ e # 0
    <3>1. g - 1 = e /\ g # 0 /\ n = 0 /\ m = M - 1
      BY <1>11, <2>4
    <3>2. ASSUME NEW p \in Nat PROVE (M + 0) * (2 * p) = (M + (M - 1)) * p + p
      BY <1>1
    <3>3. 2 ^ (g - 1) = 2 * 2 ^ (e - 1)
      BY <1>12, <2>4, <3>1
    <3> QED BY <1>5, <1>6, <1>12, <2>4, <3>1, <3>2, <3>3
  <2> QED BY <2>1, <2>2, <2>3, <2>4
<1>14. e # AllOnes(f) => ~ (g = AllOnes(f) /\ n # 0)
  OBVIOUS
<1> QED BY <1>10, <1>13, <1>14 DEF s, e

-----------------------------------------------------------------------------
(* Rounding.                                                                *)

\* The bits that bf16 has no place for, and half of what they can count.
Kept(x) == x \div 2 ^ Dropped
Low(x) == x % 2 ^ Dropped
Half == 2 ^ (Dropped - 1)

LEMMA DroppedWidth ==
  /\ 2 ^ Dropped = 2 * Half /\ Half \in Nat /\ Half > 0
  /\ 2 ^ MantBits = 2 ^ KeptBits * 2 ^ Dropped
  /\ 2 ^ KeptBits \in Nat /\ 2 ^ KeptBits >= 2
  /\ 2 ^ ExpBits \in Nat /\ 2 ^ ExpBits > 0
  /\ 2 ^ (1 + ExpBits + MantBits) = (2 * (2 ^ ExpBits * 2 ^ KeptBits)) * 2 ^ Dropped
<1>1. /\ MantBits \in Nat /\ KeptBits \in Nat \ {0} /\ ExpBits \in Nat
      /\ Dropped \in Nat \ {0} /\ KeptBits + Dropped = MantBits
  BY WidthsAssumption DEF Dropped
<1>2. Dropped - 1 \in Nat /\ (Dropped - 1) + 1 = Dropped
  BY <1>1
<1>3. 2 ^ Dropped = 2 * Half /\ Half \in Nat /\ Half > 0
  BY <1>2, PowerNext, PowerPositive DEF Half
<1>4. 2 ^ MantBits = 2 ^ KeptBits * 2 ^ Dropped
  BY <1>1, PowerSum
<1>5. 2 ^ KeptBits \in Nat /\ 2 ^ ExpBits \in Nat /\ 2 ^ ExpBits > 0
  BY <1>1, PowerPositive
<1>6. 2 ^ KeptBits >= 2
  <2>1. ASSUME NEW z \in Nat, z = 0 PROVE 2 * 2 ^ z <= 2 ^ KeptBits
    <3>1. z < KeptBits /\ KeptBits \in Nat
      BY <1>1, <2>1
    <3> QED BY <3>1, PowerGrows
  <2>2. 2 * 1 <= 2 ^ KeptBits
    BY <2>1, PowerZero
  <2> QED BY <1>5, <2>2
<1>7. 2 ^ (1 + ExpBits + MantBits) = 2 * (2 ^ ExpBits * 2 ^ MantBits)
  <2>1. F32.exp = ExpBits /\ F32.mant = MantBits
    BY DEF F32
  <2> QED BY <2>1, Formats, FormatPowers
<1>8. ASSUME NEW a \in Nat, NEW b \in Nat, NEW c \in Nat PROVE 2 * (a * (b * c)) = (2 * (a * b)) * c
  OBVIOUS
<1>9. 2 ^ Dropped \in Nat
  BY <1>3
<1> QED BY <1>3, <1>4, <1>5, <1>6, <1>7, <1>8, <1>9

\* Cutting the low bits off leaves a bf16 of the same sign and exponent; what is lost
\* is a part of the unit of its last place.
LEMMA Truncated ==
  ASSUME NEW x \in Floats(F32)
  PROVE  /\ Kept(x) \in Floats(Bf16) /\ Low(x) \in 0 .. 2 ^ Dropped - 1
         /\ x = Kept(x) * 2 ^ Dropped + Low(x)
         /\ Sign(Bf16, Kept(x)) = Sign(F32, x) /\ Exponent(Bf16, Kept(x)) = Exponent(F32, x)
         /\ Mantissa(F32, x) = Mantissa(Bf16, Kept(x)) * 2 ^ Dropped + Low(x)
         /\ Magnitude(F32, x) = Magnitude(Bf16, Kept(x)) * 2 ^ Dropped
                                + Low(x) * Ulp(Bf16, Kept(x))
<1> DEFINE E == 2 ^ ExpBits
           M == 2 ^ KeptBits
           P == 2 ^ Dropped
           s == Sign(F32, x)
           e == Exponent(F32, x)
           m == Mantissa(F32, x)
           h == m \div P
           low == m % P
           t == Float(Bf16, s, e, h)
<1>1. P \in Nat /\ P > 0 /\ 2 ^ MantBits = M * P /\ M \in Nat /\ M > 0 /\ E \in Nat /\ E > 0
  BY DroppedWidth
<1>2. /\ F32.exp = ExpBits /\ F32.mant = MantBits /\ Bf16.exp = ExpBits /\ Bf16.mant = KeptBits
  BY DEF F32, Bf16
<1>3. /\ x \in Nat /\ s \in {0, 1} /\ e \in 0 .. E - 1 /\ m \in 0 .. M * P - 1
      /\ x = (s * E + e) * (M * P) + m
  <2>1. /\ x \in Nat /\ s \in {0, 1} /\ e \in 0 .. 2 ^ F32.exp - 1 /\ m \in 0 .. 2 ^ F32.mant - 1
        /\ x = Float(F32, s, e, m)
    BY Formats, FieldsOf
  <2>2. Float(F32, s, e, m) = (s * E + e) * 2 ^ MantBits + m
    BY <1>2 DEF Float
  <2> QED BY <1>1, <1>2, <2>1, <2>2
<1>4. t = (s * E + e) * M + h
  BY <1>2 DEF Float
<1> HIDE DEF E, M, P, s, e, m
<1>5. h \in Nat /\ low \in 0 .. P - 1 /\ m = h * P + low
  <2>1. m \in Nat
    BY <1>3
  <2> QED BY <1>1, <2>1, Division
<1>6. h \in 0 .. M - 1
  <2> HIDE DEF h, low
  <2>1. SUFFICES ASSUME M <= h PROVE FALSE
    BY <1>1, <1>5
  <2>2. M * P <= h * P
    BY <1>1, <1>5, <2>1, TimesGrows
  <2>3. M * P \in Nat /\ h * P \in Nat
    BY <1>1, <1>5
  <2> QED BY <1>3, <1>5, <2>2, <2>3
<1> HIDE DEF h, low, t
<1>7. x = t * P + low /\ t \in Nat
  <2>1. ASSUME NEW a \in Nat PROVE a * (M * P) + (h * P + low) = (a * M + h) * P + low /\ a * M + h \in Nat
    BY <1>1, <1>5
  <2>2. s * E + e \in Nat
    BY <1>1, <1>3
  <2> QED BY <1>3, <1>4, <1>5, <2>1, <2>2
<1>8. Kept(x) = t /\ Low(x) = low
  BY <1>1, <1>5, <1>7, DivisionUnique DEF Kept, Low, P
<1>9. /\ t \in Floats(Bf16) /\ Sign(Bf16, t) = s
      /\ Exponent(Bf16, t) = e /\ Mantissa(Bf16, t) = h
  <2>1. e \in 0 .. 2 ^ Bf16.exp - 1 /\ h \in 0 .. 2 ^ Bf16.mant - 1
    BY <1>2, <1>3, <1>6 DEF E, M
  <2> QED BY <1>3, <2>1, Formats, FloatOf DEF t
<1>10. Magnitude(F32, x) = IF e = 0 THEN m ELSE (M * P + m) * 2 ^ (e - 1)
  BY <1>1, <1>2 DEF Magnitude, e, m
<1>11. Magnitude(Bf16, t) = IF e = 0 THEN h ELSE (M + h) * 2 ^ (e - 1)
  BY <1>2, <1>9 DEF Magnitude, M
<1>12. Ulp(Bf16, t) = IF e = 0 THEN 1 ELSE 2 ^ (e - 1)
  BY <1>9 DEF Ulp
<1>13. Magnitude(F32, x) = Magnitude(Bf16, t) * P + low * Ulp(Bf16, t)
  <2>1. CASE e = 0
    BY <1>5, <1>10, <1>11, <1>12, <2>1
  <2>2. CASE e # 0
    <3>1. 2 ^ (e - 1) \in Nat
      <4>1. e - 1 \in Nat
        BY <1>3, <2>2
      <4> QED BY <4>1, PowerPositive
    <3>2. ASSUME NEW p \in Nat
          PROVE  (M * P + (h * P + low)) * p = ((M + h) * p) * P + low * p
      BY <1>1, <1>5
    <3> QED BY <1>5, <1>10, <1>11, <1>12, <2>2, <3>1, <3>2
  <2> QED BY <2>1, <2>2
<1> QED BY <1>5, <1>7, <1>8, <1>9, <1>13 DEF P, s, e, m

Up(x) == Low(x) > Half \/ (Low(x) = Half /\ Kept(x) % 2 = 1)

\* Of a float that is no NaN, the truncated one is none, and the next one up stays in
\* the width of the format.
LEMMA RoomAbove ==
  ASSUME NEW x \in Floats(F32), ~ IsNaN(F32, x)
  PROVE  LET t == Kept(x)
         IN  /\ ~ IsNaN(Bf16, t)
             /\ t + 1 \in Floats(Bf16) /\ Sign(Bf16, t + 1) = Sign(Bf16, t)
             /\ Magnitude(Bf16, t + 1) = Magnitude(Bf16, t) + Ulp(Bf16, t)
             /\ Low(x) # 0 => ~ IsNaN(Bf16, t + 1)
<1> DEFINE t == Kept(x)
           e == Exponent(Bf16, t)
           h == Mantissa(Bf16, t)
           P == 2 ^ Dropped
           low == Low(x)
<1>1. t \in Floats(Bf16) /\ low \in 0 .. P - 1 /\ e = Exponent(F32, x) /\ Mantissa(F32, x) = h * P + low
  BY Truncated
<1>2. AllOnes(Bf16) = AllOnes(F32)
  BY DEF AllOnes, Bf16, F32
<1>3. h \in 0 .. 2 ^ KeptBits - 1
  <2>1. Bf16.mant = KeptBits
    BY DEF Bf16
  <2> QED BY <1>1, <2>1, Formats, FieldsOf
<1>4. P \in Nat /\ P > 0 /\ 2 ^ KeptBits \in Nat /\ 2 ^ KeptBits >= 2
  BY DroppedWidth
<1>5. e = AllOnes(Bf16) => h * P + low = 0
  BY <1>1, <1>2 DEF IsNaN
<1> HIDE DEF e, h, P, low
<1>6. e = AllOnes(Bf16) => h = 0 /\ low = 0
  <2>1. h \in Nat /\ low \in Nat
    BY <1>1, <1>3, <1>4
  <2>2. h * P \in Nat
    BY <1>4, <2>1
  <2>3. h # 0 => h * P # 0
    BY <1>4, <2>1
  <2> QED BY <1>5, <2>1, <2>2, <2>3
<1>7. e # AllOnes(Bf16) \/ h # 2 ^ KeptBits - 1
  BY <1>4, <1>6
<1>8. ~ IsNaN(Bf16, t)
  BY <1>6 DEF IsNaN, e, h
<1>9. /\ t + 1 \in Floats(Bf16) /\ Sign(Bf16, t + 1) = Sign(Bf16, t)
      /\ Magnitude(Bf16, t + 1) = Magnitude(Bf16, t) + Ulp(Bf16, t)
      /\ e # AllOnes(Bf16) => ~ IsNaN(Bf16, t + 1)
  <2>1. Exponent(Bf16, t) # AllOnes(Bf16) \/ Mantissa(Bf16, t) # 2 ^ Bf16.mant - 1
    BY <1>7 DEF e, h, Bf16
  <2> QED BY <1>1, <2>1, Formats, SuccessorOf DEF e
<1> QED BY <1>6, <1>8, <1>9 DEF low

\* The bias carries into the bits that are kept exactly when they must grow, and the
\* sum does not leave the width of f32.
LEMMA RoundedIs ==
  ASSUME NEW x \in Floats(F32), ~ IsNaN(F32, x)
  PROVE  f32_bits_to_bf16(x) = IF Up(x) THEN Kept(x) + 1 ELSE Kept(x)
<1> DEFINE t == Kept(x)
           low == Low(x)
           P == 2 ^ Dropped
           D == 2 * (2 ^ ExpBits * 2 ^ KeptBits)
           bias == Half - 1 + (t % 2)
           q == IF Up(x) THEN t + 1 ELSE t
           r == IF Up(x) THEN low + bias - P ELSE low + bias
<1>1. /\ P = 2 * Half /\ P \in Nat /\ P > 0 /\ Half \in Nat /\ Half > 0
      /\ 2 ^ (1 + ExpBits + MantBits) = D * P /\ D \in Nat
  BY DroppedWidth
<1>2. t \in Floats(Bf16) /\ t + 1 \in Floats(Bf16) /\ low \in 0 .. P - 1 /\ x = t * P + low
  BY Truncated, RoomAbove
<1>3. Floats(Bf16) = 0 .. D - 1
  <2>1. Bf16.exp = ExpBits /\ Bf16.mant = KeptBits
    BY DEF Bf16
  <2>2. 2 ^ (1 + ExpBits + KeptBits) = D
    BY <2>1, Formats, FormatPowers
  <2> QED BY <2>1, <2>2 DEF Floats
<1>4. f32_bits_to_bf16(x) = ((x + bias) % 2 ^ (1 + ExpBits + MantBits)) \div P
  BY DEF f32_bits_to_bf16, Half, Kept
<1>5. Up(x) <=> low > Half \/ (low = Half /\ t % 2 = 1)
  BY DEF Up
<1> HIDE DEF t, low, P, D
<1>6. t \in Nat /\ t % 2 \in {0, 1} /\ low \in Nat
  BY <1>2, <1>3
<1>7. r \in 0 .. P - 1
  BY <1>1, <1>2, <1>5, <1>6
<1>8. q \in 0 .. D - 1
  BY <1>2, <1>3
<1>9. x + bias = q * P + r
  <2>1. (t + 1) * P = t * P + P /\ t * P \in Nat
    BY <1>1, <1>6
  <2> QED BY <1>1, <1>2, <1>6, <2>1
<1> HIDE DEF q, r, bias
<1>10. q * P + r \in 0 .. D * P - 1
  BY <1>1, <1>7, <1>8, ProductBound
<1>11. (q * P + r) % (D * P) = q * P + r
  <2> DEFINE v == q * P + r
             w == D * P
  <2>1. v \in 0 .. w - 1 /\ w \in Nat
    BY <1>1, <1>10
  <2> HIDE DEF v, w
  <2>2. v % w = v
    BY <2>1
  <2> QED BY <2>2 DEF v, w
<1>12. (q * P + r) \div P = q
  <2>1. q \in Nat
    BY <1>8
  <2> QED BY <1>1, <1>7, <2>1, DivisionUnique
<1> QED BY <1>1, <1>4, <1>9, <1>11, <1>12 DEF q, t

\* Where the floats about a magnitude lie, as far as it is from the one below.
LEMMA Distances ==
  ASSUME NEW a \in Nat, NEW u \in Nat, u > 0, NEW P \in Nat, NEW low \in 0 .. P - 1
  PROVE  LET b == a * P + low * u
         IN  /\ Distance(a * P, b) = low * u
             /\ Distance((a + u) * P, b) = (P - low) * u
             /\ \A c \in Nat : c < a => Distance(c * P, b) > low * u
             /\ \A c \in Nat : c > a + u => Distance(c * P, b) > (P - low) * u
<1> DEFINE b == a * P + low * u
<1>1. low \in Nat /\ P - low \in Nat /\ P > 0 /\ P - low > 0
  OBVIOUS
<1>2. /\ a * P \in Nat /\ low * u \in Nat /\ (P - low) * u \in Nat /\ (P - low) * u > 0
      /\ (P - low) * u = P * u - low * u /\ P * u \in Nat
  BY <1>1
<1>3. (a + u) * P = a * P + P * u
  OBVIOUS
<1>4. Distance(a * P, b) = low * u
  BY <1>2 DEF Distance
<1>5. Distance((a + u) * P, b) = (P - low) * u
  BY <1>2, <1>3 DEF Distance
<1>6. ASSUME NEW c \in Nat, c < a PROVE Distance(c * P, b) > low * u
  <2>1. c * P < a * P /\ c * P \in Nat
    BY <1>1, <1>6, TimesGrows
  <2> QED BY <1>2, <2>1 DEF Distance
<1>7. ASSUME NEW c \in Nat, c > a + u PROVE Distance(c * P, b) > (P - low) * u
  <2>1. a + u \in Nat /\ a + u < c
    BY <1>7
  <2>2. (a + u) * P < c * P /\ c * P \in Nat
    BY <1>1, <2>1, TimesGrows
  <2> QED BY <1>2, <1>3, <2>2 DEF Distance
<1> QED BY <1>4, <1>5, <1>6, <1>7

\* Every f32 but a NaN becomes the nearest bf16, the even one of two, of the same sign,
\* whatever the widths of the two formats.
THEOREM RoundingIsNearest == RoundsToNearestEven
<1> SUFFICES ASSUME NEW x \in Floats(F32), ~ IsNaN(F32, x)
             PROVE  LET r == f32_bits_to_bf16(x)
                        Off(q) == Distance(Magnitude(Bf16, q) * 2 ^ Dropped, Magnitude(F32, x))
                    IN  /\ ~IsNaN(Bf16, r) /\ Sign(Bf16, r) = Sign(F32, x)
                        /\ \A q \in {p \in Floats(Bf16) : Sign(Bf16, p) = Sign(F32, x) /\ p # r
                                                          /\ ~IsNaN(Bf16, p)} :
                             \/ Off(r) < Off(q)
                             \/ Off(r) = Off(q) /\ r % 2 = 0
  BY DEF RoundsToNearestEven
<1> DEFINE P == 2 ^ Dropped
           t == Kept(x)
           low == Low(x)
           a == Magnitude(Bf16, t)
           u == Ulp(Bf16, t)
           r == f32_bits_to_bf16(x)
           Off(q) == Distance(Magnitude(Bf16, q) * P, Magnitude(F32, x))
           below == low * u
           above == (P - low) * u
<1>1. /\ t \in Floats(Bf16) /\ low \in 0 .. P - 1 /\ Sign(Bf16, t) = Sign(F32, x)
      /\ Magnitude(F32, x) = a * P + low * u
  BY Truncated
<1>2. /\ ~ IsNaN(Bf16, t) /\ t + 1 \in Floats(Bf16) /\ Sign(Bf16, t + 1) = Sign(Bf16, t)
      /\ Magnitude(Bf16, t + 1) = a + u
      /\ low # 0 => ~ IsNaN(Bf16, t + 1)
  BY RoomAbove
<1>3. P = 2 * Half /\ P \in Nat /\ Half \in Nat /\ Half > 0
  BY DroppedWidth
<1>4. a \in Nat /\ u \in Nat /\ u > 0 /\ t \in Nat
  BY <1>1, Formats, MagnitudeType, FieldsOf
<1>5. r = IF Up(x) THEN t + 1 ELSE t
  BY RoundedIs
<1>6. Up(x) <=> low > Half \/ (low = Half /\ t % 2 = 1)
  BY DEF Up
<1>7. /\ Distance(a * P, a * P + low * u) = low * u
      /\ Distance((a + u) * P, a * P + low * u) = (P - low) * u
      /\ \A c \in Nat : c < a => Distance(c * P, a * P + low * u) > low * u
      /\ \A c \in Nat : c > a + u => Distance(c * P, a * P + low * u) > (P - low) * u
  <2> HIDE DEF a, u, P, low
  <2>1. ASSUME NEW v \in Nat, NEW w \in Nat, w > 0, NEW d \in Nat, NEW l \in 0 .. d - 1
        PROVE  /\ Distance(v * d, v * d + l * w) = l * w
               /\ Distance((v + w) * d, v * d + l * w) = (d - l) * w
               /\ \A c \in Nat : c < v => Distance(c * d, v * d + l * w) > l * w
               /\ \A c \in Nat : c > v + w => Distance(c * d, v * d + l * w) > (d - l) * w
    BY <2>1, Distances
  <2>2. low \in 0 .. P - 1 /\ P \in Nat /\ a \in Nat /\ u \in Nat /\ u > 0
    BY <1>1, <1>3, <1>4
  <2> HIDE DEF Off, below, above, t, r
  <2> QED BY <2>1, <2>2
<1>8. Off(t) = below /\ Off(t + 1) = above
  <2> HIDE DEF u, P, low
  <2>1. Off(t) = below
    BY <1>1, <1>7
  <2>2. Off(t + 1) = above
    BY <1>1, <1>2, <1>7
  <2> QED BY <2>1, <2>2
<1>9. ASSUME NEW q \in Floats(Bf16), Sign(Bf16, q) = Sign(F32, x), q < t
      PROVE  Off(q) > below
  <2> DEFINE c == Magnitude(Bf16, q)
  <2>1. c \in Nat /\ c < a
    BY <1>1, <1>9, Formats, MagnitudeType, MagnitudeGrows
  <2> HIDE DEF a, u, P, low, c
  <2>2. Distance(c * P, a * P + low * u) > low * u
    BY <1>7, <2>1
  <2> QED BY <1>1, <2>2 DEF c
<1>10. ASSUME NEW q \in Floats(Bf16), Sign(Bf16, q) = Sign(F32, x), q > t + 1
      PROVE  Off(q) > above
  <2> DEFINE c == Magnitude(Bf16, q)
  <2>1. c \in Nat /\ c > a + u
    <3>1. t + 1 < q /\ Sign(Bf16, t + 1) = Sign(Bf16, q)
      <4>1. q \in Nat
        BY Formats, FieldsOf
      <4> QED BY <1>1, <1>2, <1>4, <1>10, <4>1
    <3>2. Magnitude(Bf16, t + 1) < Magnitude(Bf16, q)
      BY <1>2, <3>1, Formats, MagnitudeGrows
    <3>3. Magnitude(Bf16, q) \in Nat
      BY Formats, MagnitudeType
    <3> HIDE DEF a, u
    <3> QED BY <1>2, <1>4, <3>2, <3>3
  <2> HIDE DEF a, u, P, low, c
  <2>2. Distance(c * P, a * P + low * u) > (P - low) * u
    BY <1>7, <2>1
  <2> QED BY <1>1, <2>2 DEF c
<1>11. ~ IsNaN(Bf16, r) /\ Sign(Bf16, r) = Sign(F32, x)
  <2> HIDE DEF r, t, low
  <2>1. Up(x) => low # 0
    BY <1>3, <1>6
  <2> QED BY <1>1, <1>2, <1>5, <2>1
<1>12. /\ below \in Nat /\ above \in Nat
       /\ low <= Half => below <= above
       /\ low < Half => below < above
       /\ low >= Half => above <= below
       /\ low > Half => above < below
  <2> HIDE DEF P, u, low
  <2>1. low \in Nat /\ P - low \in Nat
    BY <1>1, <1>3
  <2>2. /\ low <= P - low => below <= above
        /\ low < P - low => below < above
        /\ P - low <= low => above <= below
        /\ P - low < low => above < below
    BY <1>4, <2>1, TimesGrows
  <2>3. below \in Nat /\ above \in Nat
    BY <1>4, <2>1
  <2> HIDE DEF below, above
  <2> QED BY <1>3, <2>1, <2>2, <2>3
<1>13. ASSUME NEW q \in Floats(Bf16), Sign(Bf16, q) = Sign(F32, x), q # r
       PROVE  Off(r) < Off(q) \/ (Off(r) = Off(q) /\ r % 2 = 0)
  <2> DEFINE d == Off(q)
             p == Off(r)
  <2>1. d \in Int
    <3> DEFINE v == Magnitude(Bf16, q) * P
               w == Magnitude(F32, x)
    <3>1. v \in Nat /\ w \in Nat
      BY <1>3, Formats, MagnitudeType
    <3> HIDE DEF v, w
    <3>2. Distance(v, w) \in Int
      BY <3>1 DEF Distance
    <3> QED BY <3>2 DEF v, w
  <2>2. /\ q < t => d > below
        /\ q > t + 1 => d > above
        /\ q = t => d = below
        /\ q = t + 1 => d = above
    BY <1>8, <1>9, <1>10, <1>13
  <2>3. p = IF Up(x) THEN above ELSE below
    BY <1>5, <1>8
  <2>4. q \in Nat
    BY Formats, FieldsOf
  <2>5. low \in Nat
    BY <1>1, <1>3
  <2> HIDE DEF d, p, below, above, low, t, r, Off, P
  <2>6. CASE Up(x)
    <3>1. r = t + 1 /\ p = above /\ low >= Half /\ (low = Half => t % 2 = 1)
      BY <1>3, <1>5, <1>6, <2>3, <2>5, <2>6
    <3>2. above <= below /\ (low > Half => above < below)
      BY <1>3, <1>12, <2>5, <3>1
    <3>3. low = Half => r % 2 = 0
      <4>1. t % 2 = 1 => (t + 1) % 2 = 0
        BY <1>4
      <4> QED BY <3>1, <4>1
    <3>4. p < d \/ (p = d /\ r % 2 = 0)
      BY <1>3, <1>4, <1>12, <1>13, <2>1, <2>2, <2>4, <2>5, <3>1, <3>2, <3>3
    <3> QED BY <3>4 DEF p, d
  <2>7. CASE ~ Up(x)
    <3>1. r = t /\ p = below /\ low <= Half /\ (low = Half => t % 2 # 1)
      BY <1>3, <1>5, <1>6, <2>3, <2>5, <2>7
    <3>2. below <= above /\ (low < Half => below < above)
      BY <1>3, <1>12, <2>5, <3>1
    <3>3. low = Half => r % 2 = 0
      <4>1. t % 2 # 1 => t % 2 = 0
        BY <1>4
      <4> QED BY <3>1, <4>1
    <3>4. p < d \/ (p = d /\ r % 2 = 0)
      BY <1>3, <1>4, <1>12, <1>13, <2>1, <2>2, <2>4, <2>5, <3>1, <3>2, <3>3
    <3> QED BY <3>4 DEF p, d
  <2> QED BY <2>6, <2>7
<1>14. \A q \in {p \in Floats(Bf16) : Sign(Bf16, p) = Sign(F32, x) /\ p # r /\ ~IsNaN(Bf16, p)} :
         Off(r) < Off(q) \/ (Off(r) = Off(q) /\ r % 2 = 0)
  <2> HIDE DEF r, Off
  <2> QED BY <1>13
<1> QED BY <1>11, <1>14

-----------------------------------------------------------------------------
(* A client decodes the picture.                                            *)

Octets == 0 .. 255
Groups(n) == (n + 2) \div 3
ByteOf(bytes, i) == IF i <= Len(bytes) THEN bytes[i] ELSE 0

\* Three bytes make a word, and four sextets.
Packed(b, c, d) == b * 65536 + c * 256 + d
Joined(a, b, c, d) == a * 64 ^ 3 + b * 64 ^ 2 + c * 64 + d
SextetOf(word, place) == (word \div 64 ^ (3 - place)) % 64
OctetOf(word, place) == (word \div 256 ^ (2 - place)) % 256
WordOf(bytes, g) ==
  Packed(ByteOf(bytes, 3 * g + 1), ByteOf(bytes, 3 * g + 2), ByteOf(bytes, 3 * g + 3))

\* The places of sextets and bytes in a word.
LEMMA PlaceValues ==
  /\ 64 ^ (3 - 0) = 262144 /\ 64 ^ (3 - 1) = 4096 /\ 64 ^ (3 - 2) = 64 /\ 64 ^ (3 - 3) = 1
  /\ 256 ^ (2 - 0) = 65536 /\ 256 ^ (2 - 1) = 256 /\ 256 ^ (2 - 2) = 1
<1>1. /\ 3 - 0 = 3 /\ 3 - 1 = 2 /\ 3 - 2 = 1 /\ 3 - 3 = 0
      /\ 2 - 0 = 2 /\ 2 - 1 = 1 /\ 2 - 2 = 0
  BY SMT
<1>2. /\ 64 ^ 3 = 262144 /\ 64 ^ 2 = 4096 /\ 64 ^ 1 = 64 /\ 64 ^ 0 = 1
      /\ 256 ^ 2 = 65536 /\ 256 ^ 1 = 256 /\ 256 ^ 0 = 1
  BY SMT
<1> QED BY <1>1, <1>2, SMT

LEMMA SextetType ==
  ASSUME NEW w \in Nat, NEW place \in 0 .. 3
  PROVE  SextetOf(w, place) \in 0 .. 63
<1>1. SextetOf(w, 0) \in 0 .. 63 /\ SextetOf(w, 1) \in 0 .. 63
  BY PlaceValues, SMT DEF SextetOf
<1>2. SextetOf(w, 2) \in 0 .. 63 /\ SextetOf(w, 3) \in 0 .. 63
  BY PlaceValues, SMT DEF SextetOf
<1>3. place = 0 \/ place = 1 \/ place = 2 \/ place = 3
  BY SMT
<1> QED BY <1>1, <1>2, <1>3

\* Four sextets hold three bytes; the sextets that padding stands for would be zeros.
LEMMA WordDigits ==
  ASSUME NEW b \in Octets, NEW c \in Octets, NEW d \in Octets,
         NEW w \in Nat, w = Packed(b, c, d)
  PROVE  /\ w = Joined(SextetOf(w, 0), SextetOf(w, 1), SextetOf(w, 2), SextetOf(w, 3))
         /\ OctetOf(w, 0) = b /\ OctetOf(w, 1) = c /\ OctetOf(w, 2) = d
         /\ d = 0 => SextetOf(w, 3) = 0
         /\ c = 0 /\ d = 0 => SextetOf(w, 2) = 0
<1> USE DEF Octets
<1>1. w < 16777216 /\ w = b * 65536 + c * 256 + d
  BY SMT DEF Packed
<1>2. /\ SextetOf(w, 0) = (w \div 262144) % 64 /\ SextetOf(w, 1) = (w \div 4096) % 64
      /\ SextetOf(w, 2) = (w \div 64) % 64 /\ SextetOf(w, 3) = w % 64
      /\ OctetOf(w, 0) = (w \div 65536) % 256 /\ OctetOf(w, 1) = (w \div 256) % 256
      /\ OctetOf(w, 2) = w % 256
  <2>1. w \div 1 = w
    BY SMT
  <2>2. SextetOf(w, 0) = (w \div 262144) % 64 /\ SextetOf(w, 1) = (w \div 4096) % 64
    BY PlaceValues, SMT DEF SextetOf
  <2>3. SextetOf(w, 2) = (w \div 64) % 64 /\ SextetOf(w, 3) = w % 64
    BY <2>1, PlaceValues, SMT DEF SextetOf
  <2>4. OctetOf(w, 0) = (w \div 65536) % 256 /\ OctetOf(w, 1) = (w \div 256) % 256
    BY PlaceValues, SMT DEF OctetOf
  <2>5. OctetOf(w, 2) = w % 256
    BY <2>1, PlaceValues, SMT DEF OctetOf
  <2> QED BY <2>2, <2>3, <2>4, <2>5, SMT
<1>3. w = ((w \div 262144) % 64) * 262144 + ((w \div 4096) % 64) * 4096
          + ((w \div 64) % 64) * 64 + (w % 64)
  <2>1. ASSUME NEW v \in Nat, v < 16777216
        PROVE  v = ((v \div 262144) % 64) * 262144 + ((v \div 4096) % 64) * 4096
                   + ((v \div 64) % 64) * 64 + (v % 64)
    BY <2>1, SMT
  <2> QED BY <1>1, <2>1, SMT
<1>4. w = Joined(SextetOf(w, 0), SextetOf(w, 1), SextetOf(w, 2), SextetOf(w, 3))
  <2>1. 64 ^ 3 = 262144 /\ 64 ^ 2 = 4096
    BY SMT
  <2> QED BY <1>3, <2>1, <1>2, SMT DEF Joined
<1>5. OctetOf(w, 0) = b
  <2>1. (w \div 65536) % 256 = b
    BY <1>1, SMT
  <2> QED BY <1>2, <2>1, SMT
<1>6. OctetOf(w, 1) = c
  <2>1. w = (b * 256 + c) * 256 + d
    BY <1>1, SMT
  <2>2. w \div 256 = b * 256 + c
    <3>1. ASSUME NEW q \in Nat PROVE (q * 256 + d) \div 256 = q
      BY SMT
    <3>2. b * 256 + c \in Nat
      BY SMT
    <3> QED BY <2>1, <3>1, <3>2, SMT
  <2>3. (b * 256 + c) % 256 = c
    BY SMT
  <2>4. (w \div 256) % 256 = c
    BY <2>2, <2>3, SMT
  <2> QED BY <1>2, <2>4, SMT
<1>7. OctetOf(w, 2) = d
  <2>1. w % 256 = d
    BY <1>1, SMT
  <2> QED BY <1>2, <2>1, SMT
<1>8. d = 0 => SextetOf(w, 3) = 0
  <2>1. d = 0 => w % 64 = 0
    BY <1>1, SMT
  <2> QED BY <1>2, <2>1, SMT
<1>9. c = 0 /\ d = 0 => SextetOf(w, 2) = 0
  <2>1. c = 0 /\ d = 0 => (w \div 64) % 64 = 0
    BY <1>1, SMT
  <2> QED BY <1>2, <2>1, SMT
<1> QED BY <1>4, <1>5, <1>6, <1>7, <1>8, <1>9

LEMMA GroupsCover ==
  ASSUME NEW n \in Nat
  PROVE  Groups(n) \in Nat /\ n <= 3 * Groups(n) /\ 3 * Groups(n) <= n + 2
  BY DEF Groups

LEMMA PlaceOf ==
  ASSUME NEW n \in Nat, NEW i \in 1 .. n
  PROVE  /\ (i - 1) \div 3 \in 0 .. Groups(n) - 1 /\ (i - 1) % 3 \in 0 .. 2
         /\ i = 3 * ((i - 1) \div 3) + ((i - 1) % 3) + 1
<1> DEFINE j == i - 1
<1>1. j \in Nat /\ j < n /\ i = j + 1
  <2>1. i \in Nat /\ 1 <= i /\ i <= n
    OBVIOUS
  <2> QED BY <2>1
<1> HIDE DEF j
<1>2. j \div 3 \in Nat /\ j % 3 \in 0 .. 2 /\ j = (j \div 3) * 3 + (j % 3)
  BY <1>1, Division
<1>3. j \div 3 < Groups(n)
  BY <1>1, <1>2, GroupsCover
<1> QED BY <1>1, <1>2, <1>3, GroupsCover DEF j

LEMMA ByteType ==
  ASSUME NEW bytes \in Seq(Octets), NEW i \in Nat, i > 0
  PROVE  ByteOf(bytes, i) \in Octets
<1>1. Len(bytes) \in Nat /\ \A j \in 1 .. Len(bytes) : bytes[j] \in Octets
  <2>1. Len(bytes) \in Nat
    OBVIOUS
  <2>2. ASSUME NEW j \in 1 .. Len(bytes) PROVE bytes[j] \in Octets
    <3>1. ASSUME NEW S, NEW seq \in Seq(S), NEW k \in 1 .. Len(seq) PROVE seq[k] \in S
      OBVIOUS
    <3> QED BY <3>1
  <2> QED BY <2>1, <2>2
<1>2. i <= Len(bytes) => i \in 1 .. Len(bytes)
  BY <1>1
<1> QED BY <1>1, <1>2 DEF ByteOf, Octets

LEMMA WordIs ==
  ASSUME NEW bytes \in Seq(Octets), NEW g \in Nat
  PROVE  LET b == ByteOf(bytes, 3 * g + 1)
             c == ByteOf(bytes, 3 * g + 2)
             d == ByteOf(bytes, 3 * g + 3)
         IN  /\ b \in Octets /\ c \in Octets /\ d \in Octets
             /\ WordOf(bytes, g) = Packed(b, c, d) /\ WordOf(bytes, g) \in Nat
<1> DEFINE b == ByteOf(bytes, 3 * g + 1)
           c == ByteOf(bytes, 3 * g + 2)
           d == ByteOf(bytes, 3 * g + 3)
<1>1. b \in Octets /\ c \in Octets /\ d \in Octets
  <2>1. /\ 3 * g + 1 \in Nat /\ 3 * g + 2 \in Nat /\ 3 * g + 3 \in Nat
        /\ 3 * g + 1 > 0 /\ 3 * g + 2 > 0 /\ 3 * g + 3 > 0
    OBVIOUS
  <2> QED BY <2>1, ByteType
<1>2. WordOf(bytes, g) = Packed(b, c, d)
  BY DEF WordOf
<1> HIDE DEF b, c, d
<1>3. WordOf(bytes, g) \in Nat
  BY <1>1, <1>2, SMT DEF Packed, Octets
<1> QED BY <1>1, <1>2, <1>3 DEF b, c, d

\* What the characters of the text are.
LEMMA TextIs ==
  ASSUME NEW bytes \in Seq(Octets)
  PROVE  LET n == Len(bytes)
             G == Groups(n)
             text == base64_encode(bytes)
         IN  /\ DOMAIN text = 1 .. 4 * G /\ Len(text) = 4 * G
             /\ \A g \in 0 .. G - 1, place \in 0 .. 3 :
                  text[4 * g + place + 1] =
                    IF 3 * g + place > n THEN Pad ELSE SextetOf(WordOf(bytes, g), place)
<1> DEFINE n == Len(bytes)
           G == Groups(n)
           text == base64_encode(bytes)
           Char(g, place) == IF 3 * g + place > n THEN Pad ELSE SextetOf(WordOf(bytes, g), place)
<1>1. n \in Nat /\ G \in Nat
  BY GroupsCover
<1>2. text = [k \in 1 .. 4 * G |-> Char((k - 1) \div 4, (k - 1) % 4)]
  BY DEF base64_encode, Groups, ByteOf, WordOf, SextetOf, Packed
<1> HIDE DEF n, G, text
<1>3. DOMAIN text = 1 .. 4 * G
  BY <1>2
<1>4. Len(text) = 4 * G
  <2>1. 4 * G \in Nat
    BY <1>1
  <2>2. text \in [1 .. 4 * G -> {text[k] : k \in 1 .. 4 * G}]
    <3> HIDE DEF Char
    <3> QED BY <1>2
  <2>3. text \in Seq({text[k] : k \in 1 .. 4 * G})
    BY <2>1, <2>2
  <2> QED BY <1>3, <2>1, <2>3
<1>5. ASSUME NEW g \in 0 .. G - 1, NEW place \in 0 .. 3
      PROVE  text[4 * g + place + 1] = Char(g, place)
  <2>1. 4 * g + place + 1 \in 1 .. 4 * G
    BY <1>1
  <2>2. (4 * g + place + 1) - 1 = g * 4 + place
    BY <1>1
  <2>3. (g * 4 + place) \div 4 = g /\ (g * 4 + place) % 4 = place
    BY <1>1, DivisionUnique
  <2> HIDE DEF Char
  <2> QED BY <1>2, <2>1, <2>2, <2>3
<1> QED BY <1>3, <1>4, <1>5 DEF n, G, text

\* Which of the characters are padding: as many as bytes are missing from the last group.
LEMMA PaddingIs ==
  ASSUME NEW bytes \in Seq(Octets)
  PROVE  LET text == base64_encode(bytes)
         IN  Cardinality({k \in DOMAIN text : text[k] = Pad}) = 3 * Groups(Len(bytes)) - Len(bytes)
<1> DEFINE n == Len(bytes)
           G == Groups(n)
           text == base64_encode(bytes)
           a == n + G + 1
           z == 4 * G
<1>1. n \in Nat /\ G \in Nat /\ n <= 3 * G /\ 3 * G <= n + 2
  BY GroupsCover
<1>2. /\ DOMAIN text = 1 .. 4 * G
      /\ \A g \in 0 .. G - 1, place \in 0 .. 3 :
           text[4 * g + place + 1] =
             IF 3 * g + place > n THEN Pad ELSE SextetOf(WordOf(bytes, g), place)
  BY TextIs
<1> HIDE DEF n, G, text
<1>3. ASSUME NEW k \in 1 .. 4 * G PROVE text[k] = Pad <=> k \in a .. z
  <2> DEFINE g == (k - 1) \div 4
             place == (k - 1) % 4
  <2>1. g \in 0 .. G - 1 /\ place \in 0 .. 3 /\ k = 4 * g + place + 1
    <3>1. ASSUME NEW j \in Nat, j < 4 * G
          PROVE  j \div 4 \in 0 .. G - 1 /\ j % 4 \in 0 .. 3 /\ j = 4 * (j \div 4) + (j % 4)
      <4>1. j \div 4 \in Nat /\ j % 4 \in 0 .. 3 /\ j = (j \div 4) * 4 + (j % 4)
        BY <3>1, Division
      <4> QED BY <1>1, <3>1, <4>1
    <3>2. k - 1 \in Nat /\ k - 1 < 4 * G /\ k = (k - 1) + 1
      BY <1>1
    <3>3. g \in 0 .. G - 1 /\ place \in 0 .. 3 /\ k - 1 = 4 * g + place
      BY <3>1, <3>2
    <3> HIDE DEF g, place
    <3> QED BY <1>1, <3>2, <3>3
  <2> HIDE DEF g, place
  <2>2. text[k] = IF 3 * g + place > n THEN Pad ELSE SextetOf(WordOf(bytes, g), place)
    BY <1>2, <2>1
  <2>3. SextetOf(WordOf(bytes, g), place) \in 0 .. 63
    <3>1. g \in Nat
      BY <1>1, <2>1
    <3>2. WordOf(bytes, g) \in Nat
      BY <3>1, WordIs
    <3> QED BY <2>1, <3>2, SextetType
  <2>4. SextetOf(WordOf(bytes, g), place) # Pad
    <3>1. \A v \in 0 .. 63 : v # 64
      OBVIOUS
    <3> QED BY <2>3, <3>1 DEF Pad
  <2>5. text[k] = Pad <=> 3 * g + place > n
    BY <2>2, <2>4
  <2>6. 3 * g + place > n <=> k \in a .. z
    BY <1>1, <2>1
  <2> QED BY <2>5, <2>6
<1>4. {k \in DOMAIN text : text[k] = Pad} = a .. z
  <2>1. \A k \in a .. z : k \in 1 .. 4 * G
    BY <1>1
  <2> HIDE DEF a, z
  <2> QED BY <1>2, <1>3, <2>1
<1>5. Cardinality(a .. z) = 3 * G - n
  <2>1. a \in Int /\ z \in Int
    BY <1>1
  <2>2. Cardinality(a .. z) = IF a > z THEN 0 ELSE z - a + 1
    <3> HIDE DEF a, z
    <3> QED BY <2>1, FS_Interval
  <2> QED BY <1>1, <2>2
<1> QED BY <1>4, <1>5 DEF n, G, text

\* A picture of any length arrives as it was read, its last bytes too.
THEOREM AnyPictureDecodes ==
  ASSUME NEW bytes \in Seq(Octets)
  PROVE  Decode(base64_encode(bytes)) = bytes
<1> DEFINE n == Len(bytes)
           G == Groups(n)
           text == base64_encode(bytes)
           Sextet(k) == IF text[k] = Pad THEN 0 ELSE text[k]
           Word(g) == Joined(Sextet(4 * g + 1), Sextet(4 * g + 2), Sextet(4 * g + 3),
                             Sextet(4 * g + 4))
           padding == Cardinality({k \in DOMAIN text : text[k] = Pad})
<1>1. n \in Nat /\ G \in Nat /\ n <= 3 * G /\ 3 * G <= n + 2
  BY GroupsCover
<1>2. /\ Len(text) = 4 * G
      /\ \A g \in 0 .. G - 1, place \in 0 .. 3 :
           text[4 * g + place + 1] =
             IF 3 * g + place > n THEN Pad ELSE SextetOf(WordOf(bytes, g), place)
  BY TextIs
<1>3. padding = 3 * G - n
  BY PaddingIs
<1>4. Decode(text) = [i \in 1 .. 3 * (Len(text) \div 4) - padding |->
                        OctetOf(Word((i - 1) \div 3), (i - 1) % 3)]
  BY DEF Decode, OctetOf, Joined
<1> HIDE DEF n, G, text, padding
<1>5. 3 * (Len(text) \div 4) - padding = n
  <2>1. (4 * G) \div 4 = G
    BY <1>1
  <2> QED BY <1>1, <1>2, <1>3, <2>1
<1>6. ASSUME NEW g \in 0 .. G - 1 PROVE Word(g) = WordOf(bytes, g)
  <2> DEFINE b == ByteOf(bytes, 3 * g + 1)
             c == ByteOf(bytes, 3 * g + 2)
             d == ByteOf(bytes, 3 * g + 3)
             w == WordOf(bytes, g)
  <2>1. g \in Nat
    BY <1>1
  <2>2. b \in Octets /\ c \in Octets /\ d \in Octets /\ w = Packed(b, c, d) /\ w \in Nat
    BY <2>1, WordIs
  <2>3. /\ 3 * g + 2 > n => c = 0 /\ d = 0
        /\ 3 * g + 3 > n => d = 0
        /\ ~ (3 * g + 1 > n) /\ ~ (3 * g + 0 > n)
    <3>1. 3 * g + 2 > n => 3 * g + 3 > n /\ ~ (3 * g + 2 <= n)
      BY <1>1, <2>1
    <3>2. 3 * g + 3 > n => ~ (3 * g + 3 <= n)
      BY <1>1, <2>1
    <3>3. ~ (3 * g + 1 > n) /\ ~ (3 * g + 0 > n)
      BY <1>1, <2>1
    <3> QED BY <3>1, <3>2, <3>3 DEF ByteOf, n
  <2> HIDE DEF b, c, d, w
  <2>4. /\ w = Joined(SextetOf(w, 0), SextetOf(w, 1), SextetOf(w, 2), SextetOf(w, 3))
        /\ d = 0 => SextetOf(w, 3) = 0
        /\ c = 0 /\ d = 0 => SextetOf(w, 2) = 0
    BY <2>2, WordDigits
  <2>5. \A place \in 0 .. 3 : SextetOf(w, place) # Pad
    <3>1. \A v \in 0 .. 63 : v # 64
      OBVIOUS
    <3> QED BY <2>2, <3>1, SextetType DEF Pad
  <2>6. 0 \in 0 .. 3 /\ 1 \in 0 .. 3 /\ 2 \in 0 .. 3 /\ 3 \in 0 .. 3
    OBVIOUS
  <2>7. ASSUME NEW place \in 0 .. 3
        PROVE  text[4 * g + place + 1] = IF 3 * g + place > n THEN Pad ELSE SextetOf(w, place)
    BY <1>2 DEF w
  <2>8. /\ text[4 * g + 1] = SextetOf(w, 0) /\ text[4 * g + 2] = SextetOf(w, 1)
        /\ text[4 * g + 3] = IF 3 * g + 2 > n THEN Pad ELSE SextetOf(w, 2)
        /\ text[4 * g + 4] = IF 3 * g + 3 > n THEN Pad ELSE SextetOf(w, 3)
    <3>1. /\ 4 * g + 0 + 1 = 4 * g + 1 /\ 4 * g + 1 + 1 = 4 * g + 2
          /\ 4 * g + 2 + 1 = 4 * g + 3 /\ 4 * g + 3 + 1 = 4 * g + 4
      BY <2>1
    <3>2. /\ text[4 * g + 0 + 1] = IF 3 * g + 0 > n THEN Pad ELSE SextetOf(w, 0)
          /\ text[4 * g + 1 + 1] = IF 3 * g + 1 > n THEN Pad ELSE SextetOf(w, 1)
          /\ text[4 * g + 2 + 1] = IF 3 * g + 2 > n THEN Pad ELSE SextetOf(w, 2)
          /\ text[4 * g + 3 + 1] = IF 3 * g + 3 > n THEN Pad ELSE SextetOf(w, 3)
      BY <2>6, <2>7
    <3> QED BY <2>3, <3>1, <3>2
  <2>9. /\ Sextet(4 * g + 1) = SextetOf(w, 0) /\ Sextet(4 * g + 2) = SextetOf(w, 1)
        /\ Sextet(4 * g + 3) = SextetOf(w, 2) /\ Sextet(4 * g + 4) = SextetOf(w, 3)
    BY <2>3, <2>4, <2>5, <2>6, <2>8
  <2> HIDE DEF Sextet
  <2> QED BY <2>4, <2>9 DEF w
<1> HIDE DEF Word
<1>7. ASSUME NEW i \in 1 .. n
      PROVE  OctetOf(Word((i - 1) \div 3), (i - 1) % 3) = bytes[i]
  <2> DEFINE g == (i - 1) \div 3
             p == (i - 1) % 3
             b == ByteOf(bytes, 3 * g + 1)
             c == ByteOf(bytes, 3 * g + 2)
             d == ByteOf(bytes, 3 * g + 3)
             w == WordOf(bytes, g)
  <2>1. g \in 0 .. G - 1 /\ p \in 0 .. 2 /\ i = 3 * g + p + 1
    BY <1>1, PlaceOf DEF G
  <2>2. i <= Len(bytes)
    BY <1>1 DEF n
  <2>3. ByteOf(bytes, i) = bytes[i]
    BY <2>2 DEF ByteOf
  <2>4. Word(g) = w
    BY <1>6, <2>1
  <2> HIDE DEF g, p
  <2>5. g \in Nat
    BY <1>1, <2>1
  <2>6. b \in Octets /\ c \in Octets /\ d \in Octets /\ w = Packed(b, c, d) /\ w \in Nat
    BY <2>5, WordIs
  <2>7. /\ p = 0 => b = bytes[i]
        /\ p = 1 => c = bytes[i]
        /\ p = 2 => d = bytes[i]
    <3>1. /\ p = 0 => 3 * g + 1 = i
          /\ p = 1 => 3 * g + 2 = i
          /\ p = 2 => 3 * g + 3 = i
      BY <2>1, <2>5
    <3> QED BY <2>3, <3>1
  <2> HIDE DEF b, c, d, w
  <2>8. OctetOf(w, 0) = b /\ OctetOf(w, 1) = c /\ OctetOf(w, 2) = d
    BY <2>6, WordDigits
  <2>9. p = 0 \/ p = 1 \/ p = 2
    BY <2>1
  <2>10. OctetOf(Word(g), p) = bytes[i]
    BY <2>4, <2>7, <2>8, <2>9
  <2> QED BY <2>10 DEF g, p
<1>8. bytes = [i \in 1 .. n |-> bytes[i]]
  BY DEF n
<1> QED BY <1>4, <1>5, <1>7, <1>8 DEF text

COROLLARY PicturesAreDecoded == PicturesDecode
<1> SUFFICES ASSUME NEW n \in 0 .. 5, NEW bytes \in [1 .. n -> {0, 63, 255}]
             PROVE  Decode(base64_encode(bytes)) = bytes
  BY DEF PicturesDecode
<1>1. n \in Nat
  OBVIOUS
<1>2. bytes \in [1 .. n -> Octets]
  <2>1. {0, 63, 255} \subseteq Octets
    BY DEF Octets
  <2> HIDE DEF Decode
  <2> QED BY <2>1
<1>3. bytes \in Seq(Octets)
  BY <1>1, <1>2
<1> QED BY <1>3, AnyPictureDecodes

\* In formats of any widths, rounding and widening keep the values as near as the
\* formats come, and pictures decode.
THEOREM ConversionsAreFaithful == ConversionsFaithful
  BY HalvesAreExact, RoundingIsNearest, PicturesAreDecoded DEF ConversionsFaithful

=============================================================================
