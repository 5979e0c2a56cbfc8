----------------------------- MODULE Conversions -----------------------------
(***************************************************************************)
(* The conversions a tensor goes through on its way to a weights file and  *)
(* a picture on its way into a response: float formats and base64.  A      *)
(* float is the natural number of its bits; the widths are constants, so   *)
(* that all floats of a small format can be looked at.                     *)
(***************************************************************************)
EXTENDS Integers, Sequences, FiniteSets

CONSTANTS
  ExpBits,       \* exponent of f32 and bf16: 8
  MantBits,      \* mantissa of f32: 23
  KeptBits,      \* mantissa of bf16: 7
  HalfExpBits,   \* exponent of f16: 5
  HalfMantBits   \* mantissa of f16: 10

ASSUME WidthsAssumption ==
  /\ {ExpBits, MantBits, KeptBits, HalfExpBits, HalfMantBits} \subseteq Nat \ {0}
  /\ HalfExpBits < ExpBits /\ HalfMantBits <= MantBits /\ KeptBits < MantBits
  /\ HalfMantBits < 2 ^ (ExpBits - 1) - 2 ^ (HalfExpBits - 1)

\* A format: its exponent and mantissa bits.
F32 == [exp |-> ExpBits, mant |-> MantBits]
Bf16 == [exp |-> ExpBits, mant |-> KeptBits]
F16 == [exp |-> HalfExpBits, mant |-> HalfMantBits]

Floats(f) == 0 .. 2 ^ (1 + f.exp + f.mant) - 1
Sign(f, x) == x \div 2 ^ (f.exp + f.mant)
Exponent(f, x) == (x \div 2 ^ f.mant) % 2 ^ f.exp
Mantissa(f, x) == x % 2 ^ f.mant
Float(f, sign, exponent, mantissa) ==
  (sign * 2 ^ f.exp + exponent) * 2 ^ f.mant + mantissa

AllOnes(f) == 2 ^ f.exp - 1
IsNaN(f, x) == Exponent(f, x) = AllOnes(f) /\ Mantissa(f, x) # 0
IsInfinite(f, x) == Exponent(f, x) = AllOnes(f) /\ Mantissa(f, x) = 0

Dropped == MantBits - KeptBits

\* Round by adding, in the width of f32, just enough to carry.
f32_bits_to_bf16(bits) ==
  LET bias == 2 ^ (Dropped - 1) - 1 + ((bits \div 2 ^ Dropped) % 2)
  IN  ((bits + bias) % 2 ^ (1 + ExpBits + MantBits)) \div 2 ^ Dropped

Rebias == 2 ^ (ExpBits - 1) - 2 ^ (HalfExpBits - 1)
Widen == 2 ^ (MantBits - HalfMantBits)

\* A subnormal is shifted until its leading one is the hidden one.
f16_bits_to_f32_bits(h) ==
  LET e == Exponent(F16, h)
      m == Mantissa(F16, h)
      shift == CHOOSE k \in 0 .. HalfMantBits : (m * 2 ^ k) \div 2 ^ HalfMantBits = 1
  IN  IF e = 0 /\ m # 0
        THEN Float(F32, Sign(F16, h), 1 - shift + Rebias,
                   (m * 2 ^ shift - 2 ^ HalfMantBits) * Widen)
        ELSE Float(F32, Sign(F16, h),
                   CASE e = 0 -> 0
                     [] e = AllOnes(F16) -> AllOnes(F32)
                     [] OTHER -> e + Rebias,
                   m * Widen)

-----------------------------------------------------------------------------
(* base64_encode: the sextets of the bytes, three at a time, and padding.   *)

Pad == 64

base64_encode(bytes) ==
  LET groups == (Len(bytes) + 2) \div 3
      Byte(i) == IF i <= Len(bytes) THEN bytes[i] ELSE 0
      Word(g) == Byte(3 * g + 1) * 65536 + Byte(3 * g + 2) * 256 + Byte(3 * g + 3)
  IN  [k \in 1 .. 4 * groups |->
         LET g == (k - 1) \div 4
             place == (k - 1) % 4
         IN  IF 3 * g + place > Len(bytes) THEN Pad
             ELSE (Word(g) \div 64 ^ (3 - place)) % 64]

-----------------------------------------------------------------------------
(* What must hold.                                                          *)

\* The magnitude of a float, in units of the smallest subnormal of its format; an
\* infinity counts as the next power of two, as rounding has it.
Magnitude(f, x) ==
  IF Exponent(f, x) = 0 THEN Mantissa(f, x)
  ELSE (2 ^ f.mant + Mantissa(f, x)) * 2 ^ (Exponent(f, x) - 1)

Distance(a, b) == IF a < b THEN b - a ELSE a - b

\* Every f32 but a NaN becomes the nearest bf16, the even one of two, of the same
\* sign; the carry out of the mantissa, up to infinity, is as it should be.  (A NaN
\* may become an infinity or wrap to a zero: 0x7FFFFFFF does.)
RoundsToNearestEven ==
  \A x \in {y \in Floats(F32) : ~IsNaN(F32, y)} :
    LET r == f32_bits_to_bf16(x)
        Off(q) == Distance(Magnitude(Bf16, q) * 2 ^ Dropped, Magnitude(F32, x))
    IN  /\ ~IsNaN(Bf16, r) /\ Sign(Bf16, r) = Sign(F32, x)
        /\ \A q \in {p \in Floats(Bf16) : Sign(Bf16, p) = Sign(F32, x) /\ p # r
                                          /\ ~IsNaN(Bf16, p)} :
             \/ Off(r) < Off(q)
             \/ Off(r) = Off(q) /\ r % 2 = 0

\* Every f16, subnormals included, becomes the f32 of the same value.
HalvesExact ==
  \A h \in Floats(F16) :
    LET x == f16_bits_to_f32_bits(h) IN
    /\ Sign(F32, x) = Sign(F16, h)
    /\ IsNaN(F32, x) = IsNaN(F16, h)
    /\ IsInfinite(F32, x) = IsInfinite(F16, h)
    /\ Exponent(F16, h) # AllOnes(F16) =>
         Magnitude(F32, x) = Magnitude(F16, h) * 2 ^ Rebias * Widen

\* What a client decodes.
Decode(text) ==
  LET padding == Cardinality({k \in DOMAIN text : text[k] = Pad})
      Sextet(k) == IF text[k] = Pad THEN 0 ELSE text[k]
      Word(g) == Sextet(4 * g + 1) * 64 ^ 3 + Sextet(4 * g + 2) * 64 ^ 2
                 + Sextet(4 * g + 3) * 64 + Sextet(4 * g + 4)
  IN  [i \in 1 .. 3 * (Len(text) \div 4) - padding |->
         (Word((i - 1) \div 3) \div 256 ^ (2 - ((i - 1) % 3))) % 256]

\* A picture of any length arrives as it was read, its last bytes too.
PicturesDecode ==
  \A n \in 0 .. 5 : \A bytes \in [1 .. n -> {0, 63, 255}] :
    Decode(base64_encode(bytes)) = bytes

\* What the exporters write has the value of what they read, as near as the format
\* comes, and what a client decodes is the picture that the worker wrote.
ConversionsFaithful == RoundsToNearestEven /\ HalvesExact /\ PicturesDecode

=============================================================================
