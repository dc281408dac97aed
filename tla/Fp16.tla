-------------------------------- MODULE Fp16 --------------------------------
(***************************************************************************)
(* The conversions of half precision numbers (src/infra/math/fp16_t.cpp    *)
(* and inc/infra/math/fp16_t.h).  A half is its 16 bits as an integer, a   *)
(* float the triple of its fields [s, e, m].                               *)
(***************************************************************************)
EXTENDS Integers

ManLen16 == 10
ManLen32 == 23
HideBit16 == 2 ^ ManLen16
HideBit32 == 2 ^ ManLen32
MaxExp16 == 31
MaxMan16 == HideBit16 - 1
Bias16 == 15
Bias32 == 127

Sign16(v) == v \div 32768
Exp16(v) == (v \div HideBit16) % 32
\* The mantissa field, with the hidden bit of a normal number.
Man16(v) == (v % HideBit16) + IF Exp16(v) > 0 THEN HideBit16 ELSE 0
Construct16(s, e, m) == s * 32768 + e * HideBit16 + (m % HideBit16)
IsDenorm(v) == Exp16(v) = 0
IsInvalid(v) == Exp16(v) = MaxExp16

\* Faulty variant: a tie goes up.
IsRoundOneUp(man, bits) == man % 2 ^ bits >= 2 ^ (bits - 1)
\* Whether cutting the last bits of man rounds up: to nearest, a tie to the even neighbour.
IsRoundOne(man, bits) ==
  LET rest == man % 2 ^ bits
      half == 2 ^ (bits - 1)
  IN  rest >= half /\ (rest # half \/ (man \div 2 ^ bits) % 2 = 1)

\* The exponent and mantissa of a number that is too large, or a denormal that was rounded up to a normal.
Fp16Normalize(e, m) ==
  IF e >= MaxExp16 THEN [e |-> MaxExp16 - 1, m |-> MaxMan16]
  ELSE IF e = 0 /\ m = HideBit16 THEN [e |-> 1, m |-> 0]
  ELSE [e |-> e, m |-> m]

\* fp16_t::operator=(float).
FloatToFp16(f) ==
  LET cut == ManLen32 - ManLen16
      \* The places a denormal is cut by: the code shifts the mantissa left first, and right by 23.
      shift == ManLen32 - (f.e - 103)
      denormal == f.m + HideBit32
      rounded(man, bits) == (man \div 2 ^ bits) + IF IsRoundOne(man, bits) THEN 1 ELSE 0
      regular == rounded(f.m, cut)
      raw == CASE f.e > 143 -> [e |-> MaxExp16 - 1, m |-> MaxMan16]
               [] f.e \in 103 .. 112 -> [e |-> 0, m |-> rounded(denormal, shift)]
               [] f.e < 103 -> [e |-> 0, m |-> IF f.e = 102 /\ f.m > 0 THEN 1 ELSE 0]
               [] OTHER -> [e |-> f.e - 112 + IF regular >= HideBit16 THEN 1 ELSE 0, m |-> regular]
      norm == Fp16Normalize(raw.e, raw.m)
  IN  Construct16(f.s, norm.e, norm.m)

\* fp16_t::operator float: a denormal is shifted until its hidden bit is set.
Fp16ToFloat(v) ==
  LET man == Man16(v)
      exp == IF Exp16(v) = 0 THEN 1 ELSE Exp16(v)
      up == CHOOSE k \in 0 .. ManLen16 : man * 2 ^ k \in HideBit16 .. 2 * HideBit16 - 1
  IN  IF man = 0 THEN [s |-> Sign16(v), e |-> 0, m |-> 0]
      ELSE [s |-> Sign16(v), e |-> exp - up - Bias16 + Bias32,
            m |-> ((man * 2 ^ up) % HideBit16) * 2 ^ (ManLen32 - ManLen16)]

\* fp16_t::toUInt8: towards zero, what is too large becomes 255, what is negative 0.
Fp16ToUInt8(v) ==
  LET shift == Exp16(v) - Bias16
      up == Man16(v) * 2 ^ shift
  IN  CASE IsDenorm(v) \/ Sign16(v) = 1 -> 0
        [] IsInvalid(v) -> 255
        [] OTHER -> IF shift < 0 THEN Man16(v) \div 2 ^ (ManLen16 - shift)
                    ELSE IF up >= 2 ^ 18 THEN 255 ELSE (up \div HideBit16) % 256
(***************************************************************************)
(* What the conversions should be, in terms of numbers.                    *)
(***************************************************************************)
\* The float man * 2^(exp + 102 - 127), for man # 0: the mantissa shifted up to the hidden bit.
FloatOf(man, exp) ==
  LET k == CHOOSE i \in 0 .. ManLen32 : man * 2 ^ i \in HideBit32 .. 2 * HideBit32 - 1
  IN  [s |-> 0, e |-> exp + ManLen32 - k, m |-> (man * 2 ^ k) % HideBit32]
Key(f) == f.e * HideBit32 + f.m   \* floats of one sign are ordered by their bits
MaxHalf == 31743                  \* 0x7BFF
\* The point between the half v and the next one.
Middle(v) == FloatOf(2 * Man16(v) + 1, (IF Exp16(v) = 0 THEN 1 ELSE Exp16(v)) + 101)

\* Too large for a finite half, infinite, or not a number: from the point on that is as
\* near to the next power of two as to the largest half.
Overflows(f) == Key(f) >= Key(Middle(MaxHalf))

\* The half of a float is the nearest one, the even one of two, and has its sign.  For what
\* overflows the code's comment says "signed inf/NaN" (fp16_t.cpp:216), the lines below it
\* give the largest finite half: the property asks for no smaller one, and decides for neither.
NearestHalf(f) ==
  LET v == FloatToFp16(f) % 32768
  IN  /\ FloatToFp16(f) \div 32768 = f.s
      /\ IF Overflows(f) THEN v >= MaxHalf ELSE v <= MaxHalf
      /\ v < MaxHalf => Key(f) < Key(Middle(v)) \/ (Key(f) = Key(Middle(v)) /\ v % 2 = 0)
      /\ v > 0 /\ ~Overflows(f) => Key(f) > Key(Middle(v - 1)) \/ (Key(f) = Key(Middle(v - 1)) /\ v % 2 = 0)

\* A finite half survives the way to float and back, and its byte is its value cut to 0 .. 255.
HalfKept(v) ==
  LET whole == IF Exp16(v) >= 25 THEN Man16(v) * 2 ^ (Exp16(v) - 25) ELSE Man16(v) \div 2 ^ (25 - Exp16(v))
  IN  ~IsInvalid(v) =>
        /\ FloatToFp16(Fp16ToFloat(v)) = v
        /\ Fp16ToUInt8(v) = IF Sign16(v) = 1 THEN 0 ELSE IF whole > 255 THEN 255 ELSE whole
=============================================================================
