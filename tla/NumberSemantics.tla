--------------------------- MODULE NumberSemantics ----------------------------
(***************************************************************************)
(* What the operations of BigFloat promise, in exact arithmetic: a finite  *)
(* number is the integer Mantissa(a) scaled by a power of two, and the     *)
(* result of an operation is its exact value, a quotient of two naturals,  *)
(* rounded once.                                                           *)
(***************************************************************************)
EXTENDS BigDecimal

(* The exact value of a finite number: Mantissa(a) * 2^Scale(a).           *)
Mantissa(a) == Value(a.tab, B)
Scale(a) == a.expn - bf_len(a) * LIMB_BITS
SignOf(a) == IF a.sign = 1 THEN -1 ELSE 1
Up(n, k) == IF k > 0 THEN n * 2^k ELSE n
(* a * 2^k as a natural, for k at least -Scale(a).                         *)
Fixed(a, k) == IF bf_len(a) = 0 THEN 0 ELSE Mantissa(a) * 2^(k + Scale(a))

(* The representation every result has: no zero limb at the bottom, the    *)
(* top bit set, reserved exponents without a mantissa.                     *)
WellFormed(a) ==
  IF a.expn \in {BF_EXP_ZERO, BF_EXP_INF, BF_EXP_NAN} THEN bf_len(a) = 0
  ELSE bf_len(a) > 0 /\ a.tab[1] # 0 /\ a.tab[bf_len(a)] >= B \div 2 /\ \A i \in DOMAIN a.tab : a.tab[i] \in Limb

(* The value of a is N / D.                                                *)
Same(a, N, D) == bf_is_finite(a) /\ bf_len(a) > 0 /\ Up(N, -Scale(a)) = Up(Mantissa(a) * D, Scale(a))

(* The exponent of N / D.                                                  *)
GE(N, D, k) == IF k >= 0 THEN N >= D * 2^k ELSE N * 2^(-k) >= D
RECURSIVE Bits(_)
Bits(n) == IF n = 0 THEN 0 ELSE 1 + Bits(n \div 2)
Exponent(N, D) == LET e == Bits(N) - Bits(D) IN IF GE(N, D, e) THEN e + 1 ELSE e

(* Does rounding move away from zero, for the fraction rem / den that is   *)
(* cut off and the last bit kept?                                          *)
RoundsUp(rnd, sign, odd, rem, den) ==
  CASE rnd = "RNDN" -> 2 * rem > den \/ (2 * rem = den /\ odd)
    [] rnd = "RNDNA" -> 2 * rem >= den
    [] rnd = "RNDD" -> sign = 1 /\ rem # 0
    [] rnd = "RNDU" -> sign = 0 /\ rem # 0
    [] rnd = "RNDA" -> rem # 0
    [] rnd = "RNDZ" -> FALSE

(* N / D rounded: the integer n scaled by 2^u, or a special value.         *)
Rounded(sign, N, D, prec, flags) ==
  LET E == Exponent(N, D)
      p == IF flags.radpnt THEN E + prec
           ELSE IF flags.sub /\ E < e_min(flags) THEN prec - (e_min(flags) - E) ELSE prec
      u == E - p
      num == Up(N, -u)
      den == Up(D, u)
      rem == num % den
      n == (num \div den) + Bit(RoundsUp(flags.rnd, sign, (num \div den) % 2 = 1, rem, den))
      e == Exponent(Up(n, u), Up(1, -u))
      inexact == IF rem # 0 THEN {"INEXACT"} ELSE {}
  IN IF n = 0 THEN [kind |-> "zero", st |-> {"UNDERFLOW", "INEXACT"}]
     ELSE IF p <= 0 THEN [kind |-> "finite", n |-> n, u |-> u, st |-> {"UNDERFLOW", "INEXACT"}]
     ELSE IF e < e_min(flags) /\ ~flags.sub THEN [kind |-> "zero", st |-> {"UNDERFLOW", "INEXACT"}]
     ELSE IF e > e_max(flags)
     THEN IF RoundsUp(flags.rnd, sign, TRUE, 2, 3) THEN [kind |-> "inf", st |-> {"OVERFLOW", "INEXACT"}]
          ELSE [kind |-> "finite", n |-> 2^prec - 1, u |-> e_max(flags) - prec, st |-> {"OVERFLOW", "INEXACT"}]
     ELSE [kind |-> "finite", n |-> n, u |-> u,
           st |-> inexact \cup (IF e < e_min(flags) /\ rem # 0 THEN {"UNDERFLOW"} ELSE {})]
Is(r, sign, ref) ==
  /\ r.sign = sign
  /\ CASE ref.kind = "zero" -> bf_is_zero(r)
       [] ref.kind = "inf" -> r.expn = BF_EXP_INF
       [] ref.kind = "finite" -> Same(r, Up(ref.n, ref.u), Up(1, -ref.u))

(* The result x of an operation whose exact value is the nonzero N / D.    *)
(* Without a precision it is exact; faithful rounding may go either way    *)
(* and always claims to be inexact.                                        *)
Delivers(x, sign, N, D, prec, flags) ==
  /\ WellFormed(x.r)
  /\ IF prec = BF_PREC_INF THEN x.st = {} /\ x.r.sign = sign /\ Same(x.r, N, D) ELSE
     IF flags.rnd = "RNDF"
     THEN \E m \in {"RNDZ", "RNDA"} : Is(x.r, sign, Rounded(sign, N, D, prec, [flags EXCEPT !.rnd = m]))
     ELSE LET ref == Rounded(sign, N, D, prec, flags) IN Is(x.r, sign, ref) /\ x.st = ref.st

(***************************************************************************)
(* The operations on finite, nonzero operands.  k scales every operand to  *)
(* a natural.                                                              *)
(***************************************************************************)
Exact(x, v, k, prec, flags) ==
  IF v = 0 THEN x.st = {} /\ x.r = bf_zero(Bit(flags.rnd = "RNDD"))
  ELSE Delivers(x, Bit(v < 0), IF v < 0 THEN -v ELSE v, 2^k, prec, flags)
RoundRounds(a, k, prec, flags) == Delivers(bf_round(a, prec, flags), a.sign, Fixed(a, k), 2^k, prec, flags)
AddRounds(a, b, k, prec, flags) ==
  LET va == SignOf(a) * Fixed(a, k)
      vb == SignOf(b) * Fixed(b, k)
  IN /\ Exact(bf_add(a, b, prec, flags), va + vb, k, prec, flags)
     /\ Exact(bf_sub(a, b, prec, flags), va - vb, k, prec, flags)
     /\ bf_cmp(a, b) = (IF va < vb THEN -1 ELSE IF va > vb THEN 1 ELSE 0)
     /\ bf_cmp_full(a, b) = bf_cmp(a, b)
MulRounds(a, b, prec, flags) ==
  LET s == Scale(a) + Scale(b)
  IN Delivers(bf_mul(a, b, prec, flags), (a.sign + b.sign) % 2,
              Up(Mantissa(a) * Mantissa(b), s), Up(1, -s), prec, flags)
DivRounds(a, b, k, prec, flags) ==
  prec # BF_PREC_INF
  => Delivers(bf_div(a, b, prec, flags), (a.sign + b.sign) % 2, Fixed(a, k), Fixed(b, k), prec, flags)
RECURSIVE Root(_, _)
Root(v, i) == IF i = 0 THEN 0
              ELSE LET r == 2 * Root(v \div 4, i - 1) IN IF (r + 1) * (r + 1) <= v THEN r + 1 ELSE r
(* The root n / 2^j of a number rounded towards zero, one more bit than    *)
(* needed and a sticky bit, decides the rounding.                          *)
SqrtRounds(a, k, prec, flags) ==
  LET v == Fixed(a, k)
      j == CHOOSE n \in {k, k + 1} : n % 2 = 0
      w == v * 2^(2 * 4 + j - k)
      root == Root(w, Bits(w))
      exact == root * root = w
  IN (prec # BF_PREC_INF /\ a.sign = 0)
     => Delivers(bf_sqrt(a, prec, flags), 0, 2 * root + Bit(~exact), 2^(1 + 4 + (j \div 2)), prec, flags)


(***************************************************************************)
(* Digits.                                                                 *)
(***************************************************************************)
Pow(n, radix, k) == IF k > 0 THEN n * radix^k ELSE n
(* The numeral t stands for n * radix^-u.                                  *)
Stands(t, radix, n, u) ==
  LET v == Value(Reverse(t.ip \o t.fp), radix)
      x == t.exp - Len(t.fp) + u
  IN Pow(v, radix, x) = Pow(n, radix, -x)
(* N / D in radix, u digits after the point.                               *)
RECURSIVE Shifted(_, _, _, _)
Shifted(N, D, radix, u) ==
  IF u > 0 /\ D % radix = 0 THEN Shifted(N, D \div radix, radix, u - 1)
  ELSE [num |-> Pow(N, radix, u), den |-> Pow(D, radix, -u)]
DigitsOf(sign, N, D, radix, u, rnd) ==
  LET x == Shifted(N, D, radix, u)
      num == x.num
      den == x.den
      q == num \div den
  IN q + Bit(RoundsUp(rnd, sign, q % 2 = 1, num % den, den))
RECURSIVE RadixExponent(_, _, _)
RadixExponent(N, D, radix) ==
  IF N >= D THEN RadixExponent(N, D * radix, radix) + 1
  ELSE IF N * radix < D THEN RadixExponent(N * radix, D, radix) - 1 ELSE 0
FixedDigits(a, k, radix, P, rnd) ==
  LET t == bf_ftoa(a, radix, P, Flags(rnd), "FIXED", TRUE)
      u == P - RadixExponent(Fixed(a, k), 2^k, radix)
      e == IF t.bin THEN t.exp \div ceil_log2(radix) ELSE t.exp
  IN /\ Len(t.ip \o t.fp) = P
     /\ Stands([t EXCEPT !.exp = e], radix, DigitsOf(a.sign, Fixed(a, k), 2^k, radix, u, rnd), u)
FracDigits(a, k, radix, P, rnd) ==
  LET t == bf_ftoa(a, radix, P, Flags(rnd), "FRAC", FALSE)
  IN /\ Len(t.fp) = P
     /\ Stands(t, radix, DigitsOf(a.sign, Fixed(a, k), 2^k, radix, P, rnd), P)
(* A numeral is read as its value, rounded once; one whose exponent leaves *)
(* the range, whatever the rounding, as zero or infinity.                  *)
AtofRounds(t, radix, prec, flags) ==
  LET x == t.exp - Len(t.fp)
      v == Value(Reverse(t.ip \o t.fp), radix)
      far == t.exp > BF_EXP_NAN \/ t.exp < -BF_EXP_NAN
      read == bf_atof(t, radix, prec, flags)
  IN v # 0 => IF far THEN "INEXACT" \in read.st /\ read.r = (IF t.exp < 0 THEN bf_zero(t.neg) ELSE bf_inf(t.neg))
              ELSE Delivers(read, t.neg, Pow(v, radix, x), Pow(1, radix, -x), prec, flags)
(* Printed with as many digits as a precision of prec bits needs, or with  *)
(* as few as possible, a number reads back; with fewer digits it does not. *)
ReadsBack(a, radix, prec, flags) ==
  LET back(t) == bf_atof(t, radix, prec, flags).r
      t == bf_ftoa(a, radix, prec, flags, "FREE_MIN", TRUE)
  IN /\ back(bf_ftoa(a, radix, prec, flags, "FREE", FALSE)) = a
     /\ back(t) = a
     /\ PowerOfTwo(radix) \/ \A n \in 1..(Len(t.fp)) : back(bf_ftoa(a, radix, n, flags, "FIXED", TRUE)) # a

(***************************************************************************)
(* Remainders, bitwise operations and machine types.                       *)
(***************************************************************************)
Scaled(a, k) == SignOf(a) * Fixed(a, k)
Abs(v) == IF v < 0 THEN -v ELSE v
(* The integer nearest to va / vb in the direction of the mode.            *)
Quotient(va, vb, rnd) ==
  LET sign == Bit((va < 0) # (vb < 0))
      n == Abs(va) \div Abs(vb)
      rem == Abs(va) % Abs(vb)
      up == IF rnd = "EUCLIDIAN" THEN va < 0 /\ rem # 0
            ELSE IF rnd = "RNDF" THEN FALSE
            ELSE RoundsUp(rnd, sign, n % 2 = 1, rem, Abs(vb))
  IN (1 - 2 * sign) * (n + Bit(up))
(* a = q * b + r exactly, with q the integer the rounding mode asks for.   *)
DivremExact(a, b, k, rnd) ==
  LET d == bf_divrem(a, b, BF_PREC_INF, Flags("RNDZ"), rnd)
      va == Scaled(a, k)
      vb == Scaled(b, k)
      q == Quotient(va, vb, rnd)
  IN WellFormed(d.q) /\ WellFormed(d.r) /\ Scaled(d.q, k) = q * 2^k /\ Scaled(d.r, k) = va - q * vb
IntegerOf(a) == SignOf(a) * (Fixed(a, LIMB_BITS) \div 2^LIMB_BITS)
(* A bitwise operation is the one on the two's complement integers, which  *)
(* w bits hold.                                                            *)
LogicExact(a, b, op, w) ==
  LET r == bf_logic_op(a, b, op).r
  IN WellFormed(r) /\ Scaled(r, LIMB_BITS) = 2^LIMB_BITS * Signed2(bf_logic_op1(IntegerOf(a) % 2^w, IntegerOf(b) % 2^w, op), w)
(* A conversion to an integer of w bits drops the fraction, then wraps or  *)
(* saturates and reports.                                                  *)
GetIntExact(a, k, w) ==
  LET v == SignOf(a) * (Fixed(a, k) \div 2^k)
      max == 2^(w - 1) - 1
      fits == v \in (-max - 1)..max
      sat == IF fits THEN v ELSE IF v < 0 THEN -max - 1 ELSE max
  IN /\ GetInt(a, w, TRUE) = [v |-> Signed2(v, w), st |-> {}]
     /\ GetInt(a, w, FALSE).v = sat
     /\ "INVALID_OP" \in GetInt(a, w, FALSE).st => (~fits \/ (v = -max - 1 /\ Fixed(a, k) % 2^k # 0))
     /\ ~fits => "INVALID_OP" \in GetInt(a, w, FALSE).st
(* A double converts exactly, and back to itself; a number converts to the *)
(* double nearest to it in the direction of the rounding mode.             *)
DoubleExact(a, k, rnd) ==
  LET f == [Flags(rnd) EXCEPT !.sub = TRUE, !.e = FLOAT_EXP_BITS]
      x == bf_get_float64(a, rnd)
  IN /\ Delivers(Res(bf_set_float64(x.d), x.st), a.sign, Fixed(a, k), 2^k, FLOAT_MANT + 1, f)
     /\ bf_get_float64(bf_set_float64(x.d), rnd).d = x.d

(***************************************************************************)
(* Limb arrays: division with remainder and the integer square root.       *)
(***************************************************************************)
DivisionExact(a, b, na, nb) ==
  LET d == mp_divnorm(<<>> \o ToLimbs(a, B, na), na, <<>> \o ToLimbs(b, B, nb), nb)
  IN Value(d.q, B) = a \div b /\ Value(Part(d.a, 0, nb), B) = a % b
RootExact(a, n) ==
  LET x == mp_sqrtrem(<<>> \o ToLimbs(a, B, 2 * n), n)
      s == Value(x.s, B)
  IN s * s <= a /\ a < (s + 1) * (s + 1) /\ Value(Part(x.a, 0, n + 1), B) = a - s * s
-----------------------------------------------------------------------------
(***************************************************************************)
(* What the operations of BigDecimal promise, in exact arithmetic: the     *)
(* exact result, a quotient of naturals, rounded once to decimal digits.   *)
(***************************************************************************)

DecMantissa(a) == Value(a.tab, BF_DEC_BASE)
DecScale(a) == a.expn - bf_len(a) * LIMB_DIGITS
DecFixed(a, k) == IF bf_len(a) = 0 THEN 0 ELSE DecMantissa(a) * 10^(k + DecScale(a))
DecScaled(a, k) == SignOf(a) * DecFixed(a, k)
DecWellFormed(a) ==
  IF a.expn \in {BF_EXP_ZERO, BF_EXP_INF, BF_EXP_NAN} THEN bf_len(a) = 0
  ELSE /\ bf_len(a) > 0 /\ a.tab[1] # 0 /\ a.tab[bf_len(a)] >= BF_DEC_BASE \div 10
       /\ \A i \in DOMAIN a.tab : a.tab[i] \in 0..(BF_DEC_BASE - 1)
(* a is n * 10^-u.                                                         *)
DecSame(a, n, u) ==
  bf_is_finite(a) /\ bf_len(a) > 0 /\ Pow(DecMantissa(a), 10, DecScale(a) + u) = Pow(n, 10, -(DecScale(a) + u))
DecDelivers(x, sign, N, D, prec, flags) ==
  LET E == RadixExponent(N, D, 10)
      p == IF flags.radpnt THEN E + prec ELSE prec
      u == p - E
      n == DigitsOf(sign, N, D, 10, u, flags.rnd)
      e == RadixExponent(n, 1, 10) - u
      exact == Shifted(N, D, 10, u)
      inexact == exact.num % exact.den # 0
      tiny == n = 0 \/ (p > 0 /\ e < e_min(flags))
  IN /\ DecWellFormed(x.r)
     /\ x.r.sign = sign
     /\ IF tiny THEN bf_is_zero(x.r) /\ x.st = {"UNDERFLOW", "INEXACT"}
        ELSE IF p <= 0 THEN DecSame(x.r, n, u) /\ x.st = {"UNDERFLOW", "INEXACT"}
        ELSE IF e > e_max(flags) THEN x.r.expn = BF_EXP_INF /\ x.st = {"OVERFLOW", "INEXACT"}
        ELSE DecSame(x.r, n, u) /\ x.st = (IF inexact THEN {"INEXACT"} ELSE {})
DecExact(x, v, k, prec, flags) ==
  IF v = 0 THEN x.st = {} /\ x.r = bf_zero(Bit(flags.rnd = "RNDD"))
  ELSE IF prec = BF_PREC_INF
  THEN x.st = {} /\ DecWellFormed(x.r) /\ x.r.sign = Bit(v < 0) /\ DecSame(x.r, Abs(v), k)
  ELSE DecDelivers(x, Bit(v < 0), Abs(v), 10^k, prec, flags)

DecRoundRounds(a, k, prec, flags) ==
  prec # BF_PREC_INF => DecDelivers(bfdec_round(a, prec, flags), a.sign, DecFixed(a, k), 10^k, prec, flags)
DecAddRounds(a, b, k, prec, flags) ==
  LET va == DecScaled(a, k)
      vb == DecScaled(b, k)
  IN DecExact(bfdec_add(a, b, prec, flags), va + vb, k, prec, flags)
     /\ DecExact(bfdec_sub(a, b, prec, flags), va - vb, k, prec, flags)
DecMulRounds(a, b, prec, flags) ==
  DecExact(bfdec_mul(a, b, prec, flags), SignOf(a) * SignOf(b) * DecMantissa(a) * DecMantissa(b),
           -(DecScale(a) + DecScale(b)), prec, flags)
DecDivRounds(a, b, k, prec, flags) ==
  prec # BF_PREC_INF =>
  DecDelivers(bfdec_div(a, b, prec, flags), (a.sign + b.sign) % 2, DecFixed(a, k), DecFixed(b, k), prec, flags)
DecDivremExact(a, b, k, rnd) ==
  LET d == bfdec_divrem(a, b, BF_PREC_INF, Flags("RNDZ"), rnd)
      va == DecScaled(a, k)
      vb == DecScaled(b, k)
      q == Quotient(va, vb, rnd)
  IN DecWellFormed(d.q) /\ DecWellFormed(d.r) /\ DecScaled(d.q, 2) = q * 100 /\ DecScaled(d.r, k + 2) = 100 * (va - q * vb)
DecSqrtRounds(a, k, prec, flags) ==
  LET w == DecFixed(a, k)
      root == Root(w, Bits(w))
      exact == root * root = w
  IN a.sign = 0
     => DecDelivers(bfdec_sqrt(a, prec, flags), 0, 10 * root + Bit(~exact), 10^(1 + (k \div 2)), prec, flags)
DecIntExact(a, k, w, digits) ==
  LET v == SignOf(a) * (DecFixed(a, k) \div 10^k)
      max == 2^(w - 1) - 1
      fits == v \in (-max - 1)..max
  IN bfdec_get_int32(a, w, digits) = [v |-> IF fits THEN v ELSE IF v < 0 THEN -max - 1 ELSE max,
                                      st |-> IF fits THEN {} ELSE {"OVERFLOW"}]
(* A decimal number reads back from its digits, and is printed with a      *)
(* given number of digits rounded once.                                    *)
DecReadsBack(a, k, P, rnd) ==
  LET fixed == bfdec_ftoa(a, P, Flags(rnd), "FIXED", TRUE)
      frac == bfdec_ftoa(a, P, Flags(rnd), "FRAC", FALSE)
      u == P - RadixExponent(DecFixed(a, k), 10^k, 10)
  IN /\ \A exp \in BOOLEAN : bfdec_atof(bfdec_ftoa(a, P, Flags(rnd), "FREE", exp), BF_PREC_INF, Flags(rnd)) = Res(a, {})
     /\ Len(fixed.ip \o fixed.fp) = P /\ Stands(fixed, 10, DigitsOf(a.sign, DecFixed(a, k), 10^k, 10, u, rnd), u)
     /\ Len(frac.fp) = P /\ Stands(frac, 10, DigitsOf(a.sign, DecFixed(a, k), 10^k, 10, P, rnd), P)
===============================================================================
