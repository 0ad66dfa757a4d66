------------------------------- MODULE BigFloat -------------------------------
(***************************************************************************)
(* Multiprecision arithmetic of libbf.c: naturals as arrays of limbs, the  *)
(* least significant first, in base 2^LIMB_BITS (the mp_ functions) or in  *)
(* base BF_DEC_BASE = 10^LIMB_DIGITS (the mp_..._dec functions).  A limb   *)
(* and a double limb keep their width: sums, differences and products wrap *)
(* as the C types do.  An array is a sequence; the element tab[i] of the   *)
(* code is tab[i + 1] here.  A function that writes arrays returns them,   *)
(* as the fields of a record when there is more than one.                  *)
(***************************************************************************)
EXTENDS Integers, Sequences, SequencesExt, Bitwise, FiniteSets

CONSTANTS LIMB_BITS,               \* bits of a limb
          LIMB_DIGITS,             \* decimal digits of a decimal limb
          UDIV1NORM_THRESHOLD,     \* limbs from which a division by a limb multiplies
          DIVNORM_LARGE_THRESHOLD  \* limbs from which a division uses a reciprocal

B == 2^LIMB_BITS
BF_DEC_BASE == 10^LIMB_DIGITS
Limb == 0..(B - 1)

(* Arithmetic of limb_t and dlimb_t.                                       *)
L(x) == x % B
DL(x) == x % (B * B)
Bit(p) == IF p THEN 1 ELSE 0
All1(p) == IF p THEN B - 1 ELSE 0
Negative(x) == x >= B \div 2

(* Arrays.                                                                 *)
Zeros(n) == [i \in 1..n |-> 0]
Part(t, from, n) == SubSeq(t, from + 1, from + n)
Put(t, from, s) == SubSeq(t, 1, from) \o s \o SubSeq(t, from + Len(s) + 1, Len(t))
At(t, i) == t[i + 1]
Down(n) == [i \in 1..n |-> n + 1 - i]

(* The natural an array stands for in base b.                              *)
RECURSIVE Value(_, _)
Value(t, b) == IF t = <<>> THEN 0 ELSE Head(t) + b * Value(Tail(t), b)
RECURSIVE ToLimbs(_, _, _)
ToLimbs(v, b, n) == IF n = 0 THEN <<>> ELSE <<v % b>> \o ToLimbs(v \div b, b, n - 1)

(* Loops that produce one limb and a carry at each index, upwards from the  *)
(* least significant limb or downwards from the most significant.          *)
Sweep(step(_, _), k0, n) ==
  LET RECURSIVE go(_)
      go(s) == IF Len(s.r) = n THEN s
               ELSE LET x == step(Len(s.r) + 1, s.k) IN go([r |-> Append(s.r, x[1]), k |-> x[2]])
  IN go([r |-> <<>>, k |-> k0])
SweepDown(step(_, _), k0, n) ==
  LET RECURSIVE go(_)
      go(s) == IF Len(s.r) = n THEN s
               ELSE LET x == step(n - Len(s.r), s.k) IN go([r |-> <<x[1]>> \o s.r, k |-> x[2]])
  IN go([r |-> <<>>, k |-> k0])
(* Other loops: the state after step for each element of is.  The test of  *)
(* s has TLC evaluate it before the next step.                             *)
ForEach(step(_, _), s0, is) ==
  LET RECURSIVE go(_, _)
      go(i, s) == IF s \in {s} /\ i <= Len(is) THEN go(i + 1, step(s, is[i])) ELSE s
  IN go(1, s0)

(* v, with the elements of xs evaluated in turn and not within each other. *)
InTurn(xs, v) == IF Len(xs) > 0 THEN v ELSE v

clz(a) == IF a = 0 THEN LIMB_BITS ELSE CHOOSE n \in 0..(LIMB_BITS - 1) : a \in 2^(LIMB_BITS - 1 - n)..(2^(LIMB_BITS - n) - 1)
ctz(a) == IF a = 0 THEN LIMB_BITS ELSE CHOOSE n \in 0..(LIMB_BITS - 1) : a % 2^n = 0 /\ (a \div 2^n) % 2 = 1
RECURSIVE ceil_log2(_)
ceil_log2(a) == IF a <= 1 THEN 0 ELSE 1 + ceil_log2((a + 1) \div 2)
ceil_div(a, b) == -((-a) \div b)
floor_div(a, b) == a \div b
smod(a, b) == a % b

mp_scan_nz(t, n) == \E i \in 1..n : t[i] # 0

(***************************************************************************)
(* Addition, subtraction, multiplication.                                  *)
(***************************************************************************)
AddLimb(v, w, k) == LET a == L(v + w) IN <<L(a + k), Bit(L(a + k) < k \/ a < v)>>
SubLimb(v, w, k) == LET a == L(v - w) IN <<L(a - k), Bit(L(a - k) > a \/ a > v)>>

mp_add(op1, op2, n, carry) == Sweep(LAMBDA i, k : AddLimb(op1[i], op2[i], k), carry, n)
mp_add_ui(tab, b, n) ==
  Sweep(LAMBDA i, k : IF k = 0 THEN <<tab[i], 0>> ELSE <<L(tab[i] + k), Bit(L(tab[i] + k) < k)>>, b, n)
mp_sub(op1, op2, n, carry) == Sweep(LAMBDA i, k : SubLimb(op1[i], op2[i], k), carry, n)
mp_neg(op2, n, carry) == Sweep(LAMBDA i, k : SubLimb(0, op2[i], k), carry, n)
mp_sub_ui(tab, b, n) ==
  Sweep(LAMBDA i, k : <<L(tab[i] - k), Bit(L(tab[i] - k) > tab[i])>>, b, n)
mp_shr(tab, n, shift, high) ==
  LET s == SweepDown(LAMBDA i, l : <<(tab[i] \div 2^shift) + L(l * 2^(LIMB_BITS - shift)), tab[i]>>, high, n)
  IN [r |-> s.r, k |-> s.k % 2^shift]
mp_mul1(taba, n, b, l) ==
  Sweep(LAMBDA i, k : LET t == DL(taba[i] * b + k) IN <<L(t), t \div B>>, l, n)
mp_add_mul1(tabr, taba, n, b) ==
  Sweep(LAMBDA i, k : LET t == DL(taba[i] * b + k + tabr[i]) IN <<L(t), t \div B>>, 0, n)
mp_sub_mul1(tabr, taba, n, b) ==
  Sweep(LAMBDA i, k : LET t == DL(tabr[i] - taba[i] * b - k) IN <<L(t), L(-(t \div B))>>, 0, n)

mp_mul_basecase(op1, n1, op2, n2) ==
  LET first == mp_mul1(op1, n1, op2[1], 0)
      row(t, i) == LET x == mp_add_mul1(Part(t, i - 1, n1), op1, n1, op2[i])
                   IN Put(t, i - 1, Append(x.r, x.k))
  IN ForEach(row, Put(Zeros(n1 + n2), 0, Append(first.r, first.k)), [i \in 1..(n2 - 1) |-> i + 1])
mp_mul(op1, n1, op2, n2) == mp_mul_basecase(op1, n1, op2, n2)
mp_cmp(a, b, n) ==
  LET d == {i \in 1..n : a[i] # b[i]}
  IN IF d = {} THEN 0 ELSE LET i == CHOOSE x \in d : \A y \in d : y <= x IN IF a[i] < b[i] THEN -1 ELSE 1

(***************************************************************************)
(* Division.                                                               *)
(***************************************************************************)
udiv1norm_init(d) == (L(-d - 1) * B + (B - 1)) \div d
udiv1norm(a1, a0, d, d_inv) ==
  LET n1m == All1(Negative(a0))
      n_adj == L(a0 + (n1m & d))
      a == DL(d_inv * L(a1 - n1m) + n_adj)
      q == L((a \div B) + a1)
      rest == DL(a1 * B + a0 - q * d - d)
      ah == rest \div B
  IN <<L(q + 1 + ah), L(L(rest) + (ah & d))>>
mp_div1norm(taba, n, b, r) ==
  IF n >= UDIV1NORM_THRESHOLD
  THEN SweepDown(LAMBDA i, k : udiv1norm(k, taba[i], b, udiv1norm_init(b)), r, n)
  ELSE SweepDown(LAMBDA i, k : <<L((k * B + taba[i]) \div b), (k * B + taba[i]) % b>>, r, n)

(* Add the divisor back until the partial remainder is no longer negative. *)
RECURSIVE AddBack(_, _, _, _, _)
AddBack(taba, tabb, i, nb, q) ==
  LET x == mp_add(Part(taba, i, nb), tabb, nb, 0)
      high == L(At(taba, i + nb) + x.k)
      t == Put(taba, i, Append(x.r, high))
  IN IF x.k # 0 /\ high = 0 THEN [a |-> t, q |-> L(q - 1)] ELSE AddBack(t, tabb, i, nb, L(q - 1))
(* A quotient digit that is too large is kept.                             *)
MutQuotientDigit(taba, tabb, i, nb, b1_inv) ==
  LET v == At(taba, i + nb)
      q == IF v >= tabb[nb] THEN B - 1 ELSE (v * B + At(taba, i + nb - 1)) \div tabb[nb]
      x == mp_sub_mul1(Part(taba, i, nb), tabb, nb, q)
  IN [a |-> Put(taba, i, Append(x.r, L(v - x.k))), q |-> q]
QuotientDigit(taba, tabb, i, nb, b1_inv) ==
  LET b1 == tabb[nb]
      hi == At(taba, i + nb)
      lo == At(taba, i + nb - 1)
      q == IF hi >= b1 THEN B - 1
           ELSE IF b1_inv # 0 THEN udiv1norm(hi, lo, b1, b1_inv)[1]
           ELSE (hi * B + lo) \div b1
      x == mp_sub_mul1(Part(taba, i, nb), tabb, nb, q)
      t == Put(taba, i, Append(x.r, L(hi - x.k)))
  IN IF L(hi - x.k) > hi THEN AddBack(t, tabb, i, nb, q) ELSE [a |-> t, q |-> q]

RECURSIVE mp_divnorm(_, _, _, _), mp_recip(_, _), Reduce(_, _, _, _)
(* The quotient in q, the remainder in the low nb limbs of a.              *)
mp_divnorm_base(taba, na, tabb, nb) ==
  LET n == na - nb
      b1_inv == IF n >= UDIV1NORM_THRESHOLD THEN udiv1norm_init(tabb[nb]) ELSE 0
      top == mp_cmp(Part(taba, n, nb), tabb, nb) >= 0
      a0 == IF top THEN Put(taba, n, mp_sub(Part(taba, n, nb), tabb, nb, 0).r) ELSE taba
      digit(s, i) == LET d == QuotientDigit(s.a, tabb, i - 1, nb, b1_inv)
                     IN [a |-> d.a, q |-> [s.q EXCEPT ![i] = d.q]]
  IN ForEach(digit, [a |-> a0, q |-> Append(Zeros(n), Bit(top))], Down(n))

(* B^(2n) / a for a normalised a of n limbs, a little too small.           *)
mp_recip(taba, n) ==
  IF n <= 2
  THEN LET d == mp_divnorm(Append(Zeros(2 * n), 1), 2 * n + 1, taba, n)
           r == Part(d.q, 0, n + 1)
       IN IF mp_scan_nz(d.a, n) THEN r ELSE mp_sub_ui(r, 1, n + 1).r
  ELSE LET l == (n - 1) \div 2
           h == n - l
           adj == Reduce(mp_recip(Part(taba, l, h), h), taba, n, h)
           neg == mp_neg(adj.t, n + h + 1, 0).r
           t == [neg EXCEPT ![n + h + 1] = L(@ + 1)]
           u == mp_mul(Part(t, l, n + h + 1 - l), n + h + 1 - l, adj.x, h + 1)
           high == mp_add(Part(adj.x, 0, h), Part(u, 2 * h, h), h, 0)
       IN InTurn(<<adj, t, u, high>>, Part(u, 2 * h - l, l) \o high.r \o <<At(adj.x, h)>>)
(* Lower the reciprocal of the high part until its product with a fits.    *)
Reduce(xh, taba, n, h) ==
  LET step(s) == LET c == mp_sub(Part(s.t, 0, n), taba, n, 0)
                     d == mp_sub_ui(Part(s.t, n, h + 1), c.k, h + 1)
                 IN [x |-> mp_sub_ui(s.x, 1, h + 1).r, t |-> c.r \o d.r]
      RECURSIVE loop(_)
      loop(s) == IF At(s.t, n + h) # 0 THEN loop(step(s)) ELSE s
  IN loop([x |-> xh, t |-> mp_mul(taba, n, xh, h + 1)])

(* Raise a quotient that is too small until the remainder is below b.      *)
RECURSIVE RaiseQuotient(_, _, _, _)
RaiseQuotient(s, tabb, nb, nq) ==
  IF At(s.a, nb) = 0 /\ mp_cmp(s.a, tabb, nb) < 0 THEN s
  ELSE LET x == mp_sub(Part(s.a, 0, nb), tabb, nb, 0)
       IN RaiseQuotient([a |-> Put(s.a, 0, Append(x.r, L(At(s.a, nb) - x.k))),
                         q |-> mp_add_ui(s.q, 1, nq + 1).r], tabb, nb, nq)
RecipOperand(tabb, nb, n) == mp_add_ui(Part(tabb, nb - n, n), 1, n)
mp_divnorm_large(taba, na, tabb, nb) ==
  LET nq == na - nb
      n == IF nq < nb THEN nq + 1 ELSE nq
      cut == RecipOperand(tabb, nb, n)
      inv == IF n >= nb THEN mp_recip(Zeros(n - nb) \o tabb, n)
             ELSE IF cut.k # 0 THEN Append(Zeros(n), 1) ELSE mp_recip(cut.r, n)
      t == mp_mul(inv, n + 1, Part(taba, na - (n + 1), n + 1), n + 1)
      q == Part(t, 2 * (n + 1) - (nq + 1), nq + 1)
      a == mp_sub(taba, mp_mul(q, nq + 1, tabb, nb), nb + 1, 0).r
  IN InTurn(<<inv, t, a>>, RaiseQuotient([a |-> Put(taba, 0, a), q |-> q], tabb, nb, nq))

mp_divnorm(taba, na, tabb, nb) ==
  LET n == na - nb
      one == mp_div1norm(taba, na, tabb[1], 0)
  IN IF nb = 1 THEN [a |-> [taba EXCEPT ![1] = one.k], q |-> one.r]
     ELSE IF n >= DIVNORM_LARGE_THRESHOLD /\ nb >= DIVNORM_LARGE_THRESHOLD
     THEN mp_divnorm_large(taba, na, tabb, nb)
     ELSE mp_divnorm_base(taba, na, tabb, nb)

(***************************************************************************)
(* Square root with remainder.                                             *)
(***************************************************************************)
(* The root of one limb: tabulated for eight bits and doubled by Newton    *)
(* steps in the code.                                                      *)
mp_sqrtrem1(a) == LET s == CHOOSE x \in 0..a : x * x <= a /\ (x + 1) * (x + 1) > a IN <<s, a - s * s>>
bf_isqrt(a) == LET k == (clz(a) \div 2) * 2 IN IF a = 0 THEN 0 ELSE mp_sqrtrem1(L(a * 2^k))[1] \div 2^(k \div 2)
mp_sqrtrem2(taba) ==
  LET s1 == mp_sqrtrem1(taba[2])
      l == LIMB_BITS \div 2
      num == DL(s1[2] * 2^l + (taba[1] \div 2^l))
      q == num \div (2 * s1[1])
      u == num % (2 * s1[1])
      s == L(s1[1] * 2^l + q)
      r == DL(u * 2^l + (taba[1] % 2^l) - (IF q \div 2^l # 0 THEN B ELSE q * q))
      low == Negative(r \div B)
      rr == IF low THEN DL(r + 2 * L(s - 1) + 1) ELSE r
  IN [s |-> <<IF low THEN L(s - 1) ELSE s>>, r |-> L(rr), h |-> rr \div B]

RECURSIVE mp_sqrtrem_rec(_, _)
mp_sqrtrem_rec(taba, n) ==
  IF n = 1 THEN LET x == mp_sqrtrem2(taba) IN [s |-> x.s, a |-> Put(taba, 0, <<x.r>>), h |-> x.h]
  ELSE
  LET l == n \div 2
      h == n - l
      hi == mp_sqrtrem_rec(Part(taba, 2 * l, 2 * h), h)
      a1 == Put(taba, 2 * l, IF hi.h # 0 THEN mp_sub(Part(hi.a, 0, h), hi.s, h, 0).r ELSE Part(hi.a, 0, h))
      d == mp_divnorm(Part(a1, l, n), n, hi.s, h)
      qh == hi.h + At(d.q, l)
      half == mp_shr(Part(d.q, 0, l), l, 1, qh % 2)
      u == IF half.k # 0 THEN mp_add(Part(d.a, 0, h), hi.s, h, 0) ELSE [r |-> Part(d.a, 0, h), k |-> 0]
      s2 == half.r \o mp_add_ui(hi.s, qh \div 2, h).r
      a2 == Put(a1, l, u.r)
      sq == IF qh \div 2 # 0 THEN [r |-> Part(a2, 0, 2 * l), k |-> qh \div 2]
            ELSE mp_sub(Part(a2, 0, 2 * l), mp_mul(half.r, l, half.r, l), 2 * l, 0)
      top == mp_sub_ui(Part(a2, 2 * l, n - 2 * l), sq.k, n - 2 * l)
      a3 == Put(Put(a2, 0, sq.r), 2 * l, top.r)
      rh == L(u.k - top.k)
      s3 == mp_sub_ui(s2, 1, n).r
      fix == mp_add_mul1(Part(a3, 0, n), s3, n, 2)
      one == mp_add_ui(fix.r, 1, n)
  IN InTurn(<<hi, a1, d, half, u, a2, sq, a3>>,
            IF Negative(rh) THEN [s |-> s3, a |-> Put(a3, 0, one.r), h |-> L(rh + fix.k + one.k)]
            ELSE [s |-> s2, a |-> a3, h |-> rh])
mp_sqrtrem(taba, n) == LET x == mp_sqrtrem_rec(taba, n) IN [s |-> x.s, a |-> Put(x.a, n, <<x.h>>)]
-----------------------------------------------------------------------------
(***************************************************************************)
(* The arbitrary precision binary floating point numbers of libbf.c, which *)
(* carry the BigInt and BigFloat values of the engine.  A number is a      *)
(* sign, an exponent and a mantissa 0.m in an array of limbs whose most    *)
(* significant bit is set; zero, the infinities and NaN are reserved       *)
(* exponents with an empty mantissa.  An operation takes a precision and   *)
(* flags (the rounding mode, the exponent range, BF_FLAG_SUBNORMAL,        *)
(* BF_FLAG_RADPNT_PREC) and returns a number r and the status flags st.    *)
(* Memory always suffices: BF_ST_MEM_ERROR is left out.                    *)
(***************************************************************************)

CONSTANTS BF_EXT_EXP_BITS_MAX,   \* widest exponent range
          FLOAT_EXP_BITS         \* exponent bits of a double

BF_EXP_ZERO == -2^BF_EXT_EXP_BITS_MAX
BF_EXP_INF == 2^BF_EXT_EXP_BITS_MAX - 1
BF_EXP_NAN == 2^BF_EXT_EXP_BITS_MAX
BF_PREC_INF == 2^BF_EXT_EXP_BITS_MAX

RoundingModes == {"RNDN", "RNDZ", "RNDD", "RNDU", "RNDNA", "RNDA", "RNDF"}
Flags(rnd) == [rnd |-> rnd, sub |-> FALSE, radpnt |-> FALSE, e |-> BF_EXT_EXP_BITS_MAX]

BF(sign, expn, tab) == [sign |-> sign, expn |-> expn, tab |-> tab]
Res(r, st) == [r |-> r, st |-> st]
bf_nan == BF(0, BF_EXP_NAN, <<>>)
bf_zero(is_neg) == BF(is_neg, BF_EXP_ZERO, <<>>)
bf_inf(is_neg) == BF(is_neg, BF_EXP_INF, <<>>)
bf_len(a) == Len(a.tab)
bf_is_finite(a) == a.expn < BF_EXP_INF
bf_is_zero(a) == a.expn = BF_EXP_ZERO
bf_neg(a) == [a EXCEPT !.sign = 1 - @]
bf_set_ui(a) ==
  IF a = 0 THEN bf_zero(0) ELSE BF(0, LIMB_BITS - clz(a), <<L(a * 2^clz(a))>>)
bf_set_si(a) == IF a < 0 THEN bf_neg(bf_set_ui(-a)) ELSE bf_set_ui(a)

(* Reading limbs and bits outside the array yields zero.                   *)
LimbAt(tab, i) == IF i >= 0 /\ i < Len(tab) THEN At(tab, i) ELSE 0
get_limbz(a, idx) == LimbAt(a.tab, idx)
get_bits(tab, pos) ==
  LET i == pos \div LIMB_BITS
      p == pos % LIMB_BITS
  IN IF p = 0 THEN LimbAt(tab, i)
     ELSE (LimbAt(tab, i) \div 2^p) + L(LimbAt(tab, i + 1) * 2^(LIMB_BITS - p))
get_bit(tab, pos) == (LimbAt(tab, pos \div LIMB_BITS) \div 2^(pos % LIMB_BITS)) % 2
limb_mask(start, last) == L(2^(last + 1) - 2^start)
scan_bit_nz(tab, bit_pos) ==
  LET pos == bit_pos \div LIMB_BITS
  IN pos >= 0 /\ ((At(tab, pos) & limb_mask(0, bit_pos % LIMB_BITS)) # 0 \/ mp_scan_nz(tab, pos))

(***************************************************************************)
(* Rounding.                                                               *)
(***************************************************************************)
StickyFrom(l, prec) == l * LIMB_BITS - 1 - (IF prec + 1 > 0 THEN prec + 1 ELSE 0)
bf_get_rnd_add(r, l, prec, rnd) ==
  LET bit0 == rnd = "RNDF" \/ scan_bit_nz(r.tab, StickyFrom(l, prec))
      bit1 == get_bit(r.tab, l * LIMB_BITS - 1 - prec) = 1
      inexact == bit0 \/ bit1
      even == get_bit(r.tab, l * LIMB_BITS - 1 - (prec - 1)) = 0
  IN [inexact |-> inexact,
      add_one |-> CASE rnd = "RNDZ" -> FALSE
                    [] rnd = "RNDN" -> bit1 /\ (bit0 \/ ~even)
                    [] rnd = "RNDD" -> r.sign = 1 /\ inexact
                    [] rnd = "RNDU" -> r.sign = 0 /\ inexact
                    [] rnd = "RNDA" -> inexact
                    [] OTHER -> bit1]
e_range(flags) == 2^(flags.e - 1)
e_min(flags) == 3 - e_range(flags)
e_max(flags) == e_range(flags)
bf_set_overflow(sign, prec, flags) ==
  LET l == (prec + LIMB_BITS - 1) \div LIMB_BITS
  IN Res(IF prec = BF_PREC_INF \/ flags.rnd \in {"RNDN", "RNDNA", "RNDA"}
              \/ (flags.rnd = "RNDD" /\ sign = 1) \/ (flags.rnd = "RNDU" /\ sign = 0)
         THEN bf_inf(sign)
         ELSE BF(sign, e_max(flags),
                 <<>> \o [i \in 1..l |-> IF i = 1 THEN limb_mask((-prec) % LIMB_BITS, LIMB_BITS - 1) ELSE B - 1]),
         {"OVERFLOW", "INEXACT"})
RoundPrec(r, prec1, flags) ==
  IF flags.radpnt THEN IF prec1 # BF_PREC_INF THEN r.expn + prec1 ELSE prec1
  ELSE IF r.expn < e_min(flags) /\ flags.sub THEN prec1 - (e_min(flags) - r.expn)
  ELSE prec1
(* Add one at the bit of weight bit_pos; a carry out of the mantissa       *)
(* shifts it right by one.                                                 *)
AddUlp(r, l, bit_pos) ==
  LET pos == bit_pos \div LIMB_BITS
      x == mp_add_ui(Part(r.tab, pos, l - pos), 2^(bit_pos % LIMB_BITS), l - pos)
      y == IF x.k # 0 THEN mp_shr(x.r, l - pos, 1, 1).r ELSE x.r
  IN [r EXCEPT !.tab = Put(@, pos, y), !.expn = @ + x.k]
(* Keep the limbs from the first nonzero one, at or above limb i.          *)
DropZeroLimbs(tab, l, i) ==
  LET z == CHOOSE j \in i..(l - 1) : At(tab, j) # 0 /\ \A k \in i..(j - 1) : At(tab, k) = 0
  IN Part(tab, z, l - z)
KeepBits(tab, l, bit_pos) ==
  LET i == bit_pos \div LIMB_BITS
      mask == limb_mask(bit_pos % LIMB_BITS, LIMB_BITS - 1)
  IN IF i >= 0 THEN DropZeroLimbs([tab EXCEPT ![i + 1] = @ & mask], l, i) ELSE DropZeroLimbs(tab, l, 0)
__bf_round(r, prec1, flags, l, ret) ==
  LET prec == RoundPrec(r, prec1, flags)
      add == bf_get_rnd_add(r, l, prec, flags.rnd)
      st == ret \cup (IF add.inexact THEN {"INEXACT"} ELSE {})
      bit_pos == l * LIMB_BITS - prec
      r1 == IF add.add_one THEN AddUlp(r, l, bit_pos) ELSE r
      low == r1.expn < e_min(flags)
  IN IF prec <= 0 /\ add.add_one
     THEN Res(BF(r.sign, r.expn + 1 - prec, <<2^(LIMB_BITS - 1)>>), st \cup {"UNDERFLOW", "INEXACT"})
     ELSE IF prec <= 0 \/ (low /\ ~flags.sub)
     THEN Res(bf_zero(r.sign), st \cup {"UNDERFLOW", "INEXACT"})
     ELSE IF r1.expn > e_max(flags) THEN bf_set_overflow(r.sign, prec1, flags)
     ELSE Res([r1 EXCEPT !.tab = KeepBits(@, l, bit_pos)],
              st \cup (IF low /\ "INEXACT" \in st THEN {"UNDERFLOW"} ELSE {}))
bf_normalize_and_round(r, prec1, flags) ==
  LET nz == {i \in DOMAIN r.tab : r.tab[i] # 0}
      l == CHOOSE i \in nz : \A j \in nz : j <= i
      shift == clz(r.tab[l])
      shifted == [i \in 1..l |-> L(r.tab[i] * 2^shift) + ((IF i = 1 THEN 0 ELSE r.tab[i - 1]) \div 2^(LIMB_BITS - shift))]
  IN IF nz = {} THEN Res(bf_zero(r.sign), {})
     ELSE __bf_round(BF(r.sign, r.expn - (bf_len(r) - l) * LIMB_BITS - shift, <<>> \o shifted), prec1, flags, l, {})
bf_round(r, prec, flags) == IF bf_len(r) = 0 THEN Res(r, {}) ELSE __bf_round(r, prec, flags, bf_len(r), {})
bf_rint(r, rnd) == bf_round(r, 0, [Flags(rnd) EXCEPT !.radpnt = TRUE])
(* Is an approximation of k good bits enough to round to prec bits?        *)
bf_can_round(a, prec, rnd, k) ==
  LET bit_pos == bf_len(a) * LIMB_BITS - 1 - prec
      is_rndn == rnd \in {"RNDN", "RNDNA"}
      first == get_bit(a.tab, bit_pos)
      bit == IF is_rndn THEN 1 - first ELSE first
  IN /\ a.expn < BF_EXP_INF
     /\ \/ rnd = "RNDF" /\ k >= prec + 1
        \/ /\ rnd # "RNDF" /\ ~bf_is_zero(a) /\ k >= prec + 2
           /\ \E i \in 1..(k - prec - 1) : get_bit(a.tab, bit_pos - i) # bit

(***************************************************************************)
(* Comparison.                                                             *)
(***************************************************************************)
bf_cmpu(a, b) ==
  LET len == IF bf_len(a) > bf_len(b) THEN bf_len(a) ELSE bf_len(b)
      aligned(x) == Zeros(len - bf_len(x)) \o x.tab
  IN IF a.expn # b.expn THEN IF a.expn < b.expn THEN -1 ELSE 1
     ELSE mp_cmp(aligned(a), aligned(b), len)
FlipIf(a, res) == IF a.sign = 1 THEN -res ELSE res
bf_cmp_full(a, b) ==
  IF a.expn = BF_EXP_NAN \/ b.expn = BF_EXP_NAN
  THEN Bit(a.expn = BF_EXP_NAN) - Bit(b.expn = BF_EXP_NAN)
  ELSE IF a.sign # b.sign THEN 1 - 2 * a.sign
  ELSE FlipIf(a, bf_cmpu(a, b))
bf_cmp(a, b) ==
  IF a.expn = BF_EXP_NAN \/ b.expn = BF_EXP_NAN THEN 2
  ELSE IF a.sign # b.sign
  THEN IF bf_is_zero(a) /\ bf_is_zero(b) THEN 0 ELSE 1 - 2 * a.sign
  ELSE FlipIf(a, bf_cmpu(a, b))

(***************************************************************************)
(* Addition.                                                               *)
(***************************************************************************)
(* Leading bits that a - b loses, for a > b and exponents one apart at     *)
(* most: equal bits, one differing bit, then zeros in a under ones in b.   *)
count_cancelled_bits(a, b) ==
  LET b_offset == (bf_len(b) - bf_len(a)) * LIMB_BITS - (LIMB_BITS - 1) + a.expn - b.expn
      top == bf_len(a) * LIMB_BITS - 1
      v1(k) == get_limbz(a, (top - k * LIMB_BITS) \div LIMB_BITS)
      v2(k) == get_bits(b.tab, top - k * LIMB_BITS + b_offset)
      span == bf_len(a) + bf_len(b) + 1
      first == CHOOSE k \in 0..span : v1(k) # v2(k) /\ \A j \in 0..(k - 1) : v1(j) = v2(j)
      p == clz(v1(first) ^^ v2(first)) + 1
      rest == LIMB_BITS - p
      mask == limb_mask(0, rest - 1)
      min(x, y) == IF x < y THEN x ELSE y
      p1 == min(clz(v1(first) & mask), clz((B - 1 - v2(first)) & mask)) - p
      next == CHOOSE k \in (first + 1)..(span + 1) : (v1(k) # 0 \/ v2(k) # B - 1)
                                                 /\ \A j \in (first + 1)..(k - 1) : v1(j) = 0 /\ v2(j) = B - 1
  IN IF rest > 0 /\ p1 # rest THEN first * LIMB_BITS + p + p1
     ELSE next * LIMB_BITS + min(clz(v1(next)), clz(B - 1 - v2(next)))
CancelledBits(a, b, is_sub) ==
  IF ~is_sub THEN 0 ELSE IF a.expn - b.expn <= 1 THEN count_cancelled_bits(a, b) ELSE 1

(* The limbs below the result, of which only the carry and whether any is  *)
(* nonzero are kept.  The gap between the operands is skipped in one step. *)
RECURSIVE AddLow(_, _, _, _, _, _)
AddLow(a, b, a_offset, b_bit_offset, mask, s) ==
  IF s.i >= 0 THEN s ELSE
  LET ap == a_offset + s.i
      bp == b_bit_offset + s.i * LIMB_BITS
      in_a == ap >= 0 /\ ap < bf_len(a)
      in_b == bp + LIMB_BITS > 0 /\ bp < bf_len(b) * LIMB_BITS
      v1 == IF in_a THEN At(a.tab, ap) ELSE 0
      v2 == (IF in_b THEN get_bits(b.tab, bp) ELSE 0) ^^ mask
      x == AddLimb(v1, v2, s.k)
      jumps == {0} \cup (IF ap < 0 THEN {-a_offset} ELSE {})
                   \cup (IF bp + LIMB_BITS <= 0 THEN {(-b_bit_offset) \div LIMB_BITS} ELSE {})
      next == IF in_a \/ in_b THEN s.i + 1 ELSE CHOOSE j \in jumps : \A k \in jumps : j <= k
  IN AddLow(a, b, a_offset, b_bit_offset, mask, [i |-> next, k |-> x[2], z |-> s.z \/ x[1] # 0])
AddMantissas(a, b, sign, is_sub, prec) ==
  LET d == a.expn - b.expn
      precl == (CancelledBits(a, b, is_sub) + prec + 2 + LIMB_BITS - 1) \div LIMB_BITS
      reach == bf_len(b) + (d + LIMB_BITS - 1) \div LIMB_BITS
      tot_len == IF bf_len(a) > reach THEN bf_len(a) ELSE reach
      r_len == IF precl < tot_len THEN precl ELSE tot_len
      a_offset == bf_len(a) - r_len
      b_bit_offset == (bf_len(b) - r_len) * LIMB_BITS + d
      mask == All1(is_sub)
      low == AddLow(a, b, a_offset, b_bit_offset, mask, [i |-> r_len - tot_len, k |-> Bit(is_sub), z |-> FALSE])
      sum == Sweep(LAMBDA i, k : AddLimb(get_limbz(a, a_offset + i - 1),
                                         get_bits(b.tab, b_bit_offset + (i - 1) * LIMB_BITS) ^^ mask, k), low.k, r_len)
      tab == [sum.r EXCEPT ![1] = @ | Bit(low.z)]
      carry == ~is_sub /\ sum.k # 0
  IN BF(sign, a.expn + (IF carry THEN LIMB_BITS ELSE 0), IF carry THEN Append(tab, 1) ELSE tab)
bf_add_internal(a0, b0, prec, flags, b_neg) ==
  LET b_sign == (b0.sign + b_neg) % 2
      is_sub == a0.sign # b_sign
      cmp_res == bf_cmpu(a0, b0)
      a == IF cmp_res < 0 THEN b0 ELSE a0
      b == IF cmp_res < 0 THEN a0 ELSE b0
      a_sign == IF cmp_res < 0 THEN b_sign ELSE a0.sign
  IN IF cmp_res = 0 /\ is_sub /\ a.expn < BF_EXP_INF THEN Res(bf_zero(Bit(flags.rnd = "RNDD")), {})
     ELSE IF a.expn = BF_EXP_NAN THEN Res(bf_nan, {})
     ELSE IF a.expn = BF_EXP_INF
     THEN IF b.expn = BF_EXP_INF /\ is_sub THEN Res(bf_nan, {"INVALID_OP"}) ELSE Res(bf_inf(a_sign), {})
     ELSE IF bf_len(a) = 0 \/ bf_len(b) = 0
     THEN bf_normalize_and_round([a EXCEPT !.sign = a_sign], prec, flags)
     ELSE bf_normalize_and_round(AddMantissas(a, b, a_sign, is_sub, prec), prec, flags)
bf_add(a, b, prec, flags) == bf_add_internal(a, b, prec, flags, 0)
bf_sub(a, b, prec, flags) == bf_add_internal(a, b, prec, flags, 1)
bf_add_si(a, b1, prec, flags) == bf_add(a, bf_set_si(b1), prec, flags)

(***************************************************************************)
(* Multiplication and division.                                            *)
(***************************************************************************)
bf_mul(a0, b0, prec, flags) ==
  LET swap == bf_len(a0) < bf_len(b0)
      a == IF swap THEN b0 ELSE a0
      b == IF swap THEN a0 ELSE b0
      sign == (a.sign + b.sign) % 2
      exps == {a.expn, b.expn}
      precl == (prec + 2 + LIMB_BITS - 1) \div LIMB_BITS
      top(x) == IF flags.rnd = "RNDF" /\ precl < bf_len(x) THEN Part(x.tab, bf_len(x) - precl, precl) ELSE x.tab
  IN IF bf_len(b) = 0
     THEN IF BF_EXP_NAN \in exps THEN Res(bf_nan, {})
          ELSE IF exps = {BF_EXP_INF, BF_EXP_ZERO} THEN Res(bf_nan, {"INVALID_OP"})
          ELSE Res(IF BF_EXP_INF \in exps THEN bf_inf(sign) ELSE bf_zero(sign), {})
     ELSE bf_normalize_and_round(BF(sign, a.expn + b.expn,
                                    mp_mul(top(a), Len(top(a)), top(b), Len(top(b)))), prec, flags)
bf_mul_ui(a, b1, prec, flags) == bf_mul(a, bf_set_ui(b1), prec, flags)
bf_mul_si(a, b1, prec, flags) == bf_mul(a, bf_set_si(b1), prec, flags)
bf_mul_2exp(r, e, prec, flags) ==
  LET e1 == IF e > BF_EXP_INF THEN BF_EXP_INF ELSE IF e < -BF_EXP_INF THEN -BF_EXP_INF ELSE e
  IN IF bf_len(r) = 0 THEN Res(r, {}) ELSE __bf_round([r EXCEPT !.expn = @ + e1], prec, flags, bf_len(r), {})
bf_get_exp_min(a) ==
  LET nz == {i \in DOMAIN a.tab : a.tab[i] # 0}
      i == CHOOSE x \in nz : \A y \in nz : x <= y
  IN IF nz = {} THEN 0 ELSE a.expn - (bf_len(a) + 1 - i) * LIMB_BITS + ctz(a.tab[i])
StickyLimb(tab, rest) == IF rest THEN [tab EXCEPT ![1] = @ | 1] ELSE tab
bf_div(a, b, prec, flags) ==
  LET sign == (a.sign + b.sign) % 2
      precl == (prec + 2 + LIMB_BITS - 1) \div LIMB_BITS
      nb == bf_len(b)
      n == IF bf_len(a) > precl THEN bf_len(a) ELSE precl
      na == n + nb
      d == mp_divnorm(Zeros(na - bf_len(a)) \o a.tab, na, b.tab, nb)
  IN IF a.expn = BF_EXP_NAN \/ b.expn = BF_EXP_NAN THEN Res(bf_nan, {})
     ELSE IF (a.expn = BF_EXP_INF /\ b.expn = BF_EXP_INF) \/ (bf_is_zero(a) /\ bf_is_zero(b))
     THEN Res(bf_nan, {"INVALID_OP"})
     ELSE IF a.expn = BF_EXP_INF THEN Res(bf_inf(sign), {})
     ELSE IF b.expn = BF_EXP_INF \/ bf_is_zero(a) THEN Res(bf_zero(sign), {})
     ELSE IF bf_is_zero(b) THEN Res(bf_inf(sign), {"DIVIDE_ZERO"})
     ELSE bf_normalize_and_round(BF(sign, a.expn - b.expn + LIMB_BITS, StickyLimb(d.q, mp_scan_nz(d.a, nb))), prec, flags)
bf_tdivremu(a, b) ==
  LET d == a.expn - b.expn + 1
      q == bf_rint(bf_div(a, b, IF d > 2 THEN d ELSE 2, Flags("RNDZ")).r, "RNDZ").r
      p == bf_mul(q, b, BF_PREC_INF, Flags("RNDZ")).r
  IN IF bf_cmpu(a, b) < 0 THEN [q |-> bf_zero(0), r |-> a]
     ELSE InTurn(<<q, p>>, [q |-> q, r |-> bf_sub(a, p, BF_PREC_INF, Flags("RNDZ")).r])
QuotientUp(q, r, b1, a_sign, q_sign, rnd_mode) ==
  LET res == bf_cmpu(r, [b1 EXCEPT !.expn = @ - 1])
  IN CASE rnd_mode \in {"RNDN", "RNDNA"} ->
          \/ res > 0
          \/ res = 0 /\ (rnd_mode = "RNDNA" \/ get_bit(q.tab, bf_len(q) * LIMB_BITS - q.expn) = 1)
       [] rnd_mode = "RNDD" -> q_sign = 1
       [] rnd_mode = "RNDU" -> q_sign = 0
       [] rnd_mode = "RNDA" -> TRUE
       [] rnd_mode = "EUCLIDIAN" -> a_sign = 1
       [] OTHER -> FALSE
bf_divrem(a, b, prec, flags, rnd_mode) ==
  LET q_sign == (a.sign + b.sign) % 2
      b1 == [b EXCEPT !.sign = 0]
      t == bf_tdivremu([a EXCEPT !.sign = 0], b1)
      up == bf_len(t.r) # 0 /\ QuotientUp(t.q, t.r, b1, a.sign, q_sign, rnd_mode)
      q == IF up THEN bf_add_si(t.q, 1, BF_PREC_INF, Flags("RNDZ")).r ELSE t.q
      r == IF up THEN bf_sub(t.r, b1, BF_PREC_INF, Flags("RNDZ")).r ELSE t.r
      x == bf_round([r EXCEPT !.sign = (@ + a.sign) % 2], prec, flags)
      y == bf_round(a, prec, flags)
      bad == bf_zero(0)
  IN IF bf_len(a) = 0 \/ bf_len(b) = 0
     THEN IF a.expn = BF_EXP_NAN \/ b.expn = BF_EXP_NAN THEN [q |-> bad, r |-> bf_nan, st |-> {}]
          ELSE IF a.expn = BF_EXP_INF \/ bf_is_zero(b) THEN [q |-> bad, r |-> bf_nan, st |-> {"INVALID_OP"}]
          ELSE [q |-> bad, r |-> y.r, st |-> y.st]
     ELSE [q |-> [q EXCEPT !.sign = q_sign], r |-> x.r, st |-> x.st]
bf_rem(a, b, prec, flags, rnd_mode) == LET d == bf_divrem(a, b, prec, flags, rnd_mode) IN Res(d.r, d.st)

(***************************************************************************)
(* Square root.                                                            *)
(***************************************************************************)
EvenExponent(a1, n, expn) == IF expn % 2 = 1 THEN mp_shr(a1, 2 * n, 1, 0) ELSE [r |-> a1, k |-> 0]
bf_sqrt(a, prec, flags) ==
  LET n == (2 * (prec + 2) + 2 * LIMB_BITS - 1) \div (2 * LIMB_BITS)
      n1 == IF 2 * n < bf_len(a) THEN 2 * n ELSE bf_len(a)
      sh == EvenExponent(Zeros(2 * n - n1) \o Part(a.tab, bf_len(a) - n1, n1), n, a.expn)
      x == mp_sqrtrem(sh.r, n)
      rest == sh.k # 0 \/ mp_scan_nz(x.a, n + 1) \/ mp_scan_nz(a.tab, bf_len(a) - n1)
  IN IF a.expn = BF_EXP_NAN THEN Res(bf_nan, {})
     ELSE IF a.sign = 1 /\ ~bf_is_zero(a) THEN Res(bf_nan, {"INVALID_OP"})
     ELSE IF bf_len(a) = 0 THEN Res(a, {})
     ELSE bf_round(BF(0, (a.expn + 1) \div 2, StickyLimb(x.s, rest)), prec, flags)
bf_sqrtrem(a) ==
  LET r == bf_rint(bf_sqrt(a, (a.expn + 1) \div 2, Flags("RNDZ")).r, "RNDZ").r
      rem == bf_add(bf_neg(bf_mul(r, r, BF_PREC_INF, Flags("RNDZ")).r), a, BF_PREC_INF, Flags("RNDZ")).r
  IN IF a.expn = BF_EXP_NAN THEN [r |-> bf_nan, rem |-> bf_zero(0), st |-> {}]
     ELSE IF a.sign = 1 /\ ~bf_is_zero(a) THEN [r |-> bf_nan, rem |-> bf_zero(0), st |-> {"INVALID_OP"}]
     ELSE IF bf_len(a) = 0 THEN [r |-> a, rem |-> bf_zero(0), st |-> {}]
     ELSE [r |-> r, rem |-> rem, st |-> IF bf_len(rem) # 0 THEN {"INEXACT"} ELSE {}]

(* Powers by repeated squaring, from the second highest bit of b down.     *)
bf_pow_ui(a, b, prec, flags) ==
  LET square(x, i) ==
        LET s == bf_mul(x.r, x.r, prec, flags)
            t == bf_mul(s.r, a, prec, flags)
        IN IF (b \div 2^(i - 1)) % 2 = 1 THEN Res(t.r, x.st \cup s.st \cup t.st) ELSE Res(s.r, x.st \cup s.st)
  IN IF b = 0 THEN Res(bf_set_ui(1), {}) ELSE ForEach(square, Res(a, {}), Down(LIMB_BITS - clz(b) - 1))

(***************************************************************************)
(* Bitwise operations on integers in two's complement.                     *)
(***************************************************************************)
bf_logic_op1(a, b, op) == CASE op = "OR" -> a | b [] op = "XOR" -> a ^^ b [] op = "AND" -> a & b

LogicLength(a, b, a_sign, b_sign, op, r_sign) ==
  LET min == IF a.expn < b.expn THEN a.expn ELSE b.expn
      max == IF a.expn > b.expn THEN a.expn ELSE b.expn
      l == IF op = "AND" /\ r_sign = 0
           THEN IF a_sign = 0 /\ b_sign = 0 THEN min ELSE IF a_sign = 0 THEN a.expn ELSE b.expn
           ELSE max
  IN ((IF l > 1 THEN l ELSE 1) + LIMB_BITS - 1) \div LIMB_BITS
bf_logic_op(a1, b1, op) ==
  LET a_sign == IF a1.expn <= 0 THEN 0 ELSE a1.sign
      b_sign == IF b1.expn <= 0 THEN 0 ELSE b1.sign
      a == IF a_sign = 1 THEN bf_add_si(a1, 1, BF_PREC_INF, Flags("RNDZ")).r ELSE a1
      b == IF b_sign = 1 THEN bf_add_si(b1, 1, BF_PREC_INF, Flags("RNDZ")).r ELSE b1
      r_sign == bf_logic_op1(a_sign, b_sign, op)
      l == LogicLength(a, b, a_sign, b_sign, op, r_sign)
      bits(x, s, i) == get_bits(x.tab, bf_len(x) * LIMB_BITS - x.expn + (i - 1) * LIMB_BITS) ^^ All1(s = 1)
      tab == [i \in 1..l |-> bf_logic_op1(bits(a, a_sign, i), bits(b, b_sign, i), op) ^^ All1(r_sign = 1)]
      r == bf_normalize_and_round(BF(r_sign, l * LIMB_BITS, <<>> \o tab), BF_PREC_INF, Flags("RNDZ")).r
  IN Res(IF r_sign = 1 THEN bf_add_si(r, -1, BF_PREC_INF, Flags("RNDZ")).r ELSE r, {})

(***************************************************************************)
(* Conversions to machine types.  An int64 and a double are as wide as a   *)
(* limb; an int32 has half its bits.                                       *)
(***************************************************************************)
Signed2(v, w) == IF v % 2^w >= 2^(w - 1) THEN (v % 2^w) - 2^w ELSE v % 2^w
IntEdge(a, w) == a.expn = w /\ (a.tab[bf_len(a)] \div 2^(LIMB_BITS - w)) = 2^(w - 1)
GetInt(a, w, mod) ==
  LET max == 2^(w - 1) - 1
      top == a.tab[bf_len(a)] \div 2^(LIMB_BITS - a.expn)
      low == get_bits(a.tab, bf_len(a) * LIMB_BITS - a.expn)
  IN IF a.expn >= BF_EXP_INF
     THEN [v |-> IF mod THEN 0 ELSE IF a.expn = BF_EXP_INF THEN Signed2(max + a.sign, w) ELSE max, st |-> {"INVALID_OP"}]
     ELSE IF a.expn <= 0 THEN [v |-> 0, st |-> {}]
     ELSE IF a.expn <= w - 1 THEN [v |-> IF a.sign = 1 THEN -top ELSE top, st |-> {}]
     ELSE IF mod THEN [v |-> Signed2(IF a.sign = 1 THEN -low ELSE low, w), st |-> {}]
     ELSE IF a.sign = 1 THEN [v |-> -max - 1, st |-> IF IntEdge(a, w) THEN {} ELSE {"INVALID_OP"}]
     ELSE [v |-> max, st |-> {"INVALID_OP"}]
bf_get_int32(a, mod) == GetInt(a, LIMB_BITS \div 2, mod)
bf_get_int64(a, mod) == GetInt(a, LIMB_BITS, mod)
bf_get_uint64(a) ==
  IF a.expn = BF_EXP_NAN THEN [v |-> B - 1, st |-> {"INVALID_OP"}]
  ELSE IF a.expn <= 0 THEN [v |-> 0, st |-> {}]
  ELSE IF a.sign = 1 THEN [v |-> 0, st |-> {"INVALID_OP"}]
  ELSE IF a.expn <= LIMB_BITS THEN [v |-> a.tab[bf_len(a)] \div 2^(LIMB_BITS - a.expn), st |-> {}]
  ELSE [v |-> B - 1, st |-> {"INVALID_OP"}]

(* A double: sign, FLOAT_EXP_BITS of biased exponent, the mantissa.        *)
FLOAT_MANT == LIMB_BITS - 1 - FLOAT_EXP_BITS
FLOAT_BIAS == 2^(FLOAT_EXP_BITS - 1) - 1
FLOAT_TOP == 2^FLOAT_EXP_BITS - 1
bf_get_float64(a, rnd_mode) ==
  LET x == bf_round(a, FLOAT_MANT + 1, [Flags(rnd_mode) EXCEPT !.sub = TRUE, !.e = FLOAT_EXP_BITS])
      b == IF bf_is_finite(a) THEN x.r ELSE a
      st == IF bf_is_finite(a) THEN x.st ELSE {}
      e == b.expn + FLOAT_BIAS - 1
      m == b.tab[1]
      D(ee, mm) == [e |-> ee, m |-> mm, s |-> b.sign]
  IN IF a.expn = BF_EXP_NAN THEN [d |-> [e |-> FLOAT_TOP, m |-> 2^(FLOAT_MANT - 1), s |-> 0], st |-> {}]
     ELSE [st |-> st,
           d |-> IF b.expn = BF_EXP_INF THEN D(FLOAT_TOP, 0)
                 ELSE IF bf_is_zero(b) THEN D(0, 0)
                 ELSE IF e <= 0 THEN D(0, m \div 2^(FLOAT_EXP_BITS + 1 - e))
                 ELSE D(e, L(m * 2) \div 2^(FLOAT_EXP_BITS + 1))]
bf_set_float64(d) ==
  LET low == L(d.m * 2^(FLOAT_EXP_BITS + 1))
      shift == clz(low)
  IN IF d.e = FLOAT_TOP THEN IF d.m # 0 THEN bf_nan ELSE bf_inf(d.s)
     ELSE IF d.e = 0 /\ d.m = 0 THEN bf_zero(d.s)
     ELSE IF d.e = 0 THEN BF(d.s, 1 - shift - FLOAT_BIAS, <<L(low * 2^shift)>>)
     ELSE BF(d.s, d.e - FLOAT_BIAS + 1, <<d.m * 2^FLOAT_EXP_BITS + 2^(LIMB_BITS - 1)>>)
-----------------------------------------------------------------------------
(***************************************************************************)
(* Numbers to and from digits in a radix, bf_atof and bf_ftoa of libbf.c.  *)
(* A numeral stands for the characters: the sign, the digits before and    *)
(* after the point, whether there is a point, the exponent, and whether    *)
(* the exponent counts bits ('p') or digits ('e' and '@').  Prefixes of a  *)
(* radix (0x, 0o, 0b) and the separate exponent of BF_ATOF_EXPONENT are    *)
(* left out.                                                               *)
(***************************************************************************)

CONSTANT ZIV_EXTRA_BITS   \* extra bits of the first approximation

Numeral(neg, ip, fp, exp, bin) == [neg |-> neg, ip |-> ip, fp |-> fp, exp |-> exp, bin |-> bin]
NumeralOf(word, neg) == [word |-> word, neg |-> neg]
PowerOfTwo(radix) == \E k \in 1..6 : radix = 2^k

(* Digits of a radix that fit a limb, and their power.                     *)
digits_per_limb(radix) == CHOOSE k \in 1..LIMB_BITS : radix^k <= B /\ radix^(k + 1) > B
get_limb_radix(radix) == radix^digits_per_limb(radix)
bf_pow_ui_ui(a1, b, prec, flags) ==
  IF a1 = 10 /\ b <= LIMB_DIGITS THEN Res(bf_set_ui(10^b), {})
  ELSE bf_pow_ui(bf_set_ui(a1), b, prec, flags)
Inf(rnd) == Flags(rnd)

(***************************************************************************)
(* From a radix.                                                           *)
(***************************************************************************)
(* n limbs of digits, halved at each level.                                *)
HighHalf(n0, level) == (((2 * n0) \div 2^(level + 1)) + 1) \div 2
RECURSIVE bf_integer_from_radix_rec(_, _, _, _, _)
bf_integer_from_radix_rec(tab, n, level, n0, radixl) ==
  IF n = 1 THEN bf_set_ui(tab[1]) ELSE
  LET n2 == HighHalf(n0, level)
      pow == bf_pow_ui_ui(radixl, n2, BF_PREC_INF, Inf("RNDZ")).r
      hi == bf_integer_from_radix_rec(Part(tab, n2, n - n2), n - n2, level + 1, n0, radixl)
      lo == bf_integer_from_radix_rec(Part(tab, 0, n2), n2, level + 1, n0, radixl)
  IN bf_add(bf_mul(hi, pow, BF_PREC_INF, Inf("RNDZ")).r, lo, BF_PREC_INF, Inf("RNDZ")).r
bf_integer_from_radix(tab, n, radix) == bf_integer_from_radix_rec(tab, n, 0, n, get_limb_radix(radix))

(* T * radix^expn: with more and more extra bits until the approximation   *)
(* decides the rounding.                                                   *)
RECURSIVE ZivMulPow(_, _, _, _, _, _)
(* The first approximation is always rounded.                              *)
MutZivStops(ret, r, prec, rnd, prec1, overflow) == TRUE
ZivStops(ret, r, prec, rnd, prec1, overflow) ==
  "INEXACT" \notin ret \/ bf_can_round(r, prec, rnd, prec1) \/ overflow
ZivMulPow(T, radix, expn, prec, flags, ziv) ==
  LET e == IF expn < 0 THEN -expn ELSE expn
      prec1 == prec + ziv
      full == prec1 + ceil_log2(e) * 2 + 1
      pow == bf_pow_ui_ui(radix, e, full, Inf("RNDN"))
      x == IF expn < 0 THEN bf_div(T, pow.r, full, Inf("RNDN")) ELSE bf_mul(T, pow.r, full, Inf("RNDN"))
      ret == pow.st \cup x.st
      y == bf_round(x.r, prec, flags)
  IN InTurn(<<pow, x>>,
            IF ZivStops(ret, x.r, prec, flags.rnd, prec1, ~bf_is_finite(pow.r))
            THEN Res(y.r, y.st \cup (ret \cap {"INEXACT"}))
            ELSE ZivMulPow(T, radix, expn, prec, flags, ziv + (ziv \div 2)))
bf_mul_pow_radix(T, radix, expn, prec, flags) ==
  LET pow == bf_pow_ui_ui(radix, IF expn < 0 THEN -expn ELSE expn, BF_PREC_INF, Inf("RNDN"))
      exact == IF expn < 0 THEN bf_div(T, pow.r, bf_len(T) * LIMB_BITS, Inf("RNDN"))
               ELSE bf_mul(T, pow.r, BF_PREC_INF, Inf("RNDN"))
  IN IF bf_len(T) = 0 THEN Res(T, {})
     ELSE IF expn = 0 THEN bf_round(T, prec, flags)
     ELSE IF prec = BF_PREC_INF THEN Res(exact.r, pow.st \cup exact.st)
     ELSE ZivMulPow(T, radix, expn, prec, flags, ZIV_EXTRA_BITS)

(* The digits packed into limbs, most significant limb first: as bits when *)
(* the radix is a power of two, else digits_per_limb to a limb with the    *)
(* last limb padded.                                                       *)
PackBits(ds, bits) ==
  LET step(s, c) ==
        LET sh == s.shift - bits
        IN IF sh > 0 THEN [s EXCEPT !.cur = @ | (c * 2^sh), !.shift = sh]
           ELSE [limbs |-> Append(s.limbs, s.cur | (c \div 2^(-sh))),
                 cur |-> IF sh < 0 THEN L(c * 2^(LIMB_BITS + sh)) ELSE 0, shift |-> sh + LIMB_BITS]
      end == ForEach(step, [limbs |-> <<>>, cur |-> 0, shift |-> LIMB_BITS], ds)
  IN IF end.shift # LIMB_BITS THEN Append(end.limbs, end.cur) ELSE end.limbs
PackDigits(ds, radix, dpl) ==
  LET step(s, c) ==
        LET cur == s.cur * radix + c
        IN IF s.shift = 1 THEN [limbs |-> Append(s.limbs, cur), cur |-> 0, shift |-> dpl]
           ELSE [s EXCEPT !.cur = cur, !.shift = @ - 1]
      end == ForEach(step, [limbs |-> <<>>, cur |-> 0, shift |-> dpl], ds)
  IN IF end.shift # dpl THEN Append(end.limbs, end.cur * radix^end.shift) ELSE end.limbs
RECURSIVE SkipZeros(_)
SkipZeros(ds) == IF ds # <<>> /\ Head(ds) = 0 THEN SkipZeros(Tail(ds)) ELSE ds
(* An exponent the accumulator cannot hold: the test before its last digit.*)
ExponentOverflow(t) == (IF t.exp < 0 THEN -t.exp ELSE t.exp) \div 10 > (BF_EXP_NAN - 2 - 9) \div 10
OutOfRange(t) ==
  IF t.exp < 0 THEN Res(bf_zero(t.neg), {"UNDERFLOW", "INEXACT"}) ELSE Res(bf_inf(t.neg), {"OVERFLOW", "INEXACT"})
bf_atof(t, radix, prec, flags) ==
  LET ip == SkipZeros(t.ip)
      int_len == Len(ip)
      bits == ceil_log2(radix)
      dpl == digits_per_limb(radix)
      packed == Reverse(PackBits(ip \o t.fp, bits))
      limbs == Reverse(PackDigits(ip \o t.fp, radix, dpl))
      T == [bf_integer_from_radix(limbs, Len(limbs), radix) EXCEPT !.sign = t.neg]
  IN IF "word" \in DOMAIN t THEN Res(IF t.word = "NaN" THEN bf_nan ELSE bf_inf(t.neg), {})
     ELSE IF t.ip = <<>> /\ t.fp = <<>> THEN Res(bf_nan, {})
     ELSE IF ExponentOverflow(t) THEN OutOfRange(t)
     ELSE IF PowerOfTwo(radix)
     THEN bf_normalize_and_round(BF(t.neg, (IF t.bin THEN t.exp ELSE t.exp * bits) + int_len * bits,
                                    IF packed = <<>> THEN <<0>> ELSE packed), prec, flags)
     ELSE IF limbs = <<>> THEN Res(bf_zero(t.neg), {})
     ELSE bf_mul_pow_radix(T, radix, t.exp - (Len(limbs) * dpl - int_len), prec, flags)

(***************************************************************************)
(* To a radix.                                                             *)
(***************************************************************************)
(* floor or ceil of a * log2(radix), or of a / log2(radix); the code has   *)
(* the logarithms in tables.                                               *)
FloorLog(a, radix, is_inv) ==
  IF is_inv THEN CHOOSE k \in 0..a : radix^k <= 2^a /\ radix^(k + 1) > 2^a
  ELSE CHOOSE k \in 0..(6 * a) : 2^k <= radix^a /\ 2^(k + 1) > radix^a
bf_mul_log2_radix(a1, radix, is_inv, is_ceil1) ==
  LET a == IF a1 < 0 THEN -a1 ELSE a1
      is_ceil == is_ceil1 # (a1 < 0)
      bits == ceil_log2(radix)
      v == IF PowerOfTwo(radix)
           THEN IF is_inv THEN (a + (IF is_ceil THEN bits - 1 ELSE 0)) \div bits ELSE a * bits
           ELSE FloorLog(a, radix, is_inv) + Bit(is_ceil)
  IN IF a1 < 0 THEN -v ELSE v

(* The approximate quotient by radixl^n2 is one off at most; R says how.   *)
RECURSIVE FixDown(_, _), FixUp(_, _)
FixDown(s, pow) == IF s.R.sign = 1 /\ bf_len(s.R) # 0
                   THEN FixDown([R |-> bf_add(s.R, pow, BF_PREC_INF, Inf("RNDZ")).r, q_add |-> s.q_add - 1], pow) ELSE s
FixUp(s, pow) == IF bf_cmpu(s.R, pow) >= 0
                 THEN FixUp([R |-> bf_sub(s.R, pow, BF_PREC_INF, Inf("RNDZ")).r, q_add |-> s.q_add + 1], pow) ELSE s
Adjust(R, pow) == FixUp(FixDown([R |-> R, q_add |-> 0], pow), pow)
RECURSIVE bf_integer_to_radix_rec(_, _, _, _, _, _)
bf_integer_to_radix_rec(a, n, level, n0, radixl, bits) ==
  LET pos == bf_len(a) * LIMB_BITS - a.expn
      t == get_bits(a.tab, pos + LIMB_BITS) * B + get_bits(a.tab, pos)
      n2 == HighHalf(n0, level)
      n1 == n - n2
      pow == bf_pow_ui_ui(radixl, n2, BF_PREC_INF, Inf("RNDZ")).r
      inv == bf_div(bf_set_ui(1), pow, (n2 + 1) * bits + 2, Inf("RNDN")).r
      Q == bf_rint(bf_mul(a, inv, n1 * bits, Inf("RNDN")).r, "RNDZ").r
      R == bf_sub(a, bf_mul(Q, pow, BF_PREC_INF, Inf("RNDZ")).r, BF_PREC_INF, Inf("RNDZ")).r
      x == Adjust(R, pow)
      Q1 == IF x.q_add # 0 THEN bf_add_si(Q, x.q_add, BF_PREC_INF, Inf("RNDZ")).r ELSE Q
  IN IF n = 1 THEN <<get_bits(a.tab, pos)>>
     ELSE IF n = 2 THEN <<L(t % radixl), L(t \div radixl)>>
     ELSE InTurn(<<pow, inv, Q, R, x, Q1>>,
                 bf_integer_to_radix_rec(x.R, n2, level + 1, n0, radixl, bits)
                 \o bf_integer_to_radix_rec(Q1, n1, level + 1, n0, radixl, bits))
bf_integer_to_radix(a, n, radixl) == bf_integer_to_radix_rec(a, n, 0, n, radixl, ceil_log2(radixl))

(* a as P digits: an integer r and an exponent E with a = r * radix^(E-P). *)
RECURSIVE ZivToRadix(_, _, _, _, _, _), ConvertAt(_, _, _, _, _, _)
ZivToRadix(a, radix, d, prec0, rnd, ziv) ==
  LET e == IF d < 0 THEN -d ELSE d
      prec == prec0 + ziv
      full == prec + ceil_log2(e) * 2 + 1
      pow == bf_pow_ui_ui(radix, e, full, Inf("RNDN"))
      x == IF d >= 0 THEN bf_mul(pow.r, a, full, Inf("RNDN")) ELSE bf_div(a, pow.r, full, Inf("RNDN"))
  IN InTurn(<<pow, x>>,
            IF ZivStops(pow.st \cup x.st, x.r, x.r.expn, rnd, prec, FALSE) THEN bf_rint(x.r, rnd).r
            ELSE ZivToRadix(a, radix, d, prec0, rnd, ziv + (ziv \div 2)))
Fits(r, radix, P) == bf_cmpu(r, bf_pow_ui_ui(radix, P, BF_PREC_INF, Inf("RNDZ")).r) < 0
ConvertAt(a, radix, P, rnd, fixed, E) ==
  LET r == ZivToRadix(a, radix, P - E, bf_mul_log2_radix(P, radix, FALSE, TRUE), rnd, ZIV_EXTRA_BITS)
  IN IF fixed \/ Fits(r, radix, P) THEN [r |-> r, E |-> E] ELSE ConvertAt(a, radix, P, rnd, fixed, E + 1)
bf_convert_to_radix(a, radix, P, rnd, fixed, E) ==
  IF bf_len(a) = 0 THEN [r |-> a, E |-> 0]
  ELSE ConvertAt(a, radix, P, rnd, fixed, IF fixed THEN E ELSE 1 + bf_mul_log2_radix(a.expn - 1, radix, TRUE, FALSE))

LimbDigits(v, radix, len) == [i \in 1..len |-> (v \div radix^(len - i)) % radix]
(* The first n_digits digits of an integer, or of a mantissa when the      *)
(* radix is a power of two.                                                *)
output_digits(a1, radix, n_digits) ==
  LET bits == ceil_log2(radix)
      two == PowerOfTwo(radix)
      dpl == IF two THEN LIMB_BITS \div bits ELSE digits_per_limb(radix)
      n == (n_digits + dpl - 1) \div dpl
      limbs == bf_integer_to_radix(a1, n, get_limb_radix(radix))
      start == bf_len(a1) * LIMB_BITS + smod(-a1.expn, bits)
      chunk(j) == IF two THEN LimbDigits(get_bits(a1.tab, start - j * dpl * bits), radix, dpl)
                  ELSE LimbDigits(At(limbs, n - j), radix, dpl)
      all == FlattenSeq([j \in 1..n |-> chunk(j)])
  IN InTurn(IF two THEN <<>> ELSE limbs, Part(all, IF two THEN 0 ELSE n * dpl - n_digits, n_digits))

(* A number a1 of n_digits digits, n of them before the point.             *)
Plain(neg, ds, n) ==
  IF n <= 0 THEN Numeral(neg, <<0>>, Zeros(-n) \o ds, 0, FALSE)
  ELSE IF Len(ds) <= n THEN Numeral(neg, ds \o Zeros(n - Len(ds)), <<>>, 0, FALSE)
  ELSE Numeral(neg, Part(ds, 0, n), Part(ds, n, Len(ds) - n), 0, FALSE)
Exponential(neg, ds, exp, bin) == Numeral(neg, <<Head(ds)>>, Tail(ds), exp, bin)
StripZeros(t) ==
  LET ip == SkipZeros(t.ip) IN [t EXCEPT !.ip = IF ip = <<>> THEN <<0>> ELSE ip]

(* A fixed number of digits after the point.                               *)
FracNumeral(a2, radix, prec, rnd) ==
  LET bits == ceil_log2(radix)
      a1 == bf_round(a2, prec * bits, [Inf(rnd) EXCEPT !.radpnt = TRUE]).r
      n == ceil_div(a1.expn, bits)
      a == [a2 EXCEPT !.sign = 0]
      nn == 1 + bf_mul_log2_radix(IF a.expn > 0 THEN a.expn ELSE 0, radix, TRUE, TRUE)
      c == bf_convert_to_radix(a, radix, nn + prec, rnd, TRUE, nn)
  IN IF PowerOfTwo(radix)
     THEN IF bf_is_zero(a1) THEN Numeral(a2.sign, <<0>>, Zeros(prec), 0, FALSE)
          ELSE IF prec + n > 0 THEN Plain(a2.sign, output_digits(a1, radix, prec + n), n)
          ELSE Numeral(a2.sign, <<0>>, Zeros(-n), 0, FALSE)
     ELSE InTurn(<<c>>, StripZeros(Plain(a2.sign, output_digits(c.r, radix, nn + prec), nn)))

(* The least number of digits that reads back as a, by dichotomy.          *)
RECURSIVE MinDigits(_, _, _, _, _, _)
MinDigits(a, radix, prec, flags, lo, hi) ==
  IF lo >= hi THEN hi ELSE
  LET n_digits == (lo + hi) \div 2
      c == bf_convert_to_radix(a, radix, n_digits, flags.rnd, FALSE, 0)
      b == bf_mul_pow_radix(c.r, radix, c.E - n_digits, prec, [flags EXCEPT !.rnd = "RNDN"]).r
  IN IF InTurn(<<c, b>>, bf_cmpu(b, a) = 0) THEN MinDigits(a, radix, prec, flags, lo, n_digits)
     ELSE MinDigits(a, radix, prec, flags, n_digits + 1, hi)
FreeDigits(prec, radix) == 1 + bf_mul_log2_radix(prec, radix, TRUE, TRUE)
RECURSIVE TrimDigits(_, _, _, _)
TrimDigits(a1, pos, bits, n) ==
  IF n > 1 /\ get_bits(a1.tab, pos - n * bits) % 2^bits = 0 THEN TrimDigits(a1, pos, bits, n - 1) ELSE n

(* fmt: "FIXED" prec digits, "FREE" and "FREE_MIN" as many as a number of  *)
(* prec bits needs, "FRAC" prec digits after the point.                    *)
Digits(a2, radix, prec, flags, fmt) ==
  LET bits == ceil_log2(radix)
      a == [a2 EXCEPT !.sign = 0]
      rounded == bf_round(a2, prec * bits - smod(-a2.expn, bits), Inf(flags.rnd)).r
      a1 == IF fmt = "FIXED" THEN rounded ELSE a2
      pos == bf_len(a1) * LIMB_BITS + smod(-a1.expn, bits)
      many == IF fmt = "FIXED" THEN prec
              ELSE IF PowerOfTwo(radix) THEN TrimDigits(a1, pos, bits, ceil_div(pos, bits))
              ELSE IF fmt = "FREE" THEN FreeDigits(prec, radix)
              ELSE MinDigits(a, radix, prec, flags, 1, FreeDigits(prec, radix))
      c == bf_convert_to_radix(a, radix, many, flags.rnd, FALSE, 0)
      max == IF fmt = "FIXED" THEN prec ELSE IF PowerOfTwo(radix) THEN many + 4 ELSE FreeDigits(prec, radix) + 4
  IN IF PowerOfTwo(radix) THEN [a1 |-> a1, n_digits |-> many, n_max |-> max, n |-> ceil_div(a1.expn, bits)]
     ELSE [a1 |-> c.r, n_digits |-> many, n_max |-> max, n |-> c.E]
bf_ftoa(a2, radix, prec, flags, fmt, force_exp) ==
  LET x == Digits(a2, radix, prec, flags, fmt)
      zero == bf_is_zero(x.a1)
      n == IF zero THEN 1 ELSE x.n
      ds == InTurn(<<x>>, output_digits(x.a1, radix, x.n_digits))
      bits == ceil_log2(radix)
      bin == PowerOfTwo(radix) /\ radix <= 16
  IN IF a2.expn = BF_EXP_NAN THEN NumeralOf("NaN", 0)
     ELSE IF a2.expn = BF_EXP_INF THEN NumeralOf("Inf", a2.sign)
     ELSE IF fmt = "FRAC" THEN FracNumeral(a2, radix, prec, flags.rnd)
     ELSE IF zero /\ fmt # "FIXED" /\ ~force_exp THEN Numeral(a2.sign, <<0>>, <<>>, 0, FALSE)
     ELSE IF force_exp \/ n <= -6 \/ n > x.n_max
     THEN Exponential(a2.sign, ds, IF bin THEN (n - 1) * bits ELSE n - 1, bin)
     ELSE Plain(a2.sign, ds, n)
===============================================================================
