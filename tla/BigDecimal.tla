------------------------------ MODULE BigDecimal ------------------------------
(***************************************************************************)
(* Multiprecision arithmetic of libbf.c in base BF_DEC_BASE, a power of    *)
(* ten below 2^LIMB_BITS: each limb holds LIMB_DIGITS decimal digits.  The *)
(* carries rely on the wraparound of a binary limb, as in the code.        *)
(***************************************************************************)
EXTENDS BigFloat

(* Division by a constant with a multiplication: the table mp_pow_div      *)
(* holds fast_udiv_init(10^i).                                             *)
fast_udiv_init(d) ==
  LET l == IF d = 1 THEN 0 ELSE LIMB_BITS - clz(d - 1)
  IN [m1 |-> L((L(2^l - d) * B) \div d + 1), shift1 |-> IF l > 1 THEN 1 ELSE l, shift2 |-> IF l < 1 THEN 0 ELSE l - 1]
fast_udiv(a, s) ==
  LET t1 == (s.m1 * a) \div B
  IN L(t1 + (L(a - t1) \div 2^s.shift1)) \div 2^s.shift2
mp_pow_dec(i) == 10^i
fast_shr_dec(a, shift) == fast_udiv(a, fast_udiv_init(mp_pow_dec(shift)))
fast_shr_rem_dec(a, shift) == LET q == fast_shr_dec(a, shift) IN <<q, L(a - q * mp_pow_dec(shift))>>
divdq_base(t) == <<t \div BF_DEC_BASE, t % BF_DEC_BASE>>
Digit(x) == <<x[2], x[1]>>

AddDigit(v, w, k) ==
  LET a == L(v + w + k - BF_DEC_BASE) IN IF a <= v THEN <<a, 1>> ELSE <<L(a + BF_DEC_BASE), 0>>
SubDigit(v, w, k) ==
  LET a == L(v - w - k) IN IF a > v THEN <<L(a + BF_DEC_BASE), 1>> ELSE <<a, 0>>
mp_add_dec(op1, op2, n, carry) == Sweep(LAMBDA i, k : AddDigit(op1[i], op2[i], k), carry, n)
mp_add_ui_dec(tab, b, n) ==
  Sweep(LAMBDA i, k : IF i > 1 /\ k = 0 THEN <<tab[i], 0>> ELSE AddDigit(tab[i], 0, k), b, n)
mp_sub_dec(op1, op2, n, carry) == Sweep(LAMBDA i, k : SubDigit(op1[i], op2[i], k), carry, n)
mp_sub_ui_dec(tab, b, n) ==
  Sweep(LAMBDA i, k : IF i > 1 /\ k = 0 THEN <<tab[i], 0>> ELSE SubDigit(tab[i], 0, k), b, n)
mp_mul1_dec(taba, n, b, l) == Sweep(LAMBDA i, k : Digit(divdq_base(DL(taba[i] * b + k))), l, n)
mp_add_mul1_dec(tabr, taba, n, b) ==
  Sweep(LAMBDA i, k : Digit(divdq_base(DL(taba[i] * b + k + tabr[i]))), 0, n)
mp_sub_mul1_dec(tabr, taba, n, b) ==
  Sweep(LAMBDA i, k : LET x == divdq_base(DL(taba[i] * b + k))
                          y == SubDigit(tabr[i], x[2], 0)
                      IN <<y[1], L(x[1] + y[2])>>, 0, n)
mp_mul_basecase_dec(op1, n1, op2, n2) ==
  LET first == mp_mul1_dec(op1, n1, op2[1], 0)
      row(t, i) == LET x == mp_add_mul1_dec(Part(t, i - 1, n1), op1, n1, op2[i])
                   IN Put(t, i - 1, Append(x.r, x.k))
  IN ForEach(row, Put(Zeros(n1 + n2), 0, Append(first.r, first.k)), [i \in 1..(n2 - 1) |-> i + 1])

(* Division by one limb: halving, multiplication by an inverse of the      *)
(* normalised divisor, or a plain division.                                *)
mp_div1_dec(taba, na, b, r) ==
  LET base_div2 == BF_DEC_BASE \div 2
      half == SweepDown(LAMBDA i, k : <<(taba[i] \div 2) + k, IF taba[i] % 2 = 1 THEN base_div2 ELSE 0>>,
                        IF r # 0 THEN base_div2 ELSE 0, na)
      shift == clz(b)
      d == b * 2^shift
      inverse(i, k) == LET t == DL((k * BF_DEC_BASE + taba[i]) * 2^shift)
                           x == udiv1norm(t \div B, L(t), d, udiv1norm_init(d))
                       IN <<x[1], x[2] \div 2^shift>>
      plain(i, k) == LET t == k * BF_DEC_BASE + taba[i] IN <<L(t \div b), t % b>>
  IN IF b = 2 THEN [r |-> half.r, k |-> Bit(half.k # 0)]
     ELSE IF na >= UDIV1NORM_THRESHOLD THEN SweepDown(inverse, r, na)
     ELSE SweepDown(plain, r, na)

RECURSIVE AddBackDec(_, _, _, _, _)
AddBackDec(taba, tabb, i, nb, q) ==
  LET x == mp_add_dec(Part(taba, i, nb), tabb, nb, 0)
      high == L(At(taba, i + nb) + x.k)
      t == Put(taba, i, Append(x.r, high))
  IN IF x.k # 0 /\ high = BF_DEC_BASE THEN [a |-> t, q |-> L(q - 1)] ELSE AddBackDec(t, tabb, i, nb, L(q - 1))
QuotientDigitDec(taba, tabb, i, nb) ==
  LET hi == At(taba, i + nb)
      q == IF hi >= tabb[nb] THEN BF_DEC_BASE - 1
           ELSE (hi * BF_DEC_BASE + At(taba, i + nb - 1)) \div tabb[nb]
      x == mp_sub_mul1_dec(Part(taba, i, nb), tabb, nb, q)
      y == SubDigit(hi, x.k, 0)
      t == Put(taba, i, Append(x.r, y[1]))
  IN IF y[2] # 0 THEN AddBackDec(t, tabb, i, nb, q) ELSE [a |-> t, q |-> q]
(* The remainder without the normalisation factor.                         *)
Unscale(taba, nb, mult) == IF mult # 1 THEN mp_div1_dec(taba, nb, mult, 0).r ELSE Part(taba, 0, nb)
mp_div_dec(taba, na, tabb1, nb) ==
  LET n == na - nb
      normal == tabb1[nb] >= BF_DEC_BASE \div 2
      mult == IF normal THEN 1 ELSE BF_DEC_BASE \div (tabb1[nb] + 1)
      top == mp_cmp(Part(taba, n, nb), tabb1, nb) >= 0
      scaled == mp_mul1_dec(taba, na, mult, 0)
      tabb == IF normal THEN tabb1 ELSE mp_mul1_dec(tabb1, nb, mult, 0).r
      a0 == IF ~normal THEN Append(scaled.r, scaled.k)
            ELSE IF top THEN Put(taba, n, mp_sub_dec(Part(taba, n, nb), tabb1, nb, 0).r)
            ELSE taba
      digit(s, i) == LET d == QuotientDigitDec(s.a, tabb, i - 1, nb)
                     IN [a |-> d.a, q |-> [s.q EXCEPT ![i] = d.q]]
      run == ForEach(digit, [a |-> a0, q |-> Append(Zeros(n), IF normal THEN Bit(top) ELSE 0)],
                      Down(IF normal THEN n ELSE n + 1))
  IN [a |-> Unscale(run.a, nb, mult), q |-> run.q]

mp_shr_dec(tab, n, shift, high) ==
  SweepDown(LAMBDA i, l : LET x == fast_shr_rem_dec(tab[i], shift)
                          IN <<L(x[1] + l * mp_pow_dec(LIMB_DIGITS - shift)), x[2]>>, high, n)
mp_shl_dec(tab, n, shift, low) ==
  Sweep(LAMBDA i, l : LET x == fast_shr_rem_dec(tab[i], LIMB_DIGITS - shift)
                      IN <<L(x[2] * mp_pow_dec(shift) + l), x[1]>>, low, n)

(* The root of two limbs is computed in binary.                            *)
mp_sqrtrem2_dec(taba) ==
  LET a == taba[2] * BF_DEC_BASE + taba[1]
      k == (clz(a \div B) \div 2) * 2
      b == DL(a * 2^k)
      s == mp_sqrtrem2(<<L(b), b \div B>>).s[1] \div 2^(k \div 2)
      r == divdq_base(DL(a - s * s))
  IN [s |-> <<s>>, a |-> Put(taba, 0, <<r[2]>>), h |-> r[1]]
RECURSIVE mp_sqrtrem_rec_dec(_, _)
mp_sqrtrem_rec_dec(taba, n) ==
  IF n = 1 THEN mp_sqrtrem2_dec(taba) ELSE
  LET l == n \div 2
      h == n - l
      hi == mp_sqrtrem_rec_dec(Part(taba, 2 * l, 2 * h), h)
      a1 == Put(taba, 2 * l, IF hi.h # 0 THEN mp_sub_dec(Part(hi.a, 0, h), hi.s, h, 0).r ELSE Part(hi.a, 0, h))
      d == mp_div_dec(Part(a1, l, n), n, hi.s, h)
      qh == hi.h + At(d.q, l)
      half == mp_div1_dec(Part(d.q, 0, l), l, 2, qh % 2)
      u == IF half.k # 0 THEN mp_add_dec(d.a, hi.s, h, 0) ELSE [r |-> d.a, k |-> 0]
      s2 == half.r \o mp_add_ui_dec(hi.s, qh \div 2, h).r
      a2 == Put(a1, l, u.r)
      sq == IF qh \div 2 # 0 THEN [r |-> Part(a2, 0, 2 * l), k |-> qh \div 2]
            ELSE mp_sub_dec(Part(a2, 0, 2 * l), mp_mul_basecase_dec(half.r, l, half.r, l), 2 * l, 0)
      top == mp_sub_ui_dec(Part(a2, 2 * l, n - 2 * l), sq.k, n - 2 * l)
      a3 == Put(Put(a2, 0, sq.r), 2 * l, top.r)
      rh == L(u.k - top.k)
      s3 == mp_sub_ui_dec(s2, 1, n).r
      fix == mp_add_mul1_dec(Part(a3, 0, n), s3, n, 2)
      one == mp_add_ui_dec(fix.r, 1, n)
  IN InTurn(<<hi, a1, d, half, u, a2, sq, a3>>,
            IF Negative(rh) THEN [s |-> s3, a |-> Put(a3, 0, one.r), h |-> L(rh + fix.k + one.k)]
            ELSE [s |-> s2, a |-> a3, h |-> rh])
mp_sqrtrem_dec(taba, n) == LET x == mp_sqrtrem_rec_dec(taba, n) IN [s |-> x.s, a |-> Put(x.a, n, <<x.h>>)]

clz_dec(a) == CHOOSE n \in 0..LIMB_DIGITS : IF n = LIMB_DIGITS THEN a = 0
                                            ELSE a >= 10^(LIMB_DIGITS - 1 - n) /\ a < 10^(LIMB_DIGITS - n)
-----------------------------------------------------------------------------
(***************************************************************************)
(* The decimal floating point numbers of libbf.c (bfdec_t), which carry    *)
(* the BigDecimal values of the engine.  A number has the representation   *)
(* of BigFloat with limbs of LIMB_DIGITS decimal digits: the most          *)
(* significant digit is not zero, and precisions and exponents count       *)
(* digits.                                                                 *)
(***************************************************************************)

scan_digit_nz(tab, bit_pos) ==
  LET pos == bit_pos \div LIMB_DIGITS
  IN bit_pos >= 0 /\ (fast_shr_rem_dec(At(tab, pos), (bit_pos % LIMB_DIGITS) + 1)[2] # 0 \/ mp_scan_nz(tab, pos))
get_digit(tab, pos) ==
  LET i == floor_div(pos, LIMB_DIGITS)
  IN IF i < 0 \/ i >= Len(tab) THEN 0 ELSE fast_shr_dec(At(tab, i), pos - i * LIMB_DIGITS) % 10

Nearest(digit1, digit0, even) == digit1 > 5 \/ (digit1 = 5 /\ (digit0 \/ ~even))
bfdec_get_rnd_add(r, l, prec, rnd) ==
  LET digit0 == rnd = "RNDF" \/ scan_digit_nz(r.tab, l * LIMB_DIGITS - 1 - (IF prec + 1 > 0 THEN prec + 1 ELSE 0))
      digit1 == get_digit(r.tab, l * LIMB_DIGITS - 1 - prec)
      inexact == digit0 \/ digit1 # 0
      even == get_digit(r.tab, l * LIMB_DIGITS - 1 - (prec - 1)) % 2 = 0
  IN [inexact |-> inexact,
      add_one |-> CASE rnd = "RNDZ" -> FALSE
                    [] rnd = "RNDN" -> Nearest(digit1, digit0, even)
                    [] rnd = "RNDD" -> r.sign = 1 /\ inexact
                    [] rnd = "RNDU" -> r.sign = 0 /\ inexact
                    [] rnd = "RNDA" -> inexact
                    [] OTHER -> digit1 >= 5]
AddUlpDec(r, l, bit_pos) ==
  LET pos == bit_pos \div LIMB_DIGITS
      x == mp_add_ui_dec(Part(r.tab, pos, l - pos), mp_pow_dec(bit_pos % LIMB_DIGITS), l - pos)
      y == IF x.k # 0 THEN mp_shr_dec(x.r, l - pos, 1, 1).r ELSE x.r
  IN [r EXCEPT !.tab = Put(@, pos, y), !.expn = @ + x.k]
KeepDigits(tab, l, bit_pos) ==
  LET i == floor_div(bit_pos, LIMB_DIGITS)
      shift == smod(bit_pos, LIMB_DIGITS)
      cut == fast_shr_dec(At(tab, i), shift) * mp_pow_dec(shift)
  IN IF i < 0 THEN DropZeroLimbs(tab, l, 0)
     ELSE DropZeroLimbs(IF shift # 0 THEN [tab EXCEPT ![i + 1] = cut] ELSE tab, l, i)
__bfdec_round(r, prec1, flags, l) ==
  LET prec == RoundPrec(r, prec1, flags)
      add == bfdec_get_rnd_add(r, l, prec, flags.rnd)
      st == IF add.inexact THEN {"INEXACT"} ELSE {}
      bit_pos == l * LIMB_DIGITS - prec
      r1 == IF add.add_one THEN AddUlpDec(r, l, bit_pos) ELSE r
      low == r1.expn < e_min(flags)
  IN IF prec <= 0 /\ add.add_one
     THEN Res(BF(r.sign, r.expn + 1 - prec, <<BF_DEC_BASE \div 10>>), st \cup {"UNDERFLOW", "INEXACT"})
     ELSE IF prec <= 0 \/ (low /\ ~flags.sub)
     THEN Res(bf_zero(r.sign), st \cup {"UNDERFLOW", "INEXACT"})
     ELSE IF r1.expn > e_max(flags) THEN Res(bf_inf(r.sign), st \cup {"OVERFLOW", "INEXACT"})
     ELSE Res([r1 EXCEPT !.tab = KeepDigits(@, l, bit_pos)],
              st \cup (IF low /\ "INEXACT" \in st THEN {"UNDERFLOW"} ELSE {}))
bfdec_round(r, prec, flags) == IF bf_len(r) = 0 THEN Res(r, {}) ELSE __bfdec_round(r, prec, flags, bf_len(r))
bfdec_rint(r, rnd) == bfdec_round(r, 0, [Flags(rnd) EXCEPT !.radpnt = TRUE])
bfdec_normalize_and_round(r, prec1, flags) ==
  LET nz == {i \in DOMAIN r.tab : r.tab[i] # 0}
      l == CHOOSE i \in nz : \A j \in nz : j <= i
      shift == clz_dec(r.tab[l])
      tab == IF shift # 0 THEN mp_shl_dec(r.tab, l, shift, 0).r ELSE Part(r.tab, 0, l)
  IN IF nz = {} THEN Res(bf_zero(r.sign), {})
     ELSE __bfdec_round(BF(r.sign, r.expn - (bf_len(r) - l) * LIMB_DIGITS - shift, tab), prec1, flags, l)
bfdec_set_ui(v) ==
  LET n == IF v >= BF_DEC_BASE * BF_DEC_BASE THEN 3 ELSE IF v >= BF_DEC_BASE THEN 2 ELSE 1
  IN bfdec_normalize_and_round(BF(0, n * LIMB_DIGITS, ToLimbs(v, BF_DEC_BASE, n)), BF_PREC_INF, Flags("RNDN")).r
bfdec_set_si(v) == IF v < 0 THEN [bfdec_set_ui(-v) EXCEPT !.sign = 1] ELSE bfdec_set_ui(v)

(***************************************************************************)
(* Addition and multiplication.                                            *)
(***************************************************************************)
ShiftedOperand(b, b_shift) ==
  LET x == mp_shr_dec(b.tab, bf_len(b), b_shift, 0)
  IN IF b_shift = 0 THEN b.tab ELSE <<L(x.k * mp_pow_dec(LIMB_DIGITS - b_shift))>> \o x.r
AddMantissasDec(a, b, sign, is_sub) ==
  LET d == a.expn - b.expn
      reach == bf_len(b) + (d + LIMB_DIGITS - 1) \div LIMB_DIGITS
      r_len == IF bf_len(a) > reach THEN bf_len(a) ELSE reach
      r == Zeros(r_len - bf_len(a)) \o a.tab
      b1 == ShiftedOperand(b, d % LIMB_DIGITS)
      from == r_len - reach
      top == from + Len(b1)
      low == IF is_sub THEN mp_sub_dec(Part(r, from, Len(b1)), b1, Len(b1), 0)
             ELSE mp_add_dec(Part(r, from, Len(b1)), b1, Len(b1), 0)
      high == IF low.k = 0 THEN [r |-> Part(r, top, r_len - top), k |-> 0]
              ELSE IF is_sub THEN mp_sub_ui_dec(Part(r, top, r_len - top), low.k, r_len - top)
              ELSE mp_add_ui_dec(Part(r, top, r_len - top), low.k, r_len - top)
      sum == Part(r, 0, from) \o low.r \o high.r
      carry == ~is_sub /\ high.k # 0
  IN BF(sign, a.expn + (IF carry THEN LIMB_DIGITS ELSE 0), IF carry THEN Append(sum, 1) ELSE sum)
bfdec_add_internal(a0, b0, prec, flags, b_neg) ==
  LET b_sign == (b0.sign + b_neg) % 2
      is_sub == a0.sign # b_sign
      cmp_res == bf_cmpu(a0, b0)
      a == IF cmp_res < 0 THEN b0 ELSE a0
      b == IF cmp_res < 0 THEN a0 ELSE b0
      a_sign == IF cmp_res < 0 THEN b_sign ELSE a0.sign
  IN IF cmp_res = 0 /\ is_sub /\ a.expn < BF_EXP_INF THEN Res(bf_zero(Bit(flags.rnd = "RNDD")), {})
     ELSE IF bf_len(a) # 0 /\ bf_len(b) # 0
     THEN bfdec_normalize_and_round(AddMantissasDec(a, b, a_sign, is_sub), prec, flags)
     ELSE IF a.expn = BF_EXP_NAN THEN Res(bf_nan, {})
     ELSE IF a.expn = BF_EXP_INF
     THEN IF b.expn = BF_EXP_INF /\ is_sub THEN Res(bf_nan, {"INVALID_OP"}) ELSE Res(bf_inf(a_sign), {})
     ELSE bfdec_normalize_and_round([a EXCEPT !.sign = a_sign], prec, flags)
bfdec_add(a, b, prec, flags) == bfdec_add_internal(a, b, prec, flags, 0)
bfdec_sub(a, b, prec, flags) == bfdec_add_internal(a, b, prec, flags, 1)
bfdec_add_si(a, b1, prec, flags) == bfdec_add(a, bfdec_set_si(b1), prec, flags)
bfdec_mul(a0, b0, prec, flags) ==
  LET swap == bf_len(a0) < bf_len(b0)
      a == IF swap THEN b0 ELSE a0
      b == IF swap THEN a0 ELSE b0
      sign == (a.sign + b.sign) % 2
      exps == {a.expn, b.expn}
  IN IF bf_len(b) = 0
     THEN IF BF_EXP_NAN \in exps THEN Res(bf_nan, {})
          ELSE IF exps = {BF_EXP_INF, BF_EXP_ZERO} THEN Res(bf_nan, {"INVALID_OP"})
          ELSE Res(IF BF_EXP_INF \in exps THEN bf_inf(sign) ELSE bf_zero(sign), {})
     ELSE bfdec_normalize_and_round(BF(sign, a.expn + b.expn,
                                       mp_mul_basecase_dec(a.tab, bf_len(a), b.tab, bf_len(b))), prec, flags)
bfdec_mul_si(a, b1, prec, flags) == bfdec_mul(a, bfdec_set_si(b1), prec, flags)
bfdec_pow_ui(a, b) ==
  LET mul(x, y) == LET z == bfdec_mul(x.r, y, BF_PREC_INF, Flags("RNDZ")) IN Res(z.r, x.st \cup z.st)
      square(x, i) == LET s == mul(x, x.r) IN IF (b \div 2^(i - 1)) % 2 = 1 THEN mul(s, a) ELSE s
  IN IF b = 0 THEN Res(bfdec_set_ui(1), {}) ELSE ForEach(square, Res(a, {}), Down(LIMB_BITS - clz(b) - 1))

(***************************************************************************)
(* Division and square root.                                               *)
(***************************************************************************)
(* Without a precision the quotient must be exact in nb + 1 limbs.         *)
QuotientLimbs(a, b, prec, flags) ==
  LET d == a.expn - b.expn
  IN IF prec = BF_PREC_INF THEN bf_len(b) + 1
     ELSE IF flags.radpnt THEN ((IF d > 0 THEN d ELSE 0) + 2 + prec + 2 + LIMB_DIGITS - 1) \div LIMB_DIGITS
     ELSE (prec + 2 + LIMB_DIGITS - 1) \div LIMB_DIGITS
bfdec_div(a, b, prec, flags) ==
  LET sign == (a.sign + b.sign) % 2
      precl == QuotientLimbs(a, b, prec, flags)
      nb == bf_len(b)
      n == IF bf_len(a) > precl THEN bf_len(a) ELSE precl
      na == n + nb
      d == mp_div_dec(Zeros(na - bf_len(a)) \o a.tab, na, b.tab, nb)
      rest == mp_scan_nz(d.a, nb)
  IN IF a.expn = BF_EXP_NAN \/ b.expn = BF_EXP_NAN THEN Res(bf_nan, {})
     ELSE IF (a.expn = BF_EXP_INF /\ b.expn = BF_EXP_INF) \/ (bf_is_zero(a) /\ bf_is_zero(b))
     THEN Res(bf_nan, {"INVALID_OP"})
     ELSE IF a.expn = BF_EXP_INF THEN Res(bf_inf(sign), {})
     ELSE IF b.expn = BF_EXP_INF \/ bf_is_zero(a) THEN Res(bf_zero(sign), {})
     ELSE IF bf_is_zero(b) THEN Res(bf_inf(sign), {"DIVIDE_ZERO"})
     ELSE IF rest /\ prec = BF_PREC_INF THEN Res(bf_nan, {"INVALID_OP"})
     ELSE bfdec_normalize_and_round(BF(sign, a.expn - b.expn + LIMB_DIGITS, StickyLimb(d.q, rest)), prec, flags)
bfdec_tdivremu(a, b) ==
  LET q == bfdec_div(a, b, 0, [Flags("RNDZ") EXCEPT !.radpnt = TRUE]).r
      p == bfdec_mul(q, b, BF_PREC_INF, Flags("RNDZ")).r
  IN IF bf_cmpu(a, b) < 0 THEN [q |-> bf_zero(0), r |-> a]
     ELSE InTurn(<<q, p>>, [q |-> q, r |-> bfdec_sub(a, p, BF_PREC_INF, Flags("RNDZ")).r])
(* The Euclidean remainder takes the sign of the quotient into account.    *)
QuotientUpDec(q, r, b, a_sign, q_sign, rnd_mode) ==
  LET res == bf_cmpu(bfdec_mul_si(r, 2, BF_PREC_INF, Flags("RNDZ")).r, b)
  IN CASE rnd_mode \in {"RNDN", "RNDNA"} ->
          \/ res > 0
          \/ res = 0 /\ (rnd_mode = "RNDNA" \/ get_digit(q.tab, bf_len(q) * LIMB_DIGITS - q.expn) % 2 = 1)
       [] rnd_mode = "RNDD" -> q_sign = 1
       [] rnd_mode = "RNDU" -> q_sign = 0
       [] rnd_mode = "RNDA" -> TRUE
       [] rnd_mode = "EUCLIDIAN" -> a_sign = 1
       [] OTHER -> FALSE
bfdec_divrem(a, b, prec, flags, rnd_mode) ==
  LET q_sign == (a.sign + b.sign) % 2
      b1 == [b EXCEPT !.sign = 0]
      t == bfdec_tdivremu([a EXCEPT !.sign = 0], b1)
      up == bf_len(t.r) # 0 /\ QuotientUpDec(t.q, t.r, b, a.sign, q_sign, rnd_mode)
      q == IF up THEN bfdec_add_si(t.q, 1, BF_PREC_INF, Flags("RNDZ")).r ELSE t.q
      r == IF up THEN bfdec_sub(t.r, b1, BF_PREC_INF, Flags("RNDZ")).r ELSE t.r
      x == bfdec_round([r EXCEPT !.sign = (@ + a.sign) % 2], prec, flags)
      y == bfdec_round(a, prec, flags)
      bad == bf_zero(0)
  IN IF bf_len(a) = 0 \/ bf_len(b) = 0
     THEN IF a.expn = BF_EXP_NAN \/ b.expn = BF_EXP_NAN THEN [q |-> bad, r |-> bf_nan, st |-> {}]
          ELSE IF a.expn = BF_EXP_INF \/ bf_is_zero(b) THEN [q |-> bad, r |-> bf_nan, st |-> {"INVALID_OP"}]
          ELSE [q |-> bad, r |-> y.r, st |-> y.st]
     ELSE [q |-> [q EXCEPT !.sign = q_sign], r |-> x.r, st |-> x.st]
bfdec_rem(a, b, prec, flags, rnd_mode) == LET d == bfdec_divrem(a, b, prec, flags, rnd_mode) IN Res(d.r, d.st)

(* Multiplied by 4^k the top limb of the radicand is at least a quarter of *)
(* the base, as mp_sqrtrem_dec wants; the root is then divided by 2^k.     *)
NormalShift(v, n) ==
  IF n = 1 THEN 0 ELSE CHOOSE k \in 0..LIMB_BITS : v * 4^k >= BF_DEC_BASE \div 4 /\ \A j \in 0..(k - 1) : v * 4^j < BF_DEC_BASE \div 4
bfdec_sqrt(a, prec, flags) ==
  LET half == floor_div(a.expn + 1, 2) + prec
      prec1 == IF ~flags.radpnt THEN prec ELSE IF half > 1 THEN half ELSE 1
      n == (2 * (prec1 + 2) + 2 * LIMB_DIGITS - 1) \div (2 * LIMB_DIGITS)
      n1 == IF 2 * n < bf_len(a) THEN 2 * n ELSE bf_len(a)
      a0 == Zeros(2 * n - n1) \o Part(a.tab, bf_len(a) - n1, n1)
      sh == IF a.expn % 2 = 1 THEN mp_shr_dec(a0, 2 * n, 1, 0) ELSE [r |-> a0, k |-> 0]
      k == NormalShift(sh.r[2 * n], n)
      a1 == IF k # 0 THEN mp_mul1_dec(sh.r, 2 * n, 4^k, 0).r ELSE sh.r
      x == mp_sqrtrem_dec(a1, n)
      s == IF k # 0 THEN mp_div1_dec(x.s, n, 2^k, 0).r ELSE x.s
      rest == sh.k # 0 \/ mp_scan_nz(x.a, n + 1) \/ mp_scan_nz(a.tab, bf_len(a) - n1)
  IN IF a.expn = BF_EXP_NAN THEN Res(bf_nan, {})
     ELSE IF bf_len(a) = 0 /\ ~(a.expn = BF_EXP_INF /\ a.sign = 1) THEN Res(a, {})
     ELSE IF a.sign = 1 \/ prec = BF_PREC_INF THEN Res(bf_nan, {"INVALID_OP"})
     ELSE InTurn(<<sh, a1, x, s>>, bfdec_round(BF(0, (a.expn + 1) \div 2, StickyLimb(s, rest)), prec, flags))

(* An integer of w bits whose maximum has the given number of digits.      *)
bfdec_get_int32(a, w, digits) ==
  LET max == 2^(w - 1) - 1
      v_max == max + a.sign
      v == fast_shr_dec(a.tab[bf_len(a)], LIMB_DIGITS - a.expn)
  IN IF a.expn >= BF_EXP_INF THEN [v |-> IF a.expn = BF_EXP_INF THEN Signed2(v_max, w) ELSE max, st |-> {}]
     ELSE IF a.expn <= 0 THEN [v |-> 0, st |-> {}]
     ELSE IF a.expn > digits \/ (a.expn = digits /\ v > v_max) THEN [v |-> Signed2(v_max, w), st |-> {"OVERFLOW"}]
     ELSE [v |-> IF a.sign = 1 THEN -v ELSE v, st |-> {}]

(***************************************************************************)
(* Numerals.                                                               *)
(***************************************************************************)
bfdec_atof(t, prec, flags) ==
  LET ip == SkipZeros(t.ip)
      limbs == Reverse(PackDigits(ip \o t.fp, 10, LIMB_DIGITS))
  IN IF "word" \in DOMAIN t THEN Res(IF t.word = "NaN" THEN bf_nan ELSE bf_inf(t.neg), {})
     ELSE IF t.ip = <<>> /\ t.fp = <<>> THEN Res(bf_nan, {})
     ELSE IF ExponentOverflow(t) THEN OutOfRange(t)
     ELSE bfdec_normalize_and_round(BF(t.neg, t.exp + Len(ip), IF limbs = <<>> THEN <<0>> ELSE limbs), prec, flags)
DecDigits(a, n_digits) ==
  [i \in 1..n_digits |-> get_digit(a.tab, bf_len(a) * LIMB_DIGITS - i)]
bfdec_ftoa(a2, prec, flags, fmt, force_exp) ==
  LET a1 == IF fmt = "FRAC" THEN bfdec_round(a2, prec, [Flags(flags.rnd) EXCEPT !.radpnt = TRUE]).r
            ELSE IF fmt = "FIXED" THEN bfdec_round(a2, prec, Flags(flags.rnd)).r ELSE a2
      all == bf_len(a1) * LIMB_DIGITS
      kept == {n \in 1..all : \A i \in (n + 1)..all : get_digit(a1.tab, all - i) = 0}
      n_digits == IF fmt = "FIXED" THEN prec ELSE IF all = 0 THEN 0
                  ELSE CHOOSE n \in kept : \A j \in kept : n <= j
      n == IF bf_is_zero(a1) THEN 1 ELSE a1.expn
      n_max == IF fmt = "FIXED" THEN n_digits ELSE n_digits + 4
      ds(k) == <<>> \o DecDigits(a1, k)
  IN IF a2.expn = BF_EXP_NAN THEN NumeralOf("NaN", 0)
     ELSE IF a2.expn = BF_EXP_INF THEN NumeralOf("Inf", a2.sign)
     ELSE IF fmt = "FRAC"
     THEN IF bf_is_zero(a1) THEN Numeral(a2.sign, <<0>>, Zeros(prec), 0, FALSE) ELSE Plain(a2.sign, ds(prec + n), n)
     ELSE IF bf_is_zero(a1) /\ fmt # "FIXED" /\ ~force_exp THEN Numeral(a2.sign, <<0>>, <<>>, 0, FALSE)
     ELSE IF force_exp \/ n <= -6 \/ n > n_max THEN Exponential(a2.sign, ds(n_digits), n - 1, FALSE)
     ELSE Plain(a2.sign, ds(n_digits), n)
===============================================================================
