--------------------------- MODULE JsonNumberText ---------------------------
(***************************************************************************)
(* How the vendored JSON library writes numbers (Lib/Json/json.hpp):       *)
(* dump_integer with count_digits and remove_sign, dump_float, to_chars    *)
(* with format_buffer and append_exponent, and dtoa_impl::grisu2 that finds *)
(* the digits of a double, for any format of p bits with integers of q     *)
(* bits in place of 53 and 64.  A diyfp is f * 2^e.                        *)
(***************************************************************************)
EXTENDS JsonGrammar

CONSTANTS
  Bits,              \* the width of number_integer_t and number_unsigned_t
  kMinExp, kMaxExp,  \* where fixed-point notation ends
  max_digits10,      \* the most digits grisu2 gives
  q,                 \* diyfp::kPrecision, even
  p, kBias,          \* the format of a float: bits of its significand, bias of its exponent
  kAlpha, kGamma,
  kCachedPowers, kCachedPowersMinDecExp, kCachedPowersDecStep

-----------------------------------------------------------------------------
(* dump_integer                                                            *)

Wrap(n) == n % (2^Bits)

RECURSIVE CountFrom(_, _)
CountFrom(x, n) ==
  CASE x < 10 -> n
    [] x \in 10..99 -> n + 1
    [] x \in 100..999 -> n + 2
    [] x \in 1000..9999 -> n + 3
    [] OTHER -> CountFrom(x \div 10000, n + 4)

count_digits(x) == CountFrom(x, 1)

\* -x does not exist for the smallest integer.
remove_sign(x) == Wrap(Wrap(-(x + 1)) + 1)

\* The digits, two at a time from the last ones.
RECURSIVE Generate(_, _)
Generate(abs_value, text) ==
  CASE abs_value >= 100 ->
         Generate(abs_value \div 100, <<48 + ((abs_value % 100) \div 10), 48 + (abs_value % 10)>> \o text)
    [] abs_value \in 10..99 -> <<48 + abs_value \div 10, 48 + (abs_value % 10)>> \o text
    [] OTHER -> <<48 + abs_value>> \o text

\* The n_chars places of number_buffer that are written out: the digits are
\* put from the end, the sign first; a place nothing was put in holds a NUL.
dump_integer(x) ==
  LET abs_value == IF x < 0 THEN remove_sign(x) ELSE x
      n_chars == count_digits(abs_value) + (IF x < 0 THEN 1 ELSE 0)
      digits == Generate(abs_value, <<>>)
      from == n_chars - Len(digits)
  IN IF x = 0 THEN <<48>>
     ELSE [k \in 1..n_chars |-> CASE k > from -> digits[k - from]
                                  [] k = 1 /\ k <= from /\ x < 0 -> Minus
                                  [] OTHER -> NUL]

-----------------------------------------------------------------------------
(* to_chars                                                                *)

append_exponent(e) ==
  LET k == IF e < 0 THEN -e ELSE e
      tens == <<48 + ((k \div 10) % 10), 48 + (k % 10)>>
  IN <<IF e < 0 THEN Minus ELSE Plus>> \o (IF k < 100 THEN tens ELSE <<48 + k \div 100>> \o tens)

Zeros(n) == [k \in 1..n |-> 48]

\* n is the place of the decimal point from the start of the digits.
format_buffer(buf, decimal_exponent) ==
  LET k == Len(buf)
      n == k + decimal_exponent
      tail == SubSeq(buf, 2, k)
  IN CASE k <= n /\ n <= kMaxExp -> buf \o Zeros(n - k) \o <<Dot, 48>>
       [] k > n /\ 0 < n /\ n <= kMaxExp -> SubSeq(buf, 1, n) \o <<Dot>> \o SubSeq(buf, n + 1, k)
       [] kMinExp < n /\ n <= 0 -> <<48, Dot>> \o Zeros(-n) \o buf
       [] OTHER -> <<buf[1]>> \o (IF k = 1 THEN <<>> ELSE <<Dot>> \o tail) \o <<101>> \o append_exponent(n - 1)

\* A float is its sign, its digits, none for zero, and the exponent of the last one;
\* this one stands for NaN and the infinities.
NonFinite == [negative |-> FALSE, digits |-> <<NUL>>, exp |-> 0]

to_chars(f) ==
  (IF f.negative THEN <<Minus>> ELSE <<>>) \o
  (IF f.digits = <<>> THEN <<48, Dot, 48>> ELSE format_buffer(f.digits, f.exp))

\* What is not finite is written as null.
dump_float(f) == IF f = NonFinite THEN <<110, 117, 108, 108>> ELSE to_chars(f)

-----------------------------------------------------------------------------
(* diyfp                                                                   *)

diyfp(f, e) == [f |-> f, e |-> e]

\* The product rounded to its upper q bits, from products of halves.
mul(x, y) ==
  LET half == 2^(q \div 2)
      p0 == (x.f % half) * (y.f % half)
      p1 == (x.f % half) * (y.f \div half)
      p2 == (x.f \div half) * (y.f % half)
      p3 == (x.f \div half) * (y.f \div half)
      Q == p0 \div half + (p1 % half) + (p2 % half) + half \div 2
  IN diyfp(p3 + p2 \div half + p1 \div half + Q \div half, x.e + y.e + q)

normalize(x) ==
  LET n == CHOOSE n \in 0..(q - 1) : x.f * 2^n \in 2^(q - 1)..(2^q - 1)
  IN diyfp(x.f * 2^n, x.e - n)

normalize_to(x, target) == diyfp(x.f * 2^(x.e - target), target)

-----------------------------------------------------------------------------
(* The float with these bits and the middles to its neighbours.            *)

kHiddenBit == 2^(p - 1)
Significand(bits) == IF bits < kHiddenBit THEN bits ELSE (bits % kHiddenBit) + kHiddenBit
Exponent2(bits) == IF bits < kHiddenBit THEN 1 - kBias ELSE bits \div kHiddenBit - kBias

compute_boundaries(bits) ==
  LET v == diyfp(Significand(bits), Exponent2(bits))
      closer == bits % kHiddenBit = 0 /\ bits \div kHiddenBit > 1
      plus == normalize(diyfp(2 * v.f + 1, v.e - 1))
      minus == IF closer THEN diyfp(4 * v.f - 1, v.e - 2) ELSE diyfp(2 * v.f - 1, v.e - 1)
  IN [w |-> normalize(v), minus |-> normalize_to(minus, plus.e), plus |-> plus]

\* Division as C++ does it.
Quotient(a, b) == IF a < 0 THEN -((-a) \div b) ELSE a \div b

cached_index(e) ==
  LET f == kAlpha - e - 1
      k == Quotient(f * 78913, 2^18) + (IF f > 0 THEN 1 ELSE 0)
  IN Quotient(k - kCachedPowersMinDecExp + (kCachedPowersDecStep - 1), kCachedPowersDecStep)

get_cached_power_for_binary_exponent(e) == kCachedPowers[cached_index(e) + 1]

find_largest_pow10(n) == 1 + Max({0} \cup {k \in 0..9 : n >= 10^k})

-----------------------------------------------------------------------------
(* The digits.  ok says that the assertions on the way held.               *)

RECURSIVE grisu2_round(_, _, _, _, _)
grisu2_round(buf, dist, delta, rest, ten_k) ==
  LET k == Len(buf) IN
  IF rest < dist /\ delta - rest >= ten_k /\ (rest + ten_k < dist \/ dist - rest > rest + ten_k - dist)
  THEN IF buf[k] = 48 THEN [ok |-> FALSE, digits |-> buf]
       ELSE grisu2_round([buf EXCEPT ![k] = @ - 1], dist, delta, rest + ten_k, ten_k)
  ELSE [ok |-> dist <= delta /\ rest <= delta, digits |-> buf]

Rounded(r, exp, ok) == [ok |-> ok /\ r.ok, digits |-> r.digits, exp |-> exp]

\* The digits of p2 / one after those of the integral part.
RECURSIVE FractionDigits(_, _, _, _, _, _)
FractionDigits(buffer, p2, one, delta, dist, m) ==
  LET d == (10 * p2) \div one
      r == (10 * p2) % one
      buf == Append(buffer, 48 + d)
      ok == d <= 9 /\ 10 * p2 < 2^q
  IN IF r <= 10 * delta
     THEN Rounded(grisu2_round(buf, 10 * dist, 10 * delta, r, one), -(m + 1), ok)
     ELSE LET rest == FractionDigits(buf, r, one, 10 * delta, 10 * dist, m + 1) IN [rest EXCEPT !.ok = @ /\ ok]

RECURSIVE IntegralDigits(_, _, _, _, _, _, _)
IntegralDigits(buffer, p1, p2, n, one, delta, dist) ==
  LET pow10 == 10^(n - 1)
      d == p1 \div pow10
      r == p1 % pow10
      buf == Append(buffer, 48 + d)
      rest == r * one + p2
  IN CASE rest <= delta -> Rounded(grisu2_round(buf, dist, delta, rest, pow10 * one), n - 1, d <= 9)
       [] rest > delta /\ n > 1 -> IntegralDigits(buf, r, p2, n - 1, one, delta, dist)
       [] OTHER -> FractionDigits(buf, p2, one, delta, dist, 0)

grisu2_digit_gen(M_minus, w, M_plus) ==
  LET one == 2^(-M_plus.e)
      p1 == M_plus.f \div one
      r == IntegralDigits(<<>>, p1, M_plus.f % one, find_largest_pow10(p1), one, M_plus.f - M_minus.f, M_plus.f - w.f)
  IN [r EXCEPT !.ok = @ /\ M_plus.e \in kAlpha..kGamma /\ p1 > 0]

\* The products are off by less than one unit, so the interval is made smaller by one.
grisu2(bits) ==
  LET b == compute_boundaries(bits)
      cached == get_cached_power_for_binary_exponent(b.plus.e)
      c == diyfp(cached.f, cached.e)
      minus == mul(b.minus, c)
      plus == mul(b.plus, c)
      r == grisu2_digit_gen(diyfp(minus.f + 1, minus.e), mul(b.w, c), diyfp(plus.f - 1, plus.e))
  IN [r EXCEPT !.exp = @ - cached.k, !.ok = @ /\ b.w.e = b.plus.e]

-----------------------------------------------------------------------------
(* The reference: what a text says.                                        *)

RECURSIVE Decimal(_)
Decimal(n) == IF n < 10 THEN <<48 + n>> ELSE Decimal(n \div 10) \o <<48 + (n % 10)>>

RECURSIVE Stripped(_, _)
Stripped(ds, exp) ==
  CASE ds # <<>> /\ ds[1] = 48 -> Stripped(Tail(ds), exp)
    [] ds # <<>> /\ ds[1] # 48 /\ ds[Len(ds)] = 48 -> Stripped(Front(ds), exp + 1)
    [] OTHER -> [digits |-> ds, exp |-> IF ds = <<>> THEN 0 ELSE exp]

\* The digits and the exponent of a number in any notation.
ReadNumber(text) ==
  LET negative == text[1] = Minus
      u == IF negative THEN Tail(text) ELSE text
      es == {k \in DOMAIN u : u[k] \in {69, 101}}
      mantissa == IF es = {} THEN u ELSE SubSeq(u, 1, Min(es) - 1)
      power == IF es = {} THEN <<48>> ELSE SubSeq(u, Min(es) + 1, Len(u))
      exponent == CASE power[1] = Minus -> -ValueOf(Tail(power)) [] power[1] = Plus -> ValueOf(Tail(power)) [] OTHER -> ValueOf(power)
      dots == {k \in DOMAIN mantissa : mantissa[k] = Dot}
      places == IF dots = {} THEN 0 ELSE Len(mantissa) - Min(dots)
      r == Stripped(SelectSeq(mantissa, LAMBDA c : c # Dot), exponent - places)
  IN [negative |-> negative, digits |-> r.digits, exp |-> r.exp]

Float(text) == Dot \in ToSet(text) \/ 101 \in ToSet(text)
=============================================================================
