------------------------------- MODULE Money -------------------------------
(***************************************************************************)
(* The arithmetic of money and smallmoney (contrib/babelfishpg_money):     *)
(* fixed-point numbers kept as a 64-bit integer that is the value times    *)
(* FIXEDDECIMAL_MULTIPLIER.  The widths, the decimal base and the number   *)
(* of decimals are parameters, so that every overflow boundary of the code *)
(* is met by small numbers.  In the code Half16 = 2^15, Half32 = 2^31,     *)
(* Half64 = 2^63, Base = 10 and the short form of a money value has half   *)
(* of the four decimals.  Signed arithmetic wraps (the build uses -fwrapv).*)
(*                                                                         *)
(* One behaviour computes one thing: `task` is either a pair of operands,  *)
(* of which the invariants examine every operator, or a text to be read,   *)
(* or a parallel SUM/AVG, whose workers then take steps.                   *)
(***************************************************************************)
EXTENDS Integers, Sequences, SequencesExt, FiniteSets

CONSTANTS Base,        \* the base of a digit
          ShortScale,  \* decimals kept when a money value becomes a string
          Half16, Half32, Half64,
          Operands,    \* operands of the binary operators
          Texts,       \* texts: [neg, int, frac], int and frac are digit sequences
          Inputs,      \* values a parallel aggregate may meet
          Workers, MaxRows

VARIABLES task,   \* what this behaviour computes
          agg,    \* the transition state of each worker: [n, sum], or failed
          total   \* the combined state of the leader

vars == <<task, agg, total>>

\* FIXEDDECIMAL_2_VARCHAR_MULTIPLIER
ShortMultiplier == Base ^ ShortScale

\* FIXEDDECIMAL_MULTIPLIER; the short form keeps half of the decimals
Multiplier == ShortMultiplier * ShortMultiplier

\* FIXEDDECIMAL_ROUNDUP
RoundUp == Multiplier \div 2

-----------------------------------------------------------------------------
(* C integers.                                                             *)

Abs(x) == IF x < 0 THEN -x ELSE x

Sign(x) == IF x < 0 THEN -1 ELSE IF x > 0 THEN 1 ELSE 0

\* C's division and remainder round towards zero
Quot(a, b) == Sign(a) * Sign(b) * (Abs(a) \div Abs(b))
Rem(a, b) == a - b * Quot(a, b)

Wrap(x, half) == ((x + half) % (2 * half)) - half

Fits(x, half) == -half <= x /\ x < half

SAMESIGN(a, b) == (a < 0) <=> (b < 0)

Done(x) == <<"value", x>>
OutOfRange == <<"out of range">>
DivisionByZero == <<"division by zero">>

\* pg_add_sNN_overflow, pg_sub_sNN_overflow, pg_mul_sNN_overflow: the
\* value if it fits, else the error the caller raises
Checked(x, half) == IF Fits(x, half) THEN Done(x) ELSE OutOfRange

-----------------------------------------------------------------------------
(* money with money.                                                       *)

fixeddecimalum(a) ==
  LET r == Wrap(-a, Half64)
  IN  IF a # 0 /\ SAMESIGN(r, a) THEN OutOfRange ELSE Done(r)

fixeddecimalpl(a, b) == Checked(a + b, Half64)

fixeddecimalmi(a, b) == Checked(a - b, Half64)

\* Whether the product is to be rounded up.  The remainders are taken from
\* left to right and in 64 bits: ((a % M) * b) % M % M.
RoundsUp(a, b) ==
  Abs(Rem(Wrap(Rem(a, Multiplier) * b, Half64), Multiplier)) >= RoundUp

\* Mutant of Product: the product is divided in 64 bits, not in 128.
ProductNarrow(a, b) == Quot(Wrap(a * b, Half64), Multiplier)

\* The product is computed in 128 bits, divided and rounded.
Product(a, b) ==
  LET r == Quot(a * b, Multiplier)
  IN  IF RoundsUp(a, b) THEN (IF r < 0 THEN r - 1 ELSE r + 1) ELSE r

fixeddecimalmul(a, b) == Checked(Product(a, b), Half64)

fixeddecimaldiv(a, b) ==
  IF b = 0 THEN DivisionByZero ELSE Checked(Quot(a * Multiplier, b), Half64)

fixeddecimalmod(a, b) ==
  IF b = 0 THEN DivisionByZero
  ELSE IF b = -1 THEN Done(0)
  ELSE Done(Rem(a, b))

fixeddecimalabs(a) ==
  LET r == IF a < 0 THEN Wrap(-a, Half64) ELSE a
  IN  IF r < 0 THEN OutOfRange ELSE Done(r)

\* What fixeddecimal_ceiling and fixeddecimal_floor start from.
Truncated(a) == a - Rem(a, Multiplier)

fixeddecimal_ceiling(a) ==
  IF a > 0 /\ Rem(a, Multiplier) # 0
  THEN Checked(Truncated(a) + Multiplier, Half64)
  ELSE Done(Truncated(a))

fixeddecimal_floor(a) ==
  IF a < 0 /\ Rem(a, Multiplier) # 0
  THEN Checked(Truncated(a) - Multiplier, Half64)
  ELSE Done(Truncated(a))

-----------------------------------------------------------------------------
(* money with bigint: the integer is scaled first, which may overflow.     *)

int8fixeddecimal_internal(b) == Checked(b * Multiplier, Half64)

\* A money value and a scaled bigint, joined by an overflow-checked step.
WithScaled(n, step, half) ==
  IF ~Fits(n * Multiplier, half) THEN OutOfRange ELSE step

fixeddecimalint8pl(a, n) ==
  WithScaled(n, Checked(a + n * Multiplier, Half64), Half64)
fixeddecimalint8mi(a, n) ==
  WithScaled(n, Checked(a - n * Multiplier, Half64), Half64)
fixeddecimalint8mul(a, n) == Checked(a * n, Half64)
fixeddecimalint8div(a, n) ==
  IF n = 0 THEN DivisionByZero
  ELSE IF n = -1 THEN (IF a = -Half64 THEN OutOfRange ELSE Done(-a))
  ELSE Done(Quot(a, n))
int8fixeddecimalpl(n, a) ==
  WithScaled(n, Checked(n * Multiplier + a, Half64), Half64)
int8fixeddecimalmi(n, a) ==
  WithScaled(n, Checked(n * Multiplier - a, Half64), Half64)
int8fixeddecimalmul(n, a) == Checked(n * a, Half64)

(* money with int and smallint: the overflow is found from the signs of    *)
(* the wrapped result, or by dividing it again.                            *)

\* The overflow of a sum or a difference seen in the signs.
SumBySigns(x, y) ==
  LET r == Wrap(x + y, Half64)
  IN  IF SAMESIGN(x, y) /\ ~SAMESIGN(r, x) THEN OutOfRange ELSE Done(r)

DifferenceBySigns(x, y) ==
  LET r == Wrap(x - y, Half64)
  IN  IF ~SAMESIGN(x, y) /\ ~SAMESIGN(r, x) THEN OutOfRange ELSE Done(r)

\* Mutant of ProductByDivision: the division is skipped when the sign of
\* the result is right.
ProductBySign(a, n) ==
  LET r == Wrap(a * n, Half64)
  IN  IF a # Wrap(a, Half32) /\ Sign(r) # Sign(a) * Sign(n)
      THEN OutOfRange ELSE Done(r)

\* The overflow of a product seen by dividing it again, which is skipped
\* when both factors fit 32 bits.
ProductByDivision(a, n) ==
  LET r == Wrap(a * n, Half64)
  IN  IF a # Wrap(a, Half32) /\ Quot(r, a) # n THEN OutOfRange ELSE Done(r)

\* The quotient by an integer; only the division by -1 can overflow.
QuotientBySign(a, n) ==
  IF n = 0 THEN DivisionByZero
  ELSE IF n = -1 THEN fixeddecimalum(a)
  ELSE Done(Quot(a, n))

fixeddecimalint4pl(a, n) == SumBySigns(a, n * Multiplier)
fixeddecimalint4mi(a, n) == DifferenceBySigns(a, n * Multiplier)
fixeddecimalint4mul(a, n) == ProductByDivision(a, n)
fixeddecimalint4div(a, n) == QuotientBySign(a, n)
int4fixeddecimalpl(n, a) == SumBySigns(n * Multiplier, a)
int4fixeddecimalmi(n, a) == DifferenceBySigns(n * Multiplier, a)
int4fixeddecimalmul(n, a) == ProductByDivision(a, n)

fixeddecimalint2pl(a, n) == SumBySigns(a, n * Multiplier)
fixeddecimalint2mi(a, n) == DifferenceBySigns(a, n * Multiplier)
fixeddecimalint2mul(a, n) == ProductByDivision(a, n)
fixeddecimalint2div(a, n) == QuotientBySign(a, n)
int2fixeddecimalpl(n, a) == SumBySigns(n * Multiplier, a)
int2fixeddecimalmi(n, a) == DifferenceBySigns(n * Multiplier, a)
int2fixeddecimalmul(n, a) == ProductByDivision(a, n)

(* Conversions to integers round towards zero.                             *)

fixeddecimalint8(a) == Done(Quot(a, Multiplier))

fixeddecimalint4(a) == Checked(Quot(a, Multiplier), Half32)

fixeddecimalint2(a) == Checked(Quot(a, Multiplier), Half16)

-----------------------------------------------------------------------------
(* smallmoney: a 64-bit integer that the domain keeps within 32 bits.      *)

smallmoneypl(a, b) == Checked(a + b, Half32)

smallmoneymi(a, b) == Checked(a - b, Half32)

smallmoneymul(a, b) == Checked(Product(a, b), Half32)

smallmoneydiv(a, b) ==
  IF b = 0 THEN DivisionByZero ELSE Checked(Quot(a * Multiplier, b), Half32)

\* The sum with a bigint is taken in 64 bits, where it may wrap, before it
\* is compared with the limits of 32 bits.
smallmoneyint8pl(a, n) ==
  WithScaled(n, Checked(Wrap(a + n * Multiplier, Half64), Half32), Half64)
smallmoneyint8mi(a, n) ==
  WithScaled(n, Checked(Wrap(a - n * Multiplier, Half64), Half32), Half64)
smallmoneyint8mul(a, n) == Checked(a * n, Half32)
smallmoneyint8div(a, n) ==
  IF n = 0 THEN DivisionByZero
  ELSE IF n = -1 THEN (IF a = -Half32 THEN OutOfRange ELSE Done(-a))
  ELSE Done(Quot(a, n))
int8smallmoneypl(n, a) ==
  WithScaled(n, Checked(Wrap(n * Multiplier + a, Half64), Half32), Half64)
int8smallmoneymi(n, a) ==
  WithScaled(n, Checked(Wrap(n * Multiplier - a, Half64), Half32), Half64)
int8smallmoneymul(n, a) == Checked(n * a, Half32)

smallmoneyint4pl(a, n) ==
  WithScaled(n, Checked(a + n * Multiplier, Half32), Half32)
smallmoneyint4mi(a, n) ==
  WithScaled(n, Checked(a - n * Multiplier, Half32), Half32)
smallmoneyint4mul(a, n) == Checked(a * n, Half32)
smallmoneyint4div(a, n) == smallmoneyint8div(a, n)
int4smallmoneypl(n, a) ==
  WithScaled(n, Checked(n * Multiplier + a, Half32), Half32)
int4smallmoneymi(n, a) ==
  WithScaled(n, Checked(n * Multiplier - a, Half32), Half32)
int4smallmoneymul(n, a) == Checked(n * a, Half32)

\* A scaled smallint fits 32 bits, so that its product is not checked.
smallmoneyint2pl(a, n) == Checked(a + Wrap(n * Multiplier, Half32), Half32)
smallmoneyint2mi(a, n) == Checked(a - Wrap(n * Multiplier, Half32), Half32)
smallmoneyint2mul(a, n) == Checked(a * n, Half32)
smallmoneyint2div(a, n) == smallmoneyint8div(a, n)
int2smallmoneypl(n, a) == Checked(Wrap(n * Multiplier, Half32) + a, Half32)
int2smallmoneymi(n, a) == Checked(Wrap(n * Multiplier, Half32) - a, Half32)
int2smallmoneymul(n, a) == Checked(n * a, Half32)

-----------------------------------------------------------------------------
(* Comparisons with integers; -1, 0 or 1.  Each block of seven functions   *)
(* (=, <>, <, >, <=, >= and the btree comparison) makes one comparison.    *)

FixedDecimalMax == Quot(Half64 - 1, Multiplier)
FixedDecimalMin == Quot(-Half64, Multiplier)


fixeddecimal_int8_cmp(a, n) ==
  IF n > FixedDecimalMax THEN -1
  ELSE IF n < FixedDecimalMin THEN 1
  ELSE Sign(a - Wrap(n * Multiplier, Half64))

int8_fixeddecimal_cmp(n, a) ==
  IF n > FixedDecimalMax THEN 1
  ELSE IF n < FixedDecimalMin THEN -1
  ELSE Sign(Wrap(n * Multiplier, Half64) - a)

fixeddecimal_int4_cmp(a, n) == Sign(a - n * Multiplier)
int4_fixeddecimal_cmp(n, a) == Sign(n * Multiplier - a)
fixeddecimal_int2_cmp(a, n) == Sign(a - n * Multiplier)
int2_fixeddecimal_cmp(n, a) == Sign(n * Multiplier - a)

-----------------------------------------------------------------------------
(* Texts.  A text is its sign, the digits before the point and the digits  *)
(* after it; spaces, currency signs and separators carry no value.         *)

Scale == 2 * ShortScale

\* pg_int64tostr_zeropad: the last w digits of n >= 0
ZeroPad(n, w) == [i \in 1 .. w |-> (n \div Base ^ (w - i)) % Base]

\* pg_int64tostr: the digits of n >= 0, at least one
Digits(n) ==
  ZeroPad(n, CHOOSE w \in 1 .. 30 :
               Base ^ w > n /\ (w = 1 \/ Base ^ (w - 1) <= n))

\* The text of a value with so many decimals; the sign is also written when
\* the part before the point is zero.
Written(a, unit, decimals) ==
  [neg  |-> a < 0,
   int  |-> Digits(Abs(Quot(a, unit))),
   frac |-> ZeroPad(Abs(Rem(a, unit)), decimals)]

fixeddecimalout(a) == Written(a, Multiplier, Scale)

\* fixeddecimal2str for a conversion to a string type: the decimals that
\* are not kept are dropped, and the first of them, taken with the 32-bit
\* abs(), rounds.
fixeddecimal2str(a) ==
  LET factor == Multiplier \div (ShortMultiplier * Base)
      digit == Rem(Wrap(Abs(Wrap(Quot(a, factor), Half32)), Half32), Base)
      cut == Quot(a, ShortMultiplier)
      rounded == IF digit < Base \div 2 THEN cut
                 ELSE IF cut >= 0 THEN cut + 1 ELSE cut - 1
  IN  Written(rounded, ShortMultiplier, ShortScale)

\* The loop that reads the digits before the point, with its test that the
\* number divided again gives the number before the digit.
ScanInteger(neg, digits) ==
  FoldLeft(LAMBDA acc, d :
             LET tmp == Wrap(acc.v * Base + (IF neg THEN -d ELSE d), Half64)
             IN  [v |-> tmp, ok |-> acc.ok /\ Quot(tmp, Base) = acc.v],
           [v |-> 0, ok |-> TRUE], digits)


\* The digits after the point; the first one too many rounds half away
\* from zero, the others are dropped.
ScanFraction(digits) ==
  FoldLeft(LAMBDA acc, i : acc + digits[i] * Base ^ (Scale - i), 0,
           [i \in 1 .. (IF Len(digits) < Scale THEN Len(digits) ELSE Scale) |-> i])
  + (IF Len(digits) > Scale /\ digits[Scale + 1] >= Base \div 2 THEN 1 ELSE 0)

\* The two parts put together; the overflow is looked for in the signs.
ScanCombine(neg, integralpart, fractionalpart) ==
  LET value == Wrap(integralpart * Multiplier, Half64)
      less == Wrap(value - fractionalpart, Half64)
      more == Wrap(value + fractionalpart, Half64)
  IN  IF /\ value # 0
         /\ \/ ~SAMESIGN(value, integralpart)
            \/ ~SAMESIGN(less, value)
            \/ ~neg /\ ~SAMESIGN(more, value)
      THEN OutOfRange
      ELSE Done(IF neg THEN less ELSE more)

scanfixeddecimal(t) ==
  LET integral == ScanInteger(t.neg, t.int)
  IN  IF ~integral.ok THEN OutOfRange
      ELSE ScanCombine(t.neg, integral.v, ScanFraction(t.frac))

-----------------------------------------------------------------------------
(* SUM and AVG.  Every worker of a parallel aggregate accumulates rows in  *)
(* a state of its own; the leader combines the states in any order.        *)

NoRows == [n |-> 0, sum |-> 0, exact |-> 0]

Running == task.kind = "aggregate" /\ ~total.failed

\* Mutant of Accumulated: the first row is added to what the state holds,
\* and the state of the second row is overwritten.
AccumulatedLate(s, v) == IF s.n > 1 THEN SumBySigns(s.sum, v) ELSE Done(v)

\* fixeddecimal_accum: the first row sets the sum
Accumulated(s, v) == IF s.n > 0 THEN SumBySigns(s.sum, v) ELSE Done(v)

\* fixeddecimal_avg_accum
AvgAccum(w, v) ==
  /\ Running
  /\ w \in total.left
  /\ agg[w].n < MaxRows
  /\ LET r == Accumulated(agg[w], v)
     IN  IF r = OutOfRange
         THEN total' = [total EXCEPT !.failed = TRUE] /\ UNCHANGED agg
         ELSE /\ agg' = [agg EXCEPT ![w] = [n |-> @.n + 1, sum |-> r[2],
                                            exact |-> @.exact + v]]
              /\ UNCHANGED total
  /\ UNCHANGED task

\* fixeddecimalaggstatecombine, of a state that was sent to the leader
Combine(w) ==
  /\ Running
  /\ w \in total.left
  /\ LET r == fixeddecimalpl(total.sum, agg[w].sum)
     IN  total' = IF r = OutOfRange
                  THEN [total EXCEPT !.failed = TRUE]
                  ELSE [total EXCEPT !.n = @ + agg[w].n, !.sum = r[2],
                                     !.exact = @ + agg[w].exact,
                                     !.left = @ \ {w}]
  /\ UNCHANGED <<task, agg>>

\* fixeddecimal_avg; there is none without rows
Average(s) == IF s.n = 0 THEN <<>> ELSE <<Quot(s.sum, s.n)>>

Tasks ==
       {[kind |-> "operands", a |-> a, b |-> b] : a, b \in Operands}
  \cup {[kind |-> "text", text |-> t] : t \in Texts}
  \cup {[kind |-> "aggregate"]}

InitFor(t) ==
  /\ task = t
  /\ agg = [w \in Workers |-> NoRows]
  /\ total = [n |-> 0, sum |-> 0, exact |-> 0, left |-> Workers, failed |-> FALSE]
Init == \E t \in Tasks : InitFor(t)

Next ==
  \/ \E w \in Workers, v \in Inputs : AvgAccum(w, v)
  \/ \E w \in Workers : Combine(w)

Spec == Init /\ [][Next]_vars

-----------------------------------------------------------------------------
(* What the operators promise.                                             *)

\* A value as exact arithmetic gives it: returned if it fits, else refused.
Exactly(pairs, half) ==
  \A p \in pairs : p[1] = Checked(p[2], half)

\* The product may be one unit off, in either direction, from the quotient
\* rounded towards zero.
CloseProduct(r, a, b, half) ==
  LET q == Quot(a * b, Multiplier)
  IN  \/ \E d \in -1 .. 1 : r = Done(q + d) /\ Fits(q + d, half)
      \/ r = OutOfRange /\ ~(Fits(q - 1, half) /\ Fits(q + 1, half))

ExactMoney(a, b) ==
  /\ Exactly({<<fixeddecimalum(a), -a>>, <<fixeddecimalabs(a), Abs(a)>>,
              <<fixeddecimalpl(a, b), a + b>>, <<fixeddecimalmi(a, b), a - b>>},
             Half64)
  /\ CloseProduct(fixeddecimalmul(a, b), a, b, Half64)
  /\ b # 0 => Exactly({<<fixeddecimaldiv(a, b), Quot(a * Multiplier, b)>>,
                       <<fixeddecimalmod(a, b), Rem(a, b)>>}, Half64)
  /\ LET up == CHOOSE c \in 0 .. Multiplier - 1 : (a + c) % Multiplier = 0
         down == a % Multiplier
     IN  Exactly({<<fixeddecimal_ceiling(a), a + up>>,
                  <<fixeddecimal_floor(a), a - down>>}, Half64)

\* A money value and an integer, as the code of each width computes them.
ExactMixed(a, n) ==
  LET s == n * Multiplier
      scaled(half, r, x) == Fits(s, half) => r = Checked(x, Half64)
      sums == {<<fixeddecimalint4pl(a, n), a + s>>, <<fixeddecimalint4mi(a, n), a - s>>,
               <<int4fixeddecimalpl(n, a), s + a>>, <<int4fixeddecimalmi(n, a), s - a>>,
               <<fixeddecimalint4mul(a, n), a * n>>, <<int4fixeddecimalmul(n, a), n * a>>}
      halves == {<<fixeddecimalint2pl(a, n), a + s>>, <<fixeddecimalint2mi(a, n), a - s>>,
                 <<int2fixeddecimalpl(n, a), s + a>>, <<int2fixeddecimalmi(n, a), s - a>>,
                 <<fixeddecimalint2mul(a, n), a * n>>, <<int2fixeddecimalmul(n, a), n * a>>}
  IN  /\ scaled(Half64, fixeddecimalint8pl(a, n), a + s)
      /\ scaled(Half64, fixeddecimalint8mi(a, n), a - s)
      /\ scaled(Half64, int8fixeddecimalpl(n, a), s + a)
      /\ scaled(Half64, int8fixeddecimalmi(n, a), s - a)
      /\ Exactly({<<int8fixeddecimal_internal(n), s>>,
                  <<fixeddecimalint8mul(a, n), a * n>>,
                  <<int8fixeddecimalmul(n, a), n * a>>}, Half64)
      /\ n # 0 => Exactly({<<fixeddecimalint8div(a, n), Quot(a, n)>>}, Half64)
      /\ Fits(n, Half32) => Exactly(sums, Half64)
      /\ Fits(n, Half32) /\ n # 0 => Exactly({<<fixeddecimalint4div(a, n), Quot(a, n)>>}, Half64)
      /\ Fits(n, Half16) => Exactly(halves, Half64)
      /\ Fits(n, Half16) /\ n # 0 => Exactly({<<fixeddecimalint2div(a, n), Quot(a, n)>>}, Half64)

\* A smallmoney value with another one and with an integer.
ExactSmall(a, n) ==
  LET s == n * Multiplier
      refused(r, x) == r = Checked(x, Half32) \/ (r = OutOfRange /\ ~Fits(s, Half32))
  IN  Fits(a, Half32) =>
      /\ Fits(n, Half32) =>
           /\ Exactly({<<smallmoneypl(a, n), a + n>>, <<smallmoneymi(a, n), a - n>>}, Half32)
           /\ CloseProduct(smallmoneymul(a, n), a, n, Half32)
           /\ n # 0 => Exactly({<<smallmoneydiv(a, n), Quot(a * Multiplier, n)>>}, Half32)
           /\ refused(smallmoneyint4pl(a, n), a + s) /\ refused(smallmoneyint4mi(a, n), a - s)
           /\ refused(int4smallmoneypl(n, a), s + a) /\ refused(int4smallmoneymi(n, a), s - a)
           /\ Exactly({<<smallmoneyint4mul(a, n), a * n>>, <<int4smallmoneymul(n, a), n * a>>}, Half32)
           /\ n # 0 => Exactly({<<smallmoneyint4div(a, n), Quot(a, n)>>}, Half32)
      /\ refused(smallmoneyint8pl(a, n), a + s) /\ refused(smallmoneyint8mi(a, n), a - s)
      /\ refused(int8smallmoneypl(n, a), s + a) /\ refused(int8smallmoneymi(n, a), s - a)
      /\ Exactly({<<smallmoneyint8mul(a, n), a * n>>, <<int8smallmoneymul(n, a), n * a>>}, Half32)
      /\ n # 0 => Exactly({<<smallmoneyint8div(a, n), Quot(a, n)>>}, Half32)
      /\ Fits(n, Half16) =>
           /\ Exactly({<<smallmoneyint2pl(a, n), a + s>>, <<smallmoneyint2mi(a, n), a - s>>,
                       <<int2smallmoneypl(n, a), s + a>>, <<int2smallmoneymi(n, a), s - a>>,
                       <<smallmoneyint2mul(a, n), a * n>>, <<int2smallmoneymul(n, a), n * a>>},
                      Half32)
           /\ n # 0 => Exactly({<<smallmoneyint2div(a, n), Quot(a, n)>>}, Half32)

\* The comparisons of money with integers order the exact values, and the
\* two directions agree, also for a bigint that no money value can hold.
ComparisonsExact ==
  task.kind = "operands" =>
    LET a == task.a
        n == task.b
        order == Sign(a - n * Multiplier)
    IN  /\ fixeddecimal_int8_cmp(a, n) = order
        /\ int8_fixeddecimal_cmp(n, a) = -order
        /\ Fits(n, Half32) => /\ fixeddecimal_int4_cmp(a, n) = order
                              /\ int4_fixeddecimal_cmp(n, a) = -order
        /\ Fits(n, Half16) => /\ fixeddecimal_int2_cmp(a, n) = order
                              /\ int2_fixeddecimal_cmp(n, a) = -order


\* The number a text stands for, to the decimals of money.
TextValue(t) ==
  LET number(ds) == FoldLeft(LAMBDA acc, d : acc * Base + d, 0, ds)
      all == number(t.int \o t.frac)
      scaled == IF Len(t.frac) <= Scale THEN all * Base ^ (Scale - Len(t.frac))
                ELSE (all + Base ^ (Len(t.frac) - Scale) \div 2)
                       \div Base ^ (Len(t.frac) - Scale)
  IN  IF t.neg THEN -scaled ELSE scaled


\* A SUM that does not fail is the exact sum of the rows of all workers,
\* whatever order the workers and the leader took them in, and AVG divides
\* it by their number.
SumExact ==
  ~total.failed =>
    /\ \A w \in Workers : agg[w].sum = agg[w].exact
    /\ total.sum = total.exact
    /\ total.n > 0 => Average(total) = <<Quot(total.exact, total.n)>>

=============================================================================
