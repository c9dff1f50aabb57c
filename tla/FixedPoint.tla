----------------------------- MODULE FixedPoint -----------------------------
(***************************************************************************)
(* Fixed-point arithmetic (fx.h, det_math.h, rng.h) and the `fx` table     *)
(* through which scripts reach it (bind_fx.cpp).  Rows are W bits wide and *)
(* intermediates 2 * W, where the code has 32 and 64; each entry of the    *)
(* table is an action that leaves the call and what the script gets.       *)
(* Preconditions the code asserts are operators named ...Dies.             *)
(***************************************************************************)
EXTENDS Integers, Sequences

CONSTANTS
    W,              \* bits of a row
    WideW,          \* bits of the wide operands checked in pairs
    Frac,           \* the palette: fraction bits of each row
    InvH,           \* INV_H
    SinPoly,        \* SIN_POLY4, scaled to TrigFrac
    AtanTable,      \* ATAN_POLY5_LUT8_TURNS, scaled to TrigFrac, by segment
    TrigFrac,       \* fraction bits of an angle and of a sine
    Places,         \* digits the parser takes after the point
    StrPlaces       \* digits fx.str develops after the point

VARIABLES
    call,           \* the last call: its entry of the table and its arguments
    got             \* what came back: values, a Luau error, or an assertion

nvars == <<call, got>>

(* ---- integers of a width ---- *)

Signed(w) == -(2^(w-1)) .. 2^(w-1) - 1
Row == Signed(W)
RowMax == 2^(W-1) - 1
RowMin == -(2^(W-1))
Wrap(w, x) == ((x + 2^(w-1)) % 2^w) - 2^(w-1)
Bits(w, x) == x % 2^w                       \* the u64 of an i64
AbsOf(x) == IF x < 0 THEN -x ELSE x
Clamped(w, x) == IF x > 2^(w-1) - 1 THEN 2^(w-1) - 1 ELSE IF x < -(2^(w-1)) THEN -(2^(w-1)) ELSE x

\* The 64-bit forms of sat_add and sat_sub know the overflow by its signs.
SatAddWide(w, a, b) ==
    LET s == Wrap(w, a + b)
    IN IF (a < 0) # (s < 0) /\ (b < 0) # (s < 0) THEN (IF a < 0 THEN -(2^(w-1)) ELSE 2^(w-1) - 1) ELSE s
SatSubWide(w, a, b) ==
    LET s == Wrap(w, a - b)
    IN IF (a < 0) # (b < 0) /\ (a < 0) # (s < 0) THEN (IF a < 0 THEN -(2^(w-1)) ELSE 2^(w-1) - 1) ELSE s

\* mulhi64u: four partial products of half the width.
MulHiU(w, a, b) ==
    LET h == 2^(w \div 2)
        p1 == (a % h) * (b \div h)
        p2 == (a \div h) * (b % h)
        mid == (((a % h) * (b % h)) \div h) + (p1 % h) + (p2 % h)
    IN (a \div h) * (b \div h) + (p1 \div h) + (p2 \div h) + (mid \div h)
MulHi(w, a, b) ==
    Wrap(w, MulHiU(w, Bits(w, a), Bits(w, b))
            - (IF a < 0 THEN Bits(w, b) ELSE 0) - (IF b < 0 THEN Bits(w, a) ELSE 0))
SatMulWide(w, a, b) ==
    LET lo == Wrap(w, a * b)
    IN IF MulHi(w, a, b) # (IF lo < 0 THEN -1 ELSE 0)
       THEN (IF (a < 0) # (b < 0) THEN -(2^(w-1)) ELSE 2^(w-1) - 1)
       ELSE lo

(* ---- rounding ---- *)

\* A tie goes up instead of to the even quotient.
Bug_RneShr(x, s) == IF s = 0 THEN x ELSE (x + 2^(s-1)) \div 2^s

RneShr(x, s) ==
    LET q == x \div 2^s
        r == x % 2^s
        half == 2^(s-1)
    IN IF s = 0 THEN x ELSE IF r > half \/ (r = half /\ q % 2 = 1) THEN q + 1 ELSE q

\* C's division truncates; the quotient moves away from zero when it must.
RneDiv(n, d) ==
    LET sign == IF (n < 0) # (d < 0) THEN -1 ELSE 1
        q == sign * (AbsOf(n) \div AbsOf(d))
        r2 == 2 * (AbsOf(n) % AbsOf(d))
    IN IF r2 > AbsOf(d) \/ (r2 = AbsOf(d) /\ q % 2 = 1) THEN q + sign ELSE q

(* ---- palette arithmetic ---- *)

Shift(r, a, b) == Frac[a] + Frac[b] - Frac[r]
Mul(r, a, b, x, y) == RneShr(x * y, Shift(r, a, b))
SatMul(r, a, b, x, y) == Clamped(W, Mul(r, a, b, x, y))
DivShift(r, a, b) == Frac[r] + Frac[b] - Frac[a]
\* A slim tier returns a saturated quotient where the assertion would have been.
Div(r, a, b, x, y) ==
    IF y = 0 THEN (IF x < 0 THEN -RowMax ELSE IF x > 0 THEN RowMax ELSE 0)
    ELSE RneDiv(x * 2^DivShift(r, a, b), y)
To(r, a, x) == IF Frac[r] >= Frac[a] THEN x * 2^(Frac[r] - Frac[a]) ELSE RneShr(x, Frac[a] - Frac[r])

\* Products of the palette that the scripts' operations are made of.
Products ==
    {<<"pos", "vel", "dt">>, <<"pos", "q", "pos">>, <<"vel", "q", "vel">>, <<"scalar", "q", "scalar">>,
     <<"pos", "scalar", "pos">>, <<"vel", "scalar", "vel">>, <<"q", "scalar", "q">>}

(* ---- what a call answers ---- *)

Raised == [how |-> "raised", out |-> <<>>]
Died == [how |-> "died", out |-> <<>>]
Given(out) == [how |-> "given", out |-> out]

(* ---- square roots ---- *)

\* isqrt64: two bits of x and one of the root per step, from the top.
ISqrt(w, x) ==
    LET rest[i \in 0 .. w \div 2] ==
            IF i = 0 THEN [res |-> 0, rem |-> 0]
            ELSE LET rem == 4 * rest[i-1].rem + ((x \div 2^(w - 2 * i)) % 4)
                     trial == 4 * rest[i-1].res + 1
                 IN IF rem >= trial THEN [res |-> 2 * rest[i-1].res + 1, rem |-> rem - trial]
                    ELSE [res |-> 2 * rest[i-1].res, rem |-> rem]
    IN rest[w \div 2].res
Nearest(n, y) == IF n - y * y > y THEN y + 1 ELSE y
Sqrt(n) == Nearest(n, ISqrt(2 * W, n))
\* The root must fit the row.
RootAnswer(y) == IF y > RowMax THEN Died ELSE Given(<<y>>)

(* ---- trigonometry in turns ---- *)

UnitSinPoly(z) ==
    LET zz == RneShr(z * z, TrigFrac)
        y1 == RneShr(zz * SinPoly[1], TrigFrac)
        y2 == RneShr(zz * (y1 + SinPoly[2]), TrigFrac)
        y3 == RneShr(zz * (y2 + SinPoly[3]), TrigFrac)
        y4 == RneShr(zz * (y3 + SinPoly[4]), TrigFrac)
    IN RneShr((y4 + SinPoly[5]) * z, TrigFrac)
\* Quarter turns modulo four; the outer two quadrants mirror into the inner two.
AngleW == TrigFrac + 2
Mirrored(uz) ==
    LET top == uz \div 2^(AngleW - 1)
        next == (uz \div 2^(AngleW - 2)) % 2
    IN IF top # next THEN (2^(AngleW - 1) - uz) % 2^AngleW ELSE uz
UnitSin(uz) ==
    LET s == UnitSinPoly(Wrap(AngleW, Mirrored(uz)))
    IN IF s > 2^TrigFrac THEN 2^TrigFrac ELSE IF s < -(2^TrigFrac) THEN -(2^TrigFrac) ELSE s
Sin(a) == UnitSin((4 * a) % 2^AngleW)
Cos(a) == UnitSin((4 * a + 2^TrigFrac) % 2^AngleW)

Horner(k, z) ==
    LET y1 == RneShr(z * k[1], TrigFrac)
        y2 == RneShr(z * (y1 + k[2]), TrigFrac)
        y3 == RneShr(z * (y2 + k[3]), TrigFrac)
        y4 == RneShr(z * (y3 + k[4]), TrigFrac)
    IN RneShr(z * (y4 + k[5]), TrigFrac) + k[6]
AtanUnit(z) == Horner(AtanTable[z \div 2^(TrigFrac - 3)], z)
\* Octant reduction, one rounded ratio, the polynomial, unfold.
Octant(y, x) ==
    LET small == IF AbsOf(y) > AbsOf(x) THEN AbsOf(x) ELSE AbsOf(y)
        big == IF AbsOf(y) > AbsOf(x) THEN AbsOf(y) ELSE AbsOf(x)
    IN AtanUnit(RneDiv(small * 2^TrigFrac, big))
Unfold(y, x, r) ==
    LET r1 == IF AbsOf(y) > AbsOf(x) THEN 2^(TrigFrac - 2) - r ELSE r
        r2 == IF x < 0 THEN 2^(TrigFrac - 1) - r1 ELSE r1
    IN IF y < 0 THEN -r2 ELSE r2
Atan2(y, x) == IF x = 0 /\ y = 0 THEN 0 ELSE Unfold(y, x, Octant(y, x))

(* ---- decimal literals ---- *)

U64 == 2^(2 * W)
\* A literal: its sign, its digits before and after the point, whether junk follows.
Number(digits) ==
    LET acc[i \in 0 .. Len(digits)] ==
            IF i = 0 THEN [ok |-> TRUE, n |-> 0]
            ELSE IF ~acc[i-1].ok \/ acc[i-1].n > (U64 - 1 - digits[i]) \div 10
                 THEN [ok |-> FALSE, n |-> 0]
                 ELSE [ok |-> TRUE, n |-> acc[i-1].n * 10 + digits[i]]
    IN acc[Len(digits)]
Refused == [ok |-> FALSE, raw |-> 0]
Quantized(neg, num, den, frac) ==
    LET q == RneDiv((IF neg THEN -num ELSE num) * 2^frac, den)
    IN IF q \in Row THEN [ok |-> TRUE, raw |-> q] ELSE Refused
ParseParts(lit, int, low, den, frac) ==
    IF ~int.ok \/ ~low.ok \/ (int.n # 0 /\ den > (U64 - 1) \div int.n)
       \/ int.n * den > U64 - 1 - low.n \/ int.n * den + low.n >= 2^(2 * W - 1 - frac)
    THEN Refused
    ELSE Quantized(lit.neg, int.n * den + low.n, den, frac)
ParseDecimal(lit, frac) ==
    IF lit.junk \/ lit.int \o lit.frac = <<>> \/ Len(lit.frac) > Places THEN Refused
    ELSE ParseParts(lit, Number(lit.int), Number(lit.frac), 10^Len(lit.frac), frac)

\* fx.str: digits of the whole part, then StrPlaces digits, the rest cut off.
Digits(n) ==
    LET d[k \in 0 .. n] == IF k < 10 THEN <<k>> ELSE Append(d[k \div 10], k % 10) IN d[n]
Developed(rem, frac) ==
    [i \in 1 .. StrPlaces |-> (((rem * 10^(i-1)) % 2^frac) * 10) \div 2^frac]
Str(v, frac) ==
    [neg |-> v < 0, int |-> Digits(AbsOf(v) \div 2^frac), frac |-> Developed(AbsOf(v) % 2^frac, frac),
     junk |-> FALSE]

(* ---- draws ---- *)

RngBelow(w, r, n) == MulHiU(w, r, n)
RngQ(r) == r \div 2^(2 * W - Frac["q"])
RngRangeDies(lo, hi) == lo > hi \/ hi - lo > RowMax
RngRange(r, lo, hi) == Wrap(W, lo + RneShr(RngQ(r) * (hi - lo), Frac["q"]))

(* ---- the fx table ---- *)

\* check_fits_i32.
Fitted(r) == IF r \in Row THEN Given(<<r>>) ELSE Raised
\* check_raw on every argument comes before any helper.
Called(op, args, answer) ==
    /\ call' = [op |-> op, args |-> args]
    /\ got' = IF \A i \in DOMAIN args : args[i] \in Row THEN answer ELSE Raised

Args == Row \cup {RowMax + 1}
Few == {RowMin, -1, 0, 1, 2^Frac["q"], RowMax}

\* Arguments of fx.pos and the like, in halves of a quantum.
Literal == \E k \in -(2^W) - 1 .. 2^W + 1 :
    /\ call' = [op |-> "literal", args |-> <<k>>]
    /\ got' = IF AbsOf(k) >= 2^W \/ k % 2 = 1 THEN Raised ELSE Given(<<k \div 2>>)
MulQ == \E q, a \in Args : Called("mul_q", <<q, a>>, Fitted(RneShr(q * a, Frac["q"])))
MulScalar == \E s, a \in Args : Called("mul_scalar", <<s, a>>, Fitted(RneShr(s * a, Frac["scalar"])))
DivQ == \E a, b \in Args :
    Called("div_q", <<a, b>>, IF b = 0 THEN Raised ELSE Fitted(RneDiv(a * 2^Frac["q"], b)))
MulPosVelDt == \E x, v \in Args :
    Called("mul_pos_vel_dt", <<x, v>>,
           IF Mul("pos", "vel", "dt", v, RneDiv(2^Frac["dt"], InvH)) \notin Row THEN Died
           ELSE Given(<<Wrap(W, x + Mul("pos", "vel", "dt", v, RneDiv(2^Frac["dt"], InvH)))>>))
VelFromDelta == \E dx \in Args :
    Called("vel_from_delta", <<dx>>, Fitted(dx * InvH * 2^(Frac["vel"] - Frac["pos"])))

\* The bound of i64 is checked, the one of pos is not.
Bug_Measured(dx, dy) ==
    IF dx * dx > 2^(2 * W - 1) - 1 - dy * dy THEN Raised ELSE RootAnswer(Sqrt(dx * dx + dy * dy))

\* The sum of two squares, refused past what i64 and then pos hold.
Measured(dx, dy) ==
    IF dx * dx > 2^(2 * W - 1) - 1 - dy * dy \/ dx * dx + dy * dy > RowMax * RowMax THEN Raised
    ELSE RootAnswer(Sqrt(dx * dx + dy * dy))
Dist == \E x0 \in {RowMin, 1}, x1, y1 \in Args :
    Called("dist", <<x0, 0, x1, y1>>, Measured(Wrap(W, x1 - x0), Wrap(W, y1 - 0)))
UnitAnswer(x, y) == IF x \in Row /\ y \in Row THEN Given(<<x, y>>) ELSE Died
Unit(dx, dy, l) ==
    IF l = 0 THEN Died ELSE UnitAnswer(Div("q", "pos", "pos", dx, l), Div("q", "pos", "pos", dy, l))
NormalAnswer(dx, dy, measured) ==
    IF measured.how = "given" THEN Unit(dx, dy, measured.out[1]) ELSE measured
Normalize == \E dx, dy \in Args :
    Called("normalize", <<dx, dy>>,
           IF dx = 0 /\ dy = 0 THEN Given(<<0, 0>>)
           ELSE NormalAnswer(dx, dy, Measured(dx, dy)))

SinCos == \E a \in Signed(AngleW) :
    /\ call' = [op |-> "sincos", args |-> <<a>>] /\ got' = Given(<<Sin(a), Cos(a)>>)
BindAtan2 == \E y, x \in Args :
    Called("atan2", <<y, x>>, IF y = 0 /\ x = 0 THEN Raised ELSE Given(<<Atan2(y, x)>>))
Lerp == \E a, b \in Args, t \in Few :
    Called("lerp", <<a, b, t>>, Fitted(a + RneShr(Wrap(W, b - a) * t, Frac["q"])))
SatAddSub == \E a, b \in Args :
    \/ Called("sat_add", <<a, b>>, Given(<<Clamped(W, a + b)>>))
    \/ Called("sat_sub", <<a, b>>, Given(<<Clamped(W, a - b)>>))
IClamp == \E x \in Row, lo, hi \in Few :
    Called("iclamp", <<x, lo, hi>>,
           IF lo > hi THEN Raised ELSE Given(<<IF x < lo THEN lo ELSE IF x > hi THEN hi ELSE x>>))
BindStr == \E v \in Args, frac \in 0 .. W - 2 :
    /\ call' = [op |-> "str", args |-> <<v, frac>>]
    /\ got' = IF v \notin Row THEN Raised
              ELSE Given(<<ParseDecimal(Str(v, frac), frac).raw>>)
\* The engine's own users: a wide operand, a typed or saved literal, a draw.
TakeWide == \E a \in Signed(WideW) : call' = [op |-> "wide", args |-> <<a>>] /\ got' = Given(<<>>)
Parse == \E neg \in BOOLEAN, int, low \in 0 .. 9, n, k \in 0 .. Places + 1, frac \in {0, W - 2} :
    /\ call' = [op |-> "parse", args |-> <<IF neg THEN 1 ELSE 0, int, low, n, k, frac>>]
    /\ got' = LET p == ParseDecimal([neg |-> neg, int |-> [i \in 1 .. n |-> int], junk |-> FALSE,
                                     frac |-> [i \in 1 .. k |-> low]], frac)
              IN IF p.ok THEN Given(<<p.raw>>) ELSE Raised
Draw == \E q \in 0 .. 2^Frac["q"] - 1, lo, hi \in Few :
    /\ call' = [op |-> "range", args |-> <<q, lo, hi>>]
    /\ got' = IF RngRangeDies(lo, hi) THEN Raised
              ELSE Given(<<RngRange(q * 2^(2 * W - Frac["q"]), lo, hi)>>)

NInit == call = [op |-> "none", args |-> <<>>] /\ got = Given(<<>>)
Arithmetic ==
    Literal \/ MulQ \/ MulScalar \/ DivQ \/ MulPosVelDt \/ VelFromDelta \/ Lerp \/ SatAddSub \/ IClamp
Geometry == Dist \/ Normalize \/ SinCos \/ BindAtan2 \/ BindStr \/ TakeWide \/ Parse \/ Draw
NNext == call.op = "none" /\ (Arithmetic \/ Geometry)
NSpec == NInit /\ [][NNext]_nvars

(* ---- properties ---- *)

\* q is n / d rounded once, to the nearest, ties to the even quotient.
Rounds(q, n, d) ==
    LET e == 2 * AbsOf(n - q * d) IN e <= AbsOf(d) /\ (e = AbsOf(d) => q % 2 = 0)

\* No argument a script can pass reaches an assertion (bind_fx.cpp, its header).
NoScriptKillsTheProcess == got.how # "died"

\* What a script gets is the exact result rounded once, and an error exactly
\* when no value of the row is that.
SaysExactly(op, n, d) ==
    call.op = op /\ (\A i \in DOMAIN call.args : call.args[i] \in Row) =>
        IF got.how = "given" THEN Rounds(got.out[1], n, d) ELSE ~\E r \in Row : Rounds(r, n, d)
A(i) == IF i \in DOMAIN call.args THEN call.args[i] ELSE 0
ScriptsSeeExactResults ==
    /\ SaysExactly("mul_q", A(1) * A(2), 2^Frac["q"])
    /\ SaysExactly("mul_scalar", A(1) * A(2), 2^Frac["scalar"])
    /\ A(2) # 0 => SaysExactly("div_q", A(1) * 2^Frac["q"], A(2))
    /\ call.op = "literal" => (got.how = "given" <=> \E r \in Row \ {RowMin} : 2 * r = A(1))
    /\ call.op = "normalize" /\ got.how = "given" =>
           \A i \in 1 .. 2 : AbsOf(got.out[i]) <= 2^Frac["q"]

\* Where b - a does not wrap, an interpolation is a nearest value, its ends are
\* exact and it never leaves the interval.
LerpStaysBetween ==
    call.op = "lerp" /\ got.how = "given" /\ A(2) - A(1) \in Row =>
        LET one == 2^Frac["q"]
            r == got.out[1]
        IN /\ 2 * AbsOf((r - A(1)) * one - (A(2) - A(1)) * A(3)) <= one
           /\ A(3) = 0 => r = A(1)
           /\ A(3) = one => r = A(2)
           /\ A(3) \in 0 .. one => r \in A(1) .. A(2) \cup A(2) .. A(1)

\* The distance is the correctly rounded root of the exact square.
DistanceIsNearest ==
    call.op = "dist" /\ got.how = "given" =>
        LET n == Wrap(W, A(3) - A(1))^2 + Wrap(W, A(4) - A(2))^2
            y == got.out[1]
        IN 4 * n <= (2 * y + 1)^2 /\ (y > 0 => 4 * n >= (2 * y - 1)^2)

\* Saturation known by signs, and by a high half from partial products, is the
\* clamped exact result at the width of the word; so is each rounding.
WideIsExact ==
    call.op = "wide" => \A b \in Signed(WideW) :
        /\ SatAddWide(WideW, A(1), b) = Clamped(WideW, A(1) + b)
        /\ SatSubWide(WideW, A(1), b) = Clamped(WideW, A(1) - b)
        /\ SatMulWide(WideW, A(1), b) = Clamped(WideW, A(1) * b)
        /\ b # 0 => Rounds(RneDiv(A(1), b), A(1), b)
        /\ b \in 0 .. WideW => Rounds(RneShr(A(1), b), A(1), 2^b)
        /\ b > 0 => RngBelow(WideW, Bits(WideW, A(1)), b) \in 0 .. b - 1

\* Odd and even symmetry, the quarter turn and the bounds, bit for bit
\* (det_math.h's contracts of sincos and atan2).
TrigSymmetric ==
    /\ call.op = "sincos" =>
        /\ A(1) # RowMin => Sin(-A(1)) = -Sin(A(1)) /\ Cos(-A(1)) = Cos(A(1))
        /\ Sin(A(1) + 2^(TrigFrac - 2)) = Cos(A(1)) /\ Sin(0) = 0 /\ Sin(2^(TrigFrac - 2)) = 2^TrigFrac
        /\ AbsOf(got.out[1]) <= 2^TrigFrac
    /\ call.op = "atan2" /\ got.how = "given" =>
        /\ AbsOf(got.out[1]) <= 2^(TrigFrac - 1)
        /\ A(1) # 0 => Atan2(-A(1), A(2)) = -got.out[1]
        /\ (Atan2(A(2), A(1)) + got.out[1] - 2^(TrigFrac - 2)) % 2^TrigFrac = 0
        /\ A(1) = 0 \/ A(2) = 0 \/ AbsOf(A(1)) = AbsOf(A(2)) => got.out[1] % 2^(TrigFrac - 3) = 0

\* Text never reaches an assertion, is quantized once, and what fx.str printed
\* reads back within the digits it cut off.
LiteralValue == A(2) * ((10^A(4) - 1) \div 9) * 10^A(5) + A(3) * ((10^A(5) - 1) \div 9)
TextIsExact ==
    /\ call.op = "parse" /\ got.how = "given" =>
        Rounds(got.out[1], (IF A(1) = 1 THEN -1 ELSE 1) * LiteralValue * 2^A(6), 10^A(5))
    /\ call.op = "parse" /\ A(4) + A(5) > 0 /\ A(5) <= Places
            /\ LiteralValue < 2^(2 * W - 1 - A(6)) /\ 10^A(5) * A(2) * ((10^A(4) - 1) \div 9) < U64
            /\ LiteralValue * 2^A(6) < 10^A(5) * RowMax =>
        got.how = "given"
    /\ call.op = "str" /\ got.how = "given" =>
        /\ ParseDecimal(Str(A(1), A(2)), A(2)).ok
        /\ 2 * 10^StrPlaces * AbsOf(got.out[1] - A(1)) <= 2^(A(2) + 1) + 10^StrPlaces
        /\ A(2) <= StrPlaces => got.out[1] = A(1)

\* A draw of the closed interval stays in it.
DrawsInRange == call.op = "range" /\ got.how = "given" => got.out[1] \in A(2) .. A(3)

\* Widening is undone by narrowing, and saturating only differs past the row.
ConversionsAgree ==
    call.op = "mul_q" /\ A(1) \in Row /\ A(2) \in Row =>
        /\ A(2) = 0 => \A r, a \in DOMAIN Frac :
              Frac[r] >= Frac[a] => To(a, r, To(r, a, A(1))) = A(1)
        /\ \A p \in Products : Shift(p[1], p[2], p[3]) >= 0 =>
              LET m == Mul(p[1], p[2], p[3], A(1), A(2))
              IN SatMul(p[1], p[2], p[3], A(1), A(2)) = (IF m \in Row THEN m ELSE IF m < 0 THEN RowMin ELSE RowMax)

NumericsInv ==
    /\ NoScriptKillsTheProcess /\ ScriptsSeeExactResults /\ LerpStaysBetween /\ DistanceIsNearest
    /\ WideIsExact /\ TrigSymmetric /\ TextIsExact /\ DrawsInRange /\ ConversionsAgree
=============================================================================
