------------------------------ MODULE BigInts ------------------------------
(* Arbitrary precision integers (kklib/src/integer.c).  An integer is small *)
(* or a bigint: a sign and digits in base BASE, least significant first.    *)
(* BASE is a power of ten, so that conversion from and to decimal is quick; *)
(* here TEN, BASE and the widths are parameters.  Results are written over  *)
(* the first operand when nothing else refers to it and it has room (u).    *)
EXTENDS SmallInts, Sequences, SequencesExt, FiniteSetsExt

CONSTANTS
    TEN, LOG_BASE,        \* BASE = TEN ^ LOG_BASE
    HEX, LOG_BASE_HEX,    \* the radix 16, and how many fit a digit
    DIGIT_RANGE,          \* number of values of kk_digit_t
    KARATSUBA_MIN,        \* bound: 25 digits in the code
    KARATSUBA_LEN         \* bound: balanced lengths from which it is used

BASE == TEN ^ LOG_BASE
BASE_HEX == HEX ^ LOG_BASE_HEX

ASSUME BigAssumption ==
    /\ TEN > 1 /\ BASE % 2 = 0 /\ BASE_HEX < BASE
    /\ DIGIT_RANGE > 2 * BASE + 1
    /\ KARATSUBA_MIN >= 3

Digits == 0 .. BASE - 1
Junk == BASE + 1          \* what memory holds before it is written

Small(i) == [big |-> FALSE, n |-> i]
Big(neg, ds) == [big |-> TRUE, neg |-> neg, ds |-> ds]

(* The number that digits in a base stand for, most significant first. *)
Number(base, s) == FoldLeft(LAMBDA n, d : n * base + d, 0, s)
Value(x) == IF x.big THEN Signed(x.neg, Number(BASE, Reverse(x.ds))) ELSE x.n

(* for (i = lo; i <= hi; i++), and the loop that counts down *)
For(lo, hi, step(_, _), s) == FoldLeft(step, s, [i \in 1 .. hi - lo + 1 |-> lo + i - 1])
ForDown(hi, lo, step(_, _), s) == FoldLeft(step, s, [i \in 1 .. hi - lo + 1 |-> hi - i + 1])
Take(s, n) == SubSeq(s, 1, n)
Zeros(n) == <<>> \o [i \in 1..n |-> 0]

---------------------------------------------------------------------------
(* allocation, trim *)

(* The most significant digit.  Without digits the code reads the word in   *)
(* front of them; every use only asks whether to reserve one digit more.    *)
LastDigit(ds) == IF ds = <<>> THEN BASE ELSE Last(ds)

(* Room for n digits: those of ds, if it is reused. *)
Room(ds, n, u) == Take((IF u THEN ds ELSE <<>>) \o [i \in 1..n |-> Junk], n)

Trim(ds) == Take(ds, Max({0} \cup {i \in DOMAIN ds : ds[i] # 0}))

(* A result becomes small only when it has one digit. *)
IntegerOf(neg, ds) ==
    IF ds = <<>> THEN Small(0)
    ELSE IF Len(ds) = 1 /\ ds[1] <= SMALLINT_MAX THEN Small(Signed(neg, ds[1]))
    ELSE Big(neg, ds)

---------------------------------------------------------------------------
(* conversion *)

RECURSIVE DigitsOf(_)
DigitsOf(n) == IF n < BASE THEN <<n>> ELSE <<n % BASE>> \o DigitsOf(n \div BASE)

BigOf(i) == Big(i < 0, DigitsOf(Magnitude(i)))
ToBig(x) == IF x.big THEN x ELSE BigOf(x.n)

(* Each digit but the first is shown with all its decimals. *)
RECURSIVE DigitToStr(_, _, _)
DigitToStr(d, radix, n) ==
    IF n = 0 THEN <<>> ELSE Append(DigitToStr(d \div radix, radix, n - 1), d % radix)

SkipZeros(s) == LET nz == {i \in DOMAIN s : s[i] # 0}
                IN IF nz = {} THEN <<>> ELSE SubSeq(s, Min(nz), Len(s))

(* Decimals, most significant first. *)
BigToStr_NoPad(ds) ==
    FoldLeft(LAMBDA s, d : s \o SkipZeros(DigitToStr(d, TEN, LOG_BASE)), <<>>, Reverse(ds))
BigToStr(ds) ==
    FoldLeft(LAMBDA s, d : s \o DigitToStr(d, TEN, LOG_BASE),
             SkipZeros(DigitToStr(Last(ds), TEN, LOG_BASE)), Tail(Reverse(ds)))

RECURSIVE IntToStr(_)
IntToStr(n) == IF n < TEN THEN <<n>> ELSE Append(IntToStr(n \div TEN), n % TEN)

ToStr(x) == IF x.big THEN [neg |-> x.neg, ds |-> BigToStr(x.ds)]
                     ELSE [neg |-> x.n < 0, ds |-> IntToStr(Magnitude(x.n))]

(* From decimals: what is left over by LOG_BASE goes into the top digit. *)
Parse(neg, s) ==
    IF Len(s) < LOG_BASE THEN Small(Signed(neg, Number(TEN, s)))
    ELSE LET count == (Len(s) + LOG_BASE - 1) \div LOG_BASE
             at(k) == Len(s) - k * LOG_BASE      \* where the chunk of digit k ends
         IN IntegerOf(neg, [k \in 1..count |->
                Number(TEN, SubSeq(s, Max({1, at(k) + 1}), at(k - 1)))])

(* A decimal with a fraction and an exponent, when it is an integer: the    *)
(* zeros at the end of the fraction are ignored.                            *)
ParseScientific(neg, sig, frac, exp) ==
    LET used == Max({0} \cup {i \in DOMAIN frac : frac[i] # 0})
    IN IF exp < used THEN {}
       ELSE {Parse(neg, sig \o Take(frac, used) \o Zeros(exp - used))}

---------------------------------------------------------------------------
(* comparison *)

Sign(i) == IF i < 0 THEN -1 ELSE IF i > 0 THEN 1 ELSE 0

CompareAbs_LowestFirst(x, y) ==
    IF Len(x) # Len(y) THEN Sign(Len(x) - Len(y))
    ELSE LET differ == {i \in DOMAIN x : x[i] # y[i]}
         IN IF differ = {} THEN 0 ELSE LET i == Min(differ) IN Sign(x[i] - y[i])
CompareAbs(x, y) ==
    IF Len(x) # Len(y) THEN Sign(Len(x) - Len(y))
    ELSE LET differ == {i \in DOMAIN x : x[i] # y[i]}
         IN IF differ = {} THEN 0 ELSE LET i == Max(differ) IN Sign(x[i] - y[i])

Compare(x, y) ==
    IF x.neg # y.neg THEN (IF y.neg THEN 1 ELSE -1)
    ELSE (IF x.neg THEN -1 ELSE 1) * CompareAbs(x.ds, y.ds)

---------------------------------------------------------------------------
(* addition and subtraction of digits *)

(* The carry that is left becomes a digit of its own. *)
Carried(r, n) == IF r.carry = 0 THEN Take(r.z, n) ELSE Append(Take(r.z, n), r.carry)

(* Once there is no carry the digits that are left are copied, unless they  *)
(* are in place already.                                                    *)
AddAbs(x, y, u) ==
    LET step(s, i) ==
            IF i > Len(y) /\ s.carry = 0
              THEN IF u THEN s ELSE [s EXCEPT !.z[i] = x[i]]
              ELSE LET sum == x[i] + (IF i <= Len(y) THEN y[i] ELSE 0) + s.carry
                   IN [carry |-> sum \div BASE, z |-> [s.z EXCEPT ![i] = sum % BASE]]
        cz == IF LastDigit(x) + LastDigit(y) + 1 >= BASE THEN Len(x) + 1 ELSE Len(x)
    IN Carried(For(1, Len(x), step, [carry |-> 0, z |-> Room(x, cz, u)]), Len(x))

AddAbsSmall(x, y, u) ==
    LET step(s, i) ==
            IF s.carry = 0 THEN IF u THEN s ELSE [s EXCEPT !.z[i] = x[i]]
            ELSE LET sum == x[i] + s.carry
                 IN [carry |-> sum \div BASE, z |-> [s.z EXCEPT ![i] = sum % BASE]]
        cz == IF LastDigit(x) + y + 1 >= BASE THEN Len(x) + 1 ELSE Len(x)
    IN Carried(For(1, Len(x), step, [carry |-> y, z |-> Room(x, cz, u)]), Len(x))

(* Digits are unsigned: a difference below 0 wraps around, and so is found. *)
SubAbs(x, y, u) ==
    LET step(s, i) ==
            IF i > Len(y) /\ s.borrow = 0
              THEN IF u THEN s ELSE [s EXCEPT !.z[i] = x[i]]
              ELSE LET diff == (x[i] - s.borrow - (IF i <= Len(y) THEN y[i] ELSE 0)) % DIGIT_RANGE
                   IN IF diff >= BASE
                        THEN [borrow |-> 1, z |-> [s.z EXCEPT ![i] = (diff + BASE) % DIGIT_RANGE]]
                        ELSE [borrow |-> 0, z |-> [s.z EXCEPT ![i] = diff]]
    IN Trim(For(1, Len(x), step, [borrow |-> 0, z |-> Room(x, Len(x), u)]).z)

(* Signs: adding is subtracting the negated operand, and the other way.     *)
AddSame(x, y, u) ==
    LET swap == Len(x.ds) < Len(y.ds)
    IN Big(x.neg, AddAbs(IF swap THEN y.ds ELSE x.ds, IF swap THEN x.ds ELSE y.ds, u))

SubSame(x, y, u) ==
    LET swap == CompareAbs(x.ds, y.ds) < 0
    IN Big(x.neg # swap, SubAbs(IF swap THEN y.ds ELSE x.ds, IF swap THEN x.ds ELSE y.ds, u))

BigAdd(x, y, yneg, u) == IF x.neg # yneg THEN SubSame(x, y, u) ELSE AddSame(x, y, u)
BigSub(x, y, yneg, u) == IF x.neg # yneg THEN AddSame(x, y, u) ELSE SubSame(x, y, u)
AddBig(x, y, u) == BigAdd(x, y, y.neg, u)
SubBig(x, y, u) == BigSub(x, y, y.neg, u)

---------------------------------------------------------------------------
(* multiplication *)

MulAbs(x, y) ==
    LET inner(i, s, j) ==
            LET prod == x[i] * y[j] + s[i + j - 1]
            IN [s EXCEPT ![i + j - 1] = prod % BASE, ![i + j] = @ + prod \div BASE]
        outer(s, i) == For(1, Len(y), LAMBDA t, j : inner(i, t, j), s)
    IN Trim(For(1, Len(x), outer, Zeros(Len(x) + Len(y))))

BigMul(x, y) == Big(x.neg # y.neg, MulAbs(x.ds, y.ds))

MulSmall(x, y, u) ==
    LET step(s, i) ==
            LET prod == x[i] * y + s.carry
            IN [carry |-> prod \div BASE, z |-> [s.z EXCEPT ![i] = prod % BASE]]
    IN Carried(For(1, Len(x), step, [carry |-> 0, z |-> Room(x, Len(x) + 1, u)]), Len(x))

ShiftLeft(x, n) == Big(x.neg, Zeros(n) \o x.ds)

(* Digits lo+1 .. hi; at least one. *)
Slice(x, lo, hi) ==
    LET ds == SubSeq(x.ds, lo + 1, Min({hi, Len(x.ds)}))
    IN Big(x.neg, IF ds = <<>> THEN <<0>> ELSE ds)

(* With x = a + b * B^n and y = c + d * B^n three products are enough: ac,  *)
(* bd and (a+b)(c+d).                                                       *)
Trimmed(x) == Big(x.neg, Trim(x.ds))
Combined(ac, bd, abcd, n) ==
    LET mid == SubBig(SubBig(abcd, ac, TRUE), bd, TRUE)
    IN Trimmed(AddBig(AddBig(ac, ShiftLeft(mid, n), FALSE), ShiftLeft(bd, 2 * n), TRUE))

RECURSIVE Karatsuba(_, _)
Karatsuba(x, y) ==
    LET len == Max({Len(x.ds), Len(y.ds)})
        n == (len + 1) \div 2
        a == Slice(x, 0, n)  b == Slice(x, n, Len(x.ds))
        c == Slice(y, 0, n)  d == Slice(y, n, Len(y.ds))
    IN IF len <= KARATSUBA_MIN THEN BigMul(x, y)
       ELSE Combined(Karatsuba(a, c), Karatsuba(b, d),
                     Karatsuba(AddBig(a, b, FALSE), AddBig(c, d, FALSE)), n)

(* 0.000012 * i * j >= 0.0025 * (i + j): about twice as long a balanced     *)
(* length as one of the two may be short.                                   *)
UseKaratsuba(i, j) == 2 * i * j >= KARATSUBA_LEN * (i + j)
---------------------------------------------------------------------------
(* division of digits, truncating *)

CdivCmodSmall(x, y, u) ==
    LET step(s, i) == LET div == s.mod * BASE + x[i]
                      IN [mod |-> div % y, z |-> [s.z EXCEPT ![i] = div \div y]]
        r == ForDown(Len(x), 1, step, [mod |-> 0, z |-> Room(x, Len(x), u)])
    IN [div |-> Trim(r.z), mod |-> r.mod]

(* Subtract qd * div from the remainder, from digit shift on; the borrow is *)
(* 0 or an unsigned -1.                                                     *)
SubtractAt(rem, div, shift, qd) ==
    LET step(s, i) ==
            LET prod == qd * div[i] + s.carry
                diff == (s.borrow + s.rem[shift + i] - (prod % BASE)) % DIGIT_RANGE
                wraps == diff >= BASE
            IN [carry  |-> prod \div BASE,
                borrow |-> IF wraps THEN DIGIT_RANGE - 1 ELSE 0,
                rem    |-> [s.rem EXCEPT ![shift + i] =
                               IF wraps THEN (diff + BASE) % DIGIT_RANGE ELSE diff]]
    IN For(1, Len(div), step, [carry |-> 0, borrow |-> 0, rem |-> rem])

AddBack_Never(s, div, shift, qd) == [rem |-> s.rem, qd |-> qd]

(* The digit qd was estimated too large: add div back until nothing is owed. *)
RECURSIVE AddBack(_, _, _, _)
AddBack(s, div, shift, qd) ==
    LET step(t, i) ==
            LET sum == (t.carry + t.rem[shift + i] + div[i] - BASE) % DIGIT_RANGE
                wraps == sum >= BASE
            IN [carry |-> IF wraps THEN 0 ELSE 1,
                rem   |-> [t.rem EXCEPT ![shift + i] =
                              IF wraps THEN (sum + BASE) % DIGIT_RANGE ELSE sum]]
        r == For(1, Len(div), step, [carry |-> 0, rem |-> s.rem])
    IN IF s.borrow = 0 THEN [rem |-> s.rem, qd |-> qd]
       ELSE AddBack([rem |-> r.rem, borrow |-> (s.borrow + r.carry) % DIGIT_RANGE],
                    div, shift, qd - 1)

(* Long division.  The divisor is scaled so that its top digit is large;    *)
(* then two digits of the remainder give a digit that is hardly too large.  *)
Divided(r, lambda) == [div |-> Trim(r.z), mod |-> CdivCmodSmall(r.rem, lambda, TRUE).div]
LongDivision(rem, div, n, cy, lambda) ==
    LET hi == div[Len(div) - 1]
        step(s, shift) ==
            LET top == s.rem[shift + cy + 1]
                qd == IF top = hi THEN BASE - 1 ELSE (top * BASE + s.rem[shift + cy]) \div hi
                r == AddBack(SubtractAt(s.rem, div, shift, qd), div, shift, qd)
            IN [rem |-> r.rem, z |-> [s.z EXCEPT ![shift + 1] = r.qd]]
    IN Divided(ForDown(n, 0, step, [rem |-> rem, z |-> Zeros(n + 1)]), lambda)
CdivCmodAbs(x, y) ==
    LET lambda == (2 * Last(y) + BASE - 1) \div (2 * Last(y))
        padded(ds) == IF Len(ds) <= Len(x) THEN Append(ds, 0) ELSE ds
    IN LongDivision(padded(MulSmall(x, lambda, TRUE)), Append(MulSmall(y, lambda, TRUE), 0),
                    Len(x) - Len(y), Len(y), lambda)

---------------------------------------------------------------------------
(* the operations on integers, small or big *)

FromInt(i) == IF IsSmallInt(i) THEN Small(i) ELSE BigOf(i)
FromBig(x) == IntegerOf(x.neg, x.ds)

NegGeneric(x) == LET b == ToBig(x) IN IntegerOf(~b.neg, b.ds)
AddGeneric(x, y, u) == FromBig(AddBig(ToBig(x), ToBig(y), u))
SubGeneric(x, y, u) == FromBig(SubBig(ToBig(x), ToBig(y), u))
SqrGeneric(x) == FromBig(BigMul(ToBig(x), ToBig(x)))
CmpGeneric(x, y) == Compare(ToBig(x), ToBig(y))

MulGeneric(x, y) ==
    LET bx == ToBig(x)  by == ToBig(y)
    IN FromBig(IF UseKaratsuba(Len(bx.ds), Len(by.ds)) THEN Karatsuba(bx, by) ELSE BigMul(bx, by))

(* The word of an integer: that of a bigint is some pointer.                *)
WordOf(x) == IF x.big THEN 0 ELSE FromSmall(x.n)
Either(fast, slow) == IF fast = {} THEN slow ELSE Small(SmallOf(CHOOSE z \in fast : TRUE))

Add(x, y, u) == Either(AddFast(WordOf(x), WordOf(y)), AddGeneric(x, y, u))
Sub(x, y, u) == Either(SubFast(WordOf(x), WordOf(y)), SubGeneric(x, y, u))
AddSmallConst(x, i, u) == Either(AddConstFast(WordOf(x), i), AddGeneric(x, Small(i), u))
Inc(x, u) == AddSmallConst(x, 1, u)
Dec(x, u) == AddSmallConst(x, -1, u)
Mul(x, y) == Either(IF x.big \/ y.big THEN {} ELSE MulFast(WordOf(x), WordOf(y)), MulGeneric(x, y))
Sqr(x) == IF x.big THEN SqrGeneric(x) ELSE Mul(x, x)
Neg(x) == IF x.big THEN NegGeneric(x) ELSE Sub(Small(0), x, FALSE)

SignumGeneric(x) == IF x.neg THEN -1 ELSE IF x.ds = <<>> THEN 0 ELSE 1
Signum(x) == IF x.big THEN SignumGeneric(x) ELSE Sign(x.n)
IsEven(x) == IF x.big THEN x.ds[1] % 2 = 0 ELSE x.n % 2 = 0
IsZero(x) == x = Small(0)

CdivCmodGeneric(x, y, u) ==
    LET bx == ToBig(x)  by == ToBig(y)
        cmp == CompareAbs(bx.ds, by.ds)
        neg == bx.neg # by.neg
        result(r) == [div |-> IntegerOf(neg, r.div), mod |-> IntegerOf(bx.neg, r.mod)]
    IN CASE y = Small(0)  -> [div |-> Small(0), mod |-> Small(0)]
         [] y = Small(1)  -> [div |-> x, mod |-> Small(0)]
         [] y = Small(-1) -> [div |-> Neg(x), mod |-> Small(0)]
         [] ~y.big /\ Magnitude(y.n) \in 2 .. BASE - 1 ->
              LET r == CdivCmodSmall(bx.ds, Magnitude(y.n), u)
              IN [div |-> IntegerOf(neg, r.div), mod |-> FromInt(Signed(bx.neg, r.mod))]
         [] OTHER -> IF cmp < 0 THEN [div |-> Small(0), mod |-> x]
                     ELSE IF cmp = 0 THEN [div |-> Small(IF neg THEN -1 ELSE 1), mod |-> Small(0)]
                     ELSE result(CdivCmodAbs(bx.ds, by.ds))

(* Euclidean division: the modulus is never negative. *)
Euclidean(r, x, y, u) ==
    IF Signum(x) > 0 \/ Signum(r.mod) >= 0 THEN r
    ELSE IF Signum(y) < 0 THEN [div |-> Inc(r.div, u), mod |-> Sub(r.mod, y, u)]
                          ELSE [div |-> Dec(r.div, u), mod |-> Add(r.mod, y, u)]
DivModGeneric(x, y, u) == IF IsZero(y) THEN [div |-> Small(0), mod |-> x]
                          ELSE Euclidean(CdivCmodGeneric(x, y, u), x, y, u)

AreSmallDivInts(x, y) == ~x.big /\ ~y.big /\ y.n # 0
CdivCmod(x, y, u) ==
    IF AreSmallDivInts(x, y) THEN [div |-> Small(CdivSmall(x.n, y.n)), mod |-> Small(CmodSmall(x.n, y.n))]
    ELSE CdivCmodGeneric(x, y, u)
DivMod(x, y, u) ==
    IF AreSmallDivInts(x, y) THEN [div |-> Small(DivSmall(x.n, y.n)), mod |-> Small(ModSmall(x.n, y.n))]
    ELSE DivModGeneric(x, y, u)

(* Comparison: equality first looks at the words. *)
Cmp(x, y) == IF x.big \/ y.big THEN CmpGeneric(x, y) ELSE Sign(WordOf(x) - WordOf(y))
Eq(x, y) == \/ ~x.big /\ ~y.big /\ WordOf(x) = WordOf(y)
            \/ x.big /\ Cmp(x, y) = 0
MaxOf(x, y) == IF Cmp(x, y) >= 0 THEN x ELSE y
MinOf(x, y) == IF Cmp(x, y) <= 0 THEN x ELSE y
AbsOf(x) == IF Signum(x) < 0 THEN Neg(x) ELSE x

(* y * x^i by repeated squaring *)
RECURSIVE PowLoop(_, _, _)
PowNext(z, x, i) == IF i = 0 THEN z ELSE PowLoop(z, Sqr(x), i \div 2)
PowLoop(y, x, i) == PowNext(IF i % 2 = 1 THEN Mul(y, x) ELSE y, x, i - (i % 2))

(* The loop for an exponent that is big ends when the exponent is small,     *)
(* by a division or by the decrement.                                       *)
RECURSIVE PowBig(_, _, _)
PowBig(y, x, p) ==
    LET z == IF IsEven(p) THEN y ELSE Mul(y, x)
        q == IF IsEven(p) THEN p ELSE Dec(p, FALSE)
    IN IF ~q.big THEN PowLoop(z, x, q.n) ELSE PowBig(z, Sqr(x), DivMod(q, Small(2), FALSE).div)

Pow(x, p) ==
    CASE p = Small(0) -> Small(1)
      [] p # Small(0) /\ x = Small(0) -> Small(0)
      [] p # Small(0) /\ x = Small(1) -> Small(1)
      [] p # Small(0) /\ x = Small(-1) -> Small(IF IsEven(p) THEN 1 ELSE -1)
      [] OTHER -> IF Signum(p) < 0 THEN Small(0)
                  ELSE IF p.big THEN PowBig(Small(1), x, p) ELSE PowLoop(Small(1), x, p.n)

---------------------------------------------------------------------------
(* fixed point arithmetic: decimal zeros and digits, powers of ten *)

RECURSIVE IntCtz(_)
IntCtz(n) == IF n # 0 /\ n % TEN = 0 THEN 1 + IntCtz(n \div TEN) ELSE 0

Ctz(x) ==
    IF ~x.big THEN IntCtz(Magnitude(x.n))
    ELSE LET i == Min({Len(x.ds)} \cup {j \in DOMAIN x.ds : x.ds[j] # 0})
         IN IntCtz(x.ds[i]) + LOG_BASE * (i - 1)

CountDigits(x) ==
    IF x.big THEN Len(IntToStr(Last(x.ds))) + LOG_BASE * (Len(x.ds) - 1)
             ELSE Len(IntToStr(Magnitude(x.n)))

MulPow10(x, i, u) ==
    LET b == ToBig(x)
        scaled == IF i % LOG_BASE = 0 THEN b ELSE Big(b.neg, MulSmall(b.ds, TEN ^ (i % LOG_BASE), u))
    IN IF i = 0 \/ IsZero(x) THEN x
       ELSE IF ~x.big /\ i < LOG_BASE THEN Mul(x, FromInt(TEN ^ i))
       ELSE FromBig(ShiftLeft(scaled, i \div LOG_BASE))

CdivPow10(x, i, u) ==
    LET b == ToBig(x)
        large == i \div LOG_BASE
        shifted == SubSeq(b.ds, large + 1, Len(b.ds))
    IN IF i = 0 \/ IsZero(x) THEN x
       ELSE IF ~x.big /\ i < LOG_BASE THEN CdivCmod(x, FromInt(TEN ^ i), u).div
       ELSE IF large >= Len(b.ds) THEN Small(0)
       ELSE IntegerOf(b.neg, IF i % LOG_BASE = 0 THEN shifted
                             ELSE CdivCmodSmall(shifted, TEN ^ (i % LOG_BASE), u).div)

DivPow10(x, i, u) == LET d == CdivPow10(x, i, u)
                     IN IF Signum(x) < 0 THEN Dec(d, u) ELSE d

---------------------------------------------------------------------------
(* hexadecimal, and clamping to fewer bits *)

HexParse(neg, s) ==
    LET chunks == (Len(s) + LOG_BASE_HEX - 1) \div LOG_BASE_HEX
        end(k) == Len(s) - (chunks - k) * LOG_BASE_HEX
        chunk(k) == Number(HEX, SubSeq(s, Max({1, end(k - 1) + 1}), end(k)))
        step(ds, k) == AddAbsSmall(MulSmall(ds, BASE_HEX, TRUE), chunk(k), TRUE)
    IN IF Len(s) < LOG_BASE_HEX THEN Small(Signed(neg, Number(HEX, s)))
       ELSE IntegerOf(neg, For(1, chunks, step, <<0>>))

(* Digits in reverse, then without the zeros that come first. *)
RECURSIVE BigToHex(_)
BigToHex(ds) ==
    IF ds \in {<<>>, <<0>>} THEN <<>>
    ELSE LET r == CdivCmodSmall(ds, BASE_HEX, TRUE)
         IN BigToHex(r.div) \o DigitToStr(r.mod, HEX, LOG_BASE_HEX)

RECURSIVE IntToHex(_)
IntToHex(n) == IF n < HEX THEN <<n>> ELSE Append(IntToHex(n \div HEX), n % HEX)

ToHex(x) == IF x.big THEN SkipZeros(BigToHex(x.ds)) ELSE IntToHex(x.n)

(* The overflow of a product or a sum is found before it happens. *)
ClampUnsigned(ds, max) ==
    FoldLeft(LAMBDA n, d : IF n > max \div BASE \/ n * BASE > max - d THEN max
                           ELSE n * BASE + d, 0, Reverse(ds))

Clamp(x, umax, max) ==
    IF ~x.big THEN ClampTo(x.n, -max - 1, max)
    ELSE LET n == ClampUnsigned(x.ds, umax)
         IN IF n > max THEN (IF x.neg THEN -max - 1 ELSE max) ELSE Signed(x.neg, n)
===========================================================================
