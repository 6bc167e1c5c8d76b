---------------------------- MODULE IntegerOps ----------------------------
(* Programs that compute with integers (kklib/include/kklib/integer.h): one *)
(* integer, in the representation that the operations leave it in, next to  *)
(* the number that it should stand for.                                     *)
EXTENDS BigInts

CONSTANTS
    Seeds,              \* numbers that programs start from
    Others,             \* numbers that are the second operand
    Exponents,          \* powers, and shifts by powers of ten
    LeadingZeros,       \* how many zeros a literal may start with
    MIN_BY_MINUS_ONE,   \* whether the smallest small integer is divided by -1
    MAX_STEPS,          \* bound: operations in a row
    MAX_DECIMALS        \* bound: decimals of a number

VARIABLES x, val, steps
vars == <<x, val, steps>>

(* A number as a literal or converted from a machine integer. *)
Literal(n, z) == Parse(n < 0, Zeros(z) \o IntToStr(Magnitude(n)))
Reps(n) == {FromInt(n)} \cup {Literal(n, z) : z \in LeadingZeros}
Operands == UNION {{[rep |-> r, val |-> n] : r \in Reps(n)} : n \in Others}

(* n / TEN^k and a fraction, written with the exponent f *)
Scientific(n, f) ==
    LET s == IntToStr(Magnitude(n))
    IN IF f >= Len(s) THEN {} ELSE
       ParseScientific(n < 0, Take(s, Len(s) - f), SubSeq(s, Len(s) - f + 1, Len(s)), f)

Init ==
    /\ val \in Seeds
    /\ x \in Reps(val) \cup {HexParse(val < 0, IntToHex(Magnitude(val)))}
             \cup UNION {Scientific(val, f) : f \in Exponents}
    /\ steps = 0

Decimals(n) == Len(IntToStr(Magnitude(n)))
Fits(decimals) == decimals <= MAX_DECIMALS
Set(rep, n) ==
    /\ steps < MAX_STEPS
    /\ x' = rep
    /\ val' = n
    /\ steps' = steps + 1

---------------------------------------------------------------------------
(* what the operations should compute *)

Quotient(i, j)   == IF j = 0 THEN 0 ELSE IF j > 0 THEN i \div j ELSE -(i \div (-j))
Modulus(i, j)    == i - j * Quotient(i, j)
Truncated(i, j)  == IF i >= 0 THEN Quotient(i, j) ELSE -Quotient(-i, j)
Remainder(i, j)  == IF j = 0 THEN 0 ELSE i - j * Truncated(i, j)
Power(i, e)      == IF e = 0 THEN 1 ELSE IF e < 0 THEN (IF i \in {1, -1} THEN i ^ (-e) ELSE 0) ELSE i ^ e

---------------------------------------------------------------------------
(* the operations; u: the memory of the first operand may be reused *)

Unary == \/ Set(Neg(x), -val)
         \/ Set(AbsOf(x), Magnitude(val))
         \/ Fits(2 * Decimals(val)) /\ Set(Sqr(x), val * val)
IncDec == \E u \in BOOLEAN : \/ Set(Inc(x, u), val + 1)
                             \/ Set(Dec(x, u), val - 1)
AddSub == \E y \in Operands, u \in BOOLEAN : \/ Set(Add(x, y.rep, u), val + y.val)
                                             \/ Set(Sub(x, y.rep, u), val - y.val)
                                             \/ Set(Sub(y.rep, x, u), y.val - val)
Multiply == \E y \in Operands : Fits(Decimals(val) + Decimals(y.val)) /\ Set(Mul(x, y.rep), val * y.val)
Extreme == \E y \in Operands : \/ Set(MaxOf(x, y.rep), Max({val, y.val}))
                               \/ Set(MinOf(x, y.rep), Min({val, y.val}))
Divides(y) == steps < MAX_STEPS /\ (MIN_BY_MINUS_ONE \/ <<x, y>> # <<Small(SMALLINT_MIN), Small(-1)>>)
Divide == \E y \in Operands, u \in BOOLEAN : Divides(y.rep) /\
   \E r \in {DivMod(x, y.rep, u)} : \/ Set(r.div, Quotient(val, y.val))
                                     \/ Set(r.mod, Modulus(val, y.val))
DivideTruncated == \E y \in Operands, u \in BOOLEAN : Divides(y.rep) /\
   \E r \in {CdivCmod(x, y.rep, u)} : \/ Set(r.div, Truncated(val, y.val))
                                       \/ Set(r.mod, Remainder(val, y.val))
Raise == \E e \in Exponents : \E p \in Reps(e) :
   Fits(e * (Decimals(val) - 1) + 1) /\ Set(Pow(x, p), Power(val, e))
(* Rounding down takes 1 from a negative quotient that is exact, too.       *)
RoundsDown(e) == val >= 0 \/ val % TEN ^ e # 0
ShiftPow10 == \E e \in Exponents, u \in BOOLEAN : Fits(e + Decimals(val)) /\
   (\/ Set(MulPow10(x, e, u), val * TEN ^ e)
    \/ Set(CdivPow10(x, e, u), Truncated(val, TEN ^ e))
    \/ RoundsDown(e) /\ Set(DivPow10(x, e, u), val \div (TEN ^ e)))

Next == \/ Unary \/ IncDec \/ AddSub \/ Multiply \/ Extreme
        \/ Divide \/ DivideTruncated \/ Raise \/ ShiftPow10
Spec == Init /\ [][Next]_vars

---------------------------------------------------------------------------
(* properties *)

(* Whatever representations the operands came in, and whether or not their  *)
(* memory was reused, the result stands for the exact number (integer.c,    *)
(* integer.h).                                                              *)
ValueExact == Value(x) = val /\ (x.big => x.ds # <<>> /\ Last(x.ds) # 0)

(* Comparisons order integers as the numbers they stand for, whether small  *)
(* or big; equality never holds of different numbers.                       *)
OrderExact ==
    /\ Signum(x) = Sign(val)
    /\ IsEven(x) <=> val % 2 = 0
    /\ \A y \in Operands :
         /\ Cmp(x, y.rep) = Sign(val - y.val) /\ Cmp(y.rep, x) = Sign(y.val - val)
         /\ Eq(x, y.rep) => val = y.val
         /\ val = y.val /\ x.big = y.rep.big => Eq(x, y.rep)

(* Equality holds of equal numbers, in whatever representation (int.kk:43:  *)
(* "Are two integers equal?").                                              *)
EqualityExact == \A y \in Operands : val = y.val => Eq(x, y.rep) /\ Eq(y.rep, x)

(* The decimals and hexadecimals shown are read back as the same number, in *)
(* as many digits as the number has and with as many zeros at the end, and  *)
(* clamping to a machine integer gives the nearest one.                     *)
ShownExact ==
    LET s == ToStr(x)
    IN /\ Value(Parse(s.neg, s.ds)) = val
       /\ CountDigits(x) = Len(IntToStr(Magnitude(val))) /\ Len(s.ds) = CountDigits(x)
       /\ val # 0 => Ctz(x) = Max({k \in 0 .. CountDigits(x) : val % TEN ^ k = 0})
       /\ val >= 0 => Value(HexParse(FALSE, ToHex(x))) = val
       /\ \A max \in {3, SMALLINT_MAX, 100} :
            Clamp(x, 2 * max + 1, max) = Max({-max - 1, Min({val, max})})
===========================================================================
