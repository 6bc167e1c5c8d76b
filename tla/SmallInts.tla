----------------------------- MODULE SmallInts -----------------------------
(* Small integers (kklib/include/kklib/integer.h): a word is a pointer to a *)
(* block, a multiple of four, or holds n as 4n + 1.  Each fast path works   *)
(* on the words, tests for overflow and for pointers at once, and yields    *)
(* {} when the generic operation must be called.  The three ways to do so   *)
(* are chosen at build time.                                                *)
EXTENDS Integers

CONSTANTS
    SMALLINT_MAX,       \* small integers are -SMALLINT_MAX-1 .. SMALLINT_MAX
    ARITHMETIC          \* "OVF" and "TAGOVF" with, "SOFA" without the compiler's overflow test

ASSUME SmallAssumption ==
    /\ SMALLINT_MAX \in Nat /\ SMALLINT_MAX % 4 = 3
    /\ ARITHMETIC \in {"OVF", "TAGOVF", "SOFA"}

SMALLINT_MIN == -SMALLINT_MAX - 1
IsSmallInt(n) == SMALLINT_MIN <= n /\ n <= SMALLINT_MAX

---------------------------------------------------------------------------
(* words *)

INTF_MAX == IF ARITHMETIC = "SOFA" THEN 2 * (SMALLINT_MAX + 1) * (SMALLINT_MAX + 1) - 1
                                   ELSE 4 * SMALLINT_MAX + 3
IsIntf(w) == -INTF_MAX - 1 <= w /\ w <= INTF_MAX
WrapIntf(w) == ((w + INTF_MAX + 1) % (2 * (INTF_MAX + 1))) - (INTF_MAX + 1)

IsValue(w) == w % 2 = 1
IsPtr(w) == w % 2 = 0
AreSmallInts(x, y) == IsValue(x) /\ IsValue(y)
Bit1(w) == (w % 4) \div 2
Xor3(w) == w + 3 - 2 * (w % 4)

(* What does not fit wraps around. *)
FromSmall(n) == WrapIntf(4 * n + 1)
SmallOf(w) == (w - 1) \div 4

Word == {w \in Int : IsIntf(w) /\ w % 4 \in {0, 1}}

---------------------------------------------------------------------------
(* __builtin_add_overflow and the like *)

Checked(z) == IF IsIntf(z) THEN {z} ELSE {}

(* Tags add up to 2, and only those of two small integers. *)
AddOvf(x, y) == {Xor3(z) : z \in {v \in Checked(x + y) : Bit1(v) = 1}}
SubOvf(x, y) == {z \in Checked(Xor3(x) - y) : Bit1(z) = 0}
AddConstOvf(x, i) == {z \in Checked(x + 4 * i) : IsValue(x)}
(* n * 2 and m * 2, whose product has no tag *)
MulOvf(x, y) == {z + 1 : z \in Checked((x \div 2) * (y \div 2))}

(* The same, with the tags looked at first. *)
AddTag(x, y) == {Xor3(z) : z \in {v \in Checked(x + y) : AreSmallInts(x, y)}}
SubTag(x, y) == {z \in Checked(Xor3(x) - y) : AreSmallInts(x, y)}

(* Without overflow tests: words are wider than twice a small integer; the  *)
(* result must be the sign extension of its lower half, with its tag set.   *)
SignExtend(w) == ((w + SMALLINT_MAX + 1) % (2 * (SMALLINT_MAX + 1))) - (SMALLINT_MAX + 1)
Or(w, bit) == IF (w \div bit) % 2 = 1 THEN w ELSE w + bit
Clear(w, bit) == IF (w \div bit) % 2 = 1 THEN w - bit ELSE w

AddSofa(x, y) == {Xor3(z) : z \in {v \in {x + y} : Or(v, 2) = SignExtend(v)}}
SubSofa(x, y) == {z \in {Xor3(x) - y} : Clear(z, 2) = SignExtend(z)}
AddConstSofa(x, i) == {z \in {x + 4 * i} : Or(z, 1) = SignExtend(z)}
MulSofa(x, y) == {z + 1 : z \in {v \in {(x \div 2) * (y \div 2)} : v = SignExtend(v)}}

Choose(ovf, tag, sofa) ==
    IF ARITHMETIC = "OVF" THEN ovf ELSE IF ARITHMETIC = "TAGOVF" THEN tag ELSE sofa
AddFast(x, y) == Choose(AddOvf(x, y), AddTag(x, y), AddSofa(x, y))
SubFast(x, y) == Choose(SubOvf(x, y), SubTag(x, y), SubSofa(x, y))
AddConstFast(x, i) == Choose(AddConstOvf(x, i), AddConstOvf(x, i), AddConstSofa(x, i))
MulFast(x, y) == Choose(MulOvf(x, y), MulOvf(x, y), MulSofa(x, y))

---------------------------------------------------------------------------
(* division, rounding to zero as C does, and Euclidean: the modulus is      *)
(* never negative *)

Magnitude(n) == IF n < 0 THEN -n ELSE n
Signed(neg, n) == IF neg THEN -n ELSE n
CDiv(i, j) == Signed((i < 0) # (j < 0), Magnitude(i) \div Magnitude(j))
CMod(i, j) == Signed(i < 0, Magnitude(i) % Magnitude(j))

Corrected(i, m) == i < 0 /\ m < 0
EuclidDiv(i, j) == CDiv(i, j) - (IF Corrected(i, CMod(i, j)) THEN (IF j < 0 THEN -1 ELSE 1) ELSE 0)
EuclidMod(i, j) == CMod(i, j) + (IF Corrected(i, CMod(i, j)) THEN Magnitude(j) ELSE 0)

(* the quotient and the modulus as they come out of a word *)
CdivSmall(i, j) == SmallOf(FromSmall(CDiv(i, j)))
CmodSmall(i, j) == SmallOf(FromSmall(CMod(i, j)))
DivSmall(i, j)  == SmallOf(FromSmall(EuclidDiv(i, j)))
ModSmall(i, j)  == SmallOf(FromSmall(EuclidMod(i, j)))

---------------------------------------------------------------------------
(* clamping to the machine's integers *)

ClampTo(i, lo, hi) == IF i < lo THEN lo ELSE IF i > hi THEN hi ELSE i
===========================================================================
