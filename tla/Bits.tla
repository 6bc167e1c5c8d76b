-------------------------------- MODULE Bits --------------------------------
(* Operations on machine words (kklib/include/kklib/bits.h, src/bits.c), in *)
(* the portable form that is compiled when the processor or the compiler    *)
(* offers no instruction for one. A word of w bits is the set of the bits   *)
(* that are 1.                                                              *)
EXTENDS Integers, Sequences, SequencesExt, FiniteSetsExt

BYTE == 8

(* the operators of C on unsigned words *)
Shl(w, x, k)  == {i + k : i \in {j \in x : j + k < w}}
Shr(x, k)     == {i - k : i \in {j \in x : j >= k}}
Not(w, x)     == (0 .. w - 1) \ x
Xor(x, y)     == SymDiff(x, y)
Num(x)        == MapThenSumSet(LAMBDA i : 2 ^ i, x)
BitsOf(w, n)  == {i \in 0 .. w - 1 : (n \div 2 ^ i) % 2 = 1}
Carries(w, x, y, c0) ==                 \* the bits that a carry goes into
    LET into[i \in 0 .. w - 1] == IF i = 0 THEN c0
                                  ELSE IF (i - 1 \in x) = (i - 1 \in y) THEN i - 1 \in x ELSE into[i - 1]
    IN {i \in 0 .. w - 1 : into[i]}
Plus(w, x, y)  == Xor(Xor(x, y), Carries(w, x, y, FALSE))
Minus(w, x, y) == Xor(Xor(x, Not(w, y)), Carries(w, x, Not(w, y), TRUE))
Negative(w, x) == w - 1 \in x

(* the masks 0x55.., 0x33.., 0x0F.. (bits whose k'th binary digit is 0), and *)
(* the lowest or highest bit of every byte                                   *)
Even(w, k)  == {i \in 0 .. w - 1 : (i \div k) % 2 = 0}
LoBits(w)   == {i \in 0 .. w - 1 : i % BYTE = 0}
HiBits(w)   == {i \in 0 .. w - 1 : i % BYTE = BYTE - 1}
Byte(x, k)  == Shr(x, BYTE * k) \cap (0 .. BYTE - 1)

---------------------------------------------------------------------------
(* rotations and counts *)

Rotl(w, x, k) == LET m == k % w IN Shl(w, x, m) \cup Shr(x, (-m) % w)
Rotr(w, x, k) == LET m == k % w IN Shr(x, m) \cup Shl(w, x, (-m) % w)

ClearLsb(w, x) == x \cap Minus(w, x, {0})
KeepLsb(w, x)  == x \cap Plus(w, Not(w, x), {0})
IsPowerOf2(w, x) == x # {} /\ ClearLsb(w, x) = {}

(* de Bruijn multiplication, in 32 bits *)
CtzTable == <<0, 1, 28, 2, 29, 14, 24, 3, 30, 22, 20, 15, 25, 17, 4, 8,
              31, 27, 13, 23, 21, 19, 16, 7, 26, 12, 18, 6, 11, 5, 10, 9>>
ClzTable == <<31, 22, 30, 21, 18, 10, 29, 2, 20, 17, 15, 13, 9, 6, 28, 1,
              23, 19, 11, 3, 16, 14, 7, 24, 12, 4, 8, 25, 5, 26, 27, 0>>
CtzFactor == BitsOf(31, 125613361)     \* 0x077CB531
ClzFactor == BitsOf(31, 130329821)     \* 0x07C4ACDD
Times32(x, y) == FoldSet(LAMBDA i, z : Plus(32, z, Shl(32, y, i)), {}, x)
Smeared(x) == FoldLeft(LAMBDA z, k : z \cup Shr(z, k), x, <<1, 2, 4, 8, 16>>)
Ctz32(x) == IF x = {} THEN 32 ELSE CtzTable[Num(Shr(Times32(KeepLsb(32, x), CtzFactor), 27)) + 1]
Clz32(x) == IF x = {} THEN 32 ELSE ClzTable[Num(Shr(Times32(Smeared(x), ClzFactor), 27)) + 1]
Low32(x) == x \cap 0 .. 31
(* mutant: the 32 low zeros are not counted                                  *)
CtzBits_HighOnly(w, x) == IF w = 32 THEN Ctz32(x)
             ELSE IF Low32(x) # {} THEN Ctz32(Low32(x)) ELSE Ctz32(Shr(x, 32))
CtzBits(w, x) == IF w = 32 THEN Ctz32(x)
             ELSE IF Low32(x) # {} THEN Ctz32(Low32(x)) ELSE 32 + Ctz32(Shr(x, 32))
ClzBits(w, x) == IF w = 32 THEN Clz32(x)
             ELSE IF Shr(x, 32) # {} THEN Clz32(Shr(x, 32)) ELSE 32 + Clz32(Low32(x))
Clrsb(w, x) == ClzBits(w, IF Negative(w, x) THEN Not(w, x) ELSE x) - 1
Log2Floor(w, x) == IF x = {} THEN 0 ELSE w - ClzBits(w, x) - 1
Log2Ceil(w, x)  == Log2Floor(w, x) + (IF IsPowerOf2(w, x) THEN 0 ELSE 1)

(* decimals of a word: guessed from its bits, then corrected *)
DigitsGuess == <<1, 0, 0, 0, 1, 1, 1, 2, 2, 2, 3, 3, 3, 3, 4, 4, 4, 5, 5, 5,
                 6, 6, 6, 6, 7, 7, 7, 8, 8, 8, 9, 9, 9>>
DigitsOfWord(w, x) == LET count == DigitsGuess[w - ClzBits(w, x) + 1]
                  IN count + (IF Num(x) >= 10 ^ count THEN 1 ELSE 0)

---------------------------------------------------------------------------
(* bytes *)

Orc(w, x) ==
    LET up   == FoldLeft(LAMBDA z, k : z \cup Shl(w, z \cap Even(w, k), k), x, <<4, 2, 1>>)
    IN FoldLeft(LAMBDA z, k : z \cup Shr(z, k), up \cap HiBits(w), <<1, 2, 4>>)
HasZeroByte(w, x) == Minus(w, x, LoBits(w)) \cap Not(w, x) \cap HiBits(w) # {}
Doubled(w, x, op(_, _)) ==              \* x op= x << 8, 16, .. up to the width
    FoldLeft(LAMBDA z, k : op(z, Shl(w, z, k)), x, IF w = 32 THEN <<8, 16>> ELSE <<8, 16, 32>>)
HasByte(w, x, n) == HasZeroByte(w, Xor(x, Doubled(w, n, LAMBDA a, b : a \cup b)))
ByteSum(w, x) == Num(Shr(Doubled(w, x, LAMBDA a, b : Plus(w, a, b)), w - BYTE))

Popcount(w, x) ==
    LET pairs   == Minus(w, x, Shr(x, 1) \cap Even(w, 1))
        nibbles == Plus(w, pairs \cap Even(w, 2), Shr(pairs, 2) \cap Even(w, 2))
    IN ByteSum(w, Plus(w, nibbles, Shr(nibbles, 4)) \cap Even(w, 4))
ParityTable == BitsOf(16, 27030)        \* 0x6996
Parity32(x) == LET f == FoldLeft(LAMBDA z, k : Xor(z, Shr(z, k)), x, <<16, 8, 4>>)
               IN Num(f \cap 0 .. 3) \notin ParityTable
Parity(w, x) == IF w = 32 THEN Parity32(x) ELSE Parity32(Low32(Xor(x, Shr(x, 32))))

Bswap16(x) == Rotl(16, x, 8)
Bswap32(x) == Shl(32, Bswap16(x \cap 0 .. 15), 16) \cup Bswap16(Shr(x, 16))
Bswap(w, x) == IF w = 32 THEN Bswap32(x) ELSE Shl(64, Bswap32(Low32(x)), 32) \cup Bswap32(Shr(x, 32))
ReverseBits(w, x) == Bswap(w, FoldLeft(LAMBDA z, k : (Shr(z, k) \cap Even(w, k)) \cup Shl(w, z \cap Even(w, k), k), x, <<1, 2, 4>>))

XPerm(w, x, indices, size) ==            \* size: BYTE, or 4 for nibbles
    UNION {Shl(w, Shr(x, size * Num(Shr(indices, size * i) \cap BitsOf(5, w \div size - 1))) \cap 0 .. size - 1, size * i)
             : i \in 0 .. w \div size - 1}

---------------------------------------------------------------------------
(* average, wide products, scattered and interleaved bits *)

Half(x) == Shr(x, 1)
UMidpoint(w, x, y) == IF Num(x) <= Num(y) THEN Plus(w, x, Half(Minus(w, y, x))) ELSE Minus(w, x, Half(Minus(w, x, y)))
SNum(w, x) == IF Negative(w, x) THEN Num(x) - 2 ^ w ELSE Num(x)
Midpoint(w, x, y) ==
    IF SNum(w, x) <= SNum(w, y) THEN Plus(w, x, Half(Minus(w, y, x))) ELSE Minus(w, x, Half(Minus(w, x, y)))

(* two words multiplied by their halves; all numbers are words of w bits *)
UMulWide(w, x, y) ==
    LET h       == 2 ^ (w \div 2)
        m(n)    == n % 2 ^ w
        a       == m((x % h) * (y % h))
        b       == m((x \div h) * (y % h))
        c       == m((x % h) * (y \div h))
        d       == m((x \div h) * (y \div h))
        carry   == m(a \div h + (b % h) + (c % h)) \div h
    IN [lo |-> m(a + (b % h) * h + (c % h) * h), hi |-> m(carry + (b \div h) + (c \div h) + d)]
IMulWide(w, x, y) ==
    LET u == UMulWide(w, x % 2 ^ w, y % 2 ^ w)
        z == u.hi - (IF x < 0 THEN y ELSE 0) - (IF y < 0 THEN x ELSE 0)
    IN [lo |-> u.lo, hi |-> SNum(w, BitsOf(w, z))]

RECURSIVE Scatter(_, _, _), Gather(_, _, _, _), ClMul(_, _, _), ClMulR(_, _, _), WideHigh(_, _, _)
Scatter(w, x, mask) ==
    IF mask = {} THEN {}
    ELSE Shl(w, x \cap {0}, CtzBits(w, mask)) \cup Scatter(w, Shr(x, 1), ClearLsb(w, mask))
Gather(w, x, mask, y) ==
    IF mask = {} THEN y
    ELSE LET s == ClzBits(w, mask)
             t == Shl(w, x, s)
         IN Gather(w, t, Shr(Shl(w, Shl(w, mask, s), 1), 1), Shl(w, y, 1) \cup Shr(t, w - 1))
ClMul(w, x, y)  == IF y = {} THEN {} ELSE Xor(Shl(w, x, CtzBits(w, y)), ClMul(w, x, ClearLsb(w, y)))
ClMulR(w, x, y) == IF y = {} THEN {} ELSE Xor(Shr(x, w - CtzBits(w, y) - 1), ClMulR(w, x, ClearLsb(w, y)))
(* The high word of the product, as the set of possible outcomes. With 64    *)
(* bits a shift by the whole width, when bit 0 of y is set, is undefined in  *)
(* C: a processor that takes the number modulo the width leaves x.           *)
ShrOutcomes(w, x, k) == IF k = w THEN {{}, x} ELSE {Shr(x, k)}
WideHigh(w, x, y) == IF y = {} THEN {{}}
                     ELSE {Xor(z, high) : z \in ShrOutcomes(w, x, w - CtzBits(w, y)),
                                          high \in WideHigh(w, x, ClearLsb(w, y))}
ClMulHigh(w, x, y) == IF w = 32 THEN {Shr(ClMul(64, x, y), 32)} ELSE WideHigh(w, x, y)

Spread == <<16, 8, 4, 2, 1>>
Steps(w) == IF w = 32 THEN SubSeq(Spread, 2, 5) ELSE Spread
ScatterEven(w, x) == FoldLeft(LAMBDA z, k : (z \cup Shl(w, z, k)) \cap Even(w, k), x, Steps(w))
GatherEven(w, x)  == FoldLeft(LAMBDA z, k : (z \cup Shr(z, k)) \cap Even(w, 2 * k), x \cap Even(w, 1), Reverse(Steps(w)))
ZipBits(w, x)   == Shl(w, ScatterEven(w, Shr(x, w \div 2)), 1) \cup ScatterEven(w, x \cap 0 .. w \div 2 - 1)
UnzipBits(w, x) == Shl(w, GatherEven(w, Shr(x, 1)), w \div 2) \cup GatherEven(w, x)
===========================================================================
