------------------------------ MODULE WordOps ------------------------------
(* Every operation of Bits on given words, against what it should compute.  *)
EXTENDS Bits

CONSTANTS Widths,       \* of words: 32 or 64
          Singles(_),   \* words given to the operations of one argument
          Pairs(_),     \* words given in pairs to those of two
          Narrow        \* numbers of NARROW bits for products and averages

VARIABLE probe          \* the words under test: width, arguments
wordVars == <<probe>>

NARROW == 8
WordIdle == probe = [w |-> 0, x |-> {}, y |-> {}]
WordInit == probe \in UNION {[w : {v}, x : Singles(v) \cup Pairs(v), y : {{}}] : v \in Widths}
                \cup [w : {NARROW}, x : {BitsOf(NARROW, n) : n \in Narrow}, y : {{}}]
WordNext ==
    /\ probe.y = {}
    /\ \E y \in IF probe.w = NARROW THEN {BitsOf(NARROW, n) : n \in Narrow}
                ELSE IF probe.w \in Widths /\ probe.x \in Pairs(probe.w) THEN Pairs(probe.w) ELSE {} :
         probe' = [probe EXCEPT !.y = y]

Bytes(w)       == 0 .. w \div BYTE - 1
Complement(w, x) == (0 .. w - 1) \ x
Leading(w, x)  == IF x = {} THEN w ELSE w - 1 - Max(x)
Rank(i, mask)  == Cardinality({j \in mask : j < i})

CountsRight(w, x) ==
    /\ CtzBits(w, x) = (IF x = {} THEN w ELSE Min(x))
    /\ ClzBits(w, x) = Leading(w, x)
    /\ Clrsb(w, x) = Leading(w, IF w - 1 \in x THEN Complement(w, x) ELSE x) - 1
    /\ ClearLsb(w, x) = {i \in x : \E j \in x : j < i}
    /\ KeepLsb(w, x) = {i \in x : \A j \in x : i <= j}
    /\ x # {} => Log2Floor(w, x) = Max(x) /\ (Log2Ceil(w, x) = Max(x) <=> Cardinality(x) = 1)
    /\ Popcount(w, x) = Cardinality(x)
    /\ Parity(w, x) <=> Cardinality(x) % 2 = 0
    /\ w = 32 /\ x \subseteq 0 .. 29 => LET d == DigitsOfWord(w, x) IN
         d \in 1 .. 10 /\ (d < 10 => Num(x) < 10 ^ d) /\ (d > 1 => Num(x) >= 10 ^ (d - 1))
MovesRight(w, x) ==
    /\ Orc(w, x) = {i \in 0 .. w - 1 : \E j \in x : j \div BYTE = i \div BYTE}
    /\ HasZeroByte(w, x) <=> \E k \in Bytes(w) : Byte(x, k) = {}
    /\ Bswap(w, x) = {w - BYTE - BYTE * (i \div BYTE) + (i % BYTE) : i \in x}
    /\ ReverseBits(w, x) = {w - 1 - i : i \in x}
    /\ ZipBits(w, x) = {IF i < w \div 2 THEN 2 * i ELSE 2 * (i - w \div 2) + 1 : i \in x}
    /\ UnzipBits(w, ZipBits(w, x)) = x
    /\ \A k \in {-1, 0, 5, w - 1, w} : /\ Rotl(w, x, k) = {(i + k) % w : i \in x}
                                       /\ Rotr(w, x, k) = {(i - k) % w : i \in x}
HighProduct(w, x, y) ==
    {b - w : b \in {c \in w .. 2 * w - 1 : Cardinality({i \in x : c - i \in y}) % 2 = 1}}
PairsRight(w, x, y) ==
    /\ \A k \in {0, 2} : HasByte(w, x, Byte(y, k)) <=> \E j \in Bytes(w) : Byte(x, j) = Byte(y, k)
    /\ Scatter(w, x, y) = {i \in y : Rank(i, y) \in x}
    /\ Gather(w, x, y, {}) = {Rank(i, y) : i \in x \cap y}
    /\ LET product == {b \in 0 .. 2 * w - 1 : Cardinality({i \in x : b - i \in y}) % 2 = 1}
       IN /\ ClMul(w, x, y) = product \cap 0 .. w - 1
          /\ w = 32 \/ 0 \notin y => ClMulHigh(w, x, y) = {HighProduct(w, x, y)}
          /\ ClMulR(w, x, y) = {b - w + 1 : b \in product \cap w - 1 .. 2 * w - 2}
          /\ x = y => ZipBits(w, x) = ClMul(w, x, x) \cup ClMulR(w, x, x)
    /\ XPerm(w, x, y, BYTE) = UNION {Shl(w, Byte(x, Num(Byte(y, k)) % (w \div BYTE)), BYTE * k) : k \in Bytes(w)}
NarrowRight(x, y) ==
    LET n == Num(x)
        m == Num(y)
        sn == SNum(NARROW, x)
        sm == SNum(NARROW, y)
        toward(a, b) == IF a <= b THEN a + (b - a) \div 2 ELSE a - (a - b) \div 2
        u == UMulWide(NARROW, n, m)
        i == IMulWide(NARROW, sn, sm)
    IN /\ Num(UMidpoint(NARROW, x, y)) = toward(n, m)
       /\ SNum(NARROW, Midpoint(NARROW, x, y)) = toward(sn, sm)
       /\ u.hi * 2 ^ NARROW + u.lo = n * m
       /\ i.hi * 2 ^ NARROW + i.lo = sn * sm

(* The operations on words compute what their names promise, for words with *)
(* no bit set and with the highest bit set, and for rotations by 0 and by   *)
(* the whole width (bits.h, bits.c). Nothing is said of the high word of a  *)
(* carry-less product of 64 bits when bit 0 of the second factor is set:    *)
(* that is undefined (bits.c:380).                                          *)
WordOpsExact ==
    LET w == probe.w
    IN IF w = NARROW THEN NarrowRight(probe.x, probe.y)
       ELSE w \in Widths => IF probe.y = {} THEN CountsRight(w, probe.x) /\ MovesRight(w, probe.x)
                            ELSE PairsRight(w, probe.x, probe.y)

(* kk_clmul64_wide returns the high word of the carry-less product of any   *)
(* two words (bits.h).                                                      *)
WidesExact ==
    probe.w = 64 /\ probe.y # {} =>
        ClMulHigh(64, probe.x, probe.y) = {HighProduct(64, probe.x, probe.y)}
===========================================================================
