-------------------------------- MODULE Text --------------------------------
(* Strings: bytes that are valid utf-8 (kklib/src/string.c, src/bytes.c,    *)
(* their headers, and lib/std/core/inline/sslice.c). A string is the        *)
(* sequence of its bytes; a position in it counts bytes from 0, and the     *)
(* byte after the last one reads as the terminating 0.                      *)
EXTENDS Bits

At(s, p)      == IF p \in 0 .. Len(s) - 1 THEN s[p + 1] ELSE 0
From(s, p, n) == SubSeq(s, p + 1, p + n)
Sized(n, s)   == [length |-> n, str |-> s]    \* s, in memory for n bytes
IsCont(b)     == b \in 128 .. 191
InSurrogates(c) == c \in 55296 .. 57343                   \* 0xD800 .. 0xDFFF
RAW_UTF16   == 917504                                     \* KK_RAW_UTF16_OFS
RAW_UTF8    == RAW_UTF16 + 57344                          \* KK_RAW_UTF8_OFS
IsRaw(c)    == c \in RAW_UTF16 + 55296 .. RAW_UTF16 + 57599
REPLACEMENT == 65533

---------------------------------------------------------------------------
(* code points *)

Writable(c) == IF InSurrogates(c) THEN c + RAW_UTF16 ELSE IF c > 1114111 THEN REPLACEMENT ELSE c
Tail6(c, k) == 128 + ((c \div 64 ^ k) % 64)
Utf8Write(code) ==
    LET c == Writable(code)
    IN IF c <= 127 THEN <<c>>
       ELSE IF c <= 2047 THEN <<192 + c \div 64, Tail6(c, 0)>>
       ELSE IF c <= 65535 THEN <<224 + c \div 4096, Tail6(c, 1), Tail6(c, 0)>>
       ELSE <<240 + c \div 262144, Tail6(c, 2), Tail6(c, 1), Tail6(c, 0)>>
Utf8Len(code) == LET c == Writable(code) IN IF c <= 127 THEN 1 ELSE IF c <= 2047 THEN 2 ELSE IF c <= 65535 THEN 3 ELSE 4

Joined(b, conts, bits) == FoldLeft(LAMBDA c, t : c * 64 + (t % 64), b % 2 ^ bits, conts)
RawByte(b) == [c |-> RAW_UTF8 + b, n |-> 1, valid |-> FALSE]
Code(s, p, n) == [c |-> Joined(At(s, p), From(s, p + 1, n - 1), 7 - n), n |-> n, valid |-> TRUE]

(* mutant: an encoded half of a surrogate pair is taken for a code point     *)
ReadValidate_Surrogates(s, p, identity) ==
    LET b == At(s, p)
        n == IF b <= 127 THEN 1 ELSE IF b <= 223 THEN 2 ELSE IF b <= 239 THEN 3 ELSE 4
        conts == \A k \in 1 .. n - 1 : IsCont(At(s, p + k))
        overlong == b <= 193 \/ (b = 224 /\ At(s, p + 1) <= 159) \/ (b = 240 /\ At(s, p + 1) <= 143)
    IN IF b <= 127 THEN [c |-> b, n |-> 1, valid |-> TRUE]
       ELSE IF conts /\ b <= 244 /\ ~ overlong /\ ~ (identity /\ IsRaw(Code(s, p, n).c)) THEN Code(s, p, n)
       ELSE RawByte(b)
ReadValidate(s, p, identity) ==
    LET b == At(s, p)
        b1 == At(s, p + 1)
        conts(n) == \A k \in 1 .. n : IsCont(At(s, p + k))
        three == \/ b = 224 /\ b1 \in 160 .. 191 /\ conts(2)
                 \/ b \in 225 .. 239 \ {237} /\ conts(2)
                 \/ b = 237 /\ b1 \in 128 .. 159 /\ conts(2)
        four  == \/ b = 240 /\ b1 \in 144 .. 191 /\ conts(3)
                 \/ b \in 241 .. 243 /\ conts(3)
                 \/ b = 244 /\ b1 \in 128 .. 143 /\ conts(3)
    IN IF b <= 127 THEN [c |-> b, n |-> 1, valid |-> TRUE]
       ELSE IF b \in 194 .. 223 /\ conts(1) THEN Code(s, p, 2)
       ELSE IF three THEN Code(s, p, 3)
       ELSE IF four /\ ~ (identity /\ IsRaw(Code(s, p, 4).c)) THEN Code(s, p, 4)
       ELSE RawByte(b)

(* without validation, of a string that is valid *)
Utf8Read(s, p) ==
    LET b == At(s, p)
    IN IF b <= 127 THEN [c |-> b, n |-> 1]
       ELSE IF b <= 193 \/ b > 244 THEN [c |-> RAW_UTF8 + b, n |-> 1]
       ELSE LET r == Code(s, p, IF b <= 223 THEN 2 ELSE IF b <= 239 THEN 3 ELSE 4) IN [c |-> r.c, n |-> r.n]

RECURSIVE Reads(_, _, _)
Reads(s, p, identity) ==
    IF p >= Len(s) THEN <<>>
    ELSE LET r == ReadValidate(s, p, identity) IN <<r>> \o Reads(s, p + r.n, identity)
Sum(seq, f(_)) == FoldLeft(LAMBDA n, r : n + f(r), 0, seq)
Written(codes)  == FlattenSeq([i \in 1 .. Len(codes) |-> Utf8Write(codes[i])])

(* from external bytes; length: what was allocated for the result *)
Qutf8Convert(s, identity) ==
    LET reads  == Reads(s, 0, identity)
        length == Sum(reads, LAMBDA r : IF r.valid THEN r.n ELSE 4)
    IN Sized(length, IF length = Len(s) THEN s ELSE Written([i \in 1 .. Len(reads) |-> reads[i].c]))
FromUtf8(s)  == IF At(s, 0) = 0 THEN Sized(0, <<>>) ELSE Qutf8Convert(s, FALSE)
FromQutf8(s) == Qutf8Convert(s, TRUE)

RECURSIVE Chars(_, _)
Chars(s, p) == IF p >= Len(s) THEN <<>> ELSE LET r == Utf8Read(s, p) IN <<r.c>> \o Chars(s, p + r.n)
ToChars(s)    == Chars(s, 0)
FromChars(cs) == Sized(Sum(cs, Utf8Len), Written(cs))

(* back to external bytes: the code points that stand for one byte are      *)
(* written as that byte                                                     *)
ToQutf8(s) == FlattenSeq([i \in 1 .. Len(ToChars(s)) |->
    LET c == ToChars(s)[i] IN IF c \in RAW_UTF8 .. RAW_UTF8 + 127 THEN <<c - RAW_UTF8>> ELSE Utf8Write(c)])

---------------------------------------------------------------------------
(* utf-16 in which halves of surrogate pairs may stand alone *)

IsHigh(u) == u \in 55296 .. 56319
IsLow(u)  == u \in 56320 .. 57343
PairCode(u, v) == 65536 + (u - 55296) * 1024 + (v - 56320)
RECURSIVE Qutf16Length(_, _, _), Qutf16Codes(_, _, _)
Qutf16Length(ws, p, identity) ==
    IF p >= Len(ws) THEN 0
    ELSE LET u == At(ws, p)
             pair == IsHigh(u) /\ IsLow(At(ws, p + 1))
             skip == pair /\ ~ (identity /\ IsRaw(PairCode(u, At(ws, p + 1))))
         IN IF u <= 127 THEN 1 + Qutf16Length(ws, p + 1, identity)
            ELSE IF u <= 2047 THEN 2 + Qutf16Length(ws, p + 1, identity)
            ELSE IF u <= 55296 \/ u > 57343 THEN 3 + Qutf16Length(ws, p + 1, identity)
            ELSE 4 + Qutf16Length(ws, p + (IF skip THEN 2 ELSE 1), identity)
Qutf16Codes(ws, p, identity) ==
    IF p >= Len(ws) THEN <<>>
    ELSE LET u == At(ws, p)
             pair == IsHigh(u) /\ IsLow(At(ws, p + 1))
             code == PairCode(u, At(ws, p + 1))
         IN IF u <= 55296 THEN <<u>> \o Qutf16Codes(ws, p + 1, identity)
            ELSE IF pair /\ ~ (identity /\ IsRaw(code)) THEN <<code>> \o Qutf16Codes(ws, p + 2, identity)
            ELSE <<RAW_UTF16 + u>> \o Qutf16Codes(ws, p + 1, identity)
FromQutf16(ws) == Sized(Qutf16Length(ws, 0, TRUE), Written(Qutf16Codes(ws, 0, TRUE)))

Halves(c) == IF c <= 65535 THEN <<c>>
             ELSE IF InSurrogates(c - RAW_UTF16) THEN <<c - RAW_UTF16>>
             ELSE <<55296 + (c - 65536) \div 1024, 56320 + (c % 1024)>>
ToQutf16(s) == FlattenSeq([i \in 1 .. Len(ToChars(s)) |-> Halves(ToChars(s)[i])])

---------------------------------------------------------------------------
(* lengths, counts and comparison *)

(* up to 7 bytes in one word: the bytes, a 0 and 0xFF to fill it up *)
SMALL_MAX == 7
BytesWord(bytes) == UNION {Shl(64, BitsOf(BYTE, bytes[i]), BYTE * (i - 1)) : i \in 1 .. Len(bytes)}
SmallWord(s)  == BytesWord(s \o <<0>> \o [i \in 1 .. SMALL_MAX - Len(s) |-> 255])
SmallLen(u)   == SMALL_MAX - ClzBits(64, Not(64, u)) \div BYTE

(* a word at a time; a: bytes before the first one that is aligned *)
ContsIn(s) == Cardinality({i \in 1 .. Len(s) : IsCont(s[i])})
ContsInWord(u) == ByteSum(64, Shr(u \cap HiBits(64), 7) \cap Shr(Not(64, u), 6))
StringCount(s, a) ==
    LET words == (Len(s) - a) \div 8
        rest  == a + 8 * words
    IN Len(s) - (IF a >= Len(s) THEN ContsIn(s)
                 ELSE ContsIn(From(s, 0, a)) + ContsIn(From(s, rest, Len(s) - rest))
                      + FoldLeft(LAMBDA n, k : n + ContsInWord(BytesWord(From(s, a + 8 * (k - 1), 8))),
                                 0, [k \in 1 .. words |-> k]))

BytesCmp(s, t) ==
    LET least == IF Len(s) <= Len(t) THEN Len(s) ELSE Len(t)
        differ == {i \in 1 .. least : s[i] # t[i]}
        sign(n, m) == IF n < m THEN -1 ELSE IF n > m THEN 1 ELSE 0
    IN IF differ # {} THEN sign(s[Min(differ)], t[Min(differ)]) ELSE sign(Len(s), Len(t))

---------------------------------------------------------------------------
(* searching, splitting and replacing *)

NOWHERE == -1
Memmem(s, p, pat) ==
    LET found == {q \in p .. Len(s) - Len(pat) : From(s, q, Len(pat)) = pat}
    IN IF pat = <<>> \/ found = {} THEN NOWHERE ELSE Min(found)
RECURSIVE Found(_, _, _, _), Found_Overlap(_, _, _, _)
(* mutant: the search goes on at the next byte                               *)
Found_Overlap(s, p, pat, n) ==
    LET q == Memmem(s, p, pat)
    IN IF n <= 0 \/ q = NOWHERE THEN <<>> ELSE <<q>> \o Found_Overlap(s, q + 1, pat, n - 1)
(* the first n, without overlap *)
Found(s, p, pat, n) ==
    LET q == Memmem(s, p, pat)
    IN IF n <= 0 \/ q = NOWHERE THEN <<>> ELSE <<q>> \o Found(s, q + Len(pat), pat, n - 1)
CountPattern(s, pat) == IF pat = <<>> THEN StringCount(s, 0) ELSE Len(Found(s, 0, pat, Len(s)))
IndexOf1(s, t) == IF t = <<>> THEN (IF s = <<>> THEN 0 ELSE 1) ELSE Memmem(s, 0, t) + 1
LastIndexOf1(s, t) ==
    LET found == {q \in 0 .. Len(s) - Len(t) : From(s, q, Len(t)) = t}
    IN IF t = <<>> THEN Len(s) ELSE IF found = {} THEN 0 ELSE Max(found) + 1
StartsWith(s, t) == IF t = <<>> THEN s # <<>> ELSE Len(t) <= Len(s) /\ From(s, 0, Len(t)) = t
EndsWith(s, t)   == IF t = <<>> THEN s # <<>> ELSE Len(t) <= Len(s) /\ From(s, Len(s) - Len(t), Len(t)) = t

Utf8Next(s, p) == CHOOSE q \in p + 1 .. Len(s) + 1 : ~ IsCont(At(s, q)) /\ \A r \in p + 1 .. q - 1 : IsCont(At(s, r))
Utf8Prev(s, p) == CHOOSE q \in 0 .. p - 1 : ~ IsCont(At(s, q)) /\ \A r \in q + 1 .. p - 1 : IsCont(At(s, r))
RECURSIVE NextTimes(_, _, _, _), PrevTimes(_, _, _)
NextTimes(s, p, n, end) == IF n <= 0 \/ p >= end THEN p ELSE NextTimes(s, Utf8Next(s, p), n - 1, end)
PrevTimes(s, p, n)      == IF n <= 0 \/ p <= 0 THEN p ELSE PrevTimes(s, Utf8Prev(s, p), n - 1)

(* at most n parts (n >= 1) *)
SplitAtMost(s, sep, n) ==
    LET starts == IF sep = <<>> THEN [i \in 1 .. Min({StringCount(s, 0), n}) - 1 |-> NextTimes(s, 0, i, Len(s))]
                                ELSE Found(s, 0, sep, n - 1)
        first(i) == IF i = 1 THEN 0 ELSE starts[i - 1] + Len(sep)
        last(i)  == IF i = Len(starts) + 1 THEN Len(s) ELSE starts[i]
    IN [i \in 1 .. Len(starts) + 1 |-> From(s, first(i), last(i) - first(i))]
JoinWith(parts, sep) ==
    FlattenSeq([i \in 1 .. Len(parts) |-> IF i = Len(parts) THEN parts[i] ELSE parts[i] \o sep])

(* in place when the string is not shared and the lengths agree, and else   *)
(* in memory for as many bytes as the matches are expected to leave         *)
RECURSIVE Overwritten(_, _, _, _, _)
Overwritten(s, p, pat, rep, n) ==
    LET q == Memmem(s, p, pat)
    IN IF n <= 0 \/ q = NOWHERE THEN s
       ELSE Overwritten(From(s, 0, q) \o rep \o From(s, q + Len(pat), Len(s) - q - Len(pat)),
                        q + Len(rep), pat, rep, n - 1)
ReplaceAtMost(s, pat, rep, n, unique) ==
    LET count == Len(Found(s, 0, pat, n))
    IN IF n <= 0 \/ s = <<>> \/ pat = <<>> THEN Sized(Len(s), s)
       ELSE IF unique /\ Len(pat) = Len(rep) THEN Sized(Len(s), Overwritten(s, 0, pat, rep, n))
       ELSE Sized(Len(s) - count * Len(pat) + count * Len(rep), JoinWith(SplitAtMost(s, pat, n + 1), rep))
Cat(s, t)    == Sized(Len(s) + Len(t), s \o t)
Repeat(s, n) == Sized(Len(s) * Max({0, n}), FlattenSeq([i \in 1 .. n |-> s]))

ToUpper(b) == IF b \in 97 .. 122 THEN b - 32 ELSE b
ToLower(b) == IF b \in 65 .. 90 THEN b + 32 ELSE b
IsWhite(b) == b \in {32, 9, 10, 13}
UpperCase(s) == [i \in 1 .. Len(s) |-> ToUpper(s[i])]
LowerCase(s) == [i \in 1 .. Len(s) |-> ToLower(s[i])]
TrimLeft(s)  == LET p == Min({q \in 0 .. Len(s) : ~ IsWhite(At(s, q))}) IN Sized(Len(s) - p, From(s, p, Len(s) - p))
TrimRight(s) == LET n == Max({0} \cup {q \in 1 .. Len(s) : ~ IsWhite(At(s, q - 1))}) IN Sized(n, From(s, 0, n))

---------------------------------------------------------------------------
(* slices: [start, len] of a string *)

SliceFirst(s) == [start |-> 0, len |-> IF s = <<>> THEN 0 ELSE Utf8Next(s, 0)]
SliceLast(s)  == LET p == IF s = <<>> THEN 0 ELSE Utf8Prev(s, Len(s)) IN [start |-> p, len |-> Len(s) - p]
SliceNext(s, sl) == LET n == Min({Utf8Read(s, sl.start).n, sl.len}) IN [start |-> sl.start + n, len |-> sl.len - n]
SliceString(s, sl) == Sized(sl.len, From(s, sl.start, sl.len))
RECURSIVE NextNonZero(_, _, _)             \* stops at a 0 byte
NextNonZero(s, p, n) == IF n <= 0 \/ At(s, p) = 0 THEN p ELSE NextNonZero(s, Utf8Next(s, p), n - 1)
SliceExtend(s, sl, n) ==
    LET end == sl.start + sl.len
        t == IF n >= 0 THEN NextNonZero(s, end, n) ELSE PrevTimes(s, end, -n)
    IN IF n = 0 \/ (sl.len <= 0 /\ n < 0) THEN sl
       ELSE [start |-> sl.start, len |-> IF t < sl.start THEN 0 ELSE t - sl.start]
SliceAdvance(s, sl, n) ==
    LET moved(p) == IF n >= 0 THEN NextTimes(s, p, n, Len(s)) ELSE PrevTimes(s, p, -n)
        t0 == moved(sl.start)
    IN IF n = 0 \/ (t0 = sl.start /\ n > 0) THEN sl
       ELSE [start |-> t0, len |-> moved(sl.start + sl.len) - t0]
INVALID_SLICE == [start |-> 0, len |-> -1]            \* of the empty string
SliceBetween(same, a, b) ==               \* same: they are slices of one string
    IF same THEN [start |-> Min({a.start, b.start}), len |-> Max({a.start, b.start}) - Min({a.start, b.start})]
    ELSE INVALID_SLICE
SliceCount(s, sl) ==
    LET n == {k \in 0 .. Max({0, sl.len}) : LET p == NextNonZero(s, sl.start, k) IN p >= sl.start + sl.len \/ At(s, p) = 0}
    IN Min(n)
===========================================================================
