------------------------------ MODULE TextOps ------------------------------
(* Programs that compute with strings: one string and one slice of it, as   *)
(* bytes, next to the code points that they should stand for. Operations    *)
(* work on bytes and never decode what they move (string.c, bytes.c,        *)
(* sslice.c).                                                               *)
EXTENDS Text

CONSTANTS
    Externals,      \* bytes read from outside
    Externals16,    \* the same in units of 16 bits
    Literals,       \* sequences of code points: the other operands
    Counts,         \* how many to replace, or code points to move by
    MAX_ACTS,       \* bound: operations in a row
    MAX_BYTES       \* bound: bytes of a string

VARIABLES
    str, alloc,     \* the bytes, and how many were allocated for them
    slice,          \* positions in str
    chars, sub,     \* what str and slice stand for
    external,       \* the bytes or units that str was read from
    acts
textVars == <<str, alloc, slice, chars, sub, external, acts>>

(* external bytes mean the code points they encode, if each is encoded the  *)
(* one right way, and else one raw code point for each byte                 *)
Scalar(c) == c \in 0 .. 1114111 /\ ~ InSurrogates(c)
Encoded(s, p, identity) ==
    {c \in {Joined(At(s, p), From(s, p + 1, n - 1), IF n = 1 THEN 7 ELSE 7 - n) : n \in 1 .. Min({4, Len(s) - p})} :
        Scalar(c) /\ From(s, p, Len(Utf8Write(c))) = Utf8Write(c) /\ ~ (identity /\ IsRaw(c))}
RECURSIVE Meaning(_, _, _), Meaning16(_, _), Replaced(_, _, _, _)
Meaning(s, p, identity) ==
    IF p >= Len(s) THEN <<>>
    ELSE LET cs == Encoded(s, p, identity)
         IN IF cs = {} THEN <<RAW_UTF8 + At(s, p)>> \o Meaning(s, p + 1, identity)
            ELSE LET c == CHOOSE c \in cs : TRUE IN <<c>> \o Meaning(s, p + Len(Utf8Write(c)), identity)
Meaning16(ws, p) ==
    IF p >= Len(ws) THEN <<>>
    ELSE LET u == At(ws, p)
             v == At(ws, p + 1)
         IN IF IsHigh(u) /\ IsLow(v) /\ ~ IsRaw(PairCode(u, v)) THEN <<PairCode(u, v)>> \o Meaning16(ws, p + 2)
            ELSE <<Writable(u)>> \o Meaning16(ws, p + 1)
Replaced(cs, pat, rep, n) ==
    IF n <= 0 \/ Len(cs) < Len(pat) THEN cs
    ELSE IF SubSeq(cs, 1, Len(pat)) = pat
         THEN rep \o Replaced(SubSeq(cs, Len(pat) + 1, Len(cs)), pat, rep, n - 1)
         ELSE <<Head(cs)>> \o Replaced(Tail(cs), pat, rep, n)

Holds(conv, cs) ==
    /\ Len(conv.str) <= MAX_BYTES
    /\ str = conv.str /\ alloc = conv.length /\ chars = cs
    /\ slice = [start |-> 0, len |-> Len(conv.str)]
    /\ sub = [from |-> 0, n |-> Len(cs)]
    /\ acts = 0
TextInit ==
    \/ \E e \in Externals : \/ external = <<"qutf8", e>> /\ Holds(FromQutf8(e), Meaning(e, 0, TRUE))
                            \/ external = <<"utf8", e>> /\ Holds(FromUtf8(e), Meaning(e, 0, FALSE))
    \/ \E ws \in Externals16 : external = <<"qutf16", ws>> /\ Holds(FromQutf16(ws), Meaning16(ws, 0))
    \/ \E cs \in Literals : external = <<"none", <<>>>> /\ Holds(FromChars(cs), cs)
TextIdle == /\ str = <<>> /\ alloc = 0 /\ chars = <<>> /\ acts = MAX_ACTS /\ external = <<"none", <<>>>>
            /\ slice = [start |-> 0, len |-> 0] /\ sub = [from |-> 0, n |-> 0]

(* Two kinds of external text are not read as what they mean. A unit 0xD800, *)
(* or one above 0xDFFF, is written into more memory than was counted for it  *)
(* (string.c:528), and what the program does then is undefined. Of utf-8     *)
(* that begins with a byte 0 nothing is read (string.c:377).                 *)
Overrun == external[1] = "qutf16" /\ \E u \in Range(external[2]) : u = 55296 \/ u > 57343
Misread == Overrun \/ (external[1] = "utf8" /\ external[2] # <<>> /\ Head(external[2]) = 0)

SetString(new, cs) ==
    /\ ~ Misread
    /\ acts < MAX_ACTS /\ Len(new.str) <= MAX_BYTES
    /\ str' = new.str /\ alloc' = new.length /\ chars' = cs
    /\ slice' = [start |-> 0, len |-> Len(new.str)]
    /\ sub' = [from |-> 0, n |-> Len(cs)]
    /\ acts' = acts + 1
    /\ external' = <<"none", <<>>>>
SetSlice(sl, from, to) ==
    /\ ~ Misread /\ slice.len >= 0
    /\ acts < MAX_ACTS
    /\ slice' = sl
    /\ sub' = [from |-> from, n |-> to - from]
    /\ acts' = acts + 1
    /\ UNCHANGED <<str, alloc, chars, external>>

BytesOf(cs) == FromChars(cs).str
Without(cs, op(_)) == SelectSeq(cs, LAMBDA c : ~ op(c))
Concatenate == \E t \in Literals : \/ SetString(Cat(str, BytesOf(t)), chars \o t)
                                   \/ SetString(Cat(BytesOf(t), str), t \o chars)
Duplicate == SetString(Repeat(str, 2), chars \o chars)
Replace == \E pat \in Literals, rep \in Literals, n \in Counts, unique \in BOOLEAN :
    SetString(ReplaceAtMost(str, BytesOf(pat), BytesOf(rep), n, unique),
              IF pat = <<>> THEN chars ELSE Replaced(chars, pat, rep, n))
ChangeCase == \/ SetString(Sized(alloc, UpperCase(str)), UpperCase(chars))
              \/ SetString(Sized(alloc, LowerCase(str)), LowerCase(chars))
Trims == \E p \in 0 .. Len(chars) :
    LET cut == SubSeq(chars, p + 1, Len(chars))
        keep == SubSeq(chars, 1, p)
    IN \/ Without(keep, IsWhite) = <<>> /\ ~ IsWhite(At(cut, 0)) /\ SetString(TrimLeft(str), cut)
       \/ Without(cut, IsWhite) = <<>> /\ (p > 0 => ~ IsWhite(At(chars, p - 1))) /\ SetString(TrimRight(str), keep)
TakeSlice == slice.len >= 0 /\ SetString(SliceString(str, slice), SubSeq(chars, sub.from + 1, sub.from + sub.n))

Clip(n) == Min({Len(chars), Max({0, n})})
Ends == \/ SetSlice(SliceFirst(str), 0, Clip(1))
        \/ SetSlice(SliceLast(str), Clip(Len(chars) - 1), Len(chars))
Step == sub.n > 0 /\ SetSlice(SliceNext(str, slice), sub.from + 1, sub.from + sub.n)
(* the code points from k on up to a 0, at which extending stops             *)
Run(k) == Min({i \in 0 .. Len(chars) - k : k + i = Len(chars) \/ At(chars, k + i) = 0})
Extend == \E n \in Counts :
    LET end == sub.from + sub.n
    IN SetSlice(SliceExtend(str, slice, n), sub.from, Max({sub.from, end + Min({n, Run(end)})}))
Advance == \E n \in Counts : SetSlice(SliceAdvance(str, slice, n), Clip(sub.from + n), Clip(sub.from + sub.n + n))
Between == SetSlice(SliceBetween(TRUE, slice, SliceLast(str)),
                    Min({sub.from, Clip(Len(chars) - 1)}), Max({sub.from, Clip(Len(chars) - 1)}))
(* with a slice of another string *)
BetweenOthers == /\ ~ Misread
                 /\ acts < MAX_ACTS /\ acts' = acts + 1
                 /\ str' = <<>> /\ alloc' = 0 /\ chars' = <<>>
                 /\ slice' = SliceBetween(FALSE, slice, slice)
                 /\ sub' = [from |-> 0, n |-> 0]
                 /\ external' = <<"none", <<>>>>

TextNext == \/ Concatenate \/ Duplicate \/ Replace \/ ChangeCase \/ Trims
            \/ TakeSlice \/ Ends \/ Step \/ Extend \/ Advance
            \/ Between \/ BetweenOthers

---------------------------------------------------------------------------
(* A string is the valid utf-8 of its code points, and as many bytes as were *)
(* computed for it before it was written, however bytes were read, joined,   *)
(* replaced, trimmed and sliced (string.h:15). A slice begins and ends at    *)
(* code points, and moves by as many as it should, except that a code point  *)
(* 0 ends extending (sslice.c:127). Units read can be written back           *)
(* (string.h:70). Nothing is said of text that is misread.                   *)
TextExact ==
    LET position(k) == Len(BytesOf(SubSeq(chars, 1, k)))
    IN ~ Misread =>
       /\ \A i \in 1 .. Len(chars) : Scalar(chars[i])
       /\ str = BytesOf(chars) /\ ToChars(str) = chars
       /\ alloc = Len(str)
       /\ slice # INVALID_SLICE => /\ slice.start = position(sub.from)
                                  /\ slice.start + slice.len = position(sub.from + sub.n)
       /\ external[1] = "qutf16" => ToQutf16(str) = external[2]

(* Searching, counting and comparing bytes finds, counts and orders code    *)
(* points, whole words of bytes included; counting a slice stops at a code  *)
(* point 0 (sslice.c:33). The length of a small string is read back from    *)
(* the word that holds it. Nothing is said of text that is misread.         *)
SearchExact ==
  ~ Misread =>
    /\ \A a \in {0, 3}, k \in {1, 3} : StringCount(Repeat(str, k).str, a) = k * Len(chars)
    /\ 0 \notin Range(chars) => SliceCount(str, slice) = sub.n
    /\ Len(str) <= SMALL_MAX => SmallLen(SmallWord(str)) = Len(str)
    /\ \A t \in Literals \ {<<>>} :
         LET s == BytesOf(t)
             at == {p \in 0 .. Len(chars) - Len(t) : SubSeq(chars, p + 1, p + Len(t)) = t}
             position(k) == Len(BytesOf(SubSeq(chars, 1, k)))
         IN /\ IndexOf1(str, s) = (IF at = {} THEN 0 ELSE position(Min(at)) + 1)
            /\ LastIndexOf1(str, s) = (IF at = {} THEN 0 ELSE position(Max(at)) + 1)
            /\ StartsWith(str, s) <=> 0 \in at
            /\ EndsWith(str, s) <=> Len(chars) - Len(t) \in at
            /\ CountPattern(str, s) * Len(t) = Len(chars) - Len(Replaced(chars, t, <<>>, Len(chars)))
            /\ JoinWith(SplitAtMost(str, s, Len(str) + 1), s) = str
            /\ BytesCmp(str, s) = BytesCmp(chars, t)

(* Every string is written into just the memory that was counted for it, as *)
(* "kk_assert_internal(q == s + len && *q == 0)" says (string.c:582).       *)
RoomExact == alloc = Len(str)

(* The bytes that a string was read from can be written back: a byte that   *)
(* is not utf-8 is stored as a raw code point, "and only when encoding back *)
(* to qutf-8/16, we encode these code points specially again to make this   *)
(* an identity transformation" (string.h:70).                               *)
WrittenBack == external[1] = "qutf8" => ToQutf8(str) = external[2]
===========================================================================
