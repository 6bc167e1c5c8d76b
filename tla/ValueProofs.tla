---------------------------- MODULE ValueProofs ----------------------------
(* Values: small integers of every width, and lazy values in every heap.    *)
(*                                                                          *)
(* A fast path of SmallInts is taken only for two small integers whose      *)
(* result is small, and then yields its word; with the compiler's overflow  *)
(* tests it is taken for all of them.                                       *)
(*                                                                          *)
(* For Lazy, LazyInv says what each frame of each thread holds and knows of *)
(* the thunk it evaluates, that frames which block a thunk are alone, that  *)
(* every evaluation that was begun is some frame's, and that counts cover   *)
(* the references.  Of a step of one thread, StepKeeps asks that it is fair *)
(* to the frames of the others: it changes the count of a block only if it  *)
(* has a reference to it, and its tag, mark and field only if it has        *)
(* blocked it, has the last reference, or is alone and the tag is final.    *)
EXTENDS Lazy, SmallInts, FiniteSetTheorems, SequenceTheorems, TLAPS

---------------------------------------------------------------------------
(* Small integers                                                           *)

(* f is what a fast path for x and y yields, and n what it should stand for. *)
Sound(f, x, y, n) ==
    \A z \in f : IsValue(x) /\ IsValue(y) /\ IsSmallInt(n) /\ z = 4 * n + 1

(* A word and its value. *)
LEMMA WordValue ==
    ASSUME NEW x \in Word
    PROVE  /\ x \in Int /\ IsIntf(x) /\ x % 4 \in {0, 1}
           /\ SmallOf(x) \in Int
           /\ IsValue(x) => x = 4 * SmallOf(x) + 1
  BY DEF Word, IsValue, SmallOf

(* What the tags of two words say when the words are added or subtracted. *)
LEMMA Tags ==
    ASSUME NEW x \in Int, NEW y \in Int, x % 4 \in {0, 1}, y % 4 \in {0, 1}
    PROVE  /\ Bit1(x + y) = 1 <=> IsValue(x) /\ IsValue(y)
           /\ Bit1(Xor3(x) - y) = 0 <=> IsValue(x) /\ IsValue(y)
           /\ IsValue(x) /\ IsValue(y) =>
                /\ Xor3(x + y) = 4 * (SmallOf(x) + SmallOf(y)) + 1
                /\ Xor3(x) - y = 4 * (SmallOf(x) - SmallOf(y)) + 1
  BY DEF Bit1, IsValue, Xor3, SmallOf

(* A word fits exactly when the value does. *)
LEMMA Fits ==
    ASSUME NEW n \in Int, ARITHMETIC # "SOFA"
    PROVE  /\ IsIntf(4 * n) <=> IsSmallInt(n)
           /\ IsIntf(4 * n + 1) <=> IsSmallInt(n)
           /\ IsIntf(4 * n + 2) <=> IsSmallInt(n)
  BY SmallAssumption DEF IsIntf, IsSmallInt, INTF_MAX, SMALLINT_MIN

(* Quotient and remainder by a positive divisor. *)
LEMMA DivisionAlgorithm ==
    ASSUME NEW a \in Int, NEW d \in Int, d > 0
    PROVE  /\ a \div d \in Int /\ a % d \in Int
           /\ 0 <= a % d /\ a % d < d
           /\ a = d * (a \div d) + (a % d)
  BY Z3

(* A sign extended half is in range and keeps the lowest bits. *)
LEMMA Extended ==
    ASSUME NEW w \in Int
    PROVE  /\ SignExtend(w) \in Int
           /\ IsSmallInt(SignExtend(w))
           /\ SignExtend(w) % 4 = w % 4
<1> DEFINE half == SMALLINT_MAX + 1
           k == half \div 4
           d == 2 * half
           q == (w + half) \div d
           r == (w + half) % d
<1>1. half \in Int /\ half > 0 /\ k \in Int /\ half = 4 * k
  BY SmallAssumption
<1>2. d \in Int /\ d > 0 /\ w + half \in Int /\ d = 8 * k
  BY <1>1
<1>3. q \in Int /\ r \in Int /\ 0 <= r /\ r < d /\ w + half = d * q + r
  <2> HIDE DEF d, half
  <2> QED  BY <1>2, DivisionAlgorithm
<1>4. SignExtend(w) = r - half
  BY SmallAssumption DEF SignExtend
<1>5. k * q \in Int /\ r = w + half - 8 * (k * q)
  <2> HIDE DEF d, q, r, half, k
  <2>1. d * q = 8 * (k * q)
    BY <1>1, <1>2, <1>3
  <2> QED  BY <1>1, <1>2, <1>3, <2>1
<1>6. SignExtend(w) \in Int /\ SignExtend(w) % 4 = w % 4
  <2> HIDE DEF d, q, r, half, k
  <2>1. SignExtend(w) = w - 8 * (k * q)
    BY <1>1, <1>4, <1>5
  <2> DEFINE t == k * q
  <2>2. t \in Int
    BY <1>5
  <2>3. SignExtend(w) = w - 8 * t
    BY <2>1
  <2> HIDE DEF t
  <2> QED  BY <2>2, <2>3
<1>7. IsSmallInt(SignExtend(w))
  <2>1. d = 2 * SMALLINT_MAX + 2 /\ half = SMALLINT_MAX + 1
    BY SmallAssumption
  <2> HIDE DEF d, r, half
  <2> QED  BY <1>3, <1>4, <2>1, SmallAssumption DEF IsSmallInt, SMALLINT_MIN
<1> QED
  BY <1>6, <1>7

(* kk_integer_add: the fast path is right whenever it is taken. *)
THEOREM AddSound ==
    \A x, y \in Word : Sound(AddFast(x, y), x, y, SmallOf(x) + SmallOf(y))
<1> SUFFICES ASSUME NEW x \in Word, NEW y \in Word, NEW z \in AddFast(x, y)
             PROVE  /\ IsValue(x) /\ IsValue(y)
                    /\ IsSmallInt(SmallOf(x) + SmallOf(y))
                    /\ z = 4 * (SmallOf(x) + SmallOf(y)) + 1
  BY DEF Sound
<1> DEFINE n == SmallOf(x) + SmallOf(y)
<1>1. /\ x \in Int /\ y \in Int /\ x % 4 \in {0, 1} /\ y % 4 \in {0, 1}
      /\ n \in Int
      /\ IsValue(x) /\ IsValue(y) => x + y = 4 * n + 2
  BY WordValue
<1>2. CASE ARITHMETIC # "SOFA"
  <2>1. IsIntf(x + y) /\ IsValue(x) /\ IsValue(y) /\ z = Xor3(x + y)
    BY <1>1, <1>2, Tags, SmallAssumption DEF AddFast, Choose, AddOvf, AddTag, Checked, AreSmallInts
  <2> QED
    BY <1>1, <1>2, <2>1, Tags, Fits
<1>3. CASE ARITHMETIC = "SOFA"
  <2>1. Or(x + y, 2) = SignExtend(x + y) /\ z = Xor3(x + y)
    BY <1>3 DEF AddFast, Choose, AddSofa
  <2>2. (x + y) % 4 = SignExtend(x + y) % 4 /\ IsSmallInt(SignExtend(x + y))
    BY <1>1, Extended
  <2>3. Bit1(x + y) = 1 /\ x + y = SignExtend(x + y)
    BY <1>1, <2>1, <2>2 DEF Or, Bit1
  <2>4. IsSmallInt(n)
    <3>1. IsSmallInt(4 * n + 2)
      BY <1>1, <2>2, <2>3, Tags
    <3> HIDE DEF n
    <3> QED  BY <1>1, <3>1, SmallAssumption DEF IsSmallInt, SMALLINT_MIN
  <2> QED
    BY <1>1, <2>1, <2>3, <2>4, Tags
<1> QED
  BY <1>2, <1>3

(* kk_integer_sub, likewise. *)
THEOREM SubSound ==
    \A x, y \in Word : Sound(SubFast(x, y), x, y, SmallOf(x) - SmallOf(y))
<1> SUFFICES ASSUME NEW x \in Word, NEW y \in Word, NEW z \in SubFast(x, y)
             PROVE  /\ IsValue(x) /\ IsValue(y)
                    /\ IsSmallInt(SmallOf(x) - SmallOf(y))
                    /\ z = 4 * (SmallOf(x) - SmallOf(y)) + 1
  BY DEF Sound
<1> DEFINE n == SmallOf(x) - SmallOf(y)
           v == Xor3(x) - y
<1>1. /\ x \in Int /\ y \in Int /\ x % 4 \in {0, 1} /\ y % 4 \in {0, 1}
      /\ n \in Int
  BY WordValue
<1>1a. v \in Int /\ (IsValue(x) /\ IsValue(y) => v = 4 * n + 1)
  <2>1. v \in Int
    BY <1>1 DEF Xor3
  <2> QED  BY <1>1, <2>1, Tags
<1>2. CASE ARITHMETIC # "SOFA"
  <2>1. IsIntf(v) /\ IsValue(x) /\ IsValue(y) /\ z = v
    BY <1>1a, <1>1, <1>2, Tags, SmallAssumption DEF SubFast, Choose, SubOvf, SubTag, Checked, AreSmallInts
  <2> QED
    BY <1>1a, <1>1, <1>2, <2>1, Fits
<1>3. CASE ARITHMETIC = "SOFA"
  <2>1. Clear(v, 2) = SignExtend(v) /\ z = v
    BY <1>3 DEF SubFast, Choose, SubSofa
  <2>2. v % 4 = SignExtend(v) % 4 /\ IsSmallInt(SignExtend(v))
    BY <1>1a, Extended
  <2>3. Bit1(v) = 0 /\ v = SignExtend(v)
    BY <1>1a, <2>1, <2>2 DEF Clear, Bit1
  <2>4. IsValue(x) /\ IsValue(y)
    BY <1>1, <2>3, Tags
  <2>5. IsSmallInt(n)
    BY <1>1a, <1>1, <2>2, <2>3, <2>4, SmallAssumption DEF IsSmallInt, SMALLINT_MIN
  <2> QED
    BY <1>1a, <1>1, <2>1, <2>4, <2>5
<1> QED
  BY <1>2, <1>3

(* kk_integer_add_small_const, by which integers are incremented.           *)
THEOREM AddConstSound ==
    \A x \in Word, i \in Int : \A z \in AddConstFast(x, i) :
        IsValue(x) /\ IsSmallInt(SmallOf(x) + i) /\ z = 4 * (SmallOf(x) + i) + 1
<1> SUFFICES ASSUME NEW x \in Word, NEW i \in Int, NEW z \in AddConstFast(x, i)
             PROVE  IsValue(x) /\ IsSmallInt(SmallOf(x) + i) /\ z = 4 * (SmallOf(x) + i) + 1
  OBVIOUS
<1> DEFINE n == SmallOf(x) + i
<1>1. /\ x \in Int /\ x % 4 \in {0, 1} /\ n \in Int
      /\ IsValue(x) => x + 4 * i = 4 * n + 1
  BY WordValue
<1>2. CASE ARITHMETIC # "SOFA"
  <2>1. IsIntf(x + 4 * i) /\ IsValue(x) /\ z = x + 4 * i
    BY <1>2, SmallAssumption DEF AddConstFast, Choose, AddConstOvf, Checked
  <2> QED
    BY <1>1, <1>2, <2>1, Fits
<1>3. CASE ARITHMETIC = "SOFA"
  <2>1. Or(x + 4 * i, 1) = SignExtend(x + 4 * i) /\ z = x + 4 * i
    BY <1>3 DEF AddConstFast, Choose, AddConstSofa
  <2>2. /\ (x + 4 * i) % 4 = SignExtend(x + 4 * i) % 4
        /\ SignExtend(x + 4 * i) \in Int /\ IsSmallInt(SignExtend(x + 4 * i))
    BY <1>1, Extended
  <2>3. IsValue(x) /\ x + 4 * i = SignExtend(x + 4 * i)
    BY <1>1, <2>1, <2>2 DEF Or, IsValue
  <2>4. IsSmallInt(n)
    <3>1. IsSmallInt(4 * n + 1)
      BY <1>1, <2>2, <2>3
    <3> HIDE DEF n
    <3> QED  BY <1>1, <3>1, SmallAssumption DEF IsSmallInt, SMALLINT_MIN
  <2> QED
    BY <1>1, <2>1, <2>3, <2>4
<1> QED
  BY <1>2, <1>3

(* kk_integer_mul_small, of two small integers. *)
THEOREM MulSound ==
    \A x, y \in Word : AreSmallInts(x, y) =>
        Sound(MulFast(x, y), x, y, SmallOf(x) * SmallOf(y))
<1> SUFFICES ASSUME NEW x \in Word, NEW y \in Word, AreSmallInts(x, y),
                    NEW z \in MulFast(x, y)
             PROVE  /\ IsSmallInt(SmallOf(x) * SmallOf(y))
                    /\ z = 4 * (SmallOf(x) * SmallOf(y)) + 1
  BY DEF Sound, AreSmallInts
<1> DEFINE n == SmallOf(x)
           m == SmallOf(y)
<1>1. n \in Int /\ m \in Int /\ x = 4 * n + 1 /\ y = 4 * m + 1
  BY WordValue DEF AreSmallInts
<1>2. x \div 2 = 2 * n /\ y \div 2 = 2 * m
  BY <1>1
<1> DEFINE p == n * m
<1>3. p \in Int /\ (x \div 2) * (y \div 2) = 4 * p
  BY <1>1, <1>2
<1>4. CASE ARITHMETIC # "SOFA"
  <2>1. IsIntf(4 * p) /\ z = 4 * p + 1
    BY <1>3, <1>4, SmallAssumption DEF MulFast, Choose, MulOvf, Checked
  <2> QED
    BY <1>3, <1>4, <2>1, Fits
<1>5. CASE ARITHMETIC = "SOFA"
  <2>1. 4 * p = SignExtend(4 * p) /\ z = 4 * p + 1
    BY <1>3, <1>5 DEF MulFast, Choose, MulSofa
  <2>2. IsSmallInt(4 * p)
    BY <1>3, <2>1, Extended
  <2>3. IsSmallInt(p)
    <3> HIDE DEF p
    <3> QED  BY <1>3, <2>2, SmallAssumption DEF IsSmallInt, SMALLINT_MIN
  <2> QED
    BY <2>1, <2>3
<1> QED
  BY <1>4, <1>5

(* With overflow tests the fast paths are taken whenever they can be.       *)
THEOREM FastComplete ==
    ASSUME ARITHMETIC # "SOFA", NEW x \in Word, NEW y \in Word,
           IsValue(x), IsValue(y)
    PROVE  /\ IsSmallInt(SmallOf(x) + SmallOf(y)) =>
                AddFast(x, y) = {4 * (SmallOf(x) + SmallOf(y)) + 1}
           /\ IsSmallInt(SmallOf(x) - SmallOf(y)) =>
                SubFast(x, y) = {4 * (SmallOf(x) - SmallOf(y)) + 1}
<1>1. /\ x \in Int /\ y \in Int /\ x % 4 \in {0, 1} /\ y % 4 \in {0, 1}
      /\ x + y = 4 * (SmallOf(x) + SmallOf(y)) + 2
      /\ SmallOf(x) + SmallOf(y) \in Int /\ SmallOf(x) - SmallOf(y) \in Int
  BY WordValue
<1>2. ASSUME IsSmallInt(SmallOf(x) + SmallOf(y))
      PROVE  AddFast(x, y) = {4 * (SmallOf(x) + SmallOf(y)) + 1}
  <2>1. IsIntf(x + y)
    BY <1>1, <1>2, Fits
  <2>2. Bit1(x + y) = 1 /\ Xor3(x + y) = 4 * (SmallOf(x) + SmallOf(y)) + 1
    BY <1>1, Tags
  <2> QED
    BY <2>1, <2>2, SmallAssumption DEF AddFast, Choose, AddOvf, AddTag, Checked, AreSmallInts
<1>3. ASSUME IsSmallInt(SmallOf(x) - SmallOf(y))
      PROVE  SubFast(x, y) = {4 * (SmallOf(x) - SmallOf(y)) + 1}
  <2>1. Xor3(x) - y = 4 * (SmallOf(x) - SmallOf(y)) + 1 /\ Bit1(Xor3(x) - y) = 0
    BY <1>1, Tags
  <2>2. IsIntf(Xor3(x) - y)
    BY <1>1, <1>3, <2>1, Fits
  <2> QED
    BY <2>1, <2>2, SmallAssumption DEF SubFast, Choose, SubOvf, SubTag, Checked, AreSmallInts
<1> QED
  BY <1>2, <1>3

---------------------------------------------------------------------------
(* Lazy values                                                              *)

(* The frames of a thread are numbered from its last.                       *)
Fr(t, n) == FromLast(stack[t], n)

Header == [tag : {"lazy", "whnf", "ind", "free"}, blocked : BOOLEAN, rc : Nat]

(* What a frame has loaded: a header, a block, or what a walk needs of an   *)
(* indirection that it releases.                                            *)
Released == [val : Blocks, next : Blocks]
Redirected == [val : Blocks, next : Blocks, ind : Blocks]
Loaded == Header \cup Blocks \cup {None} \cup Released \cup Redirected

Points == {"force", "eval", "cas", "wait", "drop", "dup", "match", "ind_decref", "compress",
           "find", "walk", "walk_decref", "walk_set", "tag", "field", "share", "decref",
           "leave", "leave_cas", "leave_drop", "return"}

FrameSet == [b : Blocks, at : Points, own : 0..2, res : Blocks \cup {None},
             lock : BOOLEAN, h : Loaded]

LazyTypes ==
    /\ heap \in Heaps
    /\ hdr \in [Blocks -> Header]
    /\ field \in [Blocks -> Blocks \cup {None}]
    /\ evals \in [Blocks -> 0..1]
    /\ stack \in [Threads -> Seq(FrameSet)]
    /\ todo \in [Threads -> Seq(Blocks)]

(* A heap that is not shared is used by one thread.                         *)
Active(t) == stack[t] # <<>> \/ todo[t] # <<>>
Sole == ~heap.shared => \A t, u \in Threads : Active(t) /\ Active(u) => t = u

(* Which fields hold a block.  In a shared heap an indirection does not     *)
(* lead to another one.                                                     *)
Thunks ==
    \A b \in Blocks :
      /\ Tag(b) = "ind" => b \in heap.next /\ field[b] \in Blocks
      /\ Tag(b) = "lazy" /\ b \in heap.next => field[b] \in Blocks
      /\ Tag(b) = "free" => hdr[b].rc = 0
      /\ heap.shared /\ b \in heap.next => field[b] \notin heap.next

(* What a frame holds at each point.                                        *)
Starts  == {"force", "eval", "cas", "wait", "drop"}
Leaves  == {"leave", "leave_cas", "leave_drop"}
Walks   == {"find", "walk", "walk_decref"}
Owned(f) ==
    IF f.at \in Starts \cup Leaves \cup {"dup"} THEN 1
    ELSE IF f.at \in {"share", "decref"} THEN 2
    ELSE IF f.at = "return" THEN 0
    ELSE IF f.at \in {"match", "ind_decref", "tag", "field"} THEN (IF f.lock THEN 2 ELSE 1)
    ELSE (IF f.lock THEN 1 ELSE 0)

Shape(f) ==
    /\ f.own = Owned(f)
    /\ f.at \in Leaves \cup Walks \cup {"ind_decref", "compress", "decref", "return"} => f.res \in Blocks
    /\ f.at \in Starts \cup {"dup", "match", "share", "walk_set"} => f.res = None
    /\ f.at \in Leaves \cup {"dup", "share", "decref"} => f.lock
    /\ f.at \in Starts => ~f.lock

(* c is among what b leads to through indirections.                         *)
Closed(h, fl, S) == \A d \in S : h[d].tag = "ind" => fl[d] \in S
Leads(h, fl, b, c) == \A S \in SUBSET Blocks : b \in S /\ Closed(h, fl, S) => c \in S

(* A frame has blocked its thunk, and will unblock it.                      *)
Locks(f) == f.lock /\ f.at \notin {"leave_drop", "return"}

(* What a frame that evaluates or leaves its thunk knows of it ...          *)
Evaluates(f) ==
    /\ Locks(f) => hdr[f.b].blocked
    /\ f.at = "wait" => hdr[f.b].blocked \/ Tag(f.b) # "lazy"
    /\ f.at = "match" /\ ~f.lock /\ Tag(f.b) = "lazy" => Unique(f.b)
    /\ f.at = "tag" => /\ Tag(f.b) = "lazy" /\ evals[f.b] = 1
                       /\ ~f.lock => Unique(f.b) /\ f.b \notin heap.next
    /\ f.at = "field" => /\ Tag(f.b) = IF f.b \in heap.next THEN "ind" ELSE "whnf"
                         /\ ~f.lock => ~heap.shared /\ f.b \notin heap.next
    /\ f.at \in {"tag", "field"} => IF f.b \in heap.next THEN f.res = None ELSE field[f.b] = None
    /\ f.at = "share" => Tag(f.b) = "ind"
    /\ f.at \in Walks \cup {"decref", "leave", "leave_cas", "ind_decref", "compress", "walk_set"} /\ f.lock =>
         Tag(f.b) # "lazy"
    /\ f.at = "ind_decref" /\ ~heap.shared => hdr[f.b].rc # 1

(* ... and what one that follows indirections knows of them.                *)
Follows(f) ==
    /\ f.at = "cas" => heap.shared /\ f.h \in Header /\ f.h.tag = "lazy" /\ ~f.h.blocked
    /\ f.at = "leave_cas" => f.h \in Header
    /\ f.at \in {"ind_decref", "compress"} /\ heap.shared => f.res \notin heap.next
    /\ f.at \in Walks \cup {"walk_set"} => ~heap.shared
    /\ f.at \in {"find", "walk"} => f.h \in Blocks /\ Leads(hdr, field, f.res, f.h)
    /\ f.at = "walk" => Tag(f.h) # "ind"
    /\ f.at = "walk_decref" =>
         /\ f.h \in Released /\ Tag(f.h.val) # "ind" /\ Leads(hdr, field, f.h.next, f.h.val)
         /\ Tag(f.res) = "ind" /\ field[f.res] = f.h.next /\ hdr[f.res].rc # 1
    /\ f.at = "walk_set" =>
         /\ f.h \in Redirected /\ Tag(f.h.val) # "ind" /\ Leads(hdr, field, f.h.next, f.h.val)
         /\ Tag(f.h.ind) = "ind" /\ field[f.h.ind] = f.h.next

FrameOK(f) == Shape(f) /\ Evaluates(f) /\ Follows(f)
FramesOK == \A t \in Threads : \A n \in 1 .. Len(stack[t]) : FrameOK(Fr(t, n))

(* A frame under another one waits for its argument, or for a drop.         *)
Under(f, g) ==
    /\ f.at \in {"tag", "return"}
    /\ f.at = "return" => g.at = "drop"
    /\ f.at = "tag" => f.res = None /\ f.b \notin heap.next
Nested == \A t \in Threads : \A n \in 1 .. Len(stack[t]) - 1 : Under(Fr(t, n), Fr(t, n + 1))

(* A thunk is blocked by one frame.                                         *)
Exclusive ==
    \A t, u \in Threads : \A n \in 1 .. Len(stack[t]), m \in 1 .. Len(stack[u]) :
      Locks(Fr(t, n)) /\ Locks(Fr(u, m)) /\ Fr(t, n).b = Fr(u, m).b => t = u /\ n = m

(* A thunk that was evaluated and has no value yet is being evaluated.      *)
Evaluating(f, b) == f.at = "tag" /\ f.b = b
InProgress ==
    \A b \in Blocks : Tag(b) = "lazy" /\ evals[b] = 1 =>
      \E t \in Threads : \E n \in 1 .. Len(stack[t]) : Evaluating(Fr(t, n), b)

LazyInv ==
    /\ LazyTypes /\ Sole /\ Thunks /\ FramesOK /\ Nested /\ Exclusive /\ InProgress
    /\ CountsCover
---------------------------------------------------------------------------
(* Frames and references: what changes when a thread changes its frames.    *)

LEMMA TopFrame ==
    ASSUME NEW X, NEW s \in Seq(X), s # <<>>
    PROVE  /\ Len(s) \in Nat /\ Len(s) >= 1
           /\ FromLast(s, Len(s)) = Head(s) /\ Head(s) \in X /\ Tail(s) \in Seq(X)
  BY DEF FromLast

LEMMA FrameIn ==
    ASSUME NEW X, NEW s \in Seq(X), NEW n \in 1 .. Len(s)
    PROVE  FromLast(s, n) \in X
  BY DEF FromLast

(* The frames of s up to number k are those of r.                           *)
Same(s, r, k) ==
    /\ k <= Len(s) /\ k <= Len(r)
    /\ \A n \in 1 .. k : FromLast(r, n) = FromLast(s, n)

LEMMA ConsFrame ==
    ASSUME NEW X, NEW s \in Seq(X), NEW f \in X
    PROVE  LET r == <<f>> \o s IN
           /\ r \in Seq(X) /\ Len(r) = Len(s) + 1
           /\ FromLast(r, Len(s) + 1) = f /\ Same(s, r, Len(s))
<1> DEFINE r == <<f>> \o s
<1>1. r \in Seq(X) /\ Len(r) = Len(s) + 1 /\ r[1] = f
  OBVIOUS
<1>2. \A n \in 1 .. Len(s) : r[n + 1] = s[n]
  OBVIOUS
<1>3. ASSUME NEW n \in 1 .. Len(s) PROVE FromLast(r, n) = FromLast(s, n)
  <2>1. Len(s) + 1 - n \in 1 .. Len(s) /\ Len(r) + 1 - n = (Len(s) + 1 - n) + 1
    BY <1>1
  <2> QED BY <2>1, <1>2 DEF FromLast
<1>4. FromLast(r, Len(s) + 1) = f
  BY <1>1 DEF FromLast
<1> HIDE DEF r
<1> QED BY <1>1, <1>3, <1>4 DEF r, Same

LEMMA TailFrames ==
    ASSUME NEW X, NEW s \in Seq(X), s # <<>>
    PROVE  /\ Tail(s) \in Seq(X) /\ Len(Tail(s)) = Len(s) - 1
           /\ Same(s, Tail(s), Len(s) - 1)
<1>1. Tail(s) \in Seq(X) /\ Len(Tail(s)) = Len(s) - 1 /\ Len(s) \in Nat /\ Len(s) >= 1
  OBVIOUS
<1>2. \A n \in 1 .. Len(s) - 1 : Tail(s)[n] = s[n + 1]
  OBVIOUS
<1>3. ASSUME NEW n \in 1 .. Len(s) - 1 PROVE FromLast(Tail(s), n) = FromLast(s, n)
  <2>1. Len(s) - n \in 1 .. Len(s) - 1 /\ Len(Tail(s)) + 1 - n = Len(s) - n
    BY <1>1
  <2>2. Tail(s)[Len(s) - n] = s[Len(s) - n + 1]
    BY <2>1, <1>2
  <2> QED BY <2>1, <2>2, <1>1 DEF FromLast
<1> QED BY <1>1, <1>3 DEF Same

(* The frames after a step that replaces the top frame, pushes, or pops.    *)
LEMMA SetFrames ==
    ASSUME NEW X, NEW s \in Seq(X), s # <<>>, NEW f \in X
    PROVE  LET r == <<f>> \o Tail(s) IN
           /\ r \in Seq(X) /\ Len(r) = Len(s) /\ FromLast(r, Len(r)) = f
           /\ Same(s, r, Len(s) - 1)
<1> DEFINE z == Tail(s)
           r == <<f>> \o z
<1>1. z \in Seq(X) /\ Len(z) = Len(s) - 1 /\ Same(s, z, Len(s) - 1)
  BY TailFrames
<1>2. Len(s) \in Nat /\ Len(s) >= 1
  OBVIOUS
<1> HIDE DEF z
<1>3. r \in Seq(X) /\ Len(r) = Len(z) + 1 /\ FromLast(r, Len(z) + 1) = f /\ Same(z, r, Len(z))
  BY <1>1, ConsFrame
<1> HIDE DEF r
<1>4. Same(s, r, Len(s) - 1)
  BY <1>1, <1>2, <1>3 DEF Same
<1>5. r \in Seq(X) /\ Len(r) = Len(s) /\ FromLast(r, Len(r)) = f
  BY <1>1, <1>2, <1>3
<1> QED BY <1>4, <1>5 DEF r, z

LEMMA PushFrames ==
    ASSUME NEW X, NEW s \in Seq(X), s # <<>>, NEW f \in X, NEW g \in X
    PROVE  LET r == <<g, f>> \o Tail(s) IN
           /\ r \in Seq(X) /\ Len(r) = Len(s) + 1
           /\ FromLast(r, Len(s) + 1) = g /\ FromLast(r, Len(s)) = f
           /\ Same(s, r, Len(s) - 1)
<1> DEFINE z == Tail(s)
           q == <<f>> \o z
           r == <<g>> \o q
<1>1. q \in Seq(X) /\ Len(q) = Len(s) /\ FromLast(q, Len(q)) = f /\ Same(s, q, Len(s) - 1)
  BY SetFrames
<1>2. Len(s) \in Nat /\ Len(s) >= 1 /\ z \in Seq(X)
  OBVIOUS
<1> HIDE DEF z
<1>3. r = <<g, f>> \o z
  <2> DEFINE p == <<g, f>> \o z
  <2>1. /\ r \in Seq(X) /\ Len(r) = Len(z) + 2 /\ r[1] = g /\ r[2] = f
        /\ \A n \in 1 .. Len(z) : r[n + 2] = z[n]
    BY <1>2
  <2>2. /\ p \in Seq(X) /\ Len(p) = Len(z) + 2 /\ p[1] = g /\ p[2] = f
        /\ \A n \in 1 .. Len(z) : p[n + 2] = z[n]
    BY <1>2
  <2> HIDE DEF p, r
  <2>3. ASSUME NEW n \in 1 .. Len(r) PROVE r[n] = p[n]
    <3>1. CASE n > 2
      <4>1. n - 2 \in 1 .. Len(z) /\ n = (n - 2) + 2
        BY <3>1, <2>1, <1>2
      <4> QED BY <4>1, <2>1, <2>2
    <3> QED BY <3>1, <2>1, <2>2
  <2> QED BY <2>1, <2>2, <2>3, SeqEqual DEF p
<1> HIDE DEF q
<1>4. r \in Seq(X) /\ Len(r) = Len(q) + 1 /\ FromLast(r, Len(q) + 1) = g /\ Same(q, r, Len(q))
  BY <1>1, ConsFrame
<1> HIDE DEF r
<1>5. Same(s, r, Len(s) - 1)
  BY <1>1, <1>2, <1>4 DEF Same
<1>6. FromLast(r, Len(s)) = f
  BY <1>1, <1>2, <1>4 DEF Same
<1>7. r \in Seq(X) /\ Len(r) = Len(s) + 1 /\ FromLast(r, Len(s) + 1) = g
  BY <1>1, <1>4
<1> QED BY <1>3, <1>5, <1>6, <1>7 DEF z

LEMMA CallerFrame ==
    ASSUME NEW X, NEW s \in Seq(X), s # <<>>, Tail(s) # <<>>
    PROVE  /\ Len(s) \in Nat /\ Len(s) >= 2
           /\ Head(Tail(s)) = FromLast(s, Len(s) - 1) /\ Head(Tail(s)) \in X
<1>1. Tail(s) \in Seq(X) /\ Len(Tail(s)) = Len(s) - 1 /\ Same(s, Tail(s), Len(s) - 1)
  BY TailFrames
<1>2. Len(s) \in Nat /\ Len(Tail(s)) >= 1
  BY <1>1
<1>3. FromLast(Tail(s), Len(Tail(s))) = Head(Tail(s)) /\ Head(Tail(s)) \in X
  BY <1>1, <1>2, TopFrame
<1>4. FromLast(Tail(s), Len(s) - 1) = FromLast(s, Len(s) - 1)
  BY <1>1, <1>2 DEF Same
<1> QED BY <1>1, <1>2, <1>3, <1>4

LEMMA ReturnFrames ==
    ASSUME NEW X, NEW s \in Seq(X), s # <<>>, Tail(s) # <<>>, NEW f \in X
    PROVE  LET r == <<f>> \o Tail(Tail(s)) IN
           /\ r \in Seq(X) /\ Len(r) = Len(s) - 1 /\ FromLast(r, Len(r)) = f
           /\ Same(s, r, Len(s) - 2) /\ Len(s) >= 2
           /\ Head(Tail(s)) = FromLast(s, Len(s) - 1) /\ Head(Tail(s)) \in X
<1> DEFINE q == Tail(s)
           r == <<f>> \o Tail(q)
<1>1. q \in Seq(X) /\ Len(q) = Len(s) - 1 /\ Same(s, q, Len(s) - 1)
  BY TailFrames
<1>2. q # <<>> /\ Len(s) \in Nat /\ Len(q) >= 1
  BY <1>1
<1> HIDE DEF q
<1>3. r \in Seq(X) /\ Len(r) = Len(q) /\ FromLast(r, Len(r)) = f /\ Same(q, r, Len(q) - 1)
  BY <1>1, <1>2, SetFrames
<1> HIDE DEF r
<1>4. FromLast(q, Len(q)) = Head(q) /\ Head(q) \in X
  BY <1>1, <1>2, TopFrame
<1>5. Same(s, r, Len(s) - 2) /\ Len(s) >= 2
  BY <1>1, <1>2, <1>3 DEF Same
<1>6. FromLast(q, Len(q)) = FromLast(s, Len(s) - 1)
  BY <1>1, <1>2 DEF Same
<1>7. r \in Seq(X) /\ Len(r) = Len(s) - 1 /\ FromLast(r, Len(r)) = f
  BY <1>1, <1>2, <1>3
<1> QED BY <1>4, <1>5, <1>6, <1>7 DEF q, r
---------------------------------------------------------------------------
(* Counting references                                                      *)

(* The references to b that a frame and a field stand for.                  *)
Count(f, b) == (IF f.b = b THEN f.own ELSE 0) + (IF f.res = b THEN 1 ELSE 0)
Points1(fl, c, b) == IF fl[c] = b THEN 1 ELSE 0

(* Those of the frames above number k.                                      *)
Above(s, k, b) ==
    IF Len(s) = k THEN 0
    ELSE IF Len(s) = k + 1 THEN Count(FromLast(s, k + 1), b)
    ELSE Count(FromLast(s, k + 1), b) + Count(FromLast(s, k + 2), b)

TodoOf(td, t, b) == {<<"todo", t, n, 0>> : n \in {n \in DOMAIN td[t] : FromLast(td[t], n) = b}}
FieldsOf(fl, C, b) == {<<"field", c, 0, 0>> : c \in {c \in C : fl[c] = b}}
FramesOf(t, s, N, b) == UNION {FrameRefs(t, n, FromLast(s, n), b) : n \in N}

(* All references, and those that are neither in the frames of t above      *)
(* number k nor in the field of c.                                          *)
RefSet(td, st, fl, b) ==
    (UNION {TodoOf(td, t, b) \cup FramesOf(t, st[t], DOMAIN st[t], b) : t \in Threads})
      \cup FieldsOf(fl, Blocks, b)
Rest(td, st, fl, t, k, c, b) ==
    (UNION {TodoOf(td, u, b) \cup FramesOf(u, st[u], {n \in DOMAIN st[u] : u = t => n <= k}, b) : u \in Threads})
      \cup FieldsOf(fl, Blocks \ {c}, b)

LEMMA RefsAre == /\ \A b : Refs(b) = Cardinality(RefSet(todo, stack, field, b))
                 /\ \A b : Refs(b)' = Cardinality(RefSet(todo', stack', field', b))
  BY DEF Refs, RefSet, TodoRefs, StackRefs, FieldRefs, TodoOf, FramesOf, FieldsOf

LEMMA FrameCount ==
    ASSUME NEW t, NEW n, NEW f \in FrameSet, NEW b
    PROVE  /\ IsFiniteSet(FrameRefs(t, n, f, b)) /\ Cardinality(FrameRefs(t, n, f, b)) = Count(f, b)
           /\ Count(f, b) \in Nat
<1> DEFINE O == {<<"own", t, n, k>> : k \in {k \in 1 .. f.own : f.b = b}}
           R == {r \in {<<"res", t, n, 0>>} : f.res = b}
<1>1. f.own \in 0..2
  BY DEF FrameSet
<1>2. IsFiniteSet(O) /\ Cardinality(O) = IF f.b = b THEN f.own ELSE 0
  <2>1. CASE f.b # b \/ f.own = 0
    <3>1. O = {}
      BY <2>1
    <3> QED BY <3>1, <2>1, FS_EmptySet
  <2>2. CASE f.b = b /\ f.own = 1
    <3>1. O = {<<"own", t, n, 1>>}
      BY <2>2
    <3> QED BY <3>1, <2>2, FS_Singleton
  <2>3. CASE f.b = b /\ f.own = 2
    <3>1. O = {<<"own", t, n, 1>>} \cup {<<"own", t, n, 2>>}
      BY <2>3
    <3>2. <<"own", t, n, 2>> \notin {<<"own", t, n, 1>>}
      OBVIOUS
    <3>3. IsFiniteSet({<<"own", t, n, 1>>}) /\ Cardinality({<<"own", t, n, 1>>}) = 1
      BY FS_Singleton
    <3> HIDE DEF O
    <3>4. IsFiniteSet(O) /\ Cardinality(O) = Cardinality({<<"own", t, n, 1>>}) + 1
      BY <3>1, <3>2, <3>3, FS_AddElement
    <3> QED BY <3>3, <3>4, <2>3
  <2> QED BY <2>1, <2>2, <2>3, <1>1
<1>3. IsFiniteSet(R) /\ Cardinality(R) = IF f.res = b THEN 1 ELSE 0
  <2>1. CASE f.res = b
    <3>1. R = {<<"res", t, n, 0>>}
      BY <2>1
    <3> QED BY <3>1, <2>1, FS_Singleton
  <2>2. CASE f.res # b
    <3>1. R = {}
      BY <2>2
    <3> QED BY <3>1, <2>2, FS_EmptySet
  <2> QED BY <2>1, <2>2
<1>4. O \cap R = {}
  OBVIOUS
<1>5. FrameRefs(t, n, f, b) = O \cup R
  BY DEF FrameRefs
<1>6. Cardinality(O) \in Nat /\ Cardinality(R) \in Nat
  BY <1>2, <1>3, FS_CardinalityType
<1> HIDE DEF O, R
<1>7. IsFiniteSet(O \cup R) /\ Cardinality(O \cup R) = Cardinality(O) + Cardinality(R)
  <2>1. Cardinality(O \cap R) = 0
    BY <1>4, FS_EmptySet
  <2>2. IsFiniteSet(O \cup R) /\ Cardinality(O \cup R) = Cardinality(O) + Cardinality(R) - Cardinality(O \cap R)
    BY <1>2, <1>3, FS_Union
  <2> QED BY <2>1, <2>2, <1>6
<1> QED BY <1>2, <1>3, <1>5, <1>6, <1>7 DEF Count

LEMMA CountNat ==
    ASSUME NEW f \in FrameSet, NEW b
    PROVE  Count(f, b) \in 0..3
<1>1. f.own \in 0..2
  BY DEF FrameSet
<1> QED BY <1>1 DEF Count

LEMMA FieldCount ==
    ASSUME NEW fl, NEW c, NEW b
    PROVE  /\ IsFiniteSet(FieldsOf(fl, {c}, b)) /\ Cardinality(FieldsOf(fl, {c}, b)) = Points1(fl, c, b)
           /\ Points1(fl, c, b) \in 0..1
<1>1. CASE fl[c] = b
  <2>1. FieldsOf(fl, {c}, b) = {<<"field", c, 0, 0>>}
    BY <1>1 DEF FieldsOf
  <2>2. IsFiniteSet({<<"field", c, 0, 0>>}) /\ Cardinality({<<"field", c, 0, 0>>}) = 1
    BY FS_Singleton
  <2> QED BY <2>1, <2>2, <1>1 DEF Points1
<1>2. CASE fl[c] # b
  <2>1. FieldsOf(fl, {c}, b) = {}
    BY <1>2 DEF FieldsOf
  <2> QED BY <2>1, <1>2, FS_EmptySet DEF Points1
<1> QED BY <1>1, <1>2

LEMMA DisjointUnion ==
    ASSUME NEW S, NEW T, IsFiniteSet(S), IsFiniteSet(T), S \cap T = {}
    PROVE  /\ IsFiniteSet(S \cup T) /\ Cardinality(S \cup T) = Cardinality(S) + Cardinality(T)
           /\ Cardinality(S) \in Nat /\ Cardinality(T) \in Nat
<1>1. Cardinality(S \cap T) = 0
  BY FS_EmptySet
<1>2. IsFiniteSet(S \cup T) /\ Cardinality(S \cup T) = Cardinality(S) + Cardinality(T) - Cardinality(S \cap T)
  BY FS_Union
<1>3. Cardinality(S) \in Nat /\ Cardinality(T) \in Nat
  BY FS_CardinalityType
<1> QED BY <1>1, <1>2, <1>3

LEMMA ImageFinite ==
    ASSUME NEW s, NEW X, s \in Seq(X)
    PROVE  IsFiniteSet(DOMAIN s)
<1>1. DOMAIN s = 1 .. Len(s) /\ Len(s) \in Nat
  OBVIOUS
<1> QED BY <1>1, FS_Interval

LEMMA RangeFinite ==
    ASSUME NEW S, IsFiniteSet(S), NEW f, f = [x \in S |-> f[x]]
    PROVE  IsFiniteSet({f[x] : x \in S})
<1> DEFINE T == {f[x] : x \in S}
<1>1. f \in Surjection(S, T)
  BY DEF Surjection
<1> QED BY <1>1, FS_Surjection

LEMMA RefsFinite ==
    ASSUME NEW td \in [Threads -> Seq(Blocks)], NEW st \in [Threads -> Seq(FrameSet)], NEW fl, NEW b
    PROVE  IsFiniteSet(RefSet(td, st, fl, b))
<1> DEFINE P(t) == TodoOf(td, t, b)
           Q(t) == FramesOf(t, st[t], DOMAIN st[t], b)
<1>1. ASSUME NEW t \in Threads PROVE IsFiniteSet(P(t) \cup Q(t))
  <2>1. IsFiniteSet(P(t))
    <3> DEFINE f == [n \in DOMAIN td[t] |-> <<"todo", t, n, 0>>]
    <3>1. IsFiniteSet(DOMAIN td[t])
      BY ImageFinite
    <3>2. IsFiniteSet({f[n] : n \in DOMAIN td[t]})
      <4>1. f = [n \in DOMAIN td[t] |-> f[n]]
        OBVIOUS
      <4> HIDE DEF f
      <4> QED BY <3>1, <4>1, RangeFinite
    <3>3. P(t) \subseteq {f[n] : n \in DOMAIN td[t]}
      BY DEF TodoOf
    <3> QED BY <3>2, <3>3, FS_Subset
  <2>2. IsFiniteSet(Q(t))
    <3> DEFINE f == [n \in DOMAIN st[t] |-> FrameRefs(t, n, FromLast(st[t], n), b)]
               U == {f[n] : n \in DOMAIN st[t]}
    <3>1. IsFiniteSet(DOMAIN st[t])
      BY ImageFinite
    <3>2. IsFiniteSet(U)
      <4>1. f = [n \in DOMAIN st[t] |-> f[n]]
        OBVIOUS
      <4> HIDE DEF f
      <4> QED BY <3>1, <4>1, RangeFinite
    <3>3. ASSUME NEW n \in DOMAIN st[t] PROVE IsFiniteSet(f[n])
      <4>1. FromLast(st[t], n) \in FrameSet
        BY FrameIn
      <4> QED BY <4>1, FrameCount
    <3>4. Q(t) = UNION U
      BY DEF FramesOf
    <3> HIDE DEF f
    <3>5. \A T \in U : IsFiniteSet(T)
      BY <3>3
    <3> HIDE DEF U
    <3> QED BY <3>2, <3>4, <3>5, FS_UNION
  <2> QED BY <2>1, <2>2, FS_Union
<1> DEFINE f == [t \in Threads |-> P(t) \cup Q(t)]
           A == {f[t] : t \in Threads}
<1>2. IsFiniteSet(UNION A)
  <2>1. IsFiniteSet(A)
    <3>1. f = [t \in Threads |-> f[t]]
      OBVIOUS
    <3> HIDE DEF f
    <3> QED BY <3>1, LazyAssumption, RangeFinite
  <2>2. \A T \in A : IsFiniteSet(T)
    BY <1>1
  <2> HIDE DEF A
  <2> QED BY <2>1, <2>2, FS_UNION
<1>3. IsFiniteSet(FieldsOf(fl, Blocks, b))
  <2> DEFINE g == [c \in Blocks |-> <<"field", c, 0, 0>>]
  <2>1. IsFiniteSet({g[c] : c \in Blocks})
    <3>1. g = [c \in Blocks |-> g[c]]
      OBVIOUS
    <3> HIDE DEF g
    <3> QED BY <3>1, LazyAssumption, RangeFinite
  <2>2. FieldsOf(fl, Blocks, b) \subseteq {g[c] : c \in Blocks}
    BY DEF FieldsOf
  <2> QED BY <2>1, <2>2, FS_Subset
<1>4. RefSet(td, st, fl, b) = (UNION A) \cup FieldsOf(fl, Blocks, b)
  <2>1. A = {P(t) \cup Q(t) : t \in Threads}
    OBVIOUS
  <2>2. RefSet(td, st, fl, b) = (UNION {P(t) \cup Q(t) : t \in Threads}) \cup FieldsOf(fl, Blocks, b)
    BY DEF RefSet
  <2> HIDE DEF A, P, Q
  <2> QED BY <2>1, <2>2
<1> HIDE DEF A, P, Q
<1>5. IsFiniteSet((UNION A) \cup FieldsOf(fl, Blocks, b))
  BY <1>2, <1>3, FS_Union
<1> QED BY <1>4, <1>5, Zenon

LEMMA InRefs ==
    ASSUME NEW td, NEW st, NEW fl, NEW b, NEW x, NEW t, NEW k, NEW c
    PROVE  /\ x \in RefSet(td, st, fl, b) <=>
                \/ \E u \in Threads : x \in TodoOf(td, u, b)
                \/ \E u \in Threads : \E n \in DOMAIN st[u] : x \in FrameRefs(u, n, FromLast(st[u], n), b)
                \/ x \in FieldsOf(fl, Blocks, b)
           /\ x \in Rest(td, st, fl, t, k, c, b) <=>
                \/ \E u \in Threads : x \in TodoOf(td, u, b)
                \/ \E u \in Threads : \E n \in DOMAIN st[u] :
                      (u = t => n <= k) /\ x \in FrameRefs(u, n, FromLast(st[u], n), b)
                \/ x \in FieldsOf(fl, Blocks \ {c}, b)
<1>1. \A u : x \in FramesOf(u, st[u], DOMAIN st[u], b) <=>
              \E n \in DOMAIN st[u] : x \in FrameRefs(u, n, FromLast(st[u], n), b)
  BY DEF FramesOf
<1>2. \A u : x \in FramesOf(u, st[u], {n \in DOMAIN st[u] : u = t => n <= k}, b) <=>
              \E n \in DOMAIN st[u] : (u = t => n <= k) /\ x \in FrameRefs(u, n, FromLast(st[u], n), b)
  BY DEF FramesOf
<1>3. x \in RefSet(td, st, fl, b) <=>
        (\E u \in Threads : x \in TodoOf(td, u, b) \/ x \in FramesOf(u, st[u], DOMAIN st[u], b))
          \/ x \in FieldsOf(fl, Blocks, b)
  BY DEF RefSet
<1>4. x \in Rest(td, st, fl, t, k, c, b) <=>
        (\E u \in Threads : x \in TodoOf(td, u, b)
             \/ x \in FramesOf(u, st[u], {n \in DOMAIN st[u] : u = t => n <= k}, b))
          \/ x \in FieldsOf(fl, Blocks \ {c}, b)
  BY DEF Rest
<1> QED BY <1>1, <1>2, <1>3, <1>4, Zenon

(* The references to b, but for those in at most two frames and one field.  *)
Splits(td, st, fl, t, k, c, b) ==
    /\ IsFiniteSet(Rest(td, st, fl, t, k, c, b)) /\ Cardinality(Rest(td, st, fl, t, k, c, b)) \in Nat
    /\ Cardinality(RefSet(td, st, fl, b))
         = Cardinality(Rest(td, st, fl, t, k, c, b)) + Above(st[t], k, b) + Points1(fl, c, b)

LEMMA RefsSplit ==
    ASSUME NEW td \in [Threads -> Seq(Blocks)], NEW st \in [Threads -> Seq(FrameSet)], NEW fl, NEW b,
           NEW t \in Threads, NEW k \in Nat, NEW c \in Blocks, Len(st[t]) \in k .. k + 2
    PROVE  Splits(td, st, fl, t, k, c, b)
<1> DEFINE s == st[t]
           R == Rest(td, st, fl, t, k, c, b)
           A == FramesOf(t, s, {n \in DOMAIN s : n > k}, b)
           F == FieldsOf(fl, {c}, b)
<1>0. s \in Seq(FrameSet) /\ DOMAIN s = 1 .. Len(s) /\ Len(s) \in Nat
  OBVIOUS
<1>a. ASSUME NEW x
      PROVE  x \in A <=> \E n \in DOMAIN s : n > k /\ x \in FrameRefs(t, n, FromLast(s, n), b)
  BY DEF FramesOf
<1>f. ASSUME NEW x PROVE x \in FieldsOf(fl, Blocks, b) <=> x \in FieldsOf(fl, Blocks \ {c}, b) \/ x \in F
  BY DEF FieldsOf
<1>1. RefSet(td, st, fl, b) = (R \cup A) \cup F
  <2> SUFFICES ASSUME NEW x PROVE x \in RefSet(td, st, fl, b) <=> x \in (R \cup A) \cup F
    BY Zenon
  <2>1. (\E u \in Threads : \E n \in DOMAIN st[u] : x \in FrameRefs(u, n, FromLast(st[u], n), b)) <=>
        \/ \E u \in Threads : \E n \in DOMAIN st[u] :
              (u = t => n <= k) /\ x \in FrameRefs(u, n, FromLast(st[u], n), b)
        \/ \E n \in DOMAIN s : n > k /\ x \in FrameRefs(t, n, FromLast(s, n), b)
    <3>1. \A n \in DOMAIN s : n <= k \/ n > k
      BY <1>0
    <3> QED BY <3>1, Zenon
  <2> HIDE DEF A, F, R
  <2>2. x \in R <=> x \in Rest(td, st, fl, t, k, c, b)
    BY DEF R
  <2> QED BY <1>a, <1>f, <2>1, <2>2, InRefs, Zenon
<1>2. IsFiniteSet(RefSet(td, st, fl, b))
  BY RefsFinite
<1>3. IsFiniteSet(R) /\ IsFiniteSet(A) /\ IsFiniteSet(F) /\ IsFiniteSet(R \cup A)
  <2> HIDE DEF A, F, R
  <2> QED BY <1>1, <1>2, FS_Subset
<1>k. \A u, n, f, x : x \in FrameRefs(u, n, f, b) => x[1] \in {"own", "res"} /\ x[2] = u /\ x[3] = n
  BY DEF FrameRefs
<1>t. \A u, x : x \in TodoOf(td, u, b) => x[1] = "todo"
  BY DEF TodoOf
<1>c. /\ \A x \in FieldsOf(fl, Blocks \ {c}, b) : x[1] = "field" /\ x[2] # c
      /\ \A x \in F : x[1] = "field" /\ x[2] = c
  BY DEF FieldsOf
<1>4. ASSUME NEW x \in A PROVE x[1] \in {"own", "res"} /\ x[2] = t /\ x[3] > k
  <2>1. PICK n \in DOMAIN s : n > k /\ x \in FrameRefs(t, n, FromLast(s, n), b)
    BY <1>a
  <2> QED BY <2>1, <1>k
<1>5. R \cap A = {}
  <2>1. ASSUME NEW x \in R, x \in A PROVE FALSE
    <3>1. x[1] \in {"own", "res"} /\ x[2] = t /\ x[3] > k
      BY <2>1, <1>4
    <3>2. x \in Rest(td, st, fl, t, k, c, b)
      BY <2>1
    <3>3. \/ \E u \in Threads : x \in TodoOf(td, u, b)
          \/ \E u \in Threads : \E n \in DOMAIN st[u] :
                (u = t => n <= k) /\ x \in FrameRefs(u, n, FromLast(st[u], n), b)
          \/ x \in FieldsOf(fl, Blocks \ {c}, b)
      BY <3>2, InRefs, Zenon
    <3>4. CASE \E u \in Threads : x \in TodoOf(td, u, b)
      BY <3>1, <3>4, <1>t
    <3>5. CASE x \in FieldsOf(fl, Blocks \ {c}, b)
      BY <3>1, <3>5, <1>c
    <3>6. CASE \E u \in Threads : \E n \in DOMAIN st[u] :
                (u = t => n <= k) /\ x \in FrameRefs(u, n, FromLast(st[u], n), b)
      <4>1. PICK u \in Threads : \E n \in DOMAIN st[u] :
                   (u = t => n <= k) /\ x \in FrameRefs(u, n, FromLast(st[u], n), b)
        BY <3>6
      <4>a. PICK n \in DOMAIN st[u] : (u = t => n <= k) /\ x \in FrameRefs(u, n, FromLast(st[u], n), b)
        BY <4>1
      <4>2. x[2] = u /\ x[3] = n
        BY <4>a, <1>k
      <4>3. n <= k /\ n > k /\ n \in 1 .. Len(s)
        BY <4>a, <4>2, <3>1, <1>0
      <4> QED BY <4>3
    <3> QED BY <3>3, <3>4, <3>5, <3>6
  <2> QED BY <2>1
<1>6. (R \cup A) \cap F = {}
  <2>1. ASSUME NEW x \in F, x \in R \cup A PROVE FALSE
    <3>1. x[1] = "field" /\ x[2] = c
      BY <2>1, <1>c
    <3>2. CASE x \in A
      BY <3>1, <3>2, <1>4
    <3>3. CASE x \in R
      <4>1. x \in Rest(td, st, fl, t, k, c, b)
        BY <3>3
      <4>2. \/ \E u \in Threads : x \in TodoOf(td, u, b)
            \/ \E u \in Threads : \E n \in DOMAIN st[u] :
                  (u = t => n <= k) /\ x \in FrameRefs(u, n, FromLast(st[u], n), b)
            \/ x \in FieldsOf(fl, Blocks \ {c}, b)
        BY <4>1, InRefs, Zenon
      <4> HIDE DEF A, F, R
      <4> QED BY <4>2, <3>1, <1>c, <1>k, <1>t
    <3> QED BY <2>1, <3>2, <3>3
  <2> QED BY <2>1
<1>7. Cardinality(F) = Points1(fl, c, b)
  BY FieldCount
<1>8. Cardinality(A) = Above(s, k, b)
  <2>0. ASSUME NEW n \in DOMAIN s
        PROVE  /\ IsFiniteSet(FrameRefs(t, n, FromLast(s, n), b))
               /\ Cardinality(FrameRefs(t, n, FromLast(s, n), b)) = Count(FromLast(s, n), b)
    <3>1. FromLast(s, n) \in FrameSet
      BY FrameIn, <1>0
    <3> QED BY <3>1, FrameCount
  <2>1. CASE Len(s) = k
    <3>1. A = {}
      BY <2>1, <1>0 DEF FramesOf
    <3> QED BY <3>1, <2>1, FS_EmptySet DEF Above
  <2>2. CASE Len(s) = k + 1
    <3>1. {n \in DOMAIN s : n > k} = {k + 1}
      BY <2>2, <1>0
    <3>2. A = FrameRefs(t, k + 1, FromLast(s, k + 1), b)
      BY <3>1 DEF FramesOf
    <3>3. Cardinality(A) = Count(FromLast(s, k + 1), b)
      BY <3>1, <3>2, <2>0
    <3> HIDE DEF A
    <3> QED BY <3>3, <2>2 DEF Above
  <2>3. CASE Len(s) = k + 2
    <3> DEFINE G(n) == FrameRefs(t, n, FromLast(s, n), b)
    <3>1. {n \in DOMAIN s : n > k} = {k + 1, k + 2}
      BY <2>3, <1>0
    <3>2. A = G(k + 1) \cup G(k + 2)
      BY <3>1 DEF FramesOf
    <3>3. G(k + 1) \cap G(k + 2) = {}
      BY DEF FrameRefs
    <3>4. /\ IsFiniteSet(G(k + 1)) /\ Cardinality(G(k + 1)) = Count(FromLast(s, k + 1), b)
          /\ IsFiniteSet(G(k + 2)) /\ Cardinality(G(k + 2)) = Count(FromLast(s, k + 2), b)
      BY <3>1, <2>0
    <3> HIDE DEF G
    <3>5. Cardinality(A) = Cardinality(G(k + 1)) + Cardinality(G(k + 2))
      BY <3>2, <3>3, <3>4, DisjointUnion
    <3>6. Above(s, k, b) = Count(FromLast(s, k + 1), b) + Count(FromLast(s, k + 2), b)
      BY <2>3 DEF Above
    <3> QED BY <3>4, <3>5, <3>6
  <2> HIDE DEF A
  <2>4. Len(s) = k \/ Len(s) = k + 1 \/ Len(s) = k + 2
    <3>1. \A m \in Nat : m \in k .. k + 2 => m = k \/ m = k + 1 \/ m = k + 2
      OBVIOUS
    <3> QED BY <3>1, <1>0
  <2> QED BY <2>1, <2>2, <2>3, <2>4
<1> HIDE DEF A, F, R
<1>9. Cardinality(R \cup A) = Cardinality(R) + Cardinality(A) /\ Cardinality(R) \in Nat
  BY <1>3, <1>5, DisjointUnion
<1>10. Cardinality((R \cup A) \cup F) = Cardinality(R \cup A) + Cardinality(F)
  BY <1>3, <1>6, DisjointUnion
<1>11. Cardinality(RefSet(td, st, fl, b)) = Cardinality(R) + Above(s, k, b) + Points1(fl, c, b)
  BY <1>1, <1>7, <1>8, <1>9, <1>10
<1> QED BY <1>3, <1>9, <1>11 DEF R, Splits
RestKept(td, st, st2, fl, fl2, t, k, c, b) ==
    Rest(td, st2, fl2, t, k, c, b) = Rest(td, st, fl, t, k, c, b)

LEMMA RestSame ==
    ASSUME NEW td, NEW st \in [Threads -> Seq(FrameSet)], NEW st2 \in [Threads -> Seq(FrameSet)],
           NEW fl, NEW fl2, NEW t \in Threads, NEW k \in Nat, NEW c, NEW b,
           \A u \in Threads \ {t} : st2[u] = st[u], Same(st[t], st2[t], k),
           \A x \in Blocks \ {c} : fl2[x] = fl[x]
    PROVE  RestKept(td, st, st2, fl, fl2, t, k, c, b)
<1>1. FieldsOf(fl2, Blocks \ {c}, b) = FieldsOf(fl, Blocks \ {c}, b)
  BY DEF FieldsOf
<1>2. ASSUME NEW x, NEW u \in Threads
      PROVE  (\E n \in DOMAIN st2[u] : (u = t => n <= k) /\ x \in FrameRefs(u, n, FromLast(st2[u], n), b)) <=>
             (\E n \in DOMAIN st[u] : (u = t => n <= k) /\ x \in FrameRefs(u, n, FromLast(st[u], n), b))
  <2>1. CASE u # t
    BY <2>1
  <2>2. CASE u = t
    <3>1. DOMAIN st[u] = 1 .. Len(st[u]) /\ DOMAIN st2[u] = 1 .. Len(st2[u])
      OBVIOUS
    <3>2. Len(st[u]) \in Nat /\ Len(st2[u]) \in Nat
      OBVIOUS
    <3>3. k <= Len(st[t]) /\ k <= Len(st2[t]) /\ \A n \in 1 .. k : FromLast(st2[t], n) = FromLast(st[t], n)
      BY DEF Same
    <3>4. \A n : n \in 1 .. k <=> n \in DOMAIN st[u] /\ n <= k
      BY <2>2, <3>1, <3>2, <3>3
    <3>5. \A n : n \in 1 .. k <=> n \in DOMAIN st2[u] /\ n <= k
      BY <2>2, <3>1, <3>2, <3>3
    <3> QED BY <2>2, <3>3, <3>4, <3>5
  <2> QED BY <2>1, <2>2
<1> SUFFICES ASSUME NEW x
             PROVE  x \in Rest(td, st2, fl2, t, k, c, b) <=> x \in Rest(td, st, fl, t, k, c, b)
  BY Zenon DEF RestKept
<1>3. x \in Rest(td, st2, fl2, t, k, c, b) <=>
        \/ \E u \in Threads : x \in TodoOf(td, u, b)
        \/ \E u \in Threads : \E n \in DOMAIN st2[u] :
              (u = t => n <= k) /\ x \in FrameRefs(u, n, FromLast(st2[u], n), b)
        \/ x \in FieldsOf(fl2, Blocks \ {c}, b)
  BY InRefs, Zenon
<1>4. x \in Rest(td, st, fl, t, k, c, b) <=>
        \/ \E u \in Threads : x \in TodoOf(td, u, b)
        \/ \E u \in Threads : \E n \in DOMAIN st[u] :
              (u = t => n <= k) /\ x \in FrameRefs(u, n, FromLast(st[u], n), b)
        \/ x \in FieldsOf(fl, Blocks \ {c}, b)
  BY InRefs, Zenon
<1> QED BY <1>1, <1>2, <1>3, <1>4, Zenon

(* A step that keeps the frames up to k and the fields but for that of c.   *)
Balanced(td, st, st2, fl, fl2, t, k, c, b) ==
    \E r \in Nat :
      /\ Cardinality(RefSet(td, st, fl, b)) = r + Above(st[t], k, b) + Points1(fl, c, b)
      /\ Cardinality(RefSet(td, st2, fl2, b)) = r + Above(st2[t], k, b) + Points1(fl2, c, b)

LEMMA Balance ==
    ASSUME NEW td \in [Threads -> Seq(Blocks)],
           NEW st \in [Threads -> Seq(FrameSet)], NEW st2 \in [Threads -> Seq(FrameSet)],
           NEW fl, NEW fl2, NEW t \in Threads, NEW k \in Nat, NEW c \in Blocks, NEW b,
           \A u \in Threads \ {t} : st2[u] = st[u], Same(st[t], st2[t], k),
           Len(st[t]) \in k .. k + 2, Len(st2[t]) \in k .. k + 2,
           \A x \in Blocks \ {c} : fl2[x] = fl[x]
    PROVE  Balanced(td, st, st2, fl, fl2, t, k, c, b)
<1> DEFINE r == Cardinality(Rest(td, st, fl, t, k, c, b))
<1>1. Rest(td, st2, fl2, t, k, c, b) = Rest(td, st, fl, t, k, c, b)
  <2>1. RestKept(td, st, st2, fl, fl2, t, k, c, b)
    BY RestSame
  <2> QED BY <2>1 DEF RestKept
<1>2. r \in Nat /\ Cardinality(RefSet(td, st, fl, b)) = r + Above(st[t], k, b) + Points1(fl, c, b)
  <2>1. Splits(td, st, fl, t, k, c, b)
    BY RefsSplit
  <2> QED BY <2>1 DEF Splits
<1>3. Cardinality(RefSet(td, st2, fl2, b))
        = Cardinality(Rest(td, st2, fl2, t, k, c, b)) + Above(st2[t], k, b) + Points1(fl2, c, b)
  <2>1. Splits(td, st2, fl2, t, k, c, b)
    BY RefsSplit
  <2> QED BY <2>1 DEF Splits
<1>4. Cardinality(RefSet(td, st2, fl2, b)) = r + Above(st2[t], k, b) + Points1(fl2, c, b)
  BY <1>1, <1>3
<1> HIDE DEF r
<1> QED BY <1>2, <1>4 DEF Balanced

LEMMA AboveNat ==
    ASSUME NEW s \in Seq(FrameSet), NEW k \in Nat, Len(s) \in k .. k + 2, NEW b
    PROVE  Above(s, k, b) \in Nat
<1>1. Len(s) \in Nat /\ \A n \in 1 .. Len(s) : Count(FromLast(s, n), b) \in Nat
  <2>1. Len(s) \in Nat
    OBVIOUS
  <2>2. ASSUME NEW n \in 1 .. Len(s) PROVE Count(FromLast(s, n), b) \in Nat
    <3>1. FromLast(s, n) \in FrameSet
      BY FrameIn
    <3> QED BY <3>1, FrameCount
  <2> QED BY <2>1, <2>2
<1>2. Len(s) = k \/ Len(s) = k + 1 \/ Len(s) = k + 2
  <2>1. \A m \in Nat : m \in k .. k + 2 => m = k \/ m = k + 1 \/ m = k + 2
    OBVIOUS
  <2> QED BY <2>1, <1>1
<1>3. CASE Len(s) = k
  BY <1>3 DEF Above
<1>4. CASE Len(s) = k + 1
  <2>1. k + 1 \in 1 .. Len(s) /\ k + 1 # k
    BY <1>4
  <2> QED BY <1>1, <1>4, <2>1 DEF Above
<1>5. CASE Len(s) = k + 2
  <2>1. k + 1 \in 1 .. Len(s) /\ k + 2 \in 1 .. Len(s) /\ k + 2 # k /\ k + 2 # k + 1
    BY <1>5
  <2> QED BY <1>1, <1>5, <2>1 DEF Above
<1> QED BY <1>2, <1>3, <1>4, <1>5

(* References in the frames above k, in a field, and in another frame.      *)
LEMMA AtLeast ==
    ASSUME NEW td \in [Threads -> Seq(Blocks)], NEW st \in [Threads -> Seq(FrameSet)], NEW fl,
           NEW b \in Blocks, NEW t \in Threads, NEW k \in Nat, Len(st[t]) \in k .. k + 2
    PROVE  LET N == Cardinality(RefSet(td, st, fl, b)) IN
           /\ N \in Nat
           /\ \A c \in Blocks : N >= Above(st[t], k, b) + Points1(fl, c, b)
           /\ \A u \in Threads : \A n \in 1 .. Len(st[u]) :
                u # t \/ n <= k =>
                  \A c \in Blocks : N >= Count(FromLast(st[u], n), b) + Above(st[t], k, b) + Points1(fl, c, b)
<1> DEFINE N == Cardinality(RefSet(td, st, fl, b))
           R(c) == Rest(td, st, fl, t, k, c, b)
<1>1. ASSUME NEW c \in Blocks
      PROVE  /\ IsFiniteSet(R(c)) /\ Cardinality(R(c)) \in Nat
             /\ N = Cardinality(R(c)) + Above(st[t], k, b) + Points1(fl, c, b)
  <2>1. Splits(td, st, fl, t, k, c, b)
    BY RefsSplit
  <2> QED BY <2>1 DEF Splits
<1>2. st[t] \in Seq(FrameSet)
  OBVIOUS
<1>3. Above(st[t], k, b) \in Nat
  BY <1>2, AboveNat
<1>4. \A c \in Blocks : Points1(fl, c, b) \in Nat
  BY DEF Points1
<1>5. ASSUME NEW u \in Threads, NEW n \in 1 .. Len(st[u]), u # t \/ n <= k, NEW c \in Blocks
      PROVE  /\ Count(FromLast(st[u], n), b) \in Nat
             /\ Cardinality(R(c)) >= Count(FromLast(st[u], n), b)
  <2> DEFINE F == FrameRefs(u, n, FromLast(st[u], n), b)
  <2>1. st[u] \in Seq(FrameSet) /\ DOMAIN st[u] = 1 .. Len(st[u])
    OBVIOUS
  <2>2. FromLast(st[u], n) \in FrameSet
    BY <2>1, FrameIn
  <2>3. Cardinality(F) = Count(FromLast(st[u], n), b) /\ Count(FromLast(st[u], n), b) \in Nat
    BY <2>2, FrameCount
  <2>4. \A x \in F : x \in R(c)
    <3> SUFFICES ASSUME NEW x \in F PROVE x \in Rest(td, st, fl, t, k, c, b)
      OBVIOUS
    <3>1. n \in DOMAIN st[u] /\ (u = t => n <= k) /\ x \in FrameRefs(u, n, FromLast(st[u], n), b)
      BY <1>5, <2>1
    <3> HIDE DEF F
    <3> QED BY <3>1, InRefs, Zenon
  <2>5. IsFiniteSet(R(c))
    BY <1>1
  <2> HIDE DEF F, R
  <2>6. F \subseteq R(c)
    BY <2>4
  <2>7. Cardinality(F) <= Cardinality(R(c))
    BY <2>5, <2>6, FS_Subset
  <2>8. Cardinality(R(c)) \in Nat
    BY <2>5, FS_CardinalityType
  <2> QED BY <2>3, <2>7, <2>8
<1> HIDE DEF N, R
<1>6. N \in Nat
  BY <1>1, <1>3, <1>4
<1>7. \A c \in Blocks : N >= Above(st[t], k, b) + Points1(fl, c, b)
  BY <1>1, <1>3, <1>4
<1>8. ASSUME NEW u \in Threads, NEW n \in 1 .. Len(st[u]), u # t \/ n <= k, NEW c \in Blocks
      PROVE  N >= Count(FromLast(st[u], n), b) + Above(st[t], k, b) + Points1(fl, c, b)
  BY <1>1, <1>3, <1>4, <1>5, <1>8
<1> QED BY <1>6, <1>7, <1>8 DEF N
---------------------------------------------------------------------------
(* What a step of thread t leaves to the frames of others, and to its own   *)
(* up to number k.                                                          *)
Holds(t, k) == Len(stack[t]) \in k .. k + 2 /\ (Len(stack[t]) > k \/ (k = 0 /\ todo[t] # <<>>))
Other(t, k, u, n) == n \in 1 .. Len(stack[u]) /\ (u # t \/ n <= k)

(* The references to b that only the frames above k have, or a field, and   *)
(* a block that t has for itself, or has locked.                            *)
Held(t, k, b) == Above(stack[t], k, b) >= 1 \/ \E c \in Blocks : field[c] = b
Mine(t, k, b) ==
    /\ Held(t, k, b)
    /\ hdr[b].rc <= 1 \/ \E m \in k + 1 .. Len(stack[t]) : Locks(Fr(t, m)) /\ Fr(t, m).b = b

(* What a step may do to a block that another frame evaluates: held says    *)
(* that the step has a reference to b, mine that b is Mine.                 *)
FairHeader(b, held, mine) ==
    \/ hdr'[b] = hdr[b]
    \/ held /\ hdr[b].rc <= 1
    \/ /\ \/ hdr'[b].tag = hdr[b].tag
          \/ /\ mine /\ hdr[b].tag = "lazy"
             /\ hdr'[b].tag = IF b \in heap.next THEN "ind" ELSE "whnf"
       /\ hdr[b].blocked => hdr'[b].blocked \/ (mine /\ hdr[b].tag # "lazy")
       /\ hdr'[b].rc = hdr[b].rc \/ held
FairField(b, mine) ==
    \/ field'[b] = field[b] \/ field'[b] = None \/ mine
    \/ ~heap.shared /\ hdr[b].tag # "lazy"
FairBlock(b, held, mine) ==
    FairHeader(b, held, mine) /\ FairField(b, mine) /\ (evals'[b] = evals[b] \/ mine)
Fair(t, k) == heap' = heap /\ \A b \in Blocks : FairBlock(b, Held(t, k, b), Mine(t, k, b))

LEMMA RefsAtLeast ==
    ASSUME LazyInv, NEW t \in Threads, NEW k \in Nat, Len(stack[t]) \in k .. k + 2, NEW b \in Blocks
    PROVE  /\ Refs(b) \in Nat /\ hdr[b].rc \in Nat /\ hdr[b].rc >= Refs(b) /\ Above(stack[t], k, b) \in Nat
           /\ \A c \in Blocks : Refs(b) >= Above(stack[t], k, b) + Points1(field, c, b)
           /\ \A u \in Threads : \A n \in 1 .. Len(stack[u]) :
                u # t \/ n <= k =>
                  \A c \in Blocks : Refs(b) >= Count(Fr(u, n), b) + Above(stack[t], k, b) + Points1(field, c, b)
<1>1. /\ todo \in [Threads -> Seq(Blocks)] /\ stack \in [Threads -> Seq(FrameSet)]
      /\ hdr \in [Blocks -> Header]
  BY DEF LazyInv, LazyTypes
<1>2. hdr[b].rc \in Nat /\ hdr[b].rc >= Refs(b)
  BY <1>1 DEF Header, LazyInv, CountsCover
<1>3. Refs(b) = Cardinality(RefSet(todo, stack, field, b))
  BY RefsAre
<1>4. Above(stack[t], k, b) \in Nat
  BY <1>1, AboveNat
<1> DEFINE N == Cardinality(RefSet(todo, stack, field, b))
<1>5. /\ N \in Nat
      /\ \A c \in Blocks : N >= Above(stack[t], k, b) + Points1(field, c, b)
      /\ \A u \in Threads : \A n \in 1 .. Len(stack[u]) :
           u # t \/ n <= k =>
             \A c \in Blocks : N >= Count(FromLast(stack[u], n), b) + Above(stack[t], k, b) + Points1(field, c, b)
  BY <1>1, AtLeast
<1> QED BY <1>2, <1>3, <1>4, <1>5 DEF Fr

Knows(t, k, u, n) ==
    /\ Fr(u, n) \in FrameSet /\ FrameOK(Fr(u, n))
    /\ ~heap.shared => u = t /\ Fr(u, n).at \in {"tag", "return"}
    /\ Fr(u, n).own >= 1 /\ Held(t, k, Fr(u, n).b) => hdr[Fr(u, n).b].rc >= 2
    /\ Fr(u, n).own >= 1 /\ Mine(t, k, Fr(u, n).b) => ~Locks(Fr(u, n)) /\ Fr(u, n).at \notin {"tag", "field"}

LEMMA OtherKnows ==
    ASSUME LazyInv, NEW t \in Threads, NEW k \in Nat, Holds(t, k),
           NEW u \in Threads, NEW n, Other(t, k, u, n)
    PROVE  Knows(t, k, u, n)
<1> DEFINE g == Fr(u, n)
<1>1. /\ stack \in [Threads -> Seq(FrameSet)] /\ hdr \in [Blocks -> Header] /\ FramesOK
      /\ n \in 1 .. Len(stack[u]) /\ Len(stack[t]) \in k .. k + 2
  BY DEF LazyInv, LazyTypes, Other, Holds
<1>2. stack[u] \in Seq(FrameSet) /\ stack[t] \in Seq(FrameSet)
  BY <1>1
<1>3. g \in FrameSet /\ FrameOK(g)
  BY <1>1, <1>2, FrameIn DEF Fr, FramesOK
<1>4. g.b \in Blocks /\ g.own \in 0..2
  BY <1>3 DEF FrameSet
<1>5. ~heap.shared => u = t /\ g.at \in {"tag", "return"}
  <2>1. SUFFICES ASSUME ~heap.shared PROVE u = t /\ g.at \in {"tag", "return"}
    OBVIOUS
  <2>2. stack[u] # <<>>
    BY <1>1, <1>2
  <2>3. stack[t] # <<>> \/ todo[t] # <<>>
    BY <1>2 DEF Holds
  <2>4. u = t
    BY <2>1, <2>2, <2>3 DEF LazyInv, Sole, Active
  <2>5. n \in 1 .. Len(stack[t]) - 1
    BY <2>4, <1>1, <1>2 DEF Other, Holds
  <2>6. Under(Fr(t, n), Fr(t, n + 1))
    BY <2>5 DEF LazyInv, Nested
  <2> QED BY <2>4, <2>6 DEF Under
<1>6. ASSUME g.own >= 1, Held(t, k, g.b) PROVE hdr[g.b].rc >= 2
  <2>1. PICK c \in Blocks : Above(stack[t], k, g.b) >= 1 \/ field[c] = g.b
    BY <1>6, <1>4 DEF Held
  <2>2. Count(g, g.b) >= 1 /\ Count(g, g.b) \in Nat
    BY <1>3, <1>4, <1>6 DEF Count, FrameSet
  <2>3. Points1(field, c, g.b) \in 0..1 /\ (field[c] = g.b => Points1(field, c, g.b) = 1)
    BY DEF Points1
  <2>4. Other(t, k, u, n)
    OBVIOUS
  <2> HIDE DEF g
  <2>5. /\ Refs(g.b) \in Nat /\ hdr[g.b].rc \in Nat /\ hdr[g.b].rc >= Refs(g.b) /\ Above(stack[t], k, g.b) \in Nat
        /\ Refs(g.b) >= Count(Fr(u, n), g.b) + Above(stack[t], k, g.b) + Points1(field, c, g.b)
    BY <2>4, <1>1, <1>4, RefsAtLeast DEF Other
  <2>6. Fr(u, n) = g
    BY DEF g
  <2> QED BY <2>1, <2>2, <2>3, <2>5, <2>6
<1>7. ASSUME g.own >= 1, Mine(t, k, g.b) PROVE ~Locks(g) /\ g.at \notin {"tag", "field"}
  <2>1. Held(t, k, g.b) /\ hdr[g.b].rc >= 2 /\ hdr[g.b].rc \in Nat
    BY <1>6, <1>7, <1>1, <1>4 DEF Mine, Header
  <2>2. PICK m \in k + 1 .. Len(stack[t]) : Locks(Fr(t, m)) /\ Fr(t, m).b = g.b
    BY <2>1, <1>7 DEF Mine
  <2>3. ~Locks(g)
    <3>1. m \in 1 .. Len(stack[t]) /\ ~(m <= k)
      BY <1>2
    <3>2. ~(t = u /\ m = n)
      BY <3>1 DEF Other
    <3> QED BY <3>1, <3>2, <2>2, <1>1 DEF LazyInv, Exclusive
  <2>4. ~Unique(g.b)
    BY <2>1 DEF Unique
  <2>5. g.at \in {"tag", "field"} => ~g.lock
    BY <2>3 DEF Locks
  <2>6. g.at # "tag"
    BY <2>4, <2>5, <1>3 DEF FrameOK, Evaluates
  <2>7. g.at # "field"
    BY <2>5, <1>3, <1>5 DEF FrameOK, Evaluates
  <2> QED BY <2>3, <2>6, <2>7
<1> HIDE DEF g
<1> QED BY <1>3, <1>5, <1>6, <1>7 DEF Knows, g

LEMMA OtherKept ==
    ASSUME LazyInv, NEW t \in Threads, NEW k \in Nat, Holds(t, k), Fair(t, k),
           NEW u \in Threads, NEW n, Other(t, k, u, n), NEW g, g = Fr(u, n)
    PROVE  FrameOK(g)'
<1>1. Knows(t, k, u, n)
  BY OtherKnows
<1>2. /\ g \in FrameSet /\ FrameOK(g) /\ heap' = heap
      /\ ~heap.shared => g.at \in {"tag", "return"}
      /\ g.own >= 1 /\ Held(t, k, g.b) => hdr[g.b].rc >= 2
      /\ g.own >= 1 /\ Mine(t, k, g.b) => ~Locks(g) /\ g.at \notin {"tag", "field"}
  BY <1>1 DEF Knows, Fair
<1>3. g.b \in Blocks /\ g.own \in 0..2 /\ hdr[g.b].rc \in Nat
  BY <1>2 DEF FrameSet, LazyInv, LazyTypes, Header
<1>4. Shape(g)
  BY <1>2 DEF FrameOK
<1>5. Follows(g)'
  <2>1. Follows(g) /\ (g.at \in Walks \cup {"walk_set"} => FALSE)
    BY <1>2 DEF FrameOK, Follows, Walks
  <2> QED BY <2>1, <1>2 DEF Follows, Walks
<1>6. ASSUME g.own = 0 PROVE Evaluates(g)'
  <2>1. g.at = "return" \/ (~g.lock /\ g.at \in {"compress"} \cup Walks \cup {"walk_set"})
    BY <1>4, <1>6, <1>2 DEF Shape, Owned, FrameSet, Points, Starts, Leaves, Walks
  <2> QED BY <2>1 DEF Evaluates, Locks, Walks
<1>7. ASSUME g.own >= 1 PROVE Evaluates(g)'
  <2> DEFINE b == g.b
  <2>1. /\ \/ hdr'[b] = hdr[b]
           \/ /\ \/ hdr'[b].tag = hdr[b].tag
                 \/ /\ g.at # "tag" /\ hdr[b].tag = "lazy"
                    /\ hdr'[b].tag = IF b \in heap.next THEN "ind" ELSE "whnf"
              /\ hdr[b].blocked => hdr'[b].blocked \/ (~Locks(g) /\ hdr[b].tag # "lazy")
              /\ hdr'[b].rc = hdr[b].rc \/ hdr[b].rc >= 2
        /\ evals'[b] = evals[b] \/ g.at # "tag"
        /\ \/ field'[b] = field[b] \/ field'[b] = None \/ g.at \notin {"tag", "field"}
           \/ ~heap.shared /\ hdr[b].tag # "lazy"
    <3>1. FairBlock(b, Held(t, k, b), Mine(t, k, b))
      BY <1>3 DEF Fair
    <3>2. Held(t, k, b) => hdr[b].rc >= 2
      BY <1>2, <1>7
    <3>3. Mine(t, k, b) => ~Locks(g) /\ g.at # "tag" /\ g.at # "field"
      BY <1>2, <1>7
    <3>4. ~(Held(t, k, b) /\ hdr[b].rc <= 1)
      BY <3>2, <1>3
    <3> QED BY <3>1, <3>2, <3>3, <3>4 DEF FairBlock, FairHeader, FairField
  <2>2. Evaluates(g)
    BY <1>2 DEF FrameOK
  <2>3. Tag(b)' = Tag(b) \/ (g.at # "tag" /\ Tag(b) = "lazy" /\ Tag(b)' = IF b \in heap.next THEN "ind" ELSE "whnf")
    BY <2>1 DEF Tag
  <2>4. hdr[b].blocked => hdr'[b].blocked \/ (~Locks(g) /\ Tag(b) # "lazy")
    BY <2>1 DEF Tag
  <2>5. Unique(b) => Unique(b)'
    BY <2>1, <1>2 DEF Unique
  <2>6. evals'[b] = evals[b] \/ g.at # "tag"
    BY <2>1
  <2>7. g.at \in {"tag", "field"} /\ b \notin heap.next /\ field[b] = None => field'[b] = None
    <3>1. ~heap.shared /\ Tag(b) # "lazy" => g.at \notin {"tag", "field"}
      BY <1>2, <2>2 DEF Evaluates
    <3> QED BY <2>1, <3>1 DEF Tag
  <2> HIDE DEF b
  <2>8. b = g.b
    BY DEF b
  <2>a. g.at = "ind_decref" => heap.shared
    BY <1>2
  <2>b. heap' = heap
    BY <1>2
  <2>c. Locks(g) => hdr'[g.b].blocked
    BY <2>2, <2>4, <2>8 DEF Evaluates
  <2>d. g.at = "wait" => hdr'[g.b].blocked \/ Tag(g.b)' # "lazy"
    BY <2>2, <2>4, <2>3, <2>8 DEF Evaluates
  <2>e. g.at = "match" /\ ~g.lock /\ Tag(g.b)' = "lazy" => Unique(g.b)'
    BY <2>2, <2>3, <2>5, <2>8 DEF Evaluates
  <2>f. g.at = "tag" => /\ Tag(g.b)' = "lazy" /\ evals'[g.b] = 1
                        /\ ~g.lock => Unique(g.b)' /\ g.b \notin heap.next
    BY <2>2, <2>3, <2>5, <2>6, <2>8 DEF Evaluates
  <2>g. g.at = "field" => /\ Tag(g.b)' = IF g.b \in heap.next THEN "ind" ELSE "whnf"
                          /\ ~g.lock => ~heap.shared /\ g.b \notin heap.next
    BY <2>2, <2>3, <2>8 DEF Evaluates
  <2>h. g.at \in {"tag", "field"} => IF g.b \in heap.next THEN g.res = None ELSE field'[g.b] = None
    BY <2>2, <2>7, <2>8 DEF Evaluates
  <2>i. g.at = "share" => Tag(g.b)' = "ind"
    BY <2>2, <2>3, <2>8 DEF Evaluates
  <2>j. g.at \in Walks \cup {"decref", "leave", "leave_cas", "ind_decref", "compress", "walk_set"} /\ g.lock =>
           Tag(g.b)' # "lazy"
    BY <2>2, <2>3, <2>8 DEF Evaluates
  <2> QED BY <2>a, <2>b, <2>c, <2>d, <2>e, <2>f, <2>g, <2>h, <2>i, <2>j DEF Evaluates, Locks
<1> QED BY <1>3, <1>4, <1>5, <1>6, <1>7 DEF FrameOK
---------------------------------------------------------------------------
(* A step of t replaces its frames above number k.                          *)
Replaces(t, k) ==
    /\ stack' \in [Threads -> Seq(FrameSet)] /\ todo' \in [Threads -> Seq(Blocks)]
    /\ \A u \in Threads \ {t} : stack'[u] = stack[u] /\ todo'[u] = todo[u]
    /\ Same(stack[t], stack'[t], k) /\ Len(stack'[t]) \in k .. k + 2

(* The headers before their counts are known to be natural numbers.         *)
DataTypes ==
    /\ hdr \in [Blocks -> [tag : {"lazy", "whnf", "ind", "free"}, blocked : BOOLEAN, rc : Int]]
    /\ field \in [Blocks -> Blocks \cup {None}]
    /\ evals \in [Blocks -> 0..1]

(* What the new frames have to satisfy.                                     *)
NewLocks(t, k) ==
    \A m \in k + 1 .. Len(stack'[t]) : Locks(Fr(t, m))' =>
      /\ \A j \in k + 1 .. Len(stack'[t]) : Locks(Fr(t, j))' => j = m
      /\ \/ ~hdr[Fr(t, m)'.b].blocked
         \/ \E j \in k + 1 .. Len(stack[t]) : Locks(Fr(t, j)) /\ Fr(t, j).b = Fr(t, m)'.b
NewUnder(t, k) == \A m \in k .. Len(stack'[t]) - 1 : m >= 1 => Under(Fr(t, m), Fr(t, m + 1))'
StillEvaluated(t, k) ==
    \A b \in Blocks : Tag(b)' = "lazy" /\ evals'[b] = 1 =>
      \/ \E m \in k + 1 .. Len(stack'[t]) : Evaluating(Fr(t, m), b)'
      \/ /\ Tag(b) = "lazy" /\ evals[b] = 1
         /\ \A m \in k + 1 .. Len(stack[t]) : ~Evaluating(Fr(t, m), b)

LEMMA StepKeeps ==
    ASSUME LazyInv, NEW t \in Threads, NEW k \in Nat, Holds(t, k), Fair(t, k), Replaces(t, k),
           DataTypes', CountsCover', Thunks',
           \A m \in k + 1 .. Len(stack'[t]) : FrameOK(Fr(t, m))',
           NewLocks(t, k), NewUnder(t, k), StillEvaluated(t, k)
    PROVE  LazyInv'
<1>1. /\ stack \in [Threads -> Seq(FrameSet)] /\ todo \in [Threads -> Seq(Blocks)] /\ heap \in Heaps
      /\ hdr \in [Blocks -> Header] /\ Len(stack[t]) \in Nat /\ k <= Len(stack[t])
      /\ Len(stack[t]) \in k .. k + 2
  BY DEF LazyInv, LazyTypes, Holds
<1>2. /\ stack' \in [Threads -> Seq(FrameSet)] /\ todo' \in [Threads -> Seq(Blocks)] /\ heap' = heap
      /\ \A u \in Threads \ {t} : stack'[u] = stack[u] /\ todo'[u] = todo[u]
      /\ Len(stack'[t]) \in Nat /\ k <= Len(stack'[t]) /\ Same(stack[t], stack'[t], k)
  BY DEF Replaces, Fair
<1>3. LazyTypes'
  <2>1. ASSUME NEW b \in Blocks PROVE Refs(b)' \in Nat
    <3>1. IsFiniteSet(RefSet(todo', stack', field', b))
      BY <1>2, RefsFinite
    <3>2. Refs(b)' = Cardinality(RefSet(todo', stack', field', b))
      BY RefsAre
    <3> QED BY <3>1, <3>2, FS_CardinalityType
  <2>2. ASSUME NEW b \in Blocks PROVE hdr'[b] \in Header
    <3>1. hdr'[b] \in [tag : {"lazy", "whnf", "ind", "free"}, blocked : BOOLEAN, rc : Int]
      BY DEF DataTypes
    <3>2. hdr'[b].rc >= Refs(b)'
      BY DEF CountsCover
    <3>3. hdr'[b].rc \in Nat
      BY <3>1, <3>2, <2>1
    <3> QED BY <3>1, <3>3 DEF Header
  <2>3. hdr' \in [Blocks -> Header]
    BY <2>2 DEF DataTypes
  <2> QED BY <2>3, <1>1, <1>2 DEF LazyTypes, DataTypes
<1>4. ASSUME NEW u \in Threads, NEW n, Other(t, k, u, n)
      PROVE  n \in 1 .. Len(stack'[u]) /\ Fr(u, n)' = Fr(u, n)
  <2>1. CASE u # t
    BY <1>2, <1>4, <2>1 DEF Other, Fr
  <2>2. CASE u = t
    <3>1. n \in 1 .. k
      BY <1>1, <1>4, <2>2 DEF Other
    <3> QED BY <3>1, <2>2, <1>1, <1>2 DEF Same, Fr
  <2> QED BY <2>1, <2>2
<1>5. ASSUME NEW u \in Threads, NEW n \in 1 .. Len(stack'[u])
      PROVE  Other(t, k, u, n) \/ (u = t /\ n \in k + 1 .. Len(stack'[t]) /\ n \notin 1 .. k)
  BY <1>1, <1>2 DEF Other
<1>6. Sole'
  <2>1. Active(t)
    BY <1>1 DEF Holds, Active
  <2>2. ASSUME NEW u \in Threads, Active(u)' PROVE Active(u)
    BY <2>1, <2>2, <1>2 DEF Active
  <2> QED BY <2>2, <1>2 DEF LazyInv, Sole
<1>7. FramesOK'
  <2> SUFFICES ASSUME NEW u \in Threads, NEW n \in 1 .. Len(stack'[u])
               PROVE  FrameOK(Fr(u, n))'
    BY DEF FramesOK
  <2>1. CASE Other(t, k, u, n)
    <3>1. PICK g : g = Fr(u, n)
      OBVIOUS
    <3>2. FrameOK(g)'
      BY <2>1, <3>1, OtherKept
    <3>3. Fr(u, n)' = g
      BY <2>1, <3>1, <1>4
    <3> QED BY <3>2, <3>3 DEF FrameOK, Shape, Owned, Evaluates, Follows, Locks, Tag, Unique
  <2>2. CASE u = t /\ n \in k + 1 .. Len(stack'[t])
    BY <2>2
  <2> QED BY <1>5, <2>1, <2>2
<1>8. Nested'
  <2> SUFFICES ASSUME NEW u \in Threads, NEW n \in 1 .. Len(stack'[u]) - 1
               PROVE  Under(Fr(u, n), Fr(u, n + 1))'
    BY DEF Nested
  <2>1. CASE u # t \/ n + 1 <= k
    <3>1. Other(t, k, u, n) /\ Other(t, k, u, n + 1) /\ n \in 1 .. Len(stack[u]) - 1
      BY <2>1, <1>1, <1>2 DEF Other
    <3>2. Fr(u, n)' = Fr(u, n) /\ Fr(u, n + 1)' = Fr(u, n + 1)
      BY <3>1, <1>4
    <3>3. Under(Fr(u, n), Fr(u, n + 1))
      BY <3>1 DEF LazyInv, Nested
    <3> QED BY <3>2, <3>3, <1>2 DEF Under
  <2>2. CASE u = t /\ ~(n + 1 <= k)
    <3>1. n \in k .. Len(stack'[t]) - 1 /\ n >= 1
      BY <2>2, <1>2
    <3> QED BY <3>1, <2>2 DEF NewUnder
  <2> QED BY <2>1, <2>2
<1>9. Exclusive'
  <2>1. ASSUME NEW u \in Threads, NEW n, Other(t, k, u, n), Locks(Fr(u, n)),
               NEW m \in k + 1 .. Len(stack'[t]), Locks(Fr(t, m))', Fr(u, n).b = Fr(t, m)'.b
        PROVE  FALSE
    <3>1. hdr[Fr(u, n).b].blocked
      <4>1. FrameOK(Fr(u, n))
        BY <2>1 DEF LazyInv, FramesOK, Other
      <4> QED BY <4>1, <2>1 DEF FrameOK, Evaluates
    <3>2. PICK j \in k + 1 .. Len(stack[t]) : Locks(Fr(t, j)) /\ Fr(t, j).b = Fr(t, m)'.b
      BY <3>1, <2>1 DEF NewLocks
    <3>3. j \in 1 .. Len(stack[t]) /\ ~(j <= k)
      BY <1>1
    <3>4. u = t /\ n = j
      BY <3>2, <3>3, <2>1 DEF LazyInv, Exclusive, Other
    <3> QED BY <3>3, <3>4, <2>1 DEF Other
  <2> SUFFICES ASSUME NEW u \in Threads, NEW v \in Threads,
                      NEW n \in 1 .. Len(stack'[u]), NEW m \in 1 .. Len(stack'[v]),
                      Locks(Fr(u, n))', Locks(Fr(v, m))', Fr(u, n)'.b = Fr(v, m)'.b
               PROVE  u = v /\ n = m
    BY DEF Exclusive
  <2>2. CASE Other(t, k, u, n) /\ Other(t, k, v, m)
    <3>1. Fr(u, n)' = Fr(u, n) /\ Fr(v, m)' = Fr(v, m)
      BY <2>2, <1>4
    <3> QED BY <3>1, <2>2 DEF LazyInv, Exclusive, Other, Locks
  <2>3. CASE Other(t, k, u, n) /\ ~Other(t, k, v, m)
    <3>1. Fr(u, n)' = Fr(u, n) /\ v = t /\ m \in k + 1 .. Len(stack'[t])
      BY <2>3, <1>4, <1>5
    <3> QED BY <3>1, <2>1, <2>3 DEF Locks
  <2>4. CASE ~Other(t, k, u, n) /\ Other(t, k, v, m)
    <3>1. Fr(v, m)' = Fr(v, m) /\ u = t /\ n \in k + 1 .. Len(stack'[t])
      BY <2>4, <1>4, <1>5
    <3> QED BY <3>1, <2>1, <2>4 DEF Locks
  <2>5. CASE ~Other(t, k, u, n) /\ ~Other(t, k, v, m)
    <3>1. u = t /\ n \in k + 1 .. Len(stack'[t]) /\ v = t /\ m \in k + 1 .. Len(stack'[t])
      BY <2>5, <1>5
    <3> QED BY <3>1 DEF NewLocks
  <2> QED BY <2>2, <2>3, <2>4, <2>5
<1>10. InProgress'
  <2> SUFFICES ASSUME NEW b \in Blocks, Tag(b)' = "lazy", evals'[b] = 1
               PROVE  \E u \in Threads : \E n \in 1 .. Len(stack'[u]) : Evaluating(Fr(u, n), b)'
    BY DEF InProgress
  <2>1. CASE \E m \in k + 1 .. Len(stack'[t]) : Evaluating(Fr(t, m), b)'
    <3>1. PICK m \in k + 1 .. Len(stack'[t]) : Evaluating(Fr(t, m), b)'
      BY <2>1
    <3>2. m \in 1 .. Len(stack'[t])
      OBVIOUS
    <3> QED BY <3>1, <3>2
  <2>2. CASE /\ Tag(b) = "lazy" /\ evals[b] = 1
             /\ \A m \in k + 1 .. Len(stack[t]) : ~Evaluating(Fr(t, m), b)
    <3>1. PICK u \in Threads : \E n \in 1 .. Len(stack[u]) : Evaluating(Fr(u, n), b)
      BY <2>2 DEF LazyInv, InProgress
    <3>2. PICK n \in 1 .. Len(stack[u]) : Evaluating(Fr(u, n), b)
      BY <3>1
    <3>3. Other(t, k, u, n)
      BY <3>2, <2>2, <1>1 DEF Other
    <3>4. n \in 1 .. Len(stack'[u]) /\ Fr(u, n)' = Fr(u, n)
      BY <3>3, <1>4
    <3> QED BY <3>2, <3>4 DEF Evaluating
  <2> QED BY <2>1, <2>2 DEF StillEvaluated
<1> QED BY <1>3, <1>6, <1>7, <1>8, <1>9, <1>10 DEF LazyInv
---------------------------------------------------------------------------
(* A step that replaces the top frame f by f2, and changes at most the      *)
(* field of c.                                                              *)
LEMMA TopKnows ==
    ASSUME LazyInv, NEW t \in Threads, stack[t] # <<>>, NEW f, f = Top(t)
    PROVE  /\ f \in FrameSet /\ FrameOK(f) /\ f.b \in Blocks /\ f.own \in 0..2
           /\ stack[t] \in Seq(FrameSet) /\ Len(stack[t]) \in Nat /\ Len(stack[t]) >= 1
           /\ f = Fr(t, Len(stack[t]))
           /\ \A b \in Blocks : hdr[b] \in Header /\ Count(f, b) \in Nat
           /\ \A b, c \in Blocks : hdr[b].rc >= Count(f, b) + Points1(field, c, b)
<1>1. stack[t] \in Seq(FrameSet) /\ hdr \in [Blocks -> Header]
  BY DEF LazyInv, LazyTypes
<1>2. Len(stack[t]) \in Nat /\ Len(stack[t]) >= 1 /\ f = Fr(t, Len(stack[t])) /\ f \in FrameSet
  BY <1>1, TopFrame DEF Top, Fr
<1>3. FrameOK(f)
  <2>1. Len(stack[t]) \in 1 .. Len(stack[t])
    BY <1>2
  <2> QED BY <1>2, <2>1 DEF LazyInv, FramesOK
<1>4. ASSUME NEW b \in Blocks, NEW c \in Blocks PROVE hdr[b].rc >= Count(f, b) + Points1(field, c, b)
  <2> DEFINE k == Len(stack[t]) - 1
  <2>1. k \in Nat /\ Len(stack[t]) \in k .. k + 2 /\ Len(stack[t]) = k + 1 /\ Len(stack[t]) # k
    BY <1>2
  <2>2. Above(stack[t], k, b) = Count(f, b)
    BY <2>1, <1>2 DEF Above, Fr
  <2> HIDE DEF k
  <2>3. /\ Refs(b) \in Nat /\ hdr[b].rc \in Nat /\ hdr[b].rc >= Refs(b) /\ Above(stack[t], k, b) \in Nat
        /\ Refs(b) >= Above(stack[t], k, b) + Points1(field, c, b)
    BY <2>1, RefsAtLeast
  <2>4. Points1(field, c, b) \in 0..1
    BY DEF Points1
  <2> QED BY <2>2, <2>3, <2>4
<1>5. \A b \in Blocks : Count(f, b) \in Nat
  BY <1>2, CountNat
<1> QED BY <1>1, <1>2, <1>3, <1>4, <1>5 DEF FrameSet

Has(f, b) == Count(f, b) >= 1 \/ \E c \in Blocks : field[c] = b
Own(f, b) == Has(f, b) /\ (hdr[b].rc <= 1 \/ (Locks(f) /\ f.b = b))

Gain(x, b) == /\ hdr'[b].rc >= hdr[b].rc + x
              /\ ~heap.shared => hdr'[b].rc = hdr[b].rc + x

SetOK(t, f, f2, c) ==
    /\ stack[t] # <<>> /\ f = Top(t) /\ Set(t, f2) /\ heap' = heap /\ todo' = todo
    /\ DataTypes' /\ Thunks'
    /\ \A b \in Blocks : FairBlock(b, Has(f, b), Own(f, b))
    /\ \A x \in Blocks \ {c} : field'[x] = field[x]
    /\ \A b \in Blocks : Gain(Count(f2, b) + Points1(field', c, b) - Count(f, b) - Points1(field, c, b), b)
    /\ FrameOK(f2)'
    /\ f.at = "drop" => f2.at = "drop"
    /\ Locks(f2) => ~hdr[f2.b].blocked \/ (Locks(f) /\ f.b = f2.b)
    /\ \A b \in Blocks : Tag(b)' = "lazy" /\ evals'[b] = 1 =>
         Evaluating(f2, b) \/ (Tag(b) = "lazy" /\ evals[b] = 1 /\ ~Evaluating(f, b))

LEMMA SetStep ==
    ASSUME LazyInv, NEW t \in Threads, NEW f, NEW f2 \in FrameSet, NEW c \in Blocks, SetOK(t, f, f2, c)
    PROVE  LazyInv'
<1>1. /\ stack[t] # <<>> /\ f = Top(t) /\ Set(t, f2) /\ heap' = heap /\ todo' = todo
      /\ stack \in [Threads -> Seq(FrameSet)] /\ todo \in [Threads -> Seq(Blocks)] /\ field \in [Blocks -> Blocks \cup {None}]
  BY DEF SetOK, LazyInv, LazyTypes
<1>2. /\ f \in FrameSet /\ FrameOK(f) /\ f.b \in Blocks
      /\ stack[t] \in Seq(FrameSet) /\ Len(stack[t]) \in Nat /\ Len(stack[t]) >= 1
      /\ f = Fr(t, Len(stack[t])) /\ \A b \in Blocks : hdr[b] \in Header
  BY <1>1, TopKnows
<1>3. PICK k \in Nat : Len(stack[t]) = k + 1 /\ Len(stack[t]) \in k .. k + 2 /\ k + 1 # k /\ k = Len(stack[t]) - 1
  <2> DEFINE j == Len(stack[t]) - 1
  <2>1. j \in Nat /\ Len(stack[t]) = j + 1 /\ Len(stack[t]) \in j .. j + 2 /\ j + 1 # j
    BY <1>2
  <2>2. j = Len(stack[t]) - 1
    OBVIOUS
  <2> HIDE DEF j
  <2> QED BY <2>1, <2>2
<1>4. /\ stack'[t] \in Seq(FrameSet) /\ Len(stack'[t]) = Len(stack[t]) /\ FromLast(stack'[t], Len(stack'[t])) = f2
      /\ Same(stack[t], stack'[t], k)
  <2>1. stack'[t] = <<f2>> \o Tail(stack[t])
    BY <1>1 DEF Set
  <2>2. Same(stack[t], <<f2>> \o Tail(stack[t]), Len(stack[t]) - 1)
    BY <1>1, <1>2, SetFrames
  <2> QED BY <2>1, <2>2, <1>1, <1>2, <1>3, SetFrames
<1>5. stack' \in [Threads -> Seq(FrameSet)] /\ \A u \in Threads \ {t} : stack'[u] = stack[u]
  BY <1>1, <1>4 DEF Set
<1>6. Fr(t, k + 1) = f /\ Fr(t, k + 1)' = f2 /\ Len(stack'[t]) = k + 1 /\ Len(stack'[t]) \in k .. k + 2
  <2>1. Len(stack'[t]) = k + 1 /\ Len(stack'[t]) \in k .. k + 2
    BY <1>3, <1>4
  <2>2. Fr(t, Len(stack[t])) = f /\ Len(stack[t]) = k + 1
    BY <1>2, <1>3
  <2>3. FromLast(stack'[t], Len(stack'[t])) = f2
    BY <1>4
  <2>4. Fr(t, k + 1) = f
    BY <2>2, Zenon
  <2>5. FromLast(stack'[t], k + 1) = f2
    BY <2>1, <2>3, Zenon
  <2> QED BY <2>1, <2>4, <2>5 DEF Fr
<1>7. Holds(t, k) /\ Replaces(t, k)
  BY <1>1, <1>3, <1>4, <1>5, <1>6 DEF Holds, Replaces
<1>8. \A b : Above(stack[t], k, b) = Count(f, b) /\ Above(stack'[t], k, b) = Count(f2, b)
  <2>1. FromLast(stack[t], k + 1) = f /\ FromLast(stack'[t], k + 1) = f2
    BY <1>6 DEF Fr
  <2>2. Len(stack[t]) # k /\ Len(stack'[t]) # k /\ Len(stack[t]) = k + 1 /\ Len(stack'[t]) = k + 1
    BY <1>3, <1>6
  <2> QED BY <2>1, <2>2, Zenon DEF Above
<1>a. \A m \in k + 1 .. Len(stack'[t]) : m = k + 1 /\ Fr(t, m)' = f2
  <2>1. \A m \in k + 1 .. Len(stack'[t]) : m = k + 1
    BY <1>3, <1>6
  <2> QED BY <2>1, <1>6 DEF Fr
<1>b. \A m \in k + 1 .. Len(stack[t]) : m = k + 1 /\ Fr(t, m) = f
  <2>1. \A m \in k + 1 .. Len(stack[t]) : m = k + 1
    BY <1>3, <1>6
  <2> QED BY <2>1, <1>6
<1>c. k + 1 \in k + 1 .. Len(stack[t]) /\ k + 1 \in k + 1 .. Len(stack'[t])
  BY <1>3, <1>6
<1>9. Fair(t, k)
  <2>1. \A b \in Blocks : Held(t, k, b) <=> Has(f, b)
    BY <1>8 DEF Held, Has
  <2>2. \A b \in Blocks : Mine(t, k, b) <=> Own(f, b)
    <3>1. \A m : m \in k + 1 .. Len(stack[t]) <=> m = k + 1
      BY <1>3
    <3> QED BY <2>1, <3>1, <1>6 DEF Mine, Own
  <2>3. \A b \in Blocks : FairBlock(b, Has(f, b), Own(f, b))
    BY DEF SetOK
  <2>4. ASSUME NEW b \in Blocks PROVE FairBlock(b, Held(t, k, b), Mine(t, k, b))
    BY <2>1, <2>2, <2>3 DEF FairBlock, FairHeader, FairField
  <2> QED BY <2>4, <1>1 DEF Fair
<1>10. CountsCover'
  <2> SUFFICES ASSUME NEW b \in Blocks
               PROVE  /\ hdr'[b].rc >= Refs(b)'
                      /\ ~heap.shared => hdr'[b].rc = Refs(b)'
    BY <1>1 DEF CountsCover
  <2>1. PICK r \in Nat :
          /\ Cardinality(RefSet(todo, stack, field, b)) = r + Above(stack[t], k, b) + Points1(field, c, b)
          /\ Cardinality(RefSet(todo, stack', field', b)) = r + Above(stack'[t], k, b) + Points1(field', c, b)
    <3>1. Balanced(todo, stack, stack', field, field', t, k, c, b)
      <4>1. \A x \in Blocks \ {c} : field'[x] = field[x]
        BY DEF SetOK
      <4> QED BY <4>1, <1>1, <1>3, <1>4, <1>5, <1>6, Balance
    <3> QED BY <3>1 DEF Balanced
  <2>2. /\ Refs(b) = r + Count(f, b) + Points1(field, c, b)
        /\ Refs(b)' = r + Count(f2, b) + Points1(field', c, b)
    BY <2>1, <1>1, <1>8, RefsAre
  <2>3. /\ hdr[b].rc >= Refs(b)
        /\ ~heap.shared => hdr[b].rc = Refs(b)
    BY DEF LazyInv, CountsCover
  <2>4. Gain(Count(f2, b) + Points1(field', c, b) - Count(f, b) - Points1(field, c, b), b)
    BY DEF SetOK
  <2>5. Count(f, b) \in Nat /\ Count(f2, b) \in Nat /\ Points1(field, c, b) \in 0..1 /\ Points1(field', c, b) \in 0..1
    BY <1>2, CountNat DEF Points1
  <2>6. hdr[b].rc \in Int /\ hdr'[b].rc \in Int
    BY <1>2 DEF Header, SetOK, DataTypes
  <2> QED BY <2>2, <2>3, <2>4, <2>5, <2>6 DEF Gain
<1>11. \A m \in k + 1 .. Len(stack'[t]) : FrameOK(Fr(t, m))'
  <2> SUFFICES ASSUME NEW m \in k + 1 .. Len(stack'[t]) PROVE FrameOK(Fr(t, m))'
    OBVIOUS
  <2>1. FrameOK(f2)'
    BY DEF SetOK
  <2>2. Fr(t, m)' = f2
    BY <1>a
  <2> QED BY <2>1, <2>2 DEF FrameOK, Shape, Owned, Evaluates, Follows, Locks, Tag, Unique
<1>12. NewLocks(t, k)
  <2> SUFFICES ASSUME NEW m \in k + 1 .. Len(stack'[t]), Locks(Fr(t, m))'
               PROVE  /\ \A j \in k + 1 .. Len(stack'[t]) : Locks(Fr(t, j))' => j = m
                      /\ \/ ~hdr[Fr(t, m)'.b].blocked
                         \/ \E j \in k + 1 .. Len(stack[t]) : Locks(Fr(t, j)) /\ Fr(t, j).b = Fr(t, m)'.b
    BY DEF NewLocks
  <2>1. Fr(t, m)' = f2
    BY <1>a
  <2>2. Locks(f2)
    BY <2>1 DEF Locks
  <2>3. ~hdr[f2.b].blocked \/ (Locks(f) /\ f.b = f2.b)
    BY <2>2 DEF SetOK
  <2>4. \A j \in k + 1 .. Len(stack'[t]) : j = m
    BY <1>a
  <2>5. ~hdr[f2.b].blocked \/ \E j \in k + 1 .. Len(stack[t]) : Locks(Fr(t, j)) /\ Fr(t, j).b = f2.b
    BY <2>3, <1>c, <1>6
  <2> QED BY <2>1, <2>4, <2>5
<1>13. NewUnder(t, k)
  <2> SUFFICES ASSUME NEW m \in k .. Len(stack'[t]) - 1, m >= 1
               PROVE  Under(Fr(t, m), Fr(t, m + 1))'
    BY DEF NewUnder
  <2>1. m = k /\ m \in 1 .. k /\ m \in 1 .. Len(stack[t]) - 1
    BY <1>3, <1>6
  <2>2. Under(Fr(t, m), Fr(t, m + 1))
    BY <2>1 DEF LazyInv, Nested
  <2>3. Fr(t, m)' = Fr(t, m)
    BY <2>1, <1>4 DEF Same, Fr
  <2>4. f.at = "drop" => f2.at = "drop"
    BY DEF SetOK
  <2>5. Fr(t, m + 1) = f /\ Fr(t, m + 1)' = f2
    <3>1. m + 1 = k + 1
      BY <2>1
    <3>2. FromLast(stack[t], k + 1) = f /\ FromLast(stack'[t], k + 1) = f2
      BY <1>6 DEF Fr
    <3> QED BY <3>1, <3>2 DEF Fr
  <2> QED BY <2>2, <2>3, <2>4, <2>5, <1>1 DEF Under
<1>14. StillEvaluated(t, k)
  <2> SUFFICES ASSUME NEW b \in Blocks, Tag(b)' = "lazy", evals'[b] = 1
               PROVE  \/ \E m \in k + 1 .. Len(stack'[t]) : Evaluating(Fr(t, m), b)'
                      \/ /\ Tag(b) = "lazy" /\ evals[b] = 1
                         /\ \A m \in k + 1 .. Len(stack[t]) : ~Evaluating(Fr(t, m), b)
    BY DEF StillEvaluated
  <2>1. CASE Evaluating(f2, b)
    <3>1. Evaluating(Fr(t, k + 1), b)'
      BY <2>1, <1>6 DEF Evaluating
    <3>2. PICK m \in k + 1 .. Len(stack'[t]) : m = k + 1
      BY <1>c
    <3>3. Fr(t, m)' = f2
      BY <1>a
    <3>4. Evaluating(Fr(t, m), b)'
      BY <3>3, <2>1 DEF Evaluating
    <3> QED BY <3>4
  <2>2. CASE Tag(b) = "lazy" /\ evals[b] = 1 /\ ~Evaluating(f, b)
    BY <2>2, <1>b
  <2> QED BY <2>1, <2>2 DEF SetOK
<1> QED BY <1>3, <1>7, <1>9, <1>10, <1>11, <1>12, <1>13, <1>14, StepKeeps DEF SetOK
---------------------------------------------------------------------------
(* Steps that change nothing but the top frame.                             *)
QuietOK(t, f, f2) ==
    /\ stack[t] # <<>> /\ f = Top(t) /\ Set(t, f2) /\ UNCHANGED data
    /\ \A b \in Blocks : Count(f2, b) = Count(f, b)
    /\ f2 \in FrameSet /\ FrameOK(f2)
    /\ f.at # "tag" /\ f.at # "drop"
    /\ Locks(f2) => Locks(f) /\ f.b = f2.b

LEMMA QuietStep ==
    ASSUME LazyInv, NEW t \in Threads, NEW f, NEW f2, QuietOK(t, f, f2)
    PROVE  LazyInv'
<1>1. /\ stack[t] # <<>> /\ f = Top(t) /\ Set(t, f2) /\ UNCHANGED data /\ f2 \in FrameSet /\ FrameOK(f2)
      /\ f.at # "tag" /\ f.at # "drop" /\ \A b \in Blocks : Count(f2, b) = Count(f, b)
      /\ Locks(f2) => Locks(f) /\ f.b = f2.b
  BY DEF QuietOK
<1>2. f.b \in Blocks /\ f \in FrameSet
  BY <1>1, TopKnows
<1>3. /\ heap' = heap /\ hdr' = hdr /\ field' = field /\ evals' = evals /\ todo' = todo
      /\ hdr \in [Blocks -> Header] /\ field \in [Blocks -> Blocks \cup {None}] /\ evals \in [Blocks -> 0..1]
  BY <1>1 DEF data, LazyInv, LazyTypes
<1>4. DataTypes' /\ Thunks'
  <2>1. \A b \in Blocks : hdr[b] \in [tag : {"lazy", "whnf", "ind", "free"}, blocked : BOOLEAN, rc : Int]
    BY <1>3 DEF Header
  <2>2. DataTypes'
    BY <2>1, <1>3 DEF DataTypes
  <2>3. Thunks
    BY DEF LazyInv
  <2> QED BY <2>2, <2>3, <1>3 DEF Thunks, Tag
<1>5. FrameOK(f2)'
  BY <1>1, <1>3 DEF FrameOK, Shape, Owned, Evaluates, Follows, Locks, Tag, Unique
<1>6. \A b \in Blocks : FairBlock(b, Has(f, b), Own(f, b))
  BY <1>3 DEF FairBlock, FairHeader, FairField
<1>7. ASSUME NEW b \in Blocks
      PROVE  Gain(Count(f2, b) + Points1(field', f.b, b) - Count(f, b) - Points1(field, f.b, b), b)
  <2>1. Count(f2, b) = Count(f, b) /\ Count(f, b) \in 0..3 /\ Points1(field', f.b, b) = Points1(field, f.b, b)
    BY <1>1, <1>2, <1>3, CountNat
  <2>2. Points1(field, f.b, b) \in 0..1
    BY DEF Points1
  <2>3. Count(f2, b) + Points1(field', f.b, b) - Count(f, b) - Points1(field, f.b, b) = 0
    BY <2>1, <2>2
  <2>4. hdr[b].rc \in Nat
    BY <1>3 DEF Header
  <2>5. Gain(0, b)
    BY <2>4, <1>3 DEF Gain
  <2> QED BY <2>3, <2>5
<1>8. \A b \in Blocks : Tag(b)' = "lazy" /\ evals'[b] = 1 => Tag(b) = "lazy" /\ evals[b] = 1 /\ ~Evaluating(f, b)
  BY <1>1, <1>3 DEF Tag, Evaluating
<1>9. SetOK(t, f, f2, f.b)
  BY <1>1, <1>3, <1>4, <1>5, <1>6, <1>7, <1>8, Zenon DEF SetOK
<1> QED BY <1>1, <1>2, <1>9, SetStep

(* What is known of the frame that a thread runs.                           *)
Runs(t, f) ==
    /\ stack[t] # <<>> /\ f = Top(t) /\ f \in FrameSet
    /\ f.b \in Blocks /\ f.at \in Points /\ f.own \in 0..2 /\ f.res \in Blocks \cup {None}
    /\ f.lock \in BOOLEAN /\ f.h \in Loaded
    /\ f = [b |-> f.b, at |-> f.at, own |-> f.own, res |-> f.res, lock |-> f.lock, h |-> f.h]
    /\ Shape(f) /\ Evaluates(f) /\ Follows(f)
    /\ hdr[f.b] \in Header /\ None \notin Blocks

LEMMA Running ==
    ASSUME LazyInv, NEW t \in Threads, NEW at, At(t, at), NEW f, f = Top(t)
    PROVE  Runs(t, f) /\ f.at = at
<1>1. stack[t] # <<>> /\ f.at = at
  BY DEF At
<1>2. f \in FrameSet /\ FrameOK(f) /\ f.b \in Blocks
  BY <1>1, TopKnows
<1>3. hdr[f.b] \in Header
  BY <1>2 DEF LazyInv, LazyTypes
<1>4. f = [b |-> f.b, at |-> f.at, own |-> f.own, res |-> f.res, lock |-> f.lock, h |-> f.h]
  BY <1>2 DEF FrameSet
<1> QED BY <1>1, <1>2, <1>3, <1>4, LazyAssumption DEF Runs, FrameSet, FrameOK

(* Each action that only changes the frame keeps LazyInv.                   *)
LEMMA ForceValueKeeps ==
    ASSUME LazyInv, NEW t \in Threads, ForceValue(t) PROVE LazyInv'
<1>1. PICK f : f = Top(t)
  OBVIOUS
<1>2. Runs(t, f) /\ f.at = "force" /\ UNCHANGED data
  BY <1>1, Running DEF ForceValue
<1>f. f = [b |-> f.b, at |-> f.at, own |-> f.own, res |-> f.res, lock |-> f.lock, h |-> f.h]
  BY <1>2 DEF Runs
<1>3. CASE Tag(f.b) = "whnf"
  <2>1. PICK f2 : f2 = [f EXCEPT !.at = "return", !.own = 0, !.res = f.b]
    OBVIOUS
  <2>r. f2 = [b |-> f.b, at |-> "return", own |-> 0, res |-> f.b, lock |-> f.lock, h |-> f.h]
    BY <1>f, <2>1
  <2>2. QuietOK(t, f, f2)
    <3>1. Set(t, f2)
      BY <1>1, <1>2, <1>3, <2>1 DEF ForceValue
    <3>2. f2 \in FrameSet
      BY <1>2, <1>3, <2>r DEF Runs, FrameSet, Points, Shape, Owned, Starts, Leaves, Walks
    <3>3. FrameOK(f2)
      BY <1>2, <1>3, <2>r DEF Runs, FrameOK, Shape, Owned, Evaluates, Follows, Locks, Starts, Leaves, Walks
    <3>4. \A b \in Blocks : Count(f2, b) = Count(f, b)
      BY <1>2, <1>3, <2>r DEF Runs, Count, Shape, Owned, Starts, Leaves, Walks
    <3> QED BY <1>2, <1>3, <2>r, <3>1, <3>2, <3>3, <3>4 DEF QuietOK, Runs, Locks, Shape, Starts, Leaves, Walks
  <2> QED BY <2>2, QuietStep
<1>4. CASE Tag(f.b) # "whnf"
  <2>1. PICK f2 : f2 = [f EXCEPT !.at = "eval"]
    OBVIOUS
  <2>r. f2 = [b |-> f.b, at |-> "eval", own |-> f.own, res |-> f.res, lock |-> f.lock, h |-> f.h]
    BY <1>f, <2>1
  <2>2. QuietOK(t, f, f2)
    <3>1. Set(t, f2)
      BY <1>1, <1>2, <1>4, <2>1 DEF ForceValue, Go
    <3>2. f2 \in FrameSet
      BY <1>2, <1>4, <2>r DEF Runs, FrameSet, Points, Shape, Owned, Starts, Leaves, Walks
    <3>3. FrameOK(f2)
      BY <1>2, <1>4, <2>r DEF Runs, FrameOK, Shape, Owned, Evaluates, Follows, Locks, Starts, Leaves, Walks
    <3>4. \A b \in Blocks : Count(f2, b) = Count(f, b)
      BY <1>2, <1>4, <2>r DEF Runs, Count, Shape, Owned, Starts, Leaves, Walks
    <3> QED BY <1>2, <1>4, <2>r, <3>1, <3>2, <3>3, <3>4 DEF QuietOK, Runs, Locks, Shape, Starts, Leaves, Walks
  <2> QED BY <2>2, QuietStep
<1> QED BY <1>3, <1>4

LEMMA DecideKeeps ==
    ASSUME LazyInv, NEW t \in Threads, NEW f, f = Top(t), Runs(t, f), f.at \in {"eval", "cas"},
           heap.shared \/ hdr[f.b].blocked, Decide(t), UNCHANGED data
    PROVE  LazyInv'
<1>1. f = Top(t)
  OBVIOUS
<1>2. Runs(t, f) /\ f.at \in {"eval", "cas"} /\ UNCHANGED data /\ (heap.shared \/ hdr[f.b].blocked)
  OBVIOUS
<1>f. f = [b |-> f.b, at |-> f.at, own |-> f.own, res |-> f.res, lock |-> f.lock, h |-> f.h]
  BY <1>2 DEF Runs
<1>3. CASE Tag(f.b) # "lazy"
  <2>1. PICK f2 : f2 = [f EXCEPT !.at = "match", !.h = hdr[f.b]]
    OBVIOUS
  <2>r. f2 = [b |-> f.b, at |-> "match", own |-> f.own, res |-> f.res, lock |-> f.lock, h |-> hdr[f.b]]
    BY <1>f, <2>1
  <2>2. QuietOK(t, f, f2)
    <3>1. Set(t, f2)
      BY <1>1, <1>2, <1>3, <2>1 DEF Decide, Tag
    <3>2. f2 \in FrameSet
      BY <1>2, <1>3, <2>r DEF Loaded, Runs, FrameSet, Points, Shape, Owned, Starts, Leaves, Walks
    <3>3. FrameOK(f2)
      BY <1>2, <1>3, <2>r DEF Tag, Runs, FrameOK, Shape, Owned, Evaluates, Follows, Locks, Starts, Leaves, Walks
    <3>4. \A b \in Blocks : Count(f2, b) = Count(f, b)
      BY <1>2, <1>3, <2>r DEF Runs, Count, Shape, Owned, Starts, Leaves, Walks
    <3> QED BY <1>2, <1>3, <2>r, <3>1, <3>2, <3>3, <3>4 DEF QuietOK, Runs, Locks, Shape, Starts, Leaves, Walks
  <2> QED BY <2>2, QuietStep
<1>4. CASE Tag(f.b) = "lazy" /\ hdr[f.b].blocked
  <2>1. PICK f2 : f2 = [f EXCEPT !.at = "wait", !.h = hdr[f.b]]
    OBVIOUS
  <2>r. f2 = [b |-> f.b, at |-> "wait", own |-> f.own, res |-> f.res, lock |-> f.lock, h |-> hdr[f.b]]
    BY <1>f, <2>1
  <2>2. QuietOK(t, f, f2)
    <3>1. Set(t, f2)
      BY <1>1, <1>2, <1>4, <2>1 DEF Decide, Tag
    <3>2. f2 \in FrameSet
      BY <1>2, <1>4, <2>r DEF Loaded, Runs, FrameSet, Points, Shape, Owned, Starts, Leaves, Walks
    <3>3. FrameOK(f2)
      BY <1>2, <1>4, <2>r DEF Tag, Runs, FrameOK, Shape, Owned, Evaluates, Follows, Locks, Starts, Leaves, Walks
    <3>4. \A b \in Blocks : Count(f2, b) = Count(f, b)
      BY <1>2, <1>4, <2>r DEF Runs, Count, Shape, Owned, Starts, Leaves, Walks
    <3> QED BY <1>2, <1>4, <2>r, <3>1, <3>2, <3>3, <3>4 DEF QuietOK, Runs, Locks, Shape, Starts, Leaves, Walks
  <2> QED BY <2>2, QuietStep
<1>5. CASE Tag(f.b) = "lazy" /\ ~hdr[f.b].blocked
  <2>1. PICK f2 : f2 = [f EXCEPT !.at = "cas", !.h = hdr[f.b]]
    OBVIOUS
  <2>r. f2 = [b |-> f.b, at |-> "cas", own |-> f.own, res |-> f.res, lock |-> f.lock, h |-> hdr[f.b]]
    BY <1>f, <2>1
  <2>2. QuietOK(t, f, f2)
    <3>1. Set(t, f2)
      BY <1>1, <1>2, <1>5, <2>1 DEF Decide, Tag
    <3>2. f2 \in FrameSet
      BY <1>2, <1>5, <2>r DEF Loaded, Runs, FrameSet, Points, Shape, Owned, Starts, Leaves, Walks
    <3>3. FrameOK(f2)
      BY <1>2, <1>5, <2>r DEF Tag, Runs, FrameOK, Shape, Owned, Evaluates, Follows, Locks, Starts, Leaves, Walks
    <3>4. \A b \in Blocks : Count(f2, b) = Count(f, b)
      BY <1>2, <1>5, <2>r DEF Runs, Count, Shape, Owned, Starts, Leaves, Walks
    <3> QED BY <1>2, <1>5, <2>r, <3>1, <3>2, <3>3, <3>4 DEF QuietOK, Runs, Locks, Shape, Starts, Leaves, Walks
  <2> QED BY <2>2, QuietStep
<1> QED BY <1>3, <1>4, <1>5

LEMMA EnterLoadKeeps ==
    ASSUME LazyInv, NEW t \in Threads, EnterLoad(t) PROVE LazyInv'
<1>1. PICK f : f = Top(t)
  OBVIOUS
<1>2. Runs(t, f) /\ f.at = "eval"
  BY <1>1, Running DEF EnterLoad
<1> QED BY <1>1, <1>2, DecideKeeps DEF EnterLoad

LEMMA EnterRetryKeeps ==
    ASSUME LazyInv, NEW t \in Threads, EnterRetry(t) PROVE LazyInv'
<1>1. PICK f : f = Top(t)
  OBVIOUS
<1>2. Runs(t, f) /\ f.at = "cas"
  BY <1>1, Running DEF EnterRetry
<1>3. heap.shared
  BY <1>2 DEF Runs, Follows
<1> QED BY <1>1, <1>2, <1>3, DecideKeeps DEF EnterRetry

LEMMA WaitKeeps ==
    ASSUME LazyInv, NEW t \in Threads, Wait(t) PROVE LazyInv'
<1>1. PICK f : f = Top(t)
  OBVIOUS
<1>2. Runs(t, f) /\ f.at = "wait" /\ UNCHANGED data
  BY <1>1, Running DEF Wait
<1>f. f = [b |-> f.b, at |-> f.at, own |-> f.own, res |-> f.res, lock |-> f.lock, h |-> f.h]
  BY <1>2 DEF Runs
<1>3. CASE ~hdr[f.b].blocked
  <2>1. PICK f2 : f2 = [f EXCEPT !.at = "match"]
    OBVIOUS
  <2>r. f2 = [b |-> f.b, at |-> "match", own |-> f.own, res |-> f.res, lock |-> f.lock, h |-> f.h]
    BY <1>f, <2>1
  <2>2. QuietOK(t, f, f2)
    <3>1. Set(t, f2)
      BY <1>1, <1>2, <1>3, <2>1 DEF Wait, Go
    <3>2. f2 \in FrameSet
      BY <1>2, <1>3, <2>r DEF Runs, FrameSet, Points, Shape, Owned, Starts, Leaves, Walks
    <3>3. FrameOK(f2)
      BY <1>2, <1>3, <2>r DEF Runs, FrameOK, Shape, Owned, Evaluates, Follows, Locks, Starts, Leaves, Walks
    <3>4. \A b \in Blocks : Count(f2, b) = Count(f, b)
      BY <1>2, <1>3, <2>r DEF Runs, Count, Shape, Owned, Starts, Leaves, Walks
    <3> QED BY <1>2, <1>3, <2>r, <3>1, <3>2, <3>3, <3>4 DEF QuietOK, Runs, Locks, Shape, Starts, Leaves, Walks
  <2> QED BY <2>2, QuietStep
<1> QED BY <1>1, <1>3 DEF Wait

LEMMA MatchWhnfKeeps ==
    ASSUME LazyInv, NEW t \in Threads, MatchWhnf(t) PROVE LazyInv'
<1>1. PICK f : f = Top(t)
  OBVIOUS
<1>2. Runs(t, f) /\ f.at = "match" /\ UNCHANGED data
  BY <1>1, Running DEF MatchWhnf
<1>f. f = [b |-> f.b, at |-> f.at, own |-> f.own, res |-> f.res, lock |-> f.lock, h |-> f.h]
  BY <1>2 DEF Runs
<1>3. CASE Tag(f.b) = "whnf" /\ f.lock
  <2>1. PICK f2 : f2 = [f EXCEPT !.at = EvalDone(f), !.own = @ - 1, !.res = f.b]
    OBVIOUS
  <2>r. f2 = [b |-> f.b, at |-> "leave", own |-> 1, res |-> f.b, lock |-> f.lock, h |-> f.h]
    <3>1. EvalDone(f) = "leave" /\ f.own - 1 = 1
      BY <1>2, <1>3 DEF Runs, EvalDone, Shape, Owned, Starts, Leaves, Walks
    <3> QED BY <1>f, <2>1, <3>1
  <2>2. QuietOK(t, f, f2)
    <3>1. Set(t, f2)
      BY <1>1, <1>2, <1>3, <2>1 DEF MatchWhnf
    <3>2. f2 \in FrameSet
      BY <1>2, <1>3, <2>r DEF Runs, FrameSet, Points, Shape, Owned, Starts, Leaves, Walks
    <3>3. FrameOK(f2)
      BY <1>2, <1>3, <2>r DEF Runs, FrameOK, Shape, Owned, Evaluates, Follows, Locks, Starts, Leaves, Walks
    <3>4. \A b \in Blocks : Count(f2, b) = Count(f, b)
      BY <1>2, <1>3, <2>r DEF Runs, Count, Shape, Owned, Starts, Leaves, Walks
    <3> QED BY <1>2, <1>3, <2>r, <3>1, <3>2, <3>3, <3>4 DEF QuietOK, Runs, Locks, Shape, Starts, Leaves, Walks
  <2> QED BY <2>2, QuietStep
<1>4. CASE Tag(f.b) = "whnf" /\ ~f.lock
  <2>1. PICK f2 : f2 = [f EXCEPT !.at = EvalDone(f), !.own = @ - 1, !.res = f.b]
    OBVIOUS
  <2>r. f2 = [b |-> f.b, at |-> "return", own |-> 0, res |-> f.b, lock |-> f.lock, h |-> f.h]
    <3>1. EvalDone(f) = "return" /\ f.own - 1 = 0
      BY <1>2, <1>4 DEF Runs, EvalDone, Shape, Owned, Starts, Leaves, Walks
    <3> QED BY <1>f, <2>1, <3>1
  <2>2. QuietOK(t, f, f2)
    <3>1. Set(t, f2)
      BY <1>1, <1>2, <1>4, <2>1 DEF MatchWhnf
    <3>2. f2 \in FrameSet
      BY <1>2, <1>4, <2>r DEF Runs, FrameSet, Points, Shape, Owned, Starts, Leaves, Walks
    <3>3. FrameOK(f2)
      BY <1>2, <1>4, <2>r DEF Runs, FrameOK, Shape, Owned, Evaluates, Follows, Locks, Starts, Leaves, Walks
    <3>4. \A b \in Blocks : Count(f2, b) = Count(f, b)
      BY <1>2, <1>4, <2>r DEF Runs, Count, Shape, Owned, Starts, Leaves, Walks
    <3> QED BY <1>2, <1>4, <2>r, <3>1, <3>2, <3>3, <3>4 DEF QuietOK, Runs, Locks, Shape, Starts, Leaves, Walks
  <2> QED BY <2>2, QuietStep
<1> QED BY <1>1, <1>3, <1>4 DEF MatchWhnf

LEMMA CompressKeeps ==
    ASSUME LazyInv, NEW t \in Threads, Compress(t) PROVE LazyInv'
<1>1. PICK f : f = Top(t)
  OBVIOUS
<1>2. Runs(t, f) /\ f.at = "compress" /\ UNCHANGED data
  BY <1>1, Running DEF Compress
<1>f. f = [b |-> f.b, at |-> f.at, own |-> f.own, res |-> f.res, lock |-> f.lock, h |-> f.h]
  BY <1>2 DEF Runs
<1>3. CASE Tag(f.res) = "ind"
  <2>a. f.res \in Blocks /\ (Tag(f.res) = "ind" => f.res \in heap.next /\ field[f.res] \in Blocks)
    BY <1>2 DEF Runs, Shape, LazyInv, Thunks, Walks
  <2>b. Leads(hdr, field, f.res, field[f.res])
    BY <1>3 DEF Leads, Closed, Tag
  <2>1. PICK f2 : f2 = [f EXCEPT !.at = "find", !.h = field[f.res]]
    OBVIOUS
  <2>r. f2 = [b |-> f.b, at |-> "find", own |-> f.own, res |-> f.res, lock |-> f.lock, h |-> field[f.res]]
    BY <1>f, <2>1
  <2>2. QuietOK(t, f, f2)
    <3>1. Set(t, f2)
      BY <1>1, <1>2, <1>3, <2>1, <2>a, <2>b DEF Compress
    <3>2. f2 \in FrameSet
      BY <1>2, <1>3, <2>r, <2>a, <2>b DEF Loaded, Runs, FrameSet, Points, Shape, Owned, Starts, Leaves, Walks
    <3>3. FrameOK(f2)
      BY <1>2, <1>3, <2>r, <2>a, <2>b DEF Runs, FrameOK, Shape, Owned, Evaluates, Follows, Locks, Starts, Leaves, Walks
    <3>4. \A b \in Blocks : Count(f2, b) = Count(f, b)
      BY <1>2, <1>3, <2>r, <2>a, <2>b DEF Runs, Count, Shape, Owned, Starts, Leaves, Walks
    <3> QED BY <1>2, <1>3, <2>r, <2>a, <2>b, <3>1, <3>2, <3>3, <3>4 DEF QuietOK, Runs, Locks, Shape, Starts, Leaves, Walks
  <2> QED BY <2>2, QuietStep
<1>4. CASE Tag(f.res) # "ind" /\ f.lock
  <2>1. PICK f2 : f2 = [f EXCEPT !.at = "leave"]
    OBVIOUS
  <2>r. f2 = [b |-> f.b, at |-> "leave", own |-> f.own, res |-> f.res, lock |-> f.lock, h |-> f.h]
    BY <1>f, <2>1
  <2>2. QuietOK(t, f, f2)
    <3>1. Set(t, f2)
      BY <1>1, <1>2, <1>4, <2>1 DEF Compress, Go, EvalDone
    <3>2. f2 \in FrameSet
      BY <1>2, <1>4, <2>r DEF Runs, FrameSet, Points, Shape, Owned, Starts, Leaves, Walks
    <3>3. FrameOK(f2)
      BY <1>2, <1>4, <2>r DEF Runs, FrameOK, Shape, Owned, Evaluates, Follows, Locks, Starts, Leaves, Walks
    <3>4. \A b \in Blocks : Count(f2, b) = Count(f, b)
      BY <1>2, <1>4, <2>r DEF Runs, Count, Shape, Owned, Starts, Leaves, Walks
    <3> QED BY <1>2, <1>4, <2>r, <3>1, <3>2, <3>3, <3>4 DEF QuietOK, Runs, Locks, Shape, Starts, Leaves, Walks
  <2> QED BY <2>2, QuietStep
<1>5. CASE Tag(f.res) # "ind" /\ ~f.lock
  <2>1. PICK f2 : f2 = [f EXCEPT !.at = "return"]
    OBVIOUS
  <2>r. f2 = [b |-> f.b, at |-> "return", own |-> f.own, res |-> f.res, lock |-> f.lock, h |-> f.h]
    BY <1>f, <2>1
  <2>2. QuietOK(t, f, f2)
    <3>1. Set(t, f2)
      BY <1>1, <1>2, <1>5, <2>1 DEF Compress, Go, EvalDone
    <3>2. f2 \in FrameSet
      BY <1>2, <1>5, <2>r DEF Runs, FrameSet, Points, Shape, Owned, Starts, Leaves, Walks
    <3>3. FrameOK(f2)
      BY <1>2, <1>5, <2>r DEF Runs, FrameOK, Shape, Owned, Evaluates, Follows, Locks, Starts, Leaves, Walks
    <3>4. \A b \in Blocks : Count(f2, b) = Count(f, b)
      BY <1>2, <1>5, <2>r DEF Runs, Count, Shape, Owned, Starts, Leaves, Walks
    <3> QED BY <1>2, <1>5, <2>r, <3>1, <3>2, <3>3, <3>4 DEF QuietOK, Runs, Locks, Shape, Starts, Leaves, Walks
  <2> QED BY <2>2, QuietStep
<1> QED BY <1>3, <1>4, <1>5

LEMMA FindKeeps ==
    ASSUME LazyInv, NEW t \in Threads, Find(t) PROVE LazyInv'
<1>1. PICK f : f = Top(t)
  OBVIOUS
<1>2. Runs(t, f) /\ f.at = "find" /\ UNCHANGED data
  BY <1>1, Running DEF Find
<1>f. f = [b |-> f.b, at |-> f.at, own |-> f.own, res |-> f.res, lock |-> f.lock, h |-> f.h]
  BY <1>2 DEF Runs
<1>3. CASE Tag(f.h) = "ind"
  <2>a. f.h \in Blocks /\ field[f.h] \in Blocks
    BY <1>2, <1>3 DEF Runs, Follows, LazyInv, Thunks, Walks
  <2>b. Leads(hdr, field, f.res, f.h)
    BY <1>2 DEF Runs, Follows, Walks
  <2>c. Leads(hdr, field, f.res, field[f.h])
    BY <1>3, <2>b DEF Leads, Closed, Tag
  <2>1. PICK f2 : f2 = [f EXCEPT !.h = field[f.h]]
    OBVIOUS
  <2>r. f2 = [b |-> f.b, at |-> f.at, own |-> f.own, res |-> f.res, lock |-> f.lock, h |-> field[f.h]]
    BY <1>f, <2>1
  <2>2. QuietOK(t, f, f2)
    <3>1. Set(t, f2)
      BY <1>1, <1>2, <1>3, <2>1, <2>a, <2>b, <2>c DEF Find
    <3>2. f2 \in FrameSet
      BY <1>2, <1>3, <2>r, <2>a, <2>b, <2>c DEF Loaded, Runs, FrameSet, Points, Shape, Owned, Starts, Leaves, Walks
    <3>3. FrameOK(f2)
      BY <1>2, <1>3, <2>r, <2>a, <2>b, <2>c DEF Runs, FrameOK, Shape, Owned, Evaluates, Follows, Locks, Starts, Leaves, Walks
    <3>4. \A b \in Blocks : Count(f2, b) = Count(f, b)
      BY <1>2, <1>3, <2>r, <2>a, <2>b, <2>c DEF Runs, Count, Shape, Owned, Starts, Leaves, Walks
    <3> QED BY <1>2, <1>3, <2>r, <2>a, <2>b, <2>c, <3>1, <3>2, <3>3, <3>4 DEF QuietOK, Runs, Locks, Shape, Starts, Leaves, Walks
  <2> QED BY <2>2, QuietStep
<1>4. CASE Tag(f.h) # "ind"
  <2>1. PICK f2 : f2 = [f EXCEPT !.at = "walk"]
    OBVIOUS
  <2>r. f2 = [b |-> f.b, at |-> "walk", own |-> f.own, res |-> f.res, lock |-> f.lock, h |-> f.h]
    BY <1>f, <2>1
  <2>2. QuietOK(t, f, f2)
    <3>1. Set(t, f2)
      BY <1>1, <1>2, <1>4, <2>1 DEF Find, Go
    <3>2. f2 \in FrameSet
      BY <1>2, <1>4, <2>r DEF Runs, FrameSet, Points, Shape, Owned, Starts, Leaves, Walks
    <3>3. FrameOK(f2)
      BY <1>2, <1>4, <2>r DEF Runs, FrameOK, Shape, Owned, Evaluates, Follows, Locks, Starts, Leaves, Walks
    <3>4. \A b \in Blocks : Count(f2, b) = Count(f, b)
      BY <1>2, <1>4, <2>r DEF Runs, Count, Shape, Owned, Starts, Leaves, Walks
    <3> QED BY <1>2, <1>4, <2>r, <3>1, <3>2, <3>3, <3>4 DEF QuietOK, Runs, Locks, Shape, Starts, Leaves, Walks
  <2> QED BY <2>2, QuietStep
<1> QED BY <1>3, <1>4

LEMMA LeaveLoadKeeps ==
    ASSUME LazyInv, NEW t \in Threads, LeaveLoad(t) PROVE LazyInv'
<1>1. PICK f : f = Top(t)
  OBVIOUS
<1>2. Runs(t, f) /\ f.at \in {"leave", "leave_cas"} /\ UNCHANGED data
  BY <1>1, Running DEF LeaveLoad
<1>f. f = [b |-> f.b, at |-> f.at, own |-> f.own, res |-> f.res, lock |-> f.lock, h |-> f.h]
  BY <1>2 DEF Runs
<1>3. CASE TRUE
  <2>1. PICK f2 : f2 = [f EXCEPT !.at = "leave_cas", !.h = hdr[f.b]]
    OBVIOUS
  <2>r. f2 = [b |-> f.b, at |-> "leave_cas", own |-> f.own, res |-> f.res, lock |-> f.lock, h |-> hdr[f.b]]
    BY <1>f, <2>1
  <2>2. QuietOK(t, f, f2)
    <3>1. Set(t, f2)
      BY <1>1, <1>2, <1>3, <2>1 DEF LeaveLoad
    <3>2. f2 \in FrameSet
      BY <1>2, <1>3, <2>r DEF Loaded, Runs, FrameSet, Points, Shape, Owned, Starts, Leaves, Walks
    <3>3. FrameOK(f2)
      BY <1>2, <1>3, <2>r DEF Runs, FrameOK, Shape, Owned, Evaluates, Follows, Locks, Starts, Leaves, Walks
    <3>4. \A b \in Blocks : Count(f2, b) = Count(f, b)
      BY <1>2, <1>3, <2>r DEF Runs, Count, Shape, Owned, Starts, Leaves, Walks
    <3> QED BY <1>2, <1>3, <2>r, <3>1, <3>2, <3>3, <3>4 DEF QuietOK, Runs, Locks, Shape, Starts, Leaves, Walks
  <2> QED BY <2>2, QuietStep
<1> QED BY <1>3

---------------------------------------------------------------------------
(* Steps that change headers and fields.                                    *)
DataOK(f) == DataTypes' /\ Thunks' /\ \A b \in Blocks : FairBlock(b, Has(f, b), Own(f, b))

(* What a frame has is not free.                                            *)
LEMMA HasLive ==
    ASSUME LazyInv, NEW t \in Threads, NEW f, Runs(t, f), NEW x \in Blocks, Has(f, x)
    PROVE  hdr[x].rc >= 1 /\ hdr[x].rc \in Nat /\ Tag(x) # "free"
<1>1. /\ hdr[x] \in Header /\ Count(f, x) \in Nat
      /\ \A c \in Blocks : hdr[x].rc >= Count(f, x) + Points1(field, c, x)
  BY TopKnows DEF Runs
<1>2. PICK c \in Blocks : Count(f, x) >= 1 \/ field[c] = x
  BY DEF Has
<1>3. Points1(field, c, x) \in 0..1 /\ (field[c] = x => Points1(field, c, x) = 1)
  BY DEF Points1
<1>4. hdr[x].rc >= 1 /\ hdr[x].rc \in Nat
  BY <1>1, <1>2, <1>3 DEF Header
<1> QED BY <1>4 DEF LazyInv, Thunks

Values ==
    /\ hdr \in [Blocks -> Header] /\ field \in [Blocks -> Blocks \cup {None}]
    /\ evals \in [Blocks -> 0..1] /\ heap \in Heaps /\ heap.next \subseteq Blocks /\ None \notin Blocks
LEMMA ValuesOK == ASSUME LazyInv PROVE Values
<1>1. heap \in Heaps
  BY DEF LazyInv, LazyTypes
<1>2. heap.next \subseteq Blocks
  BY <1>1, LazyAssumption
<1> QED BY <1>1, <1>2, LazyAssumption DEF LazyInv, LazyTypes, Values

(* A reference more or less to x.                                           *)
Counted(f, x, n) ==
    /\ DataOK(f)
    /\ \A b \in Blocks : /\ Tag(b)' = Tag(b) /\ hdr'[b].blocked = hdr[b].blocked
                         /\ hdr'[b].rc = hdr[b].rc + (IF b = x THEN n ELSE 0)

LEMMA WithData ==
    ASSUME LazyInv, NEW t \in Threads, NEW f, Runs(t, f), NEW x \in Blocks, Has(f, x), NEW n \in Int,
           hdr' = With(x, n), field' = field, evals' = evals, heap' = heap
    PROVE  Counted(f, x, n)
<1>1. Values
  BY ValuesOK
<1>2. \A b \in Blocks :
        /\ hdr'[b].tag = hdr[b].tag /\ hdr'[b].blocked = hdr[b].blocked
        /\ hdr'[b].rc = hdr[b].rc + (IF b = x THEN n ELSE 0)
        /\ hdr'[b] \in [tag : {"lazy", "whnf", "ind", "free"}, blocked : BOOLEAN, rc : Int]
        /\ b # x => hdr'[b] = hdr[b]
  BY <1>1 DEF With, Values, Header
<1>3. DataTypes'
  BY <1>1, <1>2 DEF DataTypes, With, Values
<1>4. Thunks'
  <2>1. Tag(x) # "free"
    BY HasLive
  <2> QED BY <2>1, <1>2 DEF Thunks, Tag, LazyInv
<1>5. \A b \in Blocks : FairBlock(b, Has(f, b), Own(f, b))
  BY <1>2 DEF FairBlock, FairHeader, FairField
<1> QED BY <1>2, <1>3, <1>4, <1>5 DEF Counted, DataOK, Tag

(* The last reference to x, that f has, goes, and with it x.                *)
Released1(f, x) ==
    /\ DataOK(f)
    /\ hdr[x].rc = 1 /\ hdr'[x].rc = 0 /\ Tag(x)' = "free" /\ field'[x] = None
    /\ hdr'[x].blocked = hdr[x].blocked
    /\ \A b \in Blocks \ {x} : hdr'[b] = hdr[b] /\ field'[b] = field[b]

LEMMA FreedData ==
    ASSUME LazyInv, NEW t \in Threads, NEW f, Runs(t, f), NEW x \in Blocks, Has(f, x), hdr[x].rc <= 1,
           hdr' = Freed(x), field' = [field EXCEPT ![x] = None], heap' = heap,
           evals' \in [Blocks -> 0..1], \A b \in Blocks : evals'[b] = evals[b] \/ Own(f, b)
    PROVE  Released1(f, x)
<1>1. Values
  BY ValuesOK
<1>2. hdr[x].rc = 1
  BY HasLive
<1>3. /\ hdr'[x].tag = "free" /\ hdr'[x].rc = 0 /\ hdr'[x].blocked = hdr[x].blocked
      /\ \A b \in Blocks \ {x} : hdr'[b] = hdr[b] /\ field'[b] = field[b]
      /\ field'[x] = None /\ field' \in [Blocks -> Blocks \cup {None}]
  BY <1>1 DEF Freed, Values, Header
<1>4. \A b \in Blocks : hdr'[b] \in [tag : {"lazy", "whnf", "ind", "free"}, blocked : BOOLEAN, rc : Int]
  <2>1. hdr[x] = [tag |-> hdr[x].tag, blocked |-> hdr[x].blocked, rc |-> hdr[x].rc] /\ hdr[x].blocked \in BOOLEAN
    BY <1>1 DEF Values, Header
  <2>2. hdr'[x] = [tag |-> "free", blocked |-> hdr[x].blocked, rc |-> 0]
    BY <2>1, <1>1 DEF Values, Freed
  <2>3. \A b \in Blocks : hdr[b] \in [tag : {"lazy", "whnf", "ind", "free"}, blocked : BOOLEAN, rc : Int]
    BY <1>1 DEF Values, Header
  <2> QED BY <2>1, <2>2, <2>3, <1>3
<1>5. DataTypes'
  BY <1>1, <1>3, <1>4 DEF DataTypes, Freed, Values
<1>6. Thunks'
  <2>1. None \notin heap.next
    BY <1>1 DEF Values
  <2> QED BY <2>1, <1>3 DEF Thunks, Tag, LazyInv
<1>7. \A b \in Blocks : FairBlock(b, Has(f, b), Own(f, b))
  BY <1>3 DEF FairBlock, FairHeader, FairField
<1> QED BY <1>2, <1>3, <1>5, <1>6, <1>7 DEF Released1, DataOK, Tag

(* The thunk of f is blocked or unblocked.                                  *)
Marked(f, v) ==
    /\ DataOK(f) /\ hdr'[f.b].blocked = v
    /\ \A b \in Blocks : Tag(b)' = Tag(b) /\ hdr'[b].rc = hdr[b].rc

LEMMA BlockedData ==
    ASSUME LazyInv, NEW t \in Threads, NEW f, Runs(t, f), NEW v \in BOOLEAN,
           v \/ (Has(f, f.b) /\ Locks(f) /\ Tag(f.b) # "lazy"),
           hdr' = Blocked(f.b, v), field' = field, evals' = evals, heap' = heap
    PROVE  Marked(f, v)
<1>1. Values /\ f.b \in Blocks
  BY ValuesOK DEF Runs
<1>2. /\ \A b \in Blocks :
           /\ hdr'[b].tag = hdr[b].tag /\ hdr'[b].rc = hdr[b].rc
           /\ hdr'[b] \in [tag : {"lazy", "whnf", "ind", "free"}, blocked : BOOLEAN, rc : Int]
           /\ b # f.b => hdr'[b] = hdr[b]
      /\ hdr'[f.b].blocked = v
  BY <1>1 DEF Blocked, Values, Header
<1>3. DataTypes'
  BY <1>1, <1>2 DEF DataTypes, Blocked, Values
<1>4. Thunks'
  BY <1>2 DEF Thunks, Tag, LazyInv
<1>5. \A b \in Blocks : FairBlock(b, Has(f, b), Own(f, b))
  BY <1>2 DEF FairBlock, FairHeader, FairField, Own, Tag
<1> QED BY <1>2, <1>3, <1>4, <1>5 DEF Marked, DataOK, Tag

(* Balances of a frame that stays the one that has what it has.             *)
LEMMA GainSame ==
    ASSUME NEW f \in FrameSet, NEW f2 \in FrameSet, NEW b \in Blocks, NEW c, field' = field, Values,
           hdr'[b].rc = hdr[b].rc + (Count(f2, b) - Count(f, b))
    PROVE  Gain(Count(f2, b) + Points1(field', c, b) - Count(f, b) - Points1(field, c, b), b)
<1>1. Count(f, b) \in 0..3 /\ Count(f2, b) \in 0..3 /\ Points1(field', c, b) = Points1(field, c, b)
  BY CountNat
<1>2. Points1(field, c, b) \in 0..1 /\ hdr[b].rc \in Nat
  BY DEF Points1, Values, Header
<1> DEFINE x == Count(f2, b) + Points1(field', c, b) - Count(f, b) - Points1(field, c, b)
<1>3. x = Count(f2, b) - Count(f, b) /\ x \in Int
  BY <1>1, <1>2
<1> HIDE DEF x
<1>4. Gain(x, b)
  BY <1>2, <1>3 DEF Gain
<1> QED BY <1>4 DEF x

LEMMA LastRef ==
    ASSUME LazyInv, NEW t \in Threads, NEW f, Runs(t, f), NEW x \in Blocks, Has(f, x), hdr[x].rc <= 1
    PROVE  /\ hdr[x].rc = 1 /\ Count(f, x) \in Nat /\ \A c \in Blocks : Points1(field, c, x) \in 0..1
           /\ \A c \in Blocks : Count(f, x) + Points1(field, c, x) <= 1
<1>1. hdr[x].rc = 1
  BY HasLive
<1>2. Count(f, x) \in Nat /\ \A c \in Blocks : hdr[x].rc >= Count(f, x) + Points1(field, c, x)
  BY TopKnows DEF Runs
<1>3. \A c \in Blocks : Points1(field, c, x) \in 0..1
  BY DEF Points1
<1> QED BY <1>1, <1>2, <1>3
(* Each action that blocks, unblocks or counts keeps LazyInv.               *)
LEMMA EvalUnsharedKeeps ==
    ASSUME LazyInv, NEW t \in Threads, EvalUnshared(t) PROVE LazyInv'
<1>1. PICK f : f = Top(t)
  OBVIOUS
<1>2. Runs(t, f) /\ f.at = "eval"
  BY <1>1, Running DEF EvalUnshared
<1>f. f = [b |-> f.b, at |-> f.at, own |-> f.own, res |-> f.res, lock |-> f.lock, h |-> f.h]
  BY <1>2 DEF Runs
<1>3. CASE Unique(f.b) /\ Go(t, "match") /\ UNCHANGED hdr
  <2>d. UNCHANGED data
    BY <1>3 DEF EvalUnshared, data
  <2>1. PICK f2 : f2 = [f EXCEPT !.at = "match"]
    OBVIOUS
  <2>r. f2 = [b |-> f.b, at |-> "match", own |-> f.own, res |-> f.res, lock |-> f.lock, h |-> f.h]
    BY <1>f, <2>1
  <2>2. QuietOK(t, f, f2)
    <3>1. Set(t, f2)
      BY <1>1, <1>2, <1>3, <2>1, <2>d DEF Go
    <3>2. f2 \in FrameSet
      BY <1>2, <1>3, <2>r, <2>d DEF Runs, FrameSet, Points, Shape, Owned, Starts, Leaves, Walks
    <3>3. FrameOK(f2)
      BY <1>2, <1>3, <2>r, <2>d DEF Runs, FrameOK, Shape, Owned, Evaluates, Follows, Locks, Starts, Leaves, Walks
    <3>4. \A b \in Blocks : Count(f2, b) = Count(f, b)
      BY <1>2, <1>3, <2>r, <2>d DEF Runs, Count, Shape, Owned, Starts, Leaves, Walks
    <3> QED BY <1>2, <1>3, <2>r, <2>d, <3>1, <3>2, <3>3, <3>4 DEF QuietOK, Runs, Locks, Shape, Starts, Leaves, Walks
  <2> QED BY <2>2, QuietStep
<1>4. CASE ~Unique(f.b) /\ ~hdr[f.b].blocked /\ hdr' = Blocked(f.b, TRUE) /\ Set(t, [f EXCEPT !.at = "dup", !.lock = TRUE])
  <2>1. PICK f2 : f2 = [f EXCEPT !.at = "dup", !.lock = TRUE]
    OBVIOUS
  <2>r. f2 = [b |-> f.b, at |-> "dup", own |-> f.own, res |-> f.res, lock |-> TRUE, h |-> f.h]
    BY <1>f, <2>1
  <2>2. Marked(f, TRUE)
    BY <1>2, <1>4, BlockedData DEF EvalUnshared
  <2>3. Set(t, f2) /\ heap' = heap /\ todo' = todo /\ evals' = evals
    BY <1>1, <1>2, <1>4, <2>1 DEF EvalUnshared, Go
  <2>4. f2 \in FrameSet
    BY <1>2, <1>4, <2>r DEF Runs, FrameSet, Points, Shape, Owned, Starts, Leaves, Walks
  <2>5. FrameOK(f2)'
    BY <1>2, <1>4, <2>2, <2>3, <2>r DEF Marked, Runs, FrameOK, Shape, Owned, Evaluates, Follows, Locks, Starts, Leaves, Walks, Unique, Tag
  <2>6. \A b \in Blocks : Gain(Count(f2, b) + Points1(field', f.b, b) - Count(f, b) - Points1(field, f.b, b), b)
    <3> SUFFICES ASSUME NEW b \in Blocks
                 PROVE  Gain(Count(f2, b) + Points1(field', f.b, b) - Count(f, b) - Points1(field, f.b, b), b)
      OBVIOUS
    <3>1. Count(f2, b) - Count(f, b) = 0
      BY <1>2, <1>4, <2>r DEF Runs, Count, Shape, Owned, Starts, Leaves, Walks
    <3>2. hdr'[b].rc = hdr[b].rc + (Count(f2, b) - Count(f, b))
      BY <3>1, <2>2, <1>2, ValuesOK DEF Marked, Values, Header
    <3>3. field' = field
      BY <1>1, <1>2, <2>2, <1>4 DEF EvalUnshared, Go
    <3> QED BY <3>2, <3>3, <2>4, <1>2, ValuesOK, GainSame DEF Runs
  <2>7. SetOK(t, f, f2, f.b)
    <3>1. stack[t] # <<>> /\ f = Top(t)
      BY <1>2 DEF Runs
    <3>2. DataOK(f)
      BY <2>2 DEF Marked, Counted, Released1
    <3>3. \A d \in Blocks \ {f.b} : field'[d] = field[d]
      BY <1>1, <1>2, <1>4, <2>2 DEF EvalUnshared, Go, Released1
    <3>4. f.at # "drop" /\ (Locks(f2) => ~hdr[f2.b].blocked \/ (Locks(f) /\ f.b = f2.b))
      BY <1>2, <1>4, <2>r DEF Runs, Locks, Shape, Owned, Starts, Leaves, Walks
    <3>5. \A b \in Blocks : Tag(b)' = "lazy" /\ evals'[b] = 1 =>
           Evaluating(f2, b) \/ (Tag(b) = "lazy" /\ evals[b] = 1 /\ ~Evaluating(f, b))
      BY <1>2, <1>4, <2>2, <2>3 DEF Marked, Counted, Released1, Evaluating, Tag
    <3> QED BY <3>1, <3>2, <3>3, <3>4, <3>5, <2>3, <2>5, <2>6, Zenon DEF SetOK, DataOK
  <2>8. f2 \in FrameSet /\ f.b \in Blocks
    BY <2>4, <1>2 DEF Runs, Shape, Follows, Walks
  <2> QED BY <2>7, <2>8, SetStep
<1> QED BY <1>1, <1>3, <1>4 DEF EvalUnshared

LEMMA EnterCasKeeps ==
    ASSUME LazyInv, NEW t \in Threads, EnterCas(t) PROVE LazyInv'
<1>1. PICK f : f = Top(t)
  OBVIOUS
<1>2. Runs(t, f) /\ f.at = "cas"
  BY <1>1, Running DEF EnterCas
<1>f. f = [b |-> f.b, at |-> f.at, own |-> f.own, res |-> f.res, lock |-> f.lock, h |-> f.h]
  BY <1>2 DEF Runs
<1>3. LazyInv'
  <2>b. ~hdr[f.b].blocked
    BY <1>1, <1>2 DEF EnterCas, Runs, Follows
  <2>1. PICK f2 : f2 = [f EXCEPT !.at = "dup", !.lock = TRUE]
    OBVIOUS
  <2>r. f2 = [b |-> f.b, at |-> "dup", own |-> f.own, res |-> f.res, lock |-> TRUE, h |-> f.h]
    BY <1>f, <2>1
  <2>2. Marked(f, TRUE)
    BY <1>1, <1>2, BlockedData DEF EnterCas
  <2>3. Set(t, f2) /\ heap' = heap /\ todo' = todo /\ evals' = evals
    BY <1>1, <1>2, <2>1, <2>b DEF EnterCas, Go
  <2>4. f2 \in FrameSet
    BY <1>2, <2>r, <2>b DEF Runs, FrameSet, Points, Shape, Owned, Starts, Leaves, Walks
  <2>5. FrameOK(f2)'
    BY <1>2, <2>2, <2>3, <2>r, <2>b DEF Marked, Runs, FrameOK, Shape, Owned, Evaluates, Follows, Locks, Starts, Leaves, Walks, Unique, Tag
  <2>6. \A b \in Blocks : Gain(Count(f2, b) + Points1(field', f.b, b) - Count(f, b) - Points1(field, f.b, b), b)
    <3> SUFFICES ASSUME NEW b \in Blocks
                 PROVE  Gain(Count(f2, b) + Points1(field', f.b, b) - Count(f, b) - Points1(field, f.b, b), b)
      OBVIOUS
    <3>1. Count(f2, b) - Count(f, b) = 0
      BY <1>2, <2>r, <2>b DEF Runs, Count, Shape, Owned, Starts, Leaves, Walks
    <3>2. hdr'[b].rc = hdr[b].rc + (Count(f2, b) - Count(f, b))
      BY <3>1, <2>2, <1>2, ValuesOK DEF Marked, Values, Header
    <3>3. field' = field
      BY <1>1, <1>2, <2>2, <2>b DEF EnterCas, Go
    <3> QED BY <3>2, <3>3, <2>4, <1>2, ValuesOK, GainSame DEF Runs
  <2>7. SetOK(t, f, f2, f.b)
    <3>1. stack[t] # <<>> /\ f = Top(t)
      BY <1>2 DEF Runs
    <3>2. DataOK(f)
      BY <2>2 DEF Marked, Counted, Released1
    <3>3. \A d \in Blocks \ {f.b} : field'[d] = field[d]
      BY <1>1, <1>2, <2>2 DEF EnterCas, Go, Released1
    <3>4. f.at # "drop" /\ (Locks(f2) => ~hdr[f2.b].blocked \/ (Locks(f) /\ f.b = f2.b))
      BY <1>2, <2>r, <2>b DEF Runs, Locks, Shape, Owned, Starts, Leaves, Walks
    <3>5. \A b \in Blocks : Tag(b)' = "lazy" /\ evals'[b] = 1 =>
           Evaluating(f2, b) \/ (Tag(b) = "lazy" /\ evals[b] = 1 /\ ~Evaluating(f, b))
      BY <1>2, <2>2, <2>3 DEF Marked, Counted, Released1, Evaluating, Tag
    <3> QED BY <3>1, <3>2, <3>3, <3>4, <3>5, <2>3, <2>5, <2>6, Zenon DEF SetOK, DataOK
  <2>8. f2 \in FrameSet /\ f.b \in Blocks
    BY <2>4, <1>2, <2>b DEF Runs, Shape, Follows, Walks
  <2> QED BY <2>7, <2>8, SetStep
<1> QED BY <1>3

LEMMA LeaveUnsharedKeeps ==
    ASSUME LazyInv, NEW t \in Threads, LeaveUnshared(t) PROVE LazyInv'
<1>1. PICK f : f = Top(t)
  OBVIOUS
<1>2. Runs(t, f) /\ f.at = "leave"
  BY <1>1, Running DEF LeaveUnshared
<1>f. f = [b |-> f.b, at |-> f.at, own |-> f.own, res |-> f.res, lock |-> f.lock, h |-> f.h]
  BY <1>2 DEF Runs
<1>3. LazyInv'
  <2>h. Has(f, f.b)
    BY <1>2 DEF Runs, Has, Count, Shape, Owned, Starts, Leaves, Walks
  <2>b. Locks(f) /\ Tag(f.b) # "lazy"
    BY <1>2 DEF Runs, Evaluates, Locks, Shape, Owned, Starts, Leaves, Walks
  <2>1. PICK f2 : f2 = [f EXCEPT !.at = "leave_drop"]
    OBVIOUS
  <2>r. f2 = [b |-> f.b, at |-> "leave_drop", own |-> f.own, res |-> f.res, lock |-> f.lock, h |-> f.h]
    BY <1>f, <2>1
  <2>2. Marked(f, FALSE)
    BY <1>1, <1>2, <2>h, <2>b, BlockedData DEF LeaveUnshared
  <2>3. Set(t, f2) /\ heap' = heap /\ todo' = todo /\ evals' = evals
    BY <1>1, <1>2, <2>1, <2>h, <2>b DEF LeaveUnshared, Go
  <2>4. f2 \in FrameSet
    BY <1>2, <2>r, <2>h, <2>b DEF Runs, FrameSet, Points, Shape, Owned, Starts, Leaves, Walks
  <2>5. FrameOK(f2)'
    BY <1>2, <2>2, <2>3, <2>r, <2>h, <2>b DEF Marked, Runs, FrameOK, Shape, Owned, Evaluates, Follows, Locks, Starts, Leaves, Walks, Unique, Tag
  <2>6. \A b \in Blocks : Gain(Count(f2, b) + Points1(field', f.b, b) - Count(f, b) - Points1(field, f.b, b), b)
    <3> SUFFICES ASSUME NEW b \in Blocks
                 PROVE  Gain(Count(f2, b) + Points1(field', f.b, b) - Count(f, b) - Points1(field, f.b, b), b)
      OBVIOUS
    <3>1. Count(f2, b) - Count(f, b) = 0
      BY <1>2, <2>r, <2>h, <2>b DEF Runs, Count, Shape, Owned, Starts, Leaves, Walks
    <3>2. hdr'[b].rc = hdr[b].rc + (Count(f2, b) - Count(f, b))
      BY <3>1, <2>2, <1>2, ValuesOK DEF Marked, Values, Header
    <3>3. field' = field
      BY <1>1, <1>2, <2>2, <2>h, <2>b DEF LeaveUnshared, Go
    <3> QED BY <3>2, <3>3, <2>4, <1>2, ValuesOK, GainSame DEF Runs
  <2>7. SetOK(t, f, f2, f.b)
    <3>1. stack[t] # <<>> /\ f = Top(t)
      BY <1>2 DEF Runs
    <3>2. DataOK(f)
      BY <2>2 DEF Marked, Counted, Released1
    <3>3. \A d \in Blocks \ {f.b} : field'[d] = field[d]
      BY <1>1, <1>2, <2>2 DEF LeaveUnshared, Go, Released1
    <3>4. f.at # "drop" /\ (Locks(f2) => ~hdr[f2.b].blocked \/ (Locks(f) /\ f.b = f2.b))
      BY <1>2, <2>r, <2>h, <2>b DEF Runs, Locks, Shape, Owned, Starts, Leaves, Walks
    <3>5. \A b \in Blocks : Tag(b)' = "lazy" /\ evals'[b] = 1 =>
           Evaluating(f2, b) \/ (Tag(b) = "lazy" /\ evals[b] = 1 /\ ~Evaluating(f, b))
      BY <1>2, <2>2, <2>3 DEF Marked, Counted, Released1, Evaluating, Tag
    <3> QED BY <3>1, <3>2, <3>3, <3>4, <3>5, <2>3, <2>5, <2>6, Zenon DEF SetOK, DataOK
  <2>8. f2 \in FrameSet /\ f.b \in Blocks
    BY <2>4, <1>2, <2>h, <2>b DEF Runs, Shape, Follows, Walks
  <2> QED BY <2>7, <2>8, SetStep
<1> QED BY <1>3

LEMMA LeaveCasKeeps ==
    ASSUME LazyInv, NEW t \in Threads, LeaveCas(t) PROVE LazyInv'
<1>1. PICK f : f = Top(t)
  OBVIOUS
<1>2. Runs(t, f) /\ f.at = "leave_cas"
  BY <1>1, Running DEF LeaveCas
<1>f. f = [b |-> f.b, at |-> f.at, own |-> f.own, res |-> f.res, lock |-> f.lock, h |-> f.h]
  BY <1>2 DEF Runs
<1>3. LazyInv'
  <2>h. Has(f, f.b)
    BY <1>2 DEF Runs, Has, Count, Shape, Owned, Starts, Leaves, Walks
  <2>b. Locks(f) /\ Tag(f.b) # "lazy"
    BY <1>2 DEF Runs, Evaluates, Locks, Shape, Owned, Starts, Leaves, Walks
  <2>1. PICK f2 : f2 = [f EXCEPT !.at = "leave_drop"]
    OBVIOUS
  <2>r. f2 = [b |-> f.b, at |-> "leave_drop", own |-> f.own, res |-> f.res, lock |-> f.lock, h |-> f.h]
    BY <1>f, <2>1
  <2>2. Marked(f, FALSE)
    BY <1>1, <1>2, <2>h, <2>b, BlockedData DEF LeaveCas
  <2>3. Set(t, f2) /\ heap' = heap /\ todo' = todo /\ evals' = evals
    BY <1>1, <1>2, <2>1, <2>h, <2>b DEF LeaveCas, Go
  <2>4. f2 \in FrameSet
    BY <1>2, <2>r, <2>h, <2>b DEF Runs, FrameSet, Points, Shape, Owned, Starts, Leaves, Walks
  <2>5. FrameOK(f2)'
    BY <1>2, <2>2, <2>3, <2>r, <2>h, <2>b DEF Marked, Runs, FrameOK, Shape, Owned, Evaluates, Follows, Locks, Starts, Leaves, Walks, Unique, Tag
  <2>6. \A b \in Blocks : Gain(Count(f2, b) + Points1(field', f.b, b) - Count(f, b) - Points1(field, f.b, b), b)
    <3> SUFFICES ASSUME NEW b \in Blocks
                 PROVE  Gain(Count(f2, b) + Points1(field', f.b, b) - Count(f, b) - Points1(field, f.b, b), b)
      OBVIOUS
    <3>1. Count(f2, b) - Count(f, b) = 0
      BY <1>2, <2>r, <2>h, <2>b DEF Runs, Count, Shape, Owned, Starts, Leaves, Walks
    <3>2. hdr'[b].rc = hdr[b].rc + (Count(f2, b) - Count(f, b))
      BY <3>1, <2>2, <1>2, ValuesOK DEF Marked, Values, Header
    <3>3. field' = field
      BY <1>1, <1>2, <2>2, <2>h, <2>b DEF LeaveCas, Go
    <3> QED BY <3>2, <3>3, <2>4, <1>2, ValuesOK, GainSame DEF Runs
  <2>7. SetOK(t, f, f2, f.b)
    <3>1. stack[t] # <<>> /\ f = Top(t)
      BY <1>2 DEF Runs
    <3>2. DataOK(f)
      BY <2>2 DEF Marked, Counted, Released1
    <3>3. \A d \in Blocks \ {f.b} : field'[d] = field[d]
      BY <1>1, <1>2, <2>2 DEF LeaveCas, Go, Released1
    <3>4. f.at # "drop" /\ (Locks(f2) => ~hdr[f2.b].blocked \/ (Locks(f) /\ f.b = f2.b))
      BY <1>2, <2>r, <2>h, <2>b DEF Runs, Locks, Shape, Owned, Starts, Leaves, Walks
    <3>5. \A b \in Blocks : Tag(b)' = "lazy" /\ evals'[b] = 1 =>
           Evaluating(f2, b) \/ (Tag(b) = "lazy" /\ evals[b] = 1 /\ ~Evaluating(f, b))
      BY <1>2, <2>2, <2>3 DEF Marked, Counted, Released1, Evaluating, Tag
    <3> QED BY <3>1, <3>2, <3>3, <3>4, <3>5, <2>3, <2>5, <2>6, Zenon DEF SetOK, DataOK
  <2>8. f2 \in FrameSet /\ f.b \in Blocks
    BY <2>4, <1>2, <2>h, <2>b DEF Runs, Shape, Follows, Walks
  <2> QED BY <2>7, <2>8, SetStep
<1> QED BY <1>3

LEMMA DupSelfKeeps ==
    ASSUME LazyInv, NEW t \in Threads, DupSelf(t) PROVE LazyInv'
<1>1. PICK f : f = Top(t)
  OBVIOUS
<1>2. Runs(t, f) /\ f.at = "dup"
  BY <1>1, Running DEF DupSelf
<1>f. f = [b |-> f.b, at |-> f.at, own |-> f.own, res |-> f.res, lock |-> f.lock, h |-> f.h]
  BY <1>2 DEF Runs
<1>3. LazyInv'
  <2>h. Has(f, f.b)
    BY <1>2 DEF Runs, Has, Count, Shape, Owned, Starts, Leaves, Walks
  <2>1. PICK f2 : f2 = [f EXCEPT !.at = "match", !.own = 2]
    OBVIOUS
  <2>r. f2 = [b |-> f.b, at |-> "match", own |-> 2, res |-> f.res, lock |-> f.lock, h |-> f.h]
    BY <1>f, <2>1
  <2>2. Counted(f, f.b, 1)
    <3>1. hdr' = With(f.b, 1) /\ field' = field /\ evals' = evals /\ heap' = heap
      BY <1>1, <1>2 DEF DupSelf
    <3>2. 1 \in Int /\ f.b \in Blocks
      BY <1>2 DEF Runs, Shape, Walks
    <3> QED BY <1>2, <2>h, <3>1, <3>2, WithData
  <2>3. Set(t, f2) /\ heap' = heap /\ todo' = todo /\ evals' = evals
    BY <1>1, <1>2, <2>1, <2>h DEF DupSelf
  <2>4. f2 \in FrameSet
    BY <1>2, <2>r, <2>h DEF Runs, FrameSet, Points, Shape, Owned, Starts, Leaves, Walks
  <2>5. FrameOK(f2)'
    BY <1>2, <2>2, <2>3, <2>r, <2>h DEF Counted, Runs, FrameOK, Shape, Owned, Evaluates, Follows, Locks, Starts, Leaves, Walks, Unique, Tag
  <2>6. \A b \in Blocks : Gain(Count(f2, b) + Points1(field', f.b, b) - Count(f, b) - Points1(field, f.b, b), b)
    <3> SUFFICES ASSUME NEW b \in Blocks
                 PROVE  Gain(Count(f2, b) + Points1(field', f.b, b) - Count(f, b) - Points1(field, f.b, b), b)
      OBVIOUS
    <3>1. Count(f2, b) - Count(f, b) = IF b = f.b THEN 1 ELSE 0
      BY <1>2, <2>r, <2>h DEF Runs, Count, Shape, Owned, Starts, Leaves, Walks
    <3>2. hdr'[b].rc = hdr[b].rc + (Count(f2, b) - Count(f, b))
      BY <3>1, <2>2, <1>2, ValuesOK DEF Counted, Values, Header
    <3>3. field' = field
      BY <1>1, <1>2, <2>2, <2>h DEF DupSelf
    <3> QED BY <3>2, <3>3, <2>4, <1>2, ValuesOK, GainSame DEF Runs
  <2>7. SetOK(t, f, f2, f.b)
    <3>1. stack[t] # <<>> /\ f = Top(t)
      BY <1>2 DEF Runs
    <3>2. DataOK(f)
      BY <2>2 DEF Marked, Counted, Released1
    <3>3. \A d \in Blocks \ {f.b} : field'[d] = field[d]
      BY <1>1, <1>2, <2>2 DEF DupSelf, Released1
    <3>4. f.at # "drop" /\ (Locks(f2) => ~hdr[f2.b].blocked \/ (Locks(f) /\ f.b = f2.b))
      BY <1>2, <2>r, <2>h DEF Runs, Locks, Shape, Owned, Starts, Leaves, Walks
    <3>5. \A b \in Blocks : Tag(b)' = "lazy" /\ evals'[b] = 1 =>
           Evaluating(f2, b) \/ (Tag(b) = "lazy" /\ evals[b] = 1 /\ ~Evaluating(f, b))
      BY <1>2, <2>2, <2>3 DEF Marked, Counted, Released1, Evaluating, Tag
    <3> QED BY <3>1, <3>2, <3>3, <3>4, <3>5, <2>3, <2>5, <2>6, Zenon DEF SetOK, DataOK
  <2>8. f2 \in FrameSet /\ f.b \in Blocks
    BY <2>4, <1>2, <2>h DEF Runs, Shape, Follows, Walks
  <2> QED BY <2>7, <2>8, SetStep
<1> QED BY <1>3

LEMMA DecrefKeeps ==
    ASSUME LazyInv, NEW t \in Threads, Decref(t) PROVE LazyInv'
<1>1. PICK f : f = Top(t)
  OBVIOUS
<1>2. Runs(t, f) /\ f.at = "decref"
  BY <1>1, Running DEF Decref
<1>f. f = [b |-> f.b, at |-> f.at, own |-> f.own, res |-> f.res, lock |-> f.lock, h |-> f.h]
  BY <1>2 DEF Runs
<1>3. LazyInv'
  <2>h. Has(f, f.b)
    BY <1>2 DEF Runs, Has, Count, Shape, Owned, Starts, Leaves, Walks
  <2>1. PICK f2 : f2 = [f EXCEPT !.at = EvalDone(f), !.own = @ - 1]
    OBVIOUS
  <2>r. f2 = [b |-> f.b, at |-> "leave", own |-> 1, res |-> f.res, lock |-> f.lock, h |-> f.h]
    <3>1. EvalDone(f) = "leave" /\ f.own - 1 = 1
      BY <1>2, <2>h DEF Runs, EvalDone, Shape, Owned, Starts, Leaves, Walks
    <3> QED BY <1>f, <2>1, <3>1
  <2>2. Counted(f, f.b, -1)
    <3>1. hdr' = With(f.b, -1) /\ field' = field /\ evals' = evals /\ heap' = heap
      BY <1>1, <1>2 DEF Decref
    <3>2. -1 \in Int /\ f.b \in Blocks
      BY <1>2 DEF Runs, Shape, Walks
    <3> QED BY <1>2, <2>h, <3>1, <3>2, WithData
  <2>3. Set(t, f2) /\ heap' = heap /\ todo' = todo /\ evals' = evals
    BY <1>1, <1>2, <2>1, <2>h DEF Decref
  <2>4. f2 \in FrameSet
    BY <1>2, <2>r, <2>h DEF Runs, FrameSet, Points, Shape, Owned, Starts, Leaves, Walks
  <2>5. FrameOK(f2)'
    BY <1>2, <2>2, <2>3, <2>r, <2>h DEF Counted, Runs, FrameOK, Shape, Owned, Evaluates, Follows, Locks, Starts, Leaves, Walks, Unique, Tag
  <2>6. \A b \in Blocks : Gain(Count(f2, b) + Points1(field', f.b, b) - Count(f, b) - Points1(field, f.b, b), b)
    <3> SUFFICES ASSUME NEW b \in Blocks
                 PROVE  Gain(Count(f2, b) + Points1(field', f.b, b) - Count(f, b) - Points1(field, f.b, b), b)
      OBVIOUS
    <3>1. Count(f2, b) - Count(f, b) = IF b = f.b THEN -1 ELSE 0
      BY <1>2, <2>r, <2>h DEF Runs, Count, Shape, Owned, Starts, Leaves, Walks
    <3>2. hdr'[b].rc = hdr[b].rc + (Count(f2, b) - Count(f, b))
      BY <3>1, <2>2, <1>2, ValuesOK DEF Counted, Values, Header
    <3>3. field' = field
      BY <1>1, <1>2, <2>2, <2>h DEF Decref
    <3> QED BY <3>2, <3>3, <2>4, <1>2, ValuesOK, GainSame DEF Runs
  <2>7. SetOK(t, f, f2, f.b)
    <3>1. stack[t] # <<>> /\ f = Top(t)
      BY <1>2 DEF Runs
    <3>2. DataOK(f)
      BY <2>2 DEF Marked, Counted, Released1
    <3>3. \A d \in Blocks \ {f.b} : field'[d] = field[d]
      BY <1>1, <1>2, <2>2 DEF Decref, Released1
    <3>4. f.at # "drop" /\ (Locks(f2) => ~hdr[f2.b].blocked \/ (Locks(f) /\ f.b = f2.b))
      BY <1>2, <2>r, <2>h DEF Runs, Locks, Shape, Owned, Starts, Leaves, Walks
    <3>5. \A b \in Blocks : Tag(b)' = "lazy" /\ evals'[b] = 1 =>
           Evaluating(f2, b) \/ (Tag(b) = "lazy" /\ evals[b] = 1 /\ ~Evaluating(f, b))
      BY <1>2, <2>2, <2>3 DEF Marked, Counted, Released1, Evaluating, Tag
    <3> QED BY <3>1, <3>2, <3>3, <3>4, <3>5, <2>3, <2>5, <2>6, Zenon DEF SetOK, DataOK
  <2>8. f2 \in FrameSet /\ f.b \in Blocks
    BY <2>4, <1>2, <2>h DEF Runs, Shape, Follows, Walks
  <2> QED BY <2>7, <2>8, SetStep
<1> QED BY <1>3

(* Each action on an indirection that was evaluated keeps it.               *)
LEMMA MatchIndirectKeeps ==
    ASSUME LazyInv, NEW t \in Threads, MatchIndirect(t) PROVE LazyInv'
<1>1. PICK f : f = Top(t)
  OBVIOUS
<1>2. Runs(t, f) /\ f.at = "match"
  BY <1>1, Running DEF MatchIndirect
<1>f. f = [b |-> f.b, at |-> f.at, own |-> f.own, res |-> f.res, lock |-> f.lock, h |-> f.h]
  BY <1>2 DEF Runs
<1>3. CASE Tag(f.b) = "ind" /\ Unique(f.b)
  <2>h. Has(f, f.b)
    BY <1>2 DEF Runs, Has, Count, Shape, Owned, Starts, Leaves, Walks
  <2>u. hdr[f.b].rc <= 1 /\ ~heap.shared
    BY <1>2, <1>3 DEF Unique
  <2>a. f.b \in heap.next /\ field[f.b] \in Blocks /\ f.res = None
    BY <1>2, <1>3 DEF Runs, LazyInv, Thunks, Shape, Owned, Starts, Leaves, Walks
  <2>l. f.own = 1 /\ ~f.lock /\ field[f.b] # f.b
    <3>1. Count(f, f.b) \in Nat /\ Points1(field, f.b, f.b) \in 0..1 /\ Count(f, f.b) + Points1(field, f.b, f.b) <= 1
      BY <1>2, <2>h, <2>u, LastRef DEF Runs
    <3>2. Count(f, f.b) = f.own /\ f.own \in 1..2 /\ (f.lock => f.own = 2)
      BY <1>2, <2>a, ValuesOK DEF Runs, Count, Values, Shape, Owned, Starts, Leaves, Walks
    <3>3. f.own = 1 /\ ~f.lock /\ Points1(field, f.b, f.b) = 0
      BY <3>1, <3>2
    <3> QED BY <3>3 DEF Points1
  <2>1. PICK f2 : f2 = [f EXCEPT !.at = "compress", !.own = 0, !.res = field[f.b]]
    OBVIOUS
  <2>r. f2 = [b |-> f.b, at |-> "compress", own |-> 0, res |-> field[f.b], lock |-> f.lock, h |-> f.h]
    BY <1>f, <2>1
  <2>2. Released1(f, f.b)
    <3>1. hdr' = Freed(f.b) /\ field' = [field EXCEPT ![f.b] = None] /\ heap' = heap /\ evals' = evals
      BY <1>1, <1>2, <1>3 DEF MatchIndirect
    <3>2. f.b \in Blocks /\ evals' \in [Blocks -> 0..1] /\ \A b \in Blocks : evals'[b] = evals[b] \/ Own(f, b)
      BY <1>2, <3>1, <1>3, ValuesOK DEF Runs, Values, Shape, Walks
    <3> QED BY <1>2, <2>h, <2>u, <3>1, <3>2, FreedData
  <2>3. Set(t, f2) /\ heap' = heap /\ todo' = todo /\ evals' = evals
    BY <1>1, <1>2, <1>3, <2>1, <2>h, <2>u, <2>a, <2>l DEF MatchIndirect
  <2>4. f2 \in FrameSet
    BY <1>2, <1>3, <2>r, <2>h, <2>u, <2>a, <2>l DEF Runs, FrameSet, Points, Shape, Owned, Starts, Leaves, Walks
  <2>5. FrameOK(f2)'
    BY <1>2, <1>3, <2>2, <2>3, <2>r, <2>h, <2>u, <2>a, <2>l DEF Released1, Runs, FrameOK, Shape, Owned, Evaluates, Follows, Locks, Starts, Leaves, Walks, Unique, Tag
  <2>6. \A b \in Blocks : Gain(Count(f2, b) + Points1(field', f.b, b) - Count(f, b) - Points1(field, f.b, b), b)
    <3> SUFFICES ASSUME NEW b \in Blocks
                 PROVE  Gain(Count(f2, b) + Points1(field', f.b, b) - Count(f, b) - Points1(field, f.b, b), b)
      OBVIOUS
    <3>1. Points1(field', f.b, b) = 0
      BY <2>2, ValuesOK DEF Released1, Points1, Values
    <3>2. Count(f2, b) + 0 - Count(f, b) - Points1(field, f.b, b) = IF b = f.b THEN -1 ELSE 0
      BY <1>2, <2>r, <2>a, <2>l, ValuesOK DEF Runs, Count, Points1, Values
    <3>3. hdr[b].rc \in Nat /\ hdr'[b].rc = hdr[b].rc + (IF b = f.b THEN -1 ELSE 0)
      BY <1>2, <2>2, ValuesOK DEF Released1, Values, Header
    <3> QED BY <3>1, <3>2, <3>3 DEF Gain
  <2>7. SetOK(t, f, f2, f.b)
    <3>1. stack[t] # <<>> /\ f = Top(t)
      BY <1>2 DEF Runs
    <3>2. DataOK(f)
      BY <2>2 DEF Marked, Counted, Released1
    <3>3. \A d \in Blocks \ {f.b} : field'[d] = field[d]
      BY <1>1, <1>2, <1>3, <2>2 DEF MatchIndirect, Released1
    <3>4. f.at # "drop" /\ (Locks(f2) => ~hdr[f2.b].blocked \/ (Locks(f) /\ f.b = f2.b))
      BY <1>2, <1>3, <2>r, <2>h, <2>u, <2>a, <2>l DEF Runs, Locks, Shape, Owned, Starts, Leaves, Walks
    <3>5. \A b \in Blocks : Tag(b)' = "lazy" /\ evals'[b] = 1 =>
           Evaluating(f2, b) \/ (Tag(b) = "lazy" /\ evals[b] = 1 /\ ~Evaluating(f, b))
      BY <1>2, <1>3, <2>2, <2>3 DEF Marked, Counted, Released1, Evaluating, Tag
    <3> QED BY <3>1, <3>2, <3>3, <3>4, <3>5, <2>3, <2>5, <2>6, Zenon DEF SetOK, DataOK
  <2>8. f2 \in FrameSet /\ f.b \in Blocks
    BY <2>4, <1>2, <2>h, <2>u, <2>a, <2>l DEF Runs, Shape, Follows, Walks
  <2> QED BY <2>7, <2>8, SetStep
<1>4. CASE Tag(f.b) = "ind" /\ ~Unique(f.b)
  <2>a. f.b \in heap.next /\ field[f.b] \in Blocks /\ f.res = None
    BY <1>2, <1>4 DEF Runs, LazyInv, Thunks, Shape, Owned, Starts, Leaves, Walks
  <2>x. PICK x : x = field[f.b]
    OBVIOUS
  <2>h. Has(f, x)
    BY <1>2, <2>x DEF Runs, Has
  <2>s. heap.shared => x \notin heap.next
    BY <1>2, <2>a, <2>x DEF Runs, LazyInv, Thunks
  <2>n. ~heap.shared => hdr[f.b].rc # 1
    BY <1>4 DEF Unique
  <2>o. hdr[f.b].rc >= 1 /\ hdr[f.b].rc \in Nat
    <3>1. Has(f, f.b)
      BY <1>2 DEF Runs, Has, Count, Shape, Owned, Starts, Leaves, Walks
    <3> QED BY <1>2, <3>1, HasLive DEF Runs
  <2>1. PICK f2 : f2 = [f EXCEPT !.at = "ind_decref", !.res = field[f.b]]
    OBVIOUS
  <2>r. f2 = [b |-> f.b, at |-> "ind_decref", own |-> f.own, res |-> field[f.b], lock |-> f.lock, h |-> f.h]
    BY <1>f, <2>1
  <2>2. Counted(f, x, 1)
    <3>1. hdr' = With(x, 1) /\ field' = field /\ evals' = evals /\ heap' = heap
      BY <1>1, <1>2, <1>4, <2>a, <2>x DEF MatchIndirect
    <3>2. 1 \in Int /\ x \in Blocks
      BY <1>2, <1>4, <2>a, <2>x DEF Runs, Shape, Walks
    <3> QED BY <1>2, <2>h, <3>1, <3>2, WithData
  <2>3. Set(t, f2) /\ heap' = heap /\ todo' = todo /\ evals' = evals
    BY <1>1, <1>2, <1>4, <2>1, <2>a, <2>x, <2>h, <2>s, <2>n, <2>o DEF MatchIndirect
  <2>4. f2 \in FrameSet
    BY <1>2, <1>4, <2>r, <2>a, <2>x, <2>h, <2>s, <2>n, <2>o DEF Runs, FrameSet, Points, Shape, Owned, Starts, Leaves, Walks
  <2>5. FrameOK(f2)'
    BY <1>2, <1>4, <2>2, <2>3, <2>r, <2>a, <2>x, <2>h, <2>s, <2>n, <2>o DEF Counted, Runs, FrameOK, Shape, Owned, Evaluates, Follows, Locks, Starts, Leaves, Walks, Unique, Tag
  <2>6. \A b \in Blocks : Gain(Count(f2, b) + Points1(field', f.b, b) - Count(f, b) - Points1(field, f.b, b), b)
    <3> SUFFICES ASSUME NEW b \in Blocks
                 PROVE  Gain(Count(f2, b) + Points1(field', f.b, b) - Count(f, b) - Points1(field, f.b, b), b)
      OBVIOUS
    <3>1. Count(f2, b) - Count(f, b) = IF b = x THEN 1 ELSE 0
      BY <1>2, <1>4, <2>r, <2>a, <2>x, <2>h, <2>s, <2>n, <2>o DEF Runs, Count, Shape, Owned, Starts, Leaves, Walks
    <3>2. hdr'[b].rc = hdr[b].rc + (Count(f2, b) - Count(f, b))
      BY <3>1, <2>2, <1>2, ValuesOK DEF Counted, Values, Header
    <3>3. field' = field
      BY <1>1, <1>2, <2>2, <1>4, <2>a, <2>x, <2>h, <2>s, <2>n, <2>o DEF MatchIndirect
    <3> QED BY <3>2, <3>3, <2>4, <1>2, ValuesOK, GainSame DEF Runs
  <2>7. SetOK(t, f, f2, f.b)
    <3>1. stack[t] # <<>> /\ f = Top(t)
      BY <1>2 DEF Runs
    <3>2. DataOK(f)
      BY <2>2 DEF Marked, Counted, Released1
    <3>3. \A d \in Blocks \ {f.b} : field'[d] = field[d]
      BY <1>1, <1>2, <1>4, <2>2 DEF MatchIndirect, Released1
    <3>4. f.at # "drop" /\ (Locks(f2) => ~hdr[f2.b].blocked \/ (Locks(f) /\ f.b = f2.b))
      BY <1>2, <1>4, <2>r, <2>a, <2>x, <2>h, <2>s, <2>n, <2>o DEF Runs, Locks, Shape, Owned, Starts, Leaves, Walks
    <3>5. \A b \in Blocks : Tag(b)' = "lazy" /\ evals'[b] = 1 =>
           Evaluating(f2, b) \/ (Tag(b) = "lazy" /\ evals[b] = 1 /\ ~Evaluating(f, b))
      BY <1>2, <1>4, <2>2, <2>3 DEF Marked, Counted, Released1, Evaluating, Tag
    <3> QED BY <3>1, <3>2, <3>3, <3>4, <3>5, <2>3, <2>5, <2>6, Zenon DEF SetOK, DataOK
  <2>8. f2 \in FrameSet /\ f.b \in Blocks
    BY <2>4, <1>2, <2>a, <2>x, <2>h, <2>s, <2>n, <2>o DEF Runs, Shape, Follows, Walks
  <2> QED BY <2>7, <2>8, SetStep
<1> QED BY <1>1, <1>3, <1>4 DEF MatchIndirect

LEMMA ShareKeeps ==
    ASSUME LazyInv, NEW t \in Threads, Share(t) PROVE LazyInv'
<1>1. PICK f : f = Top(t)
  OBVIOUS
<1>2. Runs(t, f) /\ f.at = "share"
  BY <1>1, Running DEF Share
<1>f. f = [b |-> f.b, at |-> f.at, own |-> f.own, res |-> f.res, lock |-> f.lock, h |-> f.h]
  BY <1>2 DEF Runs
<1>3. LazyInv'
  <2>a. Tag(f.b) = "ind" /\ f.b \in heap.next /\ field[f.b] \in Blocks /\ f.res = None
    BY <1>2 DEF Runs, Evaluates, LazyInv, Thunks, Shape, Owned, Starts, Leaves, Walks
  <2>x. PICK x : x = field[f.b]
    OBVIOUS
  <2>h. Has(f, x)
    BY <1>2, <2>x DEF Runs, Has
  <2>1. PICK f2 : f2 = [f EXCEPT !.at = "decref", !.res = field[f.b]]
    OBVIOUS
  <2>r. f2 = [b |-> f.b, at |-> "decref", own |-> f.own, res |-> field[f.b], lock |-> f.lock, h |-> f.h]
    BY <1>f, <2>1
  <2>2. Counted(f, x, 1)
    <3>1. hdr' = With(x, 1) /\ field' = field /\ evals' = evals /\ heap' = heap
      BY <1>1, <1>2, <2>a, <2>x DEF Share
    <3>2. 1 \in Int /\ x \in Blocks
      BY <1>2, <2>a, <2>x DEF Runs, Shape, Walks
    <3> QED BY <1>2, <2>h, <3>1, <3>2, WithData
  <2>3. Set(t, f2) /\ heap' = heap /\ todo' = todo /\ evals' = evals
    BY <1>1, <1>2, <2>1, <2>a, <2>x, <2>h DEF Share
  <2>4. f2 \in FrameSet
    BY <1>2, <2>r, <2>a, <2>x, <2>h DEF Runs, FrameSet, Points, Shape, Owned, Starts, Leaves, Walks
  <2>5. FrameOK(f2)'
    BY <1>2, <2>2, <2>3, <2>r, <2>a, <2>x, <2>h DEF Counted, Runs, FrameOK, Shape, Owned, Evaluates, Follows, Locks, Starts, Leaves, Walks, Unique, Tag
  <2>6. \A b \in Blocks : Gain(Count(f2, b) + Points1(field', f.b, b) - Count(f, b) - Points1(field, f.b, b), b)
    <3> SUFFICES ASSUME NEW b \in Blocks
                 PROVE  Gain(Count(f2, b) + Points1(field', f.b, b) - Count(f, b) - Points1(field, f.b, b), b)
      OBVIOUS
    <3>1. Count(f2, b) - Count(f, b) = IF b = x THEN 1 ELSE 0
      BY <1>2, <2>r, <2>a, <2>x, <2>h DEF Runs, Count, Shape, Owned, Starts, Leaves, Walks
    <3>2. hdr'[b].rc = hdr[b].rc + (Count(f2, b) - Count(f, b))
      BY <3>1, <2>2, <1>2, ValuesOK DEF Counted, Values, Header
    <3>3. field' = field
      BY <1>1, <1>2, <2>2, <2>a, <2>x, <2>h DEF Share
    <3> QED BY <3>2, <3>3, <2>4, <1>2, ValuesOK, GainSame DEF Runs
  <2>7. SetOK(t, f, f2, f.b)
    <3>1. stack[t] # <<>> /\ f = Top(t)
      BY <1>2 DEF Runs
    <3>2. DataOK(f)
      BY <2>2 DEF Marked, Counted, Released1
    <3>3. \A d \in Blocks \ {f.b} : field'[d] = field[d]
      BY <1>1, <1>2, <2>2 DEF Share, Released1
    <3>4. f.at # "drop" /\ (Locks(f2) => ~hdr[f2.b].blocked \/ (Locks(f) /\ f.b = f2.b))
      BY <1>2, <2>r, <2>a, <2>x, <2>h DEF Runs, Locks, Shape, Owned, Starts, Leaves, Walks
    <3>5. \A b \in Blocks : Tag(b)' = "lazy" /\ evals'[b] = 1 =>
           Evaluating(f2, b) \/ (Tag(b) = "lazy" /\ evals[b] = 1 /\ ~Evaluating(f, b))
      BY <1>2, <2>2, <2>3 DEF Marked, Counted, Released1, Evaluating, Tag
    <3> QED BY <3>1, <3>2, <3>3, <3>4, <3>5, <2>3, <2>5, <2>6, Zenon DEF SetOK, DataOK
  <2>8. f2 \in FrameSet /\ f.b \in Blocks
    BY <2>4, <1>2, <2>a, <2>x, <2>h DEF Runs, Shape, Follows, Walks
  <2> QED BY <2>7, <2>8, SetStep
<1> QED BY <1>3

LEMMA IndirectDecrefKeeps ==
    ASSUME LazyInv, NEW t \in Threads, IndirectDecref(t) PROVE LazyInv'
<1>1. PICK f : f = Top(t)
  OBVIOUS
<1>2. Runs(t, f) /\ f.at = "ind_decref"
  BY <1>1, Running DEF IndirectDecref
<1>f. f = [b |-> f.b, at |-> f.at, own |-> f.own, res |-> f.res, lock |-> f.lock, h |-> f.h]
  BY <1>2 DEF Runs
<1>3. CASE hdr[f.b].rc = 1
  <2>h. Has(f, f.b)
    BY <1>2 DEF Runs, Has, Count, Shape, Owned, Starts, Leaves, Walks
  <2>u. hdr[f.b].rc <= 1
    BY <1>2, <1>3
  <2>s. heap.shared
    BY <1>2, <1>3 DEF Runs, Evaluates
  <2>l. f.own = 1 /\ ~f.lock /\ field[f.b] # f.b /\ f.res # f.b
    <3>1. Count(f, f.b) \in Nat /\ Points1(field, f.b, f.b) \in 0..1 /\ Count(f, f.b) + Points1(field, f.b, f.b) <= 1
      BY <1>2, <2>h, <2>u, LastRef DEF Runs
    <3>2. Count(f, f.b) = f.own + (IF f.res = f.b THEN 1 ELSE 0) /\ f.own \in 1..2 /\ (f.lock => f.own = 2)
      BY <1>2 DEF Runs, Count, Shape, Owned, Starts, Leaves, Walks
    <3>3. f.own = 1 /\ ~f.lock /\ Points1(field, f.b, f.b) = 0 /\ f.res # f.b
      BY <3>1, <3>2
    <3> QED BY <3>3 DEF Points1
  <2>1. PICK f2 : f2 = [f EXCEPT !.at = "compress", !.own = @ - 1]
    OBVIOUS
  <2>r. f2 = [b |-> f.b, at |-> "compress", own |-> 0, res |-> f.res, lock |-> f.lock, h |-> f.h]
    <3>1. f.own - 1 = 0
      BY <1>2, <1>3, <2>h, <2>u, <2>s, <2>l DEF Runs, EvalDone, Shape, Owned, Starts, Leaves, Walks
    <3> QED BY <1>f, <2>1, <3>1
  <2>2. Released1(f, f.b)
    <3>1. hdr' = Freed(f.b) /\ field' = [field EXCEPT ![f.b] = None] /\ heap' = heap /\ evals' = evals
      BY <1>1, <1>2, <1>3 DEF IndirectDecref
    <3>2. f.b \in Blocks /\ evals' \in [Blocks -> 0..1] /\ \A b \in Blocks : evals'[b] = evals[b] \/ Own(f, b)
      BY <1>2, <3>1, <1>3, ValuesOK DEF Runs, Values, Shape, Walks
    <3> QED BY <1>2, <2>h, <2>u, <3>1, <3>2, FreedData
  <2>3. Set(t, f2) /\ heap' = heap /\ todo' = todo /\ evals' = evals
    BY <1>1, <1>2, <1>3, <2>1, <2>h, <2>u, <2>s, <2>l DEF IndirectDecref
  <2>4. f2 \in FrameSet
    BY <1>2, <1>3, <2>r, <2>h, <2>u, <2>s, <2>l DEF Runs, FrameSet, Points, Shape, Owned, Starts, Leaves, Walks
  <2>5. FrameOK(f2)'
    BY <1>2, <1>3, <2>2, <2>3, <2>r, <2>h, <2>u, <2>s, <2>l DEF Released1, Runs, FrameOK, Shape, Owned, Evaluates, Follows, Locks, Starts, Leaves, Walks, Unique, Tag
  <2>6. \A b \in Blocks : Gain(Count(f2, b) + Points1(field', f.b, b) - Count(f, b) - Points1(field, f.b, b), b)
    <3> SUFFICES ASSUME NEW b \in Blocks
                 PROVE  Gain(Count(f2, b) + Points1(field', f.b, b) - Count(f, b) - Points1(field, f.b, b), b)
      OBVIOUS
    <3>1. Points1(field', f.b, b) = 0 /\ Points1(field, f.b, b) \in 0..1 /\ (b = f.b => Points1(field, f.b, b) = 0)
      BY <2>2, <2>l, ValuesOK DEF Released1, Points1, Values
    <3>2. Count(f2, b) \in Nat /\ Count(f, b) = Count(f2, b) + IF b = f.b THEN 1 ELSE 0
      BY <1>2, <2>r, <2>l DEF Runs, Count
    <3>3. hdr[b].rc \in Nat /\ hdr'[b].rc = hdr[b].rc - IF b = f.b THEN 1 ELSE 0
      BY <1>2, <2>2, ValuesOK DEF Released1, Values, Header
    <3> QED BY <3>1, <3>2, <3>3, <2>s DEF Gain
  <2>7. SetOK(t, f, f2, f.b)
    <3>1. stack[t] # <<>> /\ f = Top(t)
      BY <1>2 DEF Runs
    <3>2. DataOK(f)
      BY <2>2 DEF Marked, Counted, Released1
    <3>3. \A d \in Blocks \ {f.b} : field'[d] = field[d]
      BY <1>1, <1>2, <1>3, <2>2 DEF IndirectDecref, Released1
    <3>4. f.at # "drop" /\ (Locks(f2) => ~hdr[f2.b].blocked \/ (Locks(f) /\ f.b = f2.b))
      BY <1>2, <1>3, <2>r, <2>h, <2>u, <2>s, <2>l DEF Runs, Locks, Shape, Owned, Starts, Leaves, Walks
    <3>5. \A b \in Blocks : Tag(b)' = "lazy" /\ evals'[b] = 1 =>
           Evaluating(f2, b) \/ (Tag(b) = "lazy" /\ evals[b] = 1 /\ ~Evaluating(f, b))
      BY <1>2, <1>3, <2>2, <2>3 DEF Marked, Counted, Released1, Evaluating, Tag
    <3> QED BY <3>1, <3>2, <3>3, <3>4, <3>5, <2>3, <2>5, <2>6, Zenon DEF SetOK, DataOK
  <2>8. f2 \in FrameSet /\ f.b \in Blocks
    BY <2>4, <1>2, <2>h, <2>u, <2>s, <2>l DEF Runs, Shape, Follows, Walks
  <2> QED BY <2>7, <2>8, SetStep
<1>4. CASE hdr[f.b].rc # 1
  <2>h. Has(f, f.b)
    BY <1>2 DEF Runs, Has, Count, Shape, Owned, Starts, Leaves, Walks
  <2>1. PICK f2 : f2 = [f EXCEPT !.at = "compress", !.own = f.own - 1]
    OBVIOUS
  <2>r. f2 = [b |-> f.b, at |-> "compress", own |-> f.own - 1, res |-> f.res, lock |-> f.lock, h |-> f.h]
    BY <1>f, <2>1
  <2>2. Counted(f, f.b, -1)
    <3>1. hdr' = With(f.b, -1) /\ field' = field /\ evals' = evals /\ heap' = heap
      BY <1>1, <1>2, <1>4 DEF IndirectDecref
    <3>2. -1 \in Int /\ f.b \in Blocks
      BY <1>2, <1>4 DEF Runs, Shape, Walks
    <3> QED BY <1>2, <2>h, <3>1, <3>2, WithData
  <2>3. Set(t, f2) /\ heap' = heap /\ todo' = todo /\ evals' = evals
    BY <1>1, <1>2, <1>4, <2>1, <2>h DEF IndirectDecref
  <2>4. f2 \in FrameSet
    BY <1>2, <1>4, <2>r, <2>h DEF Runs, FrameSet, Points, Shape, Owned, Starts, Leaves, Walks
  <2>5. FrameOK(f2)'
    BY <1>2, <1>4, <2>2, <2>3, <2>r, <2>h DEF Counted, Runs, FrameOK, Shape, Owned, Evaluates, Follows, Locks, Starts, Leaves, Walks, Unique, Tag
  <2>6. \A b \in Blocks : Gain(Count(f2, b) + Points1(field', f.b, b) - Count(f, b) - Points1(field, f.b, b), b)
    <3> SUFFICES ASSUME NEW b \in Blocks
                 PROVE  Gain(Count(f2, b) + Points1(field', f.b, b) - Count(f, b) - Points1(field, f.b, b), b)
      OBVIOUS
    <3>1. Count(f2, b) - Count(f, b) = IF b = f.b THEN -1 ELSE 0
      BY <1>2, <1>4, <2>r, <2>h DEF Runs, Count, Shape, Owned, Starts, Leaves, Walks
    <3>2. hdr'[b].rc = hdr[b].rc + (Count(f2, b) - Count(f, b))
      BY <3>1, <2>2, <1>2, ValuesOK DEF Counted, Values, Header
    <3>3. field' = field
      BY <1>1, <1>2, <2>2, <1>4, <2>h DEF IndirectDecref
    <3> QED BY <3>2, <3>3, <2>4, <1>2, ValuesOK, GainSame DEF Runs
  <2>7. SetOK(t, f, f2, f.b)
    <3>1. stack[t] # <<>> /\ f = Top(t)
      BY <1>2 DEF Runs
    <3>2. DataOK(f)
      BY <2>2 DEF Marked, Counted, Released1
    <3>3. \A d \in Blocks \ {f.b} : field'[d] = field[d]
      BY <1>1, <1>2, <1>4, <2>2 DEF IndirectDecref, Released1
    <3>4. f.at # "drop" /\ (Locks(f2) => ~hdr[f2.b].blocked \/ (Locks(f) /\ f.b = f2.b))
      BY <1>2, <1>4, <2>r, <2>h DEF Runs, Locks, Shape, Owned, Starts, Leaves, Walks
    <3>5. \A b \in Blocks : Tag(b)' = "lazy" /\ evals'[b] = 1 =>
           Evaluating(f2, b) \/ (Tag(b) = "lazy" /\ evals[b] = 1 /\ ~Evaluating(f, b))
      BY <1>2, <1>4, <2>2, <2>3 DEF Marked, Counted, Released1, Evaluating, Tag
    <3> QED BY <3>1, <3>2, <3>3, <3>4, <3>5, <2>3, <2>5, <2>6, Zenon DEF SetOK, DataOK
  <2>8. f2 \in FrameSet /\ f.b \in Blocks
    BY <2>4, <1>2, <2>h DEF Runs, Shape, Follows, Walks
  <2> QED BY <2>7, <2>8, SetStep
<1> QED BY <1>3, <1>4

---------------------------------------------------------------------------
(* The thunk of f gets its final tag, or its field.                         *)
Tagged(f) ==
    /\ DataOK(f) /\ Tag(f.b)' = IF f.b \in heap.next THEN "ind" ELSE "whnf"
    /\ \A b \in Blocks : /\ hdr'[b].rc = hdr[b].rc /\ hdr'[b].blocked = hdr[b].blocked
                         /\ b # f.b => Tag(b)' = Tag(b)

LEMMA TaggedData ==
    ASSUME LazyInv, NEW t \in Threads, NEW f, Runs(t, f), f.at = "tag", Own(f, f.b),
           hdr' = [hdr EXCEPT ![f.b].tag = IF f.b \in heap.next THEN "ind" ELSE "whnf"],
           field' = field, evals' = evals, heap' = heap
    PROVE  Tagged(f)
<1>1. Values /\ f.b \in Blocks /\ Tag(f.b) = "lazy"
  BY ValuesOK DEF Runs, Evaluates
<1>2. /\ \A b \in Blocks :
           /\ hdr'[b].blocked = hdr[b].blocked /\ hdr'[b].rc = hdr[b].rc
           /\ hdr'[b] \in [tag : {"lazy", "whnf", "ind", "free"}, blocked : BOOLEAN, rc : Int]
           /\ b # f.b => hdr'[b] = hdr[b]
      /\ hdr'[f.b].tag = IF f.b \in heap.next THEN "ind" ELSE "whnf"
  BY <1>1 DEF Values, Header
<1>3. DataTypes'
  BY <1>1, <1>2 DEF DataTypes, Values
<1>4. Thunks'
  BY <1>1, <1>2 DEF Thunks, Tag, LazyInv
<1>5. \A b \in Blocks : FairBlock(b, Has(f, b), Own(f, b))
  BY <1>1, <1>2 DEF FairBlock, FairHeader, FairField, Tag
<1> QED BY <1>2, <1>3, <1>4, <1>5 DEF Tagged, DataOK, Tag

Filled(f) ==
    /\ DataOK(f) /\ hdr' = hdr /\ field'[f.b] = f.res
    /\ \A b \in Blocks \ {f.b} : field'[b] = field[b]

LEMMA FilledData ==
    ASSUME LazyInv, NEW t \in Threads, NEW f, Runs(t, f), f.at = "field", f.b \notin heap.next,
           field' = [field EXCEPT ![f.b] = f.res], hdr' = hdr, evals' = evals, heap' = heap
    PROVE  Filled(f)
<1>1. Values /\ f.b \in Blocks /\ Tag(f.b) = "whnf" /\ f.res \in Blocks \cup {None}
  BY ValuesOK DEF Runs, Evaluates
<1>2. \A b \in Blocks : hdr[b] \in [tag : {"lazy", "whnf", "ind", "free"}, blocked : BOOLEAN, rc : Int]
  BY <1>1 DEF Values, Header
<1>3. /\ field'[f.b] = f.res /\ field' \in [Blocks -> Blocks \cup {None}]
      /\ \A b \in Blocks \ {f.b} : field'[b] = field[b]
  BY <1>1 DEF Values
<1>4. DataTypes'
  BY <1>1, <1>2, <1>3 DEF DataTypes, Values
<1>5. Thunks'
  BY <1>1, <1>3 DEF Thunks, Tag, LazyInv
<1>6. f.lock => Own(f, f.b)
  BY <1>1 DEF Runs, Own, Has, Count, Locks, Shape, Owned, Starts, Leaves, Walks
<1>7. ~f.lock => ~heap.shared /\ hdr[f.b].tag # "lazy"
  BY <1>1 DEF Runs, Evaluates, Tag
<1>8. \A b \in Blocks : FairBlock(b, Has(f, b), Own(f, b))
  BY <1>1, <1>3, <1>6, <1>7 DEF FairBlock, FairHeader, FairField, Runs
<1> QED BY <1>3, <1>4, <1>5, <1>8 DEF Filled, DataOK

(* Walks along indirections.                                                *)
LEMMA LeadsSame ==
    ASSUME NEW b, NEW c, Leads(hdr, field, b, c), field' = field, \A d \in Blocks : Tag(d)' = Tag(d)
    PROVE  Leads(hdr', field', b, c)
  BY DEF Leads, Closed, Tag

(* The rest of the way does not need the first indirection.                 *)
LEMMA LeadsOn ==
    ASSUME NEW b \in Blocks, NEW c \in Blocks, b # c, Leads(hdr, field, b, c)
    PROVE  /\ Leads(hdr, field, field[b], c)
           /\ (\A d \in Blocks \ {b} : hdr'[d] = hdr[d] /\ field'[d] = field[d]) =>
                Leads(hdr', field', field[b], c)
<1>1. ASSUME NEW S \in SUBSET Blocks, field[b] \in S, Closed(hdr, field, S) PROVE c \in S
  <2>1. S \cup {b} \in SUBSET Blocks /\ b \in S \cup {b} /\ Closed(hdr, field, S \cup {b})
    BY <1>1 DEF Closed
  <2> QED BY <2>1 DEF Leads
<1>2. ASSUME \A d \in Blocks \ {b} : hdr'[d] = hdr[d] /\ field'[d] = field[d],
             NEW S \in SUBSET Blocks, field[b] \in S, Closed(hdr', field', S)
      PROVE  c \in S
  <2>1. S \cup {b} \in SUBSET Blocks /\ b \in S \cup {b}
    OBVIOUS
  <2>2. Closed(hdr, field, S \cup {b})
    BY <1>2 DEF Closed
  <2>3. c \in S \cup {b}
    BY <2>1, <2>2 DEF Leads
  <2> QED BY <2>3
<1> QED BY <1>1, <1>2 DEF Leads

(* Where a walk leads to has a reference.                                   *)
LEMMA LeadsField ==
    ASSUME LazyInv, NEW a \in Blocks, NEW c \in Blocks, field[a] \in Blocks, Leads(hdr, field, field[a], c)
    PROVE  \E d \in Blocks : field[d] = c
<1> DEFINE S == {x \in Blocks : \E d \in Blocks : field[d] = x}
<1>1. S \in SUBSET Blocks /\ field[a] \in S
  OBVIOUS
<1>2. Closed(hdr, field, S)
  <2>1. \A d \in Blocks : hdr[d].tag = "ind" => field[d] \in Blocks
    BY DEF LazyInv, Thunks, Tag
  <2> QED BY <2>1 DEF Closed
<1>3. c \in S
  BY <1>1, <1>2 DEF Leads
<1> QED BY <1>3

(* The indirection x points at v.                                           *)
Pointed(f, x, v) ==
    /\ DataOK(f) /\ field'[x] = v
    /\ \A b \in Blocks : /\ Tag(b)' = Tag(b) /\ hdr'[b].blocked = hdr[b].blocked
                         /\ hdr'[b].rc = hdr[b].rc + (IF b = v THEN 1 ELSE 0)
                         /\ b # x => field'[b] = field[b]

LEMMA PointedData ==
    ASSUME LazyInv, NEW t \in Threads, NEW f, Runs(t, f), NEW x \in Blocks, NEW v \in Blocks,
           ~heap.shared, Tag(x) = "ind", Has(f, v),
           hdr' = With(v, 1), field' = [field EXCEPT ![x] = v], evals' = evals, heap' = heap
    PROVE  Pointed(f, x, v)
<1>1. Values
  BY ValuesOK
<1>2. \A b \in Blocks :
        /\ hdr'[b].tag = hdr[b].tag /\ hdr'[b].blocked = hdr[b].blocked
        /\ hdr'[b].rc = hdr[b].rc + (IF b = v THEN 1 ELSE 0)
        /\ hdr'[b] \in [tag : {"lazy", "whnf", "ind", "free"}, blocked : BOOLEAN, rc : Int]
        /\ b # v => hdr'[b] = hdr[b]
  BY <1>1 DEF With, Values, Header
<1>3. /\ field'[x] = v /\ field' \in [Blocks -> Blocks \cup {None}]
      /\ \A b \in Blocks \ {x} : field'[b] = field[b]
  BY <1>1 DEF Values
<1>4. DataTypes'
  BY <1>1, <1>2, <1>3 DEF DataTypes, With, Values
<1>5. Thunks'
  <2>1. Tag(v) # "free"
    BY HasLive
  <2> QED BY <2>1, <1>2, <1>3 DEF Thunks, Tag, LazyInv
<1>6. \A b \in Blocks : FairBlock(b, Has(f, b), Own(f, b))
  BY <1>2, <1>3 DEF FairBlock, FairHeader, FairField, Tag
<1> QED BY <1>2, <1>3, <1>4, <1>5, <1>6 DEF Pointed, DataOK, Tag

(* The evaluation of the thunk of f is counted.                             *)
LEMMA NotTwice ==
    ASSUME LazyInv, NEW t \in Threads, NEW f, Runs(t, f), f.at # "tag", f.own >= 1, Own(f, f.b),
           Tag(f.b) = "lazy"
    PROVE  evals[f.b] = 0
<1>1. SUFFICES ASSUME evals[f.b] # 0 PROVE FALSE
  OBVIOUS
<1>2. evals[f.b] = 1 /\ f.b \in Blocks
  BY <1>1, ValuesOK DEF Runs, Values
<1>3. PICK u \in Threads : \E n \in 1 .. Len(stack[u]) : Evaluating(Fr(u, n), f.b)
  BY <1>2 DEF LazyInv, InProgress
<1>4. PICK n \in 1 .. Len(stack[u]) : Evaluating(Fr(u, n), f.b)
  BY <1>3
<1>5. /\ stack[t] # <<>> /\ f = Top(t) /\ Len(stack[t]) \in Nat /\ Len(stack[t]) >= 1
      /\ f = Fr(t, Len(stack[t])) /\ f \in FrameSet
  BY TopKnows DEF Runs
<1>6. PICK k \in Nat : Len(stack[t]) = k + 1 /\ Len(stack[t]) \in k .. k + 2 /\ k + 1 # k
  <2> DEFINE j == Len(stack[t]) - 1
  <2>1. j \in Nat /\ Len(stack[t]) = j + 1 /\ Len(stack[t]) \in j .. j + 2 /\ j + 1 # j
    BY <1>5
  <2> HIDE DEF j
  <2> QED BY <2>1
<1>7. Fr(t, k + 1) = f /\ k + 1 \in k + 1 .. Len(stack[t])
  BY <1>5, <1>6
<1>8. Holds(t, k) /\ Other(t, k, u, n)
  <2>1. u # t \/ n # Len(stack[t])
    BY <1>4, <1>5 DEF Evaluating
  <2>2. u = t => n <= k
    BY <2>1, <1>6
  <2> QED BY <2>2, <1>6 DEF Holds, Other
<1>9. Held(t, k, f.b) /\ Mine(t, k, f.b)
  <2>1. FromLast(stack[t], k + 1) = f /\ Len(stack[t]) # k /\ Len(stack[t]) = k + 1
    BY <1>6, <1>7 DEF Fr
  <2>2. Above(stack[t], k, f.b) = Count(f, f.b)
    BY <2>1, Zenon DEF Above
  <2>3. Held(t, k, f.b)
    BY <2>2 DEF Own, Has, Held
  <2> QED BY <2>3, <1>7 DEF Mine, Own
<1>10. Fr(u, n).b = f.b /\ Fr(u, n).at = "tag"
  BY <1>4 DEF Evaluating
<1>11. Knows(t, k, u, n)
  BY <1>8, OtherKnows
<1>12. Fr(u, n).own >= 1
  BY <1>10, <1>11 DEF Knows, FrameOK, Shape, Owned, Starts, Leaves
<1> QED BY <1>9, <1>10, <1>11, <1>12 DEF Knows

Counts(f) == evals'[f.b] = 1 /\ evals' \in [Blocks -> 0..1] /\ \A b \in Blocks \ {f.b} : evals'[b] = evals[b]
LEMMA OnceData ==
    ASSUME LazyInv, NEW t \in Threads, NEW f, Runs(t, f), f.at # "tag", f.own >= 1, Own(f, f.b),
           Tag(f.b) = "lazy", evals' = [evals EXCEPT ![f.b] = @ + 1]
    PROVE  Counts(f)
<1>1. evals[f.b] = 0 /\ f.b \in Blocks
  BY NotTwice DEF Runs
<1> QED BY <1>1, ValuesOK DEF Values, Counts

(* ... and nothing else happens but, perhaps, that its field is taken.      *)
Once(f) ==
    /\ DataOK(f) /\ Counts(f) /\ hdr' = hdr /\ (field'[f.b] = field[f.b] \/ field'[f.b] = None)
    /\ \A b \in Blocks \ {f.b} : field'[b] = field[b]
LEMMA StartData ==
    ASSUME LazyInv, NEW t \in Threads, NEW f, Runs(t, f), f.at # "tag", f.own >= 1, Own(f, f.b),
           Tag(f.b) = "lazy", evals' = [evals EXCEPT ![f.b] = @ + 1], hdr' = hdr, heap' = heap,
           field' = field \/ (f.b \notin heap.next /\ field' = [field EXCEPT ![f.b] = None])
    PROVE  Once(f)
<1>1. Values /\ f.b \in Blocks /\ Counts(f)
  BY ValuesOK, OnceData DEF Runs
<1>2. \A b \in Blocks : hdr[b] \in [tag : {"lazy", "whnf", "ind", "free"}, blocked : BOOLEAN, rc : Int]
  BY <1>1 DEF Values, Header
<1>3. /\ field' \in [Blocks -> Blocks \cup {None}] /\ (field'[f.b] = field[f.b] \/ field'[f.b] = None)
      /\ \A b \in Blocks \ {f.b} : field'[b] = field[b]
      /\ field' = field \/ (field'[f.b] = None /\ f.b \notin heap.next)
  BY <1>1 DEF Values
<1>4. DataTypes'
  BY <1>1, <1>2, <1>3 DEF DataTypes, Values, Counts
<1>5. Thunks'
  <2>1. None \notin heap.next
    BY <1>1 DEF Values
  <2> QED BY <2>1, <1>1, <1>3 DEF Thunks, Tag, LazyInv
<1>6. \A b \in Blocks : FairBlock(b, Has(f, b), Own(f, b))
  BY <1>1, <1>3 DEF FairBlock, FairHeader, FairField, Counts
<1> QED BY <1>1, <1>3, <1>4, <1>5, <1>6 DEF Once, DataOK
(* Each action that stores a value or compresses keeps it.                  *)
LEMMA SetTagKeeps ==
    ASSUME LazyInv, NEW t \in Threads, SetTag(t) PROVE LazyInv'
<1>1. PICK f : f = Top(t)
  OBVIOUS
<1>2. Runs(t, f) /\ f.at = "tag"
  BY <1>1, Running DEF SetTag
<1>f. f = [b |-> f.b, at |-> f.at, own |-> f.own, res |-> f.res, lock |-> f.lock, h |-> f.h]
  BY <1>2 DEF Runs
<1>3. LazyInv'
  <2>h. Has(f, f.b)
    BY <1>2 DEF Runs, Has, Count, Shape, Owned, Starts, Leaves, Walks
  <2>o. Own(f, f.b)
    BY <1>2, <2>h DEF Runs, Own, Has, Locks, Evaluates, Unique, Shape, Owned, Starts, Leaves, Walks
  <2>e. field' = field
    BY <1>1 DEF SetTag
  <2>1. PICK f2 : f2 = [f EXCEPT !.at = "field"]
    OBVIOUS
  <2>r. f2 = [b |-> f.b, at |-> "field", own |-> f.own, res |-> f.res, lock |-> f.lock, h |-> f.h]
    BY <1>f, <2>1
  <2>2. Tagged(f)
    <3>1. field' = field /\ evals' = evals /\ heap' = heap /\ hdr' = [hdr EXCEPT ![f.b].tag = IF f.b \in heap.next THEN "ind" ELSE "whnf"]
      BY <1>1 DEF SetTag
    <3> QED BY <1>2, <2>o, <3>1, TaggedData
  <2>3. Set(t, f2) /\ heap' = heap /\ todo' = todo /\ evals' = evals
    BY <1>1, <1>2, <2>1, <2>h, <2>o, <2>e DEF SetTag, Go
  <2>4. f2 \in FrameSet
    BY <1>2, <2>r, <2>h, <2>o, <2>e DEF Runs, FrameSet, Points, Shape, Owned, Starts, Leaves, Walks
  <2>5. FrameOK(f2)'
    BY <1>2, <2>2, <2>3, <2>r, <2>h, <2>o, <2>e DEF Tagged, Runs, FrameOK, Shape, Owned, Evaluates, Follows, Locks, Starts, Leaves, Walks, Unique, Tag
  <2>6. \A b \in Blocks : Gain(Count(f2, b) + Points1(field', f.b, b) - Count(f, b) - Points1(field, f.b, b), b)
    <3> SUFFICES ASSUME NEW b \in Blocks
                 PROVE  Gain(Count(f2, b) + Points1(field', f.b, b) - Count(f, b) - Points1(field, f.b, b), b)
      OBVIOUS
    <3>1. Count(f2, b) - Count(f, b) = 0
      BY <1>2, <2>r, <2>h, <2>o, <2>e DEF Runs, Count, Shape, Owned, Starts, Leaves, Walks
    <3>2. hdr'[b].rc = hdr[b].rc + (Count(f2, b) - Count(f, b))
      BY <3>1, <2>2, <1>2, ValuesOK DEF Tagged, Values, Header
    <3>3. field' = field
      BY <1>1, <1>2, <2>2, <2>h, <2>o, <2>e DEF SetTag, Go
    <3> QED BY <3>2, <3>3, <2>4, <1>2, ValuesOK, GainSame DEF Runs
  <2>7. SetOK(t, f, f2, f.b)
    <3>1. stack[t] # <<>> /\ f = Top(t)
      BY <1>2 DEF Runs
    <3>2. DataOK(f)
      BY <2>2 DEF Tagged, Filled, Pointed, Counted, Once, Counts, Released1
    <3>3. \A d \in Blocks \ {f.b} : field'[d] = field[d]
      BY <1>1, <1>2, <2>2 DEF SetTag, Go, Released1
    <3>4. f.at # "drop" /\ (Locks(f2) => ~hdr[f2.b].blocked \/ (Locks(f) /\ f.b = f2.b))
      BY <1>2, <2>r, <2>h, <2>o, <2>e DEF Runs, Locks, Shape, Owned, Starts, Leaves, Walks
    <3>5. \A b \in Blocks : Tag(b)' = "lazy" /\ evals'[b] = 1 =>
           Evaluating(f2, b) \/ (Tag(b) = "lazy" /\ evals[b] = 1 /\ ~Evaluating(f, b))
      BY <1>2, <2>2, <2>3 DEF Tagged, Evaluating
    <3> QED BY <3>1, <3>2, <3>3, <3>4, <3>5, <2>3, <2>5, <2>6, Zenon DEF SetOK, DataOK
  <2>8. f2 \in FrameSet /\ f.b \in Blocks
    BY <2>4, <1>2, <2>h, <2>o, <2>e DEF Runs, Shape, Follows, Walks
  <2> QED BY <2>7, <2>8, SetStep
<1> QED BY <1>3

LEMMA SetFieldKeeps ==
    ASSUME LazyInv, NEW t \in Threads, SetField(t) PROVE LazyInv'
<1>1. PICK f : f = Top(t)
  OBVIOUS
<1>2. Runs(t, f) /\ f.at = "field"
  BY <1>1, Running DEF SetField
<1>f. f = [b |-> f.b, at |-> f.at, own |-> f.own, res |-> f.res, lock |-> f.lock, h |-> f.h]
  BY <1>2 DEF Runs
<1>3. CASE f.b \in heap.next
  <2>d. UNCHANGED data
    BY <1>1, <1>3 DEF SetField, data
  <2>1. PICK f2 : f2 = [f EXCEPT !.at = "share"]
    OBVIOUS
  <2>r. f2 = [b |-> f.b, at |-> "share", own |-> f.own, res |-> f.res, lock |-> f.lock, h |-> f.h]
    BY <1>f, <2>1
  <2>2. QuietOK(t, f, f2)
    <3>1. Set(t, f2)
      BY <1>1, <1>2, <1>3, <2>1, <2>d DEF SetField, Go
    <3>2. f2 \in FrameSet
      BY <1>2, <1>3, <2>r, <2>d DEF Runs, FrameSet, Points, Shape, Owned, Starts, Leaves, Walks
    <3>3. FrameOK(f2)
      BY <1>2, <1>3, <2>r, <2>d DEF Runs, FrameOK, Shape, Owned, Evaluates, Follows, Locks, Starts, Leaves, Walks
    <3>4. \A b \in Blocks : Count(f2, b) = Count(f, b)
      BY <1>2, <1>3, <2>r, <2>d DEF Runs, Count, Shape, Owned, Starts, Leaves, Walks
    <3> QED BY <1>2, <1>3, <2>r, <2>d, <3>1, <3>2, <3>3, <3>4 DEF QuietOK, Runs, Locks, Shape, Starts, Leaves, Walks
  <2> QED BY <2>2, QuietStep
<1>4. CASE f.b \notin heap.next /\ f.lock
  <2>a. field[f.b] = None /\ Tag(f.b) = "whnf"
    BY <1>2, <1>4 DEF Runs, Evaluates
  <2>1. PICK f2 : f2 = [f EXCEPT !.at = EvalDone(f), !.own = @ - 1, !.res = f.b]
    OBVIOUS
  <2>r. f2 = [b |-> f.b, at |-> "leave", own |-> 1, res |-> f.b, lock |-> f.lock, h |-> f.h]
    <3>1. EvalDone(f) = "leave" /\ f.own - 1 = 1
      BY <1>2, <1>4, <2>a DEF Runs, EvalDone, Shape, Owned, Starts, Leaves, Walks
    <3> QED BY <1>f, <2>1, <3>1
  <2>2. Filled(f)
    <3>1. field' = [field EXCEPT ![f.b] = f.res] /\ hdr' = hdr /\ evals' = evals /\ heap' = heap
      BY <1>1, <1>4 DEF SetField
    <3> QED BY <1>2, <1>4, <3>1, FilledData
  <2>3. Set(t, f2) /\ heap' = heap /\ todo' = todo /\ evals' = evals
    BY <1>1, <1>2, <1>4, <2>1, <2>a DEF SetField
  <2>4. f2 \in FrameSet
    BY <1>2, <1>4, <2>r, <2>a DEF Runs, FrameSet, Points, Shape, Owned, Starts, Leaves, Walks
  <2>5. FrameOK(f2)'
    BY <1>2, <1>4, <2>2, <2>3, <2>r, <2>a DEF Filled, Runs, FrameOK, Shape, Owned, Evaluates, Follows, Locks, Starts, Leaves, Walks, Unique, Tag
  <2>6. \A b \in Blocks : Gain(Count(f2, b) + Points1(field', f.b, b) - Count(f, b) - Points1(field, f.b, b), b)
    <3> SUFFICES ASSUME NEW b \in Blocks
                 PROVE  Gain(Count(f2, b) + Points1(field', f.b, b) - Count(f, b) - Points1(field, f.b, b), b)
      OBVIOUS
    <3>1. Points1(field', f.b, b) = (IF f.res = b THEN 1 ELSE 0)
      BY <2>2, ValuesOK DEF Filled, Points1, Values
    <3>2. Count(f2, b) + (IF f.res = b THEN 1 ELSE 0) - Count(f, b) - Points1(field, f.b, b) = 0
      <4>1. f.own = 2 /\ f.b \in Blocks
        BY <1>2, <1>4 DEF Runs, Shape, Owned, Starts, Leaves, Walks
      <4>2. Points1(field, f.b, b) = 0
        BY <2>a, ValuesOK DEF Points1, Values
      <4>3. Count(f2, b) = IF f.b = b THEN f.own ELSE 0
        BY <4>1, <2>r DEF Count
      <4>4. Count(f, b) = (IF f.b = b THEN f.own ELSE 0) + (IF f.res = b THEN 1 ELSE 0)
        BY DEF Count
      <4> QED BY <4>1, <4>2, <4>3, <4>4
    <3>3. hdr[b].rc \in Nat /\ hdr'[b].rc = hdr[b].rc + (0)
      BY <1>2, <2>2, ValuesOK DEF Filled, Values, Header
    <3> QED BY <3>1, <3>2, <3>3 DEF Gain
  <2>7. SetOK(t, f, f2, f.b)
    <3>1. stack[t] # <<>> /\ f = Top(t)
      BY <1>2 DEF Runs
    <3>2. DataOK(f)
      BY <2>2 DEF Tagged, Filled, Pointed, Counted, Once, Counts, Released1
    <3>3. \A d \in Blocks \ {f.b} : field'[d] = field[d]
      BY <2>2 DEF Filled
    <3>4. f.at # "drop" /\ (Locks(f2) => ~hdr[f2.b].blocked \/ (Locks(f) /\ f.b = f2.b))
      BY <1>2, <1>4, <2>r, <2>a DEF Runs, Locks, Shape, Owned, Starts, Leaves, Walks
    <3>5. \A b \in Blocks : Tag(b)' = "lazy" /\ evals'[b] = 1 =>
           Evaluating(f2, b) \/ (Tag(b) = "lazy" /\ evals[b] = 1 /\ ~Evaluating(f, b))
      BY <1>2, <1>4, <2>2, <2>3 DEF Tagged, Filled, Pointed, Counted, Once, Counts, Released1, Evaluating, Tag
    <3> QED BY <3>1, <3>2, <3>3, <3>4, <3>5, <2>3, <2>5, <2>6, Zenon DEF SetOK, DataOK
  <2>8. f2 \in FrameSet /\ f.b \in Blocks
    BY <2>4, <1>2, <2>a DEF Runs, Shape, Follows, Walks
  <2> QED BY <2>7, <2>8, SetStep
<1>5. CASE f.b \notin heap.next /\ ~f.lock
  <2>a. field[f.b] = None /\ Tag(f.b) = "whnf"
    BY <1>2, <1>5 DEF Runs, Evaluates
  <2>1. PICK f2 : f2 = [f EXCEPT !.at = EvalDone(f), !.own = @ - 1, !.res = f.b]
    OBVIOUS
  <2>r. f2 = [b |-> f.b, at |-> "return", own |-> 0, res |-> f.b, lock |-> f.lock, h |-> f.h]
    <3>1. EvalDone(f) = "return" /\ f.own - 1 = 0
      BY <1>2, <1>5, <2>a DEF Runs, EvalDone, Shape, Owned, Starts, Leaves, Walks
    <3> QED BY <1>f, <2>1, <3>1
  <2>2. Filled(f)
    <3>1. field' = [field EXCEPT ![f.b] = f.res] /\ hdr' = hdr /\ evals' = evals /\ heap' = heap
      BY <1>1, <1>5 DEF SetField
    <3> QED BY <1>2, <1>5, <3>1, FilledData
  <2>3. Set(t, f2) /\ heap' = heap /\ todo' = todo /\ evals' = evals
    BY <1>1, <1>2, <1>5, <2>1, <2>a DEF SetField
  <2>4. f2 \in FrameSet
    BY <1>2, <1>5, <2>r, <2>a DEF Runs, FrameSet, Points, Shape, Owned, Starts, Leaves, Walks
  <2>5. FrameOK(f2)'
    BY <1>2, <1>5, <2>2, <2>3, <2>r, <2>a DEF Filled, Runs, FrameOK, Shape, Owned, Evaluates, Follows, Locks, Starts, Leaves, Walks, Unique, Tag
  <2>6. \A b \in Blocks : Gain(Count(f2, b) + Points1(field', f.b, b) - Count(f, b) - Points1(field, f.b, b), b)
    <3> SUFFICES ASSUME NEW b \in Blocks
                 PROVE  Gain(Count(f2, b) + Points1(field', f.b, b) - Count(f, b) - Points1(field, f.b, b), b)
      OBVIOUS
    <3>1. Points1(field', f.b, b) = (IF f.res = b THEN 1 ELSE 0)
      BY <2>2, ValuesOK DEF Filled, Points1, Values
    <3>2. Count(f2, b) + (IF f.res = b THEN 1 ELSE 0) - Count(f, b) - Points1(field, f.b, b) = 0
      <4>1. f.own = 1 /\ f.b \in Blocks
        BY <1>2, <1>5 DEF Runs, Shape, Owned, Starts, Leaves, Walks
      <4>2. Points1(field, f.b, b) = 0
        BY <2>a, ValuesOK DEF Points1, Values
      <4>3. Count(f2, b) = IF f.b = b THEN f.own ELSE 0
        BY <4>1, <2>r DEF Count
      <4>4. Count(f, b) = (IF f.b = b THEN f.own ELSE 0) + (IF f.res = b THEN 1 ELSE 0)
        BY DEF Count
      <4> QED BY <4>1, <4>2, <4>3, <4>4
    <3>3. hdr[b].rc \in Nat /\ hdr'[b].rc = hdr[b].rc + (0)
      BY <1>2, <2>2, ValuesOK DEF Filled, Values, Header
    <3> QED BY <3>1, <3>2, <3>3 DEF Gain
  <2>7. SetOK(t, f, f2, f.b)
    <3>1. stack[t] # <<>> /\ f = Top(t)
      BY <1>2 DEF Runs
    <3>2. DataOK(f)
      BY <2>2 DEF Tagged, Filled, Pointed, Counted, Once, Counts, Released1
    <3>3. \A d \in Blocks \ {f.b} : field'[d] = field[d]
      BY <2>2 DEF Filled
    <3>4. f.at # "drop" /\ (Locks(f2) => ~hdr[f2.b].blocked \/ (Locks(f) /\ f.b = f2.b))
      BY <1>2, <1>5, <2>r, <2>a DEF Runs, Locks, Shape, Owned, Starts, Leaves, Walks
    <3>5. \A b \in Blocks : Tag(b)' = "lazy" /\ evals'[b] = 1 =>
           Evaluating(f2, b) \/ (Tag(b) = "lazy" /\ evals[b] = 1 /\ ~Evaluating(f, b))
      BY <1>2, <1>5, <2>2, <2>3 DEF Tagged, Filled, Pointed, Counted, Once, Counts, Released1, Evaluating, Tag
    <3> QED BY <3>1, <3>2, <3>3, <3>4, <3>5, <2>3, <2>5, <2>6, Zenon DEF SetOK, DataOK
  <2>8. f2 \in FrameSet /\ f.b \in Blocks
    BY <2>4, <1>2, <2>a DEF Runs, Shape, Follows, Walks
  <2> QED BY <2>7, <2>8, SetStep
<1> QED BY <1>3, <1>4, <1>5

LEMMA WalkKeeps ==
    ASSUME LazyInv, NEW t \in Threads, Walk(t) PROVE LazyInv'
<1>1. PICK f : f = Top(t)
  OBVIOUS
<1>2. Runs(t, f) /\ f.at = "walk"
  BY <1>1, Running DEF Walk
<1>f. f = [b |-> f.b, at |-> f.at, own |-> f.own, res |-> f.res, lock |-> f.lock, h |-> f.h]
  BY <1>2 DEF Runs
<1>3. CASE Tag(f.res) # "ind" /\ f.lock
  <2>d. UNCHANGED data
    BY <1>1, <1>3 DEF Walk, data
  <2>1. PICK f2 : f2 = [f EXCEPT !.at = "leave"]
    OBVIOUS
  <2>r. f2 = [b |-> f.b, at |-> "leave", own |-> f.own, res |-> f.res, lock |-> f.lock, h |-> f.h]
    BY <1>f, <2>1
  <2>2. QuietOK(t, f, f2)
    <3>1. Set(t, f2)
      BY <1>1, <1>2, <1>3, <2>1, <2>d DEF Walk, Go, EvalDone
    <3>2. f2 \in FrameSet
      BY <1>2, <1>3, <2>r, <2>d DEF Runs, FrameSet, Points, Shape, Owned, Starts, Leaves, Walks
    <3>3. FrameOK(f2)
      BY <1>2, <1>3, <2>r, <2>d DEF Runs, FrameOK, Shape, Owned, Evaluates, Follows, Locks, Starts, Leaves, Walks
    <3>4. \A b \in Blocks : Count(f2, b) = Count(f, b)
      BY <1>2, <1>3, <2>r, <2>d DEF Runs, Count, Shape, Owned, Starts, Leaves, Walks
    <3> QED BY <1>2, <1>3, <2>r, <2>d, <3>1, <3>2, <3>3, <3>4 DEF QuietOK, Runs, Locks, Shape, Starts, Leaves, Walks
  <2> QED BY <2>2, QuietStep
<1>4. CASE Tag(f.res) # "ind" /\ ~f.lock
  <2>d. UNCHANGED data
    BY <1>1, <1>4 DEF Walk, data
  <2>1. PICK f2 : f2 = [f EXCEPT !.at = "return"]
    OBVIOUS
  <2>r. f2 = [b |-> f.b, at |-> "return", own |-> f.own, res |-> f.res, lock |-> f.lock, h |-> f.h]
    BY <1>f, <2>1
  <2>2. QuietOK(t, f, f2)
    <3>1. Set(t, f2)
      BY <1>1, <1>2, <1>4, <2>1, <2>d DEF Walk, Go, EvalDone
    <3>2. f2 \in FrameSet
      BY <1>2, <1>4, <2>r, <2>d DEF Runs, FrameSet, Points, Shape, Owned, Starts, Leaves, Walks
    <3>3. FrameOK(f2)
      BY <1>2, <1>4, <2>r, <2>d DEF Runs, FrameOK, Shape, Owned, Evaluates, Follows, Locks, Starts, Leaves, Walks
    <3>4. \A b \in Blocks : Count(f2, b) = Count(f, b)
      BY <1>2, <1>4, <2>r, <2>d DEF Runs, Count, Shape, Owned, Starts, Leaves, Walks
    <3> QED BY <1>2, <1>4, <2>r, <2>d, <3>1, <3>2, <3>3, <3>4 DEF QuietOK, Runs, Locks, Shape, Starts, Leaves, Walks
  <2> QED BY <2>2, QuietStep
<1>5. CASE Tag(f.res) = "ind" /\ ~Unique(f.res)
  <2>d. UNCHANGED data
    BY <1>1, <1>5 DEF Walk, data
  <2>a. f.res \in Blocks /\ f.h \in Blocks /\ ~heap.shared /\ Tag(f.h) # "ind" /\ Leads(hdr, field, f.res, f.h)
    BY <1>2 DEF Runs, Follows, Shape, Walks
  <2>n. f.res \in heap.next /\ field[f.res] \in Blocks /\ f.res # f.h
    BY <1>5, <2>a DEF LazyInv, Thunks
  <2>o. Leads(hdr, field, field[f.res], f.h)
    BY <2>a, <2>n, LeadsOn
  <2>u. hdr[f.res].rc # 1
    BY <1>5, <2>a DEF Unique
  <2>1. PICK f2 : f2 = [f EXCEPT !.at = "walk_decref", !.h = [val |-> f.h, next |-> field[f.res]]]
    OBVIOUS
  <2>r. f2 = [b |-> f.b, at |-> "walk_decref", own |-> f.own, res |-> f.res, lock |-> f.lock, h |-> [val |-> f.h, next |-> field[f.res]]]
    BY <1>f, <2>1
  <2>2. QuietOK(t, f, f2)
    <3>1. Set(t, f2)
      BY <1>1, <1>2, <1>5, <2>1, <2>d, <2>a, <2>n, <2>o, <2>u DEF Walk
    <3>2. f2 \in FrameSet
      BY <1>2, <1>5, <2>r, <2>d, <2>a, <2>n, <2>o, <2>u DEF Loaded, Released, Runs, FrameSet, Points, Shape, Owned, Starts, Leaves, Walks
    <3>3. FrameOK(f2)
      BY <1>2, <1>5, <2>r, <2>d, <2>a, <2>n, <2>o, <2>u DEF Released, Runs, FrameOK, Shape, Owned, Evaluates, Follows, Locks, Starts, Leaves, Walks
    <3>4. \A b \in Blocks : Count(f2, b) = Count(f, b)
      BY <1>2, <1>5, <2>r, <2>d, <2>a, <2>n, <2>o, <2>u DEF Runs, Count, Shape, Owned, Starts, Leaves, Walks
    <3> QED BY <1>2, <1>5, <2>r, <2>d, <2>a, <2>n, <2>o, <2>u, <3>1, <3>2, <3>3, <3>4 DEF QuietOK, Runs, Locks, Shape, Starts, Leaves, Walks
  <2> QED BY <2>2, QuietStep
<1>6. CASE Tag(f.res) = "ind" /\ Unique(f.res)
  <2>a. f.res \in Blocks /\ f.h \in Blocks /\ ~heap.shared /\ Tag(f.h) # "ind" /\ Leads(hdr, field, f.res, f.h)
    BY <1>2 DEF Runs, Follows, Shape, Walks
  <2>n. f.res \in heap.next /\ field[f.res] \in Blocks /\ f.res # f.h
    BY <1>6, <2>a DEF LazyInv, Thunks
  <2>h. Has(f, f.res)
    BY <1>2, <2>a DEF Runs, Has, Count, Shape, Owned, Starts, Leaves, Walks
  <2>u. hdr[f.res].rc <= 1
    BY <1>6 DEF Unique
  <2>1. PICK f2 : f2 = [f EXCEPT !.res = field[f.res]]
    OBVIOUS
  <2>r. f2 = [b |-> f.b, at |-> f.at, own |-> f.own, res |-> field[f.res], lock |-> f.lock, h |-> f.h]
    BY <1>f, <2>1
  <2>2. Released1(f, f.res)
    <3>1. hdr' = Freed(f.res) /\ field' = [field EXCEPT ![f.res] = None] /\ heap' = heap /\ evals' = evals
      BY <1>1, <1>2, <1>6 DEF Walk
    <3>2. f.res \in Blocks /\ evals' \in [Blocks -> 0..1] /\ \A b \in Blocks : evals'[b] = evals[b] \/ Own(f, b)
      BY <1>2, <2>a, <3>1, <1>6, ValuesOK DEF Runs, Values, Shape, Walks
    <3> QED BY <1>2, <2>h, <2>u, <3>1, <3>2, FreedData
  <2>3. Set(t, f2) /\ heap' = heap /\ todo' = todo /\ evals' = evals
    BY <1>1, <1>2, <1>6, <2>1, <2>a, <2>n, <2>h, <2>u DEF Walk
  <2>p. Leads(hdr', field', field[f.res], f.h)
    BY <2>2, <2>a, <2>n, LeadsOn DEF Released1
  <2>4. f2 \in FrameSet
    BY <1>2, <1>6, <2>r, <2>a, <2>n, <2>h, <2>u DEF Runs, FrameSet, Points, Shape, Owned, Starts, Leaves, Walks
  <2>5. FrameOK(f2)'
    BY <1>2, <1>6, <2>2, <2>3, <2>r, <2>a, <2>n, <2>h, <2>u, <2>p DEF Released1, Runs, FrameOK, Shape, Owned, Evaluates, Follows, Locks, Starts, Leaves, Walks, Unique, Tag
  <2>6. \A b \in Blocks : Gain(Count(f2, b) + Points1(field', f.res, b) - Count(f, b) - Points1(field, f.res, b), b)
    <3> SUFFICES ASSUME NEW b \in Blocks
                 PROVE  Gain(Count(f2, b) + Points1(field', f.res, b) - Count(f, b) - Points1(field, f.res, b), b)
      OBVIOUS
    <3>1. Points1(field', f.res, b) = 0
      BY <2>2, <2>a, ValuesOK DEF Released1, Points1, Values
    <3>2. Count(f2, b) + 0 - Count(f, b) - Points1(field, f.res, b) = IF b = f.res THEN -1 ELSE 0
      BY <1>2, <2>r, <2>a, <2>n, ValuesOK DEF Runs, Count, Points1, Values
    <3>3. hdr[b].rc \in Nat /\ hdr'[b].rc = hdr[b].rc + (IF b = f.res THEN -1 ELSE 0)
      BY <1>2, <2>2, <2>a, ValuesOK DEF Released1, Values, Header
    <3> QED BY <3>1, <3>2, <3>3 DEF Gain
  <2>7. SetOK(t, f, f2, f.res)
    <3>1. stack[t] # <<>> /\ f = Top(t)
      BY <1>2 DEF Runs
    <3>2. DataOK(f)
      BY <2>2 DEF Tagged, Filled, Pointed, Counted, Once, Counts, Released1
    <3>3. \A d \in Blocks \ {f.res} : field'[d] = field[d]
      BY <1>1, <1>2, <1>6, <2>2 DEF Walk, Released1
    <3>4. f.at # "drop" /\ (Locks(f2) => ~hdr[f2.b].blocked \/ (Locks(f) /\ f.b = f2.b))
      BY <1>2, <1>6, <2>r, <2>a, <2>n, <2>h, <2>u DEF Runs, Locks, Shape, Owned, Starts, Leaves, Walks
    <3>5. \A b \in Blocks : Tag(b)' = "lazy" /\ evals'[b] = 1 =>
           Evaluating(f2, b) \/ (Tag(b) = "lazy" /\ evals[b] = 1 /\ ~Evaluating(f, b))
      BY <1>2, <1>6, <2>2, <2>3 DEF Tagged, Filled, Pointed, Counted, Once, Counts, Released1, Evaluating, Tag
    <3> QED BY <3>1, <3>2, <3>3, <3>4, <3>5, <2>3, <2>5, <2>6, Zenon DEF SetOK, DataOK
  <2>8. f2 \in FrameSet /\ f.res \in Blocks
    BY <2>4, <1>2, <2>a, <2>n, <2>h, <2>u DEF Runs, Shape, Follows, Walks
  <2> QED BY <2>7, <2>8, SetStep
<1> QED BY <1>3, <1>4, <1>5, <1>6

(* An indirection that is shared is released and then updated.              *)
LEMMA WalkDecrefKeeps ==
    ASSUME LazyInv, NEW t \in Threads, WalkDecref(t) PROVE LazyInv'
<1>1. PICK f : f = Top(t)
  OBVIOUS
<1>2. Runs(t, f) /\ f.at = "walk_decref"
  BY <1>1, Running DEF WalkDecref
<1>f. f = [b |-> f.b, at |-> f.at, own |-> f.own, res |-> f.res, lock |-> f.lock, h |-> f.h]
  BY <1>2 DEF Runs
<1>3. LazyInv'
  <2>a. /\ f.res \in Blocks /\ ~heap.shared /\ f.h \in Released /\ Tag(f.h.val) # "ind" /\ hdr[f.res].rc # 1
       /\ Leads(hdr, field, f.h.next, f.h.val) /\ Tag(f.res) = "ind" /\ field[f.res] = f.h.next
    BY <1>2 DEF Runs, Follows, Shape, Walks
  <2>g. f.h.val \in Blocks /\ f.h.next \in Blocks
    BY <2>a DEF Released
  <2>x. PICK x : x = f.res
    OBVIOUS
  <2>h. Has(f, x)
    BY <1>2, <2>a, <2>x DEF Runs, Has, Count, Shape, Owned, Starts, Leaves, Walks
  <2>1. PICK f2 : f2 = [f EXCEPT !.at = "walk_set", !.res = None, !.h = [val |-> f.h.val, next |-> f.h.next, ind |-> f.res]]
    OBVIOUS
  <2>r. f2 = [b |-> f.b, at |-> "walk_set", own |-> f.own, res |-> None, lock |-> f.lock, h |-> [val |-> f.h.val, next |-> f.h.next, ind |-> f.res]]
    BY <1>f, <2>1
  <2>2. Counted(f, x, -1)
    <3>1. hdr' = With(x, -1) /\ field' = field /\ evals' = evals /\ heap' = heap
      BY <1>1, <1>2, <2>a, <2>x, <2>g DEF WalkDecref
    <3>2. -1 \in Int /\ x \in Blocks
      BY <1>2, <2>a, <2>x, <2>g DEF Runs, Shape, Walks
    <3> QED BY <1>2, <2>h, <3>1, <3>2, WithData
  <2>3. Set(t, f2) /\ heap' = heap /\ todo' = todo /\ evals' = evals
    BY <1>1, <1>2, <2>1, <2>a, <2>g, <2>x, <2>h DEF WalkDecref
  <2>p. Leads(hdr', field', f.h.next, f.h.val)
    <3>1. field' = field
      BY <1>1 DEF WalkDecref
    <3> QED BY <2>2, <2>a, <3>1, LeadsSame DEF Counted
  <2>q. field' = field
    BY <1>1 DEF WalkDecref
  <2>4. f2 \in FrameSet
    BY <1>2, <2>r, <2>a, <2>g, <2>x, <2>h DEF Loaded, Redirected, Runs, FrameSet, Points, Shape, Owned, Starts, Leaves, Walks
  <2>5. FrameOK(f2)'
    BY <1>2, <2>2, <2>3, <2>r, <2>a, <2>g, <2>x, <2>h, <2>p, <2>q DEF Counted, Redirected, Runs, FrameOK, Shape, Owned, Evaluates, Follows, Locks, Starts, Leaves, Walks, Unique, Tag
  <2>6. \A b \in Blocks : Gain(Count(f2, b) + Points1(field', f.b, b) - Count(f, b) - Points1(field, f.b, b), b)
    <3> SUFFICES ASSUME NEW b \in Blocks
                 PROVE  Gain(Count(f2, b) + Points1(field', f.b, b) - Count(f, b) - Points1(field, f.b, b), b)
      OBVIOUS
    <3>1. Count(f2, b) - Count(f, b) = IF b = x THEN -1 ELSE 0
      BY <1>2, <2>r, <2>a, <2>g, <2>x, <2>h DEF Runs, Count, Shape, Owned, Starts, Leaves, Walks
    <3>2. hdr'[b].rc = hdr[b].rc + (Count(f2, b) - Count(f, b))
      BY <3>1, <2>2, <1>2, ValuesOK DEF Counted, Values, Header
    <3>3. field' = field
      BY <1>1, <1>2, <2>2, <2>a, <2>g, <2>x, <2>h DEF WalkDecref
    <3> QED BY <3>2, <3>3, <2>4, <1>2, ValuesOK, GainSame DEF Runs
  <2>7. SetOK(t, f, f2, f.b)
    <3>1. stack[t] # <<>> /\ f = Top(t)
      BY <1>2 DEF Runs
    <3>2. DataOK(f)
      BY <2>2 DEF Tagged, Filled, Pointed, Counted, Once, Counts, Released1
    <3>3. \A d \in Blocks \ {f.b} : field'[d] = field[d]
      BY <1>1, <1>2, <2>2 DEF WalkDecref, Released1
    <3>4. f.at # "drop" /\ (Locks(f2) => ~hdr[f2.b].blocked \/ (Locks(f) /\ f.b = f2.b))
      BY <1>2, <2>r, <2>a, <2>g, <2>x, <2>h DEF Runs, Locks, Shape, Owned, Starts, Leaves, Walks
    <3>5. \A b \in Blocks : Tag(b)' = "lazy" /\ evals'[b] = 1 =>
           Evaluating(f2, b) \/ (Tag(b) = "lazy" /\ evals[b] = 1 /\ ~Evaluating(f, b))
      BY <1>2, <2>2, <2>3 DEF Tagged, Filled, Pointed, Counted, Once, Counts, Released1, Evaluating, Tag
    <3> QED BY <3>1, <3>2, <3>3, <3>4, <3>5, <2>3, <2>5, <2>6, Zenon DEF SetOK, DataOK
  <2>8. f2 \in FrameSet /\ f.b \in Blocks
    BY <2>4, <1>2, <2>a, <2>g, <2>x, <2>h DEF Runs, Shape, Follows, Walks
  <2> QED BY <2>7, <2>8, SetStep
<1> QED BY <1>3

LEMMA WalkSetKeeps ==
    ASSUME LazyInv, NEW t \in Threads, WalkSet(t) PROVE LazyInv'
<1>1. PICK f : f = Top(t)
  OBVIOUS
<1>2. Runs(t, f) /\ f.at = "walk_set"
  BY <1>1, Running DEF WalkSet
<1>f. f = [b |-> f.b, at |-> f.at, own |-> f.own, res |-> f.res, lock |-> f.lock, h |-> f.h]
  BY <1>2 DEF Runs
<1>3. LazyInv'
  <2>a. /\ f.h \in Redirected /\ ~heap.shared /\ Tag(f.h.val) # "ind" /\ f.res = None
       /\ Leads(hdr, field, f.h.next, f.h.val) /\ Tag(f.h.ind) = "ind" /\ field[f.h.ind] = f.h.next
    BY <1>2 DEF Runs, Follows, Shape, Walks
  <2>g. f.h.val \in Blocks /\ f.h.next \in Blocks /\ f.h.ind \in Blocks
    BY <2>a DEF Redirected
  <2>x. PICK x, v : x = f.h.ind /\ v = f.h.val
    OBVIOUS
  <2>h. Has(f, v)
    BY <1>2, <2>a, <2>g, <2>x, LeadsField DEF Runs, Has
  <2>1. PICK f2 : f2 = [f EXCEPT !.at = "walk", !.res = f.h.next, !.h = f.h.val]
    OBVIOUS
  <2>r. f2 = [b |-> f.b, at |-> "walk", own |-> f.own, res |-> f.h.next, lock |-> f.lock, h |-> f.h.val]
    BY <1>f, <2>1
  <2>2. Pointed(f, x, v)
    <3>1. hdr' = With(v, 1) /\ field' = [field EXCEPT ![x] = v] /\ evals' = evals /\ heap' = heap
      BY <1>1, <2>x DEF WalkSet
    <3> QED BY <1>2, <2>a, <2>g, <2>x, <2>h, <3>1, PointedData
  <2>3. Set(t, f2) /\ heap' = heap /\ todo' = todo /\ evals' = evals
    BY <1>1, <1>2, <2>1, <2>a, <2>g, <2>x, <2>h DEF WalkSet
  <2>p. Leads(hdr', field', f.h.next, v)
    <3> SUFFICES ASSUME NEW S \in SUBSET Blocks, f.h.next \in S, Closed(hdr', field', S) PROVE v \in S
      BY DEF Leads
    <3>1. CASE x \in S
      <4>1. hdr'[x].tag = "ind" /\ field'[x] = v
        BY <2>2, <2>a, <2>g, <2>x DEF Pointed, Tag
      <4> QED BY <4>1, <3>1 DEF Closed
    <3>2. CASE x \notin S
      <4>1. Closed(hdr, field, S)
        BY <2>2, <3>2 DEF Pointed, Tag, Closed
      <4> QED BY <4>1, <2>a, <2>x DEF Leads
    <3> QED BY <3>1, <3>2
  <2>4. f2 \in FrameSet
    BY <1>2, <2>r, <2>a, <2>g, <2>x, <2>h DEF Loaded, Runs, FrameSet, Points, Shape, Owned, Starts, Leaves, Walks
  <2>5. FrameOK(f2)'
    BY <1>2, <2>2, <2>3, <2>r, <2>a, <2>g, <2>x, <2>h, <2>p DEF Pointed, Runs, FrameOK, Shape, Owned, Evaluates, Follows, Locks, Starts, Leaves, Walks, Unique, Tag
  <2>6. \A b \in Blocks : Gain(Count(f2, b) + Points1(field', x, b) - Count(f, b) - Points1(field, x, b), b)
    <3> SUFFICES ASSUME NEW b \in Blocks
                 PROVE  Gain(Count(f2, b) + Points1(field', x, b) - Count(f, b) - Points1(field, x, b), b)
      OBVIOUS
    <3>1. Points1(field', x, b) = (IF v = b THEN 1 ELSE 0)
      BY <2>2 DEF Pointed, Points1
    <3>2. Count(f2, b) + (IF v = b THEN 1 ELSE 0) - Count(f, b) - Points1(field, x, b) = (IF v = b THEN 1 ELSE 0)
      <4>1. Points1(field, x, b) = IF f.h.next = b THEN 1 ELSE 0
        BY <2>a, <2>x DEF Points1
      <4>2. Count(f, b) = (IF f.b = b THEN f.own ELSE 0) /\ f.own \in 0..2
        BY <1>2, <2>a DEF Runs, Count, Shape
      <4>3. Count(f2, b) = (IF f.b = b THEN f.own ELSE 0) + (IF f.h.next = b THEN 1 ELSE 0)
        BY <2>r DEF Count
      <4> QED BY <4>1, <4>2, <4>3
    <3>3. hdr[b].rc \in Nat /\ hdr'[b].rc = hdr[b].rc + ((IF v = b THEN 1 ELSE 0))
      BY <2>2, ValuesOK DEF Pointed, Values, Header
    <3> QED BY <3>1, <3>2, <3>3 DEF Gain
  <2>7. SetOK(t, f, f2, x)
    <3>1. stack[t] # <<>> /\ f = Top(t)
      BY <1>2 DEF Runs
    <3>2. DataOK(f)
      BY <2>2 DEF Tagged, Filled, Pointed, Counted, Once, Counts, Released1
    <3>3. \A d \in Blocks \ {x} : field'[d] = field[d]
      BY <2>2 DEF Pointed
    <3>4. f.at # "drop" /\ (Locks(f2) => ~hdr[f2.b].blocked \/ (Locks(f) /\ f.b = f2.b))
      BY <1>2, <2>r, <2>a, <2>g, <2>x, <2>h DEF Runs, Locks, Shape, Owned, Starts, Leaves, Walks
    <3>5. \A b \in Blocks : Tag(b)' = "lazy" /\ evals'[b] = 1 =>
           Evaluating(f2, b) \/ (Tag(b) = "lazy" /\ evals[b] = 1 /\ ~Evaluating(f, b))
      BY <1>2, <2>2, <2>3 DEF Tagged, Filled, Pointed, Counted, Once, Counts, Released1, Evaluating, Tag
    <3> QED BY <3>1, <3>2, <3>3, <3>4, <3>5, <2>3, <2>5, <2>6, Zenon DEF SetOK, DataOK
  <2>8. f2 \in FrameSet /\ x \in Blocks
    BY <2>4, <1>2, <2>a, <2>g, <2>x, <2>h DEF Runs, Shape, Follows, Walks
  <2> QED BY <2>7, <2>8, SetStep
<1> QED BY <1>3

(* A thunk is evaluated without, and with, forcing its argument first.      *)
LEMMA MatchLazyHere ==
    ASSUME LazyInv, NEW t \in Threads, MatchLazy(t),
           Top(t).b \in heap.next \/ field[Top(t).b] = None
    PROVE  LazyInv'
<1>1. PICK f : f = Top(t)
  OBVIOUS
<1>2. Runs(t, f) /\ f.at = "match"
  BY <1>1, Running DEF MatchLazy
<1>f. f = [b |-> f.b, at |-> f.at, own |-> f.own, res |-> f.res, lock |-> f.lock, h |-> f.h]
  BY <1>2 DEF Runs
<1>3. CASE Tag(f.b) = "lazy" /\ f.b \in heap.next /\ Unique(f.b)
  <2>h. Has(f, f.b)
    BY <1>2 DEF Runs, Has, Count, Shape, Owned, Starts, Leaves, Walks
  <2>u. hdr[f.b].rc <= 1 /\ ~heap.shared
    BY <1>2, <1>3 DEF Unique
  <2>n. f.at # "tag" /\ f.own >= 1 /\ f.res = None
    BY <1>2 DEF Runs, Shape, Owned, Starts, Leaves, Walks
  <2>o. Own(f, f.b)
    BY <1>2, <1>3, <2>h DEF Runs, Own, Has, Locks, Evaluates, Unique, Shape, Owned, Starts, Leaves, Walks
  <2>a. field[f.b] \in Blocks /\ f.res = None
    BY <1>2, <1>3 DEF Runs, LazyInv, Thunks, Shape, Owned, Starts, Leaves, Walks
  <2>l. f.own = 1 /\ ~f.lock /\ field[f.b] # f.b
    <3>1. Count(f, f.b) \in Nat /\ Points1(field, f.b, f.b) \in 0..1 /\ Count(f, f.b) + Points1(field, f.b, f.b) <= 1
      BY <1>2, <2>h, <2>u, LastRef DEF Runs
    <3>2. Count(f, f.b) = f.own /\ f.own \in 1..2 /\ (f.lock => f.own = 2)
      BY <1>2, <2>a, ValuesOK DEF Runs, Count, Values, Shape, Owned, Starts, Leaves, Walks
    <3>3. f.own = 1 /\ ~f.lock /\ Points1(field, f.b, f.b) = 0
      BY <3>1, <3>2
    <3> QED BY <3>3 DEF Points1
  <2>1. PICK f2 : f2 = [f EXCEPT !.at = "return", !.own = 0, !.res = field[f.b]]
    OBVIOUS
  <2>r. f2 = [b |-> f.b, at |-> "return", own |-> 0, res |-> field[f.b], lock |-> f.lock, h |-> f.h]
    BY <1>f, <2>1
  <2>2. Released1(f, f.b)
    <3>1. hdr' = Freed(f.b) /\ field' = [field EXCEPT ![f.b] = None] /\ heap' = heap /\ evals' = [evals EXCEPT ![f.b] = @ + 1]
      BY <1>1, <1>3 DEF MatchLazy
    <3>2. Counts(f)
      BY <1>2, <1>3, <2>n, <2>o, <3>1, OnceData
    <3>3. f.b \in Blocks /\ evals' \in [Blocks -> 0..1] /\ \A b \in Blocks : evals'[b] = evals[b] \/ Own(f, b)
      BY <1>2, <2>o, <3>2 DEF Counts, Runs
    <3> QED BY <1>2, <2>h, <2>u, <3>1, <3>3, FreedData
  <2>3. Set(t, f2) /\ heap' = heap /\ todo' = todo /\ \A b \in Blocks \ {f.b} : evals'[b] = evals[b]
    BY <1>1, <1>2, <1>3, <2>1, <2>h, <2>u, <2>n, <2>o, <2>a, <2>l DEF MatchLazy
  <2>4. f2 \in FrameSet
    BY <1>2, <1>3, <2>r, <2>h, <2>u, <2>n, <2>o, <2>a, <2>l DEF Runs, FrameSet, Points, Shape, Owned, Starts, Leaves, Walks
  <2>5. FrameOK(f2)'
    BY <1>2, <1>3, <2>2, <2>3, <2>r, <2>h, <2>u, <2>n, <2>o, <2>a, <2>l DEF Released1, Runs, FrameOK, Shape, Owned, Evaluates, Follows, Locks, Starts, Leaves, Walks, Unique, Tag
  <2>6. \A b \in Blocks : Gain(Count(f2, b) + Points1(field', f.b, b) - Count(f, b) - Points1(field, f.b, b), b)
    <3> SUFFICES ASSUME NEW b \in Blocks
                 PROVE  Gain(Count(f2, b) + Points1(field', f.b, b) - Count(f, b) - Points1(field, f.b, b), b)
      OBVIOUS
    <3>1. Points1(field', f.b, b) = 0
      BY <2>2, ValuesOK DEF Released1, Points1, Values
    <3>2. Count(f2, b) + 0 - Count(f, b) - Points1(field, f.b, b) = IF b = f.b THEN -1 ELSE 0
      BY <1>2, <2>r, <2>a, <2>l, ValuesOK DEF Runs, Count, Points1, Values
    <3>3. hdr[b].rc \in Nat /\ hdr'[b].rc = hdr[b].rc + (IF b = f.b THEN -1 ELSE 0)
      BY <1>2, <2>2, ValuesOK DEF Released1, Values, Header
    <3> QED BY <3>1, <3>2, <3>3 DEF Gain
  <2>7. SetOK(t, f, f2, f.b)
    <3>1. stack[t] # <<>> /\ f = Top(t)
      BY <1>2 DEF Runs
    <3>2. DataOK(f)
      BY <2>2 DEF Tagged, Filled, Pointed, Counted, Once, Counts, Released1
    <3>3. \A d \in Blocks \ {f.b} : field'[d] = field[d]
      BY <1>1, <1>2, <1>3, <2>2 DEF MatchLazy, Released1
    <3>4. f.at # "drop" /\ (Locks(f2) => ~hdr[f2.b].blocked \/ (Locks(f) /\ f.b = f2.b))
      BY <1>2, <1>3, <2>r, <2>h, <2>u, <2>n, <2>o, <2>a, <2>l DEF Runs, Locks, Shape, Owned, Starts, Leaves, Walks
    <3>5. \A b \in Blocks : Tag(b)' = "lazy" /\ evals'[b] = 1 =>
           Evaluating(f2, b) \/ (Tag(b) = "lazy" /\ evals[b] = 1 /\ ~Evaluating(f, b))
      BY <1>2, <1>3, <2>2, <2>3 DEF Released1, Evaluating, Tag
    <3> QED BY <3>1, <3>2, <3>3, <3>4, <3>5, <2>3, <2>5, <2>6, Zenon DEF SetOK, DataOK
  <2>8. f2 \in FrameSet /\ f.b \in Blocks
    BY <2>4, <1>2, <2>h, <2>u, <2>n, <2>o, <2>a, <2>l DEF Runs, Shape, Follows, Walks
  <2> QED BY <2>7, <2>8, SetStep
<1>4. CASE Tag(f.b) = "lazy" /\ f.b \in heap.next /\ ~Unique(f.b)
  <2>h. Has(f, f.b)
    BY <1>2 DEF Runs, Has, Count, Shape, Owned, Starts, Leaves, Walks
  <2>n. f.at # "tag" /\ f.own >= 1 /\ f.res = None
    BY <1>2 DEF Runs, Shape, Owned, Starts, Leaves, Walks
  <2>o. Own(f, f.b)
    BY <1>2, <1>4, <2>h DEF Runs, Own, Has, Locks, Evaluates, Unique, Shape, Owned, Starts, Leaves, Walks
  <2>e. field' = field
    BY <1>1, <1>4 DEF MatchLazy
  <2>u. f.lock \/ Unique(f.b)
    BY <1>2, <1>4 DEF Runs, Evaluates
  <2>1. PICK f2 : f2 = [f EXCEPT !.at = "tag"]
    OBVIOUS
  <2>r. f2 = [b |-> f.b, at |-> "tag", own |-> f.own, res |-> f.res, lock |-> f.lock, h |-> f.h]
    BY <1>f, <2>1
  <2>2. Once(f)
    <3>1. evals' = [evals EXCEPT ![f.b] = @ + 1] /\ hdr' = hdr /\ field' = field /\ heap' = heap
      BY <1>1, <1>4 DEF MatchLazy
    <3> QED BY <1>2, <1>4, <2>n, <2>o, <3>1, StartData
  <2>3. Set(t, f2) /\ heap' = heap /\ todo' = todo /\ Counts(f)
    BY <2>2, <1>1, <1>2, <1>4, <2>1, <2>h, <2>n, <2>o, <2>e, <2>u DEF MatchLazy, Go, Once
  <2>4. f2 \in FrameSet
    BY <1>2, <1>4, <2>r, <2>h, <2>n, <2>o, <2>e, <2>u DEF Runs, FrameSet, Points, Shape, Owned, Starts, Leaves, Walks
  <2>5. FrameOK(f2)'
    BY <1>2, <1>4, <2>2, <2>3, <2>r, <2>h, <2>n, <2>o, <2>e, <2>u DEF Once, Counts, Runs, FrameOK, Shape, Owned, Evaluates, Follows, Locks, Starts, Leaves, Walks, Unique, Tag
  <2>6. \A b \in Blocks : Gain(Count(f2, b) + Points1(field', f.b, b) - Count(f, b) - Points1(field, f.b, b), b)
    <3> SUFFICES ASSUME NEW b \in Blocks
                 PROVE  Gain(Count(f2, b) + Points1(field', f.b, b) - Count(f, b) - Points1(field, f.b, b), b)
      OBVIOUS
    <3>1. Count(f2, b) - Count(f, b) = 0
      BY <1>2, <1>4, <2>r, <2>h, <2>n, <2>o, <2>e, <2>u DEF Runs, Count, Shape, Owned, Starts, Leaves, Walks
    <3>2. hdr'[b].rc = hdr[b].rc + (Count(f2, b) - Count(f, b))
      BY <3>1, <2>2, <1>2, ValuesOK DEF Once, Values, Header
    <3>3. field' = field
      BY <1>1, <1>2, <2>2, <1>4, <2>h, <2>n, <2>o, <2>e, <2>u DEF MatchLazy, Go
    <3> QED BY <3>2, <3>3, <2>4, <1>2, ValuesOK, GainSame DEF Runs
  <2>7. SetOK(t, f, f2, f.b)
    <3>1. stack[t] # <<>> /\ f = Top(t)
      BY <1>2 DEF Runs
    <3>2. DataOK(f)
      BY <2>2 DEF Tagged, Filled, Pointed, Counted, Once, Counts, Released1
    <3>3. \A d \in Blocks \ {f.b} : field'[d] = field[d]
      BY <1>1, <1>2, <1>4, <2>2 DEF MatchLazy, Go, Released1
    <3>4. f.at # "drop" /\ (Locks(f2) => ~hdr[f2.b].blocked \/ (Locks(f) /\ f.b = f2.b))
      BY <1>2, <1>4, <2>r, <2>h, <2>n, <2>o, <2>e, <2>u DEF Runs, Locks, Shape, Owned, Starts, Leaves, Walks
    <3>5. \A b \in Blocks : Tag(b)' = "lazy" /\ evals'[b] = 1 =>
           Evaluating(f2, b) \/ (Tag(b) = "lazy" /\ evals[b] = 1 /\ ~Evaluating(f, b))
      BY <2>2, <2>3, <2>r DEF Once, Counts, Evaluating, Tag
    <3> QED BY <3>1, <3>2, <3>3, <3>4, <3>5, <2>3, <2>5, <2>6, Zenon DEF SetOK, DataOK
  <2>8. f2 \in FrameSet /\ f.b \in Blocks
    BY <2>4, <1>2, <2>h, <2>n, <2>o, <2>e, <2>u DEF Runs, Shape, Follows, Walks
  <2> QED BY <2>7, <2>8, SetStep
<1>5. CASE Tag(f.b) = "lazy" /\ f.b \notin heap.next /\ field[f.b] = None
  <2>h. Has(f, f.b)
    BY <1>2 DEF Runs, Has, Count, Shape, Owned, Starts, Leaves, Walks
  <2>n. f.at # "tag" /\ f.own >= 1 /\ f.res = None
    BY <1>2 DEF Runs, Shape, Owned, Starts, Leaves, Walks
  <2>o. Own(f, f.b)
    BY <1>2, <1>5, <2>h DEF Runs, Own, Has, Locks, Evaluates, Unique, Shape, Owned, Starts, Leaves, Walks
  <2>e. field' = field
    BY <1>1, <1>5 DEF MatchLazy
  <2>u. f.lock \/ Unique(f.b)
    BY <1>2, <1>5 DEF Runs, Evaluates
  <2>1. PICK f2 : f2 = [f EXCEPT !.at = "tag"]
    OBVIOUS
  <2>r. f2 = [b |-> f.b, at |-> "tag", own |-> f.own, res |-> f.res, lock |-> f.lock, h |-> f.h]
    BY <1>f, <2>1
  <2>2. Once(f)
    <3>1. evals' = [evals EXCEPT ![f.b] = @ + 1] /\ hdr' = hdr /\ field' = field /\ heap' = heap
      BY <1>1, <1>5 DEF MatchLazy
    <3> QED BY <1>2, <1>5, <2>n, <2>o, <3>1, StartData
  <2>3. Set(t, f2) /\ heap' = heap /\ todo' = todo /\ Counts(f)
    BY <2>2, <1>1, <1>2, <1>5, <2>1, <2>h, <2>n, <2>o, <2>e, <2>u DEF MatchLazy, Go, Once
  <2>4. f2 \in FrameSet
    BY <1>2, <1>5, <2>r, <2>h, <2>n, <2>o, <2>e, <2>u DEF Runs, FrameSet, Points, Shape, Owned, Starts, Leaves, Walks
  <2>5. FrameOK(f2)'
    BY <1>2, <1>5, <2>2, <2>3, <2>r, <2>h, <2>n, <2>o, <2>e, <2>u DEF Once, Counts, Runs, FrameOK, Shape, Owned, Evaluates, Follows, Locks, Starts, Leaves, Walks, Unique, Tag
  <2>6. \A b \in Blocks : Gain(Count(f2, b) + Points1(field', f.b, b) - Count(f, b) - Points1(field, f.b, b), b)
    <3> SUFFICES ASSUME NEW b \in Blocks
                 PROVE  Gain(Count(f2, b) + Points1(field', f.b, b) - Count(f, b) - Points1(field, f.b, b), b)
      OBVIOUS
    <3>1. Count(f2, b) - Count(f, b) = 0
      BY <1>2, <1>5, <2>r, <2>h, <2>n, <2>o, <2>e, <2>u DEF Runs, Count, Shape, Owned, Starts, Leaves, Walks
    <3>2. hdr'[b].rc = hdr[b].rc + (Count(f2, b) - Count(f, b))
      BY <3>1, <2>2, <1>2, ValuesOK DEF Once, Values, Header
    <3>3. field' = field
      BY <1>1, <1>2, <2>2, <1>5, <2>h, <2>n, <2>o, <2>e, <2>u DEF MatchLazy, Go
    <3> QED BY <3>2, <3>3, <2>4, <1>2, ValuesOK, GainSame DEF Runs
  <2>7. SetOK(t, f, f2, f.b)
    <3>1. stack[t] # <<>> /\ f = Top(t)
      BY <1>2 DEF Runs
    <3>2. DataOK(f)
      BY <2>2 DEF Tagged, Filled, Pointed, Counted, Once, Counts, Released1
    <3>3. \A d \in Blocks \ {f.b} : field'[d] = field[d]
      BY <1>1, <1>2, <1>5, <2>2 DEF MatchLazy, Go, Released1
    <3>4. f.at # "drop" /\ (Locks(f2) => ~hdr[f2.b].blocked \/ (Locks(f) /\ f.b = f2.b))
      BY <1>2, <1>5, <2>r, <2>h, <2>n, <2>o, <2>e, <2>u DEF Runs, Locks, Shape, Owned, Starts, Leaves, Walks
    <3>5. \A b \in Blocks : Tag(b)' = "lazy" /\ evals'[b] = 1 =>
           Evaluating(f2, b) \/ (Tag(b) = "lazy" /\ evals[b] = 1 /\ ~Evaluating(f, b))
      BY <2>2, <2>3, <2>r DEF Once, Counts, Evaluating, Tag
    <3> QED BY <3>1, <3>2, <3>3, <3>4, <3>5, <2>3, <2>5, <2>6, Zenon DEF SetOK, DataOK
  <2>8. f2 \in FrameSet /\ f.b \in Blocks
    BY <2>4, <1>2, <2>h, <2>n, <2>o, <2>e, <2>u DEF Runs, Shape, Follows, Walks
  <2> QED BY <2>7, <2>8, SetStep
<1> QED BY <1>1, <1>3, <1>4, <1>5 DEF MatchLazy

---------------------------------------------------------------------------
(* Steps that push, pop and return.                                         *)
LEMMA CountStep ==
    ASSUME LazyInv, NEW t \in Threads, NEW k \in Nat, Len(stack[t]) \in k .. k + 2, Replaces(t, k),
           todo' = todo, heap' = heap, NEW c \in Blocks, \A x \in Blocks \ {c} : field'[x] = field[x],
           DataTypes',
           \A b \in Blocks : Gain(Above(stack'[t], k, b) + Points1(field', c, b)
                                  - Above(stack[t], k, b) - Points1(field, c, b), b)
    PROVE  CountsCover'
<1>1. /\ stack \in [Threads -> Seq(FrameSet)] /\ todo \in [Threads -> Seq(Blocks)]
      /\ stack' \in [Threads -> Seq(FrameSet)] /\ hdr \in [Blocks -> Header]
      /\ \A u \in Threads \ {t} : stack'[u] = stack[u]
      /\ Same(stack[t], stack'[t], k) /\ Len(stack'[t]) \in k .. k + 2
  BY DEF LazyInv, LazyTypes, Replaces
<1> SUFFICES ASSUME NEW b \in Blocks
             PROVE  /\ hdr'[b].rc >= Refs(b)'
                    /\ ~heap.shared => hdr'[b].rc = Refs(b)'
  BY DEF CountsCover
<1>2. Balanced(todo, stack, stack', field, field', t, k, c, b)
  BY <1>1, Balance
<1>3. PICK r \in Nat :
        /\ Cardinality(RefSet(todo, stack, field, b)) = r + Above(stack[t], k, b) + Points1(field, c, b)
        /\ Cardinality(RefSet(todo, stack', field', b)) = r + Above(stack'[t], k, b) + Points1(field', c, b)
  BY <1>2 DEF Balanced
<1>4. /\ Refs(b) = r + Above(stack[t], k, b) + Points1(field, c, b)
      /\ Refs(b)' = r + Above(stack'[t], k, b) + Points1(field', c, b)
  BY <1>3, RefsAre
<1>5. /\ hdr[b].rc >= Refs(b)
      /\ ~heap.shared => hdr[b].rc = Refs(b)
  BY DEF LazyInv, CountsCover
<1>6. Above(stack[t], k, b) \in Nat /\ Above(stack'[t], k, b) \in Nat
  <2>1. stack[t] \in Seq(FrameSet) /\ stack'[t] \in Seq(FrameSet)
    BY <1>1
  <2> QED BY <2>1, <1>1, AboveNat
<1>7. Points1(field, c, b) \in 0..1 /\ Points1(field', c, b) \in 0..1
  BY DEF Points1
<1>8. hdr[b].rc \in Int /\ hdr'[b].rc \in Int
  BY <1>1 DEF Header, DataTypes
<1>9. Gain(Above(stack'[t], k, b) + Points1(field', c, b) - Above(stack[t], k, b) - Points1(field, c, b), b)
  OBVIOUS
<1>10. PICK a, a2, p, p2 : /\ a = Above(stack[t], k, b) /\ a2 = Above(stack'[t], k, b)
                           /\ p = Points1(field, c, b) /\ p2 = Points1(field', c, b)
  OBVIOUS
<1>11. /\ hdr'[b].rc >= hdr[b].rc + (a2 + p2 - a - p)
       /\ ~heap.shared => hdr'[b].rc = hdr[b].rc + (a2 + p2 - a - p)
  BY <1>9, <1>10 DEF Gain
<1>12. Refs(b) = r + a + p /\ Refs(b)' = r + a2 + p2 /\ a \in Nat /\ a2 \in Nat /\ p \in Nat /\ p2 \in Nat
  <2>1. Refs(b) = r + a + p /\ Refs(b)' = r + a2 + p2
    BY <1>4, <1>10, Zenon
  <2>2. a \in Nat /\ a2 \in Nat /\ p \in 0..1 /\ p2 \in 0..1
    BY <1>6, <1>7, <1>10, Zenon
  <2>3. p \in Nat /\ p2 \in Nat
    BY <2>2
  <2> QED BY <2>1, <2>2, <2>3, Zenon
<1> QED BY <1>5, <1>8, <1>11, <1>12

(* What is known of the frames of t when f is the top one and k the number  *)
(* of those below it.                                                       *)
Below(t, k, f) ==
    /\ k \in Nat /\ Len(stack[t]) = k + 1 /\ Len(stack[t]) \in k .. k + 2 /\ k + 1 # k /\ k = Len(stack[t]) - 1
    /\ Fr(t, k + 1) = f /\ Holds(t, k)
    /\ \A m \in k + 1 .. Len(stack[t]) : m = k + 1 /\ Fr(t, m) = f
    /\ k + 1 \in k + 1 .. Len(stack[t])
    /\ \A b : Above(stack[t], k, b) = Count(f, b)
    /\ \A b : Held(t, k, b) <=> Has(f, b)
    /\ \A b : Mine(t, k, b) <=> Own(f, b)
    /\ k >= 1 => Under(Fr(t, k), f) /\ Fr(t, k) \in FrameSet /\ FrameOK(Fr(t, k))
    /\ k >= 1 /\ f.at # "drop" => Fr(t, k).at = "tag" /\ Fr(t, k).b \notin heap.next /\ Fr(t, k).res = None

LEMMA TopBelow ==
    ASSUME LazyInv, NEW t \in Threads, NEW f, Runs(t, f)
    PROVE  \E k : Below(t, k, f)
<1>1. /\ stack[t] # <<>> /\ f = Top(t) /\ f \in FrameSet
      /\ stack[t] \in Seq(FrameSet) /\ Len(stack[t]) \in Nat /\ Len(stack[t]) >= 1
      /\ f = Fr(t, Len(stack[t]))
  BY TopKnows DEF Runs
<1>2. PICK k \in Nat : Len(stack[t]) = k + 1 /\ Len(stack[t]) \in k .. k + 2 /\ k + 1 # k /\ k = Len(stack[t]) - 1
  <2> DEFINE j == Len(stack[t]) - 1
  <2>1. j \in Nat /\ Len(stack[t]) = j + 1 /\ Len(stack[t]) \in j .. j + 2 /\ j + 1 # j
    BY <1>1
  <2>2. j = Len(stack[t]) - 1
    OBVIOUS
  <2> HIDE DEF j
  <2> QED BY <2>1, <2>2
<1>3. Fr(t, k + 1) = f /\ Holds(t, k) /\ k + 1 \in k + 1 .. Len(stack[t])
  <2>1. Fr(t, k + 1) = f
    BY <1>1, <1>2
  <2>2. Holds(t, k)
    BY <1>2 DEF Holds
  <2> QED BY <2>1, <2>2, <1>2
<1>4. \A m \in k + 1 .. Len(stack[t]) : m = k + 1 /\ Fr(t, m) = f
  <2>1. \A m \in k + 1 .. Len(stack[t]) : m = k + 1
    BY <1>2
  <2> QED BY <2>1, <1>3
<1>5. \A b : Above(stack[t], k, b) = Count(f, b)
  <2>1. FromLast(stack[t], k + 1) = f /\ Len(stack[t]) # k /\ Len(stack[t]) = k + 1
    BY <1>2, <1>3 DEF Fr
  <2> QED BY <2>1, Zenon DEF Above
<1>6. \A b : Held(t, k, b) <=> Has(f, b)
  BY <1>5 DEF Held, Has
<1>7. \A b : Mine(t, k, b) <=> Own(f, b)
  <2>1. \A m : m \in k + 1 .. Len(stack[t]) <=> m = k + 1
    BY <1>2
  <2> QED BY <2>1, <1>3, <1>6 DEF Mine, Own
<1>8. ASSUME k >= 1
      PROVE  Under(Fr(t, k), f) /\ Fr(t, k) \in FrameSet /\ FrameOK(Fr(t, k))
  <2>1. k \in 1 .. Len(stack[t]) - 1 /\ k \in 1 .. Len(stack[t])
    BY <1>8, <1>2
  <2>2. Under(Fr(t, k), f)
    BY <2>1, <1>3 DEF LazyInv, Nested
  <2>3. Fr(t, k) \in FrameSet
    BY <2>1, <1>1, FrameIn DEF Fr
  <2> QED BY <2>1, <2>2, <2>3 DEF LazyInv, FramesOK
<1>9. k >= 1 /\ f.at # "drop" => Fr(t, k).at = "tag" /\ Fr(t, k).b \notin heap.next /\ Fr(t, k).res = None
  BY <1>8 DEF Under
<1> QED BY <1>2, <1>3, <1>4, <1>5, <1>6, <1>7, <1>8, <1>9 DEF Below

(* f becomes f2, and g is pushed.                                           *)
PushOK(t, f, f2, g, c) ==
    /\ stack' = [stack EXCEPT ![t] = <<g, f2>> \o Tail(@)] /\ heap' = heap /\ todo' = todo
    /\ DataOK(f) /\ f2 \in FrameSet /\ g \in FrameSet /\ c \in Blocks
    /\ \A x \in Blocks \ {c} : field'[x] = field[x]
    /\ \A b \in Blocks : Gain(Count(f2, b) + Count(g, b) + Points1(field', c, b)
                              - Count(f, b) - Points1(field, c, b), b)
    /\ FrameOK(f2)' /\ FrameOK(g)' /\ Under(f2, g) /\ ~Locks(g) /\ f.at # "drop"
    /\ Locks(f2) => Locks(f) /\ f.b = f2.b
    /\ \A b \in Blocks : Tag(b)' = "lazy" /\ evals'[b] = 1 =>
         Evaluating(f2, b) \/ (Tag(b) = "lazy" /\ evals[b] = 1 /\ ~Evaluating(f, b))

LEMMA PushStep ==
    ASSUME LazyInv, NEW t \in Threads, NEW f, NEW f2, NEW g, NEW c, Runs(t, f), PushOK(t, f, f2, g, c)
    PROVE  LazyInv'
<1>1. /\ stack' = [stack EXCEPT ![t] = <<g, f2>> \o Tail(@)] /\ heap' = heap /\ todo' = todo
      /\ f2 \in FrameSet /\ g \in FrameSet /\ c \in Blocks /\ DataTypes' /\ Thunks'
      /\ \A x \in Blocks \ {c} : field'[x] = field[x]
      /\ stack \in [Threads -> Seq(FrameSet)] /\ todo \in [Threads -> Seq(Blocks)]
      /\ stack[t] # <<>> /\ stack[t] \in Seq(FrameSet)
  BY DEF PushOK, DataOK, LazyInv, LazyTypes, Runs
<1>2. PICK k : Below(t, k, f)
  BY TopBelow
<1>3. /\ k \in Nat /\ Len(stack[t]) = k + 1 /\ Len(stack[t]) \in k .. k + 2 /\ k + 1 # k /\ k = Len(stack[t]) - 1
      /\ Holds(t, k) /\ Fr(t, k + 1) = f
  BY <1>2 DEF Below
<1>4. /\ stack'[t] \in Seq(FrameSet) /\ Len(stack'[t]) = k + 2 /\ Same(stack[t], stack'[t], k)
      /\ FromLast(stack'[t], k + 1) = f2 /\ FromLast(stack'[t], k + 2) = g
  <2>1. stack'[t] = <<g, f2>> \o Tail(stack[t])
    BY <1>1
  <2>2. /\ stack'[t] \in Seq(FrameSet) /\ Len(stack'[t]) = Len(stack[t]) + 1
        /\ FromLast(stack'[t], Len(stack[t]) + 1) = g /\ FromLast(stack'[t], Len(stack[t])) = f2
        /\ Same(stack[t], stack'[t], Len(stack[t]) - 1)
    BY <2>1, <1>1, PushFrames
  <2>3. Len(stack[t]) + 1 = k + 2
    BY <1>3
  <2> QED BY <2>2, <2>3, <1>3
<1>5. Replaces(t, k)
  <2>1. stack' \in [Threads -> Seq(FrameSet)] /\ \A u \in Threads \ {t} : stack'[u] = stack[u]
    BY <1>1, <1>4
  <2> QED BY <2>1, <1>1, <1>3, <1>4 DEF Replaces
<1>6. \A b : Above(stack'[t], k, b) = Count(f2, b) + Count(g, b)
  <2>1. Len(stack'[t]) # k /\ Len(stack'[t]) # k + 1
    BY <1>3, <1>4
  <2> QED BY <2>1, <1>4 DEF Above
<1>7. Fair(t, k)
  <2>1. \A b \in Blocks : FairBlock(b, Has(f, b), Own(f, b))
    BY DEF PushOK, DataOK
  <2>2. ASSUME NEW b \in Blocks PROVE FairBlock(b, Held(t, k, b), Mine(t, k, b))
    BY <2>1, <1>2 DEF Below, FairBlock, FairHeader, FairField
  <2> QED BY <2>2, <1>1 DEF Fair
<1>8. CountsCover'
  <2>1. ASSUME NEW b \in Blocks
        PROVE  Gain(Above(stack'[t], k, b) + Points1(field', c, b) - Above(stack[t], k, b) - Points1(field, c, b), b)
    <3>1. Above(stack[t], k, b) = Count(f, b) /\ Above(stack'[t], k, b) = Count(f2, b) + Count(g, b)
      BY <1>2, <1>6 DEF Below
    <3> QED BY <3>1 DEF PushOK
  <2> QED BY <2>1, <1>1, <1>3, <1>5, CountStep
<1>9. \A m \in k + 1 .. Len(stack'[t]) : (m = k + 1 /\ Fr(t, m)' = f2) \/ (m = k + 2 /\ Fr(t, m)' = g)
  <2>1. \A m \in k + 1 .. Len(stack'[t]) : m = k + 1 \/ m = k + 2
    BY <1>3, <1>4
  <2>2. Fr(t, k + 1)' = f2 /\ Fr(t, k + 2)' = g
    BY <1>4 DEF Fr
  <2> QED BY <2>1, <2>2, <1>4 DEF Fr
<1>10. \A m \in k + 1 .. Len(stack'[t]) : FrameOK(Fr(t, m))'
  <2> SUFFICES ASSUME NEW m \in k + 1 .. Len(stack'[t]) PROVE FrameOK(Fr(t, m))'
    OBVIOUS
  <2>1. PICK e : e = Fr(t, m)' /\ FrameOK(e)'
    BY <1>9 DEF PushOK
  <2> QED BY <2>1 DEF FrameOK, Shape, Owned, Evaluates, Follows, Locks, Tag, Unique
<1>11. NewLocks(t, k)
  <2> SUFFICES ASSUME NEW m \in k + 1 .. Len(stack'[t]), Locks(Fr(t, m))'
               PROVE  /\ \A j \in k + 1 .. Len(stack'[t]) : Locks(Fr(t, j))' => j = m
                      /\ \E j \in k + 1 .. Len(stack[t]) : Locks(Fr(t, j)) /\ Fr(t, j).b = Fr(t, m)'.b
    BY DEF NewLocks
  <2>1. \A j \in k + 1 .. Len(stack'[t]) : Locks(Fr(t, j))' => j = k + 1 /\ Fr(t, j)' = f2 /\ Locks(f2)
    BY <1>9 DEF PushOK, Locks
  <2>2. m = k + 1 /\ Fr(t, m)' = f2 /\ Locks(f2)
    BY <2>1
  <2>3. Locks(f) /\ f.b = f2.b
    BY <2>2 DEF PushOK
  <2>4. Locks(Fr(t, k + 1)) /\ Fr(t, k + 1).b = f2.b /\ k + 1 \in k + 1 .. Len(stack[t])
    BY <2>3, <1>2 DEF Below
  <2> QED BY <2>1, <2>2, <2>4
<1>12. NewUnder(t, k)
  <2> SUFFICES ASSUME NEW m \in k .. Len(stack'[t]) - 1, m >= 1
               PROVE  Under(Fr(t, m), Fr(t, m + 1))'
    BY DEF NewUnder
  <2>1. m = k \/ m = k + 1
    BY <1>3, <1>4
  <2>2. CASE m = k + 1
    <3>1. Fr(t, m)' = f2 /\ Fr(t, m + 1)' = g
      <4>1. m + 1 = k + 2
        BY <2>2, <1>3
      <4> QED BY <4>1, <2>2, <1>4 DEF Fr
    <3> QED BY <3>1, <1>1 DEF PushOK, Under
  <2>3. CASE m = k
    <3>1. Fr(t, m)' = Fr(t, m)
      <4>1. m \in 1 .. k
        BY <2>3, <1>3
      <4> QED BY <4>1, <1>4 DEF Same, Fr
    <3>2. Fr(t, k).at = "tag" /\ Fr(t, k).b \notin heap.next /\ Fr(t, k).res = None
      BY <2>3, <1>2 DEF Below, PushOK
    <3> QED BY <3>1, <3>2, <2>3, <1>1 DEF Under
  <2> QED BY <2>1, <2>2, <2>3
<1>13. StillEvaluated(t, k)
  <2> SUFFICES ASSUME NEW b \in Blocks, Tag(b)' = "lazy", evals'[b] = 1
               PROVE  \/ \E m \in k + 1 .. Len(stack'[t]) : Evaluating(Fr(t, m), b)'
                      \/ /\ Tag(b) = "lazy" /\ evals[b] = 1
                         /\ \A m \in k + 1 .. Len(stack[t]) : ~Evaluating(Fr(t, m), b)
    BY DEF StillEvaluated
  <2>1. CASE Evaluating(f2, b)
    <3>1. k + 1 \in k + 1 .. Len(stack'[t])
      BY <1>3, <1>4
    <3>2. PICK m \in k + 1 .. Len(stack'[t]) : m = k + 1
      BY <3>1
    <3>3. Fr(t, m)' = f2
      BY <3>2, <1>4 DEF Fr
    <3>4. Evaluating(Fr(t, m), b)'
      BY <3>3, <2>1 DEF Evaluating
    <3> QED BY <3>4
  <2>2. CASE Tag(b) = "lazy" /\ evals[b] = 1 /\ ~Evaluating(f, b)
    BY <2>2, <1>2 DEF Below
  <2> QED BY <2>1, <2>2 DEF PushOK
<1> QED BY <1>1, <1>3, <1>5, <1>7, <1>8, <1>10, <1>11, <1>12, <1>13, StepKeeps

(* Nothing changes but the frames.                                          *)
LEMMA SameData ==
    ASSUME LazyInv, NEW f, UNCHANGED data
    PROVE  DataOK(f)
<1>1. Values /\ heap' = heap /\ hdr' = hdr /\ field' = field /\ evals' = evals
  BY ValuesOK DEF data
<1>2. \A b \in Blocks : hdr[b] \in [tag : {"lazy", "whnf", "ind", "free"}, blocked : BOOLEAN, rc : Int]
  BY <1>1 DEF Values, Header
<1>3. DataTypes'
  BY <1>1, <1>2 DEF DataTypes, Values
<1>4. Thunks'
  BY <1>1 DEF LazyInv, Thunks, Tag
<1>5. \A b \in Blocks : FairBlock(b, Has(f, b), Own(f, b))
  BY <1>1 DEF FairBlock, FairHeader, FairField
<1> QED BY <1>3, <1>4, <1>5 DEF DataOK

LEMMA NewFrame ==
    ASSUME LazyInv, NEW x \in Blocks, NEW at \in {"force", "eval", "drop"}
    PROVE  /\ Frame(x, at) = [b |-> x, at |-> at, own |-> 1, res |-> None, lock |-> FALSE, h |-> None]
           /\ Frame(x, at) \in FrameSet /\ ~Locks(Frame(x, at))
           /\ FrameOK(Frame(x, at)) /\ FrameOK(Frame(x, at))'
           /\ \A b \in Blocks : Count(Frame(x, at), b) = IF x = b THEN 1 ELSE 0
<1>1. Frame(x, at) = [b |-> x, at |-> at, own |-> 1, res |-> None, lock |-> FALSE, h |-> None] /\ None \notin Blocks
  BY LazyAssumption DEF Frame
<1>2. Frame(x, at) \in FrameSet
  BY <1>1 DEF FrameSet, Points, Loaded
<1>3. ~Locks(Frame(x, at))
  BY <1>1 DEF Locks
<1>4. FrameOK(Frame(x, at))
  BY <1>1 DEF FrameOK, Shape, Owned, Evaluates, Follows, Locks, Starts, Leaves, Walks
<1>5. FrameOK(Frame(x, at))'
  BY <1>1 DEF FrameOK, Shape, Owned, Evaluates, Follows, Locks, Starts, Leaves, Walks
<1>6. \A b \in Blocks : Count(Frame(x, at), b) = IF x = b THEN 1 ELSE 0
  BY <1>1 DEF Count
<1> QED BY <1>1, <1>2, <1>3, <1>4, <1>5, <1>6

(* Actions that push, pop and return keep LazyInv.                          *)
LEMMA LeaveDropKeeps ==
    ASSUME LazyInv, NEW t \in Threads, LeaveDrop(t) PROVE LazyInv'
<1>1. PICK f : f = Top(t)
  OBVIOUS
<1>2. Runs(t, f) /\ f.at = "leave_drop" /\ UNCHANGED data
  BY <1>1, Running DEF LeaveDrop
<1>3. f = [b |-> f.b, at |-> f.at, own |-> f.own, res |-> f.res, lock |-> f.lock, h |-> f.h]
      /\ f.b \in Blocks /\ f.res \in Blocks /\ f.own = 1 /\ f.lock
  BY <1>2 DEF Runs, Shape, Owned, Starts, Leaves, Walks
<1>4. PICK f2 : f2 = [f EXCEPT !.at = "return", !.own = f.own - 1]
  OBVIOUS
<1>5. f2 = [b |-> f.b, at |-> "return", own |-> 0, res |-> f.res, lock |-> f.lock, h |-> f.h]
  <2>1. f.own - 1 = 0
    BY <1>3
  <2> QED BY <1>3, <1>4, <2>1
<1>6. PICK g : g = Frame(f.b, "drop")
  OBVIOUS
<1>7. g \in FrameSet /\ ~Locks(g) /\ FrameOK(g)' /\ g.at = "drop" /\ \A b \in Blocks : Count(g, b) = IF f.b = b THEN 1 ELSE 0
  BY <1>3, <1>6, NewFrame
<1>8. f2 \in FrameSet
  BY <1>2, <1>5 DEF Runs, FrameSet, Points
<1>9. FrameOK(f2)'
  BY <1>3, <1>5 DEF FrameOK, Shape, Owned, Evaluates, Follows, Locks, Starts, Leaves, Walks
<1>10. ASSUME NEW b \in Blocks
       PROVE  Gain(Count(f2, b) + Count(g, b) + Points1(field', f.b, b) - Count(f, b) - Points1(field, f.b, b), b)
  <2>1. Count(f2, b) + Count(g, b) = Count(f, b) /\ Count(f, b) \in 0..3
    BY <1>2, <1>3, <1>5, <1>7, CountNat DEF Count, Runs
  <2>2. Points1(field', f.b, b) = Points1(field, f.b, b) /\ Points1(field, f.b, b) \in 0..1
    BY <1>2 DEF data, Points1
  <2>3. hdr'[b].rc = hdr[b].rc /\ hdr[b].rc \in Nat
    BY <1>2, ValuesOK DEF data, Values, Header
  <2>4. Gain(0, b)
    BY <2>3 DEF Gain
  <2>5. Count(f2, b) + Count(g, b) + Points1(field', f.b, b) - Count(f, b) - Points1(field, f.b, b) = 0
    BY <2>1, <2>2
  <2> QED BY <2>4, <2>5
<1>11. PushOK(t, f, f2, g, f.b)
  <2>1. stack' = [stack EXCEPT ![t] = <<g, f2>> \o Tail(@)] /\ heap' = heap /\ todo' = todo /\ \A x \in Blocks \ {f.b} : field'[x] = field[x]
    BY <1>1, <1>2, <1>4, <1>6 DEF LeaveDrop, Push, data
  <2>2. DataOK(f)
    BY <1>2, SameData
  <2>3. Under(f2, g) /\ ~Locks(f2) /\ f.at # "drop"
    BY <1>2, <1>5, <1>7 DEF Under, Locks
  <2>4. \A b \in Blocks : Tag(b)' = "lazy" /\ evals'[b] = 1 =>
         Evaluating(f2, b) \/ (Tag(b) = "lazy" /\ evals[b] = 1 /\ ~Evaluating(f, b))
    BY <1>2 DEF data, Tag, Evaluating
  <2> QED BY <1>3, <1>7, <1>8, <1>9, <1>10, <2>1, <2>2, <2>3, <2>4, Zenon DEF PushOK
<1> QED BY <1>2, <1>11, PushStep

LEMMA MatchLazyPush ==
    ASSUME LazyInv, NEW t \in Threads, MatchLazy(t), Top(t).b \notin heap.next, field[Top(t).b] # None
    PROVE  LazyInv'
<1>1. PICK f : f = Top(t)
  OBVIOUS
<1>2. Runs(t, f) /\ f.at = "match" /\ Tag(f.b) = "lazy"
  BY <1>1, Running DEF MatchLazy
<1>3. f = [b |-> f.b, at |-> f.at, own |-> f.own, res |-> f.res, lock |-> f.lock, h |-> f.h]
      /\ f.b \in Blocks /\ f.res = None /\ f.own \in 1..2
  BY <1>2 DEF Runs, Shape, Owned, Starts, Leaves, Walks
<1>4. PICK x \in Blocks : x = field[f.b]
  BY <1>1, <1>3, ValuesOK DEF Values
<1>5. PICK f2 : f2 = [f EXCEPT !.at = "tag"]
  OBVIOUS
<1>6. f2 = [b |-> f.b, at |-> "tag", own |-> f.own, res |-> f.res, lock |-> f.lock, h |-> f.h]
  BY <1>3, <1>5
<1>7. PICK g : g = Frame(x, "force")
  OBVIOUS
<1>8. g \in FrameSet /\ ~Locks(g) /\ FrameOK(g)' /\ \A b \in Blocks : Count(g, b) = IF x = b THEN 1 ELSE 0
  BY <1>7, NewFrame
<1>9. /\ evals' = [evals EXCEPT ![f.b] = @ + 1] /\ field' = [field EXCEPT ![f.b] = None] /\ hdr' = hdr
      /\ heap' = heap /\ todo' = todo /\ stack' = [stack EXCEPT ![t] = <<g, f2>> \o Tail(@)]
      /\ f.b \notin heap.next
  BY <1>1, <1>4, <1>5, <1>7 DEF MatchLazy, Push
<1>10. Own(f, f.b)
  BY <1>2, <1>3 DEF Runs, Own, Has, Count, Locks, Evaluates, Unique
<1>11. Once(f)
  <2>1. f.at # "tag" /\ f.own >= 1
    BY <1>2, <1>3
  <2> QED BY <1>2, <1>9, <1>10, <2>1, StartData
<1>12. f2 \in FrameSet
  BY <1>2, <1>3, <1>6 DEF Runs, FrameSet, Points
<1>13. FrameOK(f2)'
  <2>1. field'[f.b] = None
    BY <1>3, <1>9, ValuesOK DEF Values
  <2>2. f.lock \/ Unique(f.b)
    BY <1>2 DEF Runs, Evaluates
  <2> QED BY <1>2, <1>3, <1>6, <1>9, <1>11, <2>1, <2>2
      DEF Once, Counts, Runs, FrameOK, Shape, Owned, Evaluates, Follows, Locks, Starts, Leaves, Walks, Unique, Tag
<1>14. ASSUME NEW b \in Blocks
       PROVE  Gain(Count(f2, b) + Count(g, b) + Points1(field', f.b, b) - Count(f, b) - Points1(field, f.b, b), b)
  <2>1. Count(f2, b) = Count(f, b) /\ Count(f, b) \in 0..3
    BY <1>2, <1>6, CountNat DEF Count, Runs
  <2>2. Points1(field', f.b, b) = 0 /\ Points1(field, f.b, b) = IF x = b THEN 1 ELSE 0
    BY <1>3, <1>4, <1>9, ValuesOK DEF Values, Points1
  <2>3. hdr'[b].rc = hdr[b].rc /\ hdr[b].rc \in Nat
    BY <1>9, ValuesOK DEF Values, Header
  <2>4. Gain(0, b)
    BY <2>3 DEF Gain
  <2>5. Count(f2, b) + Count(g, b) + Points1(field', f.b, b) - Count(f, b) - Points1(field, f.b, b) = 0
    BY <2>1, <2>2, <1>8
  <2> QED BY <2>4, <2>5
<1>15. PushOK(t, f, f2, g, f.b)
  <2>1. DataOK(f) /\ \A y \in Blocks \ {f.b} : field'[y] = field[y]
    BY <1>11 DEF Once
  <2>2. Under(f2, g) /\ f.at # "drop" /\ (Locks(f2) => Locks(f) /\ f.b = f2.b)
    BY <1>2, <1>3, <1>6, <1>9 DEF Under, Locks
  <2>3. \A b \in Blocks : Tag(b)' = "lazy" /\ evals'[b] = 1 =>
         Evaluating(f2, b) \/ (Tag(b) = "lazy" /\ evals[b] = 1 /\ ~Evaluating(f, b))
    BY <1>2, <1>6, <1>9, <1>11 DEF Once, Counts, Tag, Evaluating
  <2> QED BY <1>3, <1>8, <1>9, <1>12, <1>13, <1>14, <2>1, <2>2, <2>3, Zenon DEF PushOK
<1> QED BY <1>2, <1>15, PushStep

LEMMA MatchLazyKeeps ==
    ASSUME LazyInv, NEW t \in Threads, MatchLazy(t) PROVE LazyInv'
  BY MatchLazyHere, MatchLazyPush

(* f is popped.                                                             *)
PopOK(t, f, c) ==
    /\ stack' = [stack EXCEPT ![t] = Tail(@)] /\ heap' = heap /\ todo' = todo /\ evals' = evals
    /\ DataOK(f) /\ c \in Blocks /\ f.at = "drop"
    /\ \A x \in Blocks \ {c} : field'[x] = field[x]
    /\ \A b \in Blocks : Gain(0 + Points1(field', c, b) - Count(f, b) - Points1(field, c, b), b)
    /\ \A b \in Blocks : Tag(b)' = "lazy" => Tag(b) = "lazy"

LEMMA PopStep ==
    ASSUME LazyInv, NEW t \in Threads, NEW f, NEW c, Runs(t, f), PopOK(t, f, c)
    PROVE  LazyInv'
<1>1. /\ stack' = [stack EXCEPT ![t] = Tail(@)] /\ heap' = heap /\ todo' = todo /\ evals' = evals
      /\ c \in Blocks /\ DataTypes' /\ Thunks' /\ f.at = "drop"
      /\ \A x \in Blocks \ {c} : field'[x] = field[x]
      /\ stack \in [Threads -> Seq(FrameSet)] /\ todo \in [Threads -> Seq(Blocks)]
      /\ stack[t] # <<>> /\ stack[t] \in Seq(FrameSet)
  BY DEF PopOK, DataOK, LazyInv, LazyTypes, Runs
<1>2. PICK k : Below(t, k, f)
  BY TopBelow
<1>3. /\ k \in Nat /\ Len(stack[t]) = k + 1 /\ Len(stack[t]) \in k .. k + 2 /\ k + 1 # k /\ k = Len(stack[t]) - 1
      /\ Holds(t, k)
  BY <1>2 DEF Below
<1>4. stack'[t] \in Seq(FrameSet) /\ Len(stack'[t]) = k /\ Same(stack[t], stack'[t], k)
  <2>1. stack'[t] = Tail(stack[t])
    BY <1>1
  <2> QED BY <2>1, <1>1, <1>3, TailFrames
<1>5. Replaces(t, k) /\ k + 1 .. Len(stack'[t]) = {}
  <2>1. stack' \in [Threads -> Seq(FrameSet)] /\ \A u \in Threads \ {t} : stack'[u] = stack[u]
    BY <1>1, <1>4
  <2> QED BY <2>1, <1>1, <1>3, <1>4 DEF Replaces
<1>6. Fair(t, k)
  <2>1. \A b \in Blocks : FairBlock(b, Has(f, b), Own(f, b))
    BY DEF PopOK, DataOK
  <2>2. ASSUME NEW b \in Blocks PROVE FairBlock(b, Held(t, k, b), Mine(t, k, b))
    BY <2>1, <1>2 DEF Below, FairBlock, FairHeader, FairField
  <2> QED BY <2>2, <1>1 DEF Fair
<1>7. CountsCover'
  <2>1. ASSUME NEW b \in Blocks
        PROVE  Gain(Above(stack'[t], k, b) + Points1(field', c, b) - Above(stack[t], k, b) - Points1(field, c, b), b)
    <3>1. Above(stack[t], k, b) = Count(f, b) /\ Above(stack'[t], k, b) = 0
      BY <1>2, <1>4 DEF Below, Above
    <3> QED BY <3>1 DEF PopOK
  <2> QED BY <2>1, <1>1, <1>3, <1>5, CountStep
<1>8. NewLocks(t, k) /\ \A m \in k + 1 .. Len(stack'[t]) : FrameOK(Fr(t, m))'
  BY <1>5 DEF NewLocks
<1>9. NewUnder(t, k)
  <2>1. k .. Len(stack'[t]) - 1 = {}
    BY <1>3, <1>4
  <2> QED BY <2>1 DEF NewUnder
<1>10. StillEvaluated(t, k)
  <2>1. \A m \in k + 1 .. Len(stack[t]) : Fr(t, m).at = "drop"
    BY <1>1, <1>2 DEF Below
  <2> QED BY <2>1, <1>1 DEF StillEvaluated, Evaluating, PopOK
<1> QED BY <1>1, <1>3, <1>5, <1>6, <1>7, <1>8, <1>9, <1>10, StepKeeps

LEMMA DropKeeps ==
    ASSUME LazyInv, NEW t \in Threads, Drop(t) PROVE LazyInv'
<1>1. PICK f : f = Top(t)
  OBVIOUS
<1>2. Runs(t, f) /\ f.at = "drop"
  BY <1>1, Running DEF Drop
<1>3. f = [b |-> f.b, at |-> f.at, own |-> f.own, res |-> f.res, lock |-> f.lock, h |-> f.h]
      /\ f.b \in Blocks /\ f.res = None /\ f.own = 1 /\ ~f.lock /\ None \notin Blocks
  BY <1>2 DEF Runs, Shape, Owned, Starts, Leaves, Walks
<1>4. \A b \in Blocks : Count(f, b) = IF b = f.b THEN 1 ELSE 0
  BY <1>3 DEF Count
<1>5. Has(f, f.b)
  BY <1>3, <1>4 DEF Has
<1>6. CASE hdr[f.b].rc > 1
  <2>1. hdr' = With(f.b, -1) /\ field' = field /\ evals' = evals /\ heap' = heap /\ todo' = todo
        /\ stack' = [stack EXCEPT ![t] = Tail(@)]
    BY <1>1, <1>6 DEF Drop
  <2>2. Counted(f, f.b, -1)
    BY <1>2, <1>3, <1>5, <2>1, WithData
  <2>3. ASSUME NEW b \in Blocks
        PROVE  Gain(0 + Points1(field', f.b, b) - Count(f, b) - Points1(field, f.b, b), b)
    <3>1. Points1(field', f.b, b) = Points1(field, f.b, b) /\ Points1(field, f.b, b) \in 0..1
      BY <2>1 DEF Points1
    <3>2. 0 + Points1(field', f.b, b) - Count(f, b) - Points1(field, f.b, b) = IF b = f.b THEN -1 ELSE 0
      BY <3>1, <1>4
    <3>3. hdr'[b].rc = hdr[b].rc + IF b = f.b THEN -1 ELSE 0
      BY <2>2 DEF Counted
    <3>4. hdr[b].rc \in Nat
      BY ValuesOK DEF Values, Header
    <3> QED BY <3>2, <3>3, <3>4 DEF Gain
  <2>4. PopOK(t, f, f.b)
    BY <1>2, <1>3, <2>1, <2>2, <2>3 DEF PopOK, Counted
  <2> QED BY <1>2, <2>4, PopStep
<1>7. CASE ~(hdr[f.b].rc > 1)
  <2>1. hdr' = Freed(f.b) /\ field' = [field EXCEPT ![f.b] = None] /\ evals' = evals /\ heap' = heap /\ todo' = todo
        /\ IF field[f.b] = None THEN stack' = [stack EXCEPT ![t] = Tail(@)] ELSE Set(t, Frame(field[f.b], "drop"))
    BY <1>1, <1>7 DEF Drop
  <2>2. hdr[f.b].rc <= 1 /\ evals' \in [Blocks -> 0..1]
    BY <1>2, <1>3, <1>7, <2>1, ValuesOK DEF Values, Header
  <2>3. Released1(f, f.b)
    BY <1>2, <1>3, <1>5, <2>1, <2>2, FreedData
  <2>4. \A b \in Blocks : Tag(b)' = "lazy" => Tag(b) = "lazy"
    BY <2>3 DEF Released1, Tag
  <2>5. ASSUME NEW b \in Blocks
        PROVE  /\ Points1(field', f.b, b) = 0 /\ hdr[b].rc \in Nat
               /\ hdr'[b].rc = hdr[b].rc - Count(f, b) /\ Count(f, b) \in 0..1
    <3>1. Points1(field', f.b, b) = 0
      BY <1>3, <2>3 DEF Points1, Released1
    <3>2. hdr[b].rc \in Nat
      BY ValuesOK DEF Values, Header
    <3>3. hdr'[b].rc = hdr[b].rc - Count(f, b)
      BY <1>4, <2>3, <3>2 DEF Released1
    <3> QED BY <3>1, <3>2, <3>3, <1>4
  <2>6. CASE field[f.b] = None
    <3>1. ASSUME NEW b \in Blocks
          PROVE  Gain(0 + Points1(field', f.b, b) - Count(f, b) - Points1(field, f.b, b), b)
      <4>1. Points1(field, f.b, b) = 0
        BY <1>3, <2>6 DEF Points1
      <4> QED BY <2>5, <4>1 DEF Gain
    <3>2. PopOK(t, f, f.b)
      BY <1>2, <1>3, <2>1, <2>3, <2>4, <2>6, <3>1 DEF PopOK, Released1
    <3> QED BY <1>2, <3>2, PopStep
  <2>7. CASE field[f.b] # None
    <3>1. PICK x \in Blocks : x = field[f.b]
      BY <1>3, <2>7, ValuesOK DEF Values
    <3>2. PICK f2 : f2 = Frame(x, "drop")
      OBVIOUS
    <3>3. f2 \in FrameSet /\ ~Locks(f2) /\ FrameOK(f2)' /\ f2.at = "drop" /\ \A b \in Blocks : Count(f2, b) = IF x = b THEN 1 ELSE 0
      BY <3>2, NewFrame
    <3>4. ASSUME NEW b \in Blocks
          PROVE  Gain(Count(f2, b) + Points1(field', f.b, b) - Count(f, b) - Points1(field, f.b, b), b)
      <4>1. Points1(field, f.b, b) = Count(f2, b) /\ Count(f2, b) \in 0..1
        BY <3>1, <3>3 DEF Points1
      <4>2. Count(f2, b) + Points1(field', f.b, b) - Count(f, b) - Points1(field, f.b, b) = 0 - Count(f, b)
        BY <4>1, <2>5
      <4> QED BY <2>5, <4>2 DEF Gain
    <3>5. SetOK(t, f, f2, f.b)
      <4>1. stack[t] # <<>> /\ f = Top(t) /\ Set(t, f2)
        BY <1>2, <2>1, <2>7, <3>1, <3>2 DEF Runs
      <4>2. \A b \in Blocks : Tag(b)' = "lazy" /\ evals'[b] = 1 =>
              Evaluating(f2, b) \/ (Tag(b) = "lazy" /\ evals[b] = 1 /\ ~Evaluating(f, b))
        BY <1>2, <2>1, <2>4 DEF Evaluating
      <4>3. DataOK(f) /\ \A d \in Blocks \ {f.b} : field'[d] = field[d]
        BY <2>3 DEF Released1
      <4> QED BY <2>1, <3>3, <3>4, <4>1, <4>2, <4>3, Zenon DEF SetOK, DataOK
    <3> QED BY <1>3, <3>3, <3>5, SetStep
  <2> QED BY <2>6, <2>7
<1> QED BY <1>6, <1>7

(* A value goes to the frame that waits for it.                             *)
LEMMA ReturnKeeps ==
    ASSUME LazyInv, NEW t \in Threads, Return(t) PROVE LazyInv'
<1>1. PICK f : f = Top(t)
  OBVIOUS
<1>2. Runs(t, f) /\ f.at = "return" /\ UNCHANGED data
  BY <1>1, Running DEF Return
<1>3. f.own = 0 /\ f.res \in Blocks /\ \A b \in Blocks : Count(f, b) = IF f.res = b THEN 1 ELSE 0
  <2>1. f.own = 0 /\ f.res \in Blocks
    BY <1>2 DEF Runs, Shape, Owned, Starts, Leaves, Walks
  <2> QED BY <2>1 DEF Count
<1>4. CASE Tag(f.res) # "whnf"
  <2>1. PICK f2 : f2 = Frame(f.res, "eval")
    OBVIOUS
  <2>2. f2 \in FrameSet /\ ~Locks(f2) /\ FrameOK(f2) /\ \A b \in Blocks : Count(f2, b) = IF f.res = b THEN 1 ELSE 0
    BY <1>3, <2>1, NewFrame
  <2>3. Set(t, f2)
    BY <1>1, <1>4, <2>1 DEF Return
  <2>4. QuietOK(t, f, f2)
    BY <1>2, <1>3, <2>2, <2>3 DEF QuietOK, Runs
  <2> QED BY <2>4, QuietStep
<1>5. CASE Tag(f.res) = "whnf" /\ Tail(stack[t]) = <<>>
  <2>1. PICK f2 : f2 = Frame(f.res, "drop")
    OBVIOUS
  <2>2. f2 \in FrameSet /\ ~Locks(f2) /\ FrameOK(f2) /\ \A b \in Blocks : Count(f2, b) = IF f.res = b THEN 1 ELSE 0
    BY <1>3, <2>1, NewFrame
  <2>3. Set(t, f2)
    BY <1>1, <1>5, <2>1 DEF Return
  <2>4. QuietOK(t, f, f2)
    BY <1>2, <1>3, <2>2, <2>3 DEF QuietOK, Runs
  <2> QED BY <2>4, QuietStep
<1>6. CASE Tag(f.res) = "whnf" /\ Tail(stack[t]) # <<>>
  <2>1. /\ stack \in [Threads -> Seq(FrameSet)] /\ todo \in [Threads -> Seq(Blocks)] /\ hdr \in [Blocks -> Header]
        /\ stack[t] # <<>> /\ stack[t] \in Seq(FrameSet)
        /\ heap' = heap /\ hdr' = hdr /\ field' = field /\ evals' = evals /\ todo' = todo
    BY <1>2 DEF LazyInv, LazyTypes, Runs, data
  <2>2. PICK k : Below(t, k, f)
    BY <1>2, TopBelow
  <2>3. PICK g : g = Head(Tail(stack[t]))
    OBVIOUS
  <2>4. Len(stack[t]) \in Nat /\ Len(stack[t]) >= 2 /\ g = FromLast(stack[t], Len(stack[t]) - 1) /\ g \in FrameSet
    BY <1>6, <2>1, <2>3, CallerFrame
  <2>5. PICK j \in Nat : /\ k = j + 1 /\ Len(stack[t]) = j + 2 /\ Len(stack[t]) \in j .. j + 2 /\ j = Len(stack[t]) - 2
                         /\ Len(stack[t]) - 1 = j + 1
    <3> DEFINE i == k - 1
    <3>1. i \in Nat /\ k = i + 1 /\ Len(stack[t]) = i + 2 /\ Len(stack[t]) \in i .. i + 2 /\ i = Len(stack[t]) - 2 /\ Len(stack[t]) - 1 = i + 1
      BY <2>2, <2>4 DEF Below
    <3> HIDE DEF i
    <3> QED BY <3>1
  <2>6. Fr(t, j + 1) = g /\ Fr(t, j + 2) = f
    <3>1. k + 1 = j + 2
      BY <2>5
    <3> QED BY <3>1, <2>2, <2>4, <2>5 DEF Below, Fr
  <2>7. g.at = "tag" /\ g.b \notin heap.next /\ g.res = None /\ FrameOK(g)
    <3>1. k >= 1 /\ f.at # "drop" /\ Fr(t, k) = g
      BY <1>2, <2>5, <2>6
    <3> QED BY <3>1, <2>2 DEF Below
  <2>8. g = [b |-> g.b, at |-> g.at, own |-> g.own, res |-> g.res, lock |-> g.lock, h |-> g.h]
    BY <2>4 DEF FrameSet
  <2>9. PICK g2 : g2 = [g EXCEPT !.res = f.res]
    OBVIOUS
  <2>10. g2 = [b |-> g.b, at |-> g.at, own |-> g.own, res |-> f.res, lock |-> g.lock, h |-> g.h]
    BY <2>8, <2>9
  <2>11. g2 \in FrameSet
    BY <1>3, <2>4, <2>10 DEF FrameSet
  <2>12. FrameOK(g2)'
    BY <1>3, <2>1, <2>7, <2>10 DEF FrameOK, Shape, Owned, Evaluates, Follows, Locks, Starts, Leaves, Walks, Tag, Unique
  <2>13. stack' = [stack EXCEPT ![t] = <<g2>> \o Tail(Tail(stack[t]))]
    BY <1>1, <1>6, <2>3, <2>9 DEF Return
  <2>14. /\ stack'[t] \in Seq(FrameSet) /\ Len(stack'[t]) = j + 1 /\ FromLast(stack'[t], j + 1) = g2
         /\ Same(stack[t], stack'[t], j)
    <3>1. PICK r : r = <<g2>> \o Tail(Tail(stack[t]))
      OBVIOUS
    <3>2. /\ r \in Seq(FrameSet) /\ Len(r) = Len(stack[t]) - 1
          /\ FromLast(r, Len(r)) = g2 /\ Same(stack[t], r, Len(stack[t]) - 2)
      BY <1>6, <2>1, <2>11, <3>1, ReturnFrames
    <3>a. stack'[t] = r
      BY <2>1, <2>13, <3>1
    <3>3. Len(r) = j + 1
      BY <2>5, <3>2
    <3>4. Same(stack[t], r, j) /\ FromLast(r, j + 1) = g2
      BY <2>5, <3>2, <3>3
    <3> QED BY <3>a, <3>2, <3>3, <3>4
  <2>15. Holds(t, j) /\ Replaces(t, j)
    <3>1. stack' \in [Threads -> Seq(FrameSet)] /\ \A u \in Threads \ {t} : stack'[u] = stack[u]
      BY <2>1, <2>13, <2>14
    <3>2. Len(stack'[t]) \in j .. j + 2
      BY <2>5, <2>14
    <3>3. Holds(t, j)
      BY <2>5 DEF Holds
    <3> QED BY <2>1, <2>14, <3>1, <3>2, <3>3 DEF Replaces
  <2>16. Fair(t, j)
    BY <2>1 DEF Fair, FairBlock, FairHeader, FairField
  <2>17. \A m \in j + 1 .. Len(stack'[t]) : m = j + 1 /\ Fr(t, m)' = g2
    <3>1. \A m \in j + 1 .. Len(stack'[t]) : m = j + 1
      BY <2>5, <2>14
    <3> QED BY <3>1, <2>14 DEF Fr
  <2>18. DataTypes' /\ Thunks'
    BY <1>2, SameData DEF DataOK
  <2>19. CountsCover'
    <3>1. ASSUME NEW b \in Blocks
          PROVE  Gain(Above(stack'[t], j, b) + Points1(field', f.b, b) - Above(stack[t], j, b) - Points1(field, f.b, b), b)
      <4>1. Above(stack[t], j, b) = Count(g, b) + Count(f, b)
        <5>1. Len(stack[t]) # j /\ Len(stack[t]) # j + 1
          BY <2>5
        <5> QED BY <5>1, <2>6 DEF Above, Fr
      <4>2. Above(stack'[t], j, b) = Count(g2, b)
        <5>1. Len(stack'[t]) # j
          BY <2>14
        <5> QED BY <5>1, <2>14, Zenon DEF Above
      <4>3. Count(g2, b) = Count(g, b) + Count(f, b) /\ Count(g, b) \in 0..3 /\ Count(f, b) \in 0..3
        <5>1. None \notin Blocks /\ g.own \in 0..2
          BY <1>2, <2>4 DEF Runs, FrameSet
        <5>2. Count(g, b) = (IF g.b = b THEN g.own ELSE 0)
          BY <5>1, <2>7 DEF Count
        <5>3. Count(g2, b) = (IF g.b = b THEN g.own ELSE 0) + (IF f.res = b THEN 1 ELSE 0)
          BY <2>10 DEF Count
        <5> QED BY <1>3, <5>1, <5>2, <5>3
      <4>4. Points1(field', f.b, b) = Points1(field, f.b, b) /\ Points1(field, f.b, b) \in 0..1
        BY <2>1 DEF Points1
      <4>5. Above(stack'[t], j, b) + Points1(field', f.b, b) - Above(stack[t], j, b) - Points1(field, f.b, b) = 0
        BY <4>1, <4>2, <4>3, <4>4
      <4>6. Gain(0, b)
        BY <2>1 DEF Gain, Header
      <4> QED BY <4>5, <4>6
    <3>2. f.b \in Blocks /\ \A x \in Blocks \ {f.b} : field'[x] = field[x]
      BY <1>2, <2>1 DEF Runs
    <3> QED BY <3>1, <3>2, <2>1, <2>5, <2>15, <2>18, CountStep
  <2>20. \A m \in j + 1 .. Len(stack'[t]) : FrameOK(Fr(t, m))'
    <3> SUFFICES ASSUME NEW m \in j + 1 .. Len(stack'[t]) PROVE FrameOK(Fr(t, m))'
      OBVIOUS
    <3>1. Fr(t, m)' = g2
      BY <2>17
    <3> QED BY <3>1, <2>12 DEF FrameOK, Shape, Owned, Evaluates, Follows, Locks, Tag, Unique
  <2>21. NewLocks(t, j)
    <3> SUFFICES ASSUME NEW m \in j + 1 .. Len(stack'[t]), Locks(Fr(t, m))'
                 PROVE  /\ \A i \in j + 1 .. Len(stack'[t]) : Locks(Fr(t, i))' => i = m
                        /\ \E i \in j + 1 .. Len(stack[t]) : Locks(Fr(t, i)) /\ Fr(t, i).b = Fr(t, m)'.b
      BY DEF NewLocks
    <3>1. Fr(t, m)' = g2
      BY <2>17
    <3>2. Locks(g2) /\ g2.b = g.b
      BY <3>1, <2>10 DEF Locks
    <3>3. Locks(g)
      BY <3>2, <2>10 DEF Locks
    <3>4. j + 1 \in j + 1 .. Len(stack[t]) /\ \A i \in j + 1 .. Len(stack'[t]) : i = m
      BY <2>5, <2>17
    <3> QED BY <3>1, <3>2, <3>3, <3>4, <2>6
  <2>22. NewUnder(t, j)
    <3> SUFFICES ASSUME NEW m \in j .. Len(stack'[t]) - 1, m >= 1
                 PROVE  Under(Fr(t, m), Fr(t, m + 1))'
      BY DEF NewUnder
    <3>1. m = j /\ m \in 1 .. j /\ m \in 1 .. Len(stack[t]) - 1
      BY <2>5, <2>14
    <3>2. Under(Fr(t, m), Fr(t, m + 1))
      BY <3>1 DEF LazyInv, Nested
    <3>3. Fr(t, m)' = Fr(t, m)
      BY <3>1, <2>14 DEF Same, Fr
    <3>4. Fr(t, m + 1) = g /\ Fr(t, m + 1)' = g2
      BY <3>1, <2>6, <2>14 DEF Fr
    <3> QED BY <3>2, <3>3, <3>4, <2>1, <2>10 DEF Under
  <2>23. StillEvaluated(t, j)
    <3> SUFFICES ASSUME NEW b \in Blocks, Tag(b)' = "lazy", evals'[b] = 1
                 PROVE  \/ \E m \in j + 1 .. Len(stack'[t]) : Evaluating(Fr(t, m), b)'
                        \/ /\ Tag(b) = "lazy" /\ evals[b] = 1
                           /\ \A m \in j + 1 .. Len(stack[t]) : ~Evaluating(Fr(t, m), b)
      BY DEF StillEvaluated
    <3>1. CASE Evaluating(g2, b)
      <4>1. j + 1 \in j + 1 .. Len(stack'[t])
        BY <2>5, <2>14
      <4>2. PICK m \in j + 1 .. Len(stack'[t]) : m = j + 1
        BY <4>1
      <4>3. Fr(t, m)' = g2
        BY <2>17
      <4>4. Evaluating(Fr(t, m), b)'
        BY <4>3, <3>1 DEF Evaluating
      <4> QED BY <4>4
    <3>2. CASE ~Evaluating(g2, b)
      <4>1. ~Evaluating(g, b) /\ ~Evaluating(f, b)
        BY <3>2, <1>2, <2>10 DEF Evaluating
      <4>2. \A m \in j + 1 .. Len(stack[t]) : m = j + 1 \/ m = j + 2
        BY <2>5
      <4>3. \A m \in j + 1 .. Len(stack[t]) : Fr(t, m) = g \/ Fr(t, m) = f
        BY <4>2, <2>6
      <4>4. \A m \in j + 1 .. Len(stack[t]) : ~Evaluating(Fr(t, m), b)
        BY <4>1, <4>3
      <4>5. Tag(b) = "lazy" /\ evals[b] = 1
        BY <2>1 DEF Tag
      <4> QED BY <4>4, <4>5
    <3> QED BY <3>1, <3>2
  <2> QED BY <2>15, <2>16, <2>18, <2>19, <2>20, <2>21, <2>22, <2>23, StepKeeps
<1> QED BY <1>4, <1>5, <1>6

(* A frame takes over what its thread had to force.                         *)
Takes(td, td2, st, fl, t, b) ==
    Cardinality(RefSet(td, st, fl, b)) =
      Cardinality(RefSet(td2, st, fl, b)) + IF Head(td[t]) = b THEN 1 ELSE 0

LEMMA TodoStep ==
    ASSUME NEW td \in [Threads -> Seq(Blocks)], NEW td2 \in [Threads -> Seq(Blocks)],
           NEW st \in [Threads -> Seq(FrameSet)], NEW fl, NEW t \in Threads, td[t] # <<>>,
           td2 = [td EXCEPT ![t] = Tail(@)], NEW b
    PROVE  Takes(td, td2, st, fl, t, b)
<1> DEFINE s == td[t]
           N == Len(s)
           x == <<"todo", t, N, 0>>
           R == RefSet(td, st, fl, b)
           R2 == RefSet(td2, st, fl, b)
<1>1. s \in Seq(Blocks) /\ N \in Nat /\ N >= 1 /\ FromLast(s, N) = Head(s) /\ td2[t] = Tail(s)
  BY TopFrame
<1>2. Tail(s) \in Seq(Blocks) /\ Len(Tail(s)) = N - 1 /\ Same(s, Tail(s), N - 1)
  BY <1>1, TailFrames
<1>3. DOMAIN s = 1 .. N /\ DOMAIN Tail(s) = 1 .. N - 1
  BY <1>1, <1>2
<1>4. \A n \in 1 .. N - 1 : FromLast(Tail(s), n) = FromLast(s, n)
  BY <1>2 DEF Same
<1> HIDE DEF s, N
<1>5. \A n : n \in 1 .. N <=> n \in 1 .. N - 1 \/ n = N
  BY <1>1
<1>6. ~(N \in 1 .. N - 1)
  BY <1>1
<1>7. \A y : y \in TodoOf(td2, t, b) <=> \E n \in 1 .. N - 1 : FromLast(s, n) = b /\ y = <<"todo", t, n, 0>>
  BY <1>1, <1>3, <1>4 DEF TodoOf
<1>8. \A y : y \in TodoOf(td, t, b) <=> \E n \in 1 .. N : FromLast(s, n) = b /\ y = <<"todo", t, n, 0>>
  BY <1>1, <1>3 DEF TodoOf, s
<1>9. \A y : y \in TodoOf(td, t, b) <=> y \in TodoOf(td2, t, b) \/ (Head(s) = b /\ y = x)
  BY <1>1, <1>5, <1>7, <1>8
<1>10. \A u \in Threads \ {t} : TodoOf(td2, u, b) = TodoOf(td, u, b)
  BY DEF TodoOf
<1>11. x \notin R2
  <2>1. x \notin TodoOf(td2, t, b)
    <3>1. ASSUME NEW n \in 1 .. N - 1, <<"todo", t, N, 0>> = <<"todo", t, n, 0>> PROVE FALSE
      <4>1. N = n
        BY <3>1
      <4> QED BY <4>1, <1>6
    <3> QED BY <3>1, <1>7
  <2>2. \A u \in Threads \ {t} : x \notin TodoOf(td2, u, b)
    BY DEF TodoOf
  <2>3. \A u, n, f : x \notin FrameRefs(u, n, f, b)
    BY DEF FrameRefs
  <2>4. x \notin FieldsOf(fl, Blocks, b)
    BY DEF FieldsOf
  <2> HIDE DEF x
  <2>5. x \in RefSet(td2, st, fl, b) <=>
                \/ \E u \in Threads : x \in TodoOf(td2, u, b)
                \/ \E u \in Threads : \E n \in DOMAIN st[u] : x \in FrameRefs(u, n, FromLast(st[u], n), b)
                \/ x \in FieldsOf(fl, Blocks, b)
    BY InRefs, Zenon
  <2> QED BY <2>1, <2>2, <2>3, <2>4, <2>5
<1> HIDE DEF x
<1>12. \A y : y \in R <=> y \in R2 \/ (Head(s) = b /\ y = x)
  <2> TAKE y
  <2>1. y \in RefSet(td2, st, fl, b) <=>
                \/ \E u \in Threads : y \in TodoOf(td2, u, b)
                \/ \E u \in Threads : \E n \in DOMAIN st[u] : y \in FrameRefs(u, n, FromLast(st[u], n), b)
                \/ y \in FieldsOf(fl, Blocks, b)
    BY InRefs, Zenon
  <2>2. y \in RefSet(td, st, fl, b) <=>
                \/ \E u \in Threads : y \in TodoOf(td, u, b)
                \/ \E u \in Threads : \E n \in DOMAIN st[u] : y \in FrameRefs(u, n, FromLast(st[u], n), b)
                \/ y \in FieldsOf(fl, Blocks, b)
    BY InRefs, Zenon
  <2>3. (\E u \in Threads : y \in TodoOf(td, u, b)) <=>
          (\E u \in Threads : y \in TodoOf(td2, u, b)) \/ (Head(s) = b /\ y = x)
    BY <1>9, <1>10
  <2> QED BY <2>1, <2>2, <2>3
<1>13. IsFiniteSet(R2) /\ Cardinality(R2) \in Nat
  BY RefsFinite, FS_CardinalityType
<1> HIDE DEF R, R2
<1>14. CASE Head(s) = b
  <2>1. R = R2 \cup {x}
    BY <1>12, <1>14
  <2>2. Cardinality(R) = Cardinality(R2) + 1
    BY <2>1, <1>11, <1>13, FS_AddElement
  <2> QED BY <2>2, <1>14 DEF R, R2, s, Takes
<1>15. CASE Head(s) # b
  <2>1. R = R2
    BY <1>12, <1>15
  <2> QED BY <2>1, <1>13, <1>15 DEF R, R2, s, Takes
<1> QED BY <1>14, <1>15

LEMMA BeginKeeps ==
    ASSUME LazyInv, NEW t \in Threads, Begin(t) PROVE LazyInv'
<1>1. /\ stack[t] = <<>> /\ todo[t] # <<>> /\ heap' = heap /\ hdr' = hdr /\ field' = field /\ evals' = evals
      /\ todo' = [todo EXCEPT ![t] = Tail(@)] /\ stack' = [stack EXCEPT ![t] = <<Frame(Head(todo[t]), "force")>>]
      /\ stack \in [Threads -> Seq(FrameSet)] /\ todo \in [Threads -> Seq(Blocks)] /\ hdr \in [Blocks -> Header]
      /\ todo[t] \in Seq(Blocks) /\ UNCHANGED <<heap, hdr, field, evals>>
  BY DEF Begin, LazyInv, LazyTypes
<1>2. PICK x \in Blocks : x = Head(todo[t])
  BY <1>1
<1>3. PICK f : f = Frame(x, "force")
  OBVIOUS
<1>4. f \in FrameSet /\ ~Locks(f) /\ FrameOK(f)' /\ f.at = "force" /\ \A b \in Blocks : Count(f, b) = IF x = b THEN 1 ELSE 0
  BY <1>3, NewFrame
<1>5. todo' \in [Threads -> Seq(Blocks)] /\ \A u \in Threads \ {t} : todo'[u] = todo[u]
  BY <1>1
<1>6. PICK s : s = stack'[t]
  OBVIOUS
<1>7. /\ s = <<f>> /\ s \in Seq(FrameSet) /\ Len(s) = 1 /\ FromLast(s, 1) = f
      /\ \A u \in Threads \ {t} : stack'[u] = stack[u]
      /\ stack' \in [Threads -> Seq(FrameSet)]
  <2>1. s = <<f>>
    BY <1>1, <1>2, <1>3, <1>6
  <2>2. <<f>> \in Seq(FrameSet) /\ Len(<<f>>) = 1 /\ <<f>>[1] = f
    BY <1>4
  <2> QED BY <1>1, <1>2, <1>3, <1>6, <2>1, <2>2 DEF FromLast
<1>8. Len(stack[t]) = 0 /\ Same(stack[t], stack'[t], 0)
  BY <1>1, <1>6, <1>7 DEF Same
<1>9. Holds(t, 0) /\ Replaces(t, 0)
  BY <1>1, <1>5, <1>6, <1>7, <1>8 DEF Holds, Replaces
<1>10. Fair(t, 0)
  BY <1>1 DEF Fair, FairBlock, FairHeader, FairField
<1>11. DataTypes' /\ Thunks'
  <2>1. \A b \in Blocks : hdr[b] \in [tag : {"lazy", "whnf", "ind", "free"}, blocked : BOOLEAN, rc : Int]
    BY <1>1 DEF Header
  <2>2. DataTypes'
    BY <1>1, <2>1, ValuesOK DEF DataTypes, Values
  <2>3. Thunks'
    BY <1>1 DEF LazyInv, Thunks, Tag
  <2> QED BY <2>2, <2>3
<1>12. CountsCover'
  <2> SUFFICES ASSUME NEW b \in Blocks
               PROVE  /\ hdr'[b].rc >= Refs(b)'
                      /\ ~heap.shared => hdr'[b].rc = Refs(b)'
    BY <1>1 DEF CountsCover
  <2>1. Cardinality(RefSet(todo, stack, field, b)) =
          Cardinality(RefSet(todo', stack, field, b)) + IF x = b THEN 1 ELSE 0
    <3>1. Takes(todo, todo', stack, field, t, b)
      BY <1>1, <1>5, TodoStep
    <3> QED BY <1>2, <3>1 DEF Takes
  <2>2. Balanced(todo', stack, stack', field, field', t, 0, x, b)
    <3>1. \A y \in Blocks \ {x} : field'[y] = field[y]
      BY <1>1
    <3>2. Len(stack[t]) \in 0 .. 0 + 2 /\ Len(stack'[t]) \in 0 .. 0 + 2 /\ 0 \in Nat
      BY <1>6, <1>7, <1>8
    <3> QED BY <3>1, <3>2, <1>1, <1>5, <1>7, <1>8, Balance
  <2>3. PICK r \in Nat :
          /\ Cardinality(RefSet(todo', stack, field, b)) = r + Above(stack[t], 0, b) + Points1(field, x, b)
          /\ Cardinality(RefSet(todo', stack', field', b)) = r + Above(stack'[t], 0, b) + Points1(field', x, b)
    BY <2>2 DEF Balanced
  <2>4. Above(stack[t], 0, b) = 0 /\ Above(stack'[t], 0, b) = Count(f, b)
    BY <1>6, <1>7, <1>8 DEF Above
  <2>5. Points1(field', x, b) = Points1(field, x, b) /\ Points1(field, x, b) \in 0..1
    BY <1>1 DEF Points1
  <2>6. Refs(b)' = Refs(b)
    BY <1>4, <2>1, <2>3, <2>4, <2>5, RefsAre
  <2> QED BY <1>1, <2>6 DEF LazyInv, CountsCover
<1>13. \A m \in 0 + 1 .. Len(stack'[t]) : m = 1 /\ Fr(t, m)' = f
  BY <1>6, <1>7 DEF Fr
<1>14. \A m \in 0 + 1 .. Len(stack'[t]) : FrameOK(Fr(t, m))'
  <2> SUFFICES ASSUME NEW m \in 0 + 1 .. Len(stack'[t]) PROVE FrameOK(Fr(t, m))'
    OBVIOUS
  <2>1. Fr(t, m)' = f
    BY <1>13
  <2> QED BY <2>1, <1>4 DEF FrameOK, Shape, Owned, Evaluates, Follows, Locks, Tag, Unique
<1>15. NewLocks(t, 0)
  BY <1>4, <1>13 DEF NewLocks, Locks
<1>16. NewUnder(t, 0)
  BY <1>6, <1>7 DEF NewUnder
<1>17. StillEvaluated(t, 0)
  BY <1>1, <1>8 DEF StillEvaluated, Tag
<1> QED BY <1>9, <1>10, <1>11, <1>12, <1>14, <1>15, <1>16, <1>17, StepKeeps
---------------------------------------------------------------------------
(* In a heap that is shared, an indirection does not lead to another one.   *)
(* (Compressing one that does updates what it has freed, see lazy.c:101.)   *)
NoSharedChains == \A h \in Heaps : h.shared => \A b \in h.next : h.arg[b] \notin h.next

LEMMA InitInv ==
    ASSUME NoSharedChains, Init PROVE LazyInv
<1>1. /\ heap \in Heaps /\ heap.arg \in [Blocks -> Blocks \cup {None}] /\ heap.next \subseteq Blocks
      /\ heap.todo \in [Threads -> Seq(Blocks)] /\ None \notin Blocks
      /\ \A b \in heap.next : heap.arg[b] # None
      /\ ~heap.shared => \A t, u \in Threads : heap.todo[t] # <<>> /\ heap.todo[u] # <<>> => t = u
  BY LazyAssumption DEF Init
<1>2. field = heap.arg /\ todo = heap.todo /\ evals = [b \in Blocks |-> 0] /\ stack = [t \in Threads |-> <<>>]
      /\ hdr = [b \in Blocks |-> [tag |-> "lazy", blocked |-> FALSE, rc |-> Refs(b)]]
  BY DEF Init
<1>3. stack \in [Threads -> Seq(FrameSet)] /\ \A t \in Threads : stack[t] = <<>> /\ Len(stack[t]) = 0
  BY <1>2
<1>4. \A b \in Blocks : Refs(b) \in Nat
  <2> TAKE b \in Blocks
  <2>1. IsFiniteSet(RefSet(todo, stack, field, b))
    BY <1>1, <1>2, <1>3, RefsFinite
  <2> QED BY <2>1, RefsAre, FS_CardinalityType
<1>5. \A b \in Blocks : hdr[b] = [tag |-> "lazy", blocked |-> FALSE, rc |-> Refs(b)]
  BY <1>2
<1>6. hdr \in [Blocks -> Header]
  <2>1. \A b \in Blocks : [tag |-> "lazy", blocked |-> FALSE, rc |-> Refs(b)] \in Header
    BY <1>4 DEF Header
  <2> HIDE DEF Header
  <2> QED BY <2>1, <1>2
<1>7. LazyTypes
  BY <1>1, <1>2, <1>3, <1>6 DEF LazyTypes
<1>8. Sole
  BY <1>1, <1>2, <1>3 DEF Sole, Active
<1>9. Thunks
  BY <1>1, <1>2, <1>5 DEF Thunks, Tag, NoSharedChains
<1>10. FramesOK /\ Nested /\ Exclusive
  BY <1>3 DEF FramesOK, Nested, Exclusive
<1>11. InProgress
  BY <1>2 DEF InProgress
<1>12. CountsCover
  <2> SUFFICES ASSUME NEW b \in Blocks PROVE hdr[b].rc = Refs(b) /\ hdr[b].rc >= Refs(b)
    BY DEF CountsCover
  <2>1. PICK r \in Nat : r = Refs(b)
    BY <1>4
  <2>2. hdr[b] = [tag |-> "lazy", blocked |-> FALSE, rc |-> r]
    BY <1>5, <2>1, Zenon
  <2> QED BY <2>1, <2>2
<1> QED BY <1>7, <1>8, <1>9, <1>10, <1>11, <1>12 DEF LazyInv

LEMMA SameInv ==
    ASSUME LazyInv, UNCHANGED vars PROVE LazyInv'
<1>1. heap' = heap /\ hdr' = hdr /\ field' = field /\ evals' = evals /\ stack' = stack /\ todo' = todo
  BY DEF vars
<1>2. LazyTypes' /\ Sole' /\ Thunks'
  BY <1>1 DEF LazyInv, LazyTypes, Sole, Active, Thunks, Tag
<1>3. \A t \in Threads : \A n : Fr(t, n)' = Fr(t, n)
  BY <1>1 DEF Fr
<1>4. FramesOK'
  <2> SUFFICES ASSUME NEW t \in Threads, NEW n \in 1 .. Len(stack'[t]) PROVE FrameOK(Fr(t, n))'
    BY DEF FramesOK
  <2>1. PICK g : g = Fr(t, n) /\ g = Fr(t, n)' /\ FrameOK(g)
    BY <1>1, <1>3 DEF LazyInv, FramesOK
  <2>2. FrameOK(g)'
    BY <1>1, <2>1 DEF FrameOK, Shape, Owned, Evaluates, Follows, Locks, Tag, Unique
  <2> QED BY <2>1, <2>2 DEF FrameOK, Shape, Owned, Evaluates, Follows, Locks, Tag, Unique
<1>5. Nested'
  BY <1>1, <1>3 DEF LazyInv, Nested, Under
<1>6. Exclusive'
  BY <1>1, <1>3 DEF LazyInv, Exclusive, Locks
<1>7. InProgress'
  BY <1>1, <1>3 DEF LazyInv, InProgress, Evaluating, Tag
<1>8. CountsCover'
  <2>1. \A b : Refs(b)' = Refs(b)
    BY <1>1, RefsAre
  <2> QED BY <1>1, <2>1 DEF LazyInv, CountsCover
<1> QED BY <1>2, <1>4, <1>5, <1>6, <1>7, <1>8 DEF LazyInv

LEMMA LazyStep ==
    ASSUME LazyInv, [Next]_vars PROVE LazyInv'
<1>1. CASE UNCHANGED vars
  BY <1>1, SameInv
<1>2. ASSUME NEW t \in Threads, Step(t) PROVE LazyInv'
  <2>1. CASE Begin(t) \/ ForceValue(t) \/ Return(t) \/ Drop(t)
    BY <2>1, BeginKeeps, ForceValueKeeps, ReturnKeeps, DropKeeps
  <2>2. CASE EvalUnshared(t) \/ EnterLoad(t) \/ EnterRetry(t) \/ EnterCas(t) \/ Wait(t) \/ DupSelf(t)
    BY <2>2, EvalUnsharedKeeps, EnterLoadKeeps, EnterRetryKeeps, EnterCasKeeps, WaitKeeps, DupSelfKeeps
  <2>3. CASE MatchWhnf(t) \/ MatchIndirect(t) \/ IndirectDecref(t) \/ MatchLazy(t)
    BY <2>3, MatchWhnfKeeps, MatchIndirectKeeps, IndirectDecrefKeeps, MatchLazyKeeps
  <2>4. CASE SetTag(t) \/ SetField(t) \/ Share(t) \/ Decref(t) \/ Compress(t) \/ Find(t)
    BY <2>4, SetTagKeeps, SetFieldKeeps, ShareKeeps, DecrefKeeps, CompressKeeps, FindKeeps
  <2>5. CASE Walk(t) \/ WalkDecref(t) \/ WalkSet(t)
    BY <2>5, WalkKeeps, WalkDecrefKeeps, WalkSetKeeps
  <2>6. CASE LeaveUnshared(t) \/ LeaveLoad(t) \/ LeaveCas(t) \/ LeaveDrop(t)
    BY <2>6, LeaveUnsharedKeeps, LeaveLoadKeeps, LeaveCasKeeps, LeaveDropKeeps
  <2> QED BY <1>2, <2>1, <2>2, <2>3, <2>4, <2>5, <2>6 DEF Step
<1> QED BY <1>1, <1>2 DEF Next

(* Counts, frames and headers agree in every state: what a thread knows of  *)
(* the thunk that it evaluates stays true while others change its count,    *)
(* mark it, or read it.                                                     *)
THEOREM LazyInvariant == ASSUME NoSharedChains PROVE Spec => []LazyInv
  BY InitInv, LazyStep, PTL DEF Spec

(* Whatever the heap and however many threads force it, no thunk is         *)
(* evaluated twice: compare-and-swap in kk_lazy_atomic_thread_enter lets    *)
(* one thread in.                                                           *)
THEOREM ThunksEvaluatedOnce == ASSUME NoSharedChains PROVE Spec => []EvaluatedOnce
<1>1. LazyInv => EvaluatedOnce
  BY DEF LazyInv, LazyTypes, EvaluatedOnce
<1> QED BY <1>1, LazyInvariant, PTL

(* Forcing, sharing of values and compression never make a count smaller    *)
(* than the number of references, and keep it exact in a heap of one        *)
(* thread.                                                                  *)
THEOREM LazyCountsCover == ASSUME NoSharedChains PROVE Spec => []CountsCover
<1>1. LazyInv => CountsCover
  BY DEF LazyInv
<1> QED BY <1>1, LazyInvariant, PTL

(* kk_indirect_compress does not update an indirection that it has freed,   *)
(* unless chains of indirections are shared.                                *)
THEOREM CompressUpdatesLive == ASSUME NoSharedChains PROVE Spec => []FreedOrUpdated
<1>1. LazyInv => FreedOrUpdated
  <2> SUFFICES ASSUME LazyInv, NEW t \in Threads, At(t, "walk_set") PROVE Tag(Top(t).h.ind) # "free"
    BY DEF FreedOrUpdated
  <2>1. PICK f : f = Top(t)
    OBVIOUS
  <2>2. Runs(t, f) /\ f.at = "walk_set"
    BY <2>1, Running
  <2> QED BY <2>1, <2>2 DEF Runs, Follows
<1> QED BY <1>1, LazyInvariant, PTL

(* Nothing that a thread, a frame or a field still refers to was freed, and *)
(* a thunk is marked by one thread at most, which is what unmarks it.       *)
NothingFreedInUse == \A b \in Blocks : Refs(b) > 0 => Tag(b) # "free"
THEOREM LazyBlocksLive == ASSUME NoSharedChains PROVE Spec => [](NothingFreedInUse /\ Exclusive)
<1>1. LazyInv => NothingFreedInUse
  <2> SUFFICES ASSUME LazyInv, NEW b \in Blocks, Refs(b) > 0 PROVE Tag(b) # "free"
    BY DEF NothingFreedInUse
  <2>1. /\ todo \in [Threads -> Seq(Blocks)] /\ stack \in [Threads -> Seq(FrameSet)]
    BY DEF LazyInv, LazyTypes
  <2>2. Refs(b) \in Nat
    <3>1. IsFiniteSet(RefSet(todo, stack, field, b))
      BY <2>1, RefsFinite
    <3> QED BY <3>1, RefsAre, FS_CardinalityType
  <2>3. hdr[b].rc >= Refs(b) /\ hdr[b].rc \in Nat
    BY ValuesOK DEF LazyInv, CountsCover, Values, Header
  <2> QED BY <2>2, <2>3 DEF LazyInv, Thunks
<1>2. LazyInv => Exclusive
  BY DEF LazyInv
<1> QED BY <1>1, <1>2, LazyInvariant, PTL
============================================================================
