-------------------------- MODULE MarkSharedProofs --------------------------
(***************************************************************************)
(* Proofs about MarkShared for acyclic heaps of any size and shape, large  *)
(* vectors included: while blocks are marked the heap can be restored, and *)
(* when marking returns, exactly what can be reached is marked.            *)
(*                                                                         *)
(* The invariant says which calls can be on the C stack above which        *)
(* (Shape), that the blocks whose fields hold links form a chain from the  *)
(* running call up (Chained), what every count is (Counts), that only what *)
(* can be reached is touched (Reached), and that a block below a visited   *)
(* one is marked or lies below one that the calls still have to visit      *)
(* (Pending).  No block lies below itself, so nothing waits for itself.    *)
(***************************************************************************)
EXTENDS MarkShared, FiniteSetTheorems, TLAPS

FrameType ==
  [fn: {"rec", "recx", "recx_large"},
   at: {"loop", "fields", "return", "enter", "recurse", "scan", "up"},
   b: Blocks, parent: Blocks \cup {Null}, i: Nat, depth: Nat]

(* The C stack by height, the outermost call first.                        *)
Height == Len(stack)
tower  == [h \in 1..Height |-> stack[Height + 1 - h]]

(* All calls, and those below the running one.                             *)
Calls == {tower[h] : h \in 1..Height}
Below == {tower[h] : h \in 1..(Height - 1)}

(* The blocks with a field that holds a link instead of a child, those     *)
(* whose count holds an index, and those that are visited now.             *)
Parked   == {b \in Blocks : field[b] # heap[b]}
Scanning ==
  Parked \cup (IF stack # <<>> /\ Top.fn = "recx" /\ Top.at = "scan" THEN {Top.b} ELSE {})
Open     ==
  Scanning \cup (IF stack # <<>> /\ Top.fn = "recx_large" THEN {Top.b} ELSE {})

FrameOK(fr) ==
  /\ fr.fn = "rec" => /\ fr.at \in {"loop", "fields", "return"}
                      /\ fr.at = "fields" => fr.i < Size(fr.b)
  /\ fr.fn = "recx" => fr.at \in {"enter", "recurse", "scan", "up"}
  /\ fr.fn = "recx_large" => fr.at = "scan" /\ fr.i > 0 /\ IsVector(fr.b)
  /\ fr.fn # "recx" \/ fr.at = "enter" => fr.parent = Null

(* What the running call has found out.                                    *)
TopOK ==
  stack # <<>> =>
    /\ Top.at \in {"loop", "enter", "recurse"} => ~IsLeaf(Top.b)
    /\ Top.fn = "recx_large" \/ Top.at = "recurse" => ~IsShared(Top.b)
    /\ Top.at = "scan" => Top.i <= Size(Top.b)
    /\ Top.fn = "recx" /\ Top.at = "scan" => ~IsVector(Top.b)

(* Call h is above call g on the C stack.  Under recx and recx_large there *)
(* is only rec, but calls for a large vector may be nested.                *)
Above(h, g) ==
  /\ h.fn = "rec" => g.fn = "rec"
  /\ g.fn = "rec" => g.at \in {"fields", "return"}
  /\ g.fn = "recx" => g.at = "up"
  /\ g.fn # "rec" =>
       /\ IsVector(g.b) /\ h.b = g.b /\ h.parent = Null
       /\ h.fn = "recx" => h.at # "scan"

Ordered ==
  /\ \A g, h \in DOMAIN tower : g < h => Above(tower[h], tower[g])
  /\ \A h \in DOMAIN tower : tower[h].fn = "recx_large" =>
       h - 1 \in DOMAIN tower /\ tower[h - 1].fn = "recx" /\ tower[h - 1].b = tower[h].b

Shape ==
  /\ stack \in Seq(FrameType)
  /\ \A fr \in Calls : FrameOK(fr)
  /\ Ordered

(* recx_large has called recx for the same vector, and will do so forever: *)
(* there is an element that the calls do not get past.                     *)
Doomed == \E fr \in Below : fr.fn = "recx_large"
Hopeless ==
  Doomed =>
    /\ Top.at \in {"enter", "recurse", "scan"} /\ ~IsShared(Top.b)
    /\ \E i \in DOMAIN heap[Top.b] :
         i > 0 /\ ShouldMark(Top.b, i) /\ (Top.fn = "recx_large" => Top.i <= i)

(* The blocks that calls return to, and the child they come from.          *)
Waits == {<<fr.parent, fr.b>> : fr \in {g \in Calls : g.parent # Null}}

Chained ==
  /\ \A w \in Waits : w[1] \in Parked /\ heap[w[1]][Through(w[1])] = w[2]
  /\ \A p \in Parked :
       /\ ~IsVector(p) /\ Through(p) \in DOMAIN heap[p]
       /\ heap[p][Through(p)] \in Blocks
       /\ field[p] = [heap[p] EXCEPT ![Through(p)] = Link(p)]
       /\ Link(p) \in Parked \cup {Null}
       /\ \A q \in Parked : Link(p) = q => heap[q][Through(q)] = p
       /\ \/ \E w \in Waits : w[1] = p
          \/ \E c \in Parked : Link(c) = p

(* What marking may make of a count.                                       *)
Capped(n) == IF n > KK_RC_MARK_MAX THEN KK_RC_MARK_MAX ELSE n
Marks(n)  == {SharedCount(n)} \cup (IF n >= KK_RC_MARK_MAX THEN {RC_STICKY} ELSE {})

Counts ==
  /\ count \in [Blocks -> Int] /\ rc \in [Blocks -> Int]
  /\ \A b \in Blocks : count[b] < 0 => \A c \in Children(heap, b) : count[c] < 0
  /\ \A b \in Scanning : count[b] >= 0 /\ rc[b] >= 0 /\ rc[b] \div IDX_SPAN = Capped(count[b])
  /\ \A b \in Blocks \ Scanning :
       rc[b] = count[b] \/ (count[b] >= 0 /\ rc[b] \in Marks(count[b]))

Memory ==
  /\ Wellformed(heap) /\ Acyclic(heap)
  /\ field \in [Blocks -> {field[b] : b \in Blocks}]
  /\ marked \subseteq Blocks

(* Only what can be reached is visited.                                    *)
Reached ==
  /\ \A fr \in Calls : fr.b \in ReachableFrom(heap, marked)
  /\ Parked \subseteq ReachableFrom(heap, marked)
  /\ \A b \in Blocks : rc[b] # count[b] => b \in ReachableFrom(heap, marked)

(* The blocks to visit still: those that calls are about to enter, and the *)
(* fields not scanned yet.                                                 *)
From(h, b, i) == {h[b][j] : j \in {k \in DOMAIN h[b] : k >= i}} \cap Blocks
TodoOf(h, fr) == IF fr.at \in {"loop", "enter", "recurse"} THEN {fr.b}
                 ELSE IF fr.at \in {"fields", "scan"} THEN From(h, fr.b, fr.i) ELSE {}
TodoParked == {q \in Blocks : \E p \in Parked : q \in From(heap, p, Idx(rc[p]))}
Todo       == {q \in Blocks : \E fr \in Calls : q \in TodoOf(heap, fr)} \cup TodoParked

(* What lies below a block that was visited is marked, or being marked, or *)
(* lies below a block that is still to be visited.                         *)
Settled == {b \in Blocks : count[b] >= 0 => rc[b] \in Marks(count[b])}
Sharing == {b \in Blocks : IsShared(b)}
Started == Sharing \cup Open \cup marked
Pending ==
  ~Doomed =>
    \A x \in Started : \A y \in ReachableFrom(heap, {x}) :
      \/ y \in Settled \cup Open
      \/ \E q \in Todo \ (Sharing \cup Open) :
           q \in ReachableFrom(heap, {x}) /\ y \in ReachableFrom(heap, {q})

Inv == Memory /\ Shape /\ TopOK /\ Hopeless /\ Chained /\ Counts /\ Reached /\ Pending

-----------------------------------------------------------------------------
(* What can be reached from a set of blocks.                               *)
LEMMA ReachBlocks == \A h, S : ReachableFrom(h, S) \subseteq Blocks
BY DEF ReachableFrom

LEMMA ReachContains ==
  ASSUME NEW h, NEW S \in SUBSET Blocks
  PROVE  S \subseteq ReachableFrom(h, S)
BY DEF ReachableFrom

LEMMA ReachClosed ==
  ASSUME NEW h, NEW S, NEW p \in ReachableFrom(h, S), NEW c \in Children(h, p)
  PROVE  c \in ReachableFrom(h, S)
BY DEF ReachableFrom, Children

LEMMA ReachLeast ==
  ASSUME NEW h, NEW S, NEW C \in SUBSET Blocks, S \subseteq C,
         \A p \in C : Children(h, p) \subseteq C
  PROVE  ReachableFrom(h, S) \subseteq C
BY DEF ReachableFrom

LEMMA ReachTrans ==
  ASSUME NEW h, NEW S, NEW x \in ReachableFrom(h, S)
  PROVE  ReachableFrom(h, {x}) \subseteq ReachableFrom(h, S)
<1>1. \A p \in ReachableFrom(h, S) : Children(h, p) \subseteq ReachableFrom(h, S)
  BY ReachClosed
<1>2. QED
  BY <1>1, ReachBlocks, ReachLeast

LEMMA ReachSub ==
  ASSUME NEW h, NEW S, NEW T \in SUBSET Blocks, S \subseteq T
  PROVE  ReachableFrom(h, S) \subseteq ReachableFrom(h, T)
BY DEF ReachableFrom

LEMMA ReachUnion ==
  ASSUME NEW h, NEW S \in SUBSET Blocks, NEW y \in ReachableFrom(h, S)
  PROVE  \E x \in S : y \in ReachableFrom(h, {x})
<1> DEFINE C == {b \in Blocks : \E x \in S : b \in ReachableFrom(h, {x})}
<1>1. S \subseteq C
  BY ReachContains
<1>2. \A p \in C : Children(h, p) \subseteq C
  BY ReachClosed DEF Children
<1>3. QED
  BY <1>1, <1>2, ReachLeast

LEMMA ReachSplit ==
  ASSUME NEW h, NEW x \in Blocks, NEW y \in ReachableFrom(h, {x}), y # x
  PROVE  \E c \in Children(h, x) : y \in ReachableFrom(h, {c})
<1> DEFINE C == {x} \cup {b \in Blocks : \E c \in Children(h, x) : b \in ReachableFrom(h, {c})}
<1>1. ASSUME NEW p \in C, NEW d \in Children(h, p) PROVE d \in C
  <2>1. d \in Blocks
    BY DEF Children
  <2>2. CASE p = x
    BY <2>1, <2>2, ReachContains
  <2>3. CASE p # x
    BY <2>1, <2>3, ReachClosed
  <2>4. QED
    BY <2>2, <2>3
<1>2. ReachableFrom(h, {x}) \subseteq C
  <2>1. C \in SUBSET Blocks /\ {x} \subseteq C /\ \A p \in C : Children(h, p) \subseteq C
    BY <1>1
  <2> HIDE DEF C
  <2>2. QED
    BY <2>1, ReachLeast
<1>3. QED
  BY <1>2

(* In an acyclic heap no block lies below its own children.                *)
LEMMA NoCycle ==
  ASSUME NEW h, Acyclic(h), NEW x \in Blocks, NEW c \in Children(h, x)
  PROVE  x \notin ReachableFrom(h, {c})
<1> SUFFICES ASSUME x \in ReachableFrom(h, {c}) PROVE FALSE
  OBVIOUS
<1> DEFINE S == {b \in Blocks : b \in ReachableFrom(h, {c}) /\ x \in ReachableFrom(h, {b})}
<1>1. c \in Blocks /\ c \in S
  BY ReachContains DEF Children
<1>2. PICK b \in S : \A i \in DOMAIN h[b] : h[b][i] \notin S
  BY <1>1 DEF Acyclic
<1>3. \A d \in Children(h, b) : d \notin S
  BY <1>2 DEF Children
<1>4. CASE b = x
  BY <1>1, <1>3, <1>4
<1>5. CASE b # x
  <2>1. PICK d \in Children(h, b) : x \in ReachableFrom(h, {d})
    BY <1>5, ReachSplit
  <2>2. d \in ReachableFrom(h, {c}) /\ d \in Blocks
    BY <2>1, ReachClosed DEF Children
  <2>3. QED
    BY <1>3, <2>1, <2>2
<1>6. QED
  BY <1>4, <1>5

-----------------------------------------------------------------------------
(* The shape of blocks.                                                    *)
LEMMA Sizes ==
  ASSUME Memory, NEW b \in Blocks
  PROVE  /\ Size(b) \in Nat /\ DOMAIN heap[b] = 0..(Size(b) - 1)
         /\ IsVector(b) => Size(b) > 1
         /\ ~IsVector(b) => HeaderScan(b) = Size(b) /\ Size(b) < IDX_SPAN
         /\ IsLeaf(b) <=> ~IsVector(b) /\ Size(b) = 0
         /\ \A i \in DOMAIN heap[b] : heap[b][i] \in Blocks => heap[b][i] \in Children(heap, b)
<1>1. PICK n \in 0..Cardinality(Slots) :
        /\ DOMAIN heap[b] = 0..(n - 1)
        /\ IF n > 0 /\ heap[b][0] = Length
           THEN n > 1 ELSE n < KK_SCAN_FSIZE_MAX /\ n < IDX_SPAN
  BY DEF Memory, Wellformed
<1>2. Cardinality(Slots) \in Nat
  BY MarkAssumption, FS_CardinalityType
<1>3. n \in Nat /\ Size(b) = n
  BY <1>1, <1>2, FS_Interval DEF Size
<1>4. IsVector(b) <=> n > 0 /\ heap[b][0] = Length
  BY <1>1, <1>3 DEF IsVector
<1>5. HeaderScan(b) = 0 <=> ~IsVector(b) /\ n = 0
  BY <1>3 DEF HeaderScan, KK_SCAN_FSIZE_MAX
<1>6. QED
  BY <1>1, <1>3, <1>4, <1>5 DEF HeaderScan, IsLeaf, KK_SCAN_FSIZE_MAX, Children

-----------------------------------------------------------------------------
(* The calls by height, and what the ways to change the C stack do to them. *)
Typed == stack \in Seq(FrameType)

TowerFacts ==
  /\ Height \in Nat /\ DOMAIN tower = 1..Height
  /\ \A h \in 1..Height : tower[h] \in FrameType
  /\ \A fr \in Calls : fr \in FrameType
  /\ Below \subseteq Calls
  /\ stack # <<>> => /\ Height > 0 /\ Height \in DOMAIN tower /\ tower[Height] = Top
                     /\ Top \in FrameType /\ Calls = Below \cup {Top}
  /\ stack = <<>> => Calls = {}

LEMMA TowersAre == Typed => TowerFacts
<1> SUFFICES ASSUME stack \in Seq(FrameType) PROVE TowerFacts
  BY DEF Typed
<1>1. Height \in Nat /\ DOMAIN tower = 1..Height /\ \A h \in 1..Height : tower[h] \in FrameType
  BY DEF Height, tower
<1>2. \A fr \in Calls : fr \in FrameType
  BY <1>1 DEF Calls
<1>3. Below \subseteq Calls
  BY <1>1 DEF Below, Calls
<1>4. stack # <<>> => Height > 0 /\ tower[Height] = Top
  BY DEF Height, tower, Top
<1>5. stack # <<>> => Height \in 1..Height
  BY <1>1, <1>4
<1>6. ASSUME stack # <<>> PROVE Calls \subseteq Below \cup {Top}
  <2>1. \A h \in 1..Height : h = Height \/ h \in 1..(Height - 1)
    BY <1>1
  <2> HIDE DEF Height, tower
  <2>2. QED
    BY <1>4, <1>6, <2>1 DEF Calls, Below
<1>7. stack # <<>> => Top \in Calls /\ Top \in FrameType
  <2> HIDE DEF Height, tower
  <2>1. QED
    BY <1>1, <1>4, <1>5 DEF Calls
<1>8. stack = <<>> => Height = 0
  BY DEF Height
<1>9. stack = <<>> => Calls = {}
  BY <1>8 DEF Calls
<1>10. QED
  BY <1>1, <1>2, <1>3, <1>4, <1>5, <1>6, <1>7, <1>9 DEF TowerFacts

LEMMA Towers ==
  ASSUME stack \in Seq(FrameType)
  PROVE  /\ Height \in Nat /\ DOMAIN tower = 1..Height
         /\ \A h \in 1..Height : tower[h] \in FrameType
         /\ \A fr \in Calls : fr \in FrameType
         /\ Below \subseteq Calls
         /\ stack # <<>> => /\ Height > 0 /\ Height \in DOMAIN tower /\ tower[Height] = Top
                            /\ Top \in FrameType /\ Calls = Below \cup {Top}
         /\ stack = <<>> => Calls = {}
BY TowersAre DEF TowerFacts, Typed

LEMMA TowersNext ==
  ASSUME stack' \in Seq(FrameType)
  PROVE  /\ Height' \in Nat /\ DOMAIN tower' = 1..Height'
         /\ \A fr \in Calls' : fr \in FrameType
         /\ Below' \subseteq Calls'
         /\ stack' # <<>> => /\ Height' > 0 /\ Top' \in FrameType
                             /\ Calls' = Below' \cup {Top'}
         /\ stack' = <<>> => Calls' = {}
<1>1. Typed'
  BY DEF Typed
<1>2. TowerFacts'
  BY <1>1, TowersAre, PTL
<1>3. QED
  BY <1>2 DEF TowerFacts

LEMMA GotoTower ==
  ASSUME stack \in Seq(FrameType), stack # <<>>, NEW fr \in FrameType, Goto(fr)
  PROVE  /\ stack' \in Seq(FrameType) /\ stack' # <<>> /\ Height' = Height /\ Top' = fr
         /\ tower' = [h \in 1..Height |-> IF h = Height THEN fr ELSE tower[h]]
<1>1. Tail(stack) \in Seq(FrameType) /\ Len(Tail(stack)) = Height - 1 /\ Height \in Nat
  BY DEF Height
<1>2. stack' \in Seq(FrameType) /\ Len(stack') = Height /\ stack'[1] = fr
  BY <1>1 DEF Goto
<1>3. \A k \in 2..Height : stack'[k] = stack[k]
  BY <1>1 DEF Goto, Height
<1>4. Height > 0 /\ Height' = Height
  BY <1>1, <1>2 DEF Height
<1>5. ASSUME NEW h \in 1..Height
      PROVE  stack'[Height + 1 - h] = IF h = Height THEN fr ELSE stack[Height + 1 - h]
  BY <1>1, <1>2, <1>3
<1>6. tower' = [h \in 1..Height |-> IF h = Height THEN fr ELSE stack[Height + 1 - h]]
  BY <1>4, <1>5 DEF tower
<1>7. tower' = [h \in 1..Height |-> IF h = Height THEN fr ELSE tower[h]]
  BY <1>1, <1>4, <1>6 DEF tower
<1>8. QED
  BY <1>2, <1>4, <1>7 DEF Top, Height

LEMMA ReturnTower ==
  ASSUME stack \in Seq(FrameType), stack # <<>>, Return
  PROVE  /\ stack' \in Seq(FrameType) /\ Height' = Height - 1
         /\ tower' = [h \in 1..(Height - 1) |-> tower[h]]
<1>1. Tail(stack) \in Seq(FrameType) /\ Len(Tail(stack)) = Height - 1 /\ Height \in Nat
  BY DEF Height
<1>2. \A k \in 1..(Height - 1) : stack'[k] = stack[k + 1]
  BY <1>1 DEF Return, Height
<1>3. Height > 0 /\ Height' = Height - 1 /\ stack' \in Seq(FrameType)
  BY <1>1 DEF Height, Return
<1>4. ASSUME NEW h \in 1..(Height - 1)
      PROVE  stack'[(Height - 1) + 1 - h] = stack[Height + 1 - h]
  BY <1>1, <1>2
<1>5. tower' = [h \in 1..(Height - 1) |-> tower[h]]
  BY <1>1, <1>3, <1>4 DEF tower
<1>6. QED
  BY <1>3, <1>5

LEMMA CallTower ==
  ASSUME stack \in Seq(FrameType), stack # <<>>, Len(stack) < MaxCalls,
         NEW fr \in FrameType, NEW callee \in FrameType, Call(fr, callee)
  PROVE  /\ stack' \in Seq(FrameType) /\ stack' # <<>> /\ Height' = Height + 1 /\ Top' = callee
         /\ tower' = [h \in 1..(Height + 1) |-> IF h = Height + 1 THEN callee
                                                ELSE IF h = Height THEN fr ELSE tower[h]]
<1>1. Tail(stack) \in Seq(FrameType) /\ Len(Tail(stack)) = Height - 1 /\ Height \in Nat
  BY DEF Height
<1>2. /\ stack' \in Seq(FrameType) /\ Len(stack') = Height + 1
      /\ stack'[1] = callee /\ stack'[2] = fr
  BY <1>1 DEF Call
<1>3. \A k \in 3..(Height + 1) : stack'[k] = stack[k - 1]
  BY <1>1 DEF Call, Height
<1>4. QED
  BY <1>1, <1>2, <1>3 DEF Height, tower, Top

(* The same for the set of calls.                                          *)
LEMMA GotoCalls ==
  ASSUME stack \in Seq(FrameType), stack # <<>>, NEW fr \in FrameType, Goto(fr)
  PROVE  Below' = Below /\ Calls' = Below \cup {fr}
<1>1. /\ stack' \in Seq(FrameType) /\ stack' # <<>> /\ Height' = Height /\ Top' = fr
      /\ tower' = [h \in 1..Height |-> IF h = Height THEN fr ELSE tower[h]]
  BY GotoTower
<1>2. Height \in Nat /\ Calls' = Below' \cup {Top'}
  BY <1>1, Towers, TowersNext
<1>3. \A h \in 1..(Height - 1) : h \in 1..Height /\ h # Height
  BY <1>2
<1>4. \A h \in 1..(Height - 1) : tower'[h] = tower[h]
  <2> HIDE DEF Height, tower
  <2>1. QED
    BY <1>1, <1>3
<1>5. Below' = {tower'[h] : h \in 1..(Height - 1)}
  BY <1>1 DEF Below
<1>6. QED
  BY <1>1, <1>2, <1>4, <1>5 DEF Below

LEMMA CallCalls ==
  ASSUME stack \in Seq(FrameType), stack # <<>>, Len(stack) < MaxCalls,
         NEW fr \in FrameType, NEW callee \in FrameType, Call(fr, callee)
  PROVE  Below' = Below \cup {fr} /\ Calls' = Below \cup {fr, callee}
<1>1. /\ stack' \in Seq(FrameType) /\ stack' # <<>> /\ Height' = Height + 1 /\ Top' = callee
      /\ tower' = [h \in 1..(Height + 1) |-> IF h = Height + 1 THEN callee
                                                ELSE IF h = Height THEN fr ELSE tower[h]]
  BY CallTower
<1>2. Height \in Nat /\ Height > 0 /\ Calls' = Below' \cup {Top'}
  BY <1>1, Towers, TowersNext
<1>3. \A h \in 1..Height : tower'[h] = IF h = Height THEN fr ELSE tower[h]
  <2>1. \A h \in 1..Height : h \in 1..(Height + 1) /\ h # Height + 1
    BY <1>2
  <2> HIDE DEF Height, tower
  <2>2. QED
    BY <1>1, <2>1
<1>4. Below' = {tower'[h] : h \in 1..Height}
  <2>1. Height' - 1 = Height
    BY <1>1, <1>2
  <2>2. QED
    BY <2>1 DEF Below
<1>5. \A h \in 1..Height : h = Height \/ h \in 1..(Height - 1)
  BY <1>2
<1>6. Height \in 1..Height /\ \A h \in 1..(Height - 1) : h \in 1..Height /\ h # Height
  BY <1>2
<1>7. Below' \subseteq Below \cup {fr}
  <2> HIDE DEF Height, tower
  <2>1. QED
    BY <1>3, <1>4, <1>5 DEF Below
<1>8. Below \cup {fr} \subseteq Below'
  <2> HIDE DEF Height, tower
  <2>1. QED
    BY <1>3, <1>4, <1>6 DEF Below
<1>9. QED
  BY <1>1, <1>2, <1>7, <1>8

LEMMA ReturnCalls ==
  ASSUME stack \in Seq(FrameType), stack # <<>>, Return
  PROVE  /\ Calls' = Below /\ Below' \subseteq Below
         /\ stack' # <<>> => Top' \in Below
<1>1. /\ stack' \in Seq(FrameType) /\ Height' = Height - 1
      /\ tower' = [h \in 1..(Height - 1) |-> tower[h]]
  BY ReturnTower
<1>2. Height \in Nat /\ Below' \subseteq Calls' /\ (stack' # <<>> => Calls' = Below' \cup {Top'})
  BY <1>1, Towers, TowersNext
<1>3. \A h \in 1..(Height - 1) : tower'[h] = tower[h]
  <2> HIDE DEF Height, tower
  <2>1. QED
    BY <1>1
<1>4. Calls' = {tower'[h] : h \in 1..(Height - 1)}
  BY <1>1 DEF Calls
<1>5. Calls' = Below
  BY <1>3, <1>4 DEF Below
<1>6. QED
  BY <1>2, <1>5

-----------------------------------------------------------------------------
(* Which calls are below the running one.                                  *)
LEMMA Splits ==
  ASSUME Shape, stack # <<>>
  PROVE  /\ Calls = Below \cup {Top} /\ Top \in FrameType /\ Top.b \in Blocks /\ FrameOK(Top)
         /\ \A g \in Below : g \in FrameType /\ FrameOK(g) /\ Above(Top, g)
<1>1. /\ Height \in Nat /\ Height > 0 /\ DOMAIN tower = 1..Height /\ tower[Height] = Top
      /\ Top \in FrameType /\ Calls = Below \cup {Top} /\ \A fr \in Calls : fr \in FrameType
  BY Towers DEF Shape
<1>2. \A g \in 1..(Height - 1) : g \in 1..Height /\ Height \in 1..Height /\ g < Height
  BY <1>1
<1>3. \A g \in 1..(Height - 1) : Above(Top, tower[g])
  <2> HIDE DEF Height, tower
  <2>1. QED
    BY <1>1, <1>2 DEF Shape, Ordered
<1>4. \A g \in Below : Above(Top, g)
  BY <1>3 DEF Below
<1>5. \A fr \in Calls : FrameOK(fr)
  BY DEF Shape
<1>6. Top.b \in Blocks
  BY <1>1 DEF FrameType
<1>7. QED
  BY <1>1, <1>4, <1>5, <1>6

LEMMA FrameSame ==
  ASSUME UNCHANGED heap, NEW fr, FrameOK(fr)
  PROVE  FrameOK(fr)'
BY DEF FrameOK, Size, IsVector

LEMMA FramesNext ==
  ASSUME UNCHANGED heap, stack' \in Seq(FrameType), \A fr \in Calls' : FrameOK(fr), Ordered'
  PROVE  Shape'
<1>1. \A fr \in Calls' : FrameOK(fr)'
  BY FrameSame
<1>2. QED
  BY <1>1 DEF Shape

(* The order on the towers that Goto, Call and Return make.                *)
LEMMA OrderedNext ==
  ASSUME UNCHANGED heap, DOMAIN tower' = 1..Height', Height' \in Nat,
         \A g, h \in 1..Height' : g < h => Above(tower'[h], tower'[g]),
         \A h \in 1..Height' : tower'[h].fn = "recx_large" =>
            h - 1 \in 1..Height' /\ tower'[h - 1].fn = "recx" /\ tower'[h - 1].b = tower'[h].b
  PROVE  Ordered'
<1> HIDE DEF Height, tower
<1>1. ASSUME NEW g \in DOMAIN tower', NEW h \in DOMAIN tower', g < h
      PROVE  Above(tower[h], tower[g])'
  <2>1. Above(tower'[h], tower'[g])
    BY <1>1
  <2>2. QED
    BY <2>1 DEF Above, IsVector
<1>2. \A g, h \in DOMAIN tower' : g < h => Above(tower[h], tower[g])'
  BY <1>1
<1>3. QED
  BY <1>2 DEF Ordered

LEMMA GotoShape ==
  ASSUME Shape, stack # <<>>, UNCHANGED heap, NEW fr \in FrameType, Goto(fr), FrameOK(fr),
         \A g \in Below : Above(fr, g),
         fr.fn = "recx_large" => Top.fn = "recx_large" /\ fr.b = Top.b
  PROVE  /\ Shape' /\ stack' # <<>> /\ Top' = fr
         /\ Below' = Below /\ Calls' = Below \cup {fr}
<1>1. /\ stack' \in Seq(FrameType) /\ stack' # <<>> /\ Height' = Height /\ Top' = fr
      /\ tower' = [h \in 1..Height |-> IF h = Height THEN fr ELSE tower[h]]
      /\ Below' = Below /\ Calls' = Below \cup {fr}
  BY GotoTower, GotoCalls DEF Shape
<1>2. Height \in Nat /\ Height > 0 /\ DOMAIN tower = 1..Height /\ tower[Height] = Top
  BY Towers DEF Shape
<1>3. \A g \in 1..Height : g < Height => g \in 1..(Height - 1)
  BY <1>2
<1> HIDE DEF Height, tower
<1>4. ASSUME NEW g \in 1..Height, NEW h \in 1..Height, g < h
      PROVE  Above(tower'[h], tower'[g])
  <2>1. g < Height
    BY <1>2, <1>4
  <2>2. tower[g] \in Below
    BY <1>3, <2>1 DEF Below
  <2>3. h # Height => Above(tower[h], tower[g])
    BY <1>2, <1>4 DEF Shape, Ordered
  <2>4. tower'[g] = tower[g] /\ tower'[h] = IF h = Height THEN fr ELSE tower[h]
    BY <1>1, <1>4, <2>1
  <2>5. QED
    BY <2>2, <2>3, <2>4
<1>5. ASSUME NEW h \in 1..Height, tower'[h].fn = "recx_large"
      PROVE  h - 1 \in 1..Height /\ tower'[h - 1].fn = "recx" /\ tower'[h - 1].b = tower'[h].b
  <2>1. tower'[h] = IF h = Height THEN fr ELSE tower[h]
    BY <1>1
  <2>2. tower[h].fn = "recx_large" /\ tower[h].b = tower'[h].b
    BY <1>2, <1>5, <2>1
  <2>3. h - 1 \in 1..Height /\ tower[h - 1].fn = "recx" /\ tower[h - 1].b = tower[h].b
    BY <1>2, <2>2 DEF Shape, Ordered
  <2>4. h - 1 # Height
    BY <1>2
  <2>5. tower'[h - 1] = tower[h - 1]
    BY <1>1, <2>3, <2>4
  <2>6. QED
    BY <2>2, <2>3, <2>5
<1>6. Ordered'
  BY <1>1, <1>2, <1>4, <1>5, OrderedNext
<1>7. \A c \in Calls' : FrameOK(c)
  BY <1>1, Splits
<1>8. QED
  BY <1>1, <1>6, <1>7, FramesNext

LEMMA CallShape ==
  ASSUME Shape, stack # <<>>, Len(stack) < MaxCalls, UNCHANGED heap,
         NEW fr \in FrameType, NEW callee \in FrameType, Call(fr, callee),
         FrameOK(fr), FrameOK(callee), Above(callee, fr), fr.fn = Top.fn, fr.b = Top.b,
         \A g \in Below : Above(fr, g) /\ Above(callee, g),
         callee.fn = "recx_large" => fr.fn = "recx" /\ fr.b = callee.b
  PROVE  /\ Shape' /\ stack' # <<>> /\ Top' = callee
         /\ Below' = Below \cup {fr} /\ Calls' = Below \cup {fr, callee}
<1>1. /\ stack' \in Seq(FrameType) /\ stack' # <<>> /\ Height' = Height + 1 /\ Top' = callee
      /\ tower' = [h \in 1..(Height + 1) |-> IF h = Height + 1 THEN callee
                                             ELSE IF h = Height THEN fr ELSE tower[h]]
      /\ Below' = Below \cup {fr} /\ Calls' = Below \cup {fr, callee}
  BY CallTower, CallCalls DEF Shape
<1>2. Height \in Nat /\ Height > 0 /\ DOMAIN tower = 1..Height /\ tower[Height] = Top
  BY Towers DEF Shape
<1>3. \A g \in 1..(Height + 1) : \/ g = Height + 1 \/ g = Height
                                 \/ g \in 1..(Height - 1) /\ g < Height /\ g \in 1..Height
  BY <1>2
<1> HIDE DEF Height, tower
<1>4. ASSUME NEW g \in 1..(Height + 1), NEW h \in 1..(Height + 1), g < h
      PROVE  Above(tower'[h], tower'[g])
  <2>1. /\ tower'[g] = IF g = Height + 1 THEN callee ELSE IF g = Height THEN fr ELSE tower[g]
        /\ tower'[h] = IF h = Height + 1 THEN callee ELSE IF h = Height THEN fr ELSE tower[h]
    BY <1>1
  <2>2. g # Height + 1
    BY <1>2, <1>4
  <2>3. CASE g = Height
    <3>1. h = Height + 1 /\ Height # Height + 1
      BY <1>2, <1>4, <2>3
    <3>2. QED
      BY <2>1, <2>3, <3>1
  <2>4. CASE g # Height
    <3>1. g \in 1..(Height - 1) /\ g < Height
      BY <1>3, <2>2, <2>4
    <3>2. tower[g] \in Below
      BY <3>1 DEF Below
    <3>3. h < Height => Above(tower[h], tower[g])
      BY <1>2, <1>3, <1>4, <3>1 DEF Shape, Ordered
    <3>4. h = Height + 1 \/ h = Height \/ h < Height
      BY <1>3
    <3>5. QED
      BY <2>1, <2>2, <2>4, <3>2, <3>3, <3>4
  <2>5. QED
    BY <2>3, <2>4
<1>5. ASSUME NEW h \in 1..(Height + 1), tower'[h].fn = "recx_large"
      PROVE  /\ h - 1 \in 1..(Height + 1) /\ tower'[h - 1].fn = "recx"
             /\ tower'[h - 1].b = tower'[h].b
  <2>1. CASE h = Height + 1
    <3>1. h - 1 = Height /\ Height \in 1..(Height + 1) /\ Height # Height + 1
      BY <1>2, <2>1
    <3>2. tower'[h] = callee /\ tower'[h - 1] = fr
      BY <1>1, <2>1, <3>1
    <3>3. QED
      BY <1>5, <3>1, <3>2
  <2>2. CASE h # Height + 1
    <3>1. h \in 1..Height
      BY <1>2, <2>2
    <3>2. tower'[h] = IF h = Height THEN fr ELSE tower[h]
      BY <1>1, <2>2
    <3>3. tower[h].fn = "recx_large" /\ tower[h].b = tower'[h].b
      BY <1>2, <1>5, <3>2
    <3>4. h - 1 \in 1..Height /\ tower[h - 1].fn = "recx" /\ tower[h - 1].b = tower[h].b
      BY <1>2, <3>1, <3>3 DEF Shape, Ordered
    <3>5. h - 1 # Height /\ h - 1 # Height + 1 /\ h - 1 \in 1..(Height + 1)
      BY <1>2, <3>1, <3>4
    <3>6. tower'[h - 1] = tower[h - 1]
      BY <1>1, <3>5
    <3>7. QED
      BY <3>3, <3>4, <3>5, <3>6
  <2>3. QED
    BY <2>1, <2>2
<1>6. Ordered'
  <2>1. Height' \in Nat /\ DOMAIN tower' = 1..Height'
    BY <1>1, <1>2
  <2>2. QED
    BY <1>1, <1>4, <1>5, <2>1, OrderedNext
<1>7. \A c \in Calls' : FrameOK(c)
  BY <1>1, Splits
<1>8. QED
  BY <1>1, <1>6, <1>7, FramesNext

LEMMA ReturnShape ==
  ASSUME Shape, stack # <<>>, UNCHANGED heap, Return
  PROVE  /\ Shape' /\ Calls' = Below /\ Below' \subseteq Below
         /\ stack' # <<>> => Top' \in Below
<1>1. /\ stack' \in Seq(FrameType) /\ Height' = Height - 1
      /\ tower' = [h \in 1..(Height - 1) |-> tower[h]]
      /\ Calls' = Below /\ Below' \subseteq Below /\ (stack' # <<>> => Top' \in Below)
  BY ReturnTower, ReturnCalls DEF Shape
<1>2. Height \in Nat /\ Height > 0 /\ DOMAIN tower = 1..Height
  BY Towers DEF Shape
<1>3. \A h \in 1..(Height - 1) : h \in 1..Height
  BY <1>2
<1> HIDE DEF Height, tower
<1>4. \A h \in 1..(Height - 1) : tower'[h] = tower[h]
  BY <1>1
<1>5. \A g, h \in 1..(Height - 1) : g < h => Above(tower'[h], tower'[g])
  BY <1>2, <1>3, <1>4 DEF Shape, Ordered
<1>6. ASSUME NEW h \in 1..(Height - 1), tower'[h].fn = "recx_large"
      PROVE  /\ h - 1 \in 1..(Height - 1) /\ tower'[h - 1].fn = "recx"
             /\ tower'[h - 1].b = tower'[h].b
  <2>1. h - 1 \in 1..Height /\ tower[h - 1].fn = "recx" /\ tower[h - 1].b = tower[h].b
    BY <1>2, <1>3, <1>4, <1>6 DEF Shape, Ordered
  <2>2. h - 1 \in 1..(Height - 1)
    BY <1>2, <2>1
  <2>3. QED
    BY <1>4, <2>1, <2>2
<1>7. Ordered'
  BY <1>1, <1>2, <1>5, <1>6, OrderedNext
<1>8. \A c \in Calls' : FrameOK(c)
  BY <1>1, Splits
<1>9. QED
  BY <1>1, <1>7, <1>8, FramesNext

-----------------------------------------------------------------------------
(* The chain of parked blocks.  It leads down to the block of the running  *)
(* call, so that no block below that one is parked.                        *)
LEMMA WaitsTop ==
  ASSUME Shape, stack # <<>>
  PROVE  /\ \A w \in Waits : w[2] = Top.b
         /\ Top.parent # Null => Waits = {<<Top.parent, Top.b>>}
         /\ Top.fn = "rec" => Waits = {}
         /\ Top.fn = "rec" \/ ~IsVector(Top.b) \/ Top.parent # Null =>
              \A g \in Below : g.fn = "rec" /\ g.parent = Null
<1>1. /\ Calls = Below \cup {Top} /\ FrameOK(Top) /\ Top \in FrameType
      /\ \A g \in Below : g \in FrameType /\ FrameOK(g) /\ Above(Top, g)
  BY Splits
<1>2. ASSUME NEW g \in Below
      PROVE  /\ g.parent # Null => g.fn # "rec"
             /\ g.fn # "rec" => Top.fn # "rec" /\ Top.b = g.b /\ Top.parent = Null /\ IsVector(g.b)
  BY <1>1 DEF Above, FrameOK
<1>3. ASSUME Top.fn = "rec" \/ ~IsVector(Top.b) \/ Top.parent # Null
      PROVE  \A g \in Below : g.fn = "rec" /\ g.parent = Null
  BY <1>2, <1>3
<1>4. \A w \in Waits : w[2] = Top.b
  BY <1>1, <1>2 DEF Waits
<1>5. Top.fn = "rec" => Top.parent = Null
  BY <1>1 DEF FrameOK
<1>6. Top.parent # Null => Waits = {<<Top.parent, Top.b>>}
  BY <1>1, <1>3 DEF Waits
<1>7. Top.fn = "rec" => Waits = {}
  BY <1>1, <1>3, <1>5 DEF Waits
<1>8. QED
  BY <1>3, <1>4, <1>6, <1>7

LEMMA ParkedEmpty ==
  ASSUME Memory, Chained, Waits = {}
  PROVE  Parked = {}
<1> SUFFICES ASSUME Parked # {} PROVE FALSE
  OBVIOUS
<1>1. Parked \in SUBSET Blocks
  BY DEF Parked
<1>2. PICK p \in Parked : \A i \in DOMAIN heap[p] : heap[p][i] \notin Parked
  BY <1>1 DEF Memory, Acyclic
<1>3. PICK c \in Parked : Link(c) = p
  BY <1>2 DEF Chained
<1>4. heap[p][Through(p)] = c /\ Through(p) \in DOMAIN heap[p]
  BY <1>3 DEF Chained
<1>5. QED
  BY <1>2, <1>4

LEMMA ParkedAbove ==
  ASSUME Memory, Chained, NEW b \in Blocks, \A w \in Waits : w[2] = b, NEW q \in Parked
  PROVE  \E c \in Children(heap, q) : b \in ReachableFrom(heap, {c})
<1> DEFINE S == {p \in Parked : \A c \in Children(heap, p) : b \notin ReachableFrom(heap, {c})}
<1> SUFFICES ASSUME S # {} PROVE FALSE
  OBVIOUS
<1>1. S \in SUBSET Blocks
  BY DEF Parked
<1>2. PICK p \in S : \A i \in DOMAIN heap[p] : heap[p][i] \notin S
  BY <1>1 DEF Memory, Acyclic
<1>3. /\ Through(p) \in DOMAIN heap[p] /\ heap[p][Through(p)] \in Blocks
      /\ \/ \E w \in Waits : w[1] = p
         \/ \E c \in Parked : Link(c) = p
  BY DEF Chained
<1>4. heap[p][Through(p)] \in Children(heap, p)
  BY <1>3 DEF Children
<1>5. ASSUME NEW w \in Waits, w[1] = p PROVE FALSE
  <2>1. heap[p][Through(p)] = b
    BY <1>5 DEF Chained
  <2>2. b \in ReachableFrom(heap, {b})
    BY ReachContains
  <2>3. QED
    BY <1>4, <2>1, <2>2
<1>6. ASSUME NEW c \in Parked, Link(c) = p PROVE FALSE
  <2>1. heap[p][Through(p)] = c
    BY <1>6 DEF Chained
  <2>2. PICK d \in Children(heap, c) : b \in ReachableFrom(heap, {d})
    BY <1>2, <1>3, <2>1
  <2>3. c \in Blocks /\ c \in ReachableFrom(heap, {c})
    BY ReachContains DEF Parked
  <2>4. d \in ReachableFrom(heap, {c})
    BY <2>3, ReachClosed
  <2>5. b \in ReachableFrom(heap, {c})
    BY <2>2, <2>4, ReachTrans
  <2>6. QED
    BY <1>4, <2>1, <2>5
<1>7. QED
  BY <1>3, <1>5, <1>6

(* The children of the running call's block are not visited now.           *)
LEMMA ChildNotParked ==
  ASSUME Memory, Shape, Chained, stack # <<>>, NEW c \in Children(heap, Top.b)
  PROVE  c \in Blocks /\ c # Top.b /\ c \notin Parked /\ c \notin Open
<1>1. Top.b \in Blocks /\ c \in Blocks
  BY Splits DEF Children
<1>2. Top.b \notin ReachableFrom(heap, {c})
  BY <1>1, NoCycle DEF Memory
<1>3. c \in ReachableFrom(heap, {c})
  BY <1>1, ReachContains
<1>4. c # Top.b
  BY <1>2, <1>3
<1>5. ASSUME c \in Parked PROVE FALSE
  <2>1. \A w \in Waits : w[2] = Top.b
    BY WaitsTop
  <2>2. PICK d \in Children(heap, c) : Top.b \in ReachableFrom(heap, {d})
    BY <1>1, <1>5, <2>1, ParkedAbove
  <2>3. d \in ReachableFrom(heap, {c})
    BY <1>3, ReachClosed
  <2>4. QED
    BY <1>2, <2>2, <2>3, ReachTrans
<1>6. QED
  BY <1>1, <1>4, <1>5 DEF Open, Scanning

LEMMA Unparked ==
  ASSUME NEW b \in Blocks, b \notin Parked
  PROVE  field[b] = heap[b]
BY DEF Parked

LEMMA LeafNotParked ==
  ASSUME Memory, Chained, NEW b \in Blocks, IsLeaf(b)
  PROVE  b \notin Parked
<1>1. Size(b) = 0 /\ DOMAIN heap[b] = 0..(Size(b) - 1)
  BY Sizes
<1>2. DOMAIN heap[b] = {}
  BY <1>1
<1>3. QED
  BY <1>2 DEF Chained

LEMMA RecNotParked ==
  ASSUME Memory, Shape, Chained, stack # <<>>, Top.fn = "rec"
  PROVE  Parked = {}
BY WaitsTop, ParkedEmpty

-----------------------------------------------------------------------------
(* The chain of the invariant is the one that the calls lead to.           *)
LEMMA CallsStack ==
  ASSUME stack \in Seq(FrameType)
  PROVE  Calls = {stack[k] : k \in DOMAIN stack}
<1>1. Height \in Nat /\ DOMAIN stack = 1..Height
  BY DEF Height
<1>2. \A k \in 1..Height : Height + 1 - k \in 1..Height /\ Height + 1 - (Height + 1 - k) = k
  BY <1>1
<1>3. \A h \in 1..Height : tower[h] = stack[Height + 1 - h]
  BY DEF tower
<1>4. \A k \in 1..Height : tower[Height + 1 - k] = stack[k]
  BY <1>2, <1>3
<1> HIDE DEF Height, tower
<1>5. QED
  BY <1>1, <1>2, <1>3, <1>4 DEF Calls

LEMMA WaitsAre ==
  ASSUME Chained, NEW p, NEW c, <<p, c>> \in Waits
  PROVE  p \in Parked /\ heap[p][Through(p)] = c
<1> DEFINE w == <<p, c>>
<1>1. w[1] \in Parked /\ heap[w[1]][Through(w[1])] = w[2]
  BY DEF Chained
<1>2. w[1] = p /\ w[2] = c
  OBVIOUS
<1>3. QED
  BY <1>1, <1>2

LEMMA ReversalSafe == Memory /\ Shape /\ Chained => ReversalConsistent
<1> SUFFICES ASSUME Memory, Shape, Chained PROVE ReversalConsistent
  OBVIOUS
<1> DEFINE calls  == {k \in DOMAIN stack : stack[k].fn = "recx"}
           starts == {stack[k].parent : k \in calls} \ {Null}
           chain  == {p \in Blocks : \A C \in SUBSET Blocks :
                        starts \subseteq C /\ (\A q \in C : Link(q) \in C \cup {Null}) => p \in C}
<1>1. \A k \in DOMAIN stack : stack[k] \in Calls
  BY CallsStack DEF Shape
<1>2. \A fr \in Calls : \E k \in DOMAIN stack : fr = stack[k]
  BY CallsStack DEF Shape
<1>3. \A fr \in Calls : fr.parent # Null => fr.fn = "recx"
  BY DEF Shape, FrameOK
<1>4. ASSUME NEW k \in calls, stack[k].parent # Null
      PROVE  <<stack[k].parent, stack[k].b>> \in Waits
  BY <1>1, <1>4 DEF Waits
<1>5. \A k \in calls : Restores(stack[k].parent, stack[k].b)
  <2>1. ASSUME NEW k \in calls, stack[k].parent # Null
        PROVE  /\ stack[k].parent \in Parked
               /\ heap[stack[k].parent][Through(stack[k].parent)] = stack[k].b
    BY <1>4, <2>1, WaitsAre
  <2>2. QED
    BY <2>1 DEF Restores, Chained
<1>6. starts \subseteq Parked
  BY <1>4, WaitsAre
<1>7. Parked \in SUBSET Blocks /\ \A q \in Parked : Link(q) \in Parked \cup {Null}
  BY DEF Chained, Parked
<1>8. chain \subseteq Parked
  BY <1>6, <1>7
<1>9. \A p \in chain : Restores(Link(p), p)
  <2>1. ASSUME NEW p \in Parked PROVE Restores(Link(p), p)
    <3>1. Link(p) = Null \/ Link(p) \in Parked
      BY <1>7
    <3>2. QED
      BY <3>1 DEF Chained, Restores
  <2>2. QED
    BY <1>8, <2>1
<1>10. Parked \subseteq chain
  <2>1. SUFFICES ASSUME NEW C \in SUBSET Blocks, starts \subseteq C,
                        \A q \in C : Link(q) \in C \cup {Null},
                        Parked \ C # {}
                 PROVE  FALSE
    BY <1>7
  <2>2. Parked \ C \in SUBSET Blocks
    BY <1>7
  <2>3. PICK p \in Parked \ C : \A i \in DOMAIN heap[p] : heap[p][i] \notin Parked \ C
    BY <2>1, <2>2 DEF Memory, Acyclic
  <2>4. p \in Blocks /\ p # Null
    BY <1>7, MarkAssumption
  <2>5. ASSUME NEW w \in Waits, w[1] = p PROVE FALSE
    <3>1. PICK fr \in Calls : fr.parent = p
      BY <2>5 DEF Waits
    <3>2. PICK k \in DOMAIN stack : fr = stack[k]
      BY <1>2
    <3>3. k \in calls /\ stack[k].parent = p
      BY <1>3, <2>4, <3>1, <3>2
    <3>4. QED
      BY <2>1, <2>3, <2>4, <3>3
  <2>6. ASSUME NEW c \in Parked, Link(c) = p PROVE FALSE
    <3>1. heap[p][Through(p)] = c /\ Through(p) \in DOMAIN heap[p]
      BY <2>6 DEF Chained
    <3>2. c \in C
      BY <2>3, <3>1
    <3>3. QED
      BY <2>1, <2>3, <2>4, <2>6, <3>2
  <2>7. QED
    BY <2>3, <2>5, <2>6 DEF Chained
<1>11. ASSUME NEW b \in Blocks, NEW i \in DOMAIN heap[b], field[b][i] # heap[b][i]
       PROVE  b \in chain /\ i = Through(b)
  <2>1. b \in Parked
    BY <1>11 DEF Parked
  <2>2. field[b] = [heap[b] EXCEPT ![Through(b)] = Link(b)]
    BY <2>1 DEF Chained
  <2>3. QED
    BY <1>10, <1>11, <2>1, <2>2
<1>12. QED
  <2> HIDE DEF chain
  <2>1. \A b \in Blocks : \A i \in DOMAIN heap[b] :
          field[b][i] # heap[b][i] => b \in chain /\ i = Through(b)
    BY <1>11
  <2> USE DEF chain
  <2>2. QED
    BY <1>5, <1>9, <2>1 DEF ReversalConsistent

-----------------------------------------------------------------------------
(* Steps that leave the chain alone.                                       *)
LEMMA KeepChained ==
  ASSUME Chained, UNCHANGED <<heap, field>>, \A p \in Parked : rc'[p] = rc[p], Waits' = Waits
  PROVE  Chained' /\ Parked' = Parked
<1>1. Parked' = Parked
  BY DEF Parked
<1>2. \A p \in Parked : Through(p)' = Through(p) /\ Link(p)' = Link(p)
  BY DEF Through, Link, Idx
<1>3. \A w \in Waits : w[1] \in Parked /\ heap[w[1]][Through(w[1])] = w[2]
  BY DEF Chained
<1>4. \A w \in Waits' : w[1] \in Parked' /\ heap'[w[1]][Through(w[1])'] = w[2]
  BY <1>1, <1>2, <1>3
<1>5. ASSUME NEW p \in Parked
      PROVE  /\ ~IsVector(p)' /\ Through(p)' \in DOMAIN heap'[p]
             /\ heap'[p][Through(p)'] \in Blocks
             /\ field'[p] = [heap'[p] EXCEPT ![Through(p)'] = Link(p)']
             /\ Link(p)' \in Parked' \cup {Null}
             /\ \A q \in Parked' : Link(p)' = q => heap'[q][Through(q)'] = p
             /\ \/ \E w \in Waits' : w[1] = p
                \/ \E c \in Parked' : Link(c)' = p
  BY <1>1, <1>2 DEF Chained, IsVector
<1>6. QED
  BY <1>1, <1>4, <1>5 DEF Chained

-----------------------------------------------------------------------------
(* What a step does to the rest of the state.                              *)
LEMMA TopNotParked ==
  ASSUME Memory, Shape, Chained, stack # <<>>
  PROVE  Top.b \notin Parked
<1> SUFFICES ASSUME Top.b \in Parked PROVE FALSE
  OBVIOUS
<1>1. Top.b \in Blocks /\ \A w \in Waits : w[2] = Top.b
  BY Splits, WaitsTop
<1>2. PICK d \in Children(heap, Top.b) : Top.b \in ReachableFrom(heap, {d})
  BY <1>1, ParkedAbove
<1>3. QED
  BY <1>1, <1>2, NoCycle DEF Memory

(* A block that is not shared, and holds no index, is as it was.           *)
LEMMA Unvisited ==
  ASSUME Counts, NEW b \in Blocks, b \notin Scanning, ~IsShared(b)
  PROVE  rc[b] = count[b] /\ count[b] \in Nat
<1>1. rc[b] \in Int /\ count[b] \in Int /\ rc[b] >= 0
  BY DEF Counts, IsShared
<1>2. rc[b] = count[b] \/ (count[b] >= 0 /\ rc[b] \in Marks(count[b]))
  BY DEF Counts
<1>3. CASE rc[b] = count[b]
  BY <1>1, <1>3
<1>4. CASE count[b] >= 0 /\ rc[b] \in Marks(count[b])
  <2>1. rc[b] = RC_STICKY \/ rc[b] = -count[b]
    BY <1>4 DEF Marks, SharedCount
  <2>2. QED
    BY <1>1, <1>4, <2>1, MarkAssumption
<1>5. QED
  BY <1>2, <1>3, <1>4

(* Blocks V, that are not shared, become shared.                           *)
SharedBy(V) == rc' = [b \in Blocks |-> IF b \in V THEN SharedCount(rc[b]) ELSE rc[b]]

LEMMA VisitStep ==
  ASSUME Memory, Shape, Chained, Counts, Reached,
         UNCHANGED <<heap, count, field>>, Waits' = Waits, Scanning' = Scanning,
         marked \subseteq marked', marked' \subseteq Blocks,
         \A fr \in Calls' : fr.b \in ReachableFrom(heap, marked'),
         NEW V \in SUBSET Blocks, SharedBy(V),
         \A v \in V : v \notin Scanning /\ ~IsShared(v) /\ v \in ReachableFrom(heap, marked')
  PROVE  /\ Memory' /\ Chained' /\ Counts' /\ Reached'
         /\ Parked' = Parked /\ TodoParked' = TodoParked
         /\ V \subseteq Settled' /\ Settled \subseteq Settled'
         /\ Sharing \subseteq Sharing' /\ Sharing' \subseteq Sharing \cup V
<1>1. Memory'
  BY DEF Memory
<1>2. \A b \in Blocks : rc'[b] = IF b \in V THEN SharedCount(rc[b]) ELSE rc[b]
  BY DEF SharedBy
<1>3. \A p \in Parked : p \in Scanning /\ p \in Blocks
  BY DEF Scanning, Parked
<1>4. \A p \in Parked : rc'[p] = rc[p]
  BY <1>2, <1>3
<1>5. Chained' /\ Parked' = Parked
  BY <1>4, KeepChained
<1>6. TodoParked' = TodoParked
  BY <1>4, <1>5 DEF TodoParked, Idx
<1>7. \A v \in V : rc[v] = count[v] /\ count[v] \in Nat /\ rc'[v] = SharedCount(count[v])
  BY <1>2, Unvisited
<1>8. \A n \in Nat : SharedCount(n) \in Int /\ (n = 0 => SharedCount(n) <= 0)
  BY MarkAssumption DEF SharedCount
<1>9. Counts'
  <2>1. rc' \in [Blocks -> Int]
    BY <1>2, <1>7, <1>8 DEF Counts, SharedBy
  <2>2. \A b \in Scanning : rc'[b] = rc[b]
    <3>1. \A b \in Scanning : b \in Blocks
      BY Splits DEF Scanning, Parked
    <3>2. QED
      BY <1>2, <3>1
  <2>3. \A b \in Blocks \ Scanning :
          rc'[b] = count[b] \/ (count[b] >= 0 /\ rc'[b] \in Marks(count[b]))
    BY <1>2, <1>7 DEF Marks, Counts
  <2>4. \A b \in Scanning' : count[b] >= 0 /\ rc'[b] >= 0 /\ rc'[b] \div IDX_SPAN = Capped(count[b])
    BY <2>2 DEF Counts
  <2>5. \A b \in Blocks : count[b] < 0 => \A c \in Children(heap, b) : count[c] < 0
    BY DEF Counts
  <2>6. count \in [Blocks -> Int]
    BY DEF Counts
  <2>7. QED
    BY <2>1, <2>3, <2>4, <2>5, <2>6 DEF Counts
<1>10. Reached'
  <2>1. ReachableFrom(heap, marked) \subseteq ReachableFrom(heap, marked')
    BY ReachSub
  <2>2. \A b \in Blocks : rc'[b] # count[b] => b \in ReachableFrom(heap, marked')
    BY <1>2, <2>1 DEF Reached
  <2>3. Parked' \subseteq ReachableFrom(heap, marked')
    BY <1>5, <2>1 DEF Reached
  <2>4. QED
    BY <2>2, <2>3 DEF Reached
<1>11. V \subseteq Settled' /\ Settled \subseteq Settled'
  <2>1. \A v \in V : v \in Settled'
    BY <1>7 DEF Settled, Marks
  <2>2. \A b \in Settled : b \notin V => b \in Settled'
    BY <1>2 DEF Settled
  <2>3. QED
    BY <2>1, <2>2
<1>12. Sharing' \subseteq Sharing \cup V /\ Sharing \subseteq Sharing'
  BY <1>2 DEF Sharing, IsShared
<1>13. QED
  BY <1>1, <1>5, <1>6, <1>9, <1>10, <1>11, <1>12

(* The blocks to visit after a step that keeps the calls below.            *)
LEMMA TodoStep ==
  ASSUME Shape, stack # <<>>, UNCHANGED heap, Below \subseteq Calls',
         TodoParked \subseteq TodoParked'
  PROVE  /\ \A q \in Todo : q \in Todo' \/ q \in TodoOf(heap, Top)
         /\ \A fr \in Calls' : \A q \in Blocks : q \in TodoOf(heap, fr) => q \in Todo'
         /\ TodoParked' \subseteq Todo'
<1>1. Calls = Below \cup {Top}
  BY Splits
<1>2. Todo' = {q \in Blocks : \E fr \in Calls' : q \in TodoOf(heap, fr)} \cup TodoParked'
  BY DEF Todo
<1>3. QED
  BY <1>1, <1>2 DEF Todo

(* Every visit leaves a block that is to be visited with its children.     *)
LEMMA PendingStep ==
  ASSUME Memory, Pending, ~Doomed, UNCHANGED heap,
         NEW V \in SUBSET Blocks, NEW v,
         \A q \in V : q = v \/ Children(heap, q) = {},
         V \subseteq Settled' \cup Open',
         Settled \cup Open \subseteq Settled' \cup Open',
         Sharing' \cup Open' \subseteq Sharing \cup Open \cup V,
         \A q \in Todo : q \in Todo' \cup Sharing \cup Open \cup V,
         v \in V => \A c \in Children(heap, v) : c \in Todo' \cup Sharing \cup Open \cup V,
         marked' \subseteq marked \cup Sharing \cup Open \cup V \cup Todo'
  PROVE  Pending'
<1> DEFINE Done(x, y) ==
      \/ y \in Settled' \cup Open'
      \/ \E q \in Todo' \ (Sharing' \cup Open') :
           q \in ReachableFrom(heap, {x}) /\ y \in ReachableFrom(heap, {q})
<1>1. \A q \in Todo : q \in Blocks
  BY DEF Todo, TodoParked
<1>2. \A q \in Todo' : q \in Blocks
  BY DEF Todo, TodoParked
<1>3. ASSUME NEW x \in Started, NEW y \in ReachableFrom(heap, {x})
      PROVE  \/ y \in Settled \cup Open
             \/ \E q \in Todo \ (Sharing \cup Open) :
                  q \in ReachableFrom(heap, {x}) /\ y \in ReachableFrom(heap, {q})
  BY DEF Pending
<1>4. \A q \in Todo' : q \notin Sharing \cup Open \cup V => q \in Todo' \ (Sharing' \cup Open')
  OBVIOUS
<1>5. ASSUME NEW q \in V, Children(heap, q) = {}, NEW y \in ReachableFrom(heap, {q})
      PROVE  y = q
  BY <1>5, ReachSplit
<1>6. ASSUME v \in V, NEW y \in ReachableFrom(heap, {v}) PROVE Done(v, y)
  <2>1. CASE y = v
    BY <1>6, <2>1
  <2>2. CASE y # v
    <3>1. PICK c \in Children(heap, v) : y \in ReachableFrom(heap, {c})
      BY <1>6, <2>2, ReachSplit
    <3>2. c \in Blocks /\ v \notin ReachableFrom(heap, {c}) /\ c \in ReachableFrom(heap, {c})
      BY <1>6, NoCycle, ReachContains DEF Memory, Children
    <3>3. c \in ReachableFrom(heap, {v})
      BY <1>6, ReachContains, ReachClosed
    <3>4. CASE c \in Sharing \cup Open
      <4>1. c \in Started
        BY <3>4 DEF Started
      <4>2. CASE y \in Settled \cup Open
        BY <4>2
      <4>3. ASSUME NEW q \in Todo \ (Sharing \cup Open),
                   q \in ReachableFrom(heap, {c}), y \in ReachableFrom(heap, {q})
            PROVE  Done(v, y)
        <5>1. q # v
          BY <3>2, <4>3
        <5>2. CASE q \in V
          BY <1>5, <4>3, <5>1, <5>2
        <5>3. CASE q \notin V
          <6>1. q \in ReachableFrom(heap, {v})
            BY <3>3, <4>3, ReachTrans
          <6>2. q \in Todo' \ (Sharing' \cup Open')
            BY <1>4, <4>3, <5>3
          <6>3. QED
            BY <4>3, <6>1, <6>2
        <5>4. QED
          BY <5>2, <5>3
      <4>4. QED
        BY <1>3, <3>1, <4>1, <4>2, <4>3
    <3>5. CASE c \in V
      <4>1. c # v
        BY <3>2
      <4>2. y = c
        BY <1>5, <3>1, <3>5, <4>1
      <4>3. QED
        BY <3>5, <4>2
    <3>6. CASE c \in Todo' /\ c \notin Sharing \cup Open \cup V
      BY <1>4, <3>1, <3>3, <3>6
    <3>7. QED
      BY <1>6, <3>4, <3>5, <3>6
  <2>3. QED
    BY <2>1, <2>2
<1>7. ASSUME NEW q \in V, NEW y \in ReachableFrom(heap, {q}) PROVE Done(q, y)
  <2>1. CASE q = v
    BY <1>6, <1>7, <2>1
  <2>2. CASE q # v
    BY <1>5, <2>2
  <2>3. QED
    BY <2>1, <2>2
<1>8. ASSUME NEW x \in Started, NEW y \in ReachableFrom(heap, {x}) PROVE Done(x, y)
  <2>1. CASE y \in Settled \cup Open
    BY <2>1
  <2>2. ASSUME NEW q \in Todo \ (Sharing \cup Open),
               q \in ReachableFrom(heap, {x}), y \in ReachableFrom(heap, {q})
        PROVE  Done(x, y)
    <3>1. CASE q \in V
      <4>1. Done(q, y)
        BY <1>7, <2>2, <3>1
      <4>2. \A r \in ReachableFrom(heap, {q}) : r \in ReachableFrom(heap, {x})
        BY <2>2, ReachTrans
      <4>3. QED
        BY <4>1, <4>2
    <3>2. CASE q \notin V
      BY <1>4, <2>2, <3>2
    <3>3. QED
      BY <3>1, <3>2
  <2>3. QED
    BY <1>3, <2>1, <2>2
<1>9. ASSUME NEW x \in Todo', x \notin Sharing \cup Open \cup V, NEW y \in ReachableFrom(heap, {x})
      PROVE  Done(x, y)
  <2>1. x \in ReachableFrom(heap, {x})
    BY <1>2, ReachContains
  <2>2. QED
    BY <1>4, <1>9, <2>1
<1>10. \A x \in Started' : x \in Started \/ x \in V \/ (x \in Todo' /\ x \notin Sharing \cup Open \cup V)
  BY DEF Started
<1>11. \A x \in Started' : \A y \in ReachableFrom(heap, {x}) : Done(x, y)
  <2> HIDE DEF Done
  <2>1. QED
    BY <1>7, <1>8, <1>9, <1>10
<1>12. QED
  BY <1>11 DEF Pending

(* The same when no block is visited.                                      *)
LEMMA PendingKeep ==
  ASSUME Memory, Pending, ~Doomed, UNCHANGED heap,
         Settled \cup Open \subseteq Settled' \cup Open',
         Sharing' \cup Open' \subseteq Sharing \cup Open,
         \A q \in Todo : q \in Todo' \cup Sharing \cup Open,
         marked' \subseteq marked \cup Sharing \cup Open \cup Todo'
  PROVE  Pending'
<1> DEFINE V == {}
<1>1. V \in SUBSET Blocks /\ (\A q \in V : q = Null \/ Children(heap, q) = {}) /\ Null \notin V
  OBVIOUS
<1>2. /\ V \subseteq Settled' \cup Open'
      /\ Sharing' \cup Open' \subseteq Sharing \cup Open \cup V
      /\ \A q \in Todo : q \in Todo' \cup Sharing \cup Open \cup V
      /\ marked' \subseteq marked \cup Sharing \cup Open \cup V \cup Todo'
  OBVIOUS
<1> HIDE DEF V
<1>3. QED
  BY <1>1, <1>2, PendingStep

-----------------------------------------------------------------------------
(* Visiting one field: a leaf is marked.                                   *)
LeafAt(b, i) == {c \in Blocks : c = field[b][i] /\ ~IsShared(c) /\ IsLeaf(c)}

LEMMA FieldVisit ==
  ASSUME Memory, Shape, Chained, Counts, stack # <<>>, NEW i \in DOMAIN heap[Top.b]
  PROVE  /\ field[Top.b] = heap[Top.b]
         /\ LeafAt(Top.b, i) \in SUBSET Blocks
         /\ \A c \in LeafAt(Top.b, i) :
              /\ c \in Children(heap, Top.b) /\ c # Top.b /\ c \notin Open /\ c \notin Scanning
              /\ ~IsShared(c) /\ Children(heap, c) = {}
         /\ ShouldMark(Top.b, i) =>
              /\ heap[Top.b][i] \in Children(heap, Top.b) /\ LeafAt(Top.b, i) = {}
              /\ ~IsLeaf(heap[Top.b][i]) /\ ~IsShared(heap[Top.b][i])
              /\ heap[Top.b][i] # Top.b /\ heap[Top.b][i] \notin Parked
         /\ ~ShouldMark(Top.b, i) =>
              \A c \in Blocks : c = heap[Top.b][i] => c \in Sharing \cup LeafAt(Top.b, i)
<1>1. Top.b \in Blocks /\ field[Top.b] = heap[Top.b]
  BY Splits, TopNotParked, Unparked
<1>2. \A c \in Blocks : c = heap[Top.b][i] => c \in Children(heap, Top.b)
  BY DEF Children
<1>3. \A c \in Children(heap, Top.b) : c # Top.b /\ c \notin Parked /\ c \notin Open
  BY ChildNotParked
<1>4. ASSUME NEW c \in Blocks, IsLeaf(c) PROVE Children(heap, c) = {}
  <2>1. Size(c) = 0 /\ DOMAIN heap[c] = 0..(Size(c) - 1)
    BY <1>4, Sizes
  <2>2. DOMAIN heap[c] = {}
    BY <2>1
  <2>3. QED
    BY <2>2 DEF Children
<1>5. Scanning \subseteq Open
  BY DEF Open
<1>6. \A c \in LeafAt(Top.b, i) :
              /\ c \in Children(heap, Top.b) /\ c # Top.b /\ c \notin Open /\ c \notin Scanning
              /\ ~IsShared(c) /\ Children(heap, c) = {}
  BY <1>1, <1>2, <1>3, <1>4, <1>5 DEF LeafAt
<1>7. ShouldMark(Top.b, i) =>
              /\ heap[Top.b][i] \in Children(heap, Top.b) /\ LeafAt(Top.b, i) = {}
              /\ ~IsLeaf(heap[Top.b][i]) /\ ~IsShared(heap[Top.b][i])
              /\ heap[Top.b][i] # Top.b /\ heap[Top.b][i] \notin Parked
  BY <1>1, <1>2, <1>3 DEF LeafAt, ShouldMark, Unmarked, IsPtr
<1>8. ~ShouldMark(Top.b, i) =>
              \A c \in Blocks : c = heap[Top.b][i] => c \in Sharing \cup LeafAt(Top.b, i)
  BY <1>1 DEF LeafAt, ShouldMark, Unmarked, IsPtr, Sharing
<1>9. QED
  BY <1>1, <1>6, <1>7, <1>8 DEF LeafAt

LEMMA LeafMarked ==
  ASSUME NEW counts, counts \in [Blocks -> Int], NEW b, NEW i
  PROVE  MarkLeaf(counts, b, i) =
           [c \in Blocks |-> IF c \in LeafAt(b, i) THEN SharedCount(counts[c]) ELSE counts[c]]
BY DEF MarkLeaf, LeafAt, Unmarked, IsPtr

LEMMA NoneShared ==
  ASSUME Counts, rc' = rc
  PROVE  SharedBy({})
<1>1. rc = [b \in Blocks |-> rc[b]]
  BY DEF Counts
<1>2. QED
  BY <1>1 DEF SharedBy

LEMMA OneShared ==
  ASSUME Counts, NEW b \in Blocks, rc' = [rc EXCEPT ![b] = SharedCount(@)]
  PROVE  SharedBy({b})
BY DEF Counts, SharedBy

LEMMA LeafShared ==
  ASSUME Counts, NEW b, NEW i, rc' = MarkLeaf(rc, b, i)
  PROVE  SharedBy(LeafAt(b, i))
BY LeafMarked DEF Counts, SharedBy

LEMMA BothShared ==
  ASSUME Counts, NEW b \in Blocks, NEW i, b \notin LeafAt(b, i),
         rc' = MarkLeaf([rc EXCEPT ![b] = SharedCount(@)], b, i),
         SharedCount(rc[b]) \in Int
  PROVE  SharedBy({b} \cup LeafAt(b, i))
<1> DEFINE counts == [rc EXCEPT ![b] = SharedCount(@)]
<1>1. counts \in [Blocks -> Int]
  BY DEF Counts
<1>2. \A c \in Blocks : counts[c] = IF c = b THEN SharedCount(rc[c]) ELSE rc[c]
  BY DEF Counts
<1> HIDE DEF counts
<1>3. rc' = [c \in Blocks |-> IF c \in LeafAt(b, i) THEN SharedCount(counts[c]) ELSE counts[c]]
  <2>1. rc' = MarkLeaf(counts, b, i)
    BY DEF counts
  <2>2. QED
    BY <1>1, <2>1, LeafMarked
<1>4. \A c \in Blocks :
        (IF c \in LeafAt(b, i) THEN SharedCount(counts[c]) ELSE counts[c])
          = IF c \in {b} \cup LeafAt(b, i) THEN SharedCount(rc[c]) ELSE rc[c]
  BY <1>2
<1>5. QED
  BY <1>3, <1>4 DEF SharedBy

LEMMA SharedInt == \A n \in Int : SharedCount(n) \in Int
BY MarkAssumption DEF SharedCount

(* The fields from i on: field i and those from i + 1 on.                   *)
LEMMA FromNext ==
  ASSUME Memory, NEW b \in Blocks, NEW i \in Nat, NEW q \in From(heap, b, i)
  PROVE  q \in Children(heap, b) /\ (q = heap[b][i] \/ q \in From(heap, b, i + 1))
<1>1. DOMAIN heap[b] = 0..(Size(b) - 1) /\ Size(b) \in Nat
  BY Sizes
<1>2. PICK j \in DOMAIN heap[b] : j >= i /\ q = heap[b][j] /\ q \in Blocks
  BY DEF From
<1>3. j = i \/ j >= i + 1
  BY <1>1, <1>2
<1>4. QED
  BY <1>2, <1>3 DEF From, Children

LEMMA FromLast ==
  ASSUME Memory, NEW b \in Blocks, NEW i \in Nat, i >= Size(b)
  PROVE  From(heap, b, i) = {}
<1>1. DOMAIN heap[b] = 0..(Size(b) - 1) /\ Size(b) \in Nat
  BY Sizes
<1>2. QED
  BY <1>1 DEF From

LEMMA FromFirst ==
  ASSUME Memory, NEW b \in Blocks
  PROVE  /\ Children(heap, b) \subseteq From(heap, b, 0)
         /\ IsVector(b) => Children(heap, b) \subseteq From(heap, b, 1)
<1>1. DOMAIN heap[b] = 0..(Size(b) - 1) /\ Size(b) \in Nat
  BY Sizes
<1>2. ASSUME NEW i \in DOMAIN heap[b] PROVE i >= 0 /\ (i = 0 \/ i >= 1)
  BY <1>1
<1>3. IsVector(b) => heap[b][0] \notin Blocks
  BY MarkAssumption DEF IsVector
<1>4. QED
  BY <1>2, <1>3 DEF From, Children

-----------------------------------------------------------------------------
(* What is shown of every step.                                            *)
LEMMA TopNext ==
  ASSUME UNCHANGED heap,
         stack' # <<>> =>
           /\ Top'.at \in {"loop", "enter", "recurse"} => ~IsLeaf(Top'.b)
           /\ Top'.fn = "recx_large" \/ Top'.at = "recurse" => ~(rc'[Top'.b] < 0)
           /\ Top'.at = "scan" => Top'.i <= Size(Top'.b)
           /\ Top'.fn = "recx" /\ Top'.at = "scan" => ~IsVector(Top'.b)
  PROVE  TopOK'
<1> SUFFICES ASSUME stack' # <<>>
             PROVE  /\ Top'.at \in {"loop", "enter", "recurse"} => ~IsLeaf(Top.b)'
                    /\ Top'.fn = "recx_large" \/ Top'.at = "recurse" => ~IsShared(Top.b)'
                    /\ Top'.at = "scan" => Top'.i <= Size(Top.b)'
                    /\ Top'.fn = "recx" /\ Top'.at = "scan" => ~IsVector(Top.b)'
  BY DEF TopOK
<1>1. /\ IsLeaf(Top.b)' <=> IsLeaf(Top'.b)
      /\ Size(Top.b)' = Size(Top'.b)
      /\ IsVector(Top.b)' <=> IsVector(Top'.b)
  BY DEF IsLeaf, HeaderScan, Size, IsVector
<1>2. IsShared(Top.b)' <=> rc'[Top'.b] < 0
  BY DEF IsShared
<1>3. QED
  BY <1>1, <1>2

LEMMA ReturnTop ==
  ASSUME Shape, stack # <<>>, ~Doomed, UNCHANGED heap, Return, Top.parent = Null
  PROVE  /\ Shape' /\ TopOK' /\ Hopeless' /\ ~Doomed' /\ Waits' = Waits /\ Calls' = Below
         /\ stack' # <<>> => Top'.at # "scan" /\ Top'.fn # "recx_large"
<1>1. /\ Shape' /\ Calls' = Below /\ Below' \subseteq Below
      /\ stack' # <<>> => Top' \in Below
  BY ReturnShape
<1>2. /\ Calls = Below \cup {Top}
      /\ \A g \in Below : g \in FrameType /\ FrameOK(g) /\ Above(Top, g)
  BY Splits
<1>3. \A g \in Below : g.fn # "recx_large"
  BY DEF Doomed
<1>4. ~Doomed'
  BY <1>1, <1>3 DEF Doomed
<1>5. \A g \in Below : g.at \in {"fields", "return", "up"}
  BY <1>2, <1>3 DEF Above, FrameType
<1>6. TopOK'
  BY <1>1, <1>3, <1>5, TopNext
<1>7. Waits' = Waits
  BY <1>1, <1>2 DEF Waits
<1>8. QED
  BY <1>1, <1>3, <1>4, <1>5, <1>6, <1>7 DEF Hopeless

LEMMA GotoWaits ==
  ASSUME Shape, stack # <<>>, NEW fr, Calls' = Below \cup {fr}, fr.parent = Top.parent,
         fr.b = Top.b \/ Top.parent = Null
  PROVE  Waits' = Waits
<1>1. Calls = Below \cup {Top}
  BY Splits
<1>2. QED
  BY <1>1 DEF Waits

LEMMA CallWaits ==
  ASSUME Shape, stack # <<>>, NEW fr, NEW callee, Calls' = Below \cup {fr, callee},
         fr.parent = Top.parent, fr.b = Top.b, callee.parent = Null
  PROVE  Waits' = Waits
<1>1. Calls = Below \cup {Top}
  BY Splits
<1>2. QED
  BY <1>1 DEF Waits

(* The step that has no room to call.                                      *)
Untouched == UNCHANGED <<heap, count, field, rc, marked, stack>>

LEMMA Stutter == ASSUME Inv, Untouched PROVE Inv'
<1>1. /\ Calls' = Calls /\ Below' = Below /\ Parked' = Parked
      /\ Waits' = Waits /\ Top' = Top /\ (Ordered' <=> Ordered)
  <2>1. Height' = Height /\ tower' = tower /\ heap' = heap /\ field' = field
    BY DEF Untouched, tower, Height
  <2> HIDE DEF Height, tower
  <2>2. Calls' = Calls /\ Below' = Below
    BY <2>1 DEF Calls, Below
  <2>3. Parked' = Parked /\ Waits' = Waits /\ Top' = Top
    BY <2>1, <2>2 DEF Untouched, Parked, Waits, Top
  <2>4. \A g, h : Above(tower[h], tower[g])' <=> Above(tower[h], tower[g])
    BY <2>1 DEF Above, IsVector
  <2>5. Ordered' <=> Ordered
    BY <2>1, <2>4 DEF Ordered
  <2>6. QED
    BY <2>2, <2>3, <2>5
<1>2. Scanning' = Scanning /\ Open' = Open
  BY <1>1 DEF Untouched, Scanning, Open
<1>3. TodoParked' = TodoParked
  BY <1>1 DEF Untouched, TodoParked, Idx
<1>4. Todo' = Todo
  BY <1>1, <1>3 DEF Untouched, Todo
<1>5. Settled' = Settled /\ Sharing' = Sharing /\ Started' = Started
  BY <1>2 DEF Untouched, Settled, Sharing, Started, IsShared
<1>6. Memory' /\ Counts' /\ Reached'
  BY <1>1, <1>2 DEF Untouched, Inv, Memory, Counts, Reached
<1>7. Doomed' <=> Doomed
  BY <1>1 DEF Doomed
<1>8. Pending'
  BY <1>2, <1>4, <1>5, <1>7 DEF Inv, Untouched, Pending
<1>9. Shape'
  <2>1. \A fr \in Calls' : FrameOK(fr)
    BY <1>1 DEF Inv, Shape
  <2>2. QED
    BY <1>1, <2>1, FramesNext DEF Inv, Shape, Untouched
<1>10. TopOK'
  <2>1. stack # <<>> => Top \in FrameType /\ Top.b \in Blocks
    BY Splits DEF Inv
  <2>2. QED
    BY <1>1, <2>1, TopNext DEF Inv, TopOK, Untouched, IsShared
<1>11. Hopeless'
  <2>1. \A i : ShouldMark(Top.b, i)' <=> ShouldMark(Top.b, i)
    BY <1>1 DEF Untouched, ShouldMark, Unmarked, IsPtr, IsShared, IsLeaf, HeaderScan, IsVector, Size
  <2>2. IsShared(Top.b)' <=> IsShared(Top.b)
    BY <1>1 DEF Untouched, IsShared
  <2>3. QED
    BY <1>1, <1>7, <2>1, <2>2 DEF Inv, Hopeless, Untouched
<1>12. Chained'
  BY <1>1, KeepChained DEF Inv, Untouched
<1>13. QED
  BY <1>6, <1>8, <1>9, <1>10, <1>11, <1>12 DEF Inv

-----------------------------------------------------------------------------
(* kk_block_mark_shared_rec                                                *)
LEMMA RecTop ==
  ASSUME Inv, stack # <<>>, Top.fn = "rec"
  PROVE  /\ ~Doomed /\ Parked = {} /\ Scanning = {} /\ Open = {} /\ TodoParked = {}
         /\ Top.parent = Null /\ Top.b \in ReachableFrom(heap, marked)
         /\ \A g \in Below : g.fn = "rec" /\ g.at \in {"fields", "return"}
<1>1. Parked = {}
  BY RecNotParked DEF Inv
<1>2. /\ Calls = Below \cup {Top} /\ FrameOK(Top)
      /\ \A g \in Below : g \in FrameType /\ FrameOK(g) /\ Above(Top, g)
  BY Splits DEF Inv
<1>3. \A g \in Below : g.fn = "rec" /\ g.at \in {"fields", "return"}
  BY <1>2 DEF Above
<1>4. ~Doomed
  BY <1>3 DEF Doomed
<1>5. Scanning = {} /\ Open = {} /\ TodoParked = {}
  BY <1>1 DEF Scanning, Open, TodoParked
<1>6. QED
  BY <1>1, <1>2, <1>3, <1>4, <1>5 DEF FrameOK, Inv, Reached

(* A step after which only rec is called still.                            *)
LEMMA RecFrame ==
  ASSUME Inv, stack # <<>>, Top.fn = "rec", UNCHANGED <<heap, field>>,
         Below' \subseteq Calls', stack' # <<>> => Top' \in Calls',
         \A fr \in Calls' : fr.fn = "rec" /\ fr.parent = Null
  PROVE  /\ Scanning' = Scanning /\ Open' = {} /\ Waits' = Waits
         /\ ~Doomed' /\ Hopeless'
<1>1. Parked' = {} /\ Scanning = {}
  BY RecTop DEF Parked
<1>2. Scanning' = {} /\ Open' = {}
  BY <1>1 DEF Scanning, Open
<1>3. Waits' = {} /\ Waits = {}
  BY WaitsTop DEF Waits, Inv
<1>4. ~Doomed'
  BY DEF Doomed
<1>5. QED
  BY <1>1, <1>2, <1>3, <1>4 DEF Hopeless

LEMMA RecStep ==
  ASSUME Inv, stack # <<>>, Top.fn = "rec", UNCHANGED <<heap, count, field, marked>>,
         Shape', TopOK', Below' \subseteq Calls', stack' # <<>> => Top' \in Calls',
         Below \subseteq Calls',
         \A fr \in Calls' : /\ fr.fn = "rec" /\ fr.parent = Null
                            /\ fr.b \in ReachableFrom(heap, marked),
         NEW V \in SUBSET Blocks, SharedBy(V), NEW v \in Blocks,
         \A q \in V : /\ ~IsShared(q) /\ q \in ReachableFrom(heap, marked)
                      /\ q = v \/ Children(heap, q) = {},
         \A q \in TodoOf(heap, Top) \cap Blocks : q \in Todo' \cup Sharing \cup V,
         v \in V => \A c \in Children(heap, v) : c \in Todo' \cup Sharing \cup V
  PROVE  Inv'
<1>1. /\ ~Doomed /\ Scanning = {} /\ Open = {} /\ TodoParked = {}
      /\ Scanning' = Scanning /\ Open' = {} /\ Waits' = Waits
      /\ ~Doomed' /\ Hopeless'
  BY RecTop, RecFrame
<1>2. marked \subseteq marked' /\ marked' \subseteq Blocks
  BY DEF Inv, Memory
<1>3. /\ Memory' /\ Chained' /\ Counts' /\ Reached'
      /\ Parked' = Parked /\ TodoParked' = TodoParked
      /\ V \subseteq Settled' /\ Settled \subseteq Settled'
      /\ Sharing \subseteq Sharing' /\ Sharing' \subseteq Sharing \cup V
  BY <1>1, <1>2, VisitStep DEF Inv
<1>4. \A q \in Todo : q \in Todo' \/ q \in TodoOf(heap, Top)
  BY <1>3, TodoStep DEF Inv
<1>5. \A q \in Todo : q \in Todo' \cup Sharing \cup Open \cup V
  <2>1. \A q \in Todo : q \in Blocks
    BY DEF Todo, TodoParked
  <2>2. QED
    BY <1>4, <2>1
<1>6. Pending'
  BY <1>1, <1>3, <1>5, PendingStep DEF Inv
<1>7. QED
  BY <1>1, <1>3, <1>6 DEF Inv

(* The visit of a last field.                                              *)
LEMMA TailStep ==
  ASSUME Inv, stack # <<>>, Top.fn = "rec", UNCHANGED <<heap, count, field, marked>>,
         NEW i \in DOMAIN heap[Top.b],
         IF ShouldMark(Top.b, i)
         THEN Goto([Top EXCEPT !.at = "loop", !.b = field[Top.b][i]]) ELSE Return
  PROVE  /\ Shape' /\ TopOK' /\ Below' \subseteq Calls' /\ Below \subseteq Calls'
         /\ stack' # <<>> => Top' \in Calls'
         /\ \A fr \in Calls' : /\ fr.fn = "rec" /\ fr.parent = Null
                               /\ fr.b \in ReachableFrom(heap, marked)
         /\ \A c \in Blocks : c = heap[Top.b][i] => c \in Todo' \cup Sharing \cup LeafAt(Top.b, i)
<1> DEFINE c == heap[Top.b][i]
           fr == [Top EXCEPT !.at = "loop", !.b = field[Top.b][i]]
<1>1. /\ ~Doomed /\ Parked = {} /\ TodoParked = {} /\ Top.parent = Null
      /\ Top.b \in ReachableFrom(heap, marked)
      /\ \A g \in Below : g.fn = "rec" /\ g.at \in {"fields", "return"}
  BY RecTop
<1>2. /\ Calls = Below \cup {Top} /\ Top \in FrameType /\ Top.b \in Blocks /\ FrameOK(Top)
      /\ \A g \in Below : g \in FrameType /\ FrameOK(g) /\ Above(Top, g)
  BY Splits DEF Inv
<1>3. \A g \in Below : /\ g.fn = "rec" /\ g.parent = Null
                       /\ g.b \in ReachableFrom(heap, marked)
  BY <1>1, <1>2 DEF FrameOK, Inv, Reached
<1>4. TodoParked \subseteq TodoParked'
  BY <1>1
<1>5. /\ field[Top.b] = heap[Top.b]
      /\ ShouldMark(Top.b, i) => c \in Children(heap, Top.b) /\ ~IsLeaf(c)
      /\ ~ShouldMark(Top.b, i) =>
           \A d \in Blocks : d = c => d \in Sharing \cup LeafAt(Top.b, i)
  BY FieldVisit DEF Inv
<1>6. CASE ShouldMark(Top.b, i)
  <2>1. c \in Blocks /\ c \in ReachableFrom(heap, marked)
    BY <1>1, <1>5, <1>6, ReachClosed DEF Children
  <2>2. /\ fr \in FrameType /\ fr.fn = "rec" /\ fr.parent = Null /\ fr.at = "loop" /\ fr.b = c
    BY <1>1, <1>2, <1>5, <2>1 DEF FrameType
  <2>3. Goto(fr)
    BY <1>6
  <2> HIDE DEF fr, c
  <2>4. FrameOK(fr) /\ \A g \in Below : Above(fr, g)
    BY <1>1, <2>2 DEF FrameOK, Above
  <2>5. /\ Shape' /\ stack' # <<>> /\ Top' = fr
        /\ Below' = Below /\ Calls' = Below \cup {fr}
    BY <2>2, <2>3, <2>4, GotoShape DEF Inv
  <2>6. TopOK'
    BY <1>5, <1>6, <2>2, <2>5, TopNext
  <2>7. c \in Todo'
    <3>1. c \in TodoOf(heap, fr)
      BY <2>2 DEF TodoOf
    <3>2. QED
      BY <1>4, <2>1, <2>5, <3>1, TodoStep DEF Inv
  <2>8. QED
    BY <1>3, <2>1, <2>2, <2>5, <2>6, <2>7 DEF c
<1>7. CASE ~ShouldMark(Top.b, i)
  <2>1. /\ Shape' /\ TopOK' /\ Calls' = Below
    BY <1>1, <1>7, ReturnTop DEF Inv
  <2>2. Below' \subseteq Below /\ (stack' # <<>> => Top' \in Below)
    BY <1>7, ReturnShape DEF Inv
  <2>3. QED
    BY <1>3, <1>5, <1>7, <2>1, <2>2
<1>8. QED
  BY <1>6, <1>7

LEMMA KeepsRecOneField == ASSUME Inv, RecOneField PROVE Inv'
<1> DEFINE i == Size(Top.b) - 1
           V == {Top.b} \cup LeafAt(Top.b, i)
<1>1. /\ stack # <<>> /\ Top.fn = "rec" /\ Top.at = "loop" /\ ~IsShared(Top.b) /\ OneField(Top.b)
      /\ UNCHANGED <<heap, count, field, marked>>
      /\ rc' = MarkLeaf([rc EXCEPT ![Top.b] = SharedCount(@)], Top.b, i)
      /\ IF ShouldMark(Top.b, i)
         THEN Goto([Top EXCEPT !.at = "loop", !.b = field[Top.b][i]]) ELSE Return
  BY DEF RecOneField, Running, RecTail, Top
<1>2. /\ Top.b \in ReachableFrom(heap, marked) /\ Parked = {} /\ Scanning = {} /\ Open = {}
  BY <1>1, RecTop
<1>3. Top.b \in Blocks /\ Top \in FrameType
  BY <1>1, Splits DEF Inv
<1>4. /\ field[Top.b] = heap[Top.b] /\ Size(Top.b) \in Nat
      /\ DOMAIN heap[Top.b] = 0..(Size(Top.b) - 1)
      /\ IsVector(Top.b) => HeaderScan(Top.b) = 255
      /\ ~IsVector(Top.b) => HeaderScan(Top.b) = Size(Top.b)
  BY <1>2, <1>3, Unparked, Sizes DEF Inv, HeaderScan, KK_SCAN_FSIZE_MAX
<1>5. /\ i \in DOMAIN heap[Top.b]
      /\ \A j \in DOMAIN heap[Top.b] : j = i \/ heap[Top.b][j] \notin Blocks
  BY <1>1, <1>4 DEF OneField, IsPtr
<1>6. /\ LeafAt(Top.b, i) \in SUBSET Blocks
      /\ \A c \in LeafAt(Top.b, i) :
              /\ c \in Children(heap, Top.b) /\ c # Top.b
              /\ ~IsShared(c) /\ Children(heap, c) = {}
  BY <1>1, <1>5, FieldVisit DEF Inv
<1>7. \A c \in LeafAt(Top.b, i) : c \in ReachableFrom(heap, marked)
  BY <1>2, <1>6, ReachClosed
<1> HIDE DEF i
<1>8. /\ Shape' /\ TopOK' /\ Below' \subseteq Calls' /\ Below \subseteq Calls'
      /\ stack' # <<>> => Top' \in Calls'
      /\ \A fr \in Calls' : /\ fr.fn = "rec" /\ fr.parent = Null
                            /\ fr.b \in ReachableFrom(heap, marked)
      /\ \A c \in Blocks : c = heap[Top.b][i] => c \in Todo' \cup Sharing \cup LeafAt(Top.b, i)
  BY <1>1, <1>5, TailStep
<1>9. SharedBy(V)
  <2>1. SharedCount(rc[Top.b]) \in Int
    BY <1>3, SharedInt DEF Inv, Counts
  <2>2. QED
    BY <1>1, <1>3, <1>6, <2>1, BothShared DEF Inv
<1>10. \A c \in Children(heap, Top.b) : c \in Todo' \cup Sharing \cup V
  BY <1>5, <1>8 DEF Children
<1>11. TodoOf(heap, Top) = {Top.b}
  BY <1>1 DEF TodoOf
<1>12. /\ V \in SUBSET Blocks
       /\ \A q \in V : /\ ~IsShared(q) /\ q \in ReachableFrom(heap, marked)
                       /\ q = Top.b \/ Children(heap, q) = {}
  BY <1>1, <1>2, <1>3, <1>6, <1>7
<1>13. Top.b \in V
  OBVIOUS
<1> HIDE DEF V
<1>14. QED
  BY <1>1, <1>3, <1>8, <1>9, <1>10, <1>11, <1>12, <1>13, RecStep

LEMMA KeepsRecReturn == ASSUME Inv, RecReturn PROVE Inv'
<1>1. /\ stack # <<>> /\ Top.fn = "rec" /\ Top.at = "return" /\ Return
      /\ UNCHANGED <<heap, count, field, rc, marked>>
  BY DEF RecReturn, Running, Top
<1>2. /\ ~Doomed /\ Top.parent = Null
      /\ \A g \in Below : g.fn = "rec"
  BY <1>1, RecTop
<1>3. /\ Shape' /\ TopOK' /\ Calls' = Below
  BY <1>1, <1>2, ReturnTop DEF Inv
<1>4. Below' \subseteq Below /\ (stack' # <<>> => Top' \in Below)
  BY <1>1, ReturnShape DEF Inv
<1>5. Calls = Below \cup {Top} /\ Top.b \in Blocks /\ \A g \in Below : FrameOK(g)
  BY <1>1, Splits DEF Inv
<1>6. \A fr \in Calls' : /\ fr.fn = "rec" /\ fr.parent = Null
                         /\ fr.b \in ReachableFrom(heap, marked)
  BY <1>2, <1>3, <1>5 DEF FrameOK, Inv, Reached
<1>7. SharedBy({})
  BY <1>1, NoneShared DEF Inv
<1>8. TodoOf(heap, Top) = {}
  BY <1>1 DEF TodoOf
<1>9. QED
  BY <1>1, <1>3, <1>4, <1>5, <1>6, <1>7, <1>8, RecStep

(* Going on with the fields of the block, at field i.                      *)
LEMMA FieldsStep ==
  ASSUME Inv, stack # <<>>, Top.fn = "rec", UNCHANGED <<heap, count, field, marked>>,
         NEW i \in Nat, i < Size(Top.b), Goto([Top EXCEPT !.at = "fields", !.i = i])
  PROVE  /\ Shape' /\ TopOK' /\ Below' \subseteq Calls' /\ Below \subseteq Calls'
         /\ stack' # <<>> => Top' \in Calls'
         /\ \A fr \in Calls' : /\ fr.fn = "rec" /\ fr.parent = Null
                               /\ fr.b \in ReachableFrom(heap, marked)
         /\ From(heap, Top.b, i) \subseteq Todo'
<1> DEFINE fr == [Top EXCEPT !.at = "fields", !.i = i]
<1>1. /\ TodoParked = {} /\ Top.parent = Null /\ Top.b \in ReachableFrom(heap, marked)
      /\ \A g \in Below : g.fn = "rec" /\ g.at \in {"fields", "return"}
  BY RecTop
<1>2. /\ Calls = Below \cup {Top} /\ Top \in FrameType /\ Top.b \in Blocks
      /\ \A g \in Below : FrameOK(g)
  BY Splits DEF Inv
<1>3. \A g \in Below : /\ g.fn = "rec" /\ g.parent = Null
                       /\ g.b \in ReachableFrom(heap, marked)
  BY <1>1, <1>2 DEF FrameOK, Inv, Reached
<1>4. /\ fr \in FrameType /\ fr.fn = "rec" /\ fr.parent = Null /\ fr.at = "fields"
      /\ fr.b = Top.b /\ fr.i = i /\ Goto(fr)
  BY <1>1, <1>2 DEF FrameType
<1> HIDE DEF fr
<1>5. FrameOK(fr) /\ \A g \in Below : Above(fr, g)
  BY <1>1, <1>4 DEF FrameOK, Above
<1>6. /\ Shape' /\ stack' # <<>> /\ Top' = fr
      /\ Below' = Below /\ Calls' = Below \cup {fr}
  BY <1>4, <1>5, GotoShape DEF Inv
<1>7. TopOK'
  BY <1>4, <1>6, TopNext
<1>8. From(heap, Top.b, i) \subseteq Todo'
  <2>1. TodoOf(heap, fr) = From(heap, Top.b, i)
    BY <1>4 DEF TodoOf
  <2>2. From(heap, Top.b, i) \subseteq Blocks
    BY DEF From
  <2>3. QED
    BY <1>1, <1>6, <2>1, <2>2, TodoStep DEF Inv
<1>9. QED
  BY <1>1, <1>3, <1>4, <1>6, <1>7, <1>8

LEMMA KeepsRecManyFields == ASSUME Inv, RecManyFields PROVE Inv'
<1>1. /\ stack # <<>> /\ Top.fn = "rec" /\ Top.at = "loop" /\ ~IsShared(Top.b)
      /\ UNCHANGED <<heap, count, field, marked>>
      /\ IF Top.depth < MAX_RECURSE_DEPTH
         THEN /\ rc' = [rc EXCEPT ![Top.b] = SharedCount(@)]
              /\ Goto([Top EXCEPT !.at = "fields", !.i = IF IsVector(Top.b) THEN 1 ELSE 0])
         ELSE Call([Top EXCEPT !.at = "return"], Recx(Top.b)) /\ UNCHANGED rc
  BY DEF RecManyFields, Running, Top
<1>2. /\ ~Doomed /\ Parked = {} /\ Scanning = {} /\ Open = {} /\ TodoParked = {}
      /\ Top.parent = Null /\ Top.b \in ReachableFrom(heap, marked)
      /\ \A g \in Below : g.fn = "rec" /\ g.at \in {"fields", "return"}
  BY <1>1, RecTop
<1>3. /\ Calls = Below \cup {Top} /\ Top \in FrameType /\ Top.b \in Blocks
      /\ \A g \in Below : g \in FrameType /\ FrameOK(g)
  BY <1>1, Splits DEF Inv
<1>4. ~IsLeaf(Top.b)
  BY <1>1 DEF Inv, TopOK
<1>5. TodoOf(heap, Top) = {Top.b}
  BY <1>1 DEF TodoOf
<1>6. CASE Top.depth < MAX_RECURSE_DEPTH
  <2> DEFINE i == IF IsVector(Top.b) THEN 1 ELSE 0
  <2>1. i \in Nat /\ i < Size(Top.b) /\ Children(heap, Top.b) \subseteq From(heap, Top.b, i)
    BY <1>3, <1>4, Sizes, FromFirst DEF Inv
  <2>2. Goto([Top EXCEPT !.at = "fields", !.i = i])
    BY <1>1, <1>6
  <2> HIDE DEF i
  <2>3. /\ Shape' /\ TopOK' /\ Below' \subseteq Calls' /\ Below \subseteq Calls'
        /\ stack' # <<>> => Top' \in Calls'
        /\ \A fr \in Calls' : /\ fr.fn = "rec" /\ fr.parent = Null
                              /\ fr.b \in ReachableFrom(heap, marked)
        /\ From(heap, Top.b, i) \subseteq Todo'
    BY <1>1, <2>1, <2>2, FieldsStep
  <2>4. SharedBy({Top.b})
    BY <1>1, <1>3, <1>6, OneShared DEF Inv
  <2>5. QED
    BY <1>1, <1>2, <1>3, <1>5, <2>1, <2>3, <2>4, RecStep
<1>7. CASE ~(Top.depth < MAX_RECURSE_DEPTH) /\ ~(Len(stack) < MaxCalls)
  BY <1>1, <1>7, Stutter DEF Untouched, Call
<1>8. CASE ~(Top.depth < MAX_RECURSE_DEPTH) /\ Len(stack) < MaxCalls
  <2> DEFINE fr == [Top EXCEPT !.at = "return"]
             callee == Recx(Top.b)
  <2>1. /\ fr \in FrameType /\ fr.fn = "rec" /\ fr.parent = Null /\ fr.at = "return" /\ fr.b = Top.b
    BY <1>1, <1>2, <1>3 DEF FrameType
  <2>2. /\ callee \in FrameType /\ callee.fn = "recx" /\ callee.parent = Null
        /\ callee.at = "enter" /\ callee.b = Top.b
    BY <1>3 DEF FrameType, Recx
  <2>3. Call(fr, callee) /\ rc' = rc
    BY <1>1, <1>8
  <2> HIDE DEF fr, callee
  <2>4. /\ FrameOK(fr) /\ FrameOK(callee) /\ Above(callee, fr)
        /\ \A g \in Below : Above(fr, g) /\ Above(callee, g)
    BY <1>2, <2>1, <2>2 DEF FrameOK, Above
  <2>5. /\ Shape' /\ stack' # <<>> /\ Top' = callee
        /\ Below' = Below \cup {fr} /\ Calls' = Below \cup {fr, callee}
    BY <1>1, <1>8, <2>1, <2>2, <2>3, <2>4, CallShape DEF Inv
  <2>6. TopOK'
    BY <1>1, <1>4, <2>2, <2>5, TopNext
  <2>7. ~Doomed' /\ Hopeless'
    BY <1>2, <2>1, <2>5 DEF Doomed, Hopeless
  <2>8. Parked' = {} /\ Scanning' = {} /\ Open' = {}
    BY <1>1, <1>2, <2>2, <2>5 DEF Parked, Scanning, Open
  <2>9. Waits' = Waits
    BY <1>1, <1>2, <2>1, <2>2, <2>5, CallWaits DEF Inv
  <2>10. \A g \in Calls' : g.b \in ReachableFrom(heap, marked)
    BY <1>2, <1>3, <2>1, <2>2, <2>5 DEF Inv, Reached
  <2>11. /\ Memory' /\ Chained' /\ Counts' /\ Reached' /\ TodoParked' = TodoParked
         /\ Settled \subseteq Settled' /\ Sharing' \subseteq Sharing
    <3>1. SharedBy({})
      BY <2>3, NoneShared DEF Inv
    <3>2. marked \subseteq marked' /\ marked' \subseteq Blocks
      BY <1>1 DEF Inv, Memory
    <3>3. QED
      BY <1>1, <1>2, <2>8, <2>9, <2>10, <3>1, <3>2, VisitStep DEF Inv
  <2>12. \A q \in Todo : q \in Todo'
    <3>1. TodoOf(heap, callee) = {Top.b}
      BY <2>2 DEF TodoOf
    <3>2. QED
      BY <1>1, <1>3, <1>5, <2>5, <2>11, <3>1, TodoStep DEF Inv
  <2>13. Pending'
    BY <1>1, <1>2, <2>8, <2>11, <2>12, PendingKeep DEF Inv
  <2>14. QED
    BY <2>5, <2>6, <2>7, <2>11, <2>13 DEF Inv
<1>9. QED
  BY <1>6, <1>7, <1>8

LEMMA KeepsRecField == ASSUME Inv, RecField PROVE Inv'
<1> DEFINE i == Top.i
           V == LeafAt(Top.b, i)
           c == heap[Top.b][i]
           next == [Top EXCEPT !.i = @ + 1]
<1>1. /\ stack # <<>> /\ Top.fn = "rec" /\ Top.at = "fields"
      /\ UNCHANGED <<heap, count, field, marked>>
      /\ rc' = MarkLeaf(rc, Top.b, i)
      /\ IF i = Size(Top.b) - 1
         THEN IF ShouldMark(Top.b, i)
              THEN Goto([Top EXCEPT !.at = "loop", !.b = field[Top.b][i]]) ELSE Return
         ELSE IF ShouldMark(Top.b, i)
              THEN Call(next, Rec(field[Top.b][i], Top.depth + 1)) ELSE Goto(next)
  BY DEF RecField, Running, Top, RecTail
<1>2. /\ ~Doomed /\ Parked = {} /\ Scanning = {} /\ Open = {} /\ TodoParked = {}
      /\ Top.parent = Null /\ Top.b \in ReachableFrom(heap, marked)
      /\ \A g \in Below : g.fn = "rec" /\ g.at \in {"fields", "return"}
  BY <1>1, RecTop
<1>3. /\ Calls = Below \cup {Top} /\ Top \in FrameType /\ Top.b \in Blocks /\ FrameOK(Top)
      /\ \A g \in Below : g \in FrameType /\ FrameOK(g)
  BY <1>1, Splits DEF Inv
<1>4. /\ i \in Nat /\ i < Size(Top.b) /\ Size(Top.b) \in Nat /\ i \in DOMAIN heap[Top.b]
  <2>1. i \in Nat /\ i < Size(Top.b)
    BY <1>1, <1>3 DEF FrameOK, FrameType
  <2>2. DOMAIN heap[Top.b] = 0..(Size(Top.b) - 1) /\ Size(Top.b) \in Nat
    BY <1>3, Sizes DEF Inv
  <2>3. QED
    BY <2>1, <2>2
<1>5. /\ field[Top.b] = heap[Top.b] /\ V \in SUBSET Blocks
      /\ \A d \in V : /\ d \in Children(heap, Top.b) /\ d # Top.b
                      /\ ~IsShared(d) /\ Children(heap, d) = {}
      /\ ShouldMark(Top.b, i) => c \in Children(heap, Top.b) /\ V = {} /\ ~IsLeaf(c)
      /\ ~ShouldMark(Top.b, i) => \A d \in Blocks : d = c => d \in Sharing \cup V
  BY <1>1, <1>4, FieldVisit DEF Inv
<1>6. \A d \in V : d \in ReachableFrom(heap, marked)
  BY <1>2, <1>5, ReachClosed
<1>7. SharedBy(V)
  BY <1>1, LeafShared DEF Inv
<1>8. TodoOf(heap, Top) = From(heap, Top.b, i)
  BY <1>1 DEF TodoOf
<1>9. \A q \in From(heap, Top.b, i) : q \in Blocks /\ (q = c \/ q \in From(heap, Top.b, i + 1))
  BY <1>3, <1>4, FromNext DEF Inv, Children
<1>10. Top.b \notin V
  BY <1>5
<1> HIDE DEF i, V, c
<1>11. CASE i = Size(Top.b) - 1
  <2>1. /\ Shape' /\ TopOK' /\ Below' \subseteq Calls' /\ Below \subseteq Calls'
        /\ stack' # <<>> => Top' \in Calls'
        /\ \A fr \in Calls' : /\ fr.fn = "rec" /\ fr.parent = Null
                              /\ fr.b \in ReachableFrom(heap, marked)
        /\ \A d \in Blocks : d = c => d \in Todo' \cup Sharing \cup V
    BY <1>1, <1>4, <1>11, TailStep DEF V, c
  <2>2. From(heap, Top.b, i + 1) = {}
    BY <1>3, <1>4, <1>11, FromLast DEF Inv
  <2>3. QED
    BY <1>1, <1>3, <1>5, <1>6, <1>7, <1>8, <1>9, <1>10, <2>1, <2>2, RecStep
<1>12. CASE i # Size(Top.b) - 1 /\ ~ShouldMark(Top.b, i)
  <2>1. i + 1 \in Nat /\ i + 1 < Size(Top.b)
    BY <1>4, <1>12
  <2>2. next = [Top EXCEPT !.at = "fields", !.i = i + 1]
    BY <1>1, <1>3 DEF FrameType, i
  <2>3. /\ Shape' /\ TopOK' /\ Below' \subseteq Calls' /\ Below \subseteq Calls'
        /\ stack' # <<>> => Top' \in Calls'
        /\ \A fr \in Calls' : /\ fr.fn = "rec" /\ fr.parent = Null
                              /\ fr.b \in ReachableFrom(heap, marked)
        /\ From(heap, Top.b, i + 1) \subseteq Todo'
    BY <1>1, <1>12, <2>1, <2>2, FieldsStep
  <2>4. QED
    BY <1>1, <1>3, <1>5, <1>6, <1>7, <1>8, <1>9, <1>10, <1>12, <2>3, RecStep
<1>13. CASE i # Size(Top.b) - 1 /\ ShouldMark(Top.b, i) /\ ~(Len(stack) < MaxCalls)
  <2>1. rc' = rc
    BY <1>1, <1>13 DEF MarkLeaf, ShouldMark
  <2>2. UNCHANGED stack
    BY <1>1, <1>13 DEF Call
  <2>3. QED
    BY <1>1, <2>1, <2>2, Stutter DEF Untouched
<1>14. CASE i # Size(Top.b) - 1 /\ ShouldMark(Top.b, i) /\ Len(stack) < MaxCalls
  <2> DEFINE callee == Rec(field[Top.b][i], Top.depth + 1)
  <2>1. i + 1 \in Nat /\ i + 1 < Size(Top.b)
    BY <1>4, <1>14
  <2>2. c \in Blocks /\ c \in ReachableFrom(heap, marked)
    BY <1>2, <1>5, <1>14, ReachClosed DEF Children
  <2>3. /\ next \in FrameType /\ next.fn = "rec" /\ next.parent = Null /\ next.at = "fields"
        /\ next.b = Top.b /\ next.i = i + 1
    BY <1>1, <1>2, <1>3, <2>1 DEF FrameType, i
  <2>4. /\ callee \in FrameType /\ callee.fn = "rec" /\ callee.parent = Null
        /\ callee.at = "loop" /\ callee.b = c
    BY <1>3, <1>5, <2>2 DEF FrameType, Rec, c
  <2>5. Call(next, callee)
    BY <1>1, <1>14
  <2> HIDE DEF next, callee
  <2>6. /\ FrameOK(next) /\ FrameOK(callee) /\ Above(callee, next)
        /\ \A g \in Below : Above(next, g) /\ Above(callee, g)
    BY <1>2, <2>1, <2>3, <2>4 DEF FrameOK, Above
  <2>7. /\ Shape' /\ stack' # <<>> /\ Top' = callee
        /\ Below' = Below \cup {next} /\ Calls' = Below \cup {next, callee}
    BY <1>1, <1>14, <2>3, <2>4, <2>5, <2>6, CallShape DEF Inv
  <2>8. TopOK'
    BY <1>1, <1>5, <1>14, <2>4, <2>7, TopNext
  <2>9. \A g \in Calls' : /\ g.fn = "rec" /\ g.parent = Null
                          /\ g.b \in ReachableFrom(heap, marked)
    <3>1. \A g \in Below : g.parent = Null /\ g.b \in ReachableFrom(heap, marked)
      BY <1>2, <1>3 DEF FrameOK, Inv, Reached
    <3>2. QED
      BY <1>2, <2>2, <2>3, <2>4, <2>7, <3>1
  <2>10. c \in Todo' /\ From(heap, Top.b, i + 1) \subseteq Todo'
    <3>1. TodoOf(heap, callee) = {c} /\ TodoOf(heap, next) = From(heap, Top.b, i + 1)
      BY <2>3, <2>4 DEF TodoOf
    <3>2. From(heap, Top.b, i + 1) \subseteq Blocks
      BY DEF From
    <3>3. QED
      BY <1>1, <1>2, <2>2, <2>7, <3>1, <3>2, TodoStep DEF Inv
  <2>11. QED
    BY <1>1, <1>3, <1>5, <1>6, <1>7, <1>8, <1>9, <1>10, <2>7, <2>8, <2>9, <2>10, RecStep
<1>15. QED
  BY <1>11, <1>12, <1>13, <1>14

-----------------------------------------------------------------------------
(* kk_block_mark_shared_recx and kk_block_mark_shared_recx_large           *)
LEMMA HopelessNext ==
  ASSUME UNCHANGED <<heap, field>>,
         Doomed' =>
           /\ Top'.at \in {"enter", "recurse", "scan"} /\ ~(rc'[Top'.b] < 0)
           /\ \E i \in DOMAIN heap[Top'.b] :
                /\ i > 0 /\ field[Top'.b][i] \in Blocks
                /\ ~(rc'[field[Top'.b][i]] < 0) /\ ~IsLeaf(field[Top'.b][i])
                /\ Top'.fn = "recx_large" => Top'.i <= i
  PROVE  Hopeless'
<1> SUFFICES ASSUME Doomed'
             PROVE  /\ Top'.at \in {"enter", "recurse", "scan"} /\ ~IsShared(Top.b)'
                    /\ \E i \in DOMAIN heap'[Top'.b] :
                         i > 0 /\ ShouldMark(Top.b, i)' /\ (Top'.fn = "recx_large" => Top'.i <= i)
  BY DEF Hopeless
<1>1. IsShared(Top.b)' <=> rc'[Top'.b] < 0
  BY DEF IsShared
<1>2. \A i : ShouldMark(Top.b, i)' <=> /\ field[Top'.b][i] \in Blocks
                                        /\ ~(rc'[field[Top'.b][i]] < 0)
                                        /\ ~IsLeaf(field[Top'.b][i])
  BY DEF ShouldMark, Unmarked, IsPtr, IsShared, IsLeaf, HeaderScan, IsVector, Size
<1>3. QED
  BY <1>1, <1>2

LEMMA HopelessIs ==
  ASSUME Inv, Doomed
  PROVE  /\ stack # <<>> /\ Top.at \in {"enter", "recurse", "scan"} /\ ~IsShared(Top.b)
         /\ Top.fn # "rec" /\ IsVector(Top.b)
         /\ Top.fn = "recx" => Top.at # "scan"
         /\ \E i \in DOMAIN heap[Top.b] :
              i > 0 /\ ShouldMark(Top.b, i) /\ (Top.fn = "recx_large" => Top.i <= i)
<1>1. PICK g \in Below : g.fn = "recx_large"
  BY DEF Doomed
<1>2. stack # <<>>
  BY <1>1, Towers DEF Inv, Shape
<1>3. Above(Top, g)
  BY <1>1, <1>2, Splits DEF Inv
<1>4. QED
  BY <1>1, <1>2, <1>3 DEF Above, Inv, Hopeless

(* A step that leaves the blocks and the chain as they are.                *)
LEMMA QuietStep ==
  ASSUME Inv, stack # <<>>, UNCHANGED <<heap, count, field, rc, marked>>,
         Waits' = Waits, Scanning' = Scanning, Below \subseteq Calls',
         \A fr \in Calls' : fr.b \in ReachableFrom(heap, marked)
  PROVE  /\ Memory' /\ Chained' /\ Counts' /\ Reached'
         /\ Settled \subseteq Settled' /\ Sharing' = Sharing
         /\ \A q \in Todo : q \in Todo' \/ q \in TodoOf(heap, Top)
         /\ \A fr \in Calls' : \A q \in Blocks : q \in TodoOf(heap, fr) => q \in Todo'
<1>1. SharedBy({})
  BY NoneShared DEF Inv
<1>2. marked \subseteq marked' /\ marked' \subseteq Blocks
  BY DEF Inv, Memory
<1>3. /\ Memory' /\ Chained' /\ Counts' /\ Reached'
      /\ Parked' = Parked /\ TodoParked' = TodoParked
      /\ Settled \subseteq Settled'
  BY <1>1, <1>2, VisitStep DEF Inv
<1>4. Sharing' = Sharing
  BY DEF Sharing, IsShared
<1>5. QED
  BY <1>3, <1>4, TodoStep DEF Inv

LEMMA KeepsRecxEnter == ASSUME Inv, RecxEnter PROVE Inv'
<1> DEFINE fr == [Top EXCEPT !.at = "recurse"]
<1>1. /\ stack # <<>> /\ Top.fn = "recx" /\ Top.at = "enter"
      /\ UNCHANGED <<heap, count, field, rc, marked>>
      /\ IF IsShared(Top.b) \/ IsLeaf(Top.b) THEN Return ELSE Goto(fr)
  BY DEF RecxEnter, Running, Top
<1>2. /\ Calls = Below \cup {Top} /\ Top \in FrameType /\ Top.b \in Blocks /\ FrameOK(Top)
      /\ \A g \in Below : g \in FrameType /\ FrameOK(g) /\ Above(Top, g)
  BY <1>1, Splits DEF Inv
<1>3. ~IsLeaf(Top.b) /\ Top.parent = Null
  BY <1>1, <1>2 DEF Inv, TopOK, FrameOK
<1>4. TodoOf(heap, Top) = {Top.b}
  BY <1>1 DEF TodoOf
<1>5. Scanning = Parked /\ Open = Parked /\ Parked' = Parked
  BY <1>1 DEF Scanning, Open, Parked
<1>6. CASE IsShared(Top.b)
  <2>1. ~Doomed
    BY <1>6, HopelessIs
  <2>2. /\ Shape' /\ TopOK' /\ Hopeless' /\ ~Doomed' /\ Waits' = Waits /\ Calls' = Below
        /\ stack' # <<>> => Top'.at # "scan" /\ Top'.fn # "recx_large"
    BY <1>1, <1>3, <1>6, <2>1, ReturnTop DEF Inv
  <2>3. Scanning' = Scanning /\ Open' = Open
    BY <1>5, <2>2 DEF Scanning, Open
  <2>4. \A g \in Calls' : g.b \in ReachableFrom(heap, marked)
    BY <1>2, <2>2 DEF Inv, Reached
  <2>5. /\ Memory' /\ Chained' /\ Counts' /\ Reached'
        /\ Settled \subseteq Settled' /\ Sharing' = Sharing
        /\ \A q \in Todo : q \in Todo' \/ q \in TodoOf(heap, Top)
    BY <1>1, <2>2, <2>3, <2>4, QuietStep
  <2>6. Top.b \in Sharing
    BY <1>2, <1>6 DEF Sharing
  <2>7. Pending'
    BY <1>1, <1>4, <2>1, <2>3, <2>5, <2>6, PendingKeep DEF Inv
  <2>8. QED
    BY <2>2, <2>5, <2>7 DEF Inv
<1>7. CASE ~IsShared(Top.b)
  <2>1. /\ fr \in FrameType /\ fr.fn = "recx" /\ fr.parent = Null /\ fr.at = "recurse"
        /\ fr.b = Top.b /\ Goto(fr)
    BY <1>1, <1>2, <1>3, <1>7 DEF FrameType
  <2> HIDE DEF fr
  <2>2. FrameOK(fr) /\ \A g \in Below : Above(fr, g)
    BY <1>1, <1>2, <2>1 DEF FrameOK, Above
  <2>3. /\ Shape' /\ stack' # <<>> /\ Top' = fr
        /\ Below' = Below /\ Calls' = Below \cup {fr}
    BY <1>1, <2>1, <2>2, GotoShape DEF Inv
  <2>4. TopOK'
    BY <1>1, <1>3, <1>7, <2>1, <2>3, TopNext DEF IsShared
  <2>5. Doomed' <=> Doomed
    BY <2>3 DEF Doomed
  <2>6. Hopeless'
    BY <1>1, <2>1, <2>3, <2>5, HopelessIs, HopelessNext DEF ShouldMark, Unmarked, IsPtr, IsShared
  <2>7. Scanning' = Scanning /\ Open' = Open /\ Waits' = Waits
    BY <1>1, <1>3, <1>5, <2>1, <2>3, GotoWaits DEF Scanning, Open, Inv
  <2>8. \A g \in Calls' : g.b \in ReachableFrom(heap, marked)
    BY <1>2, <2>1, <2>3 DEF Inv, Reached
  <2>9. /\ Memory' /\ Chained' /\ Counts' /\ Reached'
        /\ Settled \subseteq Settled' /\ Sharing' = Sharing
        /\ \A q \in Todo : q \in Todo' \/ q \in TodoOf(heap, Top)
        /\ \A g \in Calls' : \A q \in Blocks : q \in TodoOf(heap, g) => q \in Todo'
    BY <1>1, <2>3, <2>7, <2>8, QuietStep
  <2>10. TodoOf(heap, fr) = {Top.b}
    BY <2>1 DEF TodoOf
  <2>11. \A q \in Todo : q \in Todo'
    BY <1>2, <1>4, <2>3, <2>9, <2>10
  <2>12. Pending'
    <3>1. CASE Doomed
      BY <2>5, <3>1 DEF Pending
    <3>2. CASE ~Doomed
      BY <1>1, <2>7, <2>9, <2>11, <3>2, PendingKeep DEF Inv
    <3>3. QED
      BY <3>1, <3>2
  <2>13. QED
    BY <2>3, <2>4, <2>6, <2>9, <2>12 DEF Inv
<1>8. QED
  BY <1>6, <1>7

LEMMA KeepsRecurseVector ==
  ASSUME Inv, RecxRecurse, IsVector(Top.b), Len(stack) < MaxCalls
  PROVE  Inv'
<1> DEFINE fr == [Top EXCEPT !.at = "up"]
           callee == Large(Top.b)
<1>1. /\ stack # <<>> /\ Top.fn = "recx" /\ Top.at = "recurse"
      /\ UNCHANGED <<heap, count, field, rc, marked>> /\ Call(fr, callee)
  BY DEF RecxRecurse, Running, Top
<1>2. /\ Calls = Below \cup {Top} /\ Top \in FrameType /\ Top.b \in Blocks /\ FrameOK(Top)
      /\ \A g \in Below : g \in FrameType /\ FrameOK(g) /\ Above(Top, g)
  BY <1>1, Splits DEF Inv
<1>3. ~IsShared(Top.b) /\ Size(Top.b) > 1 /\ Size(Top.b) \in Nat
  BY <1>1, <1>2, Sizes DEF Inv, TopOK
<1>4. /\ fr \in FrameType /\ fr.fn = "recx" /\ fr.parent = Top.parent /\ fr.at = "up"
      /\ fr.b = Top.b
  BY <1>1, <1>2 DEF FrameType
<1>5. /\ callee \in FrameType /\ callee.fn = "recx_large" /\ callee.parent = Null
      /\ callee.at = "scan" /\ callee.b = Top.b /\ callee.i = 1
  BY <1>2 DEF FrameType, Large
<1> HIDE DEF fr, callee
<1>6. FrameOK(fr) /\ FrameOK(callee)
  BY <1>4, <1>5 DEF FrameOK
<1>7. /\ Above(callee, fr)
      /\ \A g \in Below : Above(fr, g) /\ Above(callee, g)
  BY <1>1, <1>2, <1>4, <1>5 DEF Above
<1>8. /\ Shape' /\ stack' # <<>> /\ Top' = callee
      /\ Below' = Below \cup {fr} /\ Calls' = Below \cup {fr, callee}
  BY <1>1, <1>4, <1>5, <1>6, <1>7, CallShape DEF Inv
<1>9. TopOK'
  BY <1>1, <1>3, <1>5, <1>8, TopNext DEF IsShared
<1>10. Doomed' <=> Doomed
  BY <1>4, <1>8 DEF Doomed
<1>11. Hopeless'
  <2>1. ASSUME Doomed
        PROVE  \E i \in DOMAIN heap[Top.b] :
                 i > 0 /\ ShouldMark(Top.b, i) /\ callee.i <= i
    <3>1. PICK i \in DOMAIN heap[Top.b] : i > 0 /\ ShouldMark(Top.b, i)
      BY <2>1, HopelessIs
    <3>2. DOMAIN heap[Top.b] = 0..(Size(Top.b) - 1) /\ Size(Top.b) \in Nat
      BY <1>2, Sizes DEF Inv
    <3>3. QED
      BY <1>5, <3>1, <3>2
  <2>2. QED
    BY <1>1, <1>3, <1>5, <1>8, <1>10, <2>1, HopelessNext DEF ShouldMark, Unmarked, IsPtr, IsShared
<1>12. Parked' = Parked /\ Scanning' = Scanning /\ Open = Parked /\ Open' = Open \cup {Top.b}
  BY <1>1, <1>5, <1>8 DEF Scanning, Open, Parked
<1>13. Waits' = Waits
  BY <1>1, <1>4, <1>5, <1>8, CallWaits DEF Inv
<1>14. \A g \in Calls' : g.b \in ReachableFrom(heap, marked)
  BY <1>2, <1>4, <1>5, <1>8 DEF Inv, Reached
<1>15. /\ Memory' /\ Chained' /\ Counts' /\ Reached'
       /\ Settled \subseteq Settled' /\ Sharing' = Sharing
       /\ \A q \in Todo : q \in Todo' \/ q \in TodoOf(heap, Top)
       /\ \A g \in Calls' : \A q \in Blocks : q \in TodoOf(heap, g) => q \in Todo'
  BY <1>1, <1>8, <1>12, <1>13, <1>14, QuietStep
<1>16. TodoOf(heap, Top) = {Top.b} /\ TodoOf(heap, callee) = From(heap, Top.b, 1)
  BY <1>1, <1>5 DEF TodoOf
<1>17. \A c \in Children(heap, Top.b) : c \in Todo'
  <2>1. \A c \in Children(heap, Top.b) : c \in Blocks /\ c \in From(heap, Top.b, 1)
    BY <1>2, FromFirst DEF Inv, Children
  <2>2. QED
    BY <1>8, <1>15, <1>16, <2>1
<1>18. Pending'
  <2>1. CASE Doomed
    BY <1>10, <2>1 DEF Pending
  <2>2. CASE ~Doomed
    <3> DEFINE V == {Top.b}
    <3>1. /\ V \in SUBSET Blocks /\ (\A q \in V : q = Top.b \/ Children(heap, q) = {})
          /\ V \subseteq Settled' \cup Open'
          /\ Sharing' \cup Open' \subseteq Sharing \cup Open \cup V
          /\ \A q \in Todo : q \in Todo' \cup Sharing \cup Open \cup V
      BY <1>2, <1>12, <1>15, <1>16
    <3>2. Settled \cup Open \subseteq Settled' \cup Open'
      BY <1>12, <1>15
    <3> HIDE DEF V
    <3>3. QED
      BY <1>1, <1>17, <2>2, <3>1, <3>2, PendingStep DEF Inv
  <2>3. QED
    BY <2>1, <2>2
<1>19. QED
  BY <1>8, <1>9, <1>11, <1>15, <1>18 DEF Inv

LEMMA KeepsLargeScanned == ASSUME Inv, LargeScanned PROVE Inv'
<1>1. /\ stack # <<>> /\ Top.fn = "recx_large" /\ Top.at = "scan" /\ Top.i = Size(Top.b)
      /\ UNCHANGED <<heap, count, field, marked>> /\ Return
      /\ rc' = [rc EXCEPT ![Top.b] = SharedCount(@)]
  BY DEF LargeScanned, Running, Top
<1>2. /\ Calls = Below \cup {Top} /\ Top \in FrameType /\ Top.b \in Blocks /\ FrameOK(Top)
      /\ \A g \in Below : g \in FrameType /\ FrameOK(g) /\ Above(Top, g)
  BY <1>1, Splits DEF Inv
<1>3. Top.parent = Null /\ ~IsShared(Top.b)
  BY <1>1, <1>2 DEF Inv, TopOK, FrameOK
<1>4. Size(Top.b) \in Nat /\ DOMAIN heap[Top.b] = 0..(Size(Top.b) - 1)
  BY <1>2, Sizes DEF Inv
<1>5. ~Doomed
  BY <1>1, <1>4, HopelessIs
<1>6. /\ Shape' /\ TopOK' /\ Hopeless' /\ ~Doomed' /\ Waits' = Waits /\ Calls' = Below
      /\ stack' # <<>> => Top'.at # "scan" /\ Top'.fn # "recx_large"
  BY <1>1, <1>3, <1>5, ReturnTop DEF Inv
<1>7. Parked' = Parked /\ Scanning = Parked /\ Scanning' = Parked
  BY <1>1, <1>6 DEF Parked, Scanning
<1>8. Open = Parked \cup {Top.b} /\ Open' = Parked
  BY <1>1, <1>6, <1>7 DEF Open
<1>9. Top.b \notin Parked /\ Top.b \in ReachableFrom(heap, marked)
  BY <1>1, <1>2, TopNotParked DEF Inv, Reached
<1>10. \A g \in Calls' : g.b \in ReachableFrom(heap, marked)
  BY <1>2, <1>6 DEF Inv, Reached
<1>11. SharedBy({Top.b})
  BY <1>1, <1>2, OneShared DEF Inv
<1>12. marked \subseteq marked' /\ marked' \subseteq Blocks
  BY <1>1 DEF Inv, Memory
<1>13. /\ Memory' /\ Chained' /\ Counts' /\ Reached'
       /\ TodoParked' = TodoParked
       /\ Top.b \in Settled' /\ Settled \subseteq Settled'
       /\ Sharing' \subseteq Sharing \cup {Top.b}
  <2> DEFINE V == {Top.b}
  <2>1. /\ V \in SUBSET Blocks /\ SharedBy(V)
        /\ \A v \in V : v \notin Scanning /\ ~IsShared(v) /\ v \in ReachableFrom(heap, marked')
    BY <1>1, <1>2, <1>3, <1>7, <1>9, <1>11
  <2> HIDE DEF V
  <2>2. /\ Memory' /\ Chained' /\ Counts' /\ Reached'
        /\ TodoParked' = TodoParked
        /\ V \subseteq Settled' /\ Settled \subseteq Settled'
        /\ Sharing' \subseteq Sharing \cup V
    BY <1>1, <1>6, <1>7, <1>10, <1>12, <2>1, VisitStep DEF Inv
  <2>3. QED
    BY <2>2 DEF V
<1>14. \A q \in Todo : q \in Todo' \/ q \in TodoOf(heap, Top)
  BY <1>1, <1>6, <1>13, TodoStep DEF Inv
<1>15. TodoOf(heap, Top) = {}
  <2>1. TodoOf(heap, Top) = From(heap, Top.b, Top.i)
    BY <1>1 DEF TodoOf
  <2>2. QED
    BY <1>1, <1>2, <1>4, <2>1, FromLast DEF Inv
<1>16. Pending'
  <2>1. Settled \cup Open \subseteq Settled' \cup Open'
    BY <1>8, <1>13
  <2>2. Sharing' \cup Open' \subseteq Sharing \cup Open
    BY <1>8, <1>13
  <2>3. QED
    BY <1>1, <1>5, <1>14, <1>15, <2>1, <2>2, PendingKeep DEF Inv
<1>17. QED
  BY <1>6, <1>13, <1>16 DEF Inv

(* Going on to the next field, with a leaf marked or nothing to do.        *)
LEMMA KeepsSkip ==
  ASSUME Inv, stack # <<>>, Top.fn # "rec", Top.at = "scan", Top.i < Size(Top.b),
         ~ShouldMark(Top.b, Top.i), rc' = MarkLeaf(rc, Top.b, Top.i),
         Goto([Top EXCEPT !.i = @ + 1]), UNCHANGED <<heap, count, field, marked>>
  PROVE  Inv'
<1> DEFINE i == Top.i
           V == LeafAt(Top.b, i)
           c == heap[Top.b][i]
           fr == [Top EXCEPT !.i = @ + 1]
<1>1. /\ Calls = Below \cup {Top} /\ Top \in FrameType /\ Top.b \in Blocks /\ FrameOK(Top)
      /\ \A g \in Below : g \in FrameType /\ FrameOK(g) /\ Above(Top, g)
  BY Splits DEF Inv
<1>2. /\ i \in Nat /\ i < Size(Top.b) /\ Size(Top.b) \in Nat /\ i \in DOMAIN heap[Top.b]
      /\ DOMAIN heap[Top.b] = 0..(Size(Top.b) - 1)
  <2>1. DOMAIN heap[Top.b] = 0..(Size(Top.b) - 1) /\ Size(Top.b) \in Nat /\ i \in Nat
    BY <1>1, Sizes DEF Inv, FrameType
  <2>2. QED
    BY <2>1
<1>3. /\ field[Top.b] = heap[Top.b] /\ V \in SUBSET Blocks
      /\ \A d \in V : /\ d \in Children(heap, Top.b) /\ d # Top.b
                      /\ d \notin Open /\ d \notin Scanning
                      /\ ~IsShared(d) /\ Children(heap, d) = {}
      /\ \A d \in Blocks : d = c => d \in Sharing \cup V
  BY <1>2, FieldVisit DEF Inv
<1>4. SharedBy(V)
  BY LeafShared DEF Inv
<1>5. TodoOf(heap, Top) = From(heap, Top.b, i)
  BY DEF TodoOf
<1>6. \A q \in From(heap, Top.b, i) : q \in Blocks /\ (q = c \/ q \in From(heap, Top.b, i + 1))
  BY <1>1, <1>2, FromNext DEF Inv, Children
<1>7. /\ fr \in FrameType /\ fr.fn = Top.fn /\ fr.parent = Top.parent /\ fr.at = "scan"
      /\ fr.b = Top.b /\ fr.i = i + 1 /\ Goto(fr)
  BY <1>1, <1>2 DEF FrameType
<1>8. \A d \in V : IsLeaf(d)
  BY DEF LeafAt
<1> HIDE DEF fr, i, V, c
<1>9. FrameOK(fr) /\ \A g \in Below : Above(fr, g)
  BY <1>1, <1>2, <1>7 DEF FrameOK, Above, FrameType, i
<1>10. /\ Shape' /\ stack' # <<>> /\ Top' = fr
       /\ Below' = Below /\ Calls' = Below \cup {fr}
  BY <1>7, <1>9, GotoShape DEF Inv
<1>11. \A b \in Blocks : b \notin V => rc'[b] = rc[b]
  BY <1>4 DEF SharedBy
<1>12. TopOK'
  <2>1. Top.b \notin V
    BY <1>3
  <2>2. fr.i <= Size(fr.b)
    BY <1>2, <1>7
  <2>3. Top.fn = "recx_large" => ~(rc'[fr.b] < 0)
    BY <1>1, <1>7, <1>11, <2>1 DEF Inv, TopOK, IsShared
  <2>4. Top.fn = "recx" => ~IsVector(fr.b)
    BY <1>7 DEF Inv, TopOK
  <2>5. QED
    BY <1>7, <1>10, <2>2, <2>3, <2>4, TopNext
<1>13. Doomed' <=> Doomed
  BY <1>10 DEF Doomed
<1>14. Hopeless'
  <2>1. ASSUME Doomed
        PROVE  \E j \in DOMAIN heap[Top.b] :
                /\ j > 0 /\ field[Top.b][j] \in Blocks
                /\ ~(rc'[field[Top.b][j]] < 0) /\ ~IsLeaf(field[Top.b][j])
                /\ fr.i <= j
    <3>1. Top.fn = "recx_large"
      BY <1>1, <2>1, HopelessIs DEF FrameType
    <3>2. PICK j \in DOMAIN heap[Top.b] : j > 0 /\ ShouldMark(Top.b, j) /\ i <= j
      BY <2>1, <3>1, HopelessIs DEF i
    <3>3. j # i /\ j \in Nat
      BY <1>2, <3>2 DEF i
    <3>4. fr.i <= j
      BY <1>2, <1>7, <3>2, <3>3
    <3>5. field[Top.b][j] \in Blocks /\ ~IsShared(field[Top.b][j]) /\ ~IsLeaf(field[Top.b][j])
      BY <3>2 DEF ShouldMark, Unmarked, IsPtr
    <3>6. field[Top.b][j] \notin V
      BY <1>8, <3>5
    <3>7. QED
      BY <1>11, <3>2, <3>4, <3>5, <3>6 DEF IsShared
  <2>2. ASSUME Doomed PROVE ~(rc'[fr.b] < 0)
    BY <1>1, <1>3, <1>7, <1>11, <2>2, HopelessIs DEF IsShared
  <2>3. QED
    BY <1>7, <1>10, <1>13, <2>1, <2>2, HopelessNext
<1>15. Parked' = Parked /\ Scanning' = Scanning /\ Open' = Open
  BY <1>7, <1>10 DEF Scanning, Open, Parked
<1>16. Waits' = Waits
  BY <1>7, <1>10, GotoWaits DEF Inv
<1>17. \A g \in Calls' : g.b \in ReachableFrom(heap, marked)
  BY <1>1, <1>7, <1>10 DEF Inv, Reached
<1>18. marked \subseteq marked' /\ marked' \subseteq Blocks
  BY DEF Inv, Memory
<1>19. \A d \in V : d \in ReachableFrom(heap, marked)
  <2>1. Top.b \in ReachableFrom(heap, marked)
    BY <1>1 DEF Inv, Reached
  <2>2. QED
    BY <1>3, <2>1, ReachClosed
<1>20. /\ Memory' /\ Chained' /\ Counts' /\ Reached'
       /\ TodoParked' = TodoParked
       /\ V \subseteq Settled' /\ Settled \subseteq Settled'
       /\ Sharing' \subseteq Sharing \cup V
  BY <1>3, <1>4, <1>15, <1>16, <1>17, <1>18, <1>19, VisitStep DEF Inv
<1>21. /\ \A q \in Todo : q \in Todo' \/ q \in TodoOf(heap, Top)
       /\ \A g \in Calls' : \A q \in Blocks : q \in TodoOf(heap, g) => q \in Todo'
  BY <1>10, <1>20, TodoStep DEF Inv
<1>22. \A q \in Todo : q \in Todo' \cup Sharing \cup Open \cup V
  <2>1. TodoOf(heap, fr) = From(heap, Top.b, i + 1)
    BY <1>7 DEF TodoOf
  <2>2. \A q \in Todo : q \in Blocks
    BY DEF Todo, TodoParked
  <2>3. QED
    BY <1>3, <1>5, <1>6, <1>10, <1>21, <2>1, <2>2
<1>23. Pending'
  <2>1. CASE Doomed
    BY <1>13, <2>1 DEF Pending
  <2>2. CASE ~Doomed
    <3>1. \A q \in V : q = Null \/ Children(heap, q) = {}
      BY <1>3
    <3>2. Null \notin V
      BY <1>3, MarkAssumption
    <3>3. QED
      BY <1>3, <1>15, <1>20, <1>22, <2>2, <3>1, <3>2, PendingStep DEF Inv
  <2>3. QED
    BY <2>1, <2>2
<1>24. QED
  BY <1>10, <1>12, <1>14, <1>20, <1>23 DEF Inv

LEMMA KeepsRecxSkip == ASSUME Inv, RecxSkip PROVE Inv'
<1>1. /\ stack # <<>> /\ Top.fn = "recx" /\ Top.at = "scan" /\ Top.i < Size(Top.b)
      /\ ~ShouldMark(Top.b, Top.i) /\ rc' = MarkLeaf(rc, Top.b, Top.i)
      /\ Goto([Top EXCEPT !.i = @ + 1]) /\ UNCHANGED <<heap, count, field, marked>>
  BY DEF RecxSkip, Running, Top
<1>2. QED
  BY <1>1, KeepsSkip

LEMMA KeepsLargeField == ASSUME Inv, LargeField PROVE Inv'
<1> DEFINE i == Top.i
           fr == [Top EXCEPT !.i = @ + 1]
           callee == Recx(Top.b)
<1>1. /\ stack # <<>> /\ Top.fn = "recx_large" /\ Top.at = "scan" /\ i < Size(Top.b)
      /\ rc' = MarkLeaf(rc, Top.b, i) /\ UNCHANGED <<heap, count, field, marked>>
      /\ IF ShouldMark(Top.b, i) THEN Call(fr, callee) ELSE Goto(fr)
  BY DEF LargeField, Running, Top
<1>2. CASE ~ShouldMark(Top.b, i)
  BY <1>1, <1>2, KeepsSkip
<1>3. CASE ShouldMark(Top.b, i) /\ ~(Len(stack) < MaxCalls)
  <2>1. rc' = rc /\ UNCHANGED stack
    BY <1>1, <1>3 DEF MarkLeaf, ShouldMark, Call
  <2>2. QED
    BY <1>1, <2>1, Stutter DEF Untouched
<1>4. CASE ShouldMark(Top.b, i) /\ Len(stack) < MaxCalls
  <2>1. /\ Calls = Below \cup {Top} /\ Top \in FrameType /\ Top.b \in Blocks /\ FrameOK(Top)
        /\ \A g \in Below : g \in FrameType /\ FrameOK(g) /\ Above(Top, g)
    BY <1>1, Splits DEF Inv
  <2>2. rc' = rc
    BY <1>1, <1>4 DEF MarkLeaf, ShouldMark
  <2>3. /\ i \in DOMAIN heap[Top.b] /\ i > 0 /\ IsVector(Top.b) /\ ~IsLeaf(Top.b)
        /\ ~IsShared(Top.b)
    <3>1. /\ i \in Nat /\ i > 0 /\ IsVector(Top.b) /\ ~IsShared(Top.b)
      BY <1>1, <2>1 DEF FrameOK, FrameType, Inv, TopOK
    <3>2. /\ DOMAIN heap[Top.b] = 0..(Size(Top.b) - 1) /\ Size(Top.b) \in Nat
          /\ ~IsLeaf(Top.b)
      BY <2>1, <3>1, Sizes DEF Inv
    <3>3. QED
      BY <1>1, <3>1, <3>2
  <2>4. /\ fr \in FrameType /\ fr.fn = "recx_large" /\ fr.parent = Top.parent /\ fr.at = "scan"
        /\ fr.b = Top.b /\ fr.i = i + 1
    BY <1>1, <2>1 DEF FrameType
  <2>5. /\ callee \in FrameType /\ callee.fn = "recx" /\ callee.parent = Null
        /\ callee.at = "enter" /\ callee.b = Top.b
    BY <2>1 DEF FrameType, Recx
  <2>6. Call(fr, callee) /\ i \in Nat
    BY <1>1, <1>4, <2>1 DEF FrameType
  <2>7. Top.parent = Null
    BY <1>1, <2>1 DEF FrameOK
  <2> HIDE DEF fr, callee, i
  <2>8. FrameOK(fr) /\ FrameOK(callee)
    BY <2>3, <2>4, <2>5, <2>6, <2>7 DEF FrameOK
  <2>9. Above(callee, fr) /\ \A g \in Below : Above(fr, g) /\ Above(callee, g)
    BY <1>1, <2>1, <2>3, <2>4, <2>5, <2>7 DEF Above
  <2>10. /\ Shape' /\ stack' # <<>> /\ Top' = callee
         /\ Below' = Below \cup {fr} /\ Calls' = Below \cup {fr, callee}
    BY <1>1, <1>4, <2>4, <2>5, <2>6, <2>8, <2>9, CallShape DEF Inv
  <2>11. TopOK'
    BY <1>1, <2>3, <2>5, <2>10, TopNext
  <2>12. Doomed'
    BY <2>4, <2>10 DEF Doomed
  <2>13. Hopeless'
    <3>1. ~(rc'[callee.b] < 0)
      BY <2>2, <2>3, <2>5 DEF IsShared
    <3>2. /\ field[Top.b][i] \in Blocks /\ ~(rc'[field[Top.b][i]] < 0) /\ ~IsLeaf(field[Top.b][i])
      BY <1>4, <2>2 DEF ShouldMark, Unmarked, IsPtr, IsShared
    <3>3. QED
      BY <1>1, <2>3, <2>5, <2>10, <3>1, <3>2, HopelessNext
  <2>14. Scanning' = Scanning
    BY <1>1, <2>5, <2>10 DEF Scanning, Parked
  <2>15. Waits' = Waits
    BY <1>1, <2>4, <2>5, <2>10, CallWaits DEF Inv
  <2>16. \A g \in Calls' : g.b \in ReachableFrom(heap, marked)
    BY <2>1, <2>4, <2>5, <2>10 DEF Inv, Reached
  <2>17. /\ Memory' /\ Chained' /\ Counts' /\ Reached'
    BY <1>1, <2>2, <2>10, <2>14, <2>15, <2>16, QuietStep
  <2>18. Pending'
    BY <2>12 DEF Pending
  <2>19. QED
    BY <2>10, <2>11, <2>13, <2>17, <2>18 DEF Inv
<1>5. QED
  BY <1>2, <1>3, <1>4

(* Counts that hold an index.                                              *)
LEMMA Digits ==
  ASSUME NEW span \in Nat \ {0}, NEW n \in Int, NEW i \in 0..(span - 1)
  PROVE  (n * span + i) \div span = n /\ (n * span + i) % span = i
<1>1. (n * span + i) \div span = n
  OBVIOUS
<1>2. (n * span + i) % span = i
  OBVIOUS
<1>3. QED
  BY <1>1, <1>2

LEMMA Indexed ==
  ASSUME NEW n \in Nat, n \div IDX_SPAN \in Nat, NEW i \in 0..(IDX_SPAN - 1)
  PROVE  /\ SetIdx(n, i) \in Nat /\ SetIdx(n, i) \div IDX_SPAN = n \div IDX_SPAN
         /\ Idx(SetIdx(n, i)) = i
<1> DEFINE k == n \div IDX_SPAN
<1>1. IDX_SPAN \in Nat \ {0} /\ k \in Nat /\ i \in Nat
  BY MarkAssumption
<1>2. (k * IDX_SPAN + i) \div IDX_SPAN = k /\ (k * IDX_SPAN + i) % IDX_SPAN = i
  BY <1>1, Digits
<1>3. k * IDX_SPAN \in Nat
  BY <1>1
<1> HIDE DEF k
<1>4. k * IDX_SPAN + i \in Nat
  BY <1>1, <1>3
<1>5. SetIdx(n, i) = k * IDX_SPAN + i
  BY DEF SetIdx, k
<1>6. QED
  BY <1>2, <1>4, <1>5 DEF Idx, k

LEMMA Prepared ==
  ASSUME NEW n \in Nat
  PROVE  WithIdx(n) \in Nat /\ WithIdx(n) \div IDX_SPAN = Capped(n)
<1> DEFINE k == Capped(n)
<1>1. k \in Nat /\ IDX_SPAN \in Nat \ {0}
  BY MarkAssumption DEF Capped
<1>2. WithIdx(n) = k * IDX_SPAN
  BY DEF WithIdx, Capped
<1> HIDE DEF k
<1>3. k * IDX_SPAN \in Nat /\ 0 \in 0..(IDX_SPAN - 1)
  BY <1>1
<1>4. (k * IDX_SPAN + 0) \div IDX_SPAN = k
  BY <1>1, <1>3, Digits
<1>5. k * IDX_SPAN + 0 = k * IDX_SPAN
  BY <1>3
<1>6. QED
  BY <1>2, <1>3, <1>4, <1>5 DEF k

(* When the index is taken out, the count is as before, or too large.      *)
LEMMA Unprepared ==
  ASSUME NEW n \in Nat, NEW r \in Int, r \div IDX_SPAN = Capped(n)
  PROVE  SharedCount(WithoutIdx(r)) \in Marks(n) /\ SharedCount(WithoutIdx(r)) \in Int
<1>1. KK_RC_MARK_MAX \in Nat
  BY MarkAssumption
<1>2. CASE n >= KK_RC_MARK_MAX
  <2>1. Capped(n) = KK_RC_MARK_MAX
    BY <1>1, <1>2 DEF Capped
  <2>2. WithoutIdx(r) = RC_MAX
    BY <1>1, <2>1 DEF WithoutIdx
  <2>3. SharedCount(RC_MAX) = RC_STICKY
    BY MarkAssumption DEF SharedCount
  <2>4. QED
    BY <1>2, <2>2, <2>3, MarkAssumption DEF Marks
<1>3. CASE n < KK_RC_MARK_MAX
  <2>1. Capped(n) = n
    BY <1>1, <1>3 DEF Capped
  <2>2. WithoutIdx(r) = n
    BY <1>1, <1>3, <2>1 DEF WithoutIdx
  <2>3. QED
    BY <2>2, SharedInt DEF Marks
<1>4. QED
  BY <1>1, <1>2, <1>3

(* A step that changes the count of the block that is scanned only.        *)
LEMMA IndexStep ==
  ASSUME Inv, stack # <<>>, UNCHANGED <<heap, count, field, marked>>,
         Waits' = Waits, Below \subseteq Calls',
         \A fr \in Calls' : fr.b \in ReachableFrom(heap, marked),
         NEW n \in Int, rc' = [rc EXCEPT ![Top.b] = n]
  PROVE  /\ Memory' /\ Chained' /\ Reached' /\ Parked' = Parked
         /\ rc' \in [Blocks -> Int] /\ rc'[Top.b] = n
         /\ \A b \in Blocks : b # Top.b => rc'[b] = rc[b]
         /\ \A q \in Todo : q \in Todo' \/ q \in TodoOf(heap, Top)
         /\ \A fr \in Calls' : \A q \in Blocks : q \in TodoOf(heap, fr) => q \in Todo'
<1>1. Top.b \in Blocks /\ Top.b \notin Parked /\ Calls = Below \cup {Top}
  BY Splits, TopNotParked DEF Inv
<1>2. rc \in [Blocks -> Int]
  BY DEF Inv, Counts
<1>3. /\ rc' \in [Blocks -> Int] /\ rc'[Top.b] = n
      /\ \A b \in Blocks : b # Top.b => rc'[b] = rc[b]
  BY <1>1, <1>2
<1>4. \A p \in Parked : rc'[p] = rc[p]
  BY <1>1, <1>3 DEF Parked
<1>5. Chained' /\ Parked' = Parked
  BY <1>4, KeepChained DEF Inv
<1>6. TodoParked' = TodoParked
  BY <1>4, <1>5 DEF TodoParked, Idx
<1>7. Memory'
  BY DEF Inv, Memory
<1>8. Top.b \in ReachableFrom(heap, marked)
  BY <1>1 DEF Inv, Reached
<1>9. Reached'
  BY <1>3, <1>5, <1>8 DEF Inv, Reached
<1>10. QED
  BY <1>3, <1>5, <1>6, <1>7, <1>9, TodoStep DEF Inv

LEMMA KeepsRecurseBlock ==
  ASSUME Inv, RecxRecurse, ~IsVector(Top.b)
  PROVE  Inv'
<1> DEFINE fr == [Top EXCEPT !.at = "scan", !.i = 0]
           n == WithIdx(rc[Top.b])
<1>1. /\ stack # <<>> /\ Top.fn = "recx" /\ Top.at = "recurse"
      /\ UNCHANGED <<heap, count, field, marked>> /\ Goto(fr)
      /\ rc' = [rc EXCEPT ![Top.b] = n]
  BY DEF RecxRecurse, Running, Top
<1>2. /\ Calls = Below \cup {Top} /\ Top \in FrameType /\ Top.b \in Blocks /\ FrameOK(Top)
      /\ \A g \in Below : g.fn = "rec" /\ FrameOK(g) /\ Above(Top, g)
  BY <1>1, Splits, WaitsTop DEF Inv
<1>3. ~IsShared(Top.b) /\ Top.b \notin Parked /\ Size(Top.b) \in Nat
  BY <1>1, <1>2, TopNotParked, Sizes DEF Inv, TopOK
<1>4. Scanning = Parked /\ Open = Parked
  BY <1>1 DEF Scanning, Open
<1>5. rc[Top.b] = count[Top.b] /\ count[Top.b] \in Nat
  BY <1>2, <1>3, <1>4, Unvisited DEF Inv
<1>6. n \in Nat /\ n \div IDX_SPAN = Capped(count[Top.b])
  BY <1>5, Prepared
<1>7. /\ fr \in FrameType /\ fr.fn = "recx" /\ fr.parent = Top.parent /\ fr.at = "scan"
      /\ fr.b = Top.b /\ fr.i = 0
  BY <1>1, <1>2 DEF FrameType
<1> HIDE DEF fr, n
<1>8. FrameOK(fr) /\ \A g \in Below : Above(fr, g)
  BY <1>1, <1>2, <1>7 DEF FrameOK, Above
<1>9. /\ Shape' /\ stack' # <<>> /\ Top' = fr
      /\ Below' = Below /\ Calls' = Below \cup {fr}
  BY <1>1, <1>7, <1>8, GotoShape DEF Inv
<1>10. TopOK'
  BY <1>1, <1>3, <1>7, <1>9, TopNext
<1>11. ~Doomed /\ ~Doomed' /\ Hopeless'
  BY <1>2, <1>9 DEF Doomed, Hopeless
<1>12. Waits' = Waits
  BY <1>7, <1>9, <1>1, GotoWaits DEF Inv
<1>13. \A g \in Calls' : g.b \in ReachableFrom(heap, marked)
  BY <1>2, <1>7, <1>9 DEF Inv, Reached
<1>14. /\ Memory' /\ Chained' /\ Reached' /\ Parked' = Parked
       /\ rc' \in [Blocks -> Int] /\ rc'[Top.b] = n
       /\ \A b \in Blocks : b # Top.b => rc'[b] = rc[b]
       /\ \A q \in Todo : q \in Todo' \/ q \in TodoOf(heap, Top)
       /\ \A g \in Calls' : \A q \in Blocks : q \in TodoOf(heap, g) => q \in Todo'
  <2>1. n \in Int
    BY <1>6
  <2>2. QED
    BY <1>1, <1>9, <1>12, <1>13, <2>1, IndexStep
<1>15. Scanning' = Parked \cup {Top.b} /\ Open' = Parked \cup {Top.b}
  BY <1>7, <1>9, <1>14 DEF Scanning, Open
<1>16. Counts'
  <2>1. \A b \in Scanning' : count[b] >= 0 /\ rc'[b] >= 0 /\ rc'[b] \div IDX_SPAN = Capped(count[b])
    <3>1. \A b \in Parked : b # Top.b /\ b \in Blocks /\ b \in Scanning
      BY <1>3, <1>4 DEF Parked
    <3>2. QED
      BY <1>5, <1>6, <1>14, <1>15, <3>1 DEF Inv, Counts
  <2>2. \A b \in Blocks \ Scanning' :
          rc'[b] = count[b] \/ (count[b] >= 0 /\ rc'[b] \in Marks(count[b]))
    BY <1>4, <1>14, <1>15 DEF Inv, Counts
  <2>3. /\ count \in [Blocks -> Int]
        /\ \A b \in Blocks : count[b] < 0 => \A c \in Children(heap, b) : count[c] < 0
    BY DEF Inv, Counts
  <2>4. QED
    BY <1>1, <1>14, <2>1, <2>2, <2>3 DEF Counts
<1>17. TodoOf(heap, Top) = {Top.b} /\ TodoOf(heap, fr) = From(heap, Top.b, 0)
  BY <1>1, <1>7 DEF TodoOf
<1>18. \A c \in Children(heap, Top.b) : c \in Todo'
  <2>1. \A c \in Children(heap, Top.b) : c \in Blocks /\ c \in From(heap, Top.b, 0)
    BY <1>2, FromFirst DEF Inv, Children
  <2>2. QED
    BY <1>9, <1>14, <1>17, <2>1
<1>19. Pending'
  <2> DEFINE V == {Top.b}
  <2>1. /\ V \in SUBSET Blocks /\ (\A q \in V : q = Top.b \/ Children(heap, q) = {})
        /\ V \subseteq Settled' \cup Open'
        /\ \A q \in Todo : q \in Todo' \cup Sharing \cup Open \cup V
    BY <1>2, <1>14, <1>15, <1>17
  <2>2. \A b \in Blocks : b # Top.b => (b \in Settled => b \in Settled')
                                    /\ (b \in Sharing' => b \in Sharing)
    BY <1>1, <1>14 DEF Settled, Sharing, IsShared
  <2>3. /\ Settled \cup Open \subseteq Settled' \cup Open'
        /\ Sharing' \cup Open' \subseteq Sharing \cup Open \cup V
    <3>1. Settled \subseteq Blocks /\ Sharing' \subseteq Blocks
      BY DEF Settled, Sharing
    <3>2. QED
      BY <1>4, <1>15, <2>2, <3>1
  <2> HIDE DEF V
  <2>4. QED
    BY <1>1, <1>11, <1>18, <2>1, <2>3, PendingStep DEF Inv
<1>20. QED
  BY <1>9, <1>10, <1>11, <1>14, <1>16, <1>19 DEF Inv

LEMMA KeepsRecxRecurse == ASSUME Inv, RecxRecurse PROVE Inv'
<1>1. CASE ~IsVector(Top.b)
  BY <1>1, KeepsRecurseBlock
<1>2. CASE IsVector(Top.b) /\ Len(stack) < MaxCalls
  BY <1>2, KeepsRecurseVector
<1>3. CASE IsVector(Top.b) /\ ~(Len(stack) < MaxCalls)
  BY <1>3, Stutter DEF RecxRecurse, Call, Untouched
<1>4. QED
  BY <1>1, <1>2, <1>3

LEMMA KeepsRecxScanned == ASSUME Inv, RecxScanned PROVE Inv'
<1> DEFINE fr == [Top EXCEPT !.at = "up"]
           n == SharedCount(WithoutIdx(rc[Top.b]))
<1>1. /\ stack # <<>> /\ Top.fn = "recx" /\ Top.at = "scan" /\ Top.i = Size(Top.b)
      /\ UNCHANGED <<heap, count, field, marked>> /\ Goto(fr)
      /\ rc' = [rc EXCEPT ![Top.b] = n]
  BY DEF RecxScanned, Running, Top
<1>2. ~IsVector(Top.b)
  BY <1>1 DEF Inv, TopOK
<1>3. /\ Calls = Below \cup {Top} /\ Top \in FrameType /\ Top.b \in Blocks /\ FrameOK(Top)
      /\ \A g \in Below : g.fn = "rec" /\ FrameOK(g) /\ Above(Top, g)
  BY <1>1, <1>2, Splits, WaitsTop DEF Inv
<1>4. Top.b \notin Parked /\ Size(Top.b) \in Nat
  BY <1>1, <1>3, TopNotParked, Sizes DEF Inv
<1>5. Scanning = Parked \cup {Top.b} /\ Open = Parked \cup {Top.b}
  BY <1>1 DEF Scanning, Open
<1>6. /\ rc[Top.b] \in Int /\ count[Top.b] \in Nat
      /\ rc[Top.b] \div IDX_SPAN = Capped(count[Top.b])
  BY <1>3, <1>5 DEF Inv, Counts
<1>7. n \in Marks(count[Top.b]) /\ n \in Int
  BY <1>6, Unprepared
<1>8. /\ fr \in FrameType /\ fr.fn = "recx" /\ fr.parent = Top.parent /\ fr.at = "up"
      /\ fr.b = Top.b
  BY <1>1, <1>3 DEF FrameType
<1> HIDE DEF fr, n
<1>9. FrameOK(fr) /\ \A g \in Below : Above(fr, g)
  BY <1>1, <1>3, <1>8 DEF FrameOK, Above
<1>10. /\ Shape' /\ stack' # <<>> /\ Top' = fr
       /\ Below' = Below /\ Calls' = Below \cup {fr}
  BY <1>1, <1>8, <1>9, GotoShape DEF Inv
<1>11. TopOK'
  BY <1>1, <1>8, <1>10, TopNext
<1>12. ~Doomed /\ ~Doomed' /\ Hopeless'
  BY <1>3, <1>10 DEF Doomed, Hopeless
<1>13. Waits' = Waits
  BY <1>8, <1>10, <1>1, GotoWaits DEF Inv
<1>14. \A g \in Calls' : g.b \in ReachableFrom(heap, marked)
  BY <1>3, <1>8, <1>10 DEF Inv, Reached
<1>15. /\ Memory' /\ Chained' /\ Reached' /\ Parked' = Parked
       /\ rc' \in [Blocks -> Int] /\ rc'[Top.b] = n
       /\ \A b \in Blocks : b # Top.b => rc'[b] = rc[b]
       /\ \A q \in Todo : q \in Todo' \/ q \in TodoOf(heap, Top)
  BY <1>1, <1>7, <1>10, <1>13, <1>14, IndexStep
<1>16. Scanning' = Parked /\ Open' = Parked
  BY <1>8, <1>10, <1>15 DEF Scanning, Open
<1>17. Counts'
  <2>1. \A b \in Scanning' : count[b] >= 0 /\ rc'[b] >= 0 /\ rc'[b] \div IDX_SPAN = Capped(count[b])
    <3>1. \A b \in Parked : b # Top.b /\ b \in Blocks /\ b \in Scanning
      BY <1>4, <1>5 DEF Parked
    <3>2. QED
      BY <1>15, <1>16, <3>1 DEF Inv, Counts
  <2>2. \A b \in Blocks \ Scanning' :
          rc'[b] = count[b] \/ (count[b] >= 0 /\ rc'[b] \in Marks(count[b]))
    <3>1. ASSUME NEW b \in Blocks \ Scanning', b # Top.b
          PROVE  rc'[b] = count[b] \/ (count[b] >= 0 /\ rc'[b] \in Marks(count[b]))
      BY <1>5, <1>15, <1>16, <3>1 DEF Inv, Counts
    <3>2. QED
      BY <1>6, <1>7, <1>15, <3>1
  <2>3. /\ count \in [Blocks -> Int]
        /\ \A b \in Blocks : count[b] < 0 => \A c \in Children(heap, b) : count[c] < 0
    BY DEF Inv, Counts
  <2>4. QED
    BY <1>1, <1>15, <2>1, <2>2, <2>3 DEF Counts
<1>18. TodoOf(heap, Top) = {}
  <2>1. TodoOf(heap, Top) = From(heap, Top.b, Top.i)
    BY <1>1 DEF TodoOf
  <2>2. QED
    BY <1>1, <1>3, <1>4, <2>1, FromLast DEF Inv
<1>19. Pending'
  <2>1. Top.b \in Settled'
    BY <1>1, <1>3, <1>7, <1>15 DEF Settled
  <2>2. \A b \in Blocks : b # Top.b => (b \in Settled => b \in Settled')
                                    /\ (b \in Sharing' => b \in Sharing)
    BY <1>1, <1>15 DEF Settled, Sharing, IsShared
  <2>3. Settled \subseteq Blocks /\ Sharing' \subseteq Blocks
    BY DEF Settled, Sharing
  <2>4. Settled \cup Open \subseteq Settled' \cup Open'
    BY <1>5, <1>16, <2>1, <2>2, <2>3
  <2>5. Sharing' \cup Open' \subseteq Sharing \cup Open
    BY <1>5, <1>16, <2>2, <2>3
  <2>6. QED
    BY <1>1, <1>12, <1>15, <1>18, <2>4, <2>5, PendingKeep DEF Inv
<1>20. QED
  BY <1>10, <1>11, <1>12, <1>15, <1>17, <1>19 DEF Inv

(* Going down: the block is parked, and its field links to the parent.     *)
LEMMA KeepsRecxVisit == ASSUME Inv, RecxVisit PROVE Inv'
<1>0. stack # <<>>
  BY DEF RecxVisit, Running
<1> PICK b \in Blocks : b = Top.b
  BY <1>0, Splits DEF Inv
<1> DEFINE i == Top.i
           c == heap[b][i]
           fr == [Top EXCEPT !.at = "recurse", !.b = field[b][i], !.parent = b]
           n == SetIdx(rc[b], i + 1)
<1>1. /\ stack # <<>> /\ Top.fn = "recx" /\ Top.at = "scan" /\ i < Size(b) /\ ShouldMark(b, i)
      /\ UNCHANGED <<heap, count, marked>> /\ Goto(fr)
      /\ rc' = [rc EXCEPT ![b] = n]
      /\ field' = [field EXCEPT ![b][i] = Top.parent]
  BY DEF RecxVisit, Running, Top
<1>2. ~IsVector(b)
  BY <1>1 DEF Inv, TopOK
<1>3. /\ Calls = Below \cup {Top} /\ Top \in FrameType /\ b \in Blocks /\ FrameOK(Top)
      /\ \A g \in Below : g.fn = "rec" /\ FrameOK(g) /\ Above(Top, g) /\ g.parent = Null
  BY <1>1, <1>2, Splits, WaitsTop DEF Inv
<1>4. /\ Size(b) \in Nat /\ Size(b) < IDX_SPAN /\ DOMAIN heap[b] = 0..(Size(b) - 1)
      /\ i \in Nat /\ i \in DOMAIN heap[b]
  <2>1. /\ Size(b) \in Nat /\ Size(b) < IDX_SPAN /\ DOMAIN heap[b] = 0..(Size(b) - 1)
    BY <1>2, <1>3, Sizes DEF Inv
  <2>2. i \in Nat
    BY <1>3 DEF FrameType
  <2>3. QED
    BY <1>1, <2>1, <2>2
<1>5. /\ field[b] = heap[b] /\ c \in Children(heap, b) /\ c \in Blocks
      /\ ~IsLeaf(c) /\ ~IsShared(c) /\ c # b /\ c \notin Parked /\ b \notin Parked
  BY <1>1, <1>4, FieldVisit, TopNotParked DEF Inv, Children
<1>6. Scanning = Parked \cup {b} /\ Open = Parked \cup {b}
  BY <1>1 DEF Scanning, Open
<1>7. /\ rc[b] \in Nat /\ count[b] \in Nat /\ rc[b] \div IDX_SPAN = Capped(count[b])
      /\ Capped(count[b]) \in Nat
  <2>1. /\ rc[b] \in Nat /\ count[b] \in Nat /\ rc[b] \div IDX_SPAN = Capped(count[b])
    BY <1>3, <1>6 DEF Inv, Counts
  <2>2. QED
    BY <2>1, MarkAssumption DEF Capped
<1>8. /\ n \in Nat /\ n \div IDX_SPAN = Capped(count[b]) /\ Idx(n) = i + 1
  <2>1. i + 1 \in 0..(IDX_SPAN - 1)
    BY <1>1, <1>4, MarkAssumption
  <2>2. rc[b] \div IDX_SPAN \in Nat
    BY <1>7
  <2>3. QED
    BY <1>7, <2>1, <2>2, Indexed
<1>9. /\ fr \in FrameType /\ fr.fn = "recx" /\ fr.parent = b /\ fr.at = "recurse" /\ fr.b = c
  BY <1>1, <1>3, <1>5 DEF FrameType
<1>10. /\ field' \in [Blocks -> {field'[x] : x \in Blocks}]
       /\ field'[b] = [heap[b] EXCEPT ![i] = Top.parent]
       /\ \A x \in Blocks : x # b => field'[x] = field[x]
  BY <1>1, <1>3, <1>5 DEF Inv, Memory
<1>11. /\ rc' \in [Blocks -> Int] /\ rc'[b] = n
       /\ \A x \in Blocks : x # b => rc'[x] = rc[x]
  BY <1>1, <1>3, <1>8 DEF Inv, Counts
<1>12. Top.parent # Null => /\ Top.parent \in Parked /\ heap[Top.parent][Through(Top.parent)] = b
                            /\ Waits = {<<Top.parent, b>>}
  <2>1. Top.parent # Null => Waits = {<<Top.parent, b>>}
    BY <1>1, WaitsTop DEF Inv
  <2>2. QED
    BY <2>1, WaitsAre DEF Inv
<1>13. Top.parent = Null => Waits = {}
  BY <1>3 DEF Waits
<1> HIDE DEF fr, n, i, c
<1>14. FrameOK(fr) /\ \A g \in Below : Above(fr, g)
  BY <1>1, <1>3, <1>9 DEF FrameOK, Above
<1>15. /\ Shape' /\ stack' # <<>> /\ Top' = fr
       /\ Below' = Below /\ Calls' = Below \cup {fr}
  BY <1>1, <1>9, <1>14, GotoShape DEF Inv
<1>16. TopOK'
  BY <1>1, <1>5, <1>9, <1>11, <1>15, TopNext DEF IsShared
<1>17. ~Doomed /\ ~Doomed' /\ Hopeless'
  BY <1>3, <1>15 DEF Doomed, Hopeless
<1>18. Parked' = Parked \cup {b}
  <2>1. field'[b] # heap[b]
    <3>1. field'[b][i] = Top.parent
      BY <1>4, <1>10
    <3>2. Top.parent # c
      BY <1>5, <1>12, MarkAssumption
    <3>3. QED
      BY <3>1, <3>2 DEF c
  <2>2. \A x \in Blocks : x \in Parked' <=> field'[x] # heap[x]
    BY <1>1 DEF Parked
  <2>3. \A x \in Blocks : x \in Parked' <=> x \in Parked \cup {b}
    BY <1>10, <2>1, <2>2 DEF Parked
  <2>4. Parked' \subseteq Blocks /\ Parked \subseteq Blocks
    BY DEF Parked
  <2>5. QED
    BY <1>3, <2>3, <2>4
<1>19. Waits' = {<<b, c>>}
  <2>1. b # Null
    BY <1>3, MarkAssumption
  <2>2. QED
    BY <1>3, <1>9, <1>15, <2>1 DEF Waits
<1>20. Scanning' = Parked \cup {b} /\ Open' = Parked \cup {b}
  BY <1>9, <1>15, <1>18 DEF Scanning, Open
<1>21. Memory'
  BY <1>1, <1>10 DEF Inv, Memory
<1>22. /\ Through(b)' = i /\ Link(b)' = Top.parent
       /\ \A p \in Parked : Through(p)' = Through(p) /\ Link(p)' = Link(p) /\ p # b /\ p \in Blocks
  <2>1. Through(b)' = i
    <3>1. Idx(rc'[b]) = i + 1
      BY <1>8, <1>11
    <3>2. QED
      BY <1>4, <3>1 DEF Through, Idx
  <2>2. Link(b)' = Top.parent
    <3>1. DOMAIN field'[b] = DOMAIN heap[b] /\ field'[b][i] = Top.parent
      BY <1>4, <1>10
    <3>2. QED
      BY <1>4, <2>1, <3>1 DEF Link
  <2>3. ASSUME NEW p \in Parked PROVE p # b /\ p \in Blocks
    BY <1>5 DEF Parked
  <2>4. ASSUME NEW p \in Parked PROVE rc'[p] = rc[p] /\ field'[p] = field[p]
    BY <1>10, <1>11, <2>3
  <2>5. ASSUME NEW p \in Parked PROVE Through(p)' = Through(p) /\ Link(p)' = Link(p)
    BY <2>4 DEF Through, Link, Idx
  <2>6. QED
    BY <2>1, <2>2, <2>3, <2>5
<1>23. Chained'
  <2>1. \A w \in Waits' : w[1] \in Parked' /\ heap'[w[1]][Through(w[1])'] = w[2]
    BY <1>1, <1>18, <1>19, <1>22 DEF c
  <2>2. ASSUME NEW p \in Parked'
        PROVE  /\ ~IsVector(p)' /\ Through(p)' \in DOMAIN heap'[p]
               /\ heap'[p][Through(p)'] \in Blocks
               /\ field'[p] = [heap'[p] EXCEPT ![Through(p)'] = Link(p)']
               /\ Link(p)' \in Parked' \cup {Null}
    <3>1. CASE p = b
      <4>1. ~IsVector(p)'
        BY <1>1, <1>2, <3>1 DEF IsVector
      <4>2. QED
        BY <1>1, <1>4, <1>5, <1>10, <1>12, <1>18, <1>22, <3>1, <4>1 DEF c
    <3>2. CASE p # b
      <4>1. p \in Parked
        BY <1>18, <3>2
      <4>2. /\ ~IsVector(p) /\ Through(p) \in DOMAIN heap[p]
            /\ heap[p][Through(p)] \in Blocks
            /\ field[p] = [heap[p] EXCEPT ![Through(p)] = Link(p)]
            /\ Link(p) \in Parked \cup {Null}
        BY <4>1 DEF Inv, Chained
      <4>3. ~IsVector(p)'
        BY <1>1, <4>2 DEF IsVector
      <4>4. field'[p] = field[p]
        BY <1>10, <1>22, <4>1
      <4>5. QED
        BY <1>1, <1>18, <1>22, <4>1, <4>2, <4>3, <4>4
    <3>3. QED
      BY <3>1, <3>2
  <2>3. ASSUME NEW p \in Parked', NEW q \in Parked', Link(p)' = q
        PROVE  heap'[q][Through(q)'] = p
    <3>1. q # Null
      BY <1>3, <1>18, MarkAssumption DEF Parked
    <3>2. CASE p = b
      BY <1>1, <1>12, <1>22, <2>3, <3>1, <3>2
    <3>3. CASE p # b
      <4>1. p \in Parked /\ Link(p) = q
        BY <1>18, <1>22, <2>3, <3>3
      <4>2. q \in Parked
        BY <3>1, <4>1 DEF Inv, Chained
      <4>3. heap[q][Through(q)] = p
        BY <4>1, <4>2 DEF Inv, Chained
      <4>4. QED
        BY <1>1, <1>22, <4>2, <4>3
    <3>4. QED
      BY <3>2, <3>3
  <2>4. ASSUME NEW p \in Parked'
        PROVE  \/ \E w \in Waits' : w[1] = p
               \/ \E d \in Parked' : Link(d)' = p
    <3>1. CASE p = b
      BY <1>19, <3>1
    <3>2. CASE p # b
      <4>1. p \in Parked
        BY <1>18, <3>2
      <4>2. \/ \E w \in Waits : w[1] = p
            \/ \E d \in Parked : Link(d) = p
        BY <4>1 DEF Inv, Chained
      <4>3. ASSUME NEW w \in Waits, w[1] = p PROVE Top.parent = p
        BY <1>12, <1>13, <4>3
      <4>4. QED
        BY <1>18, <1>22, <4>2, <4>3
    <3>3. QED
      BY <3>1, <3>2
  <2>5. QED
    BY <2>1, <2>2, <2>3, <2>4 DEF Chained
<1>24. Counts'
  <2>1. \A x \in Scanning' : count[x] >= 0 /\ rc'[x] >= 0 /\ rc'[x] \div IDX_SPAN = Capped(count[x])
    <3>1. \A x \in Parked : x # b /\ x \in Blocks /\ x \in Scanning
      BY <1>6, <1>22
    <3>2. QED
      BY <1>7, <1>8, <1>11, <1>20, <3>1 DEF Inv, Counts
  <2>2. \A x \in Blocks \ Scanning' :
          rc'[x] = count[x] \/ (count[x] >= 0 /\ rc'[x] \in Marks(count[x]))
    BY <1>6, <1>11, <1>20 DEF Inv, Counts
  <2>3. /\ count \in [Blocks -> Int]
        /\ \A x \in Blocks : count[x] < 0 => \A d \in Children(heap, x) : count[d] < 0
    BY DEF Inv, Counts
  <2>4. QED
    BY <1>1, <1>11, <2>1, <2>2, <2>3 DEF Counts
<1>25. Reached'
  <2>1. b \in ReachableFrom(heap, marked)
    BY <1>3 DEF Inv, Reached
  <2>2. c \in ReachableFrom(heap, marked)
    BY <1>5, <2>1, ReachClosed
  <2>3. \A g \in Calls' : g.b \in ReachableFrom(heap, marked)
    BY <1>3, <1>9, <1>15, <2>2 DEF Inv, Reached
  <2>4. QED
    BY <1>1, <1>11, <1>18, <2>1, <2>3 DEF Inv, Reached
<1>26. \A q \in Todo : q \in Todo'
  <2>1. TodoParked \subseteq TodoParked'
    BY <1>1, <1>11, <1>18, <1>22 DEF TodoParked
  <2>2. From(heap, b, i + 1) \subseteq TodoParked'
    <3>1. Idx(rc'[b]) = i + 1 /\ b \in Parked'
      BY <1>8, <1>11, <1>18
    <3>2. From(heap, b, i + 1) \subseteq Blocks
      BY DEF From
    <3>3. QED
      BY <1>1, <3>1, <3>2 DEF TodoParked, Idx
  <2>3. c \in Todo' /\ \A q \in Todo : q \in Todo' \/ q \in TodoOf(heap, Top)
    <3>1. TodoOf(heap, fr) = {c}
      BY <1>9 DEF TodoOf
    <3>2. QED
      BY <1>1, <1>5, <1>15, <2>1, <3>1, TodoStep DEF Inv
  <2>4. TodoParked' \subseteq Todo'
    BY DEF Todo
  <2>5. TodoOf(heap, Top) = From(heap, b, i)
    BY <1>1 DEF TodoOf, i
  <2>6. \A q \in From(heap, b, i) : q = c \/ q \in From(heap, b, i + 1)
    BY <1>3, <1>4, FromNext DEF Inv, c
  <2>7. QED
    BY <2>2, <2>3, <2>4, <2>5, <2>6
<1>27. Pending'
  <2>1. \A x \in Blocks : x # b => (x \in Settled => x \in Settled')
                                /\ (x \in Sharing' => x \in Sharing)
    BY <1>1, <1>11 DEF Settled, Sharing, IsShared
  <2>2. Settled \subseteq Blocks /\ Sharing' \subseteq Blocks
    BY DEF Settled, Sharing
  <2>3. Settled \cup Open \subseteq Settled' \cup Open'
    BY <1>6, <1>20, <2>1, <2>2
  <2>4. Sharing' \cup Open' \subseteq Sharing \cup Open
    BY <1>6, <1>20, <2>1, <2>2
  <2>5. QED
    BY <1>1, <1>17, <1>26, <2>3, <2>4, PendingKeep DEF Inv
<1>28. QED
  BY <1>15, <1>16, <1>17, <1>21, <1>23, <1>24, <1>25, <1>27 DEF Inv

(* Going back up: the field of the parent is restored.                     *)
LEMMA KeepsUpReturn ==
  ASSUME Inv, RecxUp, Top.parent = Null
  PROVE  Inv'
<1>1. /\ stack # <<>> /\ Top.fn = "recx" /\ Top.at = "up" /\ Return
      /\ UNCHANGED <<heap, count, field, rc, marked>>
  BY DEF RecxUp, Running, Top
<1>2. ~Doomed
  BY <1>1, HopelessIs
<1>3. /\ Shape' /\ TopOK' /\ Hopeless' /\ ~Doomed' /\ Waits' = Waits /\ Calls' = Below
      /\ stack' # <<>> => Top'.at # "scan" /\ Top'.fn # "recx_large"
  BY <1>1, <1>2, ReturnTop DEF Inv
<1>4. Scanning = Parked /\ Open = Parked /\ Scanning' = Parked /\ Open' = Parked
  BY <1>1, <1>3 DEF Scanning, Open, Parked
<1>5. Calls = Below \cup {Top}
  BY <1>1, Splits DEF Inv
<1>6. \A g \in Calls' : g.b \in ReachableFrom(heap, marked)
  BY <1>3, <1>5 DEF Inv, Reached
<1>7. /\ Memory' /\ Chained' /\ Counts' /\ Reached'
      /\ Settled \subseteq Settled' /\ Sharing' = Sharing
      /\ \A q \in Todo : q \in Todo' \/ q \in TodoOf(heap, Top)
  BY <1>1, <1>3, <1>4, <1>6, QuietStep
<1>8. TodoOf(heap, Top) = {}
  BY <1>1 DEF TodoOf
<1>9. Pending'
  BY <1>1, <1>2, <1>4, <1>7, <1>8, PendingKeep DEF Inv
<1>10. QED
  BY <1>3, <1>7, <1>9 DEF Inv

LEMMA KeepsUpRestore ==
  ASSUME Inv, RecxUp, Top.parent # Null
  PROVE  Inv'
<1>0. stack # <<>> /\ Top.fn = "recx" /\ Top.at = "up"
  BY DEF RecxUp, Running, Top
<1> PICK b \in Blocks : b = Top.b
  BY <1>0, Splits DEF Inv
<1>1. /\ Top.parent \in Parked /\ heap[Top.parent][Through(Top.parent)] = b
      /\ Waits = {<<Top.parent, b>>}
  <2>1. Waits = {<<Top.parent, b>>}
    BY <1>0, WaitsTop DEF Inv
  <2>2. QED
    BY <2>1, WaitsAre DEF Inv
<1> PICK p \in Blocks : p = Top.parent
  BY <1>1 DEF Parked
<1> PICK q \in Parked \cup {Null} : q = Link(p)
  BY <1>1 DEF Inv, Chained
<1> DEFINE i == Idx(rc[p])
           t == Through(p)
           fr == [Top EXCEPT !.at = "scan", !.b = p, !.i = i, !.parent = field[p][i-1]]
<1>2. /\ UNCHANGED <<heap, count, rc, marked>> /\ Goto(fr)
      /\ field' = [field EXCEPT ![p][i-1] = b]
  BY DEF RecxUp
<1>3. /\ Calls = Below \cup {Top} /\ Top \in FrameType /\ FrameOK(Top)
      /\ \A g \in Below : g.fn = "rec" /\ FrameOK(g) /\ Above(Top, g) /\ g.parent = Null
  BY <1>0, Splits, WaitsTop DEF Inv
<1>4. p # Null /\ p \in Parked /\ heap[p][t] = b /\ b \notin Parked /\ b # p
  BY <1>0, <1>1, TopNotParked DEF Inv
<1>5. /\ ~IsVector(p) /\ t \in DOMAIN heap[p] /\ heap[p][t] \in Blocks
      /\ field[p] = [heap[p] EXCEPT ![t] = q]
      /\ q \in Parked \cup {Null}
      /\ \A r \in Parked : q = r => heap[r][Through(r)] = p
  BY <1>4 DEF Inv, Chained
<1>6. /\ Size(p) \in Nat /\ DOMAIN heap[p] = 0..(Size(p) - 1)
  BY Sizes DEF Inv
<1>7. i \in Int /\ t = i - 1 /\ i \in Nat /\ i <= Size(p)
  <2>1. rc[p] \in Int /\ IDX_SPAN \in Nat \ {0}
    BY MarkAssumption DEF Inv, Counts
  <2>2. i \in Int /\ t = i - 1
    BY <2>1 DEF Idx, Through
  <2>3. QED
    BY <1>5, <1>6, <2>2
<1>8. field[p][i - 1] = q
  BY <1>5, <1>7
<1>9. q # Null => q # p
  <2>1. ASSUME q = p PROVE FALSE
    <3>1. p \in Children(heap, p)
      BY <1>4, <1>5, <2>1 DEF Children
    <3>2. p \in ReachableFrom(heap, {p})
      BY ReachContains
    <3>3. QED
      BY <3>1, <3>2, NoCycle DEF Inv, Memory
  <2>2. QED
    BY <2>1
<1>10. /\ fr \in FrameType /\ fr.fn = "recx" /\ fr.parent = q /\ fr.at = "scan" /\ fr.b = p
       /\ fr.i = i
  <2>1. q \in Blocks \cup {Null}
    BY <1>5 DEF Parked
  <2>2. QED
    BY <1>0, <1>3, <1>7, <1>8, <2>1 DEF FrameType
<1>11. /\ field' \in [Blocks -> {field'[x] : x \in Blocks}]
       /\ field'[p] = heap[p]
       /\ \A x \in Blocks : x # p => field'[x] = field[x]
  <2>1. field \in [Blocks -> {field[x] : x \in Blocks}]
    BY DEF Inv, Memory
  <2>2. field'[p] = [field[p] EXCEPT ![t] = b]
    BY <1>2, <1>7, <2>1
  <2>3. heap[p] = [heap[p] EXCEPT ![t] = b]
    <3>1. heap[p] \in [DOMAIN heap[p] -> Blocks \cup {Val, Length}]
      BY DEF Inv, Memory, Wellformed
    <3>2. QED
      BY <1>4, <1>5, <3>1
  <2>4. field'[p] = heap[p]
    BY <1>5, <2>2, <2>3
  <2>5. QED
    BY <1>2, <2>1, <2>4
<1> HIDE DEF fr, i, t
<1>12. FrameOK(fr) /\ \A g \in Below : Above(fr, g)
  BY <1>3, <1>10 DEF FrameOK, Above
<1>13. /\ Shape' /\ stack' # <<>> /\ Top' = fr
       /\ Below' = Below /\ Calls' = Below \cup {fr}
  BY <1>0, <1>2, <1>10, <1>12, GotoShape DEF Inv
<1>14. TopOK'
  BY <1>2, <1>5, <1>7, <1>10, <1>13, TopNext
<1>15. ~Doomed /\ ~Doomed' /\ Hopeless'
  BY <1>3, <1>13 DEF Doomed, Hopeless
<1>16. Parked' = Parked \ {p}
  <2>1. \A x \in Blocks : x \in Parked' <=> x \in Parked \ {p}
    BY <1>2, <1>11 DEF Parked
  <2>2. Parked' \subseteq Blocks /\ Parked \subseteq Blocks
    BY DEF Parked
  <2>3. QED
    BY <2>1, <2>2
<1>17. Waits' = IF q = Null THEN {} ELSE {<<q, p>>}
  BY <1>3, <1>10, <1>13 DEF Waits
<1>18. Scanning = Parked /\ Open = Parked /\ Scanning' = Parked /\ Open' = Parked
  BY <1>0, <1>4, <1>10, <1>13, <1>16 DEF Scanning, Open
<1>19. Memory'
  BY <1>2, <1>11 DEF Inv, Memory
<1>20. \A r \in Parked' : /\ Through(r)' = Through(r) /\ Link(r)' = Link(r)
                          /\ r # p /\ r \in Parked /\ r \in Blocks /\ field'[r] = field[r]
  <2>1. \A r \in Parked' : r # p /\ r \in Parked /\ r \in Blocks
    BY <1>16 DEF Parked
  <2>2. ASSUME NEW r \in Parked'
        PROVE  Through(r)' = Through(r) /\ Link(r)' = Link(r) /\ field'[r] = field[r]
    <3>1. field'[r] = field[r]
      BY <1>11, <2>1
    <3>2. QED
      BY <1>2, <3>1 DEF Through, Link, Idx
  <2>3. QED
    BY <2>1, <2>2
<1>21. Chained'
  <2>1. \A w \in Waits' : w[1] \in Parked' /\ heap'[w[1]][Through(w[1])'] = w[2]
    <3>1. ASSUME q # Null PROVE q \in Parked' /\ heap'[q][Through(q)'] = p
      <4>1. q \in Parked /\ q # p /\ heap[q][Through(q)] = p
        BY <1>5, <1>9, <3>1
      <4>2. q \in Parked'
        BY <1>16, <4>1
      <4>3. Through(q)' = Through(q)
        BY <1>20, <4>2
      <4>4. QED
        BY <1>2, <4>1, <4>2, <4>3
    <3>2. QED
      BY <1>17, <3>1
  <2>2. ASSUME NEW r \in Parked'
        PROVE  /\ ~IsVector(r)' /\ Through(r)' \in DOMAIN heap'[r]
               /\ heap'[r][Through(r)'] \in Blocks
               /\ field'[r] = [heap'[r] EXCEPT ![Through(r)'] = Link(r)']
               /\ Link(r)' \in Parked' \cup {Null}
    <3>1. /\ ~IsVector(r) /\ Through(r) \in DOMAIN heap[r]
          /\ heap[r][Through(r)] \in Blocks
          /\ field[r] = [heap[r] EXCEPT ![Through(r)] = Link(r)]
          /\ Link(r) \in Parked \cup {Null}
      BY <1>20 DEF Inv, Chained
    <3>2. ~IsVector(r)'
      BY <1>2, <3>1 DEF IsVector
    <3>3. Link(r) # p
      <4>1. Link(r) = p => heap[p][Through(p)] = r
        BY <1>4, <1>20 DEF Inv, Chained
      <4>2. r # b
        BY <1>4, <1>20
      <4>3. QED
        BY <1>4, <4>1, <4>2 DEF t
    <3>4. QED
      BY <1>2, <1>16, <1>20, <3>1, <3>2, <3>3
  <2>3. ASSUME NEW r \in Parked', NEW s \in Parked', Link(r)' = s
        PROVE  heap'[s][Through(s)'] = r
    <3>1. r \in Parked /\ s \in Parked /\ Link(r) = s
      BY <1>20, <2>3
    <3>2. heap[s][Through(s)] = r
      BY <3>1 DEF Inv, Chained
    <3>3. QED
      BY <1>2, <1>20, <3>2
  <2>4. ASSUME NEW r \in Parked'
        PROVE  \/ \E w \in Waits' : w[1] = r
               \/ \E d \in Parked' : Link(d)' = r
    <3>1. r \in Parked /\ r # p /\ r # Null
      BY <1>20, MarkAssumption
    <3>2. PICK d \in Parked : Link(d) = r
      <4>1. \/ \E w \in Waits : w[1] = r
            \/ \E d \in Parked : Link(d) = r
        BY <3>1 DEF Inv, Chained
      <4>2. QED
        BY <1>1, <3>1, <4>1
    <3>3. CASE d = p
      <4>1. q = r
        BY <3>2, <3>3
      <4>2. <<q, p>> \in Waits'
        BY <1>17, <3>1, <4>1
      <4>3. QED
        BY <4>1, <4>2
    <3>4. CASE d # p
      BY <1>16, <1>20, <3>2, <3>4
    <3>5. QED
      BY <3>3, <3>4
  <2>5. QED
    BY <2>1, <2>2, <2>3, <2>4 DEF Chained
<1>22. Counts'
  BY <1>2, <1>18 DEF Inv, Counts
<1>23. Reached'
  <2>1. \A g \in Calls' : g.b \in ReachableFrom(heap, marked)
    BY <1>3, <1>4, <1>10, <1>13 DEF Inv, Reached
  <2>2. QED
    BY <1>2, <1>16, <2>1 DEF Inv, Reached
<1>24. \A y \in Todo : y \in Todo'
  <2>1. TodoOf(heap, Top) = {}
    BY <1>0 DEF TodoOf
  <2>2. TodoOf(heap, fr) = From(heap, p, i)
    BY <1>10 DEF TodoOf
  <2>3. ASSUME NEW y \in Todo PROVE y \in Blocks /\ ((\E g \in Below : y \in TodoOf(heap, g)) \/ y \in TodoParked)
    BY <1>3, <2>1 DEF Todo, TodoParked
  <2>4. Todo' = {y \in Blocks : \E g \in Calls' : y \in TodoOf(heap, g)} \cup TodoParked'
    BY <1>2 DEF Todo
  <2>5. ASSUME NEW y \in TodoParked PROVE y \in TodoParked' \/ y \in From(heap, p, i)
    <3>1. PICK r \in Parked : y \in From(heap, r, Idx(rc[r])) /\ y \in Blocks
      BY DEF TodoParked
    <3>2. CASE r = p
      BY <3>1, <3>2 DEF i
    <3>3. CASE r # p
      BY <1>2, <1>16, <3>1, <3>3 DEF TodoParked, Idx
    <3>4. QED
      BY <3>2, <3>3
  <2>6. QED
    BY <1>13, <2>2, <2>3, <2>4, <2>5
<1>25. Pending'
  <2>1. Settled' = Settled /\ Sharing' = Sharing
    BY <1>2 DEF Settled, Sharing, IsShared
  <2>2. QED
    BY <1>2, <1>15, <1>18, <1>24, <2>1, PendingKeep DEF Inv
<1>26. QED
  BY <1>13, <1>14, <1>15, <1>19, <1>21, <1>22, <1>23, <1>25 DEF Inv

LEMMA KeepsRecxUp == ASSUME Inv, RecxUp PROVE Inv'
BY KeepsUpReturn, KeepsUpRestore

-----------------------------------------------------------------------------
(* kk_block_mark_shared                                                    *)
LEMMA EmptyStack ==
  stack = <<>> => /\ Shape /\ TopOK /\ ~Doomed /\ Hopeless /\ Calls = {} /\ Below = {}
                  /\ Waits = {} /\ Scanning = Parked /\ Open = Parked
<1> SUFFICES ASSUME stack = <<>>
             PROVE  /\ Shape /\ TopOK /\ ~Doomed /\ Hopeless /\ Calls = {} /\ Below = {}
                    /\ Waits = {} /\ Scanning = Parked /\ Open = Parked
  OBVIOUS
<1>1. Height = 0
  BY DEF Height
<1>2. stack \in Seq(FrameType)
  OBVIOUS
<1>3. Calls = {} /\ Below = {} /\ DOMAIN tower = {}
  <2>1. 1..Height = {} /\ 1..(Height - 1) = {}
    BY <1>1
  <2>2. DOMAIN tower = {}
    BY <2>1 DEF tower
  <2>3. QED
    BY <2>1, <2>2 DEF Calls, Below
<1>4. Shape
  BY <1>2, <1>3 DEF Shape, Ordered
<1>5. ~Doomed /\ Waits = {}
  BY <1>3 DEF Doomed, Waits
<1>6. Scanning = Parked /\ Open = Parked
  BY DEF Scanning, Open
<1>7. QED
  BY <1>3, <1>4, <1>5, <1>6 DEF TopOK, Hopeless

LEMMA FirstCall ==
  ASSUME UNCHANGED heap, NEW b \in Blocks, ~IsLeaf(b), stack' = <<Rec(b, 0)>>
  PROVE  /\ Shape' /\ TopOK' /\ ~Doomed' /\ Hopeless' /\ Waits' = {}
         /\ Calls' = {Rec(b, 0)} /\ Scanning' = Parked' /\ Open' = Parked'
<1> DEFINE fr == Rec(b, 0)
<1>1. /\ fr \in FrameType /\ fr.fn = "rec" /\ fr.at = "loop" /\ fr.b = b /\ fr.parent = Null
  BY DEF Rec, FrameType
<1> HIDE DEF fr
<1>2. stack' = <<fr>>
  BY DEF fr
<1>3. stack' \in Seq(FrameType) /\ stack' # <<>> /\ Len(stack') = 1 /\ stack'[1] = fr
  BY <1>1, <1>2
<1>4. Height' = 1 /\ Top' = fr
  BY <1>3 DEF Height, Top
<1>5. DOMAIN tower' = 1..Height' /\ tower'[1] = fr
  <2>1. tower' = [h \in 1..1 |-> stack'[1 + 1 - h]]
    BY <1>4 DEF tower
  <2>2. QED
    BY <1>3, <1>4, <2>1
<1>6. 1..Height' = {1} /\ 1..(Height' - 1) = {}
  BY <1>4
<1>7. Calls' = {fr} /\ Below' = {}
  <2> HIDE DEF Height, tower
  <2>1. Calls' = {tower'[h] : h \in {1}} /\ Below' = {}
    BY <1>6 DEF Calls, Below
  <2>2. QED
    BY <1>5, <2>1
<1>8. FrameOK(fr)
  BY <1>1 DEF FrameOK
<1>9. Ordered'
  <2> HIDE DEF Height, tower
  <2>1. \A g, h \in 1..Height' : ~(g < h)
    BY <1>4
  <2>2. \A h \in 1..Height' : tower'[h].fn # "recx_large"
    BY <1>1, <1>5, <1>6
  <2>3. QED
    BY <1>4, <1>5, <2>1, <2>2, OrderedNext
<1>10. Shape'
  BY <1>3, <1>7, <1>8, <1>9, FramesNext
<1>11. TopOK'
  BY <1>1, <1>4, TopNext
<1>12. ~Doomed' /\ Hopeless' /\ Waits' = {}
  BY <1>1, <1>7 DEF Doomed, Hopeless, Waits
<1>13. Scanning' = Parked' /\ Open' = Parked'
  BY <1>1, <1>4 DEF Scanning, Open
<1>14. QED
  BY <1>7, <1>10, <1>11, <1>12, <1>13 DEF fr

LEMMA KeepsMark == ASSUME Inv, NEW b \in Entries, Mark(b) PROVE Inv'
<1>1. /\ stack = <<>> /\ b \in Blocks
      /\ marked' = marked \cup {b} /\ UNCHANGED <<heap, count, field>>
      /\ \/ IsShared(b) /\ UNCHANGED <<rc, stack>>
         \/ ~IsShared(b) /\ IsLeaf(b) /\ rc' = [rc EXCEPT ![b] = SharedCount(@)] /\ UNCHANGED stack
         \/ ~IsShared(b) /\ ~IsLeaf(b) /\ stack' = <<Rec(b, 0)>> /\ UNCHANGED rc
  BY MarkAssumption DEF Mark
<1>2. /\ ~Doomed /\ Calls = {} /\ Below = {} /\ Waits = {}
      /\ Scanning = Parked /\ Open = Parked
  BY <1>1, EmptyStack
<1>3. Parked = {} /\ Parked' = {}
  <2>1. Parked = {}
    BY <1>2, ParkedEmpty DEF Inv
  <2>2. QED
    BY <1>1, <2>1 DEF Parked
<1>4. TodoParked = {} /\ Todo = {}
  BY <1>2, <1>3 DEF TodoParked, Todo
<1>5. marked \subseteq marked' /\ marked' \subseteq Blocks /\ b \in ReachableFrom(heap, marked')
  BY <1>1, ReachContains DEF Inv, Memory
<1>6. ASSUME stack' = <<>>
      PROVE  /\ Shape' /\ TopOK' /\ Hopeless' /\ Calls' = {} /\ Waits' = {}
             /\ Scanning' = {} /\ Open' = {}
  <2>1. (stack = <<>>)'
    BY <1>6
  <2>2. (/\ Shape /\ TopOK /\ ~Doomed /\ Hopeless /\ Calls = {} /\ Below = {}
         /\ Waits = {} /\ Scanning = Parked /\ Open = Parked)'
    BY <2>1, EmptyStack, PTL
  <2>3. QED
    BY <1>3, <2>2
<1>7. CASE IsShared(b) /\ UNCHANGED <<rc, stack>>
  <2>1. SharedBy({})
    BY <1>7, NoneShared DEF Inv
  <2>2. /\ Shape' /\ TopOK' /\ Hopeless' /\ Calls' = {} /\ Waits' = {}
        /\ Scanning' = {} /\ Open' = {}
    BY <1>1, <1>6, <1>7
  <2>3. /\ Memory' /\ Chained' /\ Counts' /\ Reached' /\ Settled \subseteq Settled'
        /\ Sharing' \subseteq Sharing
    BY <1>1, <1>2, <1>3, <1>5, <2>1, <2>2, VisitStep DEF Inv
  <2>4. b \in Sharing
    BY <1>1, <1>7 DEF Sharing
  <2>5. Pending'
    BY <1>1, <1>2, <1>3, <1>4, <2>2, <2>3, <2>4, PendingKeep DEF Inv
  <2>6. QED
    BY <2>2, <2>3, <2>5 DEF Inv
<1>8. CASE /\ ~IsShared(b) /\ IsLeaf(b) /\ UNCHANGED stack
           /\ rc' = [rc EXCEPT ![b] = SharedCount(@)]
  <2> DEFINE V == {b}
  <2>1. SharedBy(V) /\ V \in SUBSET Blocks
    BY <1>1, <1>8, OneShared DEF Inv
  <2>2. /\ Shape' /\ TopOK' /\ Hopeless' /\ Calls' = {} /\ Waits' = {}
        /\ Scanning' = {} /\ Open' = {}
    BY <1>1, <1>6, <1>8
  <2>3. \A v \in V : v \notin Scanning /\ ~IsShared(v) /\ v \in ReachableFrom(heap, marked')
    BY <1>2, <1>3, <1>5, <1>8
  <2>4. Children(heap, b) = {}
    <3>1. Size(b) = 0 /\ DOMAIN heap[b] = 0..(Size(b) - 1)
      BY <1>1, <1>8, Sizes DEF Inv
    <3>2. DOMAIN heap[b] = {}
      BY <3>1
    <3>3. QED
      BY <3>2 DEF Children
  <2>5. (\A v \in V : v = Null \/ Children(heap, v) = {}) /\ Null \notin V /\ b \in V
    BY <1>1, <2>4, MarkAssumption
  <2> HIDE DEF V
  <2>6. /\ Memory' /\ Chained' /\ Counts' /\ Reached'
        /\ V \subseteq Settled' /\ Settled \subseteq Settled'
        /\ Sharing' \subseteq Sharing \cup V
    BY <1>1, <1>2, <1>3, <1>5, <2>1, <2>2, <2>3, VisitStep DEF Inv
  <2>7. Pending'
    BY <1>1, <1>2, <1>3, <1>4, <2>1, <2>2, <2>5, <2>6, PendingStep DEF Inv
  <2>8. QED
    BY <2>2, <2>6, <2>7 DEF Inv
<1>9. CASE ~IsShared(b) /\ ~IsLeaf(b) /\ stack' = <<Rec(b, 0)>> /\ UNCHANGED rc
  <2>1. /\ Shape' /\ TopOK' /\ ~Doomed' /\ Hopeless' /\ Waits' = {}
        /\ Calls' = {Rec(b, 0)} /\ Scanning' = {} /\ Open' = {}
    BY <1>1, <1>3, <1>9, FirstCall
  <2>2. SharedBy({})
    BY <1>9, NoneShared DEF Inv
  <2>3. Rec(b, 0).b = b /\ TodoOf(heap, Rec(b, 0)) = {b}
    BY DEF Rec, TodoOf
  <2>4. /\ Memory' /\ Chained' /\ Counts' /\ Reached' /\ Settled \subseteq Settled'
        /\ Sharing' \subseteq Sharing
    BY <1>1, <1>2, <1>3, <1>5, <2>1, <2>2, <2>3, VisitStep DEF Inv
  <2>5. b \in Todo'
    BY <1>1, <2>1, <2>3 DEF Todo
  <2>6. Pending'
    BY <1>1, <1>2, <1>3, <1>4, <2>1, <2>4, <2>5, PendingKeep DEF Inv
  <2>7. QED
    BY <2>1, <2>4, <2>6 DEF Inv
<1>10. QED
  BY <1>1, <1>7, <1>8, <1>9

-----------------------------------------------------------------------------
(* The initial state.                                                      *)
LEMMA StartCounts ==
  ASSUME Init
  PROVE  /\ count \in [Blocks -> Int]
         /\ \A b \in Blocks : count[b] < 0 => \A c \in Children(heap, b) : count[c] < 0
<1>1. Wellformed(heap)
  BY MarkAssumption DEF Init
<1>2. ASSUME NEW b \in Blocks PROVE Cardinality(RefsTo(b)) \in Int
  <2>1. IsFiniteSet(Blocks \X Slots)
    BY MarkAssumption, FS_Product
  <2>2. RefsTo(b) \subseteq Blocks \X Slots
    BY DEF RefsTo
  <2>3. QED
    BY <2>1, <2>2, FS_Subset, FS_CardinalityType
<1>3. STUCK \in Int
  BY MarkAssumption DEF STUCK, RC_MAX
<1>4. count \in [Blocks -> Int]
  BY <1>2, <1>3, MarkAssumption DEF Init
<1>5. ASSUME NEW b \in Blocks, count[b] < 0, NEW c \in Children(heap, b)
      PROVE  count[c] < 0
  <2>1. c \in Blocks /\ \E i \in DOMAIN heap[b] : c = heap[b][i]
    BY DEF Children
  <2>2. PICK i \in DOMAIN heap[b] : heap[b][i] = c
    BY <2>1
  <2>3. i \in Slots
    <3>1. PICK n \in 0..Cardinality(Slots) : DOMAIN heap[b] = 0..(n - 1)
      BY <1>1 DEF Wellformed
    <3>2. Cardinality(Slots) \in Nat /\ Slots = 0..(Cardinality(Slots) - 1)
      BY FS_CardinalityType, MarkAssumption
    <3>3. i \in 0..(Cardinality(Slots) - 1)
      BY <3>1, <3>2
    <3>4. QED
      BY <3>2, <3>3
  <2>4. <<b, i>> \in RefsTo(c) /\ <<b, i>>[1] = b
    BY <2>2, <2>3 DEF RefsTo
  <2>5. count[b] = STUCK
    BY <1>4, <1>5 DEF Init
  <2>6. count[c] = STUCK
    BY <2>1, <2>4, <2>5 DEF Init
  <2>7. QED
    BY <1>5, <2>5, <2>6
<1>6. QED
  BY <1>4, <1>5

LEMMA StartInv == Init => Inv
<1> SUFFICES ASSUME Init PROVE Inv
  OBVIOUS
<1>1. /\ heap \in Heaps /\ field = heap /\ rc = count
      /\ marked = {} /\ stack = <<>>
  BY DEF Init
<1>2. /\ Shape /\ TopOK /\ ~Doomed /\ Hopeless /\ Calls = {} /\ Waits = {}
      /\ Scanning = Parked /\ Open = Parked
  BY <1>1, EmptyStack
<1>3. Parked = {}
  BY <1>1 DEF Parked
<1>4. Memory
  BY <1>1, MarkAssumption DEF Memory, Wellformed
<1>5. Chained
  BY <1>2, <1>3 DEF Chained
<1>6. Counts
  BY <1>1, <1>2, <1>3, StartCounts DEF Counts
<1>7. Reached
  BY <1>1, <1>2, <1>3 DEF Reached
<1>8. Pending
  <2> DEFINE S == {b \in Blocks : count[b] < 0}
  <2>1. Started = S
    BY <1>1, <1>2, <1>3 DEF Started, Sharing, IsShared
  <2>2. \A p \in S : Children(heap, p) \subseteq S
    BY <1>6 DEF Counts, Children
  <2>3. ASSUME NEW x \in S PROVE ReachableFrom(heap, {x}) \subseteq S
    BY <2>2, ReachLeast
  <2>4. S \subseteq Settled
    BY <1>6 DEF Settled, Counts
  <2>5. QED
    BY <2>1, <2>3, <2>4 DEF Pending
<1>9. QED
  BY <1>2, <1>4, <1>5, <1>6, <1>7, <1>8 DEF Inv

-----------------------------------------------------------------------------
(* The invariant holds in every state that kk_block_mark_shared and the    *)
(* functions it calls go through.                                          *)
THEOREM MarkInvariance == Spec => []Inv
<1>1. Inv /\ [Next]_vars => Inv'
  <2> SUFFICES ASSUME Inv, [Next]_vars PROVE Inv'
    OBVIOUS
  <2>1. CASE UNCHANGED vars
    BY <2>1, Stutter DEF vars, Untouched
  <2>2. CASE Step
    BY <2>2, KeepsRecOneField, KeepsRecManyFields, KeepsRecField, KeepsRecReturn,
       KeepsRecxEnter, KeepsRecxRecurse, KeepsRecxVisit, KeepsRecxSkip, KeepsRecxScanned,
       KeepsRecxUp, KeepsLargeField, KeepsLargeScanned DEF Step
  <2>3. ASSUME NEW b \in Entries, Mark(b) PROVE Inv'
    BY <2>3, KeepsMark
  <2>4. QED
    BY <2>1, <2>2, <2>3 DEF Next
<1>2. QED
  BY <1>1, StartInv, PTL DEF Spec

(* While blocks are marked, in refcount.c by pointer reversal, the parent  *)
(* chain leads back to every field that holds a link.                      *)
THEOREM MarkReverses == Spec => []ReversalConsistent
<1>1. Inv => ReversalConsistent
  BY ReversalSafe DEF Inv
<1>2. QED
  BY <1>1, MarkInvariance, PTL

(* When there is no call, nothing is parked and nothing is left to visit.  *)
LEMMA IdleExact == Inv => MarkedExactly
<1> SUFFICES ASSUME Inv, Idle PROVE MarkedExactly
  BY DEF MarkedExactly
<1>1. /\ ~Doomed /\ Calls = {} /\ Waits = {} /\ Scanning = Parked /\ Open = Parked
  BY EmptyStack DEF Idle
<1>2. Parked = {}
  BY <1>1, ParkedEmpty DEF Inv
<1>3. Todo = {} /\ Open = {} /\ Scanning = {}
  BY <1>1, <1>2 DEF Todo, TodoParked
<1>4. ASSUME NEW b \in ReachableFrom(heap, marked) PROVE b \in Settled
  <2>1. marked \in SUBSET Blocks
    BY DEF Inv, Memory
  <2>2. PICK x \in marked : b \in ReachableFrom(heap, {x})
    BY <2>1, ReachUnion
  <2>3. x \in Started
    BY <2>2 DEF Started
  <2>4. QED
    BY <1>1, <1>3, <2>2, <2>3 DEF Inv, Pending
<1>5. \A b \in Blocks : b \in ReachableFrom(heap, marked) /\ count[b] >= 0 =>
        \/ rc[b] = SharedCount(count[b])
        \/ rc[b] = RC_STICKY /\ count[b] >= KK_RC_MARK_MAX
  BY <1>4 DEF Settled, Marks
<1>6. \A b \in Blocks : ~(b \in ReachableFrom(heap, marked) /\ count[b] >= 0) => rc[b] = count[b]
  BY <1>3 DEF Inv, Counts, Reached
<1>7. QED
  BY <1>5, <1>6 DEF MarkedExactly

(* When kk_block_mark_shared returns, exactly what can be reached from the *)
(* marked blocks is shared, with the counts that it had.                   *)
THEOREM MarkExact == Spec => []MarkedExactly
BY IdleExact, MarkInvariance, PTL
=============================================================================
