--------------------------- MODULE DropFreeProofs ---------------------------
(***************************************************************************)
(* Proofs about DropFree for heaps of any size and shape, cycles and       *)
(* sharing included: no freed block is used, the C stack is bounded by the *)
(* large vectors on it, and every step is one of RecursiveDrop or changes  *)
(* nothing there.                                                          *)
(*                                                                         *)
(* Two invariants are carried together.  Structure says how the frames and *)
(* the parked blocks hang together; that a block which starts dying is in  *)
(* none of them yet follows from the counts, that is from the invariant of *)
(* RecursiveDrop, which holds here because of the step that Structure lets *)
(* each action take there.                                                 *)
(***************************************************************************)
EXTENDS DropFree, FiniteSetTheorems, TLAPS

Fields == Blocks \X Slots

FrameType ==
  [fn: {"drop_free", "fast_drop_free", "recx", "large_rec"},
   at: {"start", "one", "down", "scan", "child", "up"},
   b: Blocks, parent: Blocks \cup {Null}, i: Nat]

(* The C stack by height, the outermost frame first.                       *)
Height == Len(stack)
tower  == [h \in 1..Height |-> stack[Height + 1 - h]]

(* A frame that still has fields of its block to release, from From on.    *)
Active(fr) == fr.fn # "drop_free" /\ fr.at # "up"
From(fr)   == IF fr.at \in {"scan", "child"} THEN fr.i ELSE 0

(* The blocks in frames, and those in the parent chains.                   *)
Held   == {b \in Blocks : \E h \in DOMAIN tower : Active(tower[h]) /\ tower[h].b = b}
Parked == {b \in Blocks : frees[b] = 0 /\ idx[b] > 0 /\ b \notin Held}

Places ==
  [drop_free      |-> {"child"},
   fast_drop_free |-> {"start", "one"},
   recx           |-> {"down", "scan", "child", "up"},
   large_rec      |-> {"scan", "child"}]

(* recx and large_rec take turns on the C stack, with a drop_free or recx  *)
(* outermost; fast_drop_free is innermost, and whoever called it waits.    *)
Nested ==
  \A h \in DOMAIN tower :
    /\ tower[h].fn = "fast_drop_free" => h = Height /\ h > 1 /\ tower[h - 1].at = "child"
    /\ tower[h].fn = "large_rec" => h % 2 = 0
    /\ tower[h].fn = "recx" => h % 2 = 1
    /\ tower[h].fn = "drop_free" => h = 1

FrameOK(fr) ==
  /\ fr.at \in Places[fr.fn]
  /\ fr.fn # "recx" => fr.parent = Null
  /\ Active(fr) =>
       /\ frees[fr.b] = 0
       /\ fr.at \in {"start", "one", "down"} => idx[fr.b] = 0
       /\ fr.at \in {"scan", "child"} => idx[fr.b] <= fr.i
       /\ fr.at = "child" => fr.i > 0
       /\ fr.fn = "large_rec" => idx[fr.b] = 0
       /\ fr.fn = "recx" /\ idx[fr.b] > 0 => field[fr.b][0] = fr.parent

(* Each frame is in order, and no two are about the same block.            *)
FramesOK ==
  /\ stack \in Seq(FrameType)
  /\ \A h \in DOMAIN tower : FrameOK(tower[h])
  /\ \A g, h \in DOMAIN tower :
       Active(tower[g]) /\ Active(tower[h]) /\ tower[g].b = tower[h].b => g = h

(* A result is on its way to the frame that called.                        *)
Result ==
  /\ ret \in Blocks \cup {Null}
  /\ ret # Null =>
       /\ stack # <<>> /\ Top.at \in {"child", "one"}
       /\ frees[ret] = 0 /\ idx[ret] = 0 /\ ret \notin Held

(* A parked block is the parent of one frame, or of one parked block.      *)
Chained ==
  /\ \A h \in DOMAIN tower : tower[h].parent \in Parked \cup {Null}
  /\ \A p \in Parked : field[p][0] \in Parked \cup {Null}
  /\ \A g, h \in DOMAIN tower :
       tower[g].parent = tower[h].parent /\ tower[g].parent # Null => g = h
  /\ \A h \in DOMAIN tower, p \in Parked :
       tower[h].parent = field[p][0] => tower[h].parent = Null
  /\ \A p, q \in Parked : field[p][0] = field[q][0] /\ field[p][0] # Null => p = q

(* Only field 0 of a block that is or was parked has changed; no block is  *)
(* freed twice.                                                            *)
Memory ==
  /\ Wellformed(heap)
  /\ field \in [Blocks -> {field[b] : b \in Blocks}]
  /\ idx \in [Blocks -> Nat]
  /\ frees \in [Blocks -> {0, 1}]
  /\ \A b \in Blocks :
       /\ idx[b] <= Size(b)
       /\ field[b] = [i \in DOMAIN heap[b] |-> field[b][i]]
       /\ \A i \in DOMAIN heap[b] : i > 0 \/ idx[b] = 0 => field[b][i] = heap[b][i]

Structure == Memory /\ FramesOK /\ Nested /\ Result /\ Chained

-----------------------------------------------------------------------------
(* A block has the fields 0..Size-1; only a large vector has the header of *)
(* one.                                                                    *)
LEMMA Sizes ==
  ASSUME Memory, NEW b \in Blocks
  PROVE  /\ Size(b) \in Nat /\ DOMAIN heap[b] = 0..(Size(b) - 1)
         /\ Size(b) < KK_SCAN_FSIZE_MAX \/ IsVector(b)
         /\ IsVector(b) => 0 \in DOMAIN heap[b] /\ heap[b][0] = Length
<1>1. PICK n \in 0..Cardinality(Slots) :
        DOMAIN heap[b] = 0..(n - 1) /\ (n < KK_SCAN_FSIZE_MAX \/ heap[b][0] = Length)
  BY DEF Memory, Wellformed
<1>2. Cardinality(Slots) \in Nat
  BY DropAssumption, FS_CardinalityType
<1>3. n \in Nat /\ Size(b) = n
  BY <1>1, <1>2, FS_Interval DEF Size
<1>4. n < KK_SCAN_FSIZE_MAX \/ IsVector(b)
  BY <1>1, <1>3 DEF IsVector, KK_SCAN_FSIZE_MAX
<1>5. QED
  BY <1>1, <1>3, <1>4 DEF IsVector

LEMMA Towers ==
  ASSUME stack \in Seq(FrameType)
  PROVE  /\ Height \in Nat /\ DOMAIN tower = 1..Height
         /\ \A h \in DOMAIN tower : tower[h] \in FrameType
         /\ stack # <<>> => Height \in DOMAIN tower /\ Height > 0 /\ tower[Height] = Top
BY DEF Height, tower, Top

LEMMA TowersNext ==
  ASSUME stack' \in Seq(FrameType)
  PROVE  /\ Height' \in Nat /\ DOMAIN tower' = 1..Height'
         /\ \A h \in DOMAIN tower' : tower'[h] \in FrameType
         /\ stack' # <<>> => Height' \in DOMAIN tower' /\ Height' > 0 /\ tower'[Height'] = Top'
BY DEF Height, tower, Top

(* What the three ways to change the C stack do to it by height.           *)
LEMMA GotoTower ==
  ASSUME stack \in Seq(FrameType), stack # <<>>, NEW fr \in FrameType, Goto(fr)
  PROVE  /\ stack' \in Seq(FrameType) /\ stack' # <<>> /\ Height' = Height /\ Top' = fr
         /\ tower' = [tower EXCEPT ![Height] = fr]
<1>1. Tail(stack) \in Seq(FrameType) /\ Len(Tail(stack)) = Height - 1 /\ Height \in Nat
  BY DEF Height
<1>2. stack' \in Seq(FrameType) /\ Len(stack') = Height /\ stack'[1] = fr
  BY <1>1 DEF Goto
<1>3. \A k \in 2..Height : stack'[k] = stack[k]
  BY <1>1 DEF Goto, Height
<1>4. Height > 0 /\ Height' = Height
  BY <1>1, <1>2 DEF Height
<1>5. ASSUME NEW h \in 1..Height
      PROVE  stack'[Height + 1 - h] = IF h = Height THEN fr ELSE stack[Height + 1 - h]
  BY <1>1, <1>2, <1>3
<1>6. tower' = [h \in 1..Height |-> IF h = Height THEN fr ELSE stack[Height + 1 - h]]
  BY <1>4, <1>5 DEF tower
<1>7. tower' = [tower EXCEPT ![Height] = fr]
  BY <1>1, <1>4, <1>6 DEF tower
<1>8. QED
  BY <1>2, <1>4, <1>7 DEF Top, Height

LEMMA ReturnTower ==
  ASSUME stack \in Seq(FrameType), stack # <<>>, Return
  PROVE  /\ stack' \in Seq(FrameType) /\ Height' = Height - 1
         /\ tower' = [h \in 1..(Height - 1) |-> tower[h]]
         /\ Height > 1 => stack' # <<>> /\ Top' = tower[Height - 1]
<1>1. Tail(stack) \in Seq(FrameType) /\ Len(Tail(stack)) = Height - 1 /\ Height \in Nat
  BY DEF Height
<1>2. \A k \in 1..(Height - 1) : stack'[k] = stack[k + 1]
  BY <1>1 DEF Return, Height
<1>3. Height > 0 /\ Height' = Height - 1 /\ stack' \in Seq(FrameType)
  BY <1>1 DEF Height, Return
<1>4. ASSUME NEW h \in 1..(Height - 1)
      PROVE  stack'[(Height - 1) + 1 - h] = stack[Height + 1 - h]
  BY <1>1, <1>2
<1>5. tower' = [h \in 1..(Height - 1) |-> tower[h]]
  BY <1>1, <1>3, <1>4 DEF tower
<1>6. ASSUME Height > 1 PROVE stack' # <<>> /\ Top' = tower[Height - 1]
  <2>1. stack'[1] = stack[2] /\ Height + 1 - (Height - 1) = 2 /\ Height - 1 \in 1..Height
    BY <1>1, <1>2, <1>6
  <2>2. QED
    BY <1>3, <1>6, <2>1 DEF Height, tower, Top
<1>7. QED
  BY <1>3, <1>5, <1>6

LEMMA CallTower ==
  ASSUME stack \in Seq(FrameType), stack # <<>>,
         NEW fr \in FrameType, NEW callee \in FrameType, Call(fr, callee)
  PROVE  /\ stack' \in Seq(FrameType) /\ stack' # <<>> /\ Height' = Height + 1 /\ Top' = callee
         /\ tower' = [h \in 1..(Height + 1) |-> IF h = Height + 1 THEN callee
                                                ELSE IF h = Height THEN fr ELSE tower[h]]
<1>1. Tail(stack) \in Seq(FrameType) /\ Len(Tail(stack)) = Height - 1 /\ Height \in Nat
  BY DEF Height
<1>2. /\ stack' \in Seq(FrameType) /\ Len(stack') = Height + 1
      /\ stack'[1] = callee /\ stack'[2] = fr
  BY <1>1 DEF Call
<1>3. \A k \in 3..(Height + 1) : stack'[k] = stack[k - 1]
  BY <1>1 DEF Call, Height
<1>4. QED
  BY <1>1, <1>2, <1>3 DEF Height, tower, Top

-----------------------------------------------------------------------------
(* The blocks in the frames below the running one.                         *)
Below == {b \in Blocks : \E h \in 1..(Height - 1) : Active(tower[h]) /\ tower[h].b = b}

LEMMA HeldSplit ==
  ASSUME Structure, stack # <<>>
  PROVE  /\ Held = Below \cup (IF Active(Top) THEN {Top.b} ELSE {})
         /\ Active(Top) => Top.b \notin Below
         /\ Top \in FrameType
<1>1. /\ Height \in Nat /\ Height > 0 /\ DOMAIN tower = 1..Height /\ tower[Height] = Top
      /\ Top \in FrameType
  BY Towers DEF Structure, FramesOK
<1>2. \A h \in DOMAIN tower : h = Height \/ h \in 1..(Height - 1)
  BY <1>1
<1>3. \A h \in 1..(Height - 1) : h \in DOMAIN tower /\ h # Height
  BY <1>1
<1>4. Top.b \in Blocks
  BY <1>1 DEF FrameType
<1>5. ASSUME NEW b \in Blocks
      PROVE  b \in Held <=> b \in Below \/ (Active(Top) /\ b = Top.b)
  <2>1. b \in Held <=> \E h \in DOMAIN tower : Active(tower[h]) /\ tower[h].b = b
    BY DEF Held
  <2>2. b \in Below <=> \E h \in 1..(Height - 1) : Active(tower[h]) /\ tower[h].b = b
    BY DEF Below
  <2>3. Height \in DOMAIN tower
    BY <1>1
  <2> HIDE DEF Below, Held, tower, Height
  <2>4. QED
    BY <1>1, <1>2, <1>3, <2>1, <2>2, <2>3
<1>6. Held = Below \cup (IF Active(Top) THEN {Top.b} ELSE {})
  <2>1. Held \in SUBSET Blocks /\ Below \in SUBSET Blocks
    BY DEF Held, Below
  <2>2. QED
    BY <1>4, <1>5, <2>1
<1>7. Active(Top) => Top.b \notin Below
  BY <1>1, <1>3 DEF Below, Structure, FramesOK
<1>8. QED
  BY <1>1, <1>6, <1>7

(* The running frame gives way to none, one or two frames; it frees its    *)
(* block or keeps it or hands it on, and one that is not parked may enter. *)
(* Then the frames below and the parent chains are as they were.           *)
LEMMA Replace ==
  ASSUME Structure, stack # <<>>, UNCHANGED <<heap, field, idx>>,
         stack' \in Seq(FrameType), Height' >= Height - 1,
         \A h \in 1..(Height - 1) : tower'[h] = tower[h],
         frees' \in [Blocks -> {0, 1}],
         \A b \in Blocks : frees'[b] = frees[b] \/ (Active(Top) /\ b = Top.b /\ frees'[b] > 0),
         \A h \in Height..Height' :
           /\ tower'[h].parent = Null \/ (h = Height /\ tower'[h].parent = Top.parent)
           /\ Active(tower'[h]) =>
                \/ Active(Top) /\ tower'[h].b = Top.b
                \/ tower'[h].b \notin Held /\ idx[tower'[h].b] = 0,
         \A g, h \in Height..Height' :
           Active(tower'[g]) /\ Active(tower'[h]) /\ tower'[g].b = tower'[h].b => g = h,
         \A h \in Height..Height' : FrameOK(tower[h])',
         Active(Top) => \/ frees'[Top.b] > 0 \/ idx[Top.b] = 0
                        \/ \E h \in Height..Height' : Active(tower'[h]) /\ tower'[h].b = Top.b
  PROVE  /\ Memory' /\ FramesOK' /\ Chained' /\ Parked' = Parked
         /\ \A b \in Blocks :
              b \in Held' <=> \/ b \in Below
                              \/ \E h \in Height..Height' : Active(tower'[h]) /\ tower'[h].b = b
<1>1. /\ Height \in Nat /\ Height > 0 /\ DOMAIN tower = 1..Height /\ tower[Height] = Top
      /\ \A h \in DOMAIN tower : tower[h] \in FrameType
  BY Towers DEF Structure, FramesOK
<1>2. /\ Height' \in Nat /\ DOMAIN tower' = 1..Height'
      /\ \A h \in DOMAIN tower' : tower'[h] \in FrameType
  BY TowersNext
<1>3. /\ \A h \in DOMAIN tower' : h \in 1..(Height - 1) \/ h \in Height..Height'
      /\ \A h \in 1..(Height - 1) : h \in DOMAIN tower /\ h \in DOMAIN tower' /\ h # Height
      /\ \A h \in Height..Height' : h \in DOMAIN tower' /\ h \in Nat /\ h >= Height
  BY <1>1, <1>2
<1>4. \A b \in Blocks :
        b \in Held' <=> \/ b \in Below
                        \/ \E h \in Height..Height' : Active(tower'[h]) /\ tower'[h].b = b
  BY <1>1, <1>2, <1>3 DEF Held, Below
<1>5. /\ \A b \in Blocks : b \in Held <=> b \in Below \/ (Active(Top) /\ b = Top.b)
      /\ Active(Top) => Top.b \notin Below
  BY HeldSplit DEF Below
<1>6. \A h \in DOMAIN tower : tower[h].b \in Blocks
  BY <1>1 DEF FrameType
<1>7. \A h \in DOMAIN tower' : tower'[h].b \in Blocks
  BY <1>2 DEF FrameType
<1>8. Active(Top) => frees[Top.b] = 0 /\ Top.b \in Held /\ Top.b \in Blocks
  BY <1>1, <1>5, <1>6 DEF Structure, FramesOK, FrameOK
<1>9. \A b \in Blocks : idx[b] \in Nat /\ frees[b] \in Nat /\ frees'[b] \in Nat
  BY DEF Structure, Memory
<1>10. Parked' = Parked
  <2>1. ASSUME NEW p \in Parked PROVE p \in Parked'
    <3>1. p \in Blocks /\ frees[p] = 0 /\ idx[p] > 0 /\ p \notin Held /\ p \notin Below
      BY <1>5 DEF Parked
    <3>2. frees'[p] = 0
      BY <1>8, <3>1
    <3>3. p \notin Held'
      <4>1. SUFFICES ASSUME NEW h \in Height..Height', Active(tower'[h]), tower'[h].b = p PROVE FALSE
        BY <1>4, <3>1
      <4>2. idx[p] = 0
        BY <1>8, <3>1, <4>1
      <4>3. QED
        BY <3>1, <4>2
    <3>4. QED
      BY <3>1, <3>2, <3>3 DEF Parked
  <2>2. ASSUME NEW p \in Parked' PROVE p \in Parked
    <3>1. p \in Blocks /\ frees'[p] = 0 /\ idx[p] > 0 /\ p \notin Held'
      BY DEF Parked
    <3>2. frees[p] = 0
      BY <3>1
    <3>3. p \notin Below
      BY <1>4, <3>1
    <3>4. ~ (Active(Top) /\ p = Top.b)
      BY <1>4, <1>9, <3>1
    <3>5. QED
      BY <1>5, <3>1, <3>2, <3>3, <3>4 DEF Parked
  <2>3. QED
    BY <2>1, <2>2
<1>11. Memory'
  BY DEF Structure, Memory, Wellformed, Size
<1>12. FramesOK'
  <2>1. ASSUME NEW h \in 1..(Height - 1) PROVE FrameOK(tower[h])'
    <3>1. tower'[h] = tower[h] /\ FrameOK(tower[h]) /\ h \in DOMAIN tower /\ tower[h].b \in Blocks
      BY <1>3, <1>6 DEF Structure, FramesOK
    <3>2. Active(tower[h]) => frees'[tower[h].b] = frees[tower[h].b]
      <4>1. ASSUME Active(tower[h]), Active(Top) PROVE tower[h].b # Top.b
        BY <1>5, <3>1, <4>1 DEF Below
      <4>2. QED
        BY <3>1, <4>1
    <3>3. QED
      BY <3>1, <3>2 DEF FrameOK
  <2>2. ASSUME NEW h \in DOMAIN tower' PROVE FrameOK(tower[h])'
    BY <1>3, <2>1
  <2>3. ASSUME NEW g \in DOMAIN tower', NEW h \in DOMAIN tower',
               Active(tower'[g]), Active(tower'[h]), tower'[g].b = tower'[h].b
        PROVE  g = h
    <3>1. CASE g \in 1..(Height - 1) /\ h \in 1..(Height - 1)
      BY <1>3, <2>3, <3>1 DEF Structure, FramesOK
    <3>2. ASSUME NEW i \in 1..(Height - 1), NEW j \in Height..Height',
                 Active(tower'[i]), Active(tower'[j]), tower'[i].b = tower'[j].b
          PROVE  FALSE
      <4>1. tower'[i] = tower[i] /\ tower[i].b \in Blocks
        BY <1>3, <1>6
      <4>2. tower[i].b \in Below
        BY <3>2, <4>1 DEF Below
      <4>3. QED
        BY <1>5, <3>2, <4>1, <4>2
    <3>3. QED
      BY <1>3, <2>3, <3>1, <3>2
  <2>4. QED
    BY <2>2, <2>3 DEF FramesOK
<1>13. Chained'
  <2>1. \A h \in DOMAIN tower' :
          \/ h # Height /\ h \in DOMAIN tower /\ tower'[h].parent = tower[h].parent
          \/ tower'[h].parent = Null
          \/ h = Height /\ Height \in DOMAIN tower /\ tower'[h].parent = tower[Height].parent
    BY <1>1, <1>3
  <2>2. QED
    BY <1>10, <2>1 DEF Structure, Chained
<1>14. QED
  BY <1>4, <1>10, <1>11, <1>12, <1>13

-----------------------------------------------------------------------------
(* The mapping to RecursiveDrop, as in DropFree!Recursion.                 *)
edges  == [r \in Blocks \X Slots |-> EdgeOf(r)]
status == [b \in Blocks |-> IF frees[b] > 0 THEN "freed"
                            ELSE IF b \in Dying THEN "dying" ELSE "live"]
todos  == {r \in Blocks \X Slots :
             r[1] \in Dying /\ EdgeOf(r) # Val /\ r[2] \in TodoOf(r[1])}

Drop == INSTANCE RecursiveDropProofs WITH
  None <- Val, edge <- edges, state <- status, todo <- todos

(* The fields still to be released: of blocks in frames, of parked blocks  *)
(* and of the result.                                                      *)
Left(fr)   == {r \in Fields : Active(fr) /\ fr.b = r[1] /\ fr.at # "one" /\ From(fr) <= r[2]}
LeftBelow  == {r \in Fields : \E h \in 1..(Height - 1) : r \in Left(tower[h])}
LeftParked == {r \in Fields : r[1] \in Parked /\ idx[r[1]] <= r[2]}
Remaining  ==
  {r \in Fields : \E h \in DOMAIN tower : r \in Left(tower[h])}
    \cup LeftParked \cup {r \in Fields : r[1] = ret}
InUse      == Held \cup Parked \cup {b \in Blocks : b = ret}

LEMMA HeldFrames ==
  ASSUME Structure, NEW b \in Blocks
  PROVE  /\ b \in Held <=> Frames(b) # {}
         /\ \A h \in DOMAIN tower :
              Active(tower[h]) /\ tower[h].b = b =>
                Height + 1 - h \in Frames(b) /\ stack[Height + 1 - h] = tower[h]
         /\ \A k, l \in Frames(b) : k = l
<1>1. Height \in Nat /\ DOMAIN tower = 1..Height /\ DOMAIN stack = 1..Height
  BY Towers DEF Structure, FramesOK, Height
<1>2. \A h \in DOMAIN tower : Height + 1 - h \in DOMAIN stack /\ stack[Height + 1 - h] = tower[h]
  BY <1>1 DEF tower
<1>3. \A k \in DOMAIN stack : Height + 1 - k \in DOMAIN tower /\ tower[Height + 1 - k] = stack[k]
  BY <1>1 DEF tower
<1>4. \A k \in Frames(b) :
        /\ k \in DOMAIN stack /\ Height + 1 - k \in DOMAIN tower
        /\ Active(tower[Height + 1 - k]) /\ tower[Height + 1 - k].b = b
  BY <1>3 DEF Frames, Active
<1>5. \A h \in DOMAIN tower : Active(tower[h]) /\ tower[h].b = b => Height + 1 - h \in Frames(b)
  BY <1>2 DEF Frames, Active
<1>6. b \in Held <=> Frames(b) # {}
  BY <1>4, <1>5 DEF Held
<1>7. ASSUME NEW k \in Frames(b), NEW l \in Frames(b) PROVE k = l
  <2>1. Height + 1 - k = Height + 1 - l
    BY <1>4 DEF Structure, FramesOK
  <2>2. k \in Int /\ l \in Int
    BY <1>1, <1>4
  <2>3. QED
    BY <1>1, <2>1, <2>2
<1>8. QED
  BY <1>2, <1>5, <1>6, <1>7

LEMMA DyingAre == Structure => Dying = InUse /\ \A b \in Dying : frees[b] = 0
<1> SUFFICES ASSUME Structure PROVE Dying = InUse /\ \A b \in Dying : frees[b] = 0
  OBVIOUS
<1>1. \A b \in Blocks : b \in Held => frees[b] = 0
  BY Towers DEF Held, Structure, FramesOK, FrameOK
<1>2. \A b \in Blocks : b = ret => frees[b] = 0
  BY DropAssumption DEF Structure, Result
<1>3. \A b \in Blocks : b \in Held <=> Frames(b) # {}
  BY HeldFrames
<1>4. \A b \in Blocks : b \in Dying <=> b \in Held \/ b \in Parked \/ b = ret
  BY <1>1, <1>2, <1>3 DEF Dying, Parked
<1>5. QED
  BY <1>4 DEF Dying, Held, Parked, InUse

(* A field that refers to a block is one of the fields of its block.       *)
LEMMA EdgeFields ==
  ASSUME Memory, NEW r \in Fields, EdgeOf(r) # Val
  PROVE  /\ r[1] \in Blocks /\ r[2] \in Nat /\ r[2] \in DOMAIN heap[r[1]] /\ r[2] < Size(r[1])
         /\ EdgeOf(r) = heap[r[1]][r[2]] /\ EdgeOf(r) \in Blocks
<1>1. r[1] \in Blocks
  BY DEF Fields
<1>2. Size(r[1]) \in Nat /\ DOMAIN heap[r[1]] = 0..(Size(r[1]) - 1)
  BY <1>1, Sizes
<1>3. QED
  BY <1>1, <1>2 DEF EdgeOf, IsPtr

TodosRemain == \A r \in Fields : r \in todos <=> r \in Remaining /\ EdgeOf(r) # Val

LEMMA TodosAre == Structure => TodosRemain
<1> SUFFICES ASSUME Structure, NEW r \in Fields
             PROVE  r \in todos <=> r \in Remaining /\ EdgeOf(r) # Val
  BY DEF TodosRemain
<1> DEFINE b == r[1]
<1>1. CASE EdgeOf(r) = Val
  BY <1>1 DEF todos
<1> SUFFICES ASSUME EdgeOf(r) # Val PROVE r \in todos <=> r \in Remaining
  BY <1>1
<1>2. b \in Blocks /\ r[2] \in Nat /\ r[2] <= LastField(b) /\ LastField(b) \in Int
  BY EdgeFields, Sizes DEF LastField, Structure
<1>3. r \in todos <=> b \in Dying /\ r[2] \in TodoOf(b)
  BY DEF todos, Fields
<1>4. idx[b] \in Nat /\ (b = ret => idx[b] = 0)
  BY <1>2, DropAssumption DEF Structure, Memory, Result
<1>5. CASE b \notin Held
  <2>1. Frames(b) = {}
    BY <1>2, <1>5, HeldFrames
  <2>2. TodoOf(b) = idx[b]..LastField(b)
    BY <2>1 DEF TodoOf
  <2>3. b \in Dying <=> b = ret \/ b \in Parked
    BY <1>2, <1>5, DyingAre DEF InUse
  <2>4. r \in Remaining <=> (b = ret \/ b \in Parked) /\ idx[b] <= r[2]
    BY <1>2, <1>4, <1>5 DEF Remaining, Held, Left, LeftParked
  <2>5. QED
    BY <1>2, <1>3, <1>4, <2>2, <2>3, <2>4
<1>6. CASE b \in Held
  <2>1. PICK h \in DOMAIN tower : Active(tower[h]) /\ tower[h].b = b
    BY <1>6 DEF Held
  <2>2. b \in Dying
    BY <1>6, DyingAre DEF InUse
  <2>3. \A g \in DOMAIN tower : Active(tower[g]) /\ tower[g].b = b => g = h
    BY <2>1 DEF Structure, FramesOK
  <2>4. r \in Remaining <=> tower[h].at # "one" /\ From(tower[h]) <= r[2]
    <3>1. b \notin Parked /\ b # ret
      BY <1>2, <1>6, DropAssumption DEF Parked, Structure, Result
    <3>2. QED
      BY <2>1, <2>3, <3>1 DEF Remaining, Left, LeftParked
  <2> DEFINE k == Height + 1 - h
  <2>5. k \in Frames(b) /\ stack[k] = tower[h] /\ \A l \in Frames(b) : l = k
    BY <1>2, <2>1, HeldFrames
  <2>6. FrameOK(tower[h]) /\ tower[h] \in FrameType
    BY <2>1, Towers DEF Structure, FramesOK
  <2> HIDE DEF k, b
  <2>7. CASE tower[h].at \in {"scan", "child"}
    <3>1. TodoOf(b) = tower[h].i..LastField(b)
      BY <2>5, <2>7 DEF TodoOf
    <3>2. tower[h].i \in Nat
      BY <2>6 DEF FrameType
    <3>3. QED
      BY <1>2, <1>3, <2>2, <2>4, <2>7, <3>1, <3>2 DEF From
  <2>8. CASE tower[h].at = "one"
    <3>1. TodoOf(b) = {}
      BY <2>5, <2>8 DEF TodoOf
    <3>2. QED
      BY <1>3, <2>4, <2>8, <3>1
  <2>9. CASE tower[h].at \in {"start", "down"}
    <3>1. TodoOf(b) = idx[b]..LastField(b)
      BY <2>5, <2>9 DEF TodoOf
    <3>2. idx[b] = 0
      BY <2>1, <2>6, <2>9 DEF FrameOK
    <3>3. QED
      BY <1>2, <1>3, <2>2, <2>4, <2>9, <3>1, <3>2 DEF From
  <2>10. QED
    BY <2>1, <2>6, <2>7, <2>8, <2>9 DEF FrameType, Active
<1>7. QED
  BY <1>5, <1>6

(* The references that are still to be released, or that the program       *)
(* holds, lead to blocks that are neither dying nor freed.                 *)
LEMMA TargetLives ==
  ASSUME Structure, Drop!IInv, NEW r \in Fields, EdgeOf(r) # Val, r \in Remaining
  PROVE  EdgeOf(r) \in Blocks /\ EdgeOf(r) \notin Dying /\ frees[EdgeOf(r)] = 0
<1>1. EdgeOf(r) \in Blocks /\ edges[r] = EdgeOf(r)
  BY EdgeFields DEF edges, Fields, Structure
<1>2. r \in todos /\ r \in Drop!Fields
  BY TodosAre DEF Drop!Fields, Fields, TodosRemain
<1>3. r \in Drop!RefsTo(EdgeOf(r))
  BY <1>1, <1>2 DEF Drop!RefsTo
<1>4. status[EdgeOf(r)] = "live"
  BY <1>1, <1>3 DEF Drop!IInv, Drop!NoDangling
<1>5. frees[EdgeOf(r)] \in Nat
  BY <1>1 DEF Structure, Memory
<1>6. QED
  BY <1>1, <1>4, <1>5 DEF status

LEMMA RootLives ==
  ASSUME Structure, Drop!IInv, NEW c \in roots
  PROVE  c \in Blocks /\ c \notin Dying /\ frees[c] = 0
<1>1. c \in Blocks
  BY DEF Drop!IInv, Drop!TypeOK
<1>2. status[c] = "live"
  BY <1>1 DEF Drop!IInv, Drop!NoDangling
<1>3. frees[c] \in Nat
  BY <1>1 DEF Structure, Memory
<1>4. QED
  BY <1>1, <1>2, <1>3 DEF status
-----------------------------------------------------------------------------
(* What is in use and left to release, without the running frame and with  *)
(* it.                                                                     *)
LEMMA Splits ==
  ASSUME Structure, stack # <<>>
  PROVE  /\ InUse = Below \cup (IF Active(Top) THEN {Top.b} ELSE {}) \cup Parked
                      \cup {b \in Blocks : b = ret}
         /\ Remaining = LeftBelow \cup Left(Top) \cup LeftParked \cup {r \in Fields : r[1] = ret}
<1>1. /\ Height \in Nat /\ Height > 0 /\ DOMAIN tower = 1..Height /\ tower[Height] = Top
  BY Towers DEF Structure, FramesOK
<1>2. \A h : h \in DOMAIN tower <=> h = Height \/ h \in 1..(Height - 1)
  BY <1>1
<1>3. \A r \in Fields : (\E h \in DOMAIN tower : r \in Left(tower[h])) <=> r \in LeftBelow \/ r \in Left(Top)
  BY <1>1, <1>2 DEF LeftBelow
<1>4. LeftBelow \subseteq Fields /\ Left(Top) \subseteq Fields
  BY DEF LeftBelow, Left
<1>5. QED
  BY <1>3, <1>4, HeldSplit DEF InUse, Remaining

(* What FrameOK will say of a frame.                                       *)
FrameNext(fr) ==
  /\ fr.at \in Places[fr.fn]
  /\ fr.fn # "recx" => fr.parent = Null
  /\ Active(fr) =>
       /\ frees'[fr.b] = 0
       /\ fr.at \in {"start", "one", "down"} => idx[fr.b] = 0
       /\ fr.at \in {"scan", "child"} => idx[fr.b] <= fr.i
       /\ fr.at = "child" => fr.i > 0
       /\ fr.fn = "large_rec" => idx[fr.b] = 0
       /\ fr.fn = "recx" /\ idx[fr.b] > 0 => field[fr.b][0] = fr.parent

(* The block of a frame was the running one's or in no frame.              *)
Enters(fr) ==
  Active(fr) => \/ Active(Top) /\ fr.b = Top.b
                \/ fr.b \notin Held /\ idx[fr.b] = 0

(* The running block may have been freed, and nothing else.                *)
FreesTop ==
  /\ frees' \in [Blocks -> {0, 1}]
  /\ \A b \in Blocks : frees'[b] = frees[b] \/ (Active(Top) /\ b = Top.b /\ frees'[b] > 0)

(* The running block is freed, was never parked, or stays in a frame.      *)
Keeps(fr) ==
  Active(Top) => \/ frees'[Top.b] > 0 \/ idx[Top.b] = 0
                 \/ Active(fr) /\ fr.b = Top.b

LEMMA GotoStep ==
  ASSUME Structure, stack # <<>>, UNCHANGED <<heap, field, idx>>, FreesTop,
         NEW fr \in FrameType, Goto(fr), FrameNext(fr), Enters(fr), Keeps(fr),
         fr.parent \in {Null, Top.parent},
         fr.fn = Top.fn \/ (fr.fn = "recx" /\ Height % 2 = 1)
  PROVE  /\ Memory' /\ FramesOK' /\ Nested' /\ Chained'
         /\ stack' # <<>> /\ Top' = fr
         /\ Held' = Below \cup (IF Active(fr) THEN {fr.b} ELSE {})
         /\ InUse' = Held' \cup Parked \cup {b \in Blocks : b = ret'}
         /\ Remaining' = LeftBelow \cup Left(fr) \cup LeftParked \cup {r \in Fields : r[1] = ret'}
<1> DEFINE n == Height
<1>1. /\ n \in Nat /\ n > 0 /\ DOMAIN tower = 1..n /\ tower[n] = Top
  BY Towers DEF Structure, FramesOK
<1>2. /\ stack' \in Seq(FrameType) /\ stack' # <<>> /\ Height' = n /\ Top' = fr
      /\ tower' = [tower EXCEPT ![n] = fr]
  BY GotoTower DEF Structure, FramesOK
<1>3. /\ DOMAIN tower' = 1..n /\ tower'[n] = fr /\ \A h \in 1..(n - 1) : tower'[h] = tower[h]
      /\ \A h \in n..Height' : h = n
      /\ n \in n..Height'
  BY <1>1, <1>2
<1>4. ASSUME NEW h \in n..Height' PROVE FrameOK(tower[h])'
  <2>2. h = n /\ tower'[h] = fr
    BY <1>1, <1>2, <1>3
  <2>3. QED
    BY <2>2 DEF FrameOK, FrameNext
<1> HIDE DEF n
<1>5. /\ Memory' /\ FramesOK' /\ Chained' /\ Parked' = Parked
      /\ \A b \in Blocks : b \in Held' <=> \/ b \in Below
                                           \/ \E h \in n..Height' : Active(tower'[h]) /\ tower'[h].b = b
  <2>1. \A h \in n..Height' :
           /\ tower'[h].parent = Null \/ (h = n /\ tower'[h].parent = Top.parent)
           /\ Active(tower'[h]) =>
                \/ Active(Top) /\ tower'[h].b = Top.b
                \/ tower'[h].b \notin Held /\ idx[tower'[h].b] = 0
    BY <1>3 DEF Enters
  <2>2. Active(Top) => \/ frees'[Top.b] > 0 \/ idx[Top.b] = 0
                       \/ \E h \in n..Height' : Active(tower'[h]) /\ tower'[h].b = Top.b
    BY <1>3 DEF Keeps
  <2>3. n = Height /\ Height' >= n - 1
    BY <1>1, <1>2 DEF n
  <2>4. \A g, h \in n..Height' :
           Active(tower'[g]) /\ Active(tower'[h]) /\ tower'[g].b = tower'[h].b => g = h
    BY <1>3
  <2> HIDE DEF Height, tower
  <2>5. QED
    BY <1>2, <1>3, <1>4, <2>1, <2>2, <2>3, <2>4, Replace DEF FreesTop
<1>6. Held' = Below \cup (IF Active(fr) THEN {fr.b} ELSE {})
  <2>1. fr.b \in Blocks /\ Below \subseteq Blocks /\ Held' \subseteq Blocks
    BY DEF FrameType, Below, Held
  <2>2. QED
    BY <1>3, <1>5, <2>1
<1>7. Nested'
  <2>1. \A h \in DOMAIN tower' : h \in DOMAIN tower /\ h \in Nat /\ (h # n => tower'[h] = tower[h])
    BY <1>1, <1>2, <1>3
  <2>2. \A h \in DOMAIN tower' : tower'[h].fn = tower[h].fn \/ (h = n /\ tower'[h].fn = "recx" /\ n % 2 = 1)
    BY <1>1, <1>3, <2>1 DEF n
  <2>3. ASSUME NEW h \in DOMAIN tower', tower'[h].fn = "fast_drop_free"
        PROVE  h = n /\ h > 1 /\ tower'[h - 1].at = "child"
    <3>1. tower[h].fn = "fast_drop_free"
      BY <2>2, <2>3
    <3>2. h = n /\ h > 1 /\ tower[h - 1].at = "child"
      BY <2>1, <3>1 DEF Structure, Nested, n
    <3>3. h - 1 \in 1..(n - 1)
      BY <1>1, <3>2
    <3>4. QED
      BY <1>3, <3>2, <3>3
  <2>4. QED
    BY <1>2, <2>1, <2>2, <2>3 DEF Structure, Nested, n
<1>8. Remaining' = LeftBelow \cup Left(fr) \cup LeftParked \cup {r \in Fields : r[1] = ret'}
  <2>1. LeftParked' = LeftParked
    BY <1>5 DEF LeftParked
  <2>2. \A r \in Fields : (\E h \in DOMAIN tower' : r \in Left(tower'[h])) <=> r \in LeftBelow \/ r \in Left(fr)
    BY <1>1, <1>3 DEF LeftBelow, n
  <2>3. LeftBelow \subseteq Fields /\ Left(fr) \subseteq Fields
    BY DEF LeftBelow, Left
  <2>4. QED
    BY <2>1, <2>2, <2>3 DEF Remaining
<1>9. InUse' = Held' \cup Parked \cup {b \in Blocks : b = ret'}
  BY <1>5 DEF InUse
<1>10. QED
  BY <1>2, <1>5, <1>6, <1>7, <1>8, <1>9

LEMMA ReturnStep ==
  ASSUME Structure, stack # <<>>, UNCHANGED <<heap, field, idx>>, FreesTop, Return,
         Active(Top) => frees'[Top.b] > 0 \/ idx[Top.b] = 0
  PROVE  /\ Memory' /\ FramesOK' /\ Nested' /\ Chained'
         /\ Top.fn = "fast_drop_free" => stack' # <<>> /\ Top'.at = "child"
         /\ Held' = Below
         /\ InUse' = Below \cup Parked \cup {b \in Blocks : b = ret'}
         /\ Remaining' = LeftBelow \cup LeftParked \cup {r \in Fields : r[1] = ret'}
<1> DEFINE n == Height
<1>1. /\ n \in Nat /\ n > 0 /\ DOMAIN tower = 1..n /\ tower[n] = Top
  BY Towers DEF Structure, FramesOK
<1>2. /\ stack' \in Seq(FrameType) /\ Height' = n - 1
      /\ tower' = [h \in 1..(n - 1) |-> tower[h]]
      /\ n > 1 => stack' # <<>> /\ Top' = tower[n - 1]
  BY ReturnTower DEF Structure, FramesOK
<1>3. /\ DOMAIN tower' = 1..(n - 1) /\ \A h \in 1..(n - 1) : tower'[h] = tower[h]
      /\ n..Height' = {}
  BY <1>1, <1>2
<1>4. n = Height /\ Height' >= n - 1
  BY <1>1, <1>2
<1> HIDE DEF n
<1>5. /\ Memory' /\ FramesOK' /\ Chained' /\ Parked' = Parked
      /\ \A b \in Blocks : b \in Held' <=> \/ b \in Below
                                           \/ \E h \in n..Height' : Active(tower'[h]) /\ tower'[h].b = b
  <2> HIDE DEF Height, tower
  <2>1. QED
    BY <1>2, <1>3, <1>4, Replace DEF FreesTop
<1>6. Held' = Below
  <2>1. Below \subseteq Blocks /\ Held' \subseteq Blocks
    BY DEF Below, Held
  <2>2. QED
    BY <1>3, <1>5, <2>1
<1>7. \A h \in DOMAIN tower' : h \in DOMAIN tower /\ h # n /\ tower'[h] = tower[h]
  BY <1>1, <1>3
<1>8. Nested'
  BY <1>4, <1>7 DEF Structure, Nested
<1>9. Remaining' = LeftBelow \cup LeftParked \cup {r \in Fields : r[1] = ret'}
  <2>1. LeftParked' = LeftParked
    BY <1>5 DEF LeftParked
  <2>2. \A r \in Fields : (\E h \in DOMAIN tower' : r \in Left(tower'[h])) <=> r \in LeftBelow
    BY <1>1, <1>3, <1>4 DEF LeftBelow
  <2>3. LeftBelow \subseteq Fields
    BY DEF LeftBelow
  <2>4. QED
    BY <2>1, <2>2, <2>3 DEF Remaining
<1>10. InUse' = Below \cup Parked \cup {b \in Blocks : b = ret'}
  BY <1>5, <1>6 DEF InUse
<1>11. Top.fn = "fast_drop_free" => n > 1 /\ tower[n - 1].at = "child"
  BY <1>1, <1>4 DEF Structure, Nested
<1>12. QED
  BY <1>2, <1>5, <1>6, <1>8, <1>9, <1>10, <1>11

LEMMA CallStep ==
  ASSUME Structure, stack # <<>>, UNCHANGED <<heap, field, idx>>, FreesTop,
         NEW fr \in FrameType, NEW callee \in FrameType, Call(fr, callee),
         FrameNext(fr), Enters(fr), FrameNext(callee), Enters(callee),
         Keeps(fr) \/ Keeps(callee),
         ~ (Active(fr) /\ Active(callee) /\ fr.b = callee.b),
         fr.parent \in {Null, Top.parent}, callee.parent = Null,
         fr.fn = Top.fn, Top.fn # "fast_drop_free", callee.fn # "drop_free",
         callee.fn = "fast_drop_free" => fr.at = "child",
         callee.fn = "large_rec" => Top.fn = "recx",
         callee.fn = "recx" => Top.fn = "large_rec"
  PROVE  /\ Memory' /\ FramesOK' /\ Nested' /\ Chained'
         /\ stack' # <<>> /\ Top' = callee
         /\ Held' = Below \cup (IF Active(fr) THEN {fr.b} ELSE {})
                          \cup (IF Active(callee) THEN {callee.b} ELSE {})
         /\ InUse' = Held' \cup Parked \cup {b \in Blocks : b = ret'}
         /\ Remaining' = LeftBelow \cup Left(fr) \cup Left(callee) \cup LeftParked
                           \cup {r \in Fields : r[1] = ret'}
<1> DEFINE n == Height
<1>1. /\ n \in Nat /\ n > 0 /\ DOMAIN tower = 1..n /\ tower[n] = Top
  BY Towers DEF Structure, FramesOK
<1>2. /\ stack' \in Seq(FrameType) /\ stack' # <<>> /\ Height' = n + 1 /\ Top' = callee
      /\ tower' = [h \in 1..(n + 1) |-> IF h = n + 1 THEN callee ELSE IF h = n THEN fr ELSE tower[h]]
  BY CallTower DEF Structure, FramesOK
<1>3. /\ DOMAIN tower' = 1..(n + 1) /\ tower'[n] = fr /\ tower'[n + 1] = callee
      /\ \A h \in 1..(n - 1) : tower'[h] = tower[h]
      /\ \A h \in n..Height' : h = n \/ h = n + 1
      /\ n \in n..Height' /\ n + 1 \in n..Height'
  BY <1>1, <1>2
<1>4. n = Height /\ Height' >= n - 1
  BY <1>1, <1>2
<1> HIDE DEF n
<1>5. /\ Memory' /\ FramesOK' /\ Chained' /\ Parked' = Parked
      /\ \A b \in Blocks : b \in Held' <=> \/ b \in Below
                                           \/ \E h \in n..Height' : Active(tower'[h]) /\ tower'[h].b = b
  <2>1. \A h \in n..Height' :
           /\ tower'[h].parent = Null \/ (h = n /\ tower'[h].parent = Top.parent)
           /\ Active(tower'[h]) =>
                \/ Active(Top) /\ tower'[h].b = Top.b
                \/ tower'[h].b \notin Held /\ idx[tower'[h].b] = 0
    BY <1>3 DEF Enters
  <2>2. Active(Top) => \/ frees'[Top.b] > 0 \/ idx[Top.b] = 0
                       \/ \E h \in n..Height' : Active(tower'[h]) /\ tower'[h].b = Top.b
    BY <1>3 DEF Keeps
  <2>3. \A g, h \in n..Height' :
           Active(tower'[g]) /\ Active(tower'[h]) /\ tower'[g].b = tower'[h].b => g = h
    BY <1>3
  <2>4. ASSUME NEW h \in n..Height' PROVE FrameOK(tower[h])'
    <3>1. tower'[h] = fr \/ tower'[h] = callee
      BY <1>3
    <3>2. QED
      BY <3>1 DEF FrameOK, FrameNext
  <2>5. stack' \in Seq(FrameType) /\ \A h \in 1..(n - 1) : tower'[h] = tower[h]
    BY <1>2, <1>3
  <2> HIDE DEF Height, tower
  <2>6. QED
    BY <1>4, <2>1, <2>2, <2>3, <2>4, <2>5, Replace DEF FreesTop
<1>6. Held' = Below \cup (IF Active(fr) THEN {fr.b} ELSE {})
                    \cup (IF Active(callee) THEN {callee.b} ELSE {})
  <2>1. fr.b \in Blocks /\ callee.b \in Blocks /\ Below \subseteq Blocks /\ Held' \subseteq Blocks
    BY DEF FrameType, Below, Held
  <2>2. QED
    BY <1>3, <1>5, <2>1
<1>7. Nested'
  <2>1. /\ \A h \in DOMAIN tower' : h = n + 1 \/ h = n \/ h \in 1..(n - 1)
        /\ \A h \in 1..(n - 1) : h \in DOMAIN tower /\ h # n /\ h \in Nat
        /\ n \in DOMAIN tower
    BY <1>1, <1>3
  <2>2. ASSUME NEW h \in 1..(n - 1) PROVE tower[h].fn # "fast_drop_free"
    BY <1>4, <2>1 DEF Structure, Nested
  <2>3. (Top.fn = "recx" => n % 2 = 1) /\ (Top.fn = "large_rec" => n % 2 = 0) /\ (Top.fn = "drop_free" => n = 1)
    BY <1>1, <2>1 DEF Structure, Nested
  <2>4. (callee.fn = "large_rec" => (n + 1) % 2 = 0) /\ (callee.fn = "recx" => (n + 1) % 2 = 1)
    BY <1>1, <2>3
  <2>5. \A h \in DOMAIN tower' : tower'[h].fn = "fast_drop_free" => h = n + 1 /\ h > 1 /\ tower'[n].at = "child"
    BY <1>1, <1>3, <2>1, <2>2
  <2>6. (n + 1) - 1 = n
    BY <1>1
  <2>7. \A h \in DOMAIN tower' : tower'[h].fn = "fast_drop_free" => h = Height' /\ h > 1 /\ tower'[h - 1].at = "child"
    BY <1>2, <2>5, <2>6
  <2>8. ASSUME NEW h \in DOMAIN tower'
        PROVE  /\ tower'[h].fn = "large_rec" => h % 2 = 0
               /\ tower'[h].fn = "recx" => h % 2 = 1
               /\ tower'[h].fn = "drop_free" => h = 1
    <3>1. CASE h = n + 1
      BY <1>3, <2>4, <3>1
    <3>2. CASE h = n
      BY <1>3, <2>3, <3>2
    <3>3. CASE h \in 1..(n - 1)
      BY <1>3, <2>1, <3>3 DEF Structure, Nested
    <3>4. QED
      BY <2>1, <3>1, <3>2, <3>3
  <2>9. QED
    BY <2>7, <2>8 DEF Nested
<1>8. Remaining' = LeftBelow \cup Left(fr) \cup Left(callee) \cup LeftParked
                     \cup {r \in Fields : r[1] = ret'}
  <2>1. LeftParked' = LeftParked
    BY <1>5 DEF LeftParked
  <2>2. \A h : h \in DOMAIN tower' <=> h = n + 1 \/ h = n \/ h \in 1..(n - 1)
    BY <1>1, <1>3
  <2>3. \A r \in Fields : (\E h \in DOMAIN tower' : r \in Left(tower'[h]))
                            <=> r \in LeftBelow \/ r \in Left(fr) \/ r \in Left(callee)
    BY <1>3, <1>4, <2>2 DEF LeftBelow
  <2>4. LeftBelow \subseteq Fields /\ Left(fr) \subseteq Fields /\ Left(callee) \subseteq Fields
    BY DEF LeftBelow, Left
  <2>5. QED
    BY <2>1, <2>3, <2>4 DEF Remaining
<1>9. InUse' = Held' \cup Parked \cup {b \in Blocks : b = ret'}
  BY <1>5 DEF InUse
<1>10. QED
  BY <1>2, <1>5, <1>6, <1>7, <1>8, <1>9
-----------------------------------------------------------------------------
(* Which step of RecursiveDrop is taken, from what happens to the blocks   *)
(* in use and to the fields that are left.                                 *)
SameLeft(rest) == \A r \in Fields : EdgeOf(r) # Val => (r \in Remaining' <=> r \in rest)

LEMMA Mapped ==
  ASSUME Structure, Structure', UNCHANGED heap
  PROVE  /\ edges' = edges /\ \A r : EdgeOf(r)' = EdgeOf(r)
         /\ Dying = InUse /\ Dying' = InUse'
         /\ \A b \in Dying : frees[b] = 0
         /\ \A r \in Fields : r \in todos <=> r \in Remaining /\ EdgeOf(r) # Val
         /\ \A r \in Fields : r \in todos' <=> r \in Remaining' /\ EdgeOf(r) # Val
         /\ todos \subseteq Fields /\ todos' \subseteq Fields
<1>1. \A r : EdgeOf(r)' = EdgeOf(r)
  BY DEF EdgeOf
<1>2. TodosRemain /\ TodosRemain'
  BY TodosAre, PTL
<1>3. Dying = InUse /\ \A b \in Dying : frees[b] = 0
  BY DyingAre
<1>4. (Dying = InUse /\ \A b \in Dying : frees[b] = 0)'
  BY DyingAre, PTL
<1>5. QED
  BY <1>1, <1>2, <1>3, <1>4 DEF TodosRemain, edges, todos, Fields

LEMMA QuietStep ==
  ASSUME Structure, Structure', UNCHANGED <<heap, roots, rc, frees>>,
         InUse' = InUse, SameLeft(Remaining)
  PROVE  UNCHANGED Drop!vars
<1>1. edges' = edges /\ Dying' = Dying
  BY Mapped
<1>2. todos' = todos
  BY Mapped DEF SameLeft
<1>3. status' = status
  BY <1>1 DEF status
<1>4. QED
  BY <1>1, <1>2, <1>3 DEF Drop!vars

LEMMA FreeStep ==
  ASSUME Structure, Structure', UNCHANGED <<heap, roots, rc>>,
         NEW b \in InUse, FreeBlock(b), InUse' = InUse \ {b}, SameLeft(Remaining),
         \A r \in Remaining : EdgeOf(r) # Val => r[1] # b
  PROVE  Drop!Free(b)
<1>1. /\ edges' = edges /\ Dying' = Dying \ {b} /\ b \in Dying /\ b \in Blocks
      /\ frees[b] = 0
  BY Mapped DEF Dying
<1>2. todos' = todos /\ \A r \in todos : r[1] # b
  BY Mapped DEF SameLeft
<1>3. frees' = [frees EXCEPT ![b] = 1] /\ frees \in [Blocks -> {0, 1}]
  BY <1>1 DEF FreeBlock, MaxFrees, Structure, Memory
<1>4. status' = [status EXCEPT ![b] = "freed"] /\ status[b] = "dying"
  <2>1. frees'[b] = 1 /\ \A x \in Blocks : x # b => frees'[x] = frees[x]
    BY <1>1, <1>3
  <2>2. \A x \in Blocks : x # b => (x \in Dying' <=> x \in Dying)
    BY <1>1
  <2>3. \A x \in Blocks : status'[x] = IF x = b THEN "freed" ELSE status[x]
    BY <2>1, <2>2 DEF status
  <2>4. status[b] = "dying"
    BY <1>1 DEF status
  <2>5. QED
    BY <2>3, <2>4 DEF status
<1>5. QED
  BY <1>1, <1>2, <1>4 DEF Drop!Free

(* A reference to c, which lives, is released.                             *)
LEMMA ReleaseStep ==
  ASSUME Structure, Structure', Drop!IInv, UNCHANGED <<heap, frees>>,
         NEW c \in Blocks, c \notin Dying, frees[c] = 0, Decref(c), NEW gone \in SUBSET Fields,
         InUse' = IF LastRef(c) THEN InUse \cup {c} ELSE InUse,
         SameLeft((Remaining \ gone) \cup (IF LastRef(c) THEN {r \in Fields : r[1] = c} ELSE {}))
  PROVE  Drop!Release(c, todos \ gone)
<1>1. rc[c] \in Nat \cup {STUCK} /\ Drop!STUCK = STUCK /\ STUCK = -1
  BY DEF Drop!IInv, Drop!TypeOK, Drop!STUCK, STUCK
<1>2. edges' = edges /\ Dying = InUse /\ Dying' = InUse'
  BY Mapped
<1>3. Drop!Fields = Fields
  BY DEF Drop!Fields, Fields
<1>4. CASE rc[c] # 0
  <2>1. Dying' = Dying
    BY <1>2, <1>4 DEF LastRef
  <2>2. status' = status
    BY <2>1 DEF status
  <2>3. todos' = todos \ gone
    BY Mapped, <1>4 DEF SameLeft, LastRef
  <2>4. QED
    BY <1>1, <1>4, <2>2, <2>3 DEF Drop!Release, Decref
<1>5. CASE rc[c] = 0
  <2>1. Dying' = Dying \cup {c}
    BY <1>2, <1>5 DEF LastRef
  <2>2. status' = [status EXCEPT ![c] = "dying"]
    <3>1. \A x \in Blocks : x # c => (x \in Dying' <=> x \in Dying)
      BY <2>1
    <3>2. c \in Dying'
      BY <2>1
    <3> HIDE DEF Dying
    <3>3. \A x \in Blocks : status'[x] = IF x = c THEN "dying" ELSE status[x]
      BY <3>1, <3>2 DEF status
    <3>4. QED
      BY <3>3 DEF status
  <2>3. Drop!Out(c) = {r \in Fields : r[1] = c /\ EdgeOf(r) # Val}
    BY <1>3 DEF Drop!Out, edges, Fields
  <2>4. todos' = (todos \ gone) \cup Drop!Out(c)
    BY Mapped, <1>5, <2>3 DEF SameLeft, LastRef
  <2>5. UNCHANGED rc
    BY <1>5 DEF Decref
  <2>6. QED
    BY <1>5, <2>2, <2>4, <2>5 DEF Drop!Release
<1>6. QED
  BY <1>4, <1>5
-----------------------------------------------------------------------------
(* Each action keeps Structure and is a step of RecursiveDrop or none.     *)
LEMMA TopIs ==
  ASSUME Structure, stack # <<>>
  PROVE  /\ Top \in FrameType /\ Top.b \in Blocks /\ Top.i \in Nat /\ FrameOK(Top)
         /\ Top.parent \in Blocks \cup {Null}
         /\ idx[Top.b] \in Nat
         /\ Active(Top) => Top.b \in Held /\ Top.b \in InUse /\ frees[Top.b] = 0 /\ Top.b # ret
         /\ Active(Top) => Top.b \notin Below /\ Top.b \notin Parked
         /\ Below \subseteq Held /\ Below \subseteq Blocks
         /\ Top.at \notin {"child", "one"} => ret = Null
         /\ frees' = frees => FreesTop
         /\ Active(Top) /\ FreeBlock(Top.b) => FreesTop /\ frees'[Top.b] > 0
<1>1. Top \in FrameType /\ FrameOK(Top)
  BY Towers DEF Structure, FramesOK
<1>2. Top.b \in Blocks /\ Top.i \in Nat /\ Top.parent \in Blocks \cup {Null}
  BY <1>1 DEF FrameType
<1>3. Below \subseteq Held /\ Below \subseteq Blocks /\ (Active(Top) => Top.b \in Held /\ Top.b \notin Below)
  BY HeldSplit DEF Held
<1>4. Active(Top) => Top.b \in InUse /\ Top.b \notin Parked /\ Top.b # ret
  BY <1>2, <1>3, DropAssumption DEF InUse, Parked, Structure, Result
<1>5. frees' = frees => FreesTop
  BY DEF FreesTop, Structure, Memory
<1>6. ASSUME Active(Top), FreeBlock(Top.b) PROVE FreesTop /\ frees'[Top.b] > 0
  <2>1. frees[Top.b] = 0 /\ frees \in [Blocks -> {0, 1}]
    BY <1>1, <1>6 DEF FrameOK, Structure, Memory
  <2>2. frees' = [frees EXCEPT ![Top.b] = 1]
    BY <1>6, <2>1 DEF FreeBlock, MaxFrees
  <2> HIDE DEF Top
  <2>3. QED
    BY <1>2, <1>6, <2>1, <2>2 DEF FreesTop
<1>7. idx[Top.b] \in Nat
  BY <1>2 DEF Structure, Memory
<1>8. Active(Top) => frees[Top.b] = 0
  BY <1>1 DEF FrameOK
<1>9. QED
  BY <1>1, <1>2, <1>3, <1>4, <1>5, <1>6, <1>7, <1>8 DEF Structure, Result

LEMMA NoResult ==
  /\ {b \in Blocks : b = Null} = {} /\ {r \in Fields : r[1] = Null} = {}
  /\ \A fr : ~ Active(fr) => Left(fr) = {}
BY DropAssumption DEF Fields, Left

Simulates == Structure' /\ [Drop!Next]_(Drop!vars)

LEMMA DropFreeReturnsStep ==
  ASSUME Structure, DropFreeReturns
  PROVE  Simulates
<1>1. /\ stack # <<>> /\ Top.fn = "drop_free" /\ ~ Active(Top)
      /\ UNCHANGED <<heap, field, idx, roots, rc, frees>> /\ ret' = Null
  BY DEF DropFreeReturns, Running, Top, Active, links
<1>2. Result'
  BY <1>1 DEF Result
<1>3. Structure' /\ InUse' = InUse /\ SameLeft(Remaining)
  <2>1. CASE ret = Null
    <3>1. Return
      BY <2>1 DEF DropFreeReturns
    <3>2. QED
      BY <1>1, <1>2, <2>1, <3>1, TopIs, ReturnStep, Splits, NoResult DEF Structure, SameLeft
  <2>2. CASE ret # Null
    <3> DEFINE fr == Recx(ret)
    <3>1. ret \in Blocks /\ ret \notin Held /\ frees[ret] = 0 /\ idx[ret] = 0
      BY <2>2 DEF Structure, Result
    <3>2. /\ fr \in FrameType /\ Active(fr) /\ fr.fn = "recx" /\ fr.b = ret /\ fr.parent = Null
          /\ fr.at = "down"
      BY <3>1 DEF Recx, FrameType, Active
    <3>3. FrameNext(fr) /\ Enters(fr) /\ Keeps(fr)
      BY <1>1, <3>1, <3>2 DEF FrameNext, Enters, Keeps, Places
    <3>4. Height % 2 = 1
      <4>1. Height = 1
        BY <1>1, Towers DEF Structure, FramesOK, Nested
      <4>2. QED
        BY <4>1
    <3>5. Goto(fr)
      BY <2>2 DEF DropFreeReturns
    <3> HIDE DEF fr
    <3>6. /\ Memory' /\ FramesOK' /\ Nested' /\ Chained'
          /\ InUse' = Below \cup {ret} \cup Parked \cup {b \in Blocks : b = ret'}
          /\ Remaining' = LeftBelow \cup Left(fr) \cup LeftParked \cup {r \in Fields : r[1] = ret'}
      BY <1>1, <3>2, <3>3, <3>4, <3>5, TopIs, GotoStep
    <3>7. \A r \in Fields : EdgeOf(r) # Val => (r \in Left(fr) <=> r[1] = ret)
      BY <3>2, EdgeFields DEF Left, From, Structure
    <3>8. QED
      BY <1>1, <1>2, <3>1, <3>6, <3>7, Splits, NoResult DEF Structure, SameLeft
  <2>3. QED
    BY <2>1, <2>2
<1>4. QED
  BY <1>1, <1>3, QuietStep DEF Simulates

LEMMA FastOtherStep ==
  ASSUME Structure, FastOther
  PROVE  Simulates
<1>1. /\ stack # <<>> /\ Top.fn = "fast_drop_free" /\ Top.at = "start" /\ Active(Top)
      /\ UNCHANGED <<heap, field, idx, roots, rc, frees>> /\ ret' = Top.b /\ Return
  BY DEF FastOther, Running, Top, Active, links
<1>2. ret = Null /\ Top.b \in Blocks /\ frees[Top.b] = 0 /\ idx[Top.b] = 0 /\ Top.b \notin Below
  BY <1>1, TopIs DEF FrameOK
<1>3. /\ Memory' /\ FramesOK' /\ Nested' /\ Chained'
      /\ stack' # <<>> /\ Top'.at = "child" /\ Held' = Below
      /\ InUse' = Below \cup Parked \cup {b \in Blocks : b = ret'}
      /\ Remaining' = LeftBelow \cup LeftParked \cup {r \in Fields : r[1] = ret'}
  BY <1>1, <1>2, TopIs, ReturnStep
<1>4. Result'
  BY <1>1, <1>2, <1>3 DEF Result
<1>5. \A r \in Fields : EdgeOf(r) # Val => (r \in Left(Top) <=> r[1] = Top.b)
  BY <1>1, EdgeFields DEF Left, From, Structure
<1>6. Structure' /\ InUse' = InUse /\ SameLeft(Remaining)
  BY <1>1, <1>2, <1>3, <1>4, <1>5, Splits, NoResult DEF Structure, SameLeft
<1>7. QED
  BY <1>1, <1>6, QuietStep DEF Simulates

LEMMA RecxDownStep ==
  ASSUME Structure, RecxDown
  PROVE  Simulates
<1>1. /\ stack # <<>> /\ Top.fn = "recx" /\ Top.at = "down" /\ Active(Top)
      /\ UNCHANGED <<heap, field, idx, roots, rc, frees, ret>>
  BY DEF RecxDown, Running, Top, Active, links
<1>2. ret = Null /\ Top \in FrameType /\ Top.b \in Blocks /\ frees[Top.b] = 0 /\ idx[Top.b] = 0
      /\ Top.parent \in Blocks \cup {Null} /\ FreesTop
  BY <1>1, TopIs DEF FrameOK
<1>3. \A r \in Fields : EdgeOf(r) # Val => (r \in Left(Top) <=> r[1] = Top.b)
  BY <1>1, EdgeFields DEF Left, From, Structure
<1>4. Result'
  BY <1>1, <1>2 DEF Result
<1>5. Structure' /\ InUse' = InUse /\ SameLeft(Remaining)
  <2>1. CASE HeaderScan(Top.b) = KK_SCAN_FSIZE_MAX
    <3> DEFINE fr == [Top EXCEPT !.at = "up"]
               callee == Large(Top.b)
    <3>1. /\ fr \in FrameType /\ ~ Active(fr) /\ fr.fn = "recx" /\ fr.parent = Top.parent
          /\ fr.at = "up"
      BY <1>1, <1>2 DEF FrameType, Active
    <3>2. /\ callee \in FrameType /\ Active(callee) /\ callee.fn = "large_rec" /\ callee.at = "scan"
          /\ callee.b = Top.b /\ callee.parent = Null /\ callee.i = 1
      BY <1>2 DEF Large, FrameType, Active
    <3>3. FrameNext(fr) /\ Enters(fr) /\ FrameNext(callee) /\ Enters(callee) /\ Keeps(callee)
      BY <1>1, <1>2, <3>1, <3>2 DEF FrameNext, Enters, Keeps, Places
    <3>4. Call(fr, callee)
      BY <2>1 DEF RecxDown
    <3> HIDE DEF fr, callee
    <3>5. /\ Memory' /\ FramesOK' /\ Nested' /\ Chained'
          /\ InUse' = Below \cup {Top.b} \cup Parked \cup {b \in Blocks : b = ret'}
          /\ Remaining' = LeftBelow \cup Left(fr) \cup Left(callee) \cup LeftParked
                            \cup {r \in Fields : r[1] = ret'}
      BY <1>1, <1>2, <3>1, <3>2, <3>3, <3>4, CallStep
    <3>6. IsVector(Top.b)
      BY <1>2, <2>1, Sizes DEF HeaderScan, Structure
    <3>7. \A r \in Fields : EdgeOf(r) # Val => (r \in Left(callee) <=> r[1] = Top.b)
      <4>1. SUFFICES ASSUME NEW r \in Fields, EdgeOf(r) # Val, r[1] = Top.b PROVE 1 <= r[2]
        BY <3>2 DEF Left, From
      <4>2. r[2] \in Nat /\ heap[Top.b][r[2]] \in Blocks
        BY <4>1, EdgeFields DEF Structure
      <4>3. heap[Top.b][0] \notin Blocks
        BY <3>6, DropAssumption DEF IsVector
      <4>4. QED
        BY <4>2, <4>3
    <3>8. QED
      BY <1>1, <1>2, <1>3, <1>4, <3>1, <3>5, <3>7, Splits, NoResult DEF Structure, SameLeft
  <2>2. CASE HeaderScan(Top.b) # KK_SCAN_FSIZE_MAX
    <3> DEFINE fr == [Top EXCEPT !.at = "scan", !.i = 0]
    <3>1. /\ fr \in FrameType /\ Active(fr) /\ fr.fn = "recx" /\ fr.b = Top.b /\ fr.i = 0
          /\ fr.at = "scan" /\ fr.parent = Top.parent
      BY <1>1, <1>2 DEF FrameType, Active
    <3>2. FrameNext(fr) /\ Enters(fr) /\ Keeps(fr)
      BY <1>1, <1>2, <3>1 DEF FrameNext, Enters, Keeps, Places
    <3>3. Goto(fr)
      BY <2>2 DEF RecxDown
    <3> HIDE DEF fr
    <3>4. /\ Memory' /\ FramesOK' /\ Nested' /\ Chained'
          /\ InUse' = Below \cup {Top.b} \cup Parked \cup {b \in Blocks : b = ret'}
          /\ Remaining' = LeftBelow \cup Left(fr) \cup LeftParked \cup {r \in Fields : r[1] = ret'}
      BY <1>1, <1>2, <3>1, <3>2, <3>3, GotoStep
    <3>5. \A r \in Fields : EdgeOf(r) # Val => (r \in Left(fr) <=> r[1] = Top.b)
      BY <3>1, EdgeFields DEF Left, From, Structure
    <3>6. QED
      BY <1>1, <1>2, <1>3, <1>4, <3>4, <3>5, Splits, NoResult DEF Structure, SameLeft
  <2>3. QED
    BY <2>1, <2>2
<1>6. QED
  BY <1>1, <1>5, QuietStep DEF Simulates

LEMMA LargeChildStep ==
  ASSUME Structure, LargeChild
  PROVE  Simulates
<1> DEFINE fr == [Top EXCEPT !.at = "scan"]
           callee == Recx(ret)
<1>1. /\ stack # <<>> /\ Top.fn = "large_rec" /\ Top.at = "child" /\ Active(Top)
      /\ UNCHANGED <<heap, field, idx, roots, rc, frees>> /\ ret' = Null
      /\ ret = Null => Goto(fr)
      /\ ret # Null => Call(fr, callee)
  BY DEF LargeChild, Running, Top, Active, links
<1>2. Top \in FrameType /\ FrameOK(Top) /\ Top.b \in Blocks /\ Top.i \in Nat /\ FreesTop
  BY <1>1, TopIs
<1>3. /\ fr \in FrameType /\ Active(fr) /\ fr.fn = Top.fn /\ fr.b = Top.b /\ fr.i = Top.i
      /\ fr.at = "scan" /\ fr.parent = Top.parent
  BY <1>1, <1>2 DEF FrameType, Active
<1>4. FrameNext(fr) /\ Enters(fr) /\ Keeps(fr)
  BY <1>1, <1>2, <1>3 DEF FrameOK, FrameNext, Enters, Keeps, Places
<1>5. Left(fr) = Left(Top)
  BY <1>1, <1>3 DEF Left, From
<1>6. Result'
  BY <1>1 DEF Result
<1>7. Structure' /\ InUse' = InUse /\ SameLeft(Remaining)
  <2>1. CASE ret = Null
    <3>1. Goto(fr)
      BY <1>1, <2>1
    <3> HIDE DEF fr, callee
    <3>2. QED
      BY <1>1, <1>2, <1>3, <1>4, <1>5, <1>6, <2>1, <3>1, GotoStep, Splits, NoResult
      DEF Structure, SameLeft
  <2>2. CASE ret # Null
    <3>1. ret \in Blocks /\ ret \notin Held /\ frees[ret] = 0 /\ idx[ret] = 0 /\ ret # Top.b
      BY <1>1, <2>2, TopIs DEF Structure, Result
    <3>2. /\ callee \in FrameType /\ Active(callee) /\ callee.fn = "recx" /\ callee.b = ret
          /\ callee.parent = Null /\ callee.at = "down"
      BY <3>1 DEF Recx, FrameType, Active
    <3>3. FrameNext(callee) /\ Enters(callee)
      BY <1>1, <3>1, <3>2 DEF FrameNext, Enters, Places
    <3>4. Call(fr, callee)
      BY <1>1, <2>2
    <3> HIDE DEF fr, callee
    <3>5. /\ Memory' /\ FramesOK' /\ Nested' /\ Chained'
          /\ InUse' = Below \cup {Top.b, ret} \cup Parked \cup {b \in Blocks : b = ret'}
          /\ Remaining' = LeftBelow \cup Left(fr) \cup Left(callee) \cup LeftParked
                            \cup {r \in Fields : r[1] = ret'}
      BY <1>1, <1>2, <1>3, <1>4, <3>1, <3>2, <3>3, <3>4, CallStep
    <3>6. \A r \in Fields : EdgeOf(r) # Val => (r \in Left(callee) <=> r[1] = ret)
      BY <3>2, EdgeFields DEF Left, From, Structure
    <3>7. QED
      BY <1>1, <1>5, <1>6, <3>1, <3>5, <3>6, Splits, NoResult DEF Structure, SameLeft
  <2>3. QED
    BY <2>1, <2>2
<1>8. QED
  BY <1>1, <1>7, QuietStep DEF Simulates

(* The running block is freed when none of its fields is left to release.  *)
LEMMA FreedTop ==
  ASSUME Structure, Structure', stack # <<>>, Active(Top), FreeBlock(Top.b),
         UNCHANGED <<heap, roots, rc>>,
         \A r \in Fields : EdgeOf(r) # Val => r \notin Left(Top),
         InUse' = InUse \ {Top.b}, SameLeft(Remaining)
  PROVE  Simulates
<1>1. Top.b \in InUse /\ Top.b \in Blocks /\ Top.b # ret /\ Top.b \notin Below /\ Top.b \notin Parked
  BY TopIs
<1>2. ASSUME NEW r \in Remaining, EdgeOf(r) # Val PROVE r[1] # Top.b
  <2>1. r \in Fields /\ r \notin Left(Top)
    BY <1>2 DEF Remaining, Left, LeftParked
  <2>2. r \in LeftBelow => r[1] \in Below
    BY <2>1 DEF LeftBelow, Left, Below, Fields
  <2>3. QED
    BY <1>1, <2>1, <2>2, Splits DEF LeftParked
<1>3. Drop!Free(Top.b)
  BY <1>1, <1>2, FreeStep
<1>4. QED
  BY <1>1, <1>3 DEF Simulates, Drop!Next

LEMMA FastLeafStep ==
  ASSUME Structure, FastLeaf
  PROVE  Simulates
<1>1. /\ stack # <<>> /\ Top.fn = "fast_drop_free" /\ Top.at = "start" /\ Active(Top)
      /\ UNCHANGED <<heap, field, idx, roots, rc, ret>> /\ FreeBlock(Top.b) /\ Return
      /\ HeaderScan(Top.b) = 0
  BY DEF FastLeaf, Running, Top, Active, links
<1>2. ret = Null /\ FreesTop /\ frees'[Top.b] > 0 /\ Top.b \in Blocks
      /\ Top.b \notin Below /\ Top.b \notin Parked
  BY <1>1, TopIs
<1>3. /\ Memory' /\ FramesOK' /\ Nested' /\ Chained'
      /\ InUse' = Below \cup Parked \cup {b \in Blocks : b = ret'}
      /\ Remaining' = LeftBelow \cup LeftParked \cup {r \in Fields : r[1] = ret'}
  BY <1>1, <1>2, ReturnStep
<1>4. Result'
  BY <1>1, <1>2 DEF Result
<1>5. Size(Top.b) = 0
  BY <1>1 DEF HeaderScan, KK_SCAN_FSIZE_MAX
<1>6. \A r \in Fields : EdgeOf(r) # Val => r \notin Left(Top)
  BY <1>5, EdgeFields DEF Left, Structure
<1>7. Structure' /\ InUse' = InUse \ {Top.b} /\ SameLeft(Remaining)
  BY <1>1, <1>2, <1>3, <1>4, <1>6, Splits, NoResult DEF Structure, SameLeft
<1>8. QED
  BY <1>1, <1>6, <1>7, FreedTop

LEMMA LargeFreeStep ==
  ASSUME Structure, LargeFree
  PROVE  Simulates
<1>1. /\ stack # <<>> /\ Top.fn = "large_rec" /\ Top.at = "scan" /\ Active(Top)
      /\ UNCHANGED <<heap, field, idx, roots, rc, ret>> /\ FreeBlock(Top.b) /\ Return
      /\ Top.i = Size(Top.b)
  BY DEF LargeFree, Running, Top, Active, links
<1>2. ret = Null /\ FreesTop /\ frees'[Top.b] > 0 /\ Top.b \in Blocks
      /\ Top.b \notin Below /\ Top.b \notin Parked
  BY <1>1, TopIs
<1>3. /\ Memory' /\ FramesOK' /\ Nested' /\ Chained'
      /\ InUse' = Below \cup Parked \cup {b \in Blocks : b = ret'}
      /\ Remaining' = LeftBelow \cup LeftParked \cup {r \in Fields : r[1] = ret'}
  BY <1>1, <1>2, ReturnStep
<1>4. Result'
  BY <1>1, <1>2 DEF Result
<1>5. \A r \in Fields : EdgeOf(r) # Val => r \notin Left(Top)
  BY <1>1, <1>2, EdgeFields, Sizes DEF Left, From, Structure
<1>6. Structure' /\ InUse' = InUse \ {Top.b} /\ SameLeft(Remaining)
  BY <1>1, <1>2, <1>3, <1>4, <1>5, Splits, NoResult DEF Structure, SameLeft
<1>7. QED
  BY <1>1, <1>5, <1>6, FreedTop

LEMMA FastOneFieldFreeStep ==
  ASSUME Structure, FastOneFieldFree
  PROVE  Simulates
<1> DEFINE fr == Fast(ret)
<1>1. /\ stack # <<>> /\ Top.fn = "fast_drop_free" /\ Top.at = "one" /\ Active(Top)
      /\ UNCHANGED <<heap, field, idx, roots, rc>> /\ FreeBlock(Top.b) /\ ret' = Null
      /\ ret = Null => Return
      /\ ret # Null => Goto(fr)
  BY DEF FastOneFieldFree, Running, Top, Active, links
<1>2. FreesTop /\ frees'[Top.b] > 0 /\ Top.b \in Blocks /\ Top.b # ret
      /\ Top.b \notin Below /\ Top.b \notin Parked
  BY <1>1, TopIs
<1>3. Result'
  BY <1>1 DEF Result
<1>4. \A r \in Fields : r \notin Left(Top)
  BY <1>1 DEF Left
<1>5. Structure' /\ InUse' = InUse \ {Top.b} /\ SameLeft(Remaining)
  <2>1. CASE ret = Null
    <3>1. Return
      BY <1>1, <2>1
    <3> HIDE DEF fr
    <3>2. /\ Memory' /\ FramesOK' /\ Nested' /\ Chained'
          /\ InUse' = Below \cup Parked \cup {b \in Blocks : b = ret'}
          /\ Remaining' = LeftBelow \cup LeftParked \cup {r \in Fields : r[1] = ret'}
      BY <1>1, <1>2, <3>1, ReturnStep
    <3>3. QED
      BY <1>1, <1>2, <1>3, <1>4, <2>1, <3>2, Splits, NoResult DEF Structure, SameLeft
  <2>2. CASE ret # Null
    <3>1. ret \in Blocks /\ ret \notin Held /\ frees[ret] = 0 /\ idx[ret] = 0
      BY <2>2 DEF Structure, Result
    <3>2. /\ fr \in FrameType /\ Active(fr) /\ fr.fn = "fast_drop_free" /\ fr.b = ret
          /\ fr.parent = Null /\ fr.at = "start"
      BY <3>1 DEF Fast, FrameType, Active
    <3>3. frees'[ret] = 0
      BY <1>2, <3>1 DEF FreesTop
    <3>4. FrameNext(fr) /\ Enters(fr) /\ Keeps(fr)
      BY <1>2, <3>1, <3>2, <3>3 DEF FrameNext, Enters, Keeps, Places
    <3>5. Goto(fr)
      BY <1>1, <2>2
    <3> HIDE DEF fr
    <3>6. /\ Memory' /\ FramesOK' /\ Nested' /\ Chained'
          /\ InUse' = Below \cup {ret} \cup Parked \cup {b \in Blocks : b = ret'}
          /\ Remaining' = LeftBelow \cup Left(fr) \cup LeftParked \cup {r \in Fields : r[1] = ret'}
      BY <1>1, <1>2, <3>2, <3>4, <3>5, GotoStep
    <3>7. \A r \in Fields : EdgeOf(r) # Val => (r \in Left(fr) <=> r[1] = ret)
      BY <3>2, EdgeFields DEF Left, From, Structure
    <3>8. QED
      BY <1>1, <1>2, <1>3, <1>4, <3>1, <3>6, <3>7, Splits, NoResult DEF Structure, SameLeft
  <2>3. QED
    BY <2>1, <2>2
<1>6. QED
  BY <1>1, <1>4, <1>5, FreedTop

LEMMA RecxLastFieldStep ==
  ASSUME Structure, RecxLastField
  PROVE  Simulates
<1> DEFINE fr == [Top EXCEPT !.at = "down", !.b = ret]
<1>1. /\ stack # <<>> /\ Top.fn = "recx" /\ Top.at = "child" /\ Active(Top)
      /\ UNCHANGED <<heap, field, idx, roots, rc>> /\ FreeBlock(Top.b) /\ ret' = Null
      /\ ret # Null /\ Top.i = Size(Top.b) /\ Goto(fr)
  BY DEF RecxLastField, Running, Top, Active, links
<1>2. FreesTop /\ frees'[Top.b] > 0 /\ Top.b \in Blocks /\ Top.b # ret /\ Top \in FrameType
      /\ Top.b \notin Below /\ Top.b \notin Parked
  BY <1>1, TopIs
<1>3. Result'
  BY <1>1 DEF Result
<1>4. \A r \in Fields : EdgeOf(r) # Val => r \notin Left(Top)
  BY <1>1, <1>2, EdgeFields, Sizes DEF Left, From, Structure
<1>5. ret \in Blocks /\ ret \notin Held /\ frees[ret] = 0 /\ idx[ret] = 0
  BY <1>1 DEF Structure, Result
<1>6. /\ fr \in FrameType /\ Active(fr) /\ fr.fn = "recx" /\ fr.b = ret
      /\ fr.parent = Top.parent /\ fr.at = "down"
  BY <1>1, <1>2, <1>5 DEF FrameType, Active
<1>7. frees'[ret] = 0
  BY <1>2, <1>5 DEF FreesTop
<1>8. FrameNext(fr) /\ Enters(fr) /\ Keeps(fr)
  BY <1>2, <1>5, <1>6, <1>7 DEF FrameNext, Enters, Keeps, Places
<1>9. Goto(fr)
  BY <1>1
<1> HIDE DEF fr
<1>10. /\ Memory' /\ FramesOK' /\ Nested' /\ Chained'
       /\ InUse' = Below \cup {ret} \cup Parked \cup {b \in Blocks : b = ret'}
       /\ Remaining' = LeftBelow \cup Left(fr) \cup LeftParked \cup {r \in Fields : r[1] = ret'}
  BY <1>1, <1>2, <1>6, <1>8, <1>9, GotoStep
<1>11. \A r \in Fields : EdgeOf(r) # Val => (r \in Left(fr) <=> r[1] = ret)
  BY <1>6, EdgeFields DEF Left, From, Structure
<1>12. Structure' /\ InUse' = InUse \ {Top.b} /\ SameLeft(Remaining)
  BY <1>1, <1>2, <1>3, <1>4, <1>5, <1>10, <1>11, Splits, NoResult DEF Structure, SameLeft
<1>13. QED
  BY <1>1, <1>4, <1>12, FreedTop

LEMMA RecxNextFieldStep ==
  ASSUME Structure, RecxNextField
  PROVE  Simulates
<1>1. /\ stack # <<>> /\ Top.fn = "recx" /\ Top.at = "child" /\ Active(Top)
      /\ UNCHANGED <<heap, field, idx, roots, rc>> /\ ret = Null /\ ret' = Null
  BY DEF RecxNextField, Running, Top, Active, links
<1>2. Top \in FrameType /\ FrameOK(Top) /\ Top.b \in Blocks /\ Top.i \in Nat
      /\ Top.b \notin Below /\ Top.b \notin Parked
  BY <1>1, TopIs
<1>3. Result'
  BY <1>1 DEF Result
<1>4. CASE Top.i < Size(Top.b)
  <2> DEFINE fr == [Top EXCEPT !.at = "scan"]
  <2>1. Goto(fr) /\ UNCHANGED frees /\ FreesTop
    BY <1>1, <1>4, TopIs DEF RecxNextField
  <2>2. /\ fr \in FrameType /\ Active(fr) /\ fr.fn = Top.fn /\ fr.b = Top.b /\ fr.i = Top.i
        /\ fr.at = "scan" /\ fr.parent = Top.parent
    BY <1>1, <1>2 DEF FrameType, Active
  <2>3. FrameNext(fr) /\ Enters(fr) /\ Keeps(fr)
    BY <1>1, <1>2, <2>1, <2>2 DEF FrameOK, FrameNext, Enters, Keeps, Places
  <2>4. Left(fr) = Left(Top)
    BY <1>1, <2>2 DEF Left, From
  <2> HIDE DEF fr
  <2>5. Structure' /\ InUse' = InUse /\ SameLeft(Remaining)
    BY <1>1, <1>2, <1>3, <2>1, <2>2, <2>3, <2>4, GotoStep, Splits, NoResult
    DEF Structure, SameLeft
  <2>6. QED
    BY <1>1, <2>1, <2>5, QuietStep DEF Simulates
<1>5. CASE ~ Top.i < Size(Top.b)
  <2> DEFINE fr == [Top EXCEPT !.at = "up"]
  <2>1. Goto(fr) /\ FreeBlock(Top.b) /\ FreesTop /\ frees'[Top.b] > 0
    BY <1>1, <1>5, TopIs DEF RecxNextField
  <2>2. /\ fr \in FrameType /\ ~ Active(fr) /\ fr.fn = Top.fn
        /\ fr.at = "up" /\ fr.parent = Top.parent
    BY <1>1, <1>2 DEF FrameType, Active
  <2>3. FrameNext(fr) /\ Enters(fr) /\ Keeps(fr)
    BY <1>1, <2>1, <2>2 DEF FrameNext, Enters, Keeps, Places
  <2>4. \A r \in Fields : EdgeOf(r) # Val => r \notin Left(Top)
    BY <1>1, <1>2, <1>5, EdgeFields, Sizes DEF Left, From, Structure
  <2> HIDE DEF fr
  <2>5. Structure' /\ InUse' = InUse \ {Top.b} /\ SameLeft(Remaining)
    BY <1>1, <1>2, <1>3, <2>1, <2>2, <2>3, <2>4, GotoStep, Splits, NoResult
    DEF Structure, SameLeft
  <2>6. QED
    BY <1>1, <2>1, <2>4, <2>5, FreedTop
<1>6. QED
  BY <1>4, <1>5

-----------------------------------------------------------------------------
(* The steps that release a reference.                                     *)
Fresh(c) ==
  /\ c \in Blocks /\ c \notin Dying /\ c \notin Held /\ c \notin Parked /\ c # ret
  /\ frees[c] = 0 /\ idx[c] = 0

LEMMA FreshAre ==
  ASSUME Structure, NEW c \in Blocks, c \notin Dying, frees[c] = 0
  PROVE  Fresh(c)
<1>1. c \notin InUse
  BY DyingAre
<1>2. idx[c] \in Nat
  BY DEF Structure, Memory
<1>3. QED
  BY <1>1, <1>2 DEF Fresh, InUse, Parked

(* Field i of the running block holds what it held at first.               *)
LEMMA FieldOfTop ==
  ASSUME Structure, Drop!IInv, stack # <<>>, Active(Top), NEW i \in 0..LastField(Top.b),
         idx[Top.b] <= i, <<Top.b, i>> \in Left(Top)
  PROVE  /\ <<Top.b, i>> \in Fields /\ EdgeOf(<<Top.b, i>>) = (IF IsPtr(field[Top.b][i]) THEN field[Top.b][i] ELSE Val)
         /\ IsPtr(field[Top.b][i]) =>
              /\ EdgeOf(<<Top.b, i>>) # Val /\ <<Top.b, i>> \in Remaining
              /\ Fresh(field[Top.b][i])
<1> DEFINE b == Top.b
           r == <<b, i>>
<1>1. b \in Blocks /\ idx[b] \in Nat
  BY TopIs
<1>2. Size(b) \in Nat /\ DOMAIN heap[b] = 0..(Size(b) - 1)
  BY <1>1, Sizes DEF Structure
<1>3. i \in DOMAIN heap[b] /\ i \in Nat
  BY <1>2 DEF LastField
<1>4. field[b][i] = heap[b][i]
  <2>1. i > 0 \/ idx[b] = 0
    BY <1>1, <1>3
  <2> HIDE DEF b
  <2>2. QED
    BY <1>1, <1>3, <2>1 DEF Structure, Memory
<1>5. r \in Fields /\ r[1] = b /\ r[2] = i
  BY DEF Left
<1> HIDE DEF b, r
<1>6. EdgeOf(r) = IF IsPtr(field[b][i]) THEN field[b][i] ELSE Val
  BY <1>3, <1>4, <1>5 DEF EdgeOf
<1>7. ASSUME IsPtr(field[b][i]) PROVE EdgeOf(r) # Val /\ r \in Remaining /\ Fresh(field[b][i])
  <2>1. EdgeOf(r) # Val /\ EdgeOf(r) = field[b][i]
    BY <1>6, <1>7, DropAssumption DEF IsPtr
  <2>2. r \in Remaining
    BY Splits DEF b, r
  <2>3. EdgeOf(r) \in Blocks /\ EdgeOf(r) \notin Dying /\ frees[EdgeOf(r)] = 0
    BY <1>5, <2>1, <2>2, TargetLives
  <2>4. QED
    BY <2>1, <2>2, <2>3, FreshAre
<1>8. QED
  BY <1>5, <1>6, <1>7 DEF b, r

(* The reference in field i is released.                                   *)
LEMMA ReleasedTop ==
  ASSUME Structure, Structure', Drop!IInv, UNCHANGED <<heap, roots, frees>>,
         NEW r \in Remaining, EdgeOf(r) # Val, Fresh(EdgeOf(r)), Decref(EdgeOf(r)),
         InUse' = IF LastRef(EdgeOf(r)) THEN InUse \cup {EdgeOf(r)} ELSE InUse,
         SameLeft((Remaining \ {r})
                    \cup (IF LastRef(EdgeOf(r)) THEN {q \in Fields : q[1] = EdgeOf(r)} ELSE {}))
  PROVE  Simulates
<1> DEFINE c == EdgeOf(r)
<1>1. r \in Fields /\ {r} \in SUBSET Fields
  BY DEF Remaining, Left, LeftParked
<1>2. Drop!Release(c, todos \ {r})
  <2> HIDE DEF c
  <2>1. c = EdgeOf(r)
    BY DEF c
  <2>2. QED
    BY <1>1, <2>1, ReleaseStep DEF Fresh
<1>3. edges' = edges /\ edges[r] = c /\ r \in todos
  BY <1>1, Mapped DEF edges, Fields
<1>4. r \in Drop!Fields
  BY <1>1 DEF Drop!Fields, Fields
<1>5. Drop!ReleaseField(r)
  BY <1>2, <1>3 DEF Drop!ReleaseField
<1>6. QED
  BY <1>4, <1>5 DEF Simulates, Drop!Next

LEMMA FastOneFieldStep ==
  ASSUME Structure, Drop!IInv, FastOneField
  PROVE  Simulates
<1> DEFINE b  == Top.b
           i  == LastField(b)
           r  == <<b, i>>
           fr == [Top EXCEPT !.at = "one"]
<1>1. /\ stack # <<>> /\ Top.fn = "fast_drop_free" /\ Top.at = "start" /\ Active(Top)
      /\ UNCHANGED <<heap, field, idx, roots, frees>> /\ OneField(b) /\ Goto(fr)
      /\ DecrefField(b, i) /\ ret' = IF ShouldFree(b, i) THEN field[b][i] ELSE Null
  BY DEF FastOneField, Running, Top, Active, links
<1>2. /\ Top \in FrameType /\ b \in Blocks /\ idx[b] = 0 /\ ret = Null /\ FreesTop
      /\ b \notin Below /\ b \notin Parked /\ b \in Held /\ frees[b] = 0
  BY <1>1, TopIs DEF FrameOK
<1>3. Size(b) \in Nat /\ DOMAIN heap[b] = 0..(Size(b) - 1) /\ DOMAIN heap[b] \subseteq Slots
  BY <1>2, Sizes DEF Structure, Memory, Wellformed
<1>4. Size(b) = 1 \/ (Size(b) = 2 /\ ~ IsPtr(heap[b][0]))
  <2>1. field[b] = [k \in DOMAIN heap[b] |-> field[b][k]]
        /\ \A k \in DOMAIN heap[b] : field[b][k] = heap[b][k]
    BY <1>2 DEF Structure, Memory
  <2>2. Size(b) = HeaderScan(b)
    BY <1>1 DEF OneField, HeaderScan, KK_SCAN_FSIZE_MAX
  <2>3. Size(b) = 2 => field[b][0] = heap[b][0]
    BY <1>3, <2>1
  <2>4. HeaderScan(b) = 1 \/ (HeaderScan(b) = 2 /\ ~ IsPtr(field[b][0]))
    BY <1>1 DEF OneField
  <2> HIDE DEF b
  <2>5. QED
    BY <2>2, <2>3, <2>4 DEF IsPtr
<1>5. i \in 0..LastField(b) /\ i \in DOMAIN heap[b] /\ i \in Slots /\ idx[b] <= i
  BY <1>2, <1>3, <1>4 DEF LastField
<1>6. r \in Left(Top)
  BY <1>1, <1>2, <1>5 DEF Left, From, Fields
<1>7. ASSUME NEW q \in Fields, EdgeOf(q) # Val, q \in Left(Top) PROVE q = r
  <2>1. q[1] = b /\ q[2] \in Nat /\ q[2] < Size(b) /\ IsPtr(heap[b][q[2]])
    BY <1>7, EdgeFields DEF Left, Structure, IsPtr
  <2>2. q[2] = i
    BY <1>3, <1>4, <2>1 DEF LastField
  <2>3. QED
    BY <2>1, <2>2 DEF Fields
<1>8. /\ fr \in FrameType /\ Active(fr) /\ fr.fn = Top.fn /\ fr.b = b
      /\ fr.at = "one" /\ fr.parent = Top.parent
  BY <1>1, <1>2 DEF FrameType, Active
<1>9. FrameNext(fr) /\ Enters(fr) /\ Keeps(fr)
  <2>1. Top.parent = Null
    BY <1>1, TopIs DEF FrameOK
  <2>2. QED
    BY <1>1, <1>2, <1>8, <2>1 DEF FrameNext, Enters, Keeps, Places
<1>10. Left(fr) = {}
  BY <1>8 DEF Left
<1>11. EdgeOf(r) = IF IsPtr(field[b][i]) THEN field[b][i] ELSE Val
  BY <1>1, <1>5, <1>6, FieldOfTop
<1>12. IsPtr(field[b][i]) => EdgeOf(r) # Val /\ r \in Remaining /\ Fresh(field[b][i])
  BY <1>1, <1>5, <1>6, FieldOfTop
<1>13. /\ Memory' /\ FramesOK' /\ Nested' /\ Chained' /\ stack' # <<>> /\ Top' = fr
       /\ Held' = Below \cup {b}
       /\ InUse' = Held' \cup Parked \cup {x \in Blocks : x = ret'}
       /\ Remaining' = LeftBelow \cup LeftParked \cup {q \in Fields : q[1] = ret'}
  <2> HIDE DEF fr, b, i
  <2>1. QED
    BY <1>1, <1>2, <1>8, <1>9, <1>10, GotoStep DEF b
<1>14. r[1] = b /\ r[2] = i /\ \A q \in LeftBelow : q[1] \in Below
  BY DEF LeftBelow, Left, Below, Fields
<1>15. InUse = Below \cup {b} \cup Parked
       /\ Remaining = LeftBelow \cup Left(Top) \cup LeftParked
  BY <1>1, <1>2, Splits, NoResult
<1> HIDE DEF b, i, r, fr
<1>16. CASE IsPtr(field[b][i])
  <2> DEFINE c == field[b][i]
  <2>1. EdgeOf(r) = c /\ EdgeOf(r) # Val /\ r \in Remaining /\ Fresh(c) /\ c # b
    BY <1>2, <1>11, <1>12, <1>16 DEF Fresh, b
  <2>2. Decref(c)
    BY <1>1, <1>16 DEF DecrefField
  <2>3. ret' = IF LastRef(c) THEN c ELSE Null
    BY <1>1, <1>16 DEF ShouldFree
  <2> HIDE DEF c
  <2>4. Result'
    <3>1. c \notin Held' /\ frees'[c] = 0 /\ idx'[c] = 0 /\ c \in Blocks
      BY <1>1, <1>2, <1>13, <2>1, TopIs DEF Fresh
    <3>2. QED
      BY <1>8, <1>13, <2>3, <3>1 DEF Result
  <2>5. Structure'
    BY <1>13, <2>4 DEF Structure
  <2>6. InUse' = IF LastRef(c) THEN InUse \cup {c} ELSE InUse
    <3>1. {x \in Blocks : x = ret'} = IF LastRef(c) THEN {c} ELSE {}
      BY <2>1, <2>3, NoResult DEF Fresh
    <3>2. QED
      BY <1>13, <1>15, <3>1
  <2>7. SameLeft((Remaining \ {r}) \cup (IF LastRef(c) THEN {q \in Fields : q[1] = c} ELSE {}))
    <3>1. r \notin LeftBelow /\ r \notin LeftParked /\ r[1] # c
      BY <1>2, <1>14, <2>1 DEF LeftParked
    <3>2. {q \in Fields : q[1] = ret'} = IF LastRef(c) THEN {q \in Fields : q[1] = c} ELSE {}
      BY <2>3, NoResult
    <3>3. QED
      BY <1>7, <1>13, <1>15, <3>1, <3>2 DEF SameLeft
  <2>8. QED
    BY <1>1, <2>1, <2>2, <2>5, <2>6, <2>7, ReleasedTop
<1>17. CASE ~ IsPtr(field[b][i])
  <2>1. ret' = Null /\ rc' = rc /\ EdgeOf(r) = Val
    BY <1>1, <1>11, <1>17 DEF ShouldFree, DecrefField
  <2>2. Structure'
    BY <1>13, <2>1 DEF Structure, Result
  <2>3. InUse' = InUse /\ SameLeft(Remaining)
    BY <1>7, <1>13, <1>15, <2>1, NoResult DEF SameLeft
  <2>4. QED
    BY <1>1, <2>1, <2>2, <2>3, QuietStep DEF Simulates
<1>18. QED
  BY <1>16, <1>17

LEMMA ScanFieldStep ==
  ASSUME Structure, Drop!IInv, ScanField
  PROVE  Simulates
<1> DEFINE b  == Top.b
           i  == Top.i
           r  == <<b, i>>
           c  == field[b][i]
           fr == [Top EXCEPT !.at = "child", !.i = @ + 1]
<1>1. /\ stack # <<>> /\ Top.fn \in {"recx", "large_rec"} /\ Top.at = "scan" /\ Active(Top)
      /\ UNCHANGED <<heap, field, idx, roots, frees, ret>> /\ i < Size(b)
      /\ DecrefField(b, i)
      /\ IF ShouldFree(b, i) THEN Call(fr, Fast(c)) ELSE Goto(fr)
  BY DEF ScanField, CallIfLast, Running, Top, Active, links
<1>2. /\ Top \in FrameType /\ FrameOK(Top) /\ b \in Blocks /\ ret = Null /\ FreesTop
      /\ b \notin Below /\ b \notin Parked /\ b \in Held /\ frees[b] = 0
      /\ i \in Nat /\ idx[b] \in Nat /\ idx[b] <= i
  BY <1>1, TopIs DEF FrameOK
<1>3. Size(b) \in Nat /\ DOMAIN heap[b] = 0..(Size(b) - 1) /\ DOMAIN heap[b] \subseteq Slots
  BY <1>2, Sizes DEF Structure, Memory, Wellformed
<1>4. i \in 0..LastField(b) /\ i \in Slots
  BY <1>1, <1>2, <1>3 DEF LastField
<1>5. r \in Left(Top)
  BY <1>1, <1>2, <1>4 DEF Left, From, Fields
<1>6. /\ fr \in FrameType /\ Active(fr) /\ fr.fn = Top.fn /\ fr.b = b /\ fr.i = i + 1
      /\ fr.at = "child" /\ fr.parent = Top.parent
  <2>1. fr = [Top EXCEPT !.at = "child", !.i = i + 1] /\ i + 1 \in Nat
    BY <1>2 DEF FrameType
  <2> HIDE DEF fr
  <2>2. fr \in FrameType
    BY <1>2, <2>1 DEF FrameType
  <2>3. QED
    BY <1>1, <1>2, <2>1, <2>2 DEF FrameType, Active
<1>7. FrameNext(fr) /\ Enters(fr) /\ Keeps(fr)
  BY <1>1, <1>2, <1>6 DEF FrameOK, FrameNext, Enters, Keeps, Places
<1>8. \A q \in Fields : EdgeOf(q) # Val => (q \in Left(fr) <=> q \in Left(Top) /\ q # r)
  <2>1. SUFFICES ASSUME NEW q \in Fields, EdgeOf(q) # Val, q[1] = b
                 PROVE  i + 1 <= q[2] <=> i <= q[2] /\ q # r
    BY <1>1, <1>6 DEF Left, From
  <2>2. q[2] \in Nat /\ q = <<q[1], q[2]>>
    BY <2>1, EdgeFields DEF Structure, Fields
  <2>3. q # r <=> q[2] # i
    BY <2>1, <2>2
  <2>4. QED
    BY <1>2, <2>2, <2>3
<1>9. EdgeOf(r) = IF IsPtr(c) THEN c ELSE Val
  BY <1>1, <1>2, <1>4, <1>5, FieldOfTop
<1>10. IsPtr(c) => EdgeOf(r) # Val /\ r \in Remaining /\ Fresh(c)
  BY <1>1, <1>2, <1>4, <1>5, FieldOfTop
<1>11. r[1] = b /\ r[2] = i /\ \A q \in LeftBelow : q[1] \in Below
  BY DEF LeftBelow, Left, Below, Fields
<1>12. InUse = Below \cup {b} \cup Parked
       /\ Remaining = LeftBelow \cup Left(Top) \cup LeftParked
  BY <1>1, <1>2, Splits, NoResult
<1>13. Result'
  BY <1>1, <1>2 DEF Result
<1>14. CASE ShouldFree(b, i)
  <2> DEFINE callee == Fast(c)
  <2>1. c \in Blocks /\ EdgeOf(r) = c /\ EdgeOf(r) # Val /\ r \in Remaining /\ Fresh(c) /\ c # b
        /\ LastRef(c)
    BY <1>2, <1>9, <1>10, <1>14 DEF ShouldFree, Fresh, IsPtr
  <2>2. Decref(c)
    BY <1>1, <1>14 DEF DecrefField, ShouldFree
  <2>3. /\ callee \in FrameType /\ Active(callee) /\ callee.fn = "fast_drop_free" /\ callee.b = c
        /\ callee.parent = Null /\ callee.at = "start"
    BY <2>1 DEF Fast, FrameType, Active
  <2>4. FrameNext(callee) /\ Enters(callee)
    BY <1>1, <2>1, <2>3 DEF FrameNext, Enters, Places, Fresh
  <2>5. Call(fr, callee)
    BY <1>1, <1>14
  <2>6. \A q \in Fields : EdgeOf(q) # Val => (q \in Left(callee) <=> q[1] = c)
    BY <2>3, EdgeFields DEF Left, From, Structure
  <2> HIDE DEF b, i, r, c, fr, callee
  <2>7. /\ Memory' /\ FramesOK' /\ Nested' /\ Chained'
        /\ InUse' = Below \cup {b, c} \cup Parked \cup {x \in Blocks : x = ret'}
        /\ Remaining' = LeftBelow \cup Left(fr) \cup Left(callee) \cup LeftParked
                          \cup {q \in Fields : q[1] = ret'}
    BY <1>1, <1>2, <1>6, <1>7, <2>1, <2>3, <2>4, <2>5, CallStep DEF b
  <2>8. Structure'
    BY <1>13, <2>7 DEF Structure
  <2>9. InUse' = InUse \cup {c}
    BY <1>1, <1>2, <1>12, <2>7, NoResult
  <2>10. SameLeft((Remaining \ {r}) \cup {q \in Fields : q[1] = c})
    <3>1. r \notin LeftBelow /\ r \notin LeftParked
      BY <1>2, <1>11 DEF LeftParked
    <3>2. {q \in Fields : q[1] = ret'} = {}
      BY <1>1, <1>2, NoResult
    <3>3. QED
      BY <1>8, <1>12, <2>6, <2>7, <3>1, <3>2 DEF SameLeft
  <2>11. QED
    BY <1>1, <2>1, <2>2, <2>8, <2>9, <2>10, ReleasedTop
<1>15. CASE ~ ShouldFree(b, i)
  <2>1. Goto(fr)
    BY <1>1, <1>15
  <2> HIDE DEF b, i, r, c, fr
  <2>2. /\ Memory' /\ FramesOK' /\ Nested' /\ Chained'
        /\ InUse' = Below \cup {b} \cup Parked \cup {x \in Blocks : x = ret'}
        /\ Remaining' = LeftBelow \cup Left(fr) \cup LeftParked \cup {q \in Fields : q[1] = ret'}
    BY <1>1, <1>2, <1>6, <1>7, <2>1, GotoStep DEF b
  <2>3. Structure'
    BY <1>13, <2>2 DEF Structure
  <2>4. InUse' = InUse
    BY <1>1, <1>2, <1>12, <2>2, NoResult
  <2>5. r \notin LeftBelow /\ r \notin LeftParked
    BY <1>2, <1>11 DEF LeftParked
  <2>6. SameLeft(Remaining \ {r})
    <3>1. {q \in Fields : q[1] = ret'} = {}
      BY <1>1, <1>2, NoResult
    <3>2. QED
      BY <1>8, <1>12, <2>2, <2>5, <3>1 DEF SameLeft
  <2>7. CASE IsPtr(c)
    <3>1. EdgeOf(r) = c /\ EdgeOf(r) # Val /\ r \in Remaining /\ Fresh(c) /\ ~ LastRef(c) /\ Decref(c)
      BY <1>1, <1>9, <1>10, <1>15, <2>7 DEF ShouldFree, DecrefField, c
    <3>2. SameLeft((Remaining \ {r}) \cup {})
      BY <2>6 DEF SameLeft
    <3>3. QED
      BY <1>1, <2>3, <2>4, <3>1, <3>2, ReleasedTop
  <2>8. CASE ~ IsPtr(c)
    <3>1. rc' = rc /\ EdgeOf(r) = Val
      BY <1>1, <1>9, <2>8 DEF DecrefField, c
    <3>2. SameLeft(Remaining)
      BY <2>6, <3>1 DEF SameLeft
    <3>3. QED
      BY <1>1, <2>3, <2>4, <3>1, <3>2, QuietStep DEF Simulates
  <2>9. QED
    BY <2>7, <2>8
<1>16. QED
  BY <1>14, <1>15

-----------------------------------------------------------------------------
(* The two steps that change the parent chain.                             *)
LEMMA GotoShape ==
  ASSUME Structure, stack # <<>>, NEW fr \in FrameType, Goto(fr), fr.fn = Top.fn
  PROVE  /\ stack' \in Seq(FrameType) /\ stack' # <<>> /\ Top' = fr /\ Nested'
         /\ DOMAIN tower' = DOMAIN tower /\ Height \in DOMAIN tower /\ tower[Height] = Top
         /\ tower'[Height] = fr
         /\ \A h \in DOMAIN tower : h # Height => tower'[h] = tower[h]
         /\ \A h \in DOMAIN tower : h # Height /\ Active(tower[h]) => tower[h].b \in Below
         /\ Held' = Below \cup (IF Active(fr) THEN {fr.b} ELSE {})
         /\ \A r \in Fields : (\E h \in DOMAIN tower' : r \in Left(tower'[h]))
                                <=> r \in LeftBelow \/ r \in Left(fr)
<1> DEFINE n == Height
<1>1. /\ n \in Nat /\ n > 0 /\ DOMAIN tower = 1..n /\ tower[n] = Top
      /\ \A h \in DOMAIN tower : tower[h].b \in Blocks
  BY Towers DEF Structure, FramesOK, FrameType
<1>2. /\ stack' \in Seq(FrameType) /\ stack' # <<>> /\ Height' = n /\ Top' = fr
      /\ tower' = [tower EXCEPT ![n] = fr]
  BY GotoTower DEF Structure, FramesOK
<1>3. n = Height
  OBVIOUS
<1> HIDE DEF n
<1>4. /\ \A h \in DOMAIN tower : h = n \/ h \in 1..(n - 1)
      /\ \A h \in 1..(n - 1) : h \in DOMAIN tower /\ h # n
      /\ n \in DOMAIN tower
  BY <1>1
<1>5. /\ DOMAIN tower' = DOMAIN tower /\ tower'[n] = fr
      /\ \A h \in DOMAIN tower : h # n => tower'[h] = tower[h]
  BY <1>2, <1>4
<1>6. \A h \in DOMAIN tower : h # n /\ Active(tower[h]) => tower[h].b \in Below
  BY <1>1, <1>3, <1>4 DEF Below
<1>7. Held' = Below \cup (IF Active(fr) THEN {fr.b} ELSE {})
  <2>1. \A b \in Blocks : b \in Held' <=> b \in Below \/ (Active(fr) /\ fr.b = b)
    BY <1>3, <1>4, <1>5 DEF Held, Below
  <2>2. Held' \subseteq Blocks /\ Below \subseteq Blocks /\ fr.b \in Blocks
    BY DEF Held, Below, FrameType
  <2>3. QED
    BY <2>1, <2>2
<1>8. \A r \in Fields : (\E h \in DOMAIN tower' : r \in Left(tower'[h]))
                          <=> r \in LeftBelow \/ r \in Left(fr)
  BY <1>3, <1>4, <1>5 DEF LeftBelow
<1>9. Nested'
  <2>1. \A h \in DOMAIN tower' : tower'[h].fn = tower[h].fn
    BY <1>1, <1>5
  <2>2. ASSUME NEW h \in DOMAIN tower', tower'[h].fn = "fast_drop_free"
        PROVE  h = n /\ h > 1 /\ tower'[h - 1].at = "child"
    <3>1. h = n /\ h > 1 /\ tower[h - 1].at = "child"
      BY <1>3, <1>5, <2>1, <2>2 DEF Structure, Nested
    <3>2. h - 1 \in 1..(n - 1)
      BY <1>1, <3>1
    <3>3. QED
      BY <1>4, <1>5, <3>1, <3>2
  <2>3. QED
    BY <1>2, <1>5, <2>1, <2>2 DEF Structure, Nested
<1>10. QED
  BY <1>2, <1>3, <1>4, <1>5, <1>1, <1>6, <1>7, <1>8, <1>9

LEMMA RecxPushParentStep ==
  ASSUME Structure, RecxPushParent
  PROVE  Simulates
<1> DEFINE b  == Top.b
           n  == Height
           fr == [Top EXCEPT !.at = "down", !.b = ret, !.parent = b]
<1>1. /\ stack # <<>> /\ Top.fn = "recx" /\ Top.at = "child" /\ Active(Top)
      /\ UNCHANGED <<heap, roots, rc, frees>> /\ ret' = Null /\ ret # Null
      /\ Top.i < Size(b) /\ Goto(fr)
      /\ field' = [field EXCEPT ![b][0] = Top.parent] /\ idx' = [idx EXCEPT ![b] = Top.i]
  BY DEF RecxPushParent, Running, Top, Active
<1>2. /\ Top \in FrameType /\ FrameOK(Top) /\ b \in Blocks /\ frees[b] = 0
      /\ Top.i \in Nat /\ Top.i > 0 /\ b \notin Below /\ b \notin Parked /\ b \in Held
  BY <1>1, TopIs DEF FrameOK
<1>3. ret \in Blocks /\ ret \notin Held /\ frees[ret] = 0 /\ idx[ret] = 0 /\ ret # b /\ ret \notin Below
  BY <1>1, <1>2, TopIs DEF Structure, Result
<1>4. /\ fr \in FrameType /\ Active(fr) /\ fr.fn = Top.fn /\ fr.b = ret
      /\ fr.at = "down" /\ fr.parent = b
  BY <1>1, <1>2, <1>3 DEF FrameType, Active
<1>5. n = Height
  OBVIOUS
<1> HIDE DEF fr, n
<1>6. /\ stack' \in Seq(FrameType) /\ stack' # <<>> /\ Nested'
      /\ DOMAIN tower' = DOMAIN tower /\ n \in DOMAIN tower /\ tower[n] = Top
      /\ tower'[n] = fr
      /\ \A h \in DOMAIN tower : h # n => tower'[h] = tower[h]
      /\ \A h \in DOMAIN tower : h # n /\ Active(tower[h]) => tower[h].b \in Below
      /\ Held' = Below \cup {ret}
      /\ \A r \in Fields : (\E h \in DOMAIN tower' : r \in Left(tower'[h]))
                             <=> r \in LeftBelow \/ r \in Left(fr)
  BY <1>1, <1>4, <1>5, GotoShape
<1>7. Held = Below \cup {b}
  BY <1>1, HeldSplit
<1>8. /\ Size(b) \in Nat /\ 0 \in DOMAIN heap[b]
      /\ \A i \in DOMAIN heap[b] : i \in Nat
  <2>1. Size(b) \in Nat /\ DOMAIN heap[b] = 0..(Size(b) - 1)
    BY <1>2, Sizes DEF Structure
  <2>2. QED
    BY <1>1, <1>2, <2>1
<1> HIDE DEF b
<1>9. /\ DOMAIN field = Blocks /\ DOMAIN idx = Blocks /\ idx'[b] = Top.i /\ idx' \in [Blocks -> Nat]
      /\ \A x \in Blocks : x # b => field'[x] = field[x] /\ idx'[x] = idx[x]
      /\ DOMAIN field' = Blocks
      /\ field[b] = [i \in DOMAIN heap[b] |-> field[b][i]]
  BY <1>1, <1>2 DEF Structure, Memory
<1>10. field'[b] = [field[b] EXCEPT ![0] = Top.parent] /\ field'[b][0] = Top.parent
  BY <1>1, <1>2, <1>8, <1>9
<1>11. Parked' = Parked \cup {b}
  <2>1. \A x \in Blocks : x \in Parked' <=> frees[x] = 0 /\ idx'[x] > 0 /\ x \notin Held'
    BY <1>1 DEF Parked
  <2>2. \A x \in Blocks : x \in Parked <=> frees[x] = 0 /\ idx[x] > 0 /\ x \notin Held
    BY DEF Parked
  <2>3. Parked \subseteq Blocks /\ Parked' \subseteq Blocks
    BY DEF Parked
  <2>4. b \in Parked'
    BY <1>2, <1>3, <1>6, <1>9, <2>1
  <2>5. ASSUME NEW x \in Blocks, x # b PROVE x \in Parked' <=> x \in Parked
    <3>1. CASE x = ret
      BY <1>3, <1>6, <3>1, <2>1, <2>2, <2>5, <1>9
    <3>2. CASE x # ret
      BY <1>6, <1>7, <1>9, <2>1, <2>2, <2>5, <3>2
    <3>3. QED
      BY <3>1, <3>2
  <2>6. QED
    BY <1>2, <2>3, <2>4, <2>5
<1>12. Memory'
  <2>1. ASSUME NEW x \in Blocks
        PROVE  /\ field'[x] = [i \in DOMAIN heap[x] |-> field'[x][i]]
               /\ idx'[x] <= Size(x)
               /\ \A i \in DOMAIN heap[x] : i > 0 \/ idx'[x] = 0 => field'[x][i] = heap[x][i]
    <3>1. CASE x # b
      BY <1>9, <3>1 DEF Structure, Memory
    <3>2. CASE x = b
      <4>1. \A i \in DOMAIN heap[b] : i > 0 => field[b][i] = heap[b][i] /\ field'[b][i] = field[b][i]
        <5>1. \A i \in DOMAIN heap[b] : i > 0 => i # 0 /\ field[b][i] = heap[b][i]
          BY <1>2, <1>8 DEF Structure, Memory
        <5>2. DOMAIN field[b] = DOMAIN heap[b]
          BY <1>9
        <5>3. QED
          BY <1>10, <5>1, <5>2
      <4>2. field'[b] = [i \in DOMAIN heap[b] |-> field'[b][i]]
        BY <1>9, <1>10
      <4>3. QED
        BY <1>1, <1>2, <1>8, <1>9, <3>2, <4>1, <4>2
    <3>3. QED
      BY <3>1, <3>2
  <2>2. field' \in [Blocks -> {field'[x] : x \in Blocks}]
    BY <1>1, <1>9
  <2>3. Wellformed(heap)'
    BY <1>1 DEF Structure, Memory, Wellformed
  <2>4. QED
    BY <1>1, <1>9, <2>1, <2>2, <2>3 DEF Structure, Memory, Size
<1>13. FramesOK'
  <2>1. ASSUME NEW h \in DOMAIN tower' PROVE FrameOK(tower[h])'
    <3>1. CASE h = n
      <4>1. tower'[h] = fr
        BY <1>6, <3>1
      <4>2. idx'[ret] = 0
        BY <1>3, <1>9
      <4>3. QED
        BY <1>1, <1>3, <1>4, <4>1, <4>2 DEF FrameOK, Places
    <3>2. CASE h # n
      <4>1. tower'[h] = tower[h] /\ FrameOK(tower[h]) /\ h \in DOMAIN tower
        BY <1>6, <3>2 DEF Structure, FramesOK
      <4>2. Active(tower[h]) => tower[h].b \in Blocks /\ tower[h].b # b
        BY <1>2, <1>6, <3>2, <4>1, TopIs, <1>1
      <4>3. QED
        BY <1>1, <1>9, <4>1, <4>2 DEF FrameOK
    <3>3. QED
      BY <3>1, <3>2
  <2>2. ASSUME NEW g \in DOMAIN tower', NEW h \in DOMAIN tower',
               Active(tower'[g]), Active(tower'[h]), tower'[g].b = tower'[h].b
        PROVE  g = h
    BY <1>3, <1>4, <1>6, <2>2 DEF Structure, FramesOK
  <2>3. QED
    BY <1>6, <2>1, <2>2 DEF FramesOK
<1>14. Chained'
  <2>1. /\ tower'[n].parent = b /\ Top.parent \in Parked \cup {Null} /\ b # Null
        /\ \A h \in DOMAIN tower : h # n => tower'[h].parent = tower[h].parent
    BY <1>2, <1>4, <1>6, DropAssumption DEF Structure, Chained
  <2>2. \A p \in Parked : p \in Blocks /\ p # b /\ field'[p][0] = field[p][0]
    BY <1>2, <1>9 DEF Parked
  <2>3. \A h \in DOMAIN tower' : tower'[h].parent \in Parked' \cup {Null}
    BY <1>6, <1>11, <2>1 DEF Structure, Chained
  <2>4. \A p \in Parked' : field'[p][0] \in Parked' \cup {Null}
    BY <1>10, <1>11, <2>1, <2>2 DEF Structure, Chained
  <2>5. \A g, h \in DOMAIN tower' :
          tower'[g].parent = tower'[h].parent /\ tower'[g].parent # Null => g = h
    BY <1>2, <1>6, <2>1 DEF Structure, Chained
  <2>6. ASSUME NEW h \in DOMAIN tower', NEW p \in Parked', tower'[h].parent = field'[p][0]
        PROVE  tower'[h].parent = Null
    <3>1. \A x \in DOMAIN tower, q \in Parked : tower[x].parent = field[q][0] => tower[x].parent = Null
      BY DEF Structure, Chained
    <3>2. \A q \in Parked : field[q][0] # b
      BY <1>2, <2>1 DEF Structure, Chained
    <3>3. CASE h = n
      BY <1>2, <1>10, <1>11, <2>1, <2>2, <2>6, <3>2, <3>3
    <3>4. CASE h # n /\ p = b
      <4>1. tower[h].parent = Top.parent /\ h \in DOMAIN tower
        BY <1>6, <1>10, <2>1, <2>6, <3>4
      <4>2. QED
        BY <1>6, <2>1, <3>4, <4>1 DEF Structure, Chained
    <3>5. CASE h # n /\ p \in Parked
      BY <1>6, <2>1, <2>2, <2>6, <3>1, <3>5
    <3>6. QED
      BY <1>11, <3>3, <3>4, <3>5
  <2>7. ASSUME NEW p \in Parked', NEW q \in Parked', field'[p][0] = field'[q][0], field'[p][0] # Null
        PROVE  p = q
    <3>1. \A q1, q2 \in Parked : field[q1][0] = field[q2][0] /\ field[q1][0] # Null => q1 = q2
      BY DEF Structure, Chained
    <3>2. \A q1 \in Parked : field[q1][0] = Top.parent => field[q1][0] = Null
      BY <1>6 DEF Structure, Chained
    <3>3. QED
      BY <1>10, <1>11, <2>2, <2>7, <3>1, <3>2
  <2>8. QED
    BY <2>3, <2>4, <2>5, <2>6, <2>7 DEF Chained
<1>15. Structure'
  BY <1>1, <1>6, <1>12, <1>13, <1>14 DEF Structure, Result
<1>16. InUse' = InUse
  BY <1>1, <1>3, <1>6, <1>7, <1>11, NoResult DEF InUse
<1>17. SameLeft(Remaining)
  <2>1. SUFFICES ASSUME NEW r \in Fields, EdgeOf(r) # Val PROVE r \in Remaining' <=> r \in Remaining
    BY DEF SameLeft
  <2>2. r[1] \in Blocks /\ r[2] \in Nat
    BY <2>1, EdgeFields DEF Structure
  <2>3. r \in Left(fr) <=> r[1] = ret
    BY <1>4, <2>1, <2>2 DEF Left, From
  <2>4. r \in Left(Top) <=> r[1] = b /\ Top.i <= r[2]
    BY <1>1, <2>1 DEF Left, From, b
  <2>5. r \in LeftParked' <=> r \in LeftParked \/ r \in Left(Top)
    BY <1>2, <1>9, <1>11, <2>1, <2>2, <2>4 DEF LeftParked, Parked
  <2>6. r \in Remaining' <=> r \in LeftBelow \/ r \in Left(fr) \/ r \in LeftParked' \/ r[1] = ret'
    BY <1>6, <2>1 DEF Remaining
  <2>7. r[1] # ret'
    BY <1>1, <2>2, DropAssumption
  <2>8. QED
    BY <1>1, <2>1, <2>3, <2>5, <2>6, <2>7, Splits
<1>18. QED
  BY <1>1, <1>15, <1>16, <1>17, QuietStep DEF Simulates

LEMMA RecxUpStep ==
  ASSUME Structure, RecxUp
  PROVE  Simulates
<1> DEFINE p  == Top.parent
           n  == Height
           fr == [Top EXCEPT !.at = "scan", !.b = p, !.i = idx[p], !.parent = field[p][0]]
<1>1. /\ stack # <<>> /\ Top.fn = "recx" /\ Top.at = "up" /\ ~ Active(Top)
      /\ UNCHANGED <<heap, field, idx, roots, rc, frees, ret>>
      /\ IF p = Null THEN Return ELSE Goto(fr)
  BY DEF RecxUp, Running, Top, Active, links
<1>2. Top \in FrameType /\ FreesTop /\ ret = Null
  BY <1>1, TopIs
<1>3. Result'
  BY <1>1, <1>2 DEF Result
<1>4. InUse = Below \cup Parked /\ Remaining = LeftBelow \cup LeftParked /\ Held = Below
  BY <1>1, <1>2, Splits, NoResult, HeldSplit
<1>5. CASE p = Null
  <2>1. Return
    BY <1>1, <1>5
  <2> HIDE DEF p, fr
  <2>2. Structure' /\ InUse' = InUse /\ SameLeft(Remaining)
    BY <1>1, <1>2, <1>3, <1>4, <2>1, ReturnStep, NoResult DEF Structure, SameLeft
  <2>3. QED
    BY <1>1, <2>2, QuietStep DEF Simulates
<1>6. CASE p # Null
  <2>1. n \in DOMAIN tower /\ tower[n] = Top
    BY <1>1, Towers DEF Structure, FramesOK
  <2>2. p \in Parked
    BY <1>6, <2>1 DEF Structure, Chained
  <2>3. /\ p \in Blocks /\ frees[p] = 0 /\ idx[p] \in Nat /\ idx[p] > 0 /\ p \notin Held
        /\ p \notin Below
    BY <1>4, <2>2 DEF Parked, Structure, Memory
  <2>4. field[p][0] \in (Parked \ {p}) \cup {Null}
    BY <1>6, <2>1, <2>2 DEF Structure, Chained
  <2>5. /\ fr \in FrameType /\ Active(fr) /\ fr.fn = Top.fn /\ fr.b = p /\ fr.i = idx[p]
        /\ fr.at = "scan" /\ fr.parent = field[p][0]
    <3>1. field[p][0] \in Blocks \cup {Null}
      BY <2>4 DEF Parked
    <3>2. QED
      BY <1>1, <1>2, <2>3, <3>1 DEF FrameType, Active
  <2>6. Goto(fr)
    BY <1>1, <1>6
  <2>7. n = Height
    OBVIOUS
  <2> HIDE DEF fr, n
  <2>8. /\ stack' \in Seq(FrameType) /\ stack' # <<>> /\ Nested'
        /\ DOMAIN tower' = DOMAIN tower /\ tower'[n] = fr
        /\ \A h \in DOMAIN tower : h # n => tower'[h] = tower[h]
        /\ \A h \in DOMAIN tower : h # n /\ Active(tower[h]) => tower[h].b \in Below
        /\ Held' = Below \cup {p}
        /\ \A r \in Fields : (\E h \in DOMAIN tower' : r \in Left(tower'[h]))
                               <=> r \in LeftBelow \/ r \in Left(fr)
    BY <1>1, <2>5, <2>6, <2>7, GotoShape
  <2>9. /\ tower[n].parent = p
        /\ \A h \in DOMAIN tower : h # n => tower[h].parent # p
        /\ \A q \in Parked : field[q][0] # p
    BY <1>6, <2>1, <2>2 DEF Structure, Chained
  <2> HIDE DEF p
  <2>10. Parked' = Parked \ {p}
    BY <1>1, <1>4, <2>3, <2>8 DEF Parked
  <2>11. Memory'
    BY <1>1 DEF Structure, Memory, Wellformed, Size
  <2>12. FramesOK'
    <3>1. ASSUME NEW h \in DOMAIN tower' PROVE FrameOK(tower[h])'
      <4>1. CASE h = n
        BY <1>1, <2>3, <2>5, <2>8, <4>1 DEF FrameOK, Places
      <4>2. CASE h # n
        <5>1. tower'[h] = tower[h] /\ FrameOK(tower[h])
          BY <2>8, <4>2 DEF Structure, FramesOK
        <5>2. QED
          BY <1>1, <5>1 DEF FrameOK
      <4>3. QED
        BY <4>1, <4>2
    <3>2. ASSUME NEW g \in DOMAIN tower', NEW h \in DOMAIN tower',
                 Active(tower'[g]), Active(tower'[h]), tower'[g].b = tower'[h].b
          PROVE  g = h
      BY <2>3, <2>5, <2>8, <3>2 DEF Structure, FramesOK
    <3>3. QED
      BY <2>8, <3>1, <3>2 DEF FramesOK
  <2>13. Chained'
    <3>1. tower'[n].parent = field[p][0] /\ field' = field
      BY <1>1, <2>5, <2>8
    <3>2. \A h \in DOMAIN tower' : tower'[h].parent \in Parked' \cup {Null}
      BY <2>4, <2>8, <2>9, <2>10, <3>1 DEF Structure, Chained
    <3>3. \A q \in Parked' : field'[q][0] \in Parked' \cup {Null}
      BY <2>9, <2>10, <3>1 DEF Structure, Chained
    <3>4. \A h \in DOMAIN tower : tower[h].parent = field[p][0] => tower[h].parent = Null
      BY <2>2 DEF Structure, Chained
    <3>5. ASSUME NEW g \in DOMAIN tower', NEW h \in DOMAIN tower',
                 tower'[g].parent = tower'[h].parent, tower'[g].parent # Null
          PROVE  g = h
      <4>1. g # n /\ h # n => g = h
        BY <2>8, <3>5 DEF Structure, Chained
      <4>2. QED
        BY <2>8, <3>1, <3>4, <3>5, <4>1
    <3>6. ASSUME NEW h \in DOMAIN tower', NEW q \in Parked', tower'[h].parent = field'[q][0]
          PROVE  tower'[h].parent = Null
      <4>1. h # n => tower'[h].parent = Null
        BY <2>8, <2>10, <3>1, <3>6 DEF Structure, Chained
      <4>2. field[p][0] = field[q][0] /\ field[p][0] # Null => p = q
        BY <2>2, <2>10 DEF Structure, Chained
      <4>3. QED
        BY <2>10, <3>1, <3>6, <4>1, <4>2
    <3>7. \A q1, q2 \in Parked' : field'[q1][0] = field'[q2][0] /\ field'[q1][0] # Null => q1 = q2
      BY <2>10, <3>1 DEF Structure, Chained
    <3>8. QED
      BY <3>2, <3>3, <3>5, <3>6, <3>7 DEF Chained
  <2>14. Structure'
    BY <1>3, <2>8, <2>11, <2>12, <2>13 DEF Structure
  <2>15. InUse' = InUse
    BY <1>1, <1>2, <1>4, <2>2, <2>8, <2>10, NoResult DEF InUse
  <2>16. SameLeft(Remaining)
    <3>1. SUFFICES ASSUME NEW r \in Fields, EdgeOf(r) # Val PROVE r \in Remaining' <=> r \in Remaining
      BY DEF SameLeft
    <3>2. r[1] # Null
      BY DropAssumption DEF Fields
    <3>3. r \in Left(fr) <=> r[1] = p /\ idx[p] <= r[2]
      BY <2>5 DEF Left, From
    <3>4. r \in LeftParked <=> r \in LeftParked' \/ r \in Left(fr)
      BY <1>1, <2>2, <2>10, <3>3 DEF LeftParked
    <3>5. r \in Remaining' <=> r \in LeftBelow \/ r \in Left(fr) \/ r \in LeftParked' \/ r[1] = ret'
      BY <2>8 DEF Remaining
    <3>6. QED
      BY <1>1, <1>2, <1>4, <3>2, <3>4, <3>5
  <2>17. QED
    BY <1>1, <2>14, <2>15, <2>16, QuietStep DEF Simulates
<1>7. QED
  BY <1>5, <1>6

-----------------------------------------------------------------------------
LEMMA DropRootStep ==
  ASSUME Structure, Drop!IInv, NEW c \in Blocks, DropRoot(c)
  PROVE  Simulates
<1>1. /\ stack = <<>> /\ c \in roots /\ roots' = roots \ {c} /\ Decref(c)
      /\ UNCHANGED <<heap, field, idx, frees, ret>>
      /\ stack' = IF LastRef(c) THEN <<Fast(c), DropFreeFrame(c)>> ELSE <<>>
  BY DEF DropRoot, links
<1>2. Fresh(c)
  BY <1>1, RootLives, FreshAre
<1>3. Height = 0 /\ DOMAIN tower = {} /\ Held = {} /\ ret = Null
  <2>1. Height = 0
    BY <1>1 DEF Height
  <2>2. DOMAIN tower = {}
    BY <2>1 DEF tower
  <2>3. ret = Null
    BY <1>1 DEF Structure, Result
  <2>4. QED
    BY <2>1, <2>2, <2>3 DEF Held
<1>4. /\ Fast(c) \in FrameType /\ Fast(c).fn = "fast_drop_free" /\ Fast(c).at = "start"
      /\ Fast(c).b = c /\ Fast(c).parent = Null /\ Active(Fast(c))
  BY DEF Fast, FrameType, Active
<1>5. /\ DropFreeFrame(c) \in FrameType /\ DropFreeFrame(c).fn = "drop_free"
      /\ DropFreeFrame(c).at = "child" /\ DropFreeFrame(c).parent = Null
      /\ ~ Active(DropFreeFrame(c))
  BY DEF DropFreeFrame, FrameType, Active
<1>6. /\ stack' \in Seq(FrameType)
      /\ Height' = IF LastRef(c) THEN 2 ELSE 0
      /\ \A h \in DOMAIN tower' :
           LastRef(c) /\ (\/ h = 1 /\ tower'[h] = DropFreeFrame(c)
                          \/ h = 2 /\ tower'[h] = Fast(c))
      /\ LastRef(c) => DOMAIN tower' = {1, 2} /\ tower'[1] = DropFreeFrame(c) /\ tower'[2] = Fast(c)
  <2>1. CASE ~ LastRef(c)
    <3>1. stack' = <<>> /\ Height' = 0
      BY <1>1, <2>1 DEF Height
    <3>2. DOMAIN tower' = {}
      BY <3>1 DEF tower
    <3>3. QED
      BY <2>1, <3>1, <3>2
  <2>2. CASE LastRef(c)
    <3>1. stack' = <<Fast(c), DropFreeFrame(c)>> /\ Height' = 2 /\ stack' \in Seq(FrameType)
      BY <1>1, <1>4, <1>5, <2>2 DEF Height
    <3>2. DOMAIN tower' = {1, 2} /\ tower'[1] = stack'[2] /\ tower'[2] = stack'[1]
      BY <3>1 DEF tower
    <3>3. QED
      BY <2>2, <3>1, <3>2
  <2>3. QED
    BY <2>1, <2>2
<1> HIDE DEF Fast, DropFreeFrame, Fresh
<1>7. Held' = IF LastRef(c) THEN {c} ELSE {}
  <2>1. \A b \in Blocks : b \in Held' <=> LastRef(c) /\ b = c
    BY <1>4, <1>5, <1>6 DEF Held
  <2>2. Held' \subseteq Blocks
    BY DEF Held
  <2>3. QED
    BY <2>1, <2>2
<1>8. Parked' = Parked
  BY <1>1, <1>2, <1>3, <1>7 DEF Parked, Fresh, Structure, Memory
<1>9. Memory'
  BY <1>1 DEF Structure, Memory, Wellformed, Size
<1>10. FramesOK'
  <2>1. ASSUME NEW h \in DOMAIN tower' PROVE FrameOK(tower[h])'
    <3>1. CASE tower'[h] = Fast(c)
      BY <1>1, <1>2, <1>4, <3>1 DEF FrameOK, Places, Fresh
    <3>2. CASE tower'[h] = DropFreeFrame(c)
      BY <1>5, <3>2 DEF FrameOK, Places
    <3>3. QED
      BY <1>6, <3>1, <3>2
  <2>2. QED
    BY <1>5, <1>6, <2>1 DEF FramesOK
<1>11. Nested'
  <2>1. tower'[2 - 1] = tower'[1] /\ 1 % 2 = 1
    OBVIOUS
  <2>2. QED
    BY <1>4, <1>5, <1>6, <2>1 DEF Nested
<1>12. Chained'
  <2>1. \A h \in DOMAIN tower' : tower'[h].parent = Null
    BY <1>4, <1>5, <1>6
  <2>2. QED
    BY <1>1, <1>8, <2>1 DEF Structure, Chained
<1>13. Structure'
  BY <1>1, <1>3, <1>9, <1>10, <1>11, <1>12 DEF Structure, Result
<1>14. InUse' = IF LastRef(c) THEN InUse \cup {c} ELSE InUse
  BY <1>1, <1>3, <1>7, <1>8 DEF InUse
<1>15. SameLeft((Remaining \ {}) \cup (IF LastRef(c) THEN {r \in Fields : r[1] = c} ELSE {}))
  <2>1. LeftParked' = LeftParked
    BY <1>1, <1>8 DEF LeftParked
  <2>2. Remaining = LeftParked \cup {r \in Fields : r[1] = ret}
    BY <1>3 DEF Remaining
  <2>3. \A r \in Fields : EdgeOf(r) # Val => (r \in Left(Fast(c)) <=> r[1] = c)
    BY <1>4, EdgeFields DEF Left, From, Structure
  <2>4. Left(DropFreeFrame(c)) = {}
    BY <1>5, NoResult
  <2>5. \A r \in Fields : EdgeOf(r) # Val =>
          ((\E h \in DOMAIN tower' : r \in Left(tower'[h])) <=> LastRef(c) /\ r[1] = c)
    BY <1>6, <2>3, <2>4
  <2>6. Remaining' = {r \in Fields : \E h \in DOMAIN tower' : r \in Left(tower'[h])}
                       \cup LeftParked \cup {r \in Fields : r[1] = ret}
    BY <1>1, <2>1 DEF Remaining
  <2> HIDE DEF Remaining
  <2>7. QED
    BY <2>2, <2>5, <2>6 DEF SameLeft
<1>16. Drop!Release(c, todos)
  <2>1. Drop!Release(c, todos \ {})
    BY <1>1, <1>2, <1>13, <1>14, <1>15, ReleaseStep DEF Fresh
  <2>2. todos \ {} = todos
    OBVIOUS
  <2>3. QED
    BY <2>1, <2>2
<1>17. edges' = edges
  BY <1>1, <1>13, Mapped
<1>18. Drop!DropRoot(c)
  BY <1>1, <1>16, <1>17 DEF Drop!DropRoot
<1>19. QED
  BY <1>13, <1>18 DEF Simulates, Drop!Next

-----------------------------------------------------------------------------
(* The instances bring their own names for the operators on finite sets.   *)
LEMMA SameFinite ==
  /\ \A S : Drop!IsFiniteSet(S) = IsFiniteSet(S)
  /\ \A S : Drop!Cardinality(S) = Cardinality(S)
  /\ \A S : Recursion!Cardinality(S) = Cardinality(S)
<1>1. \A S : Drop!IsFiniteSet(S) = IsFiniteSet(S)
  BY DEF Drop!IsFiniteSet, IsFiniteSet
<1>2. \A S : Drop!Cardinality(S) = Cardinality(S)
  BY DEF Drop!Cardinality, Cardinality
<1>3. \A S : Recursion!Cardinality(S) = Cardinality(S)
  BY DEF Recursion!Cardinality, Cardinality
<1>4. QED
  BY <1>1, <1>2, <1>3

LEMMA InitStructure == Init => Structure /\ Drop!Init
<1> SUFFICES ASSUME Init PROVE Structure /\ Drop!Init
  OBVIOUS
<1>1. /\ Wellformed(heap) /\ roots \subseteq Blocks /\ field = heap
      /\ idx = [b \in Blocks |-> 0] /\ frees = [b \in Blocks |-> 0] /\ stack = <<>> /\ ret = Null
  BY DropAssumption DEF Init
<1>2. Height = 0 /\ DOMAIN tower = {} /\ Held = {}
  <2>1. Height = 0
    BY <1>1 DEF Height
  <2>2. DOMAIN tower = {}
    BY <2>1 DEF tower
  <2>3. QED
    BY <2>1, <2>2 DEF Held
<1>3. Parked = {}
  BY <1>1 DEF Parked
<1>4. Memory
  <2>1. \A b \in Blocks : Size(b) \in Nat
    <3>1. SUFFICES ASSUME NEW b \in Blocks PROVE Size(b) \in Nat
      OBVIOUS
    <3>2. PICK n \in 0..Cardinality(Slots) : DOMAIN heap[b] = 0..(n - 1)
      BY <1>1 DEF Wellformed
    <3>3. Cardinality(Slots) \in Nat
      BY DropAssumption, FS_CardinalityType
    <3>4. n - 1 \in Int
      BY <3>3
    <3>5. IsFiniteSet(DOMAIN heap[b])
      BY <3>2, <3>4, FS_Interval
    <3>6. QED
      BY <3>5, FS_CardinalityType DEF Size
  <2>2. \A b \in Blocks : idx[b] <= Size(b)
    BY <1>1, <2>1
  <2>3. QED
    BY <1>1, <2>2 DEF Memory, Wellformed
<1>5. stack \in Seq(FrameType)
  BY <1>1
<1>6. FramesOK /\ Nested /\ Chained
  BY <1>2, <1>3, <1>5 DEF FramesOK, Nested, Chained
<1>7. Structure
  BY <1>1, <1>4, <1>6 DEF Structure, Result
<1>8. Dying = {}
  <2>1. InUse = {}
    BY <1>1, <1>2, <1>3, NoResult DEF InUse
  <2>2. QED
    BY <1>7, <2>1, DyingAre
<1>9. status = [b \in Blocks |-> "live"] /\ todos = {}
  BY <1>1, <1>8 DEF status, todos
<1>10. edges \in [Drop!Fields -> Blocks \cup {Val}]
  <2>1. \A r \in Fields : EdgeOf(r) \in Blocks \cup {Val}
    BY DEF EdgeOf, IsPtr
  <2>2. QED
    BY <2>1 DEF edges, Drop!Fields, Fields
<1>11. ASSUME NEW c \in Blocks PROVE Drop!RefsTo(c) = RefsTo(c)
  <2>1. ASSUME NEW r \in Fields PROVE edges[r] = c <=> r[2] \in DOMAIN heap[r[1]] /\ heap[r[1]][r[2]] = c
    BY <2>1, DropAssumption DEF edges, EdgeOf, IsPtr, Fields
  <2>2. \A r \in Fields : status[r[1]] = "live"
    BY <1>9 DEF Fields
  <2>3. QED
    BY <2>1, <2>2 DEF Drop!RefsTo, Drop!Fields, RefsTo, Fields
<1>12. \E static \in SUBSET Blocks :
         rc = [b \in Blocks |-> IF b \in static THEN Drop!STUCK
                                ELSE Drop!Cardinality(Drop!RefsTo(b)) + Drop!RootOf(b) - 1]
  <2>1. PICK static \in Statics :
          rc = [b \in Blocks |-> IF b \in static THEN STUCK
                                 ELSE Cardinality(RefsTo(b)) + (IF b \in roots THEN 1 ELSE 0) - 1]
    BY DEF Init
  <2>2. static \in SUBSET Blocks
    BY DropAssumption
  <2>3. rc = [b \in Blocks |-> IF b \in static THEN Drop!STUCK
                               ELSE Drop!Cardinality(Drop!RefsTo(b)) + Drop!RootOf(b) - 1]
    BY <1>11, <2>1, SameFinite DEF Drop!STUCK, STUCK, Drop!RootOf
  <2>4. QED
    BY <2>2, <2>3
<1>13. \A b \in Blocks : rc[b] = Drop!STUCK => Drop!RefsTo(b) # {} \/ b \in roots
  BY <1>11 DEF Init
<1>14. QED
  BY <1>1, <1>7, <1>9, <1>10, <1>12, <1>13 DEF Drop!Init

LEMMA NextSimulates == Structure /\ Drop!IInv /\ [Next]_vars => Simulates
<1> SUFFICES ASSUME Structure, Drop!IInv, [Next]_vars PROVE Simulates
  OBVIOUS
<1>1. CASE \E b \in Blocks : DropRoot(b)
  BY <1>1, DropRootStep
<1>2. CASE DropFreeReturns
  BY <1>2, DropFreeReturnsStep
<1>3. CASE FastLeaf
  BY <1>3, FastLeafStep
<1>4. CASE FastOneField
  BY <1>4, FastOneFieldStep
<1>5. CASE FastOneFieldFree
  BY <1>5, FastOneFieldFreeStep
<1>6. CASE FastOther
  BY <1>6, FastOtherStep
<1>7. CASE RecxDown
  BY <1>7, RecxDownStep
<1>8. CASE ScanField
  BY <1>8, ScanFieldStep
<1>9. CASE RecxNextField
  BY <1>9, RecxNextFieldStep
<1>10. CASE RecxPushParent
  BY <1>10, RecxPushParentStep
<1>11. CASE RecxLastField
  BY <1>11, RecxLastFieldStep
<1>12. CASE RecxUp
  BY <1>12, RecxUpStep
<1>13. CASE LargeChild
  BY <1>13, LargeChildStep
<1>14. CASE LargeFree
  BY <1>14, LargeFreeStep
<1>15. CASE UNCHANGED vars
  <2>1. /\ UNCHANGED <<heap, roots, rc, field, idx, frees, stack, ret>>
    BY <1>15 DEF vars, links
  <2>2. Height' = Height /\ tower' = tower /\ Held' = Held
    BY <2>1 DEF Height, tower, Held
  <2>3. Parked' = Parked
    BY <2>1, <2>2 DEF Parked
  <2>4. /\ Memory' /\ Nested' /\ Result' /\ Chained'
    BY <2>1, <2>2, <2>3 DEF Structure, Memory, Wellformed, Size, Nested, Result, Chained, Top
  <2>5. \A h \in DOMAIN tower' : FrameOK(tower[h])'
    BY <2>1, <2>2 DEF Structure, FramesOK, FrameOK
  <2>6. Structure'
    BY <2>1, <2>2, <2>4, <2>5 DEF Structure, FramesOK
  <2>7. InUse' = InUse
    BY <2>1, <2>2, <2>3 DEF InUse
  <2>8. SameLeft(Remaining)
    BY <2>1, <2>2, <2>3 DEF SameLeft, Remaining, LeftParked
  <2>9. QED
    BY <2>1, <2>6, <2>7, <2>8, QuietStep DEF Simulates
<1>16. QED
  BY <1>1, <1>2, <1>3, <1>4, <1>5, <1>6, <1>7, <1>8, <1>9, <1>10, <1>11, <1>12, <1>13, <1>14,
     <1>15 DEF Next, Step

LEMMA StructureSafe == Structure => NoUseAfterFree
<1> SUFFICES ASSUME Structure PROVE NoUseAfterFree
  OBVIOUS
<1>1. ASSUME NEW b \in Blocks, frees[b] > 0 PROVE Frames(b) = {} /\ ret # b
  <2>1. b \notin Dying
    BY <1>1, DyingAre
  <2>2. QED
    BY <2>1, DyingAre, HeldFrames DEF InUse
<1>2. /\ Height \in Nat /\ DOMAIN tower = 1..Height /\ DOMAIN stack = 1..Height
      /\ \A h \in DOMAIN tower : tower[h] \in FrameType
  BY Towers DEF Structure, FramesOK, Height
<1>3. ASSUME NEW k \in DOMAIN stack, IsPtr(stack[k].parent) PROVE frees[stack[k].parent] = 0
  <2>1. Height + 1 - k \in DOMAIN tower /\ tower[Height + 1 - k] = stack[k]
    BY <1>2 DEF tower
  <2>2. stack[k].parent \in Parked
    BY <1>3, <2>1, DropAssumption DEF Structure, Chained, IsPtr
  <2>3. QED
    BY <2>2 DEF Parked
<1>4. ASSUME NEW b \in Blocks, b \in Dying, idx[b] > 0, IsPtr(field[b][0])
      PROVE  frees[field[b][0]] = 0
  <2>1. SUFFICES field[b][0] \in Parked
    BY DEF Parked
  <2>2. b # ret
    BY <1>4, DropAssumption DEF Structure, Result
  <2>3. CASE b \in Parked
    BY <1>4, <2>3, DropAssumption DEF Structure, Chained, IsPtr
  <2>4. CASE b \in Held
    <3>1. PICK h \in DOMAIN tower : Active(tower[h]) /\ tower[h].b = b
      BY <2>4 DEF Held
    <3>2. FrameOK(tower[h]) /\ tower[h] \in FrameType
      BY <1>2 DEF Structure, FramesOK
    <3>3. tower[h].fn = "recx" /\ field[b][0] = tower[h].parent
      BY <1>4, <3>1, <3>2 DEF FrameOK, FrameType, Active, Places
    <3>4. QED
      BY <1>4, <3>3, DropAssumption DEF Structure, Chained, IsPtr
  <2>5. QED
    BY <1>4, <2>2, <2>3, <2>4, DyingAre DEF InUse
<1>5. QED
  BY <1>1, <1>3, <1>4 DEF NoUseAfterFree

LEMMA StructureTypes == Structure /\ Drop!IInv => TypeOK
<1> SUFFICES ASSUME Structure, Drop!IInv PROVE TypeOK
  OBVIOUS
<1>1. roots \subseteq Blocks /\ rc \in [Blocks -> Nat \cup {STUCK}]
  BY DEF Drop!IInv, Drop!TypeOK, Drop!STUCK, STUCK
<1>2. ASSUME NEW b \in Blocks
      PROVE  DOMAIN field[b] = DOMAIN heap[b] /\ idx[b] \in 0..Size(b) /\ frees[b] \in {0, 1}
  <2>1. Size(b) \in Nat
    BY Sizes DEF Structure
  <2>2. QED
    BY <2>1 DEF Structure, Memory
<1>3. QED
  BY <1>1, <1>2 DEF TypeOK, Structure, Result

(* Below the running frame every second frame is that of a large vector.   *)
LEMMA StructureBounded == Structure => StackBounded
<1> SUFFICES ASSUME Structure PROVE StackBounded
  OBVIOUS
<1> DEFINE open == {k \in DOMAIN stack : stack[k].fn = "large_rec"}
           n == Height
           m == (n - 1) \div 2
           f == [j \in 1..m |-> n + 1 - 2 * j]
<1>1. /\ n \in Nat /\ n = Len(stack) /\ DOMAIN tower = 1..n /\ DOMAIN stack = 1..n
      /\ \A h \in DOMAIN tower : tower[h] \in FrameType /\ tower[h] = stack[n + 1 - h]
  BY Towers DEF Structure, FramesOK, Height, tower
<1>2. IsFiniteSet(open) /\ Cardinality(open) \in Nat
  <2>1. IsFiniteSet(1..n)
    BY <1>1, FS_Interval
  <2>2. open \in SUBSET (1..n)
    BY <1>1
  <2>3. QED
    BY <2>1, <2>2, FS_Subset, FS_CardinalityType
<1>3. CASE n <= 2
  BY <1>1, <1>2, <1>3 DEF StackBounded
<1>4. CASE n > 2
  <2>1. m \in Nat /\ m >= 1 /\ n <= 2 + 2 * m /\ 2 * m <= n - 1
    BY <1>1, <1>4
  <2>2. ASSUME NEW j \in 1..m PROVE f[j] \in open
    <3>1. 2 * j \in 1..n /\ 2 * j # n /\ 2 * j # 1 /\ (2 * j) % 2 = 0 /\ f[j] = n + 1 - 2 * j
          /\ f[j] \in 1..n
      BY <1>1, <2>1
    <3>2. tower[2 * j].fn \in {"drop_free", "fast_drop_free", "recx", "large_rec"}
      BY <1>1, <3>1 DEF FrameType
    <3>3. tower[2 * j].fn = "large_rec"
      BY <1>1, <3>1, <3>2 DEF Structure, Nested
    <3>4. QED
      BY <1>1, <3>1, <3>3
  <2>3. \A i, j \in 1..m : f[i] = f[j] => i = j
    BY <1>1, <2>1
  <2> HIDE DEF open, n, m
  <2>4. f \in Injection(1..m, open)
    BY <2>2, <2>3 DEF Injection, IsInjective
  <2>5. Cardinality(1..m) <= Cardinality(open)
    <3> HIDE DEF f
    <3>1. QED
      BY <1>2, <2>4, FS_Injection
  <2>6. Cardinality(1..m) = m
    BY <2>1, FS_Interval
  <2>7. n <= 2 + 2 * Cardinality(open)
    BY <1>1, <1>2, <2>1, <2>5, <2>6
  <2>8. QED
    BY <1>1, <2>7 DEF StackBounded, open, n
<1>5. QED
  BY <1>1, <1>3, <1>4

-----------------------------------------------------------------------------
(* Structure and the invariant of RecursiveDrop hold together: the first   *)
(* makes each step one of RecursiveDrop, the second makes it safe to take. *)
THEOREM DropFreeInvariance == Spec => [](Structure /\ Drop!IInv)
<1>1. Init => Structure /\ Drop!IInv
  BY DropAssumption, SameFinite, InitStructure, Drop!InitIInv
  DEF Drop!HeapAssumption
<1>2. Structure /\ Drop!IInv /\ [Next]_vars => Structure' /\ Drop!IInv'
  BY DropAssumption, SameFinite, NextSimulates, Drop!NextIInv
  DEF Simulates, Drop!HeapAssumption
<1>3. QED
  BY <1>1, <1>2, PTL DEF Spec

(* No block is freed twice, and a field index stays within its block.      *)
THEOREM DropFreeTypes == Spec => []TypeOK
BY DropFreeInvariance, StructureTypes, PTL

(* No freed block is on the way to be scanned again, on any heap.          *)
THEOREM DropFreeSafe == Spec => []NoUseAfterFree
BY DropFreeInvariance, StructureSafe, PTL

(* Chains and trees of any depth are freed in constant stack space: only a *)
(* large vector takes two frames.                                          *)
THEOREM DropFreeBounded == Spec => []StackBounded
BY DropFreeInvariance, StructureBounded, PTL

(* The stackless algorithm implements the recursive definition: a block is *)
(* freed once, after each of its references is released once.              *)
THEOREM DropFreeRefines == Spec => DropsLikeRecursion
<1>1. Init => Recursion!Init
  <2>1. Drop!Init => Recursion!Init
    BY SameFinite DEF Drop!Init, Recursion!Init, Drop!Fields, Recursion!Fields, Drop!RefsTo, Recursion!RefsTo,
           Drop!RootOf, Recursion!RootOf, Drop!STUCK, Recursion!STUCK, edges, status, todos
  <2>2. QED
    BY <2>1, InitStructure
<1>2. Structure /\ Drop!IInv /\ [Next]_vars => [Recursion!Next]_(Recursion!vars)
  <2>1. Drop!vars = Recursion!vars
    BY DEF Drop!vars, Recursion!vars, edges, status, todos
  <2>2. Drop!Next => Recursion!Next
    BY DEF Drop!Next, Recursion!Next, Drop!DropRoot, Recursion!DropRoot, Drop!Free, Recursion!Free,
           Drop!ReleaseField, Recursion!ReleaseField, Drop!Release, Recursion!Release,
           Drop!Out, Recursion!Out, Drop!Fields, Recursion!Fields, Drop!STUCK, Recursion!STUCK,
           edges, status, todos
  <2>3. Drop!vars' = Recursion!vars'
    BY DEF Drop!vars, Recursion!vars, edges, status, todos
  <2>4. QED
    BY <2>1, <2>2, <2>3, NextSimulates DEF Simulates
<1>3. QED
  BY <1>1, <1>2, DropFreeInvariance, PTL DEF Spec, DropsLikeRecursion, Recursion!Spec
=============================================================================
