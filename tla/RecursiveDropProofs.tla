------------------------ MODULE RecursiveDropProofs ------------------------
(***************************************************************************)
(* Proofs about RecursiveDrop for heaps of any shape, cycles included.     *)
(* The argument: releasing a reference takes exactly that reference out of *)
(* the references to its target, because the fields of a block that starts *)
(* dying go on counting until each of them is released.                    *)
(***************************************************************************)
EXTENDS RecursiveDrop, FiniteSetTheorems, TLAPS

(* The references to a block are finitely many.                            *)
LEMMA RefsFinite ==
  ASSUME HeapAssumption, NEW c \in Blocks
  PROVE  /\ RefsTo(c) \in SUBSET Fields
         /\ IsFiniteSet(RefsTo(c))
         /\ Cardinality(RefsTo(c)) \in Nat
<1>1. IsFiniteSet(Fields)
  BY FS_Product DEF HeapAssumption, Fields
<1>2. RefsTo(c) \in SUBSET Fields
  BY DEF RefsTo
<1>3. QED
  BY <1>1, <1>2, FS_Subset, FS_CardinalityType

LEMMA InitIInv ==
  ASSUME HeapAssumption
  PROVE  Init => IInv
<1> SUFFICES ASSUME Init PROVE IInv
  OBVIOUS
<1> USE DEF Init
<1>1. PICK static \in SUBSET Blocks :
        rc = [b \in Blocks |-> IF b \in static THEN STUCK
                               ELSE Cardinality(RefsTo(b)) + RootOf(b) - 1]
  OBVIOUS
<1>2. \A b \in Blocks : rc[b] \in Nat \cup {STUCK}
  BY <1>1, RefsFinite DEF RootOf, STUCK
<1>3. TypeOK
  BY <1>1, <1>2 DEF TypeOK
<1>4. CountExact
  BY <1>1, RefsFinite DEF CountExact, RootOf
<1>5. TodoDying /\ DeadCounts /\ NoDangling
  BY DEF TodoDying, DeadCounts, NoDangling
<1>6. QED
  BY <1>3, <1>4, <1>5 DEF IInv

(* What a release changes: rest is todo, possibly without the field that   *)
(* is being released, and gone has the references that no longer count.    *)
LEMMA ReleaseRefs ==
  ASSUME HeapAssumption, IInv,
         NEW c \in Blocks, NEW rest \in SUBSET todo, state[c] = "live",
         edge' = edge, Release(c, rest)
  PROVE  \A x \in Blocks : RefsTo(x)' = RefsTo(x) \ (todo \ rest)
<1> USE DEF IInv, TypeOK, RefsTo, TodoDying
<1>1. CASE state' = state /\ todo' = rest
  BY <1>1
<1>2. CASE state' = [state EXCEPT ![c] = "dying"] /\ todo' = rest \cup Out(c)
  <2>1. \A r \in Fields : r \in Out(c) <=> r[1] = c /\ edge[r] # None
    BY DEF Out
  <2>2. \A x \in Blocks : x # None
    BY DEF HeapAssumption
  <2>3. \A r \in todo : r[1] # c
    OBVIOUS
  <2>4. ASSUME NEW x \in Blocks, NEW r \in Fields
        PROVE  r \in RefsTo(x)' <=> r \in RefsTo(x) /\ r \notin todo \ rest
    <3>0. r[1] \in Blocks
      BY DEF Fields
    <3>1. CASE r[1] = c
      BY <1>2, <2>1, <2>2, <2>3, <3>1
    <3>2. CASE r[1] # c
      <4>1. state'[r[1]] = state[r[1]]
        BY <1>2, <3>2
      <4>2. r \in todo' <=> r \in rest
        BY <1>2, <2>1, <3>2
      <4>3. state[r[1]] = "live" => r \notin todo
        OBVIOUS
      <4>4. QED
        BY <4>1, <4>2, <4>3
    <3>3. QED
      BY <3>1, <3>2
  <2>5. QED
    BY <2>4, RefsFinite
<1>3. QED
  BY <1>1, <1>2 DEF Release

(* A release preserves the type of the state and the shape of todo.        *)
LEMMA ReleaseShape ==
  ASSUME HeapAssumption, IInv,
         NEW c \in Blocks, NEW rest \in SUBSET todo, state[c] = "live",
         UNCHANGED edge, roots' \in SUBSET Blocks, Release(c, rest)
  PROVE  TypeOK' /\ TodoDying' /\ DeadCounts'
<1> USE DEF IInv, TypeOK, TodoDying, DeadCounts
<1>1. CASE rc[c] = STUCK /\ todo' = rest /\ UNCHANGED <<state, rc>>
  BY <1>1
<1>2. CASE rc[c] > 0 /\ todo' = rest /\ rc' = [rc EXCEPT ![c] = @ - 1] /\ UNCHANGED state
  BY <1>2 DEF STUCK
<1>3. CASE /\ rc[c] = 0 /\ todo' = rest \cup Out(c)
           /\ state' = [state EXCEPT ![c] = "dying"] /\ UNCHANGED rc
  <2>1. Out(c) \in SUBSET Fields /\ \A r \in Out(c) : r[1] = c /\ edge[r] # None
    BY DEF Out
  <2>2. TypeOK'
    BY <1>3, <2>1
  <2>3. TodoDying'
    BY <1>3, <2>1 DEF Fields
  <2>4. DeadCounts'
    BY <1>3
  <2>5. QED
    BY <2>2, <2>3, <2>4
<1>4. QED
  BY <1>1, <1>2, <1>3 DEF Release

(* When exactly one reference to c stops counting and c is released, the   *)
(* counts stay exact and nothing refers to a block that dies.              *)
LEMMA ReleaseCounts ==
  ASSUME HeapAssumption, IInv,
         NEW c \in Blocks, NEW rest \in SUBSET todo, state[c] = "live",
         UNCHANGED edge, Release(c, rest),
         Cardinality(RefsTo(c)') + RootOf(c)' = Cardinality(RefsTo(c)) + RootOf(c) - 1,
         \A x \in Blocks \ {c} : RefsTo(x)' = RefsTo(x) /\ (x \in roots' <=> x \in roots)
  PROVE  CountExact' /\ NoDangling'
<1> USE DEF IInv, TypeOK, DeadCounts
<1>1. /\ Cardinality(RefsTo(c)) \in Nat /\ Cardinality(RefsTo(c)') \in Nat
      /\ IsFiniteSet(RefsTo(c)')
  <2>1. RefsTo(c)' \in SUBSET Fields
    BY DEF RefsTo, Fields
  <2>2. IsFiniteSet(Fields)
    BY FS_Product DEF HeapAssumption, Fields
  <2>3. QED
    BY <2>1, <2>2, FS_Subset, FS_CardinalityType, RefsFinite
<1>2. RootOf(c) \in {0, 1} /\ RootOf(c)' \in {0, 1}
  BY DEF RootOf
<1>3. ASSUME NEW x \in Blocks \ {c}
      PROVE  /\ state'[x] = state[x] /\ rc'[x] = rc[x]
             /\ RefsTo(x)' = RefsTo(x) /\ RootOf(x)' = RootOf(x)
  BY <1>3 DEF Release, RootOf
<1>4. CASE rc[c] = STUCK /\ UNCHANGED <<state, rc>>
  <2>1. CountExact'
    BY <1>3, <1>4 DEF CountExact
  <2>2. NoDangling'
    BY <1>3, <1>4 DEF NoDangling
  <2>3. QED
    BY <2>1, <2>2
<1>5. CASE rc[c] > 0 /\ rc' = [rc EXCEPT ![c] = @ - 1] /\ UNCHANGED state
  <2>1. rc[c] + 1 = Cardinality(RefsTo(c)) + RootOf(c)
    BY <1>5 DEF CountExact, STUCK
  <2>2. rc'[c] + 1 = Cardinality(RefsTo(c)') + RootOf(c)'
    <3>1. rc[c] \in Int /\ rc'[c] = rc[c] - 1
      BY <1>5 DEF STUCK
    <3>2. QED
      BY <1>1, <1>2, <2>1, <3>1
  <2>3. CountExact'
    BY <1>3, <1>5, <2>2 DEF CountExact
  <2>4. NoDangling'
    BY <1>3, <1>5 DEF NoDangling
  <2>5. QED
    BY <2>3, <2>4
<1>6. CASE rc[c] = 0 /\ state' = [state EXCEPT ![c] = "dying"] /\ UNCHANGED rc
  <2>1. Cardinality(RefsTo(c)) + RootOf(c) = 1
    BY <1>6 DEF CountExact, STUCK
  <2>2. Cardinality(RefsTo(c)') = 0 /\ RootOf(c)' = 0
    BY <1>1, <1>2, <2>1
  <2>3. RefsTo(c)' = {} /\ c \notin roots'
    BY <1>1, <2>2, FS_EmptySet DEF RootOf
  <2>4. CountExact'
    BY <1>3, <1>6 DEF CountExact
  <2>5. NoDangling'
    BY <1>3, <1>6, <2>3 DEF NoDangling
  <2>6. QED
    BY <2>4, <2>5
<1>7. QED
  BY <1>4, <1>5, <1>6 DEF Release

LEMMA DropRootIInv ==
  ASSUME HeapAssumption, IInv, NEW c \in Blocks, DropRoot(c)
  PROVE  IInv'
<1> USE DEF IInv, DropRoot
<1>1. state[c] = "live"
  BY DEF NoDangling
<1>2. roots' \in SUBSET Blocks
  BY DEF TypeOK
<1>3. TypeOK' /\ TodoDying' /\ DeadCounts'
  BY <1>1, <1>2, ReleaseShape
<1>4. \A x \in Blocks : RefsTo(x)' = RefsTo(x)
  BY <1>1, ReleaseRefs
<1>5. Cardinality(RefsTo(c)') + RootOf(c)' = Cardinality(RefsTo(c)) + RootOf(c) - 1
  BY <1>4, RefsFinite DEF RootOf
<1>6. \A x \in Blocks \ {c} : RefsTo(x)' = RefsTo(x) /\ (x \in roots' <=> x \in roots)
  BY <1>4
<1>7. CountExact' /\ NoDangling'
  BY <1>1, <1>5, <1>6, ReleaseCounts
<1>8. QED
  BY <1>3, <1>7

LEMMA ReleaseFieldIInv ==
  ASSUME HeapAssumption, IInv, NEW r \in Fields, ReleaseField(r)
  PROVE  IInv'
<1> USE DEF IInv, ReleaseField
<1>1. PICK c \in Blocks : c = edge[r]
  BY DEF TypeOK, TodoDying
<1>2. r \in RefsTo(c)
  BY <1>1 DEF RefsTo
<1>3. state[c] = "live"
  BY <1>1, <1>2 DEF NoDangling, TypeOK
<1>4. roots' \in SUBSET Blocks
  BY DEF TypeOK
<1>5. TypeOK' /\ TodoDying' /\ DeadCounts'
  BY <1>1, <1>3, <1>4, ReleaseShape
<1>6. \A x \in Blocks : RefsTo(x)' = RefsTo(x) \ {r}
  <2>1. todo \ (todo \ {r}) = {r}
    OBVIOUS
  <2>2. QED
    BY <1>1, <1>3, <2>1, ReleaseRefs, todo \ {r} \in SUBSET todo
<1>7. Cardinality(RefsTo(c)') + RootOf(c)' = Cardinality(RefsTo(c)) + RootOf(c) - 1
  <2>1. Cardinality(RefsTo(c) \ {r}) = Cardinality(RefsTo(c)) - 1
    BY <1>1, <1>2, RefsFinite, FS_RemoveElement
  <2>2. RootOf(c)' = RootOf(c) /\ RootOf(c) \in {0, 1}
    BY DEF RootOf
  <2>3. Cardinality(RefsTo(c)) \in Nat /\ RefsTo(c)' = RefsTo(c) \ {r}
    BY <1>1, <1>6, RefsFinite
  <2>4. QED
    BY <2>1, <2>2, <2>3
<1>8. \A x \in Blocks \ {c} : RefsTo(x)' = RefsTo(x) /\ (x \in roots' <=> x \in roots)
  <2>1. \A x \in Blocks \ {c} : r \notin RefsTo(x)
    BY <1>1 DEF RefsTo
  <2>2. QED
    BY <1>6, <2>1
<1>9. CountExact' /\ NoDangling'
  BY <1>1, <1>3, <1>7, <1>8, ReleaseCounts
<1>10. QED
  BY <1>5, <1>9

LEMMA FreeIInv ==
  ASSUME HeapAssumption, IInv, NEW b \in Blocks, Free(b)
  PROVE  IInv'
<1> USE DEF IInv, Free
<1>1. TypeOK' /\ TodoDying' /\ DeadCounts'
  BY DEF TypeOK, TodoDying, DeadCounts
<1>2. ASSUME NEW x \in Blocks
      PROVE  RefsTo(x)' = RefsTo(x) /\ RootOf(x)' = RootOf(x)
  BY DEF RefsTo, RootOf, TypeOK, Fields
<1>3. CountExact'
  BY <1>2 DEF CountExact, TypeOK
<1>4. NoDangling'
  BY <1>2 DEF NoDangling, TypeOK
<1>5. QED
  BY <1>1, <1>3, <1>4

LEMMA NextIInv ==
  ASSUME HeapAssumption
  PROVE  IInv /\ [Next]_vars => IInv'
<1> SUFFICES ASSUME IInv, [Next]_vars PROVE IInv'
  OBVIOUS
<1>1. CASE \E b \in Blocks : DropRoot(b)
  BY <1>1, DropRootIInv
<1>2. CASE \E b \in Blocks : Free(b)
  BY <1>2, FreeIInv
<1>3. CASE \E r \in Fields : ReleaseField(r)
  BY <1>3, ReleaseFieldIInv
<1>4. CASE UNCHANGED vars
  BY <1>4 DEF vars, IInv, TypeOK, TodoDying, DeadCounts, CountExact, NoDangling,
              RefsTo, RootOf
<1>5. QED
  BY <1>1, <1>2, <1>3, <1>4 DEF Next

-----------------------------------------------------------------------------
(* Counts are exact and no reference leads to a dying or freed block, in   *)
(* every reachable state of every heap.                                    *)
THEOREM DropInvariance ==
  ASSUME HeapAssumption
  PROVE  Spec => []IInv
<1>1. Init => IInv
  BY InitIInv
<1>2. IInv /\ [Next]_vars => IInv'
  BY NextIInv
<1>3. QED
  BY <1>1, <1>2, PTL DEF Spec

(* No use after free: the references in live blocks, those still to be     *)
(* released and those of the program lead to live blocks.                  *)
THEOREM DropSafe ==
  ASSUME HeapAssumption
  PROVE  Spec => []NoDangling
<1>1. IInv => NoDangling
  BY DEF IInv
<1>2. QED
  BY <1>1, DropInvariance, PTL

(* Dropping leaves nothing behind: between drops a counted block is held   *)
(* by the program or by a live block.                                      *)
THEOREM DropLeavesNoGarbage ==
  ASSUME HeapAssumption
  PROVE  Spec => []NoGarbage
<1>1. IInv => NoGarbage
  <2> SUFFICES ASSUME IInv, \A b \in Blocks : state[b] # "dying",
                      NEW c \in Blocks, state[c] = "live", rc[c] # STUCK,
                      c \notin roots, RefsTo(c) = {}
               PROVE  FALSE
    BY DEF NoGarbage
  <2>1. rc[c] + 1 = 0
    BY FS_EmptySet DEF IInv, CountExact, RootOf
  <2>2. QED
    BY <2>1 DEF IInv, TypeOK, STUCK
<1>2. QED
  BY <1>1, DropInvariance, PTL
=============================================================================
