----------------------------- MODULE RefProofs -----------------------------
(* A thread-shared reference behaves as an atomic one, for any number of    *)
(* threads and values.                                                      *)
EXTENDS Ref, FiniteSetTheorems, TLAPS

(* While the reference has one thread, nobody compares or swaps. *)
PlainAccess == ~shared => \A t \in Threads : pc[t] \in {"idle", "get", "swap", "done"}

(* The invariant the proofs rest on: at most one thread is between taking   *)
(* the guard and writing the value back, and the guard shows it.            *)
IInv == TypeOK /\ PlainAccess /\ GuardHeld

LEMMA InitIInv == Init => IInv
<1> SUFFICES ASSUME Init PROVE IInv
  OBVIOUS
<1>1. TypeOK /\ PlainAccess
  BY RefAssumption DEF Init, TypeOK, PlainAccess, Values
<1>2. value # Guard /\ \A t \in Threads : ~Locked(t)
  BY RefAssumption DEF Init, Locked, Values
<1> QED BY <1>1, <1>2 DEF IInv, GuardHeld

LEMMA UnlockedRead == IInv /\ ~shared => value # Guard
  BY DEF IInv, PlainAccess, GuardHeld, Locked

(* What a step may do to the guard: nothing, or one thread takes it while   *)
(* it is not there, or the thread that has it puts a value back.            *)
Others(t) == \A u \in Threads \ {t} : Locked(u)' = Locked(u)

Quiet(t) == Others(t) /\ ~Locked(t) /\ ~Locked(t)' /\ (value' = Guard <=> value = Guard)
Holds(t) == Others(t) /\ Locked(t) /\ Locked(t)' /\ value' = value
Takes(t) == Others(t) /\ ~Locked(t) /\ Locked(t)' /\ value # Guard /\ value' = Guard
Frees(t) == Others(t) /\ Locked(t) /\ ~Locked(t)' /\ value' # Guard

LEMMA GuardStep ==
  ASSUME IInv, NEW t \in Threads, Quiet(t) \/ Holds(t) \/ Takes(t) \/ Frees(t)
  PROVE  GuardHeld'
<1> USE DEF IInv, GuardHeld, Others
<1>1. CASE Quiet(t)
  BY <1>1 DEF Quiet
<1>2. CASE Holds(t)
  BY <1>2 DEF Holds
<1>3. CASE Takes(t)
  BY <1>3 DEF Takes
<1>4. CASE Frees(t)
  BY <1>4 DEF Frees
<1> QED BY <1>1, <1>2, <1>3, <1>4

LEMMA StepIInv == IInv /\ [Next]_vars => IInv'
<1> SUFFICES ASSUME IInv, [Next]_vars PROVE IInv'
  OBVIOUS
<1> USE RefAssumption DEF TypeOK, PlainAccess, Goto, Values
<1>1. CASE Share \/ UNCHANGED vars
  BY <1>1 DEF Share, vars, IInv, GuardHeld, Locked
<1>2. ASSUME NEW t \in Threads, CallGet(t) \/ Return(t) \/ Finish(t) PROVE IInv'
  <2>1. TypeOK' /\ PlainAccess'
    BY <1>2 DEF CallGet, Return, Finish, IInv
  <2>2. Quiet(t)
    BY <1>2 DEF CallGet, Return, Finish, IInv, Quiet, Others, Locked
  <2> QED BY <2>1, <2>2, GuardStep DEF IInv
<1>3. ASSUME NEW t \in Threads, NEW v \in Values, CallSwap(t, v) PROVE IInv'
  <2>1. TypeOK' /\ PlainAccess'
    BY <1>3 DEF CallSwap, IInv
  <2>2. Quiet(t)
    BY <1>3 DEF CallSwap, IInv, Quiet, Others, Locked
  <2> QED BY <2>1, <2>2, GuardStep DEF IInv
<1>4. ASSUME NEW t \in Threads, GetUnshared(t) \/ SwapUnshared(t) PROVE IInv'
  <2>1. value # Guard
    BY <1>4, UnlockedRead DEF GetUnshared, SwapUnshared
  <2>2. TypeOK' /\ PlainAccess'
    BY <1>4, <2>1 DEF GetUnshared, SwapUnshared, IInv
  <2>3. Quiet(t)
    BY <1>4, <2>1 DEF GetUnshared, SwapUnshared, IInv, Quiet, Others, Locked
  <2> QED BY <2>2, <2>3, GuardStep DEF IInv
<1>5. ASSUME NEW t \in Threads, GetLoad(t) \/ GetRetry(t) PROVE IInv'
  <2>1. TypeOK' /\ PlainAccess'
    BY <1>5 DEF GetLoad, GetRetry, GetLook, IInv
  <2>2. Quiet(t)
    BY <1>5 DEF GetLoad, GetRetry, GetLook, IInv, Quiet, Others, Locked
  <2> QED BY <2>1, <2>2, GuardStep DEF IInv
<1>6. ASSUME NEW t \in Threads, GetLock(t) PROVE IInv'
  <2>1. TypeOK' /\ PlainAccess'
    BY <1>6 DEF GetLock, IInv
  <2>2. Takes(t)
    BY <1>6 DEF GetLock, IInv, Takes, Others, Locked
  <2> QED BY <2>1, <2>2, GuardStep DEF IInv
<1>7. ASSUME NEW t \in Threads, GetDup(t) PROVE IInv'
  <2>1. TypeOK' /\ PlainAccess'
    BY <1>7 DEF GetDup, IInv
  <2>2. Holds(t)
    BY <1>7 DEF GetDup, IInv, Holds, Others, Locked
  <2> QED BY <2>1, <2>2, GuardStep DEF IInv
<1>8. ASSUME NEW t \in Threads, GetUnlock(t) PROVE IInv'
  <2>1. TypeOK' /\ PlainAccess'
    BY <1>8 DEF GetUnlock, IInv
  <2>2. Frees(t)
    BY <1>8 DEF GetUnlock, IInv, Frees, Others, Locked
  <2> QED BY <2>1, <2>2, GuardStep DEF IInv
<1>9. ASSUME NEW t \in Threads, GetDrop(t) \/ SwapLoad(t) \/ SwapRetry(t) PROVE IInv'
  <2>1. TypeOK' /\ PlainAccess'
    BY <1>9 DEF GetDrop, SwapLoad, SwapRetry, SwapLook, IInv
  <2>2. Quiet(t)
    BY <1>9 DEF GetDrop, SwapLoad, SwapRetry, SwapLook, IInv, Quiet, Others, Locked
  <2> QED BY <2>1, <2>2, GuardStep DEF IInv
<1>10. ASSUME NEW t \in Threads, SwapStore(t) PROVE IInv'
  <2>1. TypeOK' /\ PlainAccess'
    BY <1>10 DEF SwapStore, IInv
  <2>2. Quiet(t)
    BY <1>10 DEF SwapStore, IInv, Quiet, Others, Locked
  <2> QED BY <2>1, <2>2, GuardStep DEF IInv
<1> QED
  BY <1>1, <1>2, <1>3, <1>4, <1>5, <1>6, <1>7, <1>8, <1>9, <1>10 DEF Next, Get, Swap

(* The guard marks exactly one reader, so that the write that ends a read   *)
(* always succeeds (kk_ref_get_thread_shared).                              *)
THEOREM SafeGuard == Spec => []GuardHeld
<1>1. IInv => GuardHeld
  BY DEF IInv
<1> QED BY <1>1, InitIInv, StepIInv, PTL DEF Spec
---------------------------------------------------------------------------
(* The mapping to the atomic reference: what the reference holds while a    *)
(* reader has put the guard there is the value that reader has taken.       *)
RegOf == /\ value # Guard => Reg = value
         /\ \A t \in Threads : Locked(t) => Reg = box[t]
         /\ Reg \in Values

LEMMA RegIs == IInv => RegOf
<1> SUFFICES ASSUME IInv PROVE RegOf
  OBVIOUS
<1>1. \A t \in Threads : Locked(t) => Reg = box[t]
  BY DEF IInv, GuardHeld, Reg
<1> QED BY <1>1 DEF RegOf, IInv, TypeOK, GuardHeld, Reg

busies == [t \in Threads |-> Busy(t)]

LEMMA OneBusy ==
  ASSUME NEW t \in Threads, \A u \in Threads \ {t} : pc'[u] = pc[u] /\ box'[u] = box[u] /\ new'[u] = new[u]
  PROVE  busies' = [busies EXCEPT ![t] = Busy(t)']
  BY DEF busies, Busy

(* A step of thread t changes nothing in the locals of the others. *)
LEMMA LocalStep ==
  ASSUME IInv, NEW t \in Threads,
         \/ CallGet(t) \/ (\E v \in Values : CallSwap(t, v)) \/ Get(t) \/ Swap(t) \/ Return(t) \/ Finish(t)
  PROVE  \A u \in Threads \ {t} : pc'[u] = pc[u] /\ box'[u] = box[u] /\ new'[u] = new[u]
<1> USE DEF IInv, TypeOK, Goto
<1>1. CASE CallGet(t) \/ (\E v \in Values : CallSwap(t, v)) \/ Return(t) \/ Finish(t)
  BY <1>1 DEF CallGet, CallSwap, Return, Finish
<1>2. CASE Get(t)
  BY <1>2 DEF Get, GetUnshared, GetLoad, GetRetry, GetLook, GetLock, GetDup, GetUnlock, GetDrop
<1>3. CASE Swap(t)
  BY <1>3 DEF Swap, SwapUnshared, SwapLoad, SwapRetry, SwapLook, SwapStore
<1> QED BY <1>1, <1>2, <1>3

LEMMA StutterStep ==
  ASSUME NEW t \in Threads, Reg' = Reg, Busy(t)' = Busy(t), busies' = [busies EXCEPT ![t] = Busy(t)']
  PROVE  UNCHANGED <<Reg, busies>>
  BY DEF busies

LEMMA AtomicInit == Init => Atomic!Init
<1> SUFFICES ASSUME Init PROVE Atomic!Init
  OBVIOUS
<1>1. value # Guard
  BY RefAssumption DEF Init, Values
<1>2. Reg \in Values
  BY <1>1 DEF Reg, Init
<1>3. [t \in Threads |-> Busy(t)] = [t \in Threads |-> [op |-> "none"]]
  BY DEF Init, Busy
<1> QED BY <1>2, <1>3 DEF Atomic!Init, Atomic!Idle

LEMMA AtomicStep ==
  ASSUME IInv, IInv', RegOf, RegOf', [Next]_vars
  PROVE  [Atomic!Next]_<<Reg, busies>>
<1> USE DEF TypeOK, Goto, RegOf, IInv
<1>1. CASE Share \/ UNCHANGED vars
  <2>1. UNCHANGED <<value, pc, box, new>>
    BY <1>1 DEF Share, vars
  <2>2. Reg' = Reg
    BY <2>1 DEF GuardHeld, Locked
  <2>3. busies' = busies
    BY <2>1 DEF busies, Busy
  <2> QED BY <2>2, <2>3
<1>2. ASSUME NEW t \in Threads,
             CallGet(t) \/ (\E v \in Values : CallSwap(t, v)) \/ Get(t) \/ Swap(t) \/ Return(t) \/ Finish(t)
      PROVE  \/ UNCHANGED <<Reg, busies>>
             \/ Atomic!Call(t) \/ Atomic!TakeEffect(t) \/ Atomic!Return(t)
  <2>1. busies' = [busies EXCEPT ![t] = Busy(t)'] /\ busies[t] = Busy(t)
    BY <1>2, LocalStep, OneBusy DEF busies
  <2>2. \A u \in Threads \ {t} : pc'[u] = pc[u] /\ box'[u] = box[u]
    BY <1>2, LocalStep
  <2> USE DEF Locked, GuardHeld
  <2>3. CASE CallGet(t)
    <3>1. Busy(t) = [op |-> "none"] /\ Busy(t)' = [op |-> "get"]
      BY <2>3 DEF CallGet, Busy
    <3>2. Reg' = Reg
      BY <2>3, <2>2 DEF CallGet
    <3> QED BY <2>1, <3>1, <3>2 DEF Atomic!Call, Atomic!Idle, busies
  <2>4. CASE \E v \in Values : CallSwap(t, v)
    <3>1. PICK v \in Values : CallSwap(t, v)
      BY <2>4
    <3>2. Busy(t) = [op |-> "none"] /\ Busy(t)' = [op |-> "swap", new |-> v]
      BY <3>1 DEF CallSwap, Busy
    <3>3. Reg' = Reg
      BY <3>1, <2>2 DEF CallSwap
    <3> QED BY <2>1, <3>2, <3>3 DEF Atomic!Call, Atomic!Idle, busies
  <2>5. CASE Return(t)
    <3>1. Busy(t) = [op |-> "done", result |-> box[t]] /\ Busy(t)' = [op |-> "none"]
      BY <2>5 DEF Return, Busy
    <3>2. Reg' = Reg
      BY <2>5, <2>2 DEF Return
    <3> QED BY <2>1, <3>1, <3>2 DEF Atomic!Return, Atomic!Idle, busies
  <2>6. CASE Finish(t)
    <3>1. Busy(t)' = Busy(t) /\ Reg' = Reg
      BY <2>6, <2>2 DEF Finish, Busy
    <3> QED BY <3>1, <2>1, StutterStep
  <2>7. CASE GetUnshared(t) \/ GetLock(t)
    <3>1. Busy(t) = [op |-> "get"] /\ Busy(t)' = [op |-> "done", result |-> box'[t]]
      BY <2>7 DEF GetUnshared, GetLock, Busy
    <3>2. box'[t] = Reg /\ Reg' = Reg
      BY <2>7, <2>2, UnlockedRead DEF GetUnshared, GetLock
    <3> QED BY <2>1, <3>1, <3>2 DEF Atomic!TakeEffect, busies
  <2>8. CASE GetLoad(t) \/ GetRetry(t)
    <3>1. Reg' = Reg
      BY <2>8, <2>2 DEF GetLoad, GetRetry, GetLook
    <3>2. Busy(t) = [op |-> "get"]
      BY <2>8 DEF GetLoad, GetRetry, Busy
    <3>3. CASE value \in Raws
      <4>1. Busy(t)' = [op |-> "done", result |-> Reg]
        BY <2>8, <3>3, RefAssumption DEF GetLoad, GetRetry, GetLook, Busy
      <4> QED BY <2>1, <3>1, <3>2, <4>1 DEF Atomic!TakeEffect, busies
    <3>4. CASE value \notin Raws
      <4>1. Busy(t)' = Busy(t)
        BY <2>8, <3>2, <3>4 DEF GetLoad, GetRetry, GetLook, Busy
      <4> QED BY <3>1, <4>1, <2>1, StutterStep
    <3> QED BY <3>3, <3>4
  <2>9. CASE GetDup(t) \/ GetUnlock(t) \/ GetDrop(t)
    <3>1. Busy(t)' = Busy(t)
      BY <2>9 DEF GetDup, GetUnlock, GetDrop, Busy
    <3>2. Reg' = Reg
      BY <2>9, <2>2 DEF GetDup, GetUnlock, GetDrop
    <3> QED BY <3>1, <3>2, <2>1, StutterStep
  <2>10. CASE SwapLoad(t) \/ SwapRetry(t)
    <3>1. Busy(t)' = Busy(t) /\ Reg' = Reg
      BY <2>10, <2>2 DEF SwapLoad, SwapRetry, SwapLook, Busy
    <3> QED BY <3>1, <2>1, StutterStep
  <2>11. CASE SwapUnshared(t) \/ SwapStore(t)
    <3>1. Busy(t) = [op |-> "swap", new |-> new[t]] /\ Busy(t)' = [op |-> "done", result |-> box'[t]]
      BY <2>11 DEF SwapUnshared, SwapStore, Busy
    <3>2. box'[t] = Reg /\ Reg' = new[t]
      BY <2>11, <2>2, UnlockedRead, RefAssumption DEF SwapUnshared, SwapStore, Values
    <3> QED BY <2>1, <3>1, <3>2 DEF Atomic!TakeEffect, busies
  <2> QED BY <1>2, <2>3, <2>4, <2>5, <2>6, <2>7, <2>8, <2>9, <2>10, <2>11 DEF Get, Swap
<1> QED
  BY <1>1, <1>2 DEF Next, Atomic!Next

(* Reads and exchanges of a thread-shared reference take effect one at a    *)
(* time (kk_ref_get_thread_shared, kk_ref_swap_thread_shared_borrow).       *)
THEOREM Refinement == Spec => Linearizable
<1>1. busies = [t \in Threads |-> Busy(t)]
  BY DEF busies
<1>2. IInv /\ IInv' /\ [Next]_vars => [Atomic!Next]_<<Reg, busies>>
  BY RegIs, AtomicStep, PTL
<1>3. Init => Atomic!Init
  BY AtomicInit
<1>4. IInv /\ IInv' /\ [Next]_vars => [Atomic!Next]_Atomic!vars
  BY <1>2 DEF Atomic!vars, busies
<1> QED BY <1>3, <1>4, InitIInv, StepIInv, PTL DEF Spec, Linearizable, Atomic!Spec
---------------------------------------------------------------------------
(* The references to r: one for each thread that may still call, one for    *)
(* each read in progress, and those that shared reads of raw values kept.   *)
Members == {t \in Threads : ops[t] >= 0 /\ (shared \/ t = Owner)}
Readers == {t \in Threads : pc[t] \in {"get", "get_cas", "get_dup", "get_unlock", "get_drop"}}

Counting ==
    /\ count \in [Blocks -> Int]
    /\ rawReads \in Nat
    /\ ops \in [Threads -> Int]
    /\ \A t \in Threads : ops[t] >= -1 /\ (ops[t] = -1 => pc[t] = "idle")
    /\ ~shared => ops[Owner] >= 0 /\ \A t \in Threads \ {Owner} : pc[t] = "idle" /\ ops[t] >= 0
    /\ rcount = Cardinality(Members) + Cardinality(Readers) + rawReads

Writing(b) == {t \in Threads : HoldsNew(t, b)}
Keeping(b) == {t \in Threads : HoldsResult(t, b)}
Unit(p) == IF p THEN 1 ELSE 0

Balanced == \A b \in Blocks :
    count[b] = Cardinality(Writing(b)) + Cardinality(Keeping(b)) + Unit(InCell(b))

LEMMA ThreadSets ==
  ASSUME NEW S \in SUBSET Threads
  PROVE  /\ IsFiniteSet(S) /\ Cardinality(S) \in Nat
         /\ \A t \in S : Cardinality(S) >= 1
         /\ \A t, u \in S : t # u => Cardinality(S) >= 2
<1>1. IsFiniteSet(S) /\ Cardinality(S) \in Nat
  BY RefAssumption, FS_Subset, FS_CardinalityType
<1>2. ASSUME NEW t \in S PROVE Cardinality(S \ {t}) = Cardinality(S) - 1 /\ Cardinality(S \ {t}) \in Nat
  BY <1>1, FS_RemoveElement, FS_Subset, FS_CardinalityType
<1>3. ASSUME NEW t \in S, NEW u \in S, t # u PROVE Cardinality(S) >= 2
  <2>1. u \in S \ {t} /\ IsFiniteSet(S \ {t})
    BY <1>1, <1>3, FS_Subset
  <2>2. Cardinality((S \ {t}) \ {u}) = Cardinality(S \ {t}) - 1
    BY <2>1, FS_RemoveElement
  <2>3. Cardinality((S \ {t}) \ {u}) \in Nat
    BY <2>1, FS_Subset, FS_CardinalityType
  <2> QED BY <1>1, <1>2, <2>2, <2>3
<1>4. ASSUME NEW t \in S PROVE Cardinality(S) >= 1
  <2>1. Cardinality(S \ {t}) = Cardinality(S) - 1 /\ Cardinality(S \ {t}) \in Nat
    BY <1>2
  <2> QED BY <1>1, <2>1
<1> QED BY <1>1, <1>3, <1>4

(* When only one thread may enter or leave a set.                           *)
LEMMA OneMoves ==
  ASSUME NEW S \in SUBSET Threads, NEW T \in SUBSET Threads, NEW t \in Threads,
         S \ {t} = T \ {t}
  PROVE  Cardinality(T) = Cardinality(S) + Unit(t \in T) - Unit(t \in S)
<1>1. ASSUME NEW R \in SUBSET Threads
      PROVE  Cardinality(R) = Cardinality(R \ {t}) + Unit(t \in R)
  <2>1. CASE t \in R
    BY <2>1, ThreadSets, FS_RemoveElement DEF Unit
  <2>2. CASE t \notin R
    <3>1. R \ {t} = R /\ Unit(t \in R) = 0
      BY <2>2 DEF Unit
    <3>2. Cardinality(R) \in Nat
      BY ThreadSets
    <3> QED BY <3>1, <3>2
  <2> QED BY <2>1, <2>2
<1>2. Cardinality(S \ {t}) \in Nat
  BY ThreadSets
<1> QED BY <1>1, <1>2 DEF Unit

(* A step of one thread keeps the balance when the count of each block      *)
(* changes with what the thread and the cell hold.                          *)
LEMMA BalancedStep ==
  ASSUME Balanced, Counting, NEW t \in Threads,
         \A u \in Threads \ {t} : pc'[u] = pc[u] /\ box'[u] = box[u] /\ new'[u] = new[u],
         \A b \in Blocks :
           count'[b] = count[b] + Unit(HoldsNew(t, b)') - Unit(HoldsNew(t, b))
                                + Unit(HoldsResult(t, b)') - Unit(HoldsResult(t, b))
                                + Unit(InCell(b)') - Unit(InCell(b))
  PROVE  Balanced'
<1> SUFFICES ASSUME NEW b \in Blocks
             PROVE  count'[b] = Cardinality(Writing(b)') + Cardinality(Keeping(b)') + Unit(InCell(b)')
  BY DEF Balanced, Writing, Keeping
<1>1. Cardinality(Writing(b)') = Cardinality(Writing(b)) + Unit(HoldsNew(t, b)') - Unit(HoldsNew(t, b))
  <2>1. Writing(b) \in SUBSET Threads /\ Writing(b)' \in SUBSET Threads
    BY DEF Writing
  <2>2. Writing(b) \ {t} = Writing(b)' \ {t}
    BY DEF Writing, HoldsNew
  <2>3. (t \in Writing(b) <=> HoldsNew(t, b)) /\ (t \in Writing(b)' <=> HoldsNew(t, b)')
    BY DEF Writing
  <2>4. Cardinality(Writing(b)') = Cardinality(Writing(b)) + Unit(t \in Writing(b)') - Unit(t \in Writing(b))
    BY <2>1, <2>2, OneMoves
  <2> QED BY <2>3, <2>4 DEF Unit
<1>2. Cardinality(Keeping(b)') = Cardinality(Keeping(b)) + Unit(HoldsResult(t, b)') - Unit(HoldsResult(t, b))
  <2>1. Keeping(b) \in SUBSET Threads /\ Keeping(b)' \in SUBSET Threads
    BY DEF Keeping
  <2>2. Keeping(b) \ {t} = Keeping(b)' \ {t}
    BY DEF Keeping, HoldsResult
  <2>3. (t \in Keeping(b) <=> HoldsResult(t, b)) /\ (t \in Keeping(b)' <=> HoldsResult(t, b)')
    BY DEF Keeping
  <2>4. Cardinality(Keeping(b)') = Cardinality(Keeping(b)) + Unit(t \in Keeping(b)') - Unit(t \in Keeping(b))
    BY <2>1, <2>2, OneMoves
  <2> QED BY <2>3, <2>4 DEF Unit
<1>3. Cardinality(Writing(b)) \in Nat /\ Cardinality(Keeping(b)) \in Nat
  BY ThreadSets DEF Writing, Keeping
<1>4. count[b] = Cardinality(Writing(b)) + Cardinality(Keeping(b)) + Unit(InCell(b))
  BY DEF Balanced
<1> QED BY <1>1, <1>2, <1>3, <1>4 DEF Unit

(* The count of r changes with the calls and reads of the thread.           *)
LEMMA CountingStep ==
  ASSUME Counting, NEW t \in Threads, shared' = shared,
         \A u \in Threads \ {t} : pc'[u] = pc[u] /\ ops'[u] = ops[u],
         rawReads' \in Nat,
         rcount' = rcount + Unit(t \in Members') - Unit(t \in Members)
                          + Unit(t \in Readers') - Unit(t \in Readers) + rawReads' - rawReads
  PROVE  rcount' = Cardinality(Members') + Cardinality(Readers') + rawReads'
<1>1. Cardinality(Members') = Cardinality(Members) + Unit(t \in Members') - Unit(t \in Members)
  <2>1. Members \ {t} = Members' \ {t} /\ Members \in SUBSET Threads /\ Members' \in SUBSET Threads
    BY DEF Members
  <2> QED BY <2>1, OneMoves
<1>2. Cardinality(Readers') = Cardinality(Readers) + Unit(t \in Readers') - Unit(t \in Readers)
  <2>1. Readers \ {t} = Readers' \ {t} /\ Readers \in SUBSET Threads /\ Readers' \in SUBSET Threads
    BY DEF Readers
  <2> QED BY <2>1, OneMoves
<1>3. Cardinality(Members) \in Nat /\ Cardinality(Readers) \in Nat
  BY ThreadSets DEF Members, Readers
<1> QED BY <1>1, <1>2, <1>3 DEF Counting, Unit

(* While a thread may call or reads, r is alive, and alive after it drops   *)
(* its reference unless that was the last.                                  *)
LEMMA Alive ==
  ASSUME Counting
  PROVE  /\ rcount \in Nat
         /\ \A t \in Threads : t \in Members \/ t \in Readers => rcount >= 1
         /\ \A t, u \in Threads : t \in Members /\ u \in Readers => rcount >= 2
         /\ \A t, u \in Readers : t # u => rcount >= 2
<1>1. Members \in SUBSET Threads /\ Readers \in SUBSET Threads
  BY DEF Members, Readers
<1>2. Cardinality(Members) \in Nat /\ Cardinality(Readers) \in Nat
  BY <1>1, ThreadSets
<1>3. /\ \A t \in Members : Cardinality(Members) >= 1
      /\ \A t \in Readers : Cardinality(Readers) >= 1
      /\ \A t, u \in Readers : t # u => Cardinality(Readers) >= 2
  BY <1>1, ThreadSets
<1> QED BY <1>2, <1>3 DEF Counting

LEMMA InitCounts == Init => Counting /\ Balanced
<1> SUFFICES ASSUME Init PROVE Counting /\ Balanced
  OBVIOUS
<1>1. Members = {Owner} /\ Readers = {}
  BY RefAssumption DEF Init, Members, Readers
<1>2. Cardinality(Members) = 1 /\ Cardinality(Readers) = 0
  BY <1>1, FS_Singleton, FS_EmptySet
<1>3. Counting
  BY <1>2, RefAssumption DEF Init, Counting
<1>4. ASSUME NEW b \in Blocks
      PROVE  count[b] = Cardinality(Writing(b)) + Cardinality(Keeping(b)) + Unit(InCell(b))
  <2>1. Writing(b) = {} /\ Keeping(b) = {}
    BY DEF Init, Writing, Keeping, HoldsNew, HoldsResult
  <2>2. InCell(b) <=> value = b
    BY DEF Init, InCell, Locked
  <2> QED BY <2>1, <2>2, FS_EmptySet DEF Init, Unit
<1> QED BY <1>3, <1>4 DEF Balanced

(* r is given to the other threads.                                         *)
LEMMA ShareCounts ==
  ASSUME IInv, Counting, Balanced, Share
  PROVE  Counting' /\ Balanced'
<1>1. Members = {Owner}
  BY RefAssumption DEF Members, Counting, Share
<1>2. Members' = Threads /\ Readers' = Readers
  BY RefAssumption DEF Members, Readers, Counting, Share
<1>3. Cardinality(Threads) = Cardinality(Threads \ {Owner}) + 1 /\ Cardinality(Threads \ {Owner}) \in Nat
  BY RefAssumption, ThreadSets, FS_RemoveElement
<1>4. rcount' = Cardinality(Members') + Cardinality(Readers') + rawReads'
  <2>1. Cardinality(Members) = 1
    BY <1>1, FS_Singleton
  <2>2. Cardinality(Readers) \in Nat
    BY ThreadSets DEF Readers
  <2> QED BY <1>2, <1>3, <2>1, <2>2 DEF Counting, Share
<1>5. Counting'
  BY <1>4, RefAssumption DEF Counting, Share
<1>6. rcount > 0 /\ rcount' > 0
  <2>1. Owner \in Members /\ Owner \in Threads
    BY <1>1, RefAssumption
  <2> QED BY <1>3, <2>1, Alive DEF Share
<1>7. \A b \in Blocks : Writing(b)' = Writing(b) /\ Keeping(b)' = Keeping(b) /\ (InCell(b)' <=> InCell(b))
  BY <1>6 DEF Share, Writing, Keeping, HoldsNew, HoldsResult, InCell, Locked
<1>8. Balanced'
  <2> SUFFICES ASSUME NEW b \in Blocks
               PROVE  count'[b] = Cardinality(Writing(b)') + Cardinality(Keeping(b)') + Unit(InCell(b)')
    BY DEF Balanced
  <2> QED BY <1>7 DEF Balanced, Unit, Share
<1> QED BY <1>5, <1>8

LEMMA CallCounts ==
  ASSUME IInv, Counting, Balanced, NEW t \in Threads,
         CallGet(t) \/ \E v \in Values : CallSwap(t, v)
  PROVE  Counting' /\ Balanced'
<1>1. ops[t] > 0 /\ (shared \/ t = Owner) /\ pc[t] = "idle" /\ ops' = [ops EXCEPT ![t] = @ - 1]
  BY DEF CallGet, CallSwap, May, Goto
<1>2. t \in Members /\ t \in Members' /\ t \notin Readers
  BY <1>1 DEF Members, Readers, Counting, CallGet, CallSwap
<1>3. rcount > 0
  BY <1>2, Alive
<1>4. \A u \in Threads \ {t} : pc'[u] = pc[u] /\ box'[u] = box[u] /\ new'[u] = new[u] /\ ops'[u] = ops[u]
  BY <1>1, LocalStep DEF Counting
<1>5. CASE CallGet(t)
  <2>1. t \in Readers'
    BY <1>5 DEF CallGet, Goto, Readers, IInv, TypeOK
  <2>2. rcount' = Cardinality(Members') + Cardinality(Readers') + rawReads'
    BY <1>2, <1>4, <1>5, <2>1, CountingStep, Alive DEF CallGet, Unit, Counting
  <2>3. Counting'
    BY <1>1, <1>5, <2>2 DEF CallGet, Goto, Counting, IInv, TypeOK
  <2>4. Balanced'
    <3>1. ~Locked(t) /\ ~Locked(t)' /\ \A u \in Threads : box'[u] = box[u] /\ (Locked(u)' <=> Locked(u))
      BY <1>4, <1>5 DEF CallGet, Goto, Locked, IInv, TypeOK
    <3>2. ASSUME NEW b \in Blocks
          PROVE  /\ ~HoldsNew(t, b) /\ ~HoldsNew(t, b)' /\ ~HoldsResult(t, b) /\ ~HoldsResult(t, b)'
                 /\ InCell(b)' <=> InCell(b)
      <4>1. pc[t] = "idle" /\ pc'[t] = "get"
        BY <1>1, <1>5 DEF CallGet, Goto, IInv, TypeOK
      <4>2. rcount' > 0 /\ value' = value
        BY <1>3, <1>5, Alive DEF CallGet
      <4> QED BY <1>3, <3>1, <4>1, <4>2 DEF HoldsNew, HoldsResult, InCell
    <3>3. \A b \in Blocks :
           count'[b] = count[b] + Unit(HoldsNew(t, b)') - Unit(HoldsNew(t, b))
                                + Unit(HoldsResult(t, b)') - Unit(HoldsResult(t, b))
                                + Unit(InCell(b)') - Unit(InCell(b))
      BY <1>5, <3>2 DEF CallGet, Counting, Unit
    <3> QED BY <1>4, <3>3, BalancedStep
  <2> QED BY <2>3, <2>4
<1>6. CASE \E v \in Values : CallSwap(t, v)
  <2>1. PICK v \in Values : CallSwap(t, v)
    BY <1>6
  <2>2. t \notin Readers'
    BY <2>1 DEF CallSwap, Goto, Readers, IInv, TypeOK
  <2>3. rcount' = Cardinality(Members') + Cardinality(Readers') + rawReads'
    BY <1>2, <1>4, <2>1, <2>2, CountingStep, Alive DEF CallSwap, Unit, Counting
  <2>4. Counting'
    BY <1>1, <2>1, <2>3 DEF CallSwap, Goto, Counting, IInv, TypeOK, Dup
  <2>5. Balanced'
    <3>1. \A u \in Threads : box'[u] = box[u] /\ (Locked(u)' <=> Locked(u))
      BY <1>4, <2>1 DEF CallSwap, Goto, Locked, IInv, TypeOK
    <3>2. ASSUME NEW b \in Blocks
          PROVE  /\ ~HoldsNew(t, b) /\ (HoldsNew(t, b)' <=> b = v)
                 /\ ~HoldsResult(t, b) /\ ~HoldsResult(t, b)'
                 /\ InCell(b)' <=> InCell(b)
                 /\ count'[b] = count[b] + (IF b = v THEN 1 ELSE 0)
      <4>1. pc[t] = "idle" /\ pc'[t] = "swap" /\ new'[t] = v
        BY <1>1, <2>1 DEF CallSwap, Goto, IInv, TypeOK
      <4>2. rcount' = rcount /\ value' = value
        BY <2>1 DEF CallSwap
      <4>3. count'[b] = count[b] + (IF b = v THEN 1 ELSE 0)
        BY <2>1 DEF CallSwap, Dup, Counting
      <4> QED BY <3>1, <4>1, <4>2, <4>3 DEF HoldsNew, HoldsResult, InCell
    <3>3. \A b \in Blocks :
           count'[b] = count[b] + Unit(HoldsNew(t, b)') - Unit(HoldsNew(t, b))
                                + Unit(HoldsResult(t, b)') - Unit(HoldsResult(t, b))
                                + Unit(InCell(b)') - Unit(InCell(b))
      BY <3>2 DEF Counting, Unit
    <3> QED BY <1>4, <3>3, BalancedStep
  <2> QED BY <2>4, <2>5
<1> QED BY <1>5, <1>6

(* An access that only one thread makes, since r is not shared: r is alive. *)
LEMMA UnsharedCounts ==
  ASSUME IInv, Counting, Balanced, NEW t \in Threads, GetUnshared(t) \/ SwapUnshared(t)
  PROVE  Counting' /\ Balanced'
<1>1. ~shared /\ ~shared' /\ Owner \in Members /\ Owner \in Members'
  BY RefAssumption DEF GetUnshared, SwapUnshared, Counting, Members
<1>2. rcount > 0 /\ (t \in Readers => rcount > 1)
  BY <1>1, RefAssumption, Alive DEF Readers, Members
<1>3. value # Guard /\ \A u \in Threads : ~Locked(u)
  BY <1>1, UnlockedRead DEF IInv, GuardHeld
<1>4. \A u \in Threads \ {t} : pc'[u] = pc[u] /\ box'[u] = box[u] /\ new'[u] = new[u] /\ ops'[u] = ops[u]
  BY LocalStep DEF Get, Swap, GetUnshared, SwapUnshared
<1>5. \A u \in Threads : ~Locked(u)'
  BY <1>3, <1>4 DEF Locked, GetUnshared, SwapUnshared, Goto, IInv, TypeOK
<1>6. CASE GetUnshared(t)
  <2>1. /\ pc[t] = "get" /\ pc'[t] = "done" /\ box'[t] = value
        /\ count' = Dup(value) /\ rcount' = rcount - 1
        /\ UNCHANGED <<value, shared, new, ops, rawReads>>
    BY <1>6 DEF GetUnshared, Goto, IInv, TypeOK
  <2>2. t \in Readers /\ t \notin Readers' /\ Members' = Members
    BY <2>1 DEF Readers, Members
  <2>3. rcount' = Cardinality(Members') + Cardinality(Readers') + rawReads'
    BY <1>4, <2>1, <2>2, CountingStep, Alive DEF Unit, Counting
  <2>4. Counting'
    BY <1>1, <1>4, <2>1, <2>3 DEF Counting, Dup
  <2>5. rcount' > 0
    BY <1>2, <2>1, <2>2, Alive
  <2>6. ASSUME NEW b \in Blocks
        PROVE  /\ ~HoldsNew(t, b) /\ ~HoldsNew(t, b)'
               /\ ~HoldsResult(t, b) /\ (HoldsResult(t, b)' <=> value = b)
               /\ InCell(b)' <=> InCell(b)
               /\ count'[b] = count[b] + (IF value = b THEN 1 ELSE 0)
    <3>1. count'[b] = count[b] + (IF value = b THEN 1 ELSE 0)
      BY <2>1 DEF Dup, Counting
    <3> QED BY <1>2, <1>3, <1>5, <2>1, <2>5, <3>1 DEF HoldsNew, HoldsResult, InCell
  <2>7. \A b \in Blocks :
           count'[b] = count[b] + Unit(HoldsNew(t, b)') - Unit(HoldsNew(t, b))
                                + Unit(HoldsResult(t, b)') - Unit(HoldsResult(t, b))
                                + Unit(InCell(b)') - Unit(InCell(b))
    BY <2>6 DEF Counting, Unit
  <2> QED BY <1>4, <2>4, <2>7, BalancedStep
<1>7. CASE SwapUnshared(t)
  <2>1. /\ pc[t] = "swap" /\ pc'[t] = "done" /\ box'[t] = value /\ value' = new[t]
        /\ UNCHANGED <<count, rcount, shared, new, ops, rawReads>>
    BY <1>7 DEF SwapUnshared, Goto, IInv, TypeOK
  <2>2. t \notin Readers /\ t \notin Readers' /\ Members' = Members
    BY <2>1 DEF Readers, Members
  <2>3. rcount' = Cardinality(Members') + Cardinality(Readers') + rawReads'
    BY <1>4, <2>1, <2>2, CountingStep, Alive DEF Unit, Counting
  <2>4. Counting'
    BY <1>1, <1>4, <2>1, <2>3 DEF Counting
  <2>5. ASSUME NEW b \in Blocks
        PROVE  /\ (HoldsNew(t, b) <=> new[t] = b) /\ ~HoldsNew(t, b)'
               /\ ~HoldsResult(t, b) /\ (HoldsResult(t, b)' <=> value = b)
               /\ (InCell(b) <=> value = b) /\ (InCell(b)' <=> new[t] = b)
    BY <1>2, <1>3, <1>5, <2>1 DEF HoldsNew, HoldsResult, InCell
  <2>6. \A b \in Blocks :
           count'[b] = count[b] + Unit(HoldsNew(t, b)') - Unit(HoldsNew(t, b))
                                + Unit(HoldsResult(t, b)') - Unit(HoldsResult(t, b))
                                + Unit(InCell(b)') - Unit(InCell(b))
    BY <2>1, <2>5 DEF Counting, Unit
  <2> QED BY <1>4, <2>4, <2>6, BalancedStep
<1> QED BY <1>6, <1>7

(* Steps that move no reference to a block: looking at the reference, and   *)
(* writing the value back.                                                  *)
LEMMA LookCounts ==
  ASSUME IInv, Counting, Balanced, NEW t \in Threads,
         GetLoad(t) \/ GetRetry(t) \/ SwapLoad(t) \/ SwapRetry(t)
  PROVE  Counting' /\ Balanced'
<1>1. \A u \in Threads \ {t} : pc'[u] = pc[u] /\ box'[u] = box[u] /\ new'[u] = new[u] /\ ops'[u] = ops[u]
  BY LocalStep DEF Get, Swap, GetLoad, GetRetry, SwapLoad, SwapRetry
<1>2. UNCHANGED <<value, count, rcount, shared, new, ops>>
  BY DEF GetLoad, GetRetry, SwapLoad, SwapRetry
<1>3. ~Locked(t) /\ ~Locked(t)'
  BY DEF GetLoad, GetRetry, GetLook, SwapLoad, SwapRetry, Goto, Locked, IInv, TypeOK
<1>4. \A b \in Blocks : InCell(b)' <=> InCell(b)
  BY <1>1, <1>2, <1>3 DEF InCell, Locked
<1>5. \A b \in Blocks : HoldsNew(t, b)' <=> HoldsNew(t, b)
  BY <1>2 DEF GetLoad, GetRetry, GetLook, SwapLoad, SwapRetry, Goto, HoldsNew, IInv, TypeOK
<1>6. \A b \in Blocks : ~HoldsResult(t, b) /\ ~HoldsResult(t, b)'
  BY RefAssumption DEF GetLoad, GetRetry, GetLook, SwapLoad, SwapRetry, Goto, HoldsResult, IInv, TypeOK
<1>7. Members' = Members
  BY <1>2 DEF Members
<1>8. /\ rawReads' \in Nat
      /\ Unit(t \in Readers') - Unit(t \in Readers) + rawReads' - rawReads = 0
  BY DEF GetLoad, GetRetry, GetLook, SwapLoad, SwapRetry, Goto, Readers, Unit, Counting, IInv, TypeOK
<1>9. rcount' = Cardinality(Members') + Cardinality(Readers') + rawReads'
  <2>1. /\ Unit(t \in Readers') \in Int /\ Unit(t \in Readers) \in Int
        /\ Unit(t \in Members') \in Int /\ Unit(t \in Members') = Unit(t \in Members)
        /\ rawReads \in Nat /\ rcount \in Int /\ rcount' = rcount
    BY <1>2, <1>7, Alive DEF Unit, Counting
  <2>2. rcount' = rcount + Unit(t \in Members') - Unit(t \in Members)
                         + Unit(t \in Readers') - Unit(t \in Readers) + rawReads' - rawReads
    BY <1>8, <2>1
  <2> QED BY <1>1, <1>2, <1>8, <2>2, CountingStep
<1>10. Counting'
  BY <1>1, <1>2, <1>8, <1>9 DEF Counting, GetLoad, GetRetry, GetLook, SwapLoad, SwapRetry, Goto
<1>11. \A b \in Blocks :
           count'[b] = count[b] + Unit(HoldsNew(t, b)') - Unit(HoldsNew(t, b))
                                + Unit(HoldsResult(t, b)') - Unit(HoldsResult(t, b))
                                + Unit(InCell(b)') - Unit(InCell(b))
  BY <1>2, <1>4, <1>5, <1>6 DEF Counting, Unit
<1> QED BY <1>1, <1>10, <1>11, BalancedStep

(* A reader takes the value out of the cell, dups it, and puts it back.     *)
LEMMA GuardCounts ==
  ASSUME IInv, Counting, Balanced, NEW t \in Threads, GetLock(t) \/ GetDup(t) \/ GetUnlock(t)
  PROVE  Counting' /\ Balanced'
<1>1. \A u \in Threads \ {t} : pc'[u] = pc[u] /\ box'[u] = box[u] /\ new'[u] = new[u] /\ ops'[u] = ops[u]
  BY LocalStep DEF Get, GetLock, GetDup, GetUnlock
<1>2. /\ UNCHANGED <<rcount, shared, box, new, ops, rawReads>>
      /\ pc[t] \in {"get_cas", "get_dup", "get_unlock"}
      /\ pc'[t] \in {"get_dup", "get_unlock", "get_drop"}
  BY DEF GetLock, GetDup, GetUnlock, Goto, IInv, TypeOK
<1>3. t \in Readers /\ t \in Readers' /\ Members' = Members
  BY <1>2 DEF Readers, Members
<1>4. rcount' = Cardinality(Members') + Cardinality(Readers') + rawReads' /\ rcount > 0
  BY <1>1, <1>2, <1>3, CountingStep, Alive DEF Unit, Counting
<1>5. Counting'
  BY <1>1, <1>2, <1>4 DEF Counting, GetLock, GetDup, GetUnlock, Goto, Dup
<1>6. \A b \in Blocks : ~HoldsNew(t, b) /\ ~HoldsNew(t, b)'
  BY <1>2 DEF HoldsNew
<1>7. \A b \in Blocks : InCell(b) <=> box[t] = b
  <2>1. CASE GetLock(t)
    <3>1. value = box[t] /\ value # Guard
      BY <2>1, RefAssumption DEF GetLock, IInv, TypeOK, Values
    <3>2. \A u \in Threads : ~Locked(u)
      BY <3>1 DEF IInv, GuardHeld
    <3> QED BY <1>4, <3>1, <3>2 DEF InCell
  <2>2. CASE GetDup(t) \/ GetUnlock(t)
    <3>1. Locked(t)
      BY <2>2 DEF GetDup, GetUnlock, Goto, Locked
    <3>2. value = Guard /\ \A u \in Threads : Locked(u) => u = t
      BY <3>1 DEF IInv, GuardHeld
    <3> QED BY <1>4, <3>1, <3>2, RefAssumption DEF InCell
  <2> QED BY <2>1, <2>2
<1>8. \A b \in Blocks : InCell(b)' <=> box[t] = b
  <2>1. IInv' /\ rcount' > 0 /\ box' = box
    BY <1>2, <1>4, StepIInv DEF Next, Get
  <2>2. CASE GetLock(t) \/ GetDup(t)
    <3>1. Locked(t)'
      BY <2>2 DEF GetLock, GetDup, Goto, Locked, IInv, TypeOK
    <3>2. value' = Guard /\ \A u \in Threads : Locked(u)' => u = t
      BY <2>1, <3>1 DEF IInv, GuardHeld
    <3> QED BY <2>1, <3>1, <3>2, RefAssumption DEF InCell
  <2>3. CASE GetUnlock(t)
    <3>1. value' = box[t] /\ value' # Guard
      BY <2>3, RefAssumption DEF GetUnlock, IInv, TypeOK, Values
    <3>2. \A u \in Threads : ~Locked(u)'
      BY <2>1, <3>1 DEF IInv, GuardHeld
    <3> QED BY <2>1, <3>1, <3>2 DEF InCell
  <2> QED BY <2>2, <2>3
<1>9. \A b \in Blocks : count'[b] = count[b] + Unit(HoldsResult(t, b)') - Unit(HoldsResult(t, b))
  <2>1. CASE GetLock(t) \/ GetUnlock(t)
    <3>1. count' = count /\ \A b \in Blocks : HoldsResult(t, b)' <=> HoldsResult(t, b)
      BY <1>2, <2>1 DEF GetLock, GetUnlock, Goto, HoldsResult, IInv, TypeOK
    <3> QED BY <3>1 DEF Unit, Counting
  <2>2. CASE GetDup(t)
    <3>1. \A b \in Blocks : ~HoldsResult(t, b) /\ (HoldsResult(t, b)' <=> box[t] = b)
      BY <1>2, <2>2 DEF GetDup, Goto, HoldsResult, IInv, TypeOK
    <3>2. \A b \in Blocks : count'[b] = count[b] + (IF box[t] = b THEN 1 ELSE 0)
      BY <2>2 DEF GetDup, Dup, Counting
    <3> QED BY <3>1, <3>2 DEF Unit, Counting
  <2> QED BY <2>1, <2>2
<1>10. \A b \in Blocks :
           count'[b] = count[b] + Unit(HoldsNew(t, b)') - Unit(HoldsNew(t, b))
                                + Unit(HoldsResult(t, b)') - Unit(HoldsResult(t, b))
                                + Unit(InCell(b)') - Unit(InCell(b))
  BY <1>6, <1>7, <1>8, <1>9 DEF Counting, Unit
<1> QED BY <1>1, <1>5, <1>10, BalancedStep

(* A writer puts its value into the cell and has the value that was there.  *)
LEMMA StoreCounts ==
  ASSUME IInv, Counting, Balanced, NEW t \in Threads, SwapStore(t)
  PROVE  Counting' /\ Balanced'
<1>1. \A u \in Threads \ {t} : pc'[u] = pc[u] /\ box'[u] = box[u] /\ new'[u] = new[u] /\ ops'[u] = ops[u]
  BY LocalStep DEF Swap, SwapStore
<1>2. /\ pc[t] = "swap_cas" /\ pc'[t] = "done" /\ value = box[t] /\ value' = new[t]
      /\ UNCHANGED <<count, rcount, shared, box, new, ops, rawReads>>
  BY DEF SwapStore, Goto, IInv, TypeOK
<1>3. t \notin Readers /\ t \notin Readers' /\ Members' = Members
  BY <1>2 DEF Readers, Members
<1>4. rcount' = Cardinality(Members') + Cardinality(Readers') + rawReads'
  BY <1>1, <1>2, <1>3, CountingStep, Alive DEF Unit, Counting
<1>5. Counting'
  BY <1>1, <1>2, <1>4 DEF Counting, IInv, PlainAccess
<1>6. t \in Members
  BY <1>2 DEF Members, Counting, IInv, PlainAccess
<1>7. rcount > 0
  BY <1>6, Alive
<1>8. value # Guard /\ value' # Guard
  BY <1>2, RefAssumption DEF IInv, TypeOK, Values
<1>9. \A u \in Threads : ~Locked(u) /\ ~Locked(u)'
  BY <1>1, <1>2, <1>8 DEF IInv, GuardHeld, Locked
<1>10. ASSUME NEW b \in Blocks
       PROVE  /\ (HoldsNew(t, b) <=> new[t] = b) /\ ~HoldsNew(t, b)'
              /\ ~HoldsResult(t, b) /\ (HoldsResult(t, b)' <=> value = b)
              /\ (InCell(b) <=> value = b) /\ (InCell(b)' <=> new[t] = b)
  BY <1>2, <1>7, <1>9 DEF HoldsNew, HoldsResult, InCell
<1>11. \A b \in Blocks :
           count'[b] = count[b] + Unit(HoldsNew(t, b)') - Unit(HoldsNew(t, b))
                                + Unit(HoldsResult(t, b)') - Unit(HoldsResult(t, b))
                                + Unit(InCell(b)') - Unit(InCell(b))
  BY <1>2, <1>10 DEF Counting, Unit
<1> QED BY <1>1, <1>5, <1>11, BalancedStep

LEMMA ReturnCounts ==
  ASSUME IInv, Counting, Balanced, NEW t \in Threads, Return(t)
  PROVE  Counting' /\ Balanced'
<1>1. \A u \in Threads \ {t} : pc'[u] = pc[u] /\ box'[u] = box[u] /\ new'[u] = new[u] /\ ops'[u] = ops[u]
  BY LocalStep DEF Return
<1>2. /\ pc[t] = "done" /\ pc'[t] = "idle" /\ count' = Drop(box[t])
      /\ UNCHANGED <<value, rcount, shared, box, new, ops, rawReads>>
  BY DEF Return, Goto, IInv, TypeOK
<1>3. t \notin Readers /\ t \notin Readers' /\ Members' = Members
  BY <1>2 DEF Readers, Members
<1>4. rcount' = Cardinality(Members') + Cardinality(Readers') + rawReads'
  BY <1>1, <1>2, <1>3, CountingStep, Alive DEF Unit, Counting
<1>5. Counting'
  BY <1>1, <1>2, <1>4 DEF Counting, Drop
<1>6. ~Locked(t) /\ ~Locked(t)'
  BY <1>2 DEF Locked
<1>7. ASSUME NEW b \in Blocks
      PROVE  /\ ~HoldsNew(t, b) /\ ~HoldsNew(t, b)'
             /\ (HoldsResult(t, b) <=> box[t] = b) /\ ~HoldsResult(t, b)'
             /\ InCell(b)' <=> InCell(b)
             /\ count'[b] = count[b] - (IF box[t] = b THEN 1 ELSE 0)
  <2>1. count'[b] = count[b] - (IF box[t] = b THEN 1 ELSE 0)
    BY <1>2 DEF Drop, Counting
  <2>2. InCell(b)' <=> InCell(b)
    BY <1>1, <1>2, <1>6 DEF InCell, Locked
  <2> QED BY <1>2, <2>1, <2>2 DEF HoldsNew, HoldsResult
<1>8. \A b \in Blocks :
           count'[b] = count[b] + Unit(HoldsNew(t, b)') - Unit(HoldsNew(t, b))
                                + Unit(HoldsResult(t, b)') - Unit(HoldsResult(t, b))
                                + Unit(InCell(b)') - Unit(InCell(b))
  BY <1>7 DEF Counting, Unit
<1> QED BY <1>1, <1>5, <1>8, BalancedStep

(* The last reference to r is dropped while nobody is behind the guard, so  *)
(* that the value dropped with it is the one in the cell.                   *)
LEMMA DropRefCounts ==
  ASSUME IInv, Counting, Balanced, NEW t \in Threads, GetDrop(t) \/ Finish(t)
  PROVE  Counting' /\ Balanced'
<1>1. \A u \in Threads \ {t} : pc'[u] = pc[u] /\ box'[u] = box[u] /\ new'[u] = new[u] /\ ops'[u] = ops[u]
  <2>1. \A u \in Threads \ {t} : pc'[u] = pc[u] /\ box'[u] = box[u] /\ new'[u] = new[u]
    BY LocalStep DEF Get
  <2>2. \A u \in Threads \ {t} : ops'[u] = ops[u]
    BY DEF GetDrop, Finish, Counting
  <2> QED BY <2>1, <2>2
<1>2. /\ DropRef /\ UNCHANGED <<value, shared, box, new, rawReads>>
      /\ ~Locked(t) /\ ~Locked(t)'
      /\ t \in Members \/ t \in Readers
  BY DEF GetDrop, Finish, Goto, Locked, IInv, TypeOK, Members, Readers, Counting
<1>3. Unit(t \in Members') - Unit(t \in Members) + Unit(t \in Readers') - Unit(t \in Readers) = -1
  <2>1. CASE GetDrop(t)
    <3>1. t \in Readers /\ t \notin Readers' /\ Members' = Members
      BY <2>1 DEF GetDrop, Goto, Readers, Members, IInv, TypeOK
    <3> QED BY <3>1 DEF Unit
  <2>2. CASE Finish(t)
    <3>1. t \in Members /\ t \notin Members'
      BY <2>2 DEF Finish, Members, Counting
    <3>2. t \notin Readers /\ t \notin Readers'
      BY <2>2 DEF Finish, Readers
    <3> QED BY <3>1, <3>2 DEF Unit
  <2> QED BY <2>1, <2>2
<1>4. rcount' = Cardinality(Members') + Cardinality(Readers') + rawReads'
  <2>1. /\ Unit(t \in Members') \in Int /\ Unit(t \in Members) \in Int
        /\ Unit(t \in Readers') \in Int /\ Unit(t \in Readers) \in Int
    BY DEF Unit
  <2>2. rcount' = rcount - 1 /\ rawReads' = rawReads /\ rawReads \in Nat /\ rcount \in Int
    BY <1>2, Alive DEF DropRef, Counting
  <2>3. rcount' = rcount + Unit(t \in Members') - Unit(t \in Members)
                         + Unit(t \in Readers') - Unit(t \in Readers) + rawReads' - rawReads
    BY <1>3, <2>1, <2>2
  <2> QED BY <1>1, <1>2, <2>2, <2>3, CountingStep
<1>5. Counting'
  <2>1. count' \in [Blocks -> Int]
    BY <1>2 DEF DropRef, Drop, Counting
  <2>2. /\ ops' \in [Threads -> Int]
        /\ \A u \in Threads : ops'[u] >= -1 /\ (ops'[u] = -1 => pc'[u] = "idle")
    BY <1>1 DEF GetDrop, Finish, Goto, Counting, IInv, TypeOK
  <2>3. ~shared' => ops'[Owner] >= 0 /\ \A u \in Threads \ {Owner} : pc'[u] = "idle" /\ ops'[u] >= 0
    BY <1>1, <1>2, RefAssumption DEF GetDrop, Finish, Goto, Counting, IInv, PlainAccess
  <2> QED BY <1>2, <1>4, <2>1, <2>2, <2>3 DEF Counting
<1>6. \A b \in Blocks : ~HoldsNew(t, b) /\ ~HoldsNew(t, b)' /\ (HoldsResult(t, b)' <=> HoldsResult(t, b))
  BY <1>2 DEF GetDrop, Finish, Goto, HoldsNew, HoldsResult, IInv, TypeOK
<1>7. rcount >= 1 /\ rcount \in Nat
  BY <1>2, Alive
<1>8. ASSUME NEW b \in Blocks
      PROVE  count'[b] = count[b] + Unit(InCell(b)') - Unit(InCell(b))
  <2>1. CASE rcount = 1
    <3>1. \A u \in Threads : ~Locked(u)
      <4> SUFFICES ASSUME NEW u \in Threads, Locked(u) PROVE FALSE
        OBVIOUS
      <4>1. u \in Readers /\ u # t
        BY <1>2 DEF Readers, Locked
      <4> QED BY <1>2, <2>1, <4>1, Alive
    <3>2. (InCell(b) <=> value = b) /\ ~InCell(b)'
      BY <1>2, <2>1, <3>1 DEF InCell, DropRef
    <3>3. count'[b] = count[b] - (IF value = b THEN 1 ELSE 0)
      BY <1>2, <2>1 DEF DropRef, Drop, Counting
    <3> QED BY <3>2, <3>3 DEF Unit, Counting
  <2>2. CASE rcount # 1
    <3>1. count' = count /\ rcount > 0 /\ rcount' > 0
      BY <1>2, <1>7, <2>2 DEF DropRef
    <3>2. InCell(b)' <=> InCell(b)
      BY <1>1, <1>2, <3>1 DEF InCell, Locked
    <3> QED BY <3>1, <3>2 DEF Unit, Counting
  <2> QED BY <2>1, <2>2
<1>9. \A b \in Blocks :
           count'[b] = count[b] + Unit(HoldsNew(t, b)') - Unit(HoldsNew(t, b))
                                + Unit(HoldsResult(t, b)') - Unit(HoldsResult(t, b))
                                + Unit(InCell(b)') - Unit(InCell(b))
  BY <1>6, <1>8 DEF Counting, Unit
<1> QED BY <1>1, <1>5, <1>9, BalancedStep

LEMMA StepCounts ==
  ASSUME IInv, Counting, Balanced, [Next]_vars
  PROVE  Counting' /\ Balanced'
<1>1. CASE UNCHANGED vars
  BY <1>1 DEF vars, Counting, Balanced, Members, Readers, Writing, Keeping,
              HoldsNew, HoldsResult, InCell, Locked
<1>2. CASE Share
  BY <1>2, ShareCounts
<1>3. ASSUME NEW t \in Threads, CallGet(t) \/ (\E v \in Values : CallSwap(t, v))
      PROVE  Counting' /\ Balanced'
  BY <1>3, CallCounts
<1>4. ASSUME NEW t \in Threads, Get(t) PROVE Counting' /\ Balanced'
  BY <1>4, UnsharedCounts, LookCounts, GuardCounts, DropRefCounts DEF Get
<1>5. ASSUME NEW t \in Threads, Swap(t) PROVE Counting' /\ Balanced'
  BY <1>5, UnsharedCounts, LookCounts, StoreCounts DEF Swap
<1>6. ASSUME NEW t \in Threads, Return(t) \/ Finish(t) PROVE Counting' /\ Balanced'
  BY <1>6, ReturnCounts, DropRefCounts
<1> QED BY <1>1, <1>2, <1>3, <1>4, <1>5, <1>6 DEF Next

LEMMA CountsFollow == Counting /\ Balanced => CountsExact
<1> SUFFICES ASSUME Counting, Balanced PROVE CountsExact
  OBVIOUS
<1>1. ASSUME \A t \in Threads : ops[t] = -1, rawReads = 0 PROVE rcount = 0
  <2>1. Members = {} /\ Readers = {}
    BY <1>1 DEF Members, Readers, Counting
  <2> QED BY <1>1, <2>1, FS_EmptySet DEF Counting
<1> QED BY <1>1 DEF CountsExact, Balanced, Writing, Keeping, Unit

(* The count of each block is the number of its references, and r is freed  *)
(* when all threads are finished, for any number of threads and blocks.     *)
THEOREM SafeCounts == Spec => []CountsExact
<1>1. Init => IInv /\ Counting /\ Balanced
  BY InitIInv, InitCounts
<1>2. IInv /\ Counting /\ Balanced /\ [Next]_vars => (IInv /\ Counting /\ Balanced)'
  BY StepIInv, StepCounts
<1> QED BY <1>1, <1>2, CountsFollow, PTL DEF Spec
===========================================================================
