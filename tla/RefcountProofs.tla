--------------------------- MODULE RefcountProofs ---------------------------
(***************************************************************************)
(* Proofs about Refcount for any finite set of threads, any counter width  *)
(* and any sticky ranges that satisfy SpanAssumption.  The inductive       *)
(* invariant is Refcount!IInv; the lemmas up to FinishCards say how the    *)
(* sets of threads it counts change when an operation starts or ends.      *)
(***************************************************************************)
EXTENDS Refcount, FiniteSetTheorems, TLAPS

USE DEF RC_STUCK, RC_STICKY, RC_STICKY_DROP, RC_SHARED_UNIQUE, RC_UNIQUE,
        IsThreadShared

(* The counted sets are finite and no larger than the set of threads.      *)
LEMMA CountedSets ==
  ASSUME NEW S \in SUBSET Threads
  PROVE  /\ IsFiniteSet(S)
         /\ Cardinality(S) \in Nat
         /\ Cardinality(S) <= Cardinality(Threads)
         /\ Cardinality(Threads) \in Nat
BY SpanAssumption, FS_Subset, FS_CardinalityType

(* Adding or removing one thread changes a cardinality by at most one.     *)
LEMMA AddRemove ==
  ASSUME NEW S \in SUBSET Threads, NEW t \in Threads
  PROVE  /\ t \notin S => Cardinality(S \cup {t}) = Cardinality(S) + 1
         /\ t \in S => Cardinality(S \ {t}) = Cardinality(S) - 1
BY CountedSets, FS_AddElement, FS_RemoveElement

LEMMA SubsetsOfThreads ==
  /\ Busy \in SUBSET Threads
  /\ AtomicDups \in SUBSET Threads
  /\ AtomicDrops \in SUBSET Threads
BY DEF Busy, AtomicDups, AtomicDrops

(* When an operation ends, its thread leaves every counted set.            *)
LEMMA FinishCards ==
  ASSUME TypeOK, NEW t \in Threads, pc[t] # "idle", Finish(t)
  PROVE  /\ Busy' = Busy \ {t}
         /\ Cardinality(Busy') = Cardinality(Busy) - 1
         /\ UncountedDup' = UncountedDup \ {t}
         /\ Cardinality(AtomicDups') =
              Cardinality(AtomicDups) - (IF t \in AtomicDups THEN 1 ELSE 0)
         /\ Cardinality(AtomicDrops') =
              Cardinality(AtomicDrops) - (IF t \in AtomicDrops THEN 1 ELSE 0)
<1>1. /\ Busy' = Busy \ {t}
      /\ t \in Busy
  BY DEF Busy, Finish, TypeOK
<1>2. /\ AtomicDups'   = AtomicDups \ {t}
      /\ AtomicDrops'  = AtomicDrops \ {t}
      /\ UncountedDup' = UncountedDup \ {t}
  BY DEF AtomicDups, AtomicDrops, UncountedDup, Finish, TypeOK, Drops, Ops
<1>3. Cardinality(Busy') = Cardinality(Busy) - 1
  BY <1>1, SubsetsOfThreads, AddRemove
<1>4. Cardinality(AtomicDups') =
        Cardinality(AtomicDups) - (IF t \in AtomicDups THEN 1 ELSE 0)
  <2>1. CASE t \in AtomicDups
    BY <1>2, <2>1, SubsetsOfThreads, AddRemove
  <2>2. CASE t \notin AtomicDups
    <3>1. AtomicDups' = AtomicDups
      BY <1>2, <2>2
    <3>2. QED
      BY <2>2, <3>1, SubsetsOfThreads, CountedSets
  <2>3. QED
    BY <2>1, <2>2
<1>5. Cardinality(AtomicDrops') =
        Cardinality(AtomicDrops) - (IF t \in AtomicDrops THEN 1 ELSE 0)
  <2>1. CASE t \in AtomicDrops
    BY <1>2, <2>1, SubsetsOfThreads, AddRemove
  <2>2. CASE t \notin AtomicDrops
    <3>1. AtomicDrops' = AtomicDrops
      BY <1>2, <2>2
    <3>2. QED
      BY <2>2, <3>1, SubsetsOfThreads, CountedSets
  <2>3. QED
    BY <2>1, <2>2
<1>6. QED
  BY <1>1, <1>2, <1>3, <1>4, <1>5

(* When an operation starts, its thread joins the set of its kind.         *)
LEMMA LoadCards ==
  ASSUME TypeOK, NEW t \in Threads, NEW op \in Ops, Load(t, op)
  PROVE  /\ Busy' = Busy \cup {t}
         /\ Cardinality(Busy') = Cardinality(Busy) + 1
         /\ UncountedDup' = IF op = "dup" /\ rc < 0 /\ rc <= RC_STICKY
                              THEN UncountedDup \cup {t} ELSE UncountedDup
         /\ Cardinality(AtomicDups') =
              Cardinality(AtomicDups)
                + (IF op = "dup" /\ rc < 0 /\ rc > RC_STICKY THEN 1 ELSE 0)
         /\ Cardinality(AtomicDrops') =
              Cardinality(AtomicDrops)
                + (IF op \in Drops /\ rc < 0 /\ rc > RC_STICKY_DROP THEN 1 ELSE 0)
<1>1. /\ Busy' = Busy \cup {t}
      /\ t \notin Busy
  BY DEF Busy, Load, TypeOK, Ops, Drops
<1>2. /\ t \notin AtomicDups /\ t \notin AtomicDrops
      /\ AtomicDups' = IF op = "dup" /\ rc < 0 /\ rc > RC_STICKY
                         THEN AtomicDups \cup {t} ELSE AtomicDups
      /\ AtomicDrops' = IF op \in Drops /\ rc < 0 /\ rc > RC_STICKY_DROP
                          THEN AtomicDrops \cup {t} ELSE AtomicDrops
      /\ UncountedDup' = IF op = "dup" /\ rc < 0 /\ rc <= RC_STICKY
                           THEN UncountedDup \cup {t} ELSE UncountedDup
  BY DEF AtomicDups, AtomicDrops, UncountedDup, Load, TypeOK, Drops, Ops
<1>3. Cardinality(Busy') = Cardinality(Busy) + 1
  BY <1>1, SubsetsOfThreads, AddRemove
<1>4. Cardinality(AtomicDups') =
        Cardinality(AtomicDups)
          + (IF op = "dup" /\ rc < 0 /\ rc > RC_STICKY THEN 1 ELSE 0)
  <2>1. CASE op = "dup" /\ rc < 0 /\ rc > RC_STICKY
    BY <1>2, <2>1, SubsetsOfThreads, AddRemove
  <2>2. CASE ~(op = "dup" /\ rc < 0 /\ rc > RC_STICKY)
    <3>1. AtomicDups' = AtomicDups
      BY <1>2, <2>2
    <3>2. QED
      BY <2>2, <3>1, SubsetsOfThreads, CountedSets
  <2>3. QED
    BY <2>1, <2>2
<1>5. Cardinality(AtomicDrops') =
        Cardinality(AtomicDrops)
          + (IF op \in Drops /\ rc < 0 /\ rc > RC_STICKY_DROP THEN 1 ELSE 0)
  <2>1. CASE op \in Drops /\ rc < 0 /\ rc > RC_STICKY_DROP
    BY <1>2, <2>1, SubsetsOfThreads, AddRemove
  <2>2. CASE ~(op \in Drops /\ rc < 0 /\ rc > RC_STICKY_DROP)
    <3>1. AtomicDrops' = AtomicDrops
      BY <1>2, <2>2
    <3>2. QED
      BY <2>2, <3>1, SubsetsOfThreads, CountedSets
  <2>3. QED
    BY <2>1, <2>2
<1>6. QED
  BY <1>1, <1>2, <1>3, <1>4, <1>5

-----------------------------------------------------------------------------
(* One lemma per action: it preserves the inductive invariant.             *)

LEMMA InitIInv == Init => IInv
<1> SUFFICES ASSUME Init PROVE IInv
  OBVIOUS
<1>1. Busy = {} /\ AtomicDups = {} /\ AtomicDrops = {} /\ UncountedDup = {}
  BY DEF Init, Busy, AtomicDups, AtomicDrops, UncountedDup, Drops
<1>2. /\ Cardinality(Busy) = 0
      /\ Cardinality(AtomicDups) = 0
      /\ Cardinality(AtomicDrops) = 0
  BY <1>1, FS_EmptySet
<1>3. TypeOK
  <2>1. rc \in RC_STUCK..RC_MAX /\ 0 \in RC_STUCK..RC_MAX
    BY SpanAssumption DEF Init
  <2>2. saturated \in BOOLEAN
    BY DEF Init
  <2>3. rc0 \in [Threads -> RC_STUCK..RC_MAX]
    BY <2>1 DEF Init
  <2>4. QED
    BY <2>1, <2>2, <2>3 DEF Init, TypeOK
<1>4. QED
  BY <1>1, <1>2, <1>3, SpanAssumption
  DEF Init, IInv, LocalCounts, SharedCounts, History, UnsharedExact,
      SharedExact, LateDropsAbsorbed, LateDupsAbsorbed, SaturatedNeverFreed,
      UnsharedFreedByLast, SharedFreedWithAtMostOneLeft, ReuseIsExclusive,
      Total

LEMMA LoadIInv ==
  ASSUME IInv, NEW t \in Threads, NEW op \in Ops,
         IsThreadShared(rc) \/ t = owner, Load(t, op)
  PROVE  IInv'
<1>1. TypeOK /\ block = "live"
  BY DEF IInv, Load
<1>2. TypeOK'
  BY <1>1 DEF TypeOK, Load
<1>3. /\ Busy' = Busy \cup {t}
      /\ Total' = Total
      /\ UNCHANGED <<rc, block, owner, shared, saturated, lostDrops>>
  <2>1. /\ Busy' = Busy \cup {t}
        /\ Cardinality(Busy') = Cardinality(Busy) + 1
        /\ Cardinality(Busy) \in Nat
    BY <1>1, LoadCards, SubsetsOfThreads, CountedSets
  <2>2. /\ refs \in Nat /\ refs' = refs - 1
        /\ UNCHANGED <<rc, block, owner, shared, saturated, lostDrops>>
    BY <1>1 DEF Load, TypeOK
  <2>3. QED
    BY <2>1, <2>2 DEF Total
<1>4. LocalCounts' /\ SharedCounts' /\ History'
  BY <1>1, <1>3 DEF IInv, LocalCounts, SharedCounts, History, Load, TypeOK, Busy
<1>5. LateDropsAbsorbed'
  BY <1>1, <1>3, LoadCards, SubsetsOfThreads, CountedSets, SpanAssumption
  DEF IInv, LateDropsAbsorbed, TypeOK, Drops
<1>6. LateDupsAbsorbed'
  <2>1. /\ AtomicDups' \in SUBSET Threads
        /\ Cardinality(AtomicDups') \in Nat
        /\ Cardinality(AtomicDups) \in Nat
        /\ Cardinality(Threads) \in Nat
        /\ Cardinality(AtomicDups') <= Cardinality(Threads)
    BY CountedSets, SubsetsOfThreads DEF AtomicDups
  <2>2. Cardinality(AtomicDups') =
          Cardinality(AtomicDups)
            + (IF op = "dup" /\ rc < 0 /\ rc > RC_STICKY THEN 1 ELSE 0)
    BY <1>1, LoadCards
  <2>3. QED
    BY <1>1, <1>3, <2>1, <2>2, SpanAssumption
    DEF IInv, LateDupsAbsorbed, SharedCounts, TypeOK
<1>7. QED
  BY <1>1, <1>2, <1>3, <1>4, <1>5, <1>6
  DEF IInv, UnsharedExact, SharedExact, SaturatedNeverFreed,
      UnsharedFreedByLast, SharedFreedWithAtMostOneLeft, ReuseIsExclusive

(* What every finishing operation does to the counted sets of a live block.*)
LEMMA FinishFacts ==
  ASSUME IInv, NEW t \in Threads, pc[t] # "idle", Finish(t)
  PROVE  /\ t \in Busy
         /\ Busy' = Busy \ {t}
         /\ Cardinality(Busy) \in Nat /\ Cardinality(Busy) >= 1
         /\ Cardinality(Busy') = Cardinality(Busy) - 1
         /\ UncountedDup' = UncountedDup \ {t}
         /\ Cardinality(AtomicDups) \in Nat
         /\ Cardinality(AtomicDups') =
              Cardinality(AtomicDups) - (IF t \in AtomicDups THEN 1 ELSE 0)
         /\ Cardinality(AtomicDrops) \in Nat
         /\ t \in AtomicDrops => Cardinality(AtomicDrops) >= 1
         /\ Cardinality(AtomicDrops') =
              Cardinality(AtomicDrops) - (IF t \in AtomicDrops THEN 1 ELSE 0)
         /\ pc' \in [Threads -> {"idle"} \cup Ops]
         /\ rc0' \in [Threads -> RC_STUCK..RC_MAX]
         /\ \A u \in Busy' : u # t /\ rc0'[u] = rc0[u]
<1>1. TypeOK
  BY DEF IInv
<1>2. /\ Busy' = Busy \ {t}
      /\ Cardinality(Busy') = Cardinality(Busy) - 1
      /\ UncountedDup' = UncountedDup \ {t}
      /\ Cardinality(AtomicDups') =
           Cardinality(AtomicDups) - (IF t \in AtomicDups THEN 1 ELSE 0)
      /\ Cardinality(AtomicDrops') =
           Cardinality(AtomicDrops) - (IF t \in AtomicDrops THEN 1 ELSE 0)
  BY <1>1, FinishCards
<1>3. /\ Cardinality(Busy) \in Nat
      /\ Cardinality(AtomicDups) \in Nat
      /\ Cardinality(AtomicDrops) \in Nat
      /\ Busy' \in SUBSET Threads /\ AtomicDrops' \in SUBSET Threads
      /\ Cardinality(Busy') \in Nat
      /\ Cardinality(AtomicDrops') \in Nat
  BY SubsetsOfThreads, CountedSets DEF Busy, AtomicDrops
<1>4. t \in Busy
  BY DEF Busy
<1>5. /\ pc' \in [Threads -> {"idle"} \cup Ops]
      /\ rc0' \in [Threads -> RC_STUCK..RC_MAX]
  BY <1>1, SpanAssumption DEF TypeOK, Finish
<1>6. \A u \in Busy' : u # t /\ rc0'[u] = rc0[u]
  BY <1>1, <1>2 DEF TypeOK, Finish, Busy
<1>7. QED
  BY <1>2, <1>3, <1>4, <1>5, <1>6

LEMMA DupUnsharedIInv ==
  ASSUME IInv, NEW t \in Threads, DupUnshared(t)
  PROVE  IInv'
<1>1. /\ TypeOK /\ block = "live" /\ pc[t] # "idle" /\ Finish(t)
      /\ ~shared /\ rc0[t] = rc /\ rc >= 0 /\ ~saturated /\ lostDrops = 0
      /\ t = owner /\ Total = rc + 1
  BY FinishFacts
  DEF IInv, DupUnshared, LocalCounts, SharedCounts, History, UnsharedExact,
      Busy, TypeOK, Finish
<1>2. Busy = {t}
  BY <1>1 DEF IInv, LocalCounts, Busy
<1>3. /\ Busy' = {} /\ Total' = Total + 1
  <2>1. /\ Busy' = Busy \ {t}
        /\ Cardinality(Busy) \in Nat
        /\ Cardinality(Busy') = Cardinality(Busy) - 1
    BY <1>1, FinishFacts
  <2>2. refs \in Nat /\ refs' = refs + 2
    BY <1>1 DEF DupUnshared, TypeOK
  <2>3. QED
    BY <1>2, <2>1, <2>2 DEF Total
<1>4. /\ AtomicDrops' = {}
      /\ UNCHANGED <<block, owner, shared, lostDrops>>
      /\ rc' = RefcountInc(rc) /\ saturated' = (rc = RC_MAX)
  BY <1>1, <1>3 DEF DupUnshared, AtomicDrops, Busy, Drops
<1>5. Cardinality(AtomicDrops') = 0
  BY <1>4, FS_EmptySet
<1>6. TypeOK'
  BY <1>1, <1>4, FinishFacts, SpanAssumption
  DEF TypeOK, DupUnshared, RefcountInc
<1>7. LocalCounts' /\ SharedCounts' /\ LateDupsAbsorbed'
  BY <1>1, <1>3, <1>4 DEF LocalCounts, SharedCounts, LateDupsAbsorbed
<1>8. History' /\ UnsharedExact' /\ SharedExact' /\ LateDropsAbsorbed'
  <2>1. CASE rc = RC_MAX
    <3>1. rc' = RC_STUCK /\ rc' < 0
      BY <1>4, <2>1, SpanAssumption DEF RefcountInc
    <3>2. saturated'
      BY <1>4, <2>1
    <3>3. rc' <= RC_STICKY_DROP
      BY <3>1, SpanAssumption, SubsetsOfThreads, CountedSets
    <3>4. LateDropsAbsorbed'
      <4>1. rc' \in Int
        BY <1>6 DEF TypeOK
      <4>2. rc' + 0 <= RC_STICKY_DROP
        BY <3>3, <4>1
      <4>3. rc' + Cardinality(AtomicDrops') <= RC_STICKY_DROP
        BY <1>5, <4>2
      <4>4. QED
        BY <4>3 DEF LateDropsAbsorbed
    <3>5. History'
      BY <1>1, <1>4, <2>1, <3>1, <3>2, SpanAssumption DEF History, RefcountInc
    <3>6. UnsharedExact' /\ SharedExact'
      BY <3>1, <3>2 DEF UnsharedExact, SharedExact
    <3>7. QED
      BY <3>4, <3>5, <3>6
  <2>2. CASE rc # RC_MAX
    <3>1. rc' = rc + 1 /\ rc' >= 0 /\ ~saturated'
      BY <1>1, <1>4, <2>2, SpanAssumption DEF RefcountInc, TypeOK
    <3>2. UncountedDup' = {}
      BY <1>3 DEF UncountedDup, Busy
    <3>3. QED
      BY <1>1, <1>3, <1>4, <3>1, <3>2
      DEF History, UnsharedExact, SharedExact, LateDropsAbsorbed, TypeOK
  <2>3. QED
    BY <2>1, <2>2
<1>9. QED
  BY <1>1, <1>4, <1>6, <1>7, <1>8
  DEF IInv, SaturatedNeverFreed, UnsharedFreedByLast,
      SharedFreedWithAtMostOneLeft, ReuseIsExclusive

LEMMA DupSharedIInv ==
  ASSUME IInv, NEW t \in Threads, DupShared(t)
  PROVE  IInv'
<1>1. /\ TypeOK /\ block = "live" /\ pc[t] # "idle" /\ Finish(t)
      /\ shared /\ rc < 0 /\ t \in AtomicDups /\ t \notin AtomicDrops
  BY SpanAssumption
  DEF IInv, DupShared, LocalCounts, SharedCounts, History, AtomicDups,
      AtomicDrops, Busy, Drops, TypeOK
<1>2. /\ Total' = Total + 1
      /\ rc' = rc - 1
      /\ UNCHANGED <<block, owner, shared, saturated, lostDrops>>
  BY <1>1, FinishFacts DEF Total, DupShared, TypeOK
<1>3. /\ Cardinality(AtomicDups) \in Nat
      /\ Cardinality(AtomicDrops) \in Nat
      /\ Cardinality(AtomicDups') = Cardinality(AtomicDups) - 1
      /\ Cardinality(AtomicDups') \in Nat
      /\ Cardinality(AtomicDrops') = Cardinality(AtomicDrops)
      /\ UncountedDup' \subseteq UncountedDup
      /\ \A u \in Busy' : u \in Busy /\ rc0'[u] = rc0[u]
  <2>1. AtomicDups' \in SUBSET Threads
    BY DEF AtomicDups
  <2>2. QED
    BY <1>1, <2>1, FinishFacts, CountedSets
<1>4. LateDupsAbsorbed'
  BY <1>1, <1>2, <1>3, SubsetsOfThreads, CountedSets
  DEF IInv, LateDupsAbsorbed, TypeOK
<1>5. TypeOK'
  <2>1. /\ rc' > RC_STICKY - Cardinality(Threads) + Cardinality(AtomicDups')
        /\ Cardinality(Threads) \in Nat
    BY <1>1, <1>2, <1>3, <1>4, SubsetsOfThreads, CountedSets, SpanAssumption
    DEF LateDupsAbsorbed, TypeOK
  <2>2. rc' \in RC_STUCK..RC_MAX
    BY <1>1, <1>2, <1>3, <2>1, SpanAssumption DEF TypeOK
  <2>3. QED
    BY <1>1, <1>2, <2>2, FinishFacts DEF TypeOK, DupShared
<1>6. LocalCounts' /\ SharedCounts' /\ History'
  BY <1>1, <1>2, <1>3 DEF IInv, LocalCounts, SharedCounts, History, TypeOK
<1>7. LateDropsAbsorbed'
  BY <1>1, <1>2, <1>3, SpanAssumption DEF IInv, LateDropsAbsorbed, TypeOK
<1>8. UnsharedExact' /\ SharedExact'
  BY <1>1, <1>2 DEF IInv, UnsharedExact, SharedExact, TypeOK
<1>9. QED
  BY <1>1, <1>2, <1>4, <1>5, <1>6, <1>7, <1>8
  DEF IInv, SaturatedNeverFreed, UnsharedFreedByLast,
      SharedFreedWithAtMostOneLeft, ReuseIsExclusive

LEMMA DupStickyIInv ==
  ASSUME IInv, NEW t \in Threads, DupSticky(t)
  PROVE  IInv'
<1>1. /\ TypeOK /\ block = "live" /\ pc[t] # "idle" /\ Finish(t)
      /\ t \notin AtomicDups /\ t \notin AtomicDrops /\ t \in UncountedDup
  BY SpanAssumption
  DEF IInv, DupSticky, AtomicDups, AtomicDrops, UncountedDup, Drops, TypeOK
<1>2. /\ Total' = Total + 1
      /\ saturated'
      /\ UNCHANGED <<rc, block, owner, shared, lostDrops>>
  BY <1>1, FinishFacts DEF Total, DupSticky, TypeOK
<1>3. rc < 0
  BY <1>1 DEF IInv, LocalCounts, SharedCounts, DupSticky, Busy, TypeOK
<1>4. /\ Cardinality(AtomicDups') = Cardinality(AtomicDups)
      /\ Cardinality(AtomicDrops') = Cardinality(AtomicDrops)
      /\ \A u \in Busy' : u \in Busy /\ rc0'[u] = rc0[u]
  BY <1>1, FinishFacts
<1>5. TypeOK'
  BY <1>1, <1>2, FinishFacts DEF TypeOK, DupSticky
<1>6. LateDropsAbsorbed' /\ LateDupsAbsorbed'
  BY <1>1, <1>2, <1>4 DEF IInv, LateDropsAbsorbed, LateDupsAbsorbed
<1>7. LocalCounts' /\ SharedCounts' /\ History'
  BY <1>1, <1>2, <1>3, <1>4
  DEF IInv, LocalCounts, SharedCounts, History, TypeOK
<1>8. UnsharedExact' /\ SharedExact'
  BY <1>2, <1>3, <1>1 DEF UnsharedExact, SharedExact, TypeOK
<1>9. QED
  BY <1>1, <1>2, <1>5, <1>6, <1>7, <1>8
  DEF IInv, SaturatedNeverFreed, UnsharedFreedByLast,
      SharedFreedWithAtMostOneLeft, ReuseIsExclusive

LEMMA DropUnsharedIInv ==
  ASSUME IInv, NEW t \in Threads, DropUnshared(t)
  PROVE  IInv'
<1>1. /\ TypeOK /\ block = "live" /\ pc[t] # "idle" /\ Finish(t)
      /\ ~shared /\ rc0[t] = rc /\ rc > 0 /\ rc >= 0 /\ ~saturated /\ lostDrops = 0
      /\ t = owner /\ Total = rc + 1
  BY DEF IInv, DropUnshared, LocalCounts, SharedCounts, History, UnsharedExact,
         Busy, TypeOK, Drops
<1>2. Busy = {t}
  BY <1>1 DEF IInv, LocalCounts, Busy
<1>3. /\ Busy' = {} /\ Total' = Total - 1
  <2>1. /\ Busy' = Busy \ {t}
        /\ Cardinality(Busy) \in Nat
        /\ Cardinality(Busy') = Cardinality(Busy) - 1
    BY <1>1, FinishFacts
  <2>2. refs \in Nat /\ refs' = refs
    BY <1>1 DEF DropUnshared, TypeOK
  <2>3. QED
    BY <1>2, <2>1, <2>2 DEF Total
<1>4. /\ UncountedDup' = {}
      /\ UNCHANGED <<block, owner, shared, saturated, lostDrops>>
      /\ rc' = rc - 1 /\ rc' >= 0
  BY <1>1, <1>3 DEF DropUnshared, UncountedDup, Busy, TypeOK
<1>5. TypeOK'
  BY <1>1, <1>4, FinishFacts, SpanAssumption DEF TypeOK, DropUnshared
<1>6. LocalCounts' /\ SharedCounts' /\ LateDupsAbsorbed'
  BY <1>1, <1>3, <1>4 DEF LocalCounts, SharedCounts, LateDupsAbsorbed
<1>7. History' /\ UnsharedExact' /\ SharedExact' /\ LateDropsAbsorbed'
  BY <1>1, <1>3, <1>4
  DEF History, UnsharedExact, SharedExact, LateDropsAbsorbed, TypeOK
<1>8. QED
  BY <1>1, <1>4, <1>5, <1>6, <1>7
  DEF IInv, SaturatedNeverFreed, UnsharedFreedByLast,
      SharedFreedWithAtMostOneLeft, ReuseIsExclusive

LEMMA DropUniqueIInv ==
  ASSUME IInv, NEW t \in Threads, DropUnique(t)
  PROVE  IInv'
<1>1. /\ TypeOK /\ block = "live" /\ pc[t] # "idle" /\ Finish(t)
      /\ ~shared /\ rc = 0 /\ ~saturated /\ Total = 1
  BY DEF IInv, DropUnique, LocalCounts, SharedCounts, History, UnsharedExact,
         Busy, TypeOK, Drops
<1>2. Total' = 0
  <2>1. /\ Cardinality(Busy) \in Nat
        /\ Cardinality(Busy') = Cardinality(Busy) - 1
    BY <1>1, FinishFacts
  <2>2. refs \in Nat /\ refs' = refs
    BY <1>1 DEF DropUnique, TypeOK
  <2>3. QED
    BY <1>1, <2>1, <2>2 DEF Total
<1>3. /\ block' \in Gone /\ block' # "live"
      /\ rc' = 0 /\ UNCHANGED <<owner, shared, saturated, lostDrops>>
  BY <1>1 DEF DropUnique, Release, Gone
<1>4. TypeOK'
  BY <1>1, <1>3, FinishFacts DEF TypeOK, DropUnique
<1>5. QED
  BY <1>1, <1>2, <1>3, <1>4
  DEF IInv, LocalCounts, SharedCounts, History, UnsharedExact, SharedExact,
      LateDropsAbsorbed, LateDupsAbsorbed, SaturatedNeverFreed,
      UnsharedFreedByLast, SharedFreedWithAtMostOneLeft, ReuseIsExclusive

LEMMA DropStickyIInv ==
  ASSUME IInv, NEW t \in Threads, DropSticky(t)
  PROVE  IInv'
<1>1. /\ TypeOK /\ block = "live" /\ pc[t] # "idle" /\ Finish(t)
      /\ t \notin AtomicDups /\ t \notin AtomicDrops
  BY SpanAssumption
  DEF IInv, DropSticky, AtomicDups, AtomicDrops, Drops, TypeOK
<1>2. rc < 0
  BY <1>1 DEF IInv, LocalCounts, SharedCounts, DropSticky, Busy, TypeOK
<1>3. /\ Total' = Total - 1
      /\ UNCHANGED <<rc, block, owner, shared, saturated>>
      /\ lostDrops \in Nat /\ lostDrops' \in Nat
      /\ ~saturated => lostDrops' = lostDrops + 1
  <2>1. /\ Cardinality(Busy) \in Nat
        /\ Cardinality(Busy') = Cardinality(Busy) - 1
    BY <1>1, FinishFacts
  <2>2. refs \in Nat /\ refs' = refs
    BY <1>1 DEF DropSticky, TypeOK
  <2>3. Total' = Total - 1
    BY <2>1, <2>2 DEF Total
  <2>4. QED
    BY <1>1, <2>3 DEF DropSticky, TypeOK
<1>4. /\ Cardinality(AtomicDups') = Cardinality(AtomicDups)
      /\ Cardinality(AtomicDrops') = Cardinality(AtomicDrops)
      /\ UncountedDup' \subseteq UncountedDup
      /\ \A u \in Busy' : u \in Busy /\ rc0'[u] = rc0[u]
      /\ refs \in Nat /\ Cardinality(Busy) \in Nat
  BY <1>1, FinishFacts DEF TypeOK
<1>5. TypeOK'
  BY <1>1, <1>3, FinishFacts DEF TypeOK, DropSticky
<1>6. LateDropsAbsorbed' /\ LateDupsAbsorbed'
  BY <1>1, <1>3, <1>4 DEF IInv, LateDropsAbsorbed, LateDupsAbsorbed
<1>7. LocalCounts' /\ SharedCounts' /\ History'
  BY <1>1, <1>2, <1>3, <1>4
  DEF IInv, LocalCounts, SharedCounts, History, TypeOK
<1>8. UnsharedExact' /\ SharedExact'
  BY <1>1, <1>2, <1>3, <1>4
  DEF IInv, UnsharedExact, SharedExact, TypeOK, Total
<1>9. QED
  BY <1>1, <1>3, <1>5, <1>6, <1>7, <1>8
  DEF IInv, SaturatedNeverFreed, UnsharedFreedByLast,
      SharedFreedWithAtMostOneLeft, ReuseIsExclusive

LEMMA DropSharedIInv ==
  ASSUME IInv, NEW t \in Threads, DropShared(t)
  PROVE  IInv'
<1>1. /\ TypeOK /\ block = "live" /\ pc[t] # "idle" /\ Finish(t)
      /\ shared /\ rc < 0 /\ t \in AtomicDrops /\ t \notin AtomicDups
  BY SpanAssumption
  DEF IInv, DropShared, LocalCounts, SharedCounts, History, AtomicDups,
      AtomicDrops, Busy, Drops, TypeOK
<1>2. /\ Total' = Total - 1
      /\ rc' = rc + 1
      /\ UNCHANGED <<refs, owner, shared, saturated, lostDrops>>
  <2>1. /\ Cardinality(Busy) \in Nat
        /\ Cardinality(Busy') = Cardinality(Busy) - 1
    BY <1>1, FinishFacts
  <2>2. /\ refs \in Nat /\ rc' = rc + 1
        /\ UNCHANGED <<refs, owner, shared, saturated, lostDrops>>
    BY <1>1 DEF DropShared, TypeOK
  <2>3. QED
    BY <2>1, <2>2 DEF Total
<1>3. /\ Cardinality(AtomicDups') = Cardinality(AtomicDups)
      /\ Cardinality(AtomicDups) \in Nat
      /\ Cardinality(AtomicDrops) \in Nat /\ Cardinality(AtomicDrops) >= 1
      /\ Cardinality(AtomicDrops') = Cardinality(AtomicDrops) - 1
      /\ UncountedDup' \subseteq UncountedDup
      /\ \A u \in Busy' : u \in Busy /\ rc0'[u] = rc0[u]
  BY <1>1, FinishFacts
<1>4. CASE rc = RC_SHARED_UNIQUE
  <2>1. /\ block' \in Gone /\ block' # "live" /\ block' # "reused"
        /\ rc' = 0
    BY <1>1, <1>2, <1>4 DEF DropShared, Release, Gone
  <2>2. ~saturated
    BY <1>1, <1>3, <1>4, SpanAssumption, SubsetsOfThreads, CountedSets
    DEF IInv, LateDropsAbsorbed
  <2>3. Total' <= 1
    BY <1>1, <1>2, <1>4, <2>2 DEF IInv, SharedExact, TypeOK
  <2>4. TypeOK'
    BY <1>1, <1>2, <2>1, FinishFacts, SpanAssumption DEF TypeOK
  <2>5. QED
    BY <1>1, <1>2, <2>1, <2>2, <2>3, <2>4
    DEF IInv, LocalCounts, SharedCounts, History, UnsharedExact, SharedExact,
        LateDropsAbsorbed, LateDupsAbsorbed, SaturatedNeverFreed,
        UnsharedFreedByLast, SharedFreedWithAtMostOneLeft, ReuseIsExclusive
<1>5. CASE rc # RC_SHARED_UNIQUE
  <2>1. block' = block /\ rc' < 0 /\ rc' \in RC_STUCK..RC_MAX
    BY <1>1, <1>2, <1>5, SpanAssumption DEF DropShared, TypeOK
  <2>2. TypeOK'
    BY <1>1, <1>2, <2>1, FinishFacts DEF TypeOK
  <2>3. LateDropsAbsorbed' /\ LateDupsAbsorbed'
    BY <1>1, <1>2, <1>3, <2>1, SpanAssumption, SubsetsOfThreads, CountedSets
    DEF IInv, LateDropsAbsorbed, LateDupsAbsorbed, TypeOK
  <2>4. LocalCounts' /\ SharedCounts' /\ History'
    BY <1>1, <1>2, <1>3, <2>1
    DEF IInv, LocalCounts, SharedCounts, History, TypeOK
  <2>5. UnsharedExact' /\ SharedExact'
    BY <1>1, <1>2, <2>1 DEF IInv, UnsharedExact, SharedExact, TypeOK
  <2>6. QED
    BY <1>1, <1>2, <2>1, <2>2, <2>3, <2>4, <2>5
    DEF IInv, SaturatedNeverFreed, UnsharedFreedByLast,
        SharedFreedWithAtMostOneLeft, ReuseIsExclusive
<1>6. QED
  BY <1>4, <1>5

LEMMA MakeSharedIInv ==
  ASSUME IInv, NEW t \in Threads, MakeShared(t)
  PROVE  IInv'
<1>1. /\ TypeOK /\ block = "live" /\ pc[t] = "idle" /\ t = owner
      /\ ~shared /\ rc >= 0 /\ ~saturated /\ lostDrops = 0 /\ Total = rc + 1
  BY DEF IInv, MakeShared, SharedCounts, History, UnsharedExact, TypeOK
<1>2. Busy = {}
  BY <1>1 DEF IInv, LocalCounts, Busy
<1>3. /\ AtomicDups = {} /\ AtomicDrops = {} /\ UncountedDup = {}
      /\ UNCHANGED <<Busy, AtomicDups, AtomicDrops, UncountedDup, Total>>
      /\ UNCHANGED <<block, refs, pc, rc0, owner, lostDrops>>
  BY <1>2 DEF MakeShared, Busy, AtomicDups, AtomicDrops, UncountedDup, Drops,
              Total
<1>4. Cardinality(AtomicDups) = 0 /\ Cardinality(AtomicDrops) = 0
  BY <1>3, FS_EmptySet
<1>5. CASE rc = 0
  <2>1. /\ rc' = 0
        /\ shared' = FALSE
        /\ saturated' = FALSE
    <3>1. rc' = 0
      <4>1. ~(0 <= RC_STICKY_DROP)
        BY SpanAssumption
      <4>2. -rc = 0
        <5>1. rc \in Int /\ rc >= 0 /\ rc <= 0
          BY <1>5
        <5>2. QED
          BY ONLY <5>1
      <4>3. rc' = IF -rc <= RC_STICKY_DROP THEN RC_STICKY ELSE -rc
        BY DEF MakeShared, SharedCount
      <4>4. QED
        BY ONLY <4>1, <4>2, <4>3
    <3>2. (rc > 0) = FALSE
      BY <1>5
    <3>3. shared' = (rc > 0)
      BY DEF MakeShared
    <3>4. saturated' = FALSE
      BY <1>1, <3>2 DEF MakeShared
    <3>5. QED
      BY <3>1, <3>2, <3>3, <3>4
  <2>2. TypeOK'
    BY <1>1, <1>3, <1>5, <2>1 DEF TypeOK
  <2>3. QED
    BY <1>1, <1>2, <1>3, <1>5, <2>1, <2>2
    DEF IInv, LocalCounts, SharedCounts, History, UnsharedExact, SharedExact,
        LateDropsAbsorbed, LateDupsAbsorbed, SaturatedNeverFreed,
        UnsharedFreedByLast, SharedFreedWithAtMostOneLeft, ReuseIsExclusive
<1>6. CASE rc > 0 /\ -rc <= RC_STICKY_DROP
  <2>1. shared' = TRUE /\ saturated' = TRUE
    BY <1>1, <1>6 DEF MakeShared
  <2>2. rc' = RC_STICKY /\ rc' < 0 /\ rc' \in RC_STUCK..RC_MAX
    BY <1>6, SpanAssumption, SubsetsOfThreads, CountedSets
    DEF MakeShared, SharedCount
  <2>3. TypeOK'
    BY <1>1, <1>3, <2>1, <2>2 DEF TypeOK
  <2>4. LateDropsAbsorbed' /\ LateDupsAbsorbed'
    <3>1. /\ rc' <= RC_STICKY_DROP
          /\ rc' > RC_STICKY - Cardinality(Threads)
      <4>1. Cardinality(Threads) # 0
        BY <1>1, SpanAssumption, FS_EmptySet DEF TypeOK
      <4>2. QED
        BY <2>2, <4>1, SpanAssumption, SubsetsOfThreads, CountedSets
    <3>2. rc' \in Int
      BY <2>2, SpanAssumption
    <3>3. QED
      BY <1>3, <1>4, <3>1, <3>2 DEF LateDropsAbsorbed, LateDupsAbsorbed
  <2>5. QED
    BY <1>1, <1>2, <1>3, <2>1, <2>2, <2>3, <2>4
    DEF IInv, LocalCounts, SharedCounts, History, UnsharedExact, SharedExact,
        SaturatedNeverFreed, UnsharedFreedByLast,
        SharedFreedWithAtMostOneLeft, ReuseIsExclusive
<1>7. CASE rc > 0 /\ ~(-rc <= RC_STICKY_DROP)
  <2>1. shared' = TRUE /\ saturated' = FALSE
    BY <1>1, <1>7 DEF MakeShared
  <2>2. rc' = -rc /\ rc' < 0 /\ rc' \in RC_STUCK..RC_MAX
    BY <1>1, <1>7, SpanAssumption DEF MakeShared, SharedCount, TypeOK
  <2>3. TypeOK'
    BY <1>1, <1>3, <2>1, <2>2 DEF TypeOK
  <2>4. LateDropsAbsorbed' /\ LateDupsAbsorbed'
    <3>1. rc' > RC_STICKY - Cardinality(Threads) /\ rc' \in Int
      BY <1>1, <1>7, <2>2, SpanAssumption, SubsetsOfThreads, CountedSets
      DEF TypeOK
    <3>2. QED
      BY <1>3, <1>4, <2>1, <3>1 DEF LateDropsAbsorbed, LateDupsAbsorbed
  <2>5. Total' = 1 - rc' - lostDrops'
    BY <1>1, <1>3, <2>2 DEF TypeOK
  <2>6. QED
    BY <1>1, <1>2, <1>3, <2>1, <2>2, <2>3, <2>4, <2>5
    DEF IInv, LocalCounts, SharedCounts, History, UnsharedExact, SharedExact,
        SaturatedNeverFreed, UnsharedFreedByLast,
        SharedFreedWithAtMostOneLeft, ReuseIsExclusive
<1>8. QED
  BY <1>1, <1>5, <1>6, <1>7 DEF TypeOK

LEMMA MoveUniqueIInv ==
  ASSUME IInv, NEW t \in Threads, NEW u \in Threads, MoveUnique(t, u)
  PROVE  IInv'
<1>1. /\ TypeOK /\ block = "live" /\ pc[t] = "idle" /\ t = owner
      /\ ~shared /\ rc = 0 /\ owner' = u
      /\ UNCHANGED <<rc, block, refs, pc, rc0, shared, saturated, lostDrops>>
  BY DEF IInv, MoveUnique, SharedCounts, TypeOK
<1>2. Busy = {}
  BY <1>1 DEF IInv, LocalCounts, Busy
<1>3. UNCHANGED <<Busy, AtomicDups, AtomicDrops, UncountedDup, Total>>
  BY <1>1 DEF Busy, AtomicDups, AtomicDrops, UncountedDup, Total
<1>4. TypeOK'
  BY <1>1 DEF TypeOK
<1>5. QED
  BY <1>1, <1>2, <1>3, <1>4
  DEF IInv, LocalCounts, SharedCounts, History, UnsharedExact, SharedExact,
      LateDropsAbsorbed, LateDupsAbsorbed, SaturatedNeverFreed,
      UnsharedFreedByLast, SharedFreedWithAtMostOneLeft, ReuseIsExclusive

-----------------------------------------------------------------------------
LEMMA NextIInv == IInv /\ [Next]_vars => IInv'
<1> SUFFICES ASSUME IInv, [Next]_vars PROVE IInv'
  OBVIOUS
<1>1. ASSUME NEW t \in Threads, NEW op \in Ops,
             IsThreadShared(rc) \/ t = owner, Load(t, op)
      PROVE  IInv'
  BY <1>1, LoadIInv
<1>2. ASSUME NEW t \in Threads, Step(t)
      PROVE  IInv'
  BY <1>2, DupUnsharedIInv, DupSharedIInv, DupStickyIInv, DropUnsharedIInv,
     DropUniqueIInv, DropStickyIInv, DropSharedIInv DEF Step
<1>3. ASSUME NEW t \in Threads, MakeShared(t)
      PROVE  IInv'
  BY <1>3, MakeSharedIInv
<1>4. ASSUME NEW t \in Threads, NEW u \in Threads, MoveUnique(t, u)
      PROVE  IInv'
  BY <1>4, MoveUniqueIInv
<1>5. CASE UNCHANGED vars
  <2>1. UNCHANGED <<Busy, AtomicDups, AtomicDrops, UncountedDup, Total>>
    BY <1>5 DEF vars, Busy, AtomicDups, AtomicDrops, UncountedDup, Total
  <2>2. QED
    BY <1>5, <2>1
    DEF vars, IInv, TypeOK, LocalCounts, SharedCounts, History, UnsharedExact,
        SharedExact, LateDropsAbsorbed, LateDupsAbsorbed, SaturatedNeverFreed,
        UnsharedFreedByLast, SharedFreedWithAtMostOneLeft, ReuseIsExclusive
<1>6. QED
  BY <1>1, <1>2, <1>3, <1>4, <1>5 DEF Next

(* The inductive invariant holds throughout every behaviour.               *)
THEOREM Invariance == Spec => []IInv
BY InitIInv, NextIInv, PTL DEF Spec

-----------------------------------------------------------------------------
(* The properties the model checker checks on small counts, for all counts.*)

THEOREM TypeCorrect == Spec => []TypeOK
BY Invariance, PTL DEF IInv

(* A block that was never thread-shared is given up by its last reference  *)
(* only (kk_block_drop, kk_block_drop_reuse, kk_block_decref).             *)
THEOREM UnsharedSafe == Spec => [](UnsharedFreedByLast /\ ReuseIsExclusive)
BY Invariance, PTL DEF IInv

(* What the counts of live blocks are: n for n+1 unshared references, and  *)
(* -N for N+1 shared ones until the sticky ranges are reached, one more    *)
(* than refcount.c:126 says.                                               *)
THEOREM CountsExact == Spec => [](UnsharedExact /\ SharedExact)
BY Invariance, PTL DEF IInv

(* The count of a thread-shared block is never off from what refcount.c:126 *)
(* documents by more than the reference lost in kk_block_make_shared.      *)
THEOREM SharingWithinOne == Spec => []SharedLosesAtMostOne
<1>1. IInv => SharedLosesAtMostOne
  <2> SUFFICES ASSUME IInv, block = "live", rc < 0, ~saturated
               PROVE  Total + lostDrops \in {-rc, -rc + 1}
    BY DEF SharedLosesAtMostOne
  <2>1. Total = 1 - rc - lostDrops /\ rc \in Int /\ lostDrops \in Int
    BY SpanAssumption DEF IInv, SharedExact, TypeOK
  <2>2. QED
    BY <2>1
<1>2. QED
  BY <1>1, Invariance, PTL

(* The stickiness argument of refcount.c: a saturated block is not freed.  *)
THEOREM Saturation == Spec => []SaturatedNeverFreed
BY Invariance, PTL DEF IInv

(* kk_block_make_shared costs one reference and never more.                *)
THEOREM SharingCostsOne == Spec => []SharedFreedWithAtMostOneLeft
BY Invariance, PTL DEF IInv

(* Late dups of every thread leave a shared count above RC_STUCK.          *)
THEOREM NeverStuck == Spec => []SharedNeverStuck
<1>1. IInv => SharedNeverStuck
  <2> SUFFICES ASSUME IInv, shared PROVE rc > RC_STUCK
    BY DEF SharedNeverStuck
  <2>1. CASE block # "live"
    BY <2>1, SpanAssumption DEF IInv
  <2>2. CASE block = "live"
    BY <2>2, SpanAssumption, SubsetsOfThreads, CountedSets
    DEF IInv, LateDupsAbsorbed, TypeOK
  <2>3. QED
    BY <2>1, <2>2
<1>2. QED
  BY <1>1, Invariance, PTL

(* Nothing leaks outside the sticky ranges.                                *)
THEOREM NoOtherLeaks == Spec => []LeaksOnlyWhenSticky
<1>1. IInv => LeaksOnlyWhenSticky
  BY SubsetsOfThreads, CountedSets
  DEF IInv, LeaksOnlyWhenSticky, UnsharedExact, SharedExact, TypeOK, Total
<1>2. QED
  BY <1>1, Invariance, PTL

(* A saturated count stays where no drop is counted any more.              *)
THEOREM SaturationStays == Spec => SaturationIsSticky
<1>1. IInv /\ IInv' /\ [Next]_vars => [saturated => rc' <= RC_STICKY_DROP]_vars
  <2> SUFFICES ASSUME IInv, IInv', [Next]_vars, saturated, ~UNCHANGED vars
               PROVE  rc' <= RC_STICKY_DROP
    OBVIOUS
  <2>1. saturated'
    BY DEF Next, Step, Load, DupUnshared, DupShared, DupSticky, DropUnshared,
           DropUnique, DropSticky, DropShared, MakeShared, MoveUnique, vars
  <2>2. block' = "live"
    BY <2>1 DEF IInv, SaturatedNeverFreed
  <2>3. /\ rc' + Cardinality(AtomicDrops') <= RC_STICKY_DROP
        /\ rc' \in Int
        /\ Cardinality(AtomicDrops') \in Nat
    <3>1. AtomicDrops' \in SUBSET Threads
      BY DEF AtomicDrops
    <3>2. QED
      BY <2>1, <2>2, <3>1, CountedSets, SpanAssumption
      DEF IInv, LateDropsAbsorbed, TypeOK
  <2>4. QED
    BY <2>3, SpanAssumption
<1>2. QED
  BY <1>1, Invariance, PTL DEF Spec, SaturationIsSticky

=============================================================================
