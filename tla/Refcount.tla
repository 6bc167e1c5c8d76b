------------------------------ MODULE Refcount ------------------------------
(***************************************************************************)
(* The 32-bit reference count of one heap block of the runtime library     *)
(* (kklib/include/kklib.h, "Reference counting", and the checked part in   *)
(* kklib/src/refcount.c).                                                  *)
(*                                                                         *)
(* A count of n >= 0 belongs to a block only one thread refers to and      *)
(* stands for n+1 references; it is updated by a plain load and store.  A  *)
(* negative count belongs to a block several threads refer to: it grows    *)
(* down with each dup and is updated by one atomic instruction, after an   *)
(* earlier plain load has chosen which.  Counts near INT32_MIN are sticky. *)
(*                                                                         *)
(* References are anonymous: refs counts those that no operation is using. *)
(* An operation takes the reference it works on out of refs when it loads  *)
(* the count; a dup puts two back, a drop none.                            *)
(***************************************************************************)
EXTENDS Integers, FiniteSets

CONSTANTS
  Threads,       (* the threads of the process                             *)
  RC_MAX,        (* INT32_MAX                                              *)
  STICKY_SPAN,   (* 0x10000000: width of the range without dup or drop     *)
  DROP_SPAN,     (* 0x20000000: width of the range without drop            *)
  MaxRefs        (* bound: references to the block that exist at one time  *)

RC_STUCK         == -RC_MAX - 1
RC_STICKY        == RC_STUCK + STICKY_SPAN
(* Faulty: one threshold for dups and drops. *)
RC_STICKY_DROP_AsDup == RC_STICKY
RC_STICKY_DROP   == RC_STUCK + DROP_SPAN
RC_SHARED_UNIQUE == -1
RC_UNIQUE        == 0

(* The sticky ranges absorb one late operation of every thread; on the     *)
(* 32-bit counts of the code both ranges hold 2^28 counts.                 *)
ASSUME SpanAssumption ==
  /\ IsFiniteSet(Threads)
  /\ RC_MAX \in Nat /\ STICKY_SPAN \in Nat /\ DROP_SPAN \in Nat /\ MaxRefs \in Nat
  /\ STICKY_SPAN >= Cardinality(Threads)
  /\ DROP_SPAN - STICKY_SPAN >= Cardinality(Threads)
  /\ DROP_SPAN < RC_MAX

VARIABLES
  rc,          (* header.refcount                                          *)
  block,       (* "live", or how its memory was given up                   *)
  refs,        (* references to the block that no operation is consuming   *)
  pc,          (* per thread: the operation in progress, or "idle"         *)
  rc0,         (* per thread: the count its operation has loaded           *)
  owner,       (* the thread that holds the references of an unshared block*)
  shared,      (* history: sharing has turned the count negative           *)
  saturated,   (* history: a dup was not counted, or the count was clamped *)
  lostDrops    (* history: drops not counted before saturation             *)

vars == <<rc, block, refs, pc, rc0, owner, shared, saturated, lostDrops>>

(* drop stands for kk_block_drop, dropi and dropn, decref for decref and   *)
(* decref_small, drop_reuse for the reuse variants: each trio treats the   *)
(* count alike.                                                            *)
Drops == {"drop", "decref", "drop_reuse"}
Ops   == {"dup"} \cup Drops
Gone  == {"freed", "freed_shallow", "reused"}

Busy  == {t \in Threads : pc[t] # "idle"}
Total == refs + Cardinality(Busy)

IsThreadShared(n) == n < 0

(* Operations that have chosen the atomic instruction but not executed it. *)
AtomicDups  == {t \in Threads : pc[t] = "dup" /\ rc0[t] < 0 /\ rc0[t] > RC_STICKY}
AtomicDrops == {t \in Threads : pc[t] \in Drops /\ rc0[t] < 0 /\ rc0[t] > RC_STICKY_DROP}

Init ==
  /\ \/ rc = RC_UNIQUE /\ saturated = FALSE      (* a fresh allocation     *)
     \/ rc = RC_STUCK  /\ saturated = TRUE       (* static data            *)
  /\ block = "live"
  /\ refs = 1
  /\ pc = [t \in Threads |-> "idle"]
  /\ rc0 = [t \in Threads |-> 0]
  /\ owner \in Threads
  /\ shared = FALSE
  /\ lostDrops = 0

-----------------------------------------------------------------------------
(* Faulty: the increment of a mathematical integer. *)
RefcountInc_NoWrap(n) == n + 1

(* Unsigned increment: the largest count wraps into RC_STUCK.              *)
RefcountInc(n) == IF n = RC_MAX THEN RC_STUCK ELSE n + 1

(* Faulty: the last reference of a shared block hands it out for reuse. *)
Release_ReuseShared(op, unique) ==
  CASE op = "decref"     -> "freed_shallow"
    [] op = "drop_reuse" -> "reused"
    [] OTHER             -> "freed"

(* How the memory of a block ends when its count shows no other reference. *)
Release(op, unique) ==
  CASE op = "decref"                  -> "freed_shallow"
    [] op = "drop_reuse" /\ unique    -> "reused"
    [] OTHER                          -> "freed"

Finish(t) ==
  /\ pc'  = [pc  EXCEPT ![t] = "idle"]
  /\ rc0' = [rc0 EXCEPT ![t] = 0]

(* Each operation starts with a plain load of the count.                   *)
Load(t, op) ==
  /\ block = "live"
  /\ pc[t] = "idle"
  /\ refs > 0
  /\ op = "dup" => Total < MaxRefs
  /\ refs' = refs - 1
  /\ pc'   = [pc  EXCEPT ![t] = op]
  /\ rc0'  = [rc0 EXCEPT ![t] = rc]
  /\ UNCHANGED <<rc, block, owner, shared, saturated, lostDrops>>

DupUnshared(t) ==
  /\ block = "live" /\ pc[t] = "dup" /\ rc0[t] >= 0
  /\ rc'   = RefcountInc(rc0[t])
  /\ refs' = refs + 2
  /\ saturated' = (saturated \/ rc0[t] = RC_MAX)
  /\ Finish(t)
  /\ UNCHANGED <<block, owner, shared, lostDrops>>

(* Faulty: a load and a store instead of the atomic instruction. *)
DupShared_Plain(t) ==
  /\ block = "live" /\ t \in AtomicDups
  /\ rc'   = rc0[t] - 1
  /\ refs' = refs + 2
  /\ Finish(t)
  /\ UNCHANGED <<block, owner, shared, saturated, lostDrops>>

DupShared(t) ==
  /\ block = "live" /\ t \in AtomicDups
  /\ rc'   = rc - 1
  /\ refs' = refs + 2
  /\ Finish(t)
  /\ UNCHANGED <<block, owner, shared, saturated, lostDrops>>

DupSticky(t) ==
  /\ block = "live" /\ pc[t] = "dup" /\ rc0[t] < 0 /\ rc0[t] <= RC_STICKY
  /\ refs' = refs + 2
  /\ saturated' = TRUE
  /\ Finish(t)
  /\ UNCHANGED <<rc, block, owner, shared, lostDrops>>

DropUnshared(t) ==
  /\ block = "live" /\ pc[t] \in Drops /\ rc0[t] > 0
  /\ rc' = rc0[t] - 1
  /\ Finish(t)
  /\ UNCHANGED <<block, refs, owner, shared, saturated, lostDrops>>

DropUnique(t) ==
  /\ block = "live" /\ pc[t] \in Drops /\ rc0[t] = RC_UNIQUE
  /\ block' = Release(pc[t], TRUE)
  /\ Finish(t)
  /\ UNCHANGED <<rc, refs, owner, shared, saturated, lostDrops>>

DropSticky(t) ==
  /\ block = "live" /\ pc[t] \in Drops /\ rc0[t] < 0 /\ rc0[t] <= RC_STICKY_DROP
  /\ lostDrops' = IF saturated THEN lostDrops ELSE lostDrops + 1
  /\ Finish(t)
  /\ UNCHANGED <<rc, block, refs, owner, shared, saturated>>

(* Faulty: compares the incremented count instead of the one it replaced. *)
DropShared_NewCount(t) ==
  /\ block = "live" /\ t \in AtomicDrops
  /\ rc'    = rc + 1
  /\ block' = IF rc + 1 = RC_SHARED_UNIQUE THEN Release(pc[t], FALSE) ELSE block
  /\ Finish(t)
  /\ UNCHANGED <<refs, owner, shared, saturated, lostDrops>>

(* Faulty: a load and a store instead of the atomic instruction. *)
DropShared_Plain(t) ==
  /\ block = "live" /\ t \in AtomicDrops
  /\ rc'    = rc0[t] + 1
  /\ block' = IF rc0[t] = RC_SHARED_UNIQUE THEN Release(pc[t], FALSE) ELSE block
  /\ Finish(t)
  /\ UNCHANGED <<refs, owner, shared, saturated, lostDrops>>

(* The thread whose increment finds -1 frees the block; a shared block is  *)
(* never handed out for reuse.                                             *)
DropShared(t) ==
  /\ block = "live" /\ t \in AtomicDrops
  /\ rc'    = rc + 1
  /\ block' = IF rc = RC_SHARED_UNIQUE THEN Release(pc[t], FALSE) ELSE block
  /\ Finish(t)
  /\ UNCHANGED <<refs, owner, shared, saturated, lostDrops>>

SharedCount(n) == IF -n <= RC_STICKY_DROP THEN RC_STICKY ELSE -n

(* Marking the block from its owner; a count of 0 stays 0.                 *)
MakeShared(t) ==
  /\ block = "live" /\ pc[t] = "idle" /\ t = owner /\ refs > 0
  /\ ~IsThreadShared(rc)
  /\ rc' = SharedCount(rc)
  /\ shared' = (rc > 0)
  /\ saturated' = (saturated \/ (rc > 0 /\ -rc <= RC_STICKY_DROP))
  /\ UNCHANGED <<block, refs, pc, rc0, owner, lostDrops>>

(* A block with one reference moves to another thread with that reference. *)
MoveUnique(t, u) ==
  /\ block = "live" /\ pc[t] = "idle" /\ t = owner /\ refs = 1 /\ rc = RC_UNIQUE
  /\ owner' = u
  /\ UNCHANGED <<rc, block, refs, pc, rc0, shared, saturated, lostDrops>>

Step(t) ==
  \/ DupUnshared(t) \/ DupShared(t) \/ DupSticky(t)
  \/ DropUnshared(t) \/ DropUnique(t) \/ DropSticky(t) \/ DropShared(t)

(* An unshared block is used by its owner only.                            *)
Next ==
  \E t \in Threads :
    \/ \E op \in Ops : (IsThreadShared(rc) \/ t = owner) /\ Load(t, op)
    \/ Step(t)
    \/ MakeShared(t)
    \/ \E u \in Threads : MoveUnique(t, u)

Spec == Init /\ [][Next]_vars

(***************************************************************************)
(* A block that was marked while its count was 0: marking leaves the count *)
(* as it is, and the references that threads take of it from then on are   *)
(* not confined to an owner (kk_promise_alloc marks the promise it has     *)
(* just allocated and kk_task_group_schedule dups it for a worker).        *)
(***************************************************************************)
InitMarkedUnique ==
  Init /\ rc = SharedCount(RC_UNIQUE)

NextMarkedUnique ==
  \E t \in Threads : (\E op \in Ops : Load(t, op)) \/ Step(t)

SpecMarkedUnique == InitMarkedUnique /\ [][NextMarkedUnique]_vars

-----------------------------------------------------------------------------
(* The variables range over the values the code can give them.             *)
TypeOK ==
  /\ rc \in RC_STUCK..RC_MAX
  /\ block \in {"live"} \cup Gone
  /\ refs \in Nat
  /\ pc \in [Threads -> {"idle"} \cup Ops]
  /\ rc0 \in [Threads -> RC_STUCK..RC_MAX]
  /\ owner \in Threads
  /\ shared \in BOOLEAN /\ saturated \in BOOLEAN
  /\ lostDrops \in Nat

(* While the count is not negative it is one less than the references that *)
(* exist, whatever operation of the owner is half done.                    *)
UnsharedExact ==
  block = "live" /\ rc >= 0 => Total = rc + 1

(* "If there are N references to a thread-shared object, then the reference *)
(* count is -N" (refcount.c:126), less the drops that the sticky range left *)
(* uncounted, until a dup goes uncounted.                                   *)
SharedAsDocumented ==
  block = "live" /\ rc < 0 /\ ~saturated => Total = -rc - lostDrops

(* Whatever dups and drops of several threads overlap, a thread-shared count *)
(* -N is never off from what is documented by more than the one reference   *)
(* that kk_block_make_shared loses: there are N references to the block, or *)
(* one more, less the drops that the sticky range left uncounted.           *)
SharedLosesAtMostOne ==
  block = "live" /\ rc < 0 /\ ~saturated =>
    Total + lostDrops \in {-rc, -rc + 1}

(* A block that was never thread-shared is given up only by its last       *)
(* reference: nobody holds or is using another one.                        *)
UnsharedFreedByLast ==
  block # "live" /\ ~shared => Total = 0

(* Sharing costs at most one reference: when a thread-shared block is      *)
(* freed there is at most one other reference to it, held or in use.       *)
SharedFreedWithAtMostOneLeft ==
  block # "live" => Total <= 1

(* Memory is handed out for reuse only when nobody else refers to it.      *)
ReuseIsExclusive ==
  block = "reused" => Total = 0

(* Once a dup has gone uncounted the block is never freed, although drops  *)
(* that loaded the count earlier may still raise it.                       *)
SaturatedNeverFreed ==
  saturated => block = "live"

(* A thread-shared count never decreases into RC_STUCK, however many late  *)
(* dups hit it below RC_STICKY.                                            *)
SharedNeverStuck ==
  shared => rc > RC_STUCK

(* A live block without references was saturated or has uncounted drops:   *)
(* the counts leak nothing else.                                           *)
LeaksOnlyWhenSticky ==
  block = "live" /\ Total = 0 => saturated \/ lostDrops > 0

(* No reference outlives the block it refers to.                           *)
NoDangling ==
  block # "live" => Total = 0

(* A saturated count stays saturated: it never climbs back out of the      *)
(* range without drops, into which it came with the first uncounted dup.   *)
SaturationIsSticky ==
  [][saturated => rc' <= RC_STICKY_DROP]_vars

-----------------------------------------------------------------------------
(* The inductive invariant behind the properties above.                    *)

(* Where in that range the counts of the code are: negating the count n of *)
(* n+1 references leaves -n, so there is always one reference more than is *)
(* documented.                                                             *)
SharedExact ==
  block = "live" /\ rc < 0 /\ ~saturated => Total = 1 - rc - lostDrops

(* Operations of an unshared block, and of one that is stuck, are working  *)
(* on its present count, the former on behalf of the owner.                *)
LocalCounts ==
  block = "live" /\ ~shared =>
    \A t \in Busy : rc0[t] = rc /\ (rc >= 0 => t = owner)

(* Operations of a thread-shared block loaded a thread-shared count.       *)
SharedCounts ==
  block = "live" /\ shared => rc < 0 /\ \A t \in Busy : rc0[t] < 0

(* Only sharing and saturation make a count negative.                      *)
History ==
  block = "live" =>
    /\ rc >= 0 => ~shared /\ ~saturated /\ lostDrops = 0
    /\ rc < 0 /\ ~shared => rc = RC_STUCK /\ saturated

(* A dup that went uncounted, or that will because it loaded a sticky      *)
(* count, leaves the count so low that the late drops cannot lift it out   *)
(* of the range without drops.                                             *)
UncountedDup == {t \in Threads : pc[t] = "dup" /\ rc0[t] < 0 /\ rc0[t] <= RC_STICKY}
LateDropsAbsorbed ==
  block = "live" /\ (saturated \/ UncountedDup # {}) =>
    rc + Cardinality(AtomicDrops) <= RC_STICKY_DROP

(* The late dups cannot push a shared count further than one per thread.   *)
LateDupsAbsorbed ==
  block = "live" /\ shared =>
    rc - Cardinality(AtomicDups) > RC_STICKY - Cardinality(Threads)

IInv ==
  /\ TypeOK
  /\ LocalCounts /\ SharedCounts /\ History
  /\ UnsharedExact /\ SharedExact
  /\ LateDropsAbsorbed /\ LateDupsAbsorbed
  /\ SaturatedNeverFreed
  /\ UnsharedFreedByLast /\ SharedFreedWithAtMostOneLeft /\ ReuseIsExclusive
  /\ block # "live" => rc = RC_UNIQUE

=============================================================================
