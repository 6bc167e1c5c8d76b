------------------------------- MODULE Ref -------------------------------
(* Mutable references (kklib/src/ref.c and include/kklib/ref.h).  While a   *)
(* reference belongs to one thread it is read and written with plain loads  *)
(* and stores.  Once it is thread-shared a reader first swaps the value for *)
(* the guard 0, so that nobody can overwrite and drop it, dups it, and      *)
(* writes it back; a writer swaps the value for its own, but never the      *)
(* guard.  Values are heap blocks, with a count of references, or raw       *)
(* values.  A block that was freed may be allocated again, at the same      *)
(* address, while another thread still compares with the old pointer.       *)
(* Counts are exact here, and dup and drop atomic, as they are for blocks   *)
(* that are thread-shared: ref.h does not mark what is stored into a shared *)
(* reference, so the program must.  What a count may miss is in Refcount.   *)
EXTENDS Integers, FiniteSets

CONSTANTS
    Threads,
    Owner,    \* the thread that allocates the reference
    Blocks,   \* addresses of heap blocks
    Raws,     \* raw values
    One,      \* the raw value whose bits are 1: what a thread compares with
              \* when it finds the guard
    Guard,    \* the bits 0
    MaxOps    \* [Threads -> Nat], bound: operations of each thread

ASSUME RefAssumption ==
    /\ IsFiniteSet(Threads) /\ Owner \in Threads
    /\ One \in Raws
    /\ Guard \notin Blocks \cup Raws
    /\ Blocks \cap Raws = {}
    /\ MaxOps \in [Threads -> Nat]

Values == Blocks \cup Raws

VARIABLES
    value,    \* r->value
    count,    \* [Blocks -> Nat]: references to each block, 0 when it is free
    rcount,   \* references to r itself, 0 once it is freed
    shared,   \* is the reference thread-shared?
    pc,       \* where each thread is in its operation
    box,      \* the local `b` of each thread
    new,      \* the value that a thread writes
    ops,      \* operations left to each thread; -1 once it dropped r
    rawReads  \* shared reads that returned a raw value without dropping r

vars == <<value, count, rcount, shared, pc, box, new, ops, rawReads>>

Dup(v) == IF v \in Blocks THEN [count EXCEPT ![v] = @ + 1] ELSE count
Drop(v) == IF v \in Blocks THEN [count EXCEPT ![v] = @ - 1] ELSE count

Init ==
    /\ value \in Values
    /\ count = [b \in Blocks |-> IF b = value THEN 1 ELSE 0]
    /\ rcount = 1
    /\ shared = FALSE
    /\ pc = [t \in Threads |-> "idle"]
    /\ box = [t \in Threads |-> One]
    /\ new = [t \in Threads |-> One]
    /\ ops = [t \in Threads |-> IF t = Owner THEN MaxOps[t] ELSE 0]
    /\ rawReads = 0

Goto(t, from, to) == pc[t] = from /\ pc' = [pc EXCEPT ![t] = to]

(* kk_block_mark_shared: the other threads receive a reference to r each. *)
Share ==
    /\ ~shared /\ pc[Owner] = "idle" /\ ops[Owner] >= 0
    /\ shared' = TRUE
    /\ rcount' = rcount + Cardinality(Threads \ {Owner})
    /\ ops' = [t \in Threads |-> IF t = Owner THEN ops[t] ELSE MaxOps[t]]
    /\ UNCHANGED <<value, count, pc, box, new, rawReads>>

May(t) == ops[t] > 0 /\ (shared \/ t = Owner)

(* A read consumes a reference to r, which the caller dups before. *)
CallGet(t) ==
    /\ May(t)
    /\ Goto(t, "idle", "get")
    /\ ops' = [ops EXCEPT ![t] = @ - 1]
    /\ rcount' = rcount + 1
    /\ UNCHANGED <<value, count, shared, box, new, rawReads>>

(* The fast path of kk_ref_get: load, dup, drop r. *)
GetUnshared(t) ==
    /\ ~shared
    /\ Goto(t, "get", "done")
    /\ box' = [box EXCEPT ![t] = value]
    /\ count' = Dup(value)
    /\ rcount' = rcount - 1
    /\ UNCHANGED <<value, shared, new, ops, rawReads>>

(* A thread looks at the bits it read from the reference, first with a load *)
(* and then whenever the compare-and-swap fails.                            *)
GetLook(t) ==
    IF value \in Raws
      THEN /\ pc' = [pc EXCEPT ![t] = "done"]
           /\ box' = [box EXCEPT ![t] = value]
           /\ rawReads' = rawReads + 1
      ELSE /\ pc' = [pc EXCEPT ![t] = "get_cas"]
           /\ box' = [box EXCEPT ![t] = IF value = Guard THEN One ELSE value]
           /\ UNCHANGED rawReads

GetLoad(t) ==
    /\ shared /\ pc[t] = "get"
    /\ GetLook(t)
    /\ UNCHANGED <<value, count, rcount, shared, new, ops>>

GetRetry(t) ==
    /\ pc[t] = "get_cas" /\ value # box[t]
    /\ GetLook(t)
    /\ UNCHANGED <<value, count, rcount, shared, new, ops>>

(* Faulty: the reader leaves no guard behind. *)
GetLock_Open(t) ==
    value = box[t] /\ Goto(t, "get_cas", "get_dup")
    /\ UNCHANGED <<value, count, rcount, shared, box, new, ops, rawReads>>

GetLock(t) ==
    /\ value = box[t]
    /\ Goto(t, "get_cas", "get_dup")
    /\ value' = Guard
    /\ UNCHANGED <<count, rcount, shared, box, new, ops, rawReads>>

GetDup(t) ==
    /\ Goto(t, "get_dup", "get_unlock")
    /\ count' = Dup(box[t])
    /\ UNCHANGED <<value, rcount, shared, box, new, ops, rawReads>>

(* Faulty: the value is not written back. *)
GetUnlock_Not(t) ==
    value = Guard /\ Goto(t, "get_unlock", "get_drop")
    /\ UNCHANGED <<value, count, rcount, shared, box, new, ops, rawReads>>

(* The code asserts that this compare-and-swap finds the guard: GuardHeld. *)
GetUnlock(t) ==
    /\ value = Guard
    /\ Goto(t, "get_unlock", "get_drop")
    /\ value' = box[t]
    /\ UNCHANGED <<count, rcount, shared, box, new, ops, rawReads>>

(* Faulty: r is freed without its value. *)
DropRef_Leak == rcount' = rcount - 1 /\ UNCHANGED count

(* Dropping a reference to r: the last one frees r, and drops its value. *)
DropRef ==
    /\ rcount' = rcount - 1
    /\ count' = IF rcount = 1 THEN Drop(value) ELSE count

GetDrop(t) ==
    /\ Goto(t, "get_drop", "done")
    /\ DropRef
    /\ UNCHANGED <<value, shared, box, new, ops, rawReads>>

(* kk_ref_set_borrow and kk_ref_swap_borrow of a raw value or a new block. *)
CallSwap(t, v) ==
    /\ May(t)
    /\ Goto(t, "idle", "swap")
    /\ ops' = [ops EXCEPT ![t] = @ - 1]
    /\ v \in Blocks => count[v] = 0
    /\ count' = Dup(v)
    /\ new' = [new EXCEPT ![t] = v]
    /\ UNCHANGED <<value, rcount, shared, box, rawReads>>

SwapUnshared(t) ==
    /\ ~shared
    /\ Goto(t, "swap", "done")
    /\ box' = [box EXCEPT ![t] = value]
    /\ value' = new[t]
    /\ UNCHANGED <<count, rcount, shared, new, ops, rawReads>>

(* The guard is never what is compared with, so it is never overwritten. *)
SwapLook(t) == box' = [box EXCEPT ![t] = IF value = Guard THEN One ELSE value]

SwapLoad(t) ==
    /\ shared
    /\ Goto(t, "swap", "swap_cas")
    /\ SwapLook(t)
    /\ UNCHANGED <<value, count, rcount, shared, new, ops, rawReads>>

SwapRetry(t) ==
    /\ pc[t] = "swap_cas" /\ value # box[t]
    /\ SwapLook(t)
    /\ UNCHANGED <<value, count, rcount, shared, pc, new, ops, rawReads>>

(* Faulty: a store instead of a compare-and-swap. *)
SwapStore_Plain(t) ==
    Goto(t, "swap_cas", "done") /\ value' = new[t]
    /\ UNCHANGED <<count, rcount, shared, box, new, ops, rawReads>>

SwapStore(t) ==
    /\ value = box[t]
    /\ Goto(t, "swap_cas", "done")
    /\ value' = new[t]
    /\ UNCHANGED <<count, rcount, shared, box, new, ops, rawReads>>

(* The caller drops what it read, or the value that was replaced. *)
Return(t) ==
    /\ Goto(t, "done", "idle")
    /\ count' = Drop(box[t])
    /\ UNCHANGED <<value, rcount, shared, box, new, ops, rawReads>>

(* kk_ref_drop when a thread needs r no more. *)
Finish(t) ==
    /\ pc[t] = "idle" /\ ops[t] = 0
    /\ shared
    /\ ops' = [ops EXCEPT ![t] = -1]
    /\ DropRef
    /\ UNCHANGED <<value, shared, pc, box, new, rawReads>>

Get(t) == \/ GetUnshared(t) \/ GetLoad(t) \/ GetRetry(t)
          \/ GetLock(t) \/ GetDup(t) \/ GetUnlock(t) \/ GetDrop(t)
Swap(t) == SwapUnshared(t) \/ SwapLoad(t) \/ SwapRetry(t) \/ SwapStore(t)

Next == \/ Share
        \/ \E t \in Threads : \/ CallGet(t) \/ \E v \in Values : CallSwap(t, v)
                              \/ Get(t) \/ Swap(t) \/ Return(t) \/ Finish(t)

(* Every thread runs on, and sharing happens at last. *)
Fairness ==
    /\ WF_vars(Share)
    /\ \A t \in Threads : WF_vars(Get(t) \/ Swap(t) \/ Return(t)) /\ WF_vars(Finish(t))

Spec == Init /\ [][Next]_vars /\ Fairness
---------------------------------------------------------------------------
(* The counts are left to CountsExact. *)
TypeOK ==
    /\ value \in Values \cup {Guard}
    /\ shared \in BOOLEAN
    /\ pc \in [Threads -> {"idle", "get", "get_cas", "get_dup", "get_unlock", "get_drop",
                           "swap", "swap_cas", "done"}]
    /\ box \in [Threads -> Values]
    /\ new \in [Threads -> Values]

Locked(t) == pc[t] \in {"get_dup", "get_unlock"}

(* The guard is in the reference exactly while one thread reads it, so the  *)
(* compare-and-swap that writes the value back cannot fail: the assertion   *)
(* of kk_ref_get_thread_shared holds.                                       *)
GuardHeld ==
    /\ value = Guard <=> \E t \in Threads : Locked(t)
    /\ \A t, u \in Threads : Locked(t) /\ Locked(u) => t = u

(* Who holds a reference to block b: the cell, or the thread that keeps it  *)
(* behind the guard; a writer before its swap; whoever has a result.        *)
HoldsNew(t, b) == pc[t] \in {"swap", "swap_cas"} /\ new[t] = b
HoldsResult(t, b) == pc[t] \in {"get_unlock", "get_drop", "done"} /\ box[t] = b
InCell(b) == rcount > 0 /\ (value = b \/ \E t \in Threads : Locked(t) /\ box[t] = b)

(* The count of each block is the number of references that exist, whatever *)
(* the interleaving: no reader dups a block that a writer has freed, and no *)
(* block is dropped twice or lost, also when its address is used again. A   *)
(* shared read of a raw value leaves its reference to r behind; without     *)
(* such reads r is freed, too, once every thread is finished.               *)
CountsExact ==
    /\ \A b \in Blocks :
        count[b] = Cardinality({t \in Threads : HoldsNew(t, b)})
                 + Cardinality({t \in Threads : HoldsResult(t, b)})
                 + (IF InCell(b) THEN 1 ELSE 0)
    /\ (\A t \in Threads : ops[t] = -1) /\ rawReads = 0 => rcount = 0

(* The reference is linearizable: it implements the atomic one.  A read     *)
(* takes effect when it takes the guard (or finds a raw value), an exchange *)
(* when its compare-and-swap succeeds.                                      *)
Busy(t) ==
    CASE pc[t] = "idle" -> [op |-> "none"]
      [] pc[t] \in {"get", "get_cas"} -> [op |-> "get"]
      [] pc[t] \in {"swap", "swap_cas"} -> [op |-> "swap", new |-> new[t]]
      [] OTHER -> [op |-> "done", result |-> box[t]]

Reg == IF value = Guard THEN box[CHOOSE t \in Threads : Locked(t)] ELSE value

Atomic == INSTANCE AtomicRef WITH
    reg <- Reg, busy <- [t \in Threads |-> Busy(t)]

Linearizable == Atomic!Spec

(* Every operation returns: a thread that finds the guard does not wait for *)
(* ever, since the reader that put it there writes the value back.          *)
OperationsReturn == \A t \in Threads : pc[t] # "idle" ~> pc[t] = "idle"
===========================================================================
