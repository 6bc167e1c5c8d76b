----------------------------- MODULE AtomicRef -----------------------------
(* What a mutable reference promises to the threads that share it: every    *)
(* read and every exchange takes effect at one instant between its call and *)
(* its return.  The reference itself is implemented in Ref.                 *)

CONSTANTS Threads, Values

VARIABLES
    reg,    \* the value of the reference
    busy    \* [Threads -> the operation a thread is in, with its result]

vars == <<reg, busy>>

Idle == [op |-> "none"]

Init == /\ reg \in Values
        /\ busy = [t \in Threads |-> Idle]

Call(t) == /\ busy[t] = Idle
           /\ \/ busy' = [busy EXCEPT ![t] = [op |-> "get"]]
              \/ \E v \in Values : busy' = [busy EXCEPT ![t] = [op |-> "swap", new |-> v]]
           /\ UNCHANGED reg

TakeEffect(t) == /\ busy[t].op \in {"get", "swap"}
                 /\ busy' = [busy EXCEPT ![t] = [op |-> "done", result |-> reg]]
                 /\ reg' = IF busy[t].op = "get" THEN reg ELSE busy[t].new

Return(t) == /\ busy[t].op = "done"
             /\ busy' = [busy EXCEPT ![t] = Idle]
             /\ UNCHANGED reg

Next == \E t \in Threads : Call(t) \/ TakeEffect(t) \/ Return(t)

Spec == Init /\ [][Next]_vars
=============================================================================
