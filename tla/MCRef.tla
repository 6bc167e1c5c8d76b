------------------------------- MODULE MCRef -------------------------------
(* Three threads share a reference to one of two blocks or a raw value;     *)
(* the owner performs two operations, the others one each.                  *)
EXTENDS Ref
CONSTANTS t1, t2, t3
MCOps == [t \in Threads |-> IF t = Owner THEN 2 ELSE 1]
=============================================================================
