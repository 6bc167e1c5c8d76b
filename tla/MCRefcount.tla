----------------------------- MODULE MCRefcount -----------------------------
(* Refcount on small counts: threads are interchangeable.                  *)
EXTENDS Refcount, TLC

Symmetry == Permutations(Threads)
=============================================================================
