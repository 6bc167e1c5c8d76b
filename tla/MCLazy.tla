------------------------------ MODULE MCLazy ------------------------------
(* Heaps that three threads share, in which no indirection leads to another *)
(* (see MCShared for why not), and chains of indirections that one thread   *)
(* forces again, from their end or from their middle.                       *)
EXTENDS Lazy, TLC
CONSTANTS t1, t2, t3, v1, v2, v3, v4

Todo(x, y, z) == t1 :> x @@ t2 :> y @@ t3 :> z
Chain == v1 :> v2 @@ v2 :> v3 @@ v3 :> v4 @@ v4 :> None
Shared(next, todos) == [arg |-> v1 :> v2 @@ v2 :> None @@ v3 :> None @@ v4 :> None,
                        next |-> next, todo |-> todos, shared |-> TRUE]

MCHeaps ==
    {Shared(next, todos) : next \in {{}, {v1}},
                           todos \in {Todo(<<v1>>, <<v1>>, <<v2>>), Todo(<<v1, v2>>, <<v1>>, <<>>)}}
    \cup {[arg |-> Chain, next |-> next, todo |-> Todo(forces, <<>>, <<>>), shared |-> FALSE] :
             next \in SUBSET {v1, v2, v3}, forces \in {<<v1, v1>>, <<v1, v1, v1>>, <<v3, v2, v1>>, <<v1, v2, v1>>, <<v2, v1>>}}

(* Outside MCHeaps: compressing a thread-shared chain. The last reference   *)
(* to v3 is that of v2, but shared blocks are never unique, so v3 is freed  *)
(* by kk_block_decref and then updated.                                     *)
MCShared == {[arg |-> Chain, next |-> {v1, v2, v3}, todo |-> Todo(<<v1, v1>>, <<>>, <<>>), shared |-> TRUE]}
=============================================================================
