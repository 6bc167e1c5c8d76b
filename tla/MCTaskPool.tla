----------------------------- MODULE MCTaskPool -----------------------------
(* TaskPool running small programs over four tasks.                        *)
EXTENDS TaskPool

CONSTANTS a, b, c, d

T(k) == <<"task", k>>
A(k) == <<"await", k>>
Program(r, pa, pb, pc, pd) ==
  [k \in Bodies |-> CASE k = Root -> r [] k = a -> pa [] k = b -> pb
                      [] k = c -> pc [] OTHER -> pd]

(* Fork and join: whoever creates a task awaits it, once.                  *)
Parallel  == Program(<<T(a), T(b), T(c), A(a), A(b), A(c)>>, <<>>, <<>>, <<>>, <<>>)
Nested    == Program(<<T(a), T(b), A(a), A(b)>>, <<T(c), A(c)>>, <<T(d), A(d)>>, <<>>, <<>>)
Backwards == Program(<<T(a), T(b), A(b), A(a)>>, <<T(c), T(d), A(d), A(c)>>, <<>>, <<>>, <<>>)
Joining   == {Parallel, Nested, Backwards}

(* Two threads await the promise of a.                                     *)
Shared == Program(<<T(a), T(b), A(a), A(b)>>, <<>>, <<A(a)>>, <<>>, <<>>)

(* Task c awaits the promise of a, and a that of d, which it creates.      *)
Crossed == Program(<<T(a), T(c), A(c)>>, <<T(d), A(d)>>, <<>>, <<A(a)>>, <<>>)

SharedOnly == {Shared}
All        == Joining \cup {Shared, Crossed}
=============================================================================
