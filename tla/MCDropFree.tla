----------------------------- MODULE MCDropFree -----------------------------
(* DropFree on acyclic heaps: a field of a block refers to a later block.  *)
EXTENDS DropFree

Contents(b, last) == {Val} \cup (b+1)..last
Plain(b, last, n) == UNION {[0..(k-1) -> Contents(b, last)] : k \in 0..n}
Vectors(b, last)  ==
  UNION {{f \in [0..k -> Contents(b, last) \cup {Length}] :
            f[0] = Length /\ \A i \in 1..k : f[i] # Length} : k \in 1..2}

(* The heaps whose blocks b have a shape in shapes[b].                     *)
Combine(shapes) ==
  LET from[b \in 1..(Len(shapes)+1)] ==
        IF b > Len(shapes) THEN {<<>>}
        ELSE {<<s>> \o h : s \in shapes[b], h \in from[b+1]}
  IN from[1]

(* Three blocks with up to three fields beside a leaf, four blocks with up *)
(* to two fields, and four of which the second is a large vector.          *)
MCSlots == 0..2
Leaf    == {<<>>}
MCHeaps ==
  Combine(<<Plain(1, 3, 3), Plain(2, 3, 3), Plain(3, 3, 1), Leaf>>)
    \cup Combine(<<Plain(1, 4, 2), Plain(2, 4, 2), Plain(3, 4, 2), Leaf>>)
    \cup Combine(<<Plain(1, 4, 2), Vectors(2, 4), Plain(3, 4, 2), Leaf>>)
=============================================================================
