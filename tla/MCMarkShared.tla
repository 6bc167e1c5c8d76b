---------------------------- MODULE MCMarkShared ----------------------------
(* MarkShared on acyclic heaps, as in MCDropFree.  The counts make room    *)
(* for a digit that is the next field to visit, of which there are at most *)
(* 3: IDX_SPAN is 4, and counts range from -16 to 15.                      *)
EXTENDS MarkShared

CONSTANT BigExtra

Contents(b, last) == {Val} \cup (b+1)..last
Plain(b, last, n) == UNION {[0..(k-1) -> Contents(b, last)] : k \in 0..n}
Vectors(b, last)  ==
  {f \in [0..2 -> Contents(b, last) \cup {Length}] :
     f[0] = Length /\ f[1] # Length /\ f[2] # Length}

Combine(shapes) ==
  LET from[b \in 1..(Len(shapes)+1)] ==
        IF b > Len(shapes) THEN {<<>>}
        ELSE {<<s>> \o h : s \in shapes[b], h \in from[b+1]}
  IN from[1]

(* Three blocks with up to three fields beside a leaf, four blocks with up *)
(* to two fields, and a large vector with leaves as elements.              *)
MCSlots == 0..2
Leaf    == {<<>>}
MCHeaps ==
  Combine(<<Plain(1, 3, 3), Plain(2, 3, 3), Plain(3, 3, 1), Leaf>>)
    \cup Combine(<<Plain(1, 4, 2), Plain(2, 4, 2), Plain(3, 4, 2), Leaf>>)
    \cup Combine(<<Plain(1, 4, 2), Vectors(2, 4), Leaf, Leaf>>)

(* A large vector whose elements have fields.                              *)
MCVectorHeaps ==
  Combine(<<Plain(1, 4, 2), Vectors(2, 4), Plain(3, 4, 2), Leaf>>)

MCSticky     == -14
MCStickyDrop == -12

(* References from elsewhere: one to blocks 1 and 4, and variations.       *)
Base == [b \in Blocks |-> IF b \in {1, 4} THEN 1 ELSE 0]
MCExtra ==
  {Base} \cup {[Base EXCEPT ![b] = @ + 1] : b \in Blocks}
    \cup {[Base EXCEPT ![2] = n] : n \in BigExtra \cup {STUCK}}
=============================================================================
