----------------------------- MODULE MarkShared -----------------------------
(***************************************************************************)
(* Marking a block and everything it refers to as thread-shared            *)
(* (kklib/src/refcount.c: kk_block_mark_shared, kk_block_mark_shared_rec,  *)
(* kk_block_mark_shared_recx, kk_block_mark_shared_recx_large), done by    *)
(* the thread that owns the blocks before it gives them to another one.    *)
(*                                                                         *)
(* The first MAX_RECURSE_DEPTH levels are visited by recursive calls, what *)
(* lies deeper by pointer reversal: the field of a block through which its *)
(* child was reached holds the link to its parent until the child is done, *)
(* and the low digit of its count (base IDX_SPAN) the next field to visit. *)
(***************************************************************************)
EXTENDS Integers, Sequences, FiniteSets

CONSTANTS
  Blocks,             (* the blocks of the heap                            *)
  Slots,              (* the positions of fields                           *)
  Heaps,              (* the heaps to start from                           *)
  Extra,              (* functions that give the references to each block  *)
                      (* from elsewhere; -1 - RC_MAX marks static data     *)
  Entries,            (* the blocks the owner may share, with what they    *)
                      (* refer to                                          *)
  Null,               (* the link of a block without parent                *)
  Val,                (* a field that holds no reference                   *)
  Length,             (* the first field of a large vector                 *)
  MAX_RECURSE_DEPTH,
  IDX_SPAN,           (* 0x100                                             *)
  KK_RC_MARK_MAX,     (* 0x007FFFFF                                        *)
  RC_STICKY,          (* see Refcount                                      *)
  RC_STICKY_DROP,
  MaxCalls            (* the C stack holds that many calls                 *)

RC_MAX == KK_RC_MARK_MAX * IDX_SPAN + IDX_SPAN - 1
STUCK  == -RC_MAX - 1
KK_SCAN_FSIZE_MAX == 255

(* A block has the fields 0..n-1: a large vector its length and elements,  *)
(* every other block so few that an index of them is a digit.              *)
Wellformed(h) ==
  /\ h \in [Blocks -> {h[b] : b \in Blocks}]
  /\ \A b \in Blocks :
       /\ h[b] \in [DOMAIN h[b] -> Blocks \cup {Val, Length}]
       /\ \E n \in 0..Cardinality(Slots) :
            /\ DOMAIN h[b] = 0..(n - 1)
            /\ IF n > 0 /\ h[b][0] = Length
               THEN n > 1 ELSE n < KK_SCAN_FSIZE_MAX /\ n < IDX_SPAN

(* Immutable data refers to older data only: no set of blocks goes round.  *)
Acyclic(h) ==
  \A S \in SUBSET Blocks : S # {} => \E b \in S : \A i \in DOMAIN h[b] : h[b][i] \notin S

ASSUME MarkAssumption ==
  /\ IsFiniteSet(Blocks) /\ IsFiniteSet(Slots) /\ Slots = 0..(Cardinality(Slots) - 1)
  /\ Null \notin Blocks /\ Val \notin Blocks /\ Length \notin Blocks
  /\ \A h \in Heaps : Wellformed(h) /\ Acyclic(h)
  /\ Entries \subseteq Blocks
  /\ MAX_RECURSE_DEPTH \in Nat /\ MaxCalls \in Nat
  /\ KK_RC_MARK_MAX \in Nat /\ IDX_SPAN \in Nat \ {0}
  /\ \A extra \in Extra : extra \in [Blocks -> Int]
  /\ RC_STICKY \in Int /\ RC_STICKY < 0 /\ RC_STICKY_DROP \in Int
  /\ -RC_MAX <= RC_STICKY_DROP

VARIABLES
  heap,     (* the fields as the program left them; never changes          *)
  count,    (* the counts when marking began; never changes                *)
  field,    (* the fields in memory                                        *)
  rc,       (* the counts in memory                                        *)
  marked,   (* history: the blocks passed to kk_block_mark_shared          *)
  stack,    (* the C stack, the running function first                     *)
  overflow  (* the C stack overflowed                                      *)

vars == <<heap, count, field, rc, marked, stack, overflow>>

Size(b)       == Cardinality(DOMAIN heap[b])
IsVector(b)   == 0 \in DOMAIN heap[b] /\ heap[b][0] = Length
HeaderScan(b) == IF IsVector(b) THEN KK_SCAN_FSIZE_MAX ELSE Size(b)
IsPtr(v)      == v \in Blocks
IsShared(b)   == rc[b] < 0
OneField(b) ==
  \/ HeaderScan(b) = 1
  \/ HeaderScan(b) = 2 /\ ~IsPtr(field[b][0])
RefsTo(c) ==
  {r \in Blocks \X Slots : r[2] \in DOMAIN heap[r[1]] /\ heap[r[1]][r[2]] = c}

Init ==
  /\ heap \in Heaps
  /\ \E extra \in Extra :
       count = [b \in Blocks |-> IF extra[b] = STUCK THEN STUCK
                                 ELSE Cardinality(RefsTo(b)) + extra[b] - 1]
  (* a block has a reference; what static data refers to is static         *)
  /\ \A b \in Blocks : count[b] = STUCK \/ count[b] >= 0
  /\ \A b, c \in Blocks :
       count[b] = STUCK /\ (\E r \in RefsTo(c) : r[1] = b) => count[c] = STUCK
  /\ field = heap /\ rc = count
  /\ marked = {} /\ stack = <<>> /\ overflow = FALSE

-----------------------------------------------------------------------------
Rec(b, depth) == [fn |-> "rec", at |-> "loop", b |-> b, parent |-> Null, i |-> 0, depth |-> depth]
Recx(b)       == [fn |-> "recx", at |-> "enter", b |-> b, parent |-> Null, i |-> 0, depth |-> 0]
Large(b)      == [fn |-> "recx_large", at |-> "scan", b |-> b, parent |-> Null, i |-> 1, depth |-> 0]

Running(fn, at) == ~overflow /\ stack # <<>> /\ stack[1].fn = fn /\ stack[1].at = at
Top      == stack[1]
Goto(fr) == stack' = <<fr>> \o Tail(stack) /\ UNCHANGED overflow
Return   == stack' = Tail(stack) /\ UNCHANGED overflow
Call(fr, callee) ==
  IF Len(stack) < MaxCalls
  THEN stack' = <<callee, fr>> \o Tail(stack) /\ UNCHANGED overflow
  ELSE overflow' = TRUE /\ UNCHANGED stack

(* kk_block_make_shared: a count of 0 stays 0.                             *)
SharedCount(n) == IF -n <= RC_STICKY_DROP THEN RC_STICKY ELSE -n

(* kk_block_field_should_mark: the child to visit; a leaf is marked here.  *)
Unmarked(b, i)  == IsPtr(field[b][i]) /\ ~IsShared(field[b][i])
IsLeaf(b)       == HeaderScan(b) = 0
ShouldMark(b, i) == Unmarked(b, i) /\ ~IsLeaf(field[b][i])
MarkLeaf(counts, b, i) ==
  IF Unmarked(b, i) /\ IsLeaf(field[b][i])
  THEN [counts EXCEPT ![field[b][i]] = SharedCount(@)] ELSE counts

(* kk_block_mark_idx_prepare, _done, _set and kk_block_mark_idx.           *)
WithIdx(n)    == (IF n > KK_RC_MARK_MAX THEN KK_RC_MARK_MAX ELSE n) * IDX_SPAN
WithoutIdx(n) == IF n \div IDX_SPAN >= KK_RC_MARK_MAX THEN RC_MAX ELSE n \div IDX_SPAN
SetIdx(n, i)  == (n \div IDX_SPAN) * IDX_SPAN + i
Idx(n)        == n % IDX_SPAN

-----------------------------------------------------------------------------
(* kk_block_mark_shared                                                    *)
Mark(b) ==
  /\ stack = <<>> /\ ~overflow
  /\ marked' = marked \cup {b} /\ b \notin marked
  /\ \/ IsShared(b) /\ UNCHANGED <<rc, stack>>
     \/ ~IsShared(b) /\ IsLeaf(b) /\ rc' = [rc EXCEPT ![b] = SharedCount(@)] /\ UNCHANGED stack
     \/ ~IsShared(b) /\ ~IsLeaf(b) /\ stack' = <<Rec(b, 0)>> /\ UNCHANGED rc
  /\ UNCHANGED <<heap, count, field, overflow>>

(* kk_block_mark_shared_rec.  Its callers, and its own loop, have looked   *)
(* whether the block is shared already: it never returns for that reason.  *)
(* The last field is visited by the same call.                             *)
RecTail(b, i, counts) ==
  /\ rc' = MarkLeaf(counts, b, i)
  /\ IF ShouldMark(b, i) THEN Goto([Top EXCEPT !.at = "loop", !.b = field[b][i]])
     ELSE Return

RecOneField ==
  /\ Running("rec", "loop") /\ ~IsShared(Top.b) /\ OneField(Top.b)
  /\ RecTail(Top.b, Size(Top.b) - 1, [rc EXCEPT ![Top.b] = SharedCount(@)])
  /\ UNCHANGED <<heap, count, field, marked>>

RecManyFields ==
  /\ Running("rec", "loop") /\ ~IsShared(Top.b) /\ ~OneField(Top.b)
  /\ IF Top.depth < MAX_RECURSE_DEPTH
     THEN /\ rc' = [rc EXCEPT ![Top.b] = SharedCount(@)]
          /\ Goto([Top EXCEPT !.at = "fields", !.i = IF IsVector(Top.b) THEN 1 ELSE 0])
     ELSE Call([Top EXCEPT !.at = "return"], Recx(Top.b)) /\ UNCHANGED rc
  /\ UNCHANGED <<heap, count, field, marked>>

RecField ==
  /\ Running("rec", "fields")
  /\ IF Top.i = Size(Top.b) - 1 THEN RecTail(Top.b, Top.i, rc)
     ELSE LET next == [Top EXCEPT !.i = @ + 1] IN
            /\ rc' = MarkLeaf(rc, Top.b, Top.i)
            /\ IF ShouldMark(Top.b, Top.i)
               THEN Call(next, Rec(field[Top.b][Top.i], Top.depth + 1)) ELSE Goto(next)
  /\ UNCHANGED <<heap, count, field, marked>>

RecReturn ==
  /\ Running("rec", "return")
  /\ Return
  /\ UNCHANGED <<heap, count, field, rc, marked>>

-----------------------------------------------------------------------------
RecxEnter ==
  /\ Running("recx", "enter")
  /\ IF IsShared(Top.b) \/ IsLeaf(Top.b) THEN Return
     ELSE Goto([Top EXCEPT !.at = "recurse"])
  /\ UNCHANGED <<heap, count, field, rc, marked>>

RecxRecurse ==
  /\ Running("recx", "recurse")
  /\ IF IsVector(Top.b)
     THEN Call([Top EXCEPT !.at = "up"], Large(Top.b)) /\ UNCHANGED rc
     ELSE /\ rc' = [rc EXCEPT ![Top.b] = WithIdx(@)]
          /\ Goto([Top EXCEPT !.at = "scan", !.i = 0])
  /\ UNCHANGED <<heap, count, field, marked>>

RecxVisit ==
  /\ Running("recx", "scan") /\ Top.i < Size(Top.b) /\ ShouldMark(Top.b, Top.i)
  /\ field' = [field EXCEPT ![Top.b][Top.i] = Top.parent]
  /\ rc'    = [rc EXCEPT ![Top.b] = SetIdx(@, Top.i + 1)]
  /\ Goto([Top EXCEPT !.at = "recurse", !.b = field[Top.b][Top.i], !.parent = Top.b])
  /\ UNCHANGED <<heap, count, marked>>

RecxSkip ==
  /\ Running("recx", "scan") /\ Top.i < Size(Top.b) /\ ~ShouldMark(Top.b, Top.i)
  /\ rc' = MarkLeaf(rc, Top.b, Top.i)
  /\ Goto([Top EXCEPT !.i = @ + 1])
  /\ UNCHANGED <<heap, count, field, marked>>

(* Faulty: the index is not taken out of the count.                        *)
RecxScanned_IdxLeft ==
  /\ Running("recx", "scan") /\ Top.i = Size(Top.b)
  /\ rc' = [rc EXCEPT ![Top.b] = SharedCount(@)]
  /\ Goto([Top EXCEPT !.at = "up"])
  /\ UNCHANGED <<heap, count, field, marked>>

RecxScanned ==
  /\ Running("recx", "scan") /\ Top.i = Size(Top.b)
  /\ rc' = [rc EXCEPT ![Top.b] = SharedCount(WithoutIdx(@))]
  /\ Goto([Top EXCEPT !.at = "up"])
  /\ UNCHANGED <<heap, count, field, marked>>

(* Faulty: the field is not restored.                                      *)
RecxUp_NoRestore ==
  /\ Running("recx", "up")
  /\ IF Top.parent = Null THEN Return
     ELSE LET p == Top.parent
              i == Idx(rc[p]) IN
            Goto([Top EXCEPT !.at = "scan", !.b = p, !.i = i, !.parent = field[p][i-1]])
  /\ UNCHANGED <<heap, count, field, rc, marked>>

(* Faulty: the scan of the parent starts over.                             *)
RecxUp_FromStart ==
  /\ Running("recx", "up")
  /\ IF Top.parent = Null THEN Return /\ UNCHANGED field
     ELSE LET p == Top.parent
              i == Idx(rc[p]) IN
            /\ field' = [field EXCEPT ![p][i-1] = Top.b]
            /\ Goto([Top EXCEPT !.at = "scan", !.b = p, !.i = 0, !.parent = field[p][i-1]])
  /\ UNCHANGED <<heap, count, rc, marked>>

RecxUp ==
  /\ Running("recx", "up")
  /\ IF Top.parent = Null THEN Return /\ UNCHANGED field
     ELSE LET p == Top.parent
              i == Idx(rc[p]) IN
            /\ field' = [field EXCEPT ![p][i-1] = Top.b]
            /\ Goto([Top EXCEPT !.at = "scan", !.b = p, !.i = i, !.parent = field[p][i-1]])
  /\ UNCHANGED <<heap, count, rc, marked>>

(* For an element to visit the code calls recx for the vector itself.      *)
LargeField ==
  /\ Running("recx_large", "scan") /\ Top.i < Size(Top.b)
  /\ rc' = MarkLeaf(rc, Top.b, Top.i)
  /\ LET next == [Top EXCEPT !.i = @ + 1] IN
       IF ShouldMark(Top.b, Top.i) THEN Call(next, Recx(Top.b)) ELSE Goto(next)
  /\ UNCHANGED <<heap, count, field, marked>>

LargeScanned ==
  /\ Running("recx_large", "scan") /\ Top.i = Size(Top.b)
  /\ rc' = [rc EXCEPT ![Top.b] = SharedCount(@)]
  /\ Return
  /\ UNCHANGED <<heap, count, field, marked>>

Step ==
  \/ RecOneField \/ RecManyFields \/ RecField \/ RecReturn
  \/ RecxEnter \/ RecxRecurse \/ RecxVisit \/ RecxSkip \/ RecxScanned \/ RecxUp
  \/ LargeField \/ LargeScanned

Next == Step \/ \E b \in Entries : Mark(b)

Spec     == Init /\ [][Next]_vars
FairSpec == Spec /\ WF_vars(Step)

-----------------------------------------------------------------------------
Idle == stack = <<>> /\ ~overflow

(* The blocks that S leads to: the least set with S and what it refers to. *)
Children(h, b) == {h[b][i] : i \in DOMAIN h[b]} \cap Blocks
ReachableFrom(h, S) ==
  {b \in Blocks : \A C \in SUBSET Blocks :
                    S \subseteq C /\ (\A p \in C : Children(h, p) \subseteq C) => b \in C}

(* The variables range over the values the code can give them.             *)
TypeOK ==
  /\ \A b \in Blocks : rc[b] \in STUCK..RC_MAX /\ DOMAIN field[b] = DOMAIN heap[b]
  /\ Len(stack) <= MaxCalls
  /\ \A k \in DOMAIN stack :
       stack[k].at \in {"scan", "fields"} => stack[k].i <= Size(stack[k].b)

(* When marking returns, every block that can be reached from the marked   *)
(* ones and has more than one reference is thread-shared with as many      *)
(* references as before, or sticky when it had too many to hold the index; *)
(* no other block has changed, and none that was shared before.            *)
MarkedExactly ==
  Idle => LET reached == ReachableFrom(heap, marked)
          IN \A b \in Blocks :
               IF b \in reached /\ count[b] >= 0
               THEN \/ rc[b] = SharedCount(count[b])
                    \/ rc[b] = RC_STICKY /\ count[b] >= KK_RC_MARK_MAX
               ELSE rc[b] = count[b]

(* At any time, the heap can be restored: each block on the parent chain   *)
(* of a call of recx holds the link to the next one in the field through   *)
(* which its child was reached, and every other field is untouched; when    *)
(* marking has returned, every field is what it was.                       *)
Through(p) == Idx(rc[p]) - 1
Link(p) == IF Through(p) \in DOMAIN field[p] THEN field[p][Through(p)] ELSE Null
Restores(p, b) == p = Null \/ (Through(p) \in DOMAIN heap[p] /\ heap[p][Through(p)] = b)

ReversalConsistent ==
  LET calls  == {k \in DOMAIN stack : stack[k].fn = "recx"}
      starts == {stack[k].parent : k \in calls} \ {Null}
      chain  == {p \in Blocks : \A C \in SUBSET Blocks :
                   starts \subseteq C /\ (\A q \in C : Link(q) \in C \cup {Null}) => p \in C}
  IN /\ \A k \in calls : Restores(stack[k].parent, stack[k].b)
     /\ \A p \in chain : Restores(Link(p), p)
     /\ \A b \in Blocks : \A i \in DOMAIN heap[b] :
          field[b][i] # heap[b][i] => b \in chain /\ i = Through(b)

(* Marking comes to its end.                                               *)
MarkReturns == stack # <<>> ~> Idle
=============================================================================
