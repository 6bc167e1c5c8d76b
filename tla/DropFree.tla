------------------------------ MODULE DropFree ------------------------------
(***************************************************************************)
(* Freeing a block and its children without using stack space              *)
(* (kklib/src/refcount.c: kk_block_fast_drop_free,                         *)
(* kk_block_drop_free_recx, kk_block_drop_free_large_rec).                 *)
(*                                                                         *)
(* A block is a function from field positions (from 0) to its contents.    *)
(* The blocks being freed form a parent chain: the first field of a block  *)
(* is overwritten with a link to its parent and its header remembers the   *)
(* next field to release.  Only large vectors, whose first field holds     *)
(* their length, take a C stack frame; so do calls in progress.            *)
(*                                                                         *)
(* One thread frees; counts of thread-shared blocks are in Refcount.       *)
(***************************************************************************)
EXTENDS Integers, Sequences, FiniteSets

CONSTANTS
  Blocks,   (* the blocks of the heap                                      *)
  Slots,    (* the positions of fields                                     *)
  Heaps,    (* the heaps to start from: [Blocks -> field contents]         *)
  RootSets, (* the sets of references the program may hold at first        *)
  Statics,  (* the sets of blocks that may be static data                  *)
  Null,     (* the link of a block without parent; not a block             *)
  Val,      (* a field that holds no reference                             *)
  Length    (* the first field of a large vector, which is no reference    *)

STUCK == -1                   (* the count of static data                  *)
KK_SCAN_FSIZE_MAX == 255      (* in the header of a large vector           *)

VARIABLES
  heap,     (* the fields as the program left them; never changes          *)
  roots,    (* the blocks the program holds a reference to                 *)
  rc,       (* reference counts                                            *)
  field,    (* the fields in memory                                        *)
  idx,      (* header._field_idx                                           *)
  frees,    (* how often each block was passed to kk_free                  *)
  stack,    (* the C stack, the running function first                     *)
  ret       (* the result of the last kk_block_fast_drop_free              *)

(* A block has the fields 0..n-1; all but a large vector have fewer than   *)
(* the header of a large vector says.                                      *)
Wellformed(h) ==
  /\ h \in [Blocks -> {h[b] : b \in Blocks}]
  /\ \A b \in Blocks :
       /\ h[b] \in [DOMAIN h[b] -> Blocks \cup {Val, Length}]
       /\ DOMAIN h[b] \subseteq Slots
       /\ \E n \in 0..Cardinality(Slots) :
            /\ DOMAIN h[b] = 0..(n - 1)
            /\ n < KK_SCAN_FSIZE_MAX \/ h[b][0] = Length

ASSUME DropAssumption ==
  /\ IsFiniteSet(Blocks) /\ IsFiniteSet(Slots)
  /\ Null \notin Blocks /\ Val \notin Blocks /\ Length \notin Blocks
  /\ \A h \in Heaps : Wellformed(h)
  /\ \A roots0 \in RootSets : roots0 \subseteq Blocks
  /\ \A static \in Statics : static \subseteq Blocks

links == <<field, idx>>
vars  == <<heap, roots, rc, links, frees, stack, ret>>

Size(b)       == Cardinality(DOMAIN heap[b])
IsVector(b)   == 0 \in DOMAIN heap[b] /\ heap[b][0] = Length
HeaderScan(b) == IF IsVector(b) THEN KK_SCAN_FSIZE_MAX ELSE Size(b)
IsPtr(v)      == v \in Blocks
RefsTo(c) ==
  {r \in Blocks \X Slots : r[2] \in DOMAIN heap[r[1]] /\ heap[r[1]][r[2]] = c}

Init ==
  /\ heap \in Heaps
  /\ roots \in RootSets
  /\ \E static \in Statics :
       rc = [b \in Blocks |->
               IF b \in static THEN STUCK
               ELSE Cardinality(RefsTo(b)) + (IF b \in roots THEN 1 ELSE 0) - 1]
  /\ \A b \in Blocks : RefsTo(b) # {} \/ b \in roots
  /\ field = heap
  /\ idx   = [b \in Blocks |-> 0]
  /\ frees = [b \in Blocks |-> 0]
  /\ stack = <<>>
  /\ ret   = Null

-----------------------------------------------------------------------------
(* The two functions with a frame; at is where they continue.              *)
Fast(b)  == [fn |-> "fast_drop_free", at |-> "start", b |-> b, parent |-> Null, i |-> 0]
Recx(b)  == [fn |-> "recx", at |-> "down", b |-> b, parent |-> Null, i |-> 0]
Large(b) == [fn |-> "large_rec", at |-> "scan", b |-> b, parent |-> Null, i |-> 1]
DropFreeFrame(b) ==
  [fn |-> "drop_free", at |-> "child", b |-> b, parent |-> Null, i |-> 0]

Running(fn, at) == stack # <<>> /\ stack[1].fn = fn /\ stack[1].at = at
Top      == stack[1]
Goto(fr) == stack' = <<fr>> \o Tail(stack)
Call(fr, callee) == stack' = <<callee, fr>> \o Tail(stack)
Return   == stack' = Tail(stack)

(* MaxFrees bounds the history: 2 stands for any number of further frees.  *)
MaxFrees == 2
FreeBlock(b) == frees' = [frees EXCEPT ![b] = IF @ < MaxFrees THEN @ + 1 ELSE @]

(* kk_block_decref_no_free: the count after it, and whether no reference   *)
(* is left.                                                                *)
Decref(b)  == rc' = IF rc[b] > 0 THEN [rc EXCEPT ![b] = @ - 1] ELSE rc
LastRef(b) == rc[b] = 0

(* Field i of b refers to a block that must now be freed.                  *)
ShouldFree(b, i) == IsPtr(field[b][i]) /\ LastRef(field[b][i])
DecrefField(b, i) == IF IsPtr(field[b][i]) THEN Decref(field[b][i]) ELSE UNCHANGED rc

(* Goes on at fr, after fast_drop_free when the child must be freed.       *)
CallIfLast(fr, i) ==
  IF ShouldFree(fr.b, i) THEN Call(fr, Fast(field[fr.b][i])) ELSE Goto(fr)

(* The blocks with at most one field to release, which are freed at once.  *)
OneField(b) ==
  \/ HeaderScan(b) = 1
  \/ HeaderScan(b) = 2 /\ ~IsPtr(field[b][0])
LastField(b) == Size(b) - 1

-----------------------------------------------------------------------------
(* kk_block_drop of a reference the program holds.                         *)
DropRoot(b) ==
  /\ stack = <<>> /\ b \in roots
  /\ roots' = roots \ {b}
  /\ Decref(b)
  /\ stack' = IF LastRef(b) THEN <<Fast(b), DropFreeFrame(b)>> ELSE <<>>
  /\ UNCHANGED <<heap, links, frees, ret>>

DropFreeReturns ==
  /\ Running("drop_free", "child")
  /\ IF ret = Null THEN Return ELSE Goto(Recx(ret))
  /\ ret' = Null
  /\ UNCHANGED <<heap, roots, rc, links, frees>>

(* kk_block_fast_drop_free: it frees leaves, follows single references,    *)
(* and returns any other block unfreed.                                    *)
FastLeaf ==
  /\ Running("fast_drop_free", "start") /\ HeaderScan(Top.b) = 0
  /\ FreeBlock(Top.b)
  /\ Return
  /\ UNCHANGED <<heap, roots, rc, links, ret>>

FastOneField ==
  /\ Running("fast_drop_free", "start") /\ OneField(Top.b)
  /\ LET f == LastField(Top.b) IN
       /\ DecrefField(Top.b, f)
       /\ ret' = IF ShouldFree(Top.b, f) THEN field[Top.b][f] ELSE Null
  /\ Goto([Top EXCEPT !.at = "one"])
  /\ UNCHANGED <<heap, roots, links, frees>>

FastOneFieldFree ==
  /\ Running("fast_drop_free", "one")
  /\ FreeBlock(Top.b)
  /\ IF ret = Null THEN Return ELSE Goto(Fast(ret))
  /\ ret' = Null
  /\ UNCHANGED <<heap, roots, rc, links>>

FastOther ==
  /\ Running("fast_drop_free", "start")
  /\ HeaderScan(Top.b) # 0 /\ ~OneField(Top.b)
  /\ ret' = Top.b
  /\ Return
  /\ UNCHANGED <<heap, roots, rc, links, frees>>

(* kk_block_drop_free_recx at move_down, where it chooses by the shape of  *)
(* the block.  Its own cases for blocks with one field are never taken:    *)
(* all its blocks come out of fast_drop_free, which keeps those.  If one   *)
(* arrived, it would find no step here, and DropReturns would fail.        *)
RecxDown ==
  /\ Running("recx", "down") /\ ~OneField(Top.b)
  /\ IF HeaderScan(Top.b) = KK_SCAN_FSIZE_MAX THEN Call([Top EXCEPT !.at = "up"], Large(Top.b))
     ELSE Goto([Top EXCEPT !.at = "scan", !.i = 0])
  /\ UNCHANGED <<heap, roots, rc, links, frees, ret>>

(* One field of the loops in recx and large_rec.                           *)
ScanField ==
  /\ Running("recx", "scan") \/ Running("large_rec", "scan")
  /\ Top.i < Size(Top.b)
  /\ DecrefField(Top.b, Top.i)
  /\ CallIfLast([Top EXCEPT !.at = "child", !.i = @ + 1], Top.i)
  /\ UNCHANGED <<heap, roots, links, frees, ret>>

RecxNextField ==
  /\ Running("recx", "child") /\ ret = Null
  /\ IF Top.i < Size(Top.b)
     THEN Goto([Top EXCEPT !.at = "scan"]) /\ UNCHANGED frees
     ELSE Goto([Top EXCEPT !.at = "up"]) /\ FreeBlock(Top.b)
  /\ UNCHANGED <<heap, roots, rc, links, ret>>

(* Faulty: a call for each child, as for the elements of a vector.         *)
RecxPushParent_Call ==
  /\ Running("recx", "child") /\ ret # Null /\ Top.i < Size(Top.b)
  /\ Call([Top EXCEPT !.at = "scan"], Recx(ret))
  /\ ret' = Null
  /\ UNCHANGED <<heap, roots, rc, links, frees>>

RecxPushParent ==
  /\ Running("recx", "child") /\ ret # Null /\ Top.i < Size(Top.b)
  /\ field' = [field EXCEPT ![Top.b][0] = Top.parent]
  /\ idx'   = [idx EXCEPT ![Top.b] = Top.i]
  /\ Goto([Top EXCEPT !.at = "down", !.b = ret, !.parent = Top.b])
  /\ ret' = Null
  /\ UNCHANGED <<heap, roots, rc, frees>>

(* Faulty: the freed block becomes the parent of its last child.           *)
RecxLastField_AsParent ==
  /\ Running("recx", "child") /\ ret # Null /\ Top.i = Size(Top.b)
  /\ FreeBlock(Top.b)
  /\ Goto([Top EXCEPT !.at = "down", !.b = ret, !.parent = Top.b])
  /\ ret' = Null
  /\ UNCHANGED <<heap, roots, rc, links>>

(* Faulty: the parent of the freed block is forgotten.                     *)
RecxLastField_NoParent ==
  /\ Running("recx", "child") /\ ret # Null /\ Top.i = Size(Top.b)
  /\ FreeBlock(Top.b)
  /\ Goto([Top EXCEPT !.at = "down", !.b = ret, !.parent = Null])
  /\ ret' = Null
  /\ UNCHANGED <<heap, roots, rc, links>>

(* The last child takes the place of the freed block under its parent.     *)
RecxLastField ==
  /\ Running("recx", "child") /\ ret # Null /\ Top.i = Size(Top.b)
  /\ FreeBlock(Top.b)
  /\ Goto([Top EXCEPT !.at = "down", !.b = ret])
  /\ ret' = Null
  /\ UNCHANGED <<heap, roots, rc, links>>

(* Faulty: the parent is not unlinked when its scan goes on.               *)
RecxUp_KeepParent ==
  /\ Running("recx", "up")
  /\ IF Top.parent = Null THEN Return
     ELSE Goto([Top EXCEPT !.at = "scan", !.b = Top.parent, !.i = idx[Top.parent]])
  /\ UNCHANGED <<heap, roots, rc, links, frees, ret>>

RecxUp ==
  /\ Running("recx", "up")
  /\ IF Top.parent = Null THEN Return
     ELSE Goto([Top EXCEPT !.at = "scan", !.b = Top.parent, !.i = idx[Top.parent],
                           !.parent = field[Top.parent][0]])
  /\ UNCHANGED <<heap, roots, rc, links, frees, ret>>

(* Faulty: the recursive call for an element of a vector frees in the      *)
(* frame of the vector, as the other loop does.                            *)
LargeChild_InPlace ==
  /\ Running("large_rec", "child")
  /\ Goto(IF ret = Null THEN [Top EXCEPT !.at = "scan"] ELSE Recx(ret))
  /\ ret' = Null
  /\ UNCHANGED <<heap, roots, rc, links, frees>>

(* kk_block_drop_free_large_rec calls recx for each element to free.       *)
LargeChild ==
  /\ Running("large_rec", "child")
  /\ LET next == [Top EXCEPT !.at = "scan"] IN
       IF ret = Null THEN Goto(next) ELSE Call(next, Recx(ret))
  /\ ret' = Null
  /\ UNCHANGED <<heap, roots, rc, links, frees>>

LargeFree ==
  /\ Running("large_rec", "scan") /\ Top.i = Size(Top.b)
  /\ FreeBlock(Top.b)
  /\ Return
  /\ UNCHANGED <<heap, roots, rc, links, ret>>

Step ==
  \/ DropFreeReturns
  \/ FastLeaf \/ FastOneField \/ FastOneFieldFree \/ FastOther
  \/ RecxDown
  \/ ScanField \/ RecxNextField \/ RecxPushParent \/ RecxLastField \/ RecxUp
  \/ LargeChild \/ LargeFree

Next == Step \/ \E b \in Blocks : DropRoot(b)

Spec     == Init /\ [][Next]_vars
FairSpec == Spec /\ WF_vars(Step)

-----------------------------------------------------------------------------
(* The blocks being freed, and the fields of each that are still to be     *)
(* released: known from its frame, from the result on its way to a caller, *)
(* or for a block in the parent chain from its header.                     *)
Frames(b) ==
  {k \in DOMAIN stack :
     stack[k].b = b /\ stack[k].fn # "drop_free" /\ stack[k].at # "up"}
Dying == {b \in Blocks : frees[b] = 0 /\ (Frames(b) # {} \/ ret = b \/ idx[b] > 0)}

TodoOf(b) ==
  IF \E k \in Frames(b) : stack[k].at \in {"scan", "child"}
  THEN LET k == CHOOSE k \in Frames(b) : TRUE IN stack[k].i..LastField(b)
  ELSE IF \E k \in Frames(b) : stack[k].at = "one" THEN {}
  ELSE idx[b]..LastField(b)

EdgeOf(r) ==
  IF r[2] \in DOMAIN heap[r[1]] /\ IsPtr(heap[r[1]][r[2]]) THEN heap[r[1]][r[2]] ELSE Val

Recursion == INSTANCE RecursiveDrop WITH
  None  <- Val,
  edge  <- [r \in Blocks \X Slots |-> EdgeOf(r)],
  state <- [b \in Blocks |-> IF frees[b] > 0 THEN "freed"
                             ELSE IF b \in Dying THEN "dying" ELSE "live"],
  todo  <- {r \in Blocks \X Slots :
              r[1] \in Dying /\ EdgeOf(r) # Val /\ r[2] \in TodoOf(r[1])}

(* The stackless algorithm releases each reference once and frees each     *)
(* block when its last reference is gone and its fields are released, as   *)
(* the recursive definition of drop does.                                  *)
DropsLikeRecursion == Recursion!Spec

(* The variables range over the values the code can give them.             *)
TypeOK ==
  /\ roots \subseteq Blocks
  /\ \A b \in Blocks :
       /\ rc[b] \in Nat \cup {STUCK}
       /\ DOMAIN field[b] = DOMAIN heap[b] /\ idx[b] \in 0..Size(b)
       /\ frees[b] \in {0, 1}
  /\ ret \in Blocks \cup {Null}

(* No freed block is on the way to be scanned again: not in a frame, not   *)
(* as a parent, not in the chain of parent links, not as a result.         *)
NoUseAfterFree ==
  /\ \A b \in Blocks : frees[b] > 0 => Frames(b) = {} /\ ret # b
  /\ \A k \in DOMAIN stack : IsPtr(stack[k].parent) => frees[stack[k].parent] = 0
  /\ \A b \in Blocks : b \in Dying /\ idx[b] > 0 /\ IsPtr(field[b][0]) =>
       frees[field[b][0]] = 0

(* The C stack holds drop_free, one more frame, and two for each large     *)
(* vector being freed: chains and trees of other blocks take none.         *)
StackBounded ==
  LET open == {k \in DOMAIN stack : stack[k].fn = "large_rec"} IN
    Len(stack) <= 2 + 2 * Cardinality(open)

(* When a drop returns nothing is left behind: every block that was not    *)
(* freed is held by the program, by another such block, or static.         *)
NothingLeftBehind ==
  stack = <<>> =>
    \A c \in Blocks :
      frees[c] = 0 /\ rc[c] # STUCK =>
        c \in roots \/ \E r \in RefsTo(c) : frees[r[1]] = 0

(* A drop that frees comes to its end.                                     *)
DropReturns == stack # <<>> ~> stack = <<>>
=============================================================================
