---------------------------- MODULE RecursiveDrop ----------------------------
(***************************************************************************)
(* What dropping a reference promises, whatever order the children are     *)
(* visited in and however the order is remembered: a block whose last      *)
(* reference is released starts dying, each reference in its fields is     *)
(* released once, and then its memory is freed                             *)
(* (kklib/include/kklib.h, kk_block_drop; kklib/src/refcount.c,            *)
(* kk_block_decref_no_free).  DropFree describes how the library does it.  *)
(***************************************************************************)
EXTENDS Integers, FiniteSets

CONSTANTS
  Blocks,   (* the blocks of the heap                                      *)
  Slots,    (* positions of fields in a block                              *)
  None      (* the content of a field that is no reference to a block      *)

(* What the theorems assume of a heap.                                     *)
HeapAssumption ==
  /\ IsFiniteSet(Blocks) /\ IsFiniteSet(Slots)
  /\ None \notin Blocks

VARIABLES
  edge,     (* the heap: the block each field refers to; never changes     *)
  roots,    (* the blocks the program holds a reference to                 *)
  state,    (* "live", "dying" or "freed"                                  *)
  todo,     (* fields of dying blocks still to be released                 *)
  rc        (* reference counts: one less than the references              *)

vars == <<edge, roots, state, todo, rc>>

STUCK  == -1                            (* the count of static data        *)
Fields == Blocks \X Slots
Out(b) == {r \in Fields : r[1] = b /\ edge[r] # None}

(* The references that count: those in live blocks, and those in dying     *)
(* blocks that were not released yet.                                      *)
RefsTo(c) ==
  {r \in Fields : edge[r] = c /\ (state[r[1]] = "live" \/ r \in todo)}
RootOf(c) == IF c \in roots THEN 1 ELSE 0

Init ==
  /\ edge \in [Fields -> Blocks \cup {None}]
  /\ roots \in SUBSET Blocks
  /\ state = [b \in Blocks |-> "live"]
  /\ todo = {}
  /\ \E static \in SUBSET Blocks :
       rc = [b \in Blocks |-> IF b \in static THEN STUCK
                              ELSE Cardinality(RefsTo(b)) + RootOf(b) - 1]
  /\ \A b \in Blocks : rc[b] = STUCK => RefsTo(b) # {} \/ b \in roots

(* A reference to c is released; rest are the other fields to release.     *)
Release(c, rest) ==
  \/ rc[c] = STUCK /\ todo' = rest /\ UNCHANGED <<state, rc>>
  \/ rc[c] > 0 /\ todo' = rest /\ rc' = [rc EXCEPT ![c] = @ - 1] /\ UNCHANGED state
  \/ /\ rc[c] = 0 /\ todo' = rest \cup Out(c)
     /\ state' = [state EXCEPT ![c] = "dying"] /\ UNCHANGED rc

DropRoot(c) ==
  /\ c \in roots
  /\ roots' = roots \ {c}
  /\ Release(c, todo)
  /\ UNCHANGED edge

ReleaseField(r) ==
  /\ r \in todo
  /\ Release(edge[r], todo \ {r})
  /\ UNCHANGED <<edge, roots>>

Free(b) ==
  /\ state[b] = "dying"
  /\ \A r \in todo : r[1] # b
  /\ state' = [state EXCEPT ![b] = "freed"]
  /\ UNCHANGED <<edge, roots, todo, rc>>

Next ==
  \/ \E b \in Blocks : DropRoot(b) \/ Free(b)
  \/ \E r \in Fields : ReleaseField(r)

Spec == Init /\ [][Next]_vars

-----------------------------------------------------------------------------
(* The variables range over the values the code can give them.             *)
TypeOK ==
  /\ edge \in [Fields -> Blocks \cup {None}]
  /\ roots \in SUBSET Blocks
  /\ state \in [Blocks -> {"live", "dying", "freed"}]
  /\ todo \in SUBSET Fields
  /\ rc \in [Blocks -> Nat \cup {STUCK}]

(* The count of a live block is one less than the references to it, those  *)
(* in the unreleased fields of dying blocks included.                      *)
CountExact ==
  \A c \in Blocks :
    state[c] = "live" /\ rc[c] # STUCK =>
      rc[c] + 1 = Cardinality(RefsTo(c)) + RootOf(c)

(* No reference that will still be used leads to a dying or freed block.   *)
NoDangling ==
  \A c \in Blocks :
    state[c] # "live" => RefsTo(c) = {} /\ c \notin roots

(* When no block is dying, every counted block is held by the program or   *)
(* by a live block: dropping leaves no garbage behind.                     *)
NoGarbage ==
  (\A b \in Blocks : state[b] # "dying") =>
    \A c \in Blocks :
      state[c] = "live" /\ rc[c] # STUCK => c \in roots \/ RefsTo(c) # {}

(* Only the fields of dying blocks are to be released.                     *)
TodoDying ==
  \A r \in todo : state[r[1]] = "dying" /\ edge[r] # None

(* Dying blocks had counts of 0; static data does not die.                 *)
DeadCounts ==
  \A c \in Blocks : state[c] # "live" => rc[c] = 0

IInv == TypeOK /\ TodoDying /\ DeadCounts /\ CountExact /\ NoDangling
=============================================================================
