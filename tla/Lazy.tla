------------------------------- MODULE Lazy -------------------------------
(* Lazy values (kklib/src/lazy.c, include/kklib/lazy.h) together with the   *)
(* code that the compiler generates around them (Kind/Infer.hs, ParcReuse). *)
(* A thunk is a block whose tag says how far it is: lazy, evaluated in      *)
(* place (whnf), or an indirection to another value.  To force it a thread  *)
(* blocks it in its header, evaluates it, overwrites tag and fields, and    *)
(* unblocks it.  The tag, the blocked mark and the reference count are one  *)
(* word: compare-and-swap fails when any of them has changed.               *)
EXTENDS Integers, Sequences, FiniteSets

CONSTANTS
    Threads, Blocks, None,
    Heaps     \* the heaps to start with, records of
              \*   arg:    [Blocks -> Blocks \cup {None}], what a thunk holds
              \*   next:   the thunks whose value is that of their argument;
              \*           the others force it and become a constructor
              \*   todo:   [Threads -> Seq(Blocks)], what each thread forces
              \*   shared: is the heap thread-shared?

ASSUME LazyAssumption ==
    /\ IsFiniteSet(Threads) /\ IsFiniteSet(Blocks) /\ None \notin Blocks
    /\ Heaps \subseteq [arg : [Blocks -> Blocks \cup {None}], next : SUBSET Blocks,
                        todo : [Threads -> Seq(Blocks)], shared : BOOLEAN]
    /\ \A h \in Heaps :
         /\ \A b \in h.next : h.arg[b] # None
         /\ ~h.shared => \A t, u \in Threads : h.todo[t] # <<>> /\ h.todo[u] # <<>> => t = u

VARIABLES
    heap,     \* the heap that was started with
    hdr,      \* [Blocks -> header]: tag, blocked, rc (the number of references)
    field,    \* the field of each block
    evals,    \* how often each thunk was evaluated
    stack,    \* the frames of each thread, the running one first
    todo      \* what each thread has still to force

vars == <<heap, hdr, field, evals, stack, todo>>
data == <<heap, hdr, field, evals, todo>>

Tag(b) == hdr[b].tag
Unique(b) == ~heap.shared /\ hdr[b].rc = 1
With(b, n) == [hdr EXCEPT ![b].rc = @ + n]
Blocked(b, x) == [hdr EXCEPT ![b].blocked = x]
Freed(b) == [hdr EXCEPT ![b].tag = "free", ![b].rc = 0]

(* A frame forces b: own references to b are its own, res is the result or  *)
(* the forced argument, lock says whether it blocked b, and h is the header *)
(* or the value it has loaded.                                              *)
Frame(b, at) == [b |-> b, at |-> at, own |-> 1, res |-> None, lock |-> FALSE, h |-> None]
Top(t) == Head(stack[t])
At(t, at) == stack[t] # <<>> /\ Top(t).at = at
Set(t, f) == stack' = [stack EXCEPT ![t] = <<f>> \o Tail(@)]
Go(t, at) == Set(t, [Top(t) EXCEPT !.at = at])
Push(t, b, at, f) == stack' = [stack EXCEPT ![t] = <<Frame(b, at), f>> \o Tail(@)]
EvalDone(f) == IF f.lock THEN "leave" ELSE "return"

(* The references to b: what threads will force, frames, and fields.  Those *)
(* of a thread are numbered from its last frame, which keeps its number.    *)
FromLast(s, n) == s[Len(s) + 1 - n]
TodoRefs(t, b) == {<<"todo", t, n, 0>> : n \in {n \in DOMAIN todo[t] : FromLast(todo[t], n) = b}}
FrameRefs(t, n, f, b) == {<<"own", t, n, k>> : k \in {k \in 1 .. f.own : f.b = b}}
                           \cup {r \in {<<"res", t, n, 0>>} : f.res = b}
StackRefs(t, b) == UNION {FrameRefs(t, n, FromLast(stack[t], n), b) : n \in DOMAIN stack[t]}
FieldRefs(b) == {<<"field", c, 0, 0>> : c \in {c \in Blocks : field[c] = b}}
Refs(b) == Cardinality((UNION {TodoRefs(t, b) \cup StackRefs(t, b) : t \in Threads}) \cup FieldRefs(b))

Init ==
    /\ heap \in Heaps
    /\ field = heap.arg
    /\ todo = heap.todo
    /\ evals = [b \in Blocks |-> 0]
    /\ stack = [t \in Threads |-> <<>>]
    /\ hdr = [b \in Blocks |-> [tag |-> "lazy", blocked |-> FALSE, rc |-> Refs(b)]]

Begin(t) ==
    /\ stack[t] = <<>> /\ todo[t] # <<>>
    /\ stack' = [stack EXCEPT ![t] = <<Frame(Head(todo[t]), "force")>>]
    /\ todo' = [todo EXCEPT ![t] = Tail(@)]
    /\ UNCHANGED <<heap, hdr, field, evals>>

(* The inlined test of lazy-force. *)
ForceValue(t) ==
    /\ At(t, "force")
    /\ IF Tag(Top(t).b) = "whnf"
         THEN Set(t, [Top(t) EXCEPT !.at = "return", !.own = 0, !.res = Top(t).b])
         ELSE Go(t, "eval")
    /\ UNCHANGED data

(* lazy-eval: a unique thunk needs no mark; an unshared one is marked with  *)
(* a plain store, whatever its tag.                                         *)
EvalUnshared(t) ==
    /\ At(t, "eval") /\ ~heap.shared
    /\ LET b == Top(t).b IN
       \/ Unique(b) /\ Go(t, "match") /\ UNCHANGED hdr
       \/ /\ ~Unique(b) /\ ~hdr[b].blocked
          /\ hdr' = Blocked(b, TRUE)
          /\ Set(t, [Top(t) EXCEPT !.at = "dup", !.lock = TRUE])
    /\ UNCHANGED <<heap, field, evals, todo>>

(* What kk_lazy_atomic_thread_enter does with the header it has loaded. *)
Decide(t) ==
    LET h == hdr[Top(t).b] IN
    Set(t, [Top(t) EXCEPT !.h = h, !.at = IF h.tag # "lazy" THEN "match"
                                          ELSE IF h.blocked THEN "wait" ELSE "cas"])

EnterLoad(t) ==
    /\ At(t, "eval") /\ (heap.shared \/ (~Unique(Top(t).b) /\ hdr[Top(t).b].blocked))
    /\ Decide(t)
    /\ UNCHANGED data

EnterRetry(t) ==
    /\ At(t, "cas") /\ hdr[Top(t).b] # Top(t).h
    /\ Decide(t)
    /\ UNCHANGED data

(* Faulty: the mark is stored without comparing. *)
EnterCas_Store(t) ==
    /\ At(t, "cas")
    /\ hdr' = Blocked(Top(t).b, TRUE)
    /\ Set(t, [Top(t) EXCEPT !.at = "dup", !.lock = TRUE])
    /\ UNCHANGED <<heap, field, evals, todo>>

EnterCas(t) ==
    /\ At(t, "cas") /\ hdr[Top(t).b] = Top(t).h
    /\ hdr' = Blocked(Top(t).b, TRUE)
    /\ Set(t, [Top(t) EXCEPT !.at = "dup", !.lock = TRUE])
    /\ UNCHANGED <<heap, field, evals, todo>>

Wait(t) ==
    /\ At(t, "wait") /\ ~hdr[Top(t).b].blocked
    /\ Go(t, "match")
    /\ UNCHANGED data

(* The reference that lazy/atomic-leave will drop. *)
DupSelf(t) ==
    /\ At(t, "dup")
    /\ hdr' = With(Top(t).b, 1)
    /\ Set(t, [Top(t) EXCEPT !.at = "match", !.own = 2])
    /\ UNCHANGED <<heap, field, evals, todo>>

(* lazy-eval-locked *)
MatchWhnf(t) ==
    /\ At(t, "match") /\ Tag(Top(t).b) = "whnf"
    /\ Set(t, [Top(t) EXCEPT !.at = EvalDone(Top(t)), !.own = @ - 1, !.res = Top(t).b])
    /\ UNCHANGED data

(* An indirection: its field is moved out of it or duplicated. *)
MatchIndirect(t) ==
    /\ At(t, "match") /\ Tag(Top(t).b) = "ind"
    /\ LET b == Top(t).b IN
       IF Unique(b)
         THEN /\ hdr' = Freed(b) /\ field' = [field EXCEPT ![b] = None]
              /\ Set(t, [Top(t) EXCEPT !.at = "compress", !.own = 0, !.res = field[b]])
         ELSE /\ hdr' = With(field[b], 1) /\ UNCHANGED field
              /\ Set(t, [Top(t) EXCEPT !.at = "ind_decref", !.res = field[b]])
    /\ UNCHANGED <<heap, evals, todo>>

(* kk_block_decref frees the last reference but not the field with it. *)
IndirectDecref(t) ==
    /\ At(t, "ind_decref")
    /\ LET b == Top(t).b IN
       IF hdr[b].rc = 1
         THEN hdr' = Freed(b) /\ field' = [field EXCEPT ![b] = None]
         ELSE hdr' = With(b, -1) /\ UNCHANGED field
    /\ Set(t, [Top(t) EXCEPT !.at = "compress", !.own = @ - 1])
    /\ UNCHANGED <<heap, evals, todo>>

(* A thunk that was blocked, or is unique, is evaluated: it may force its   *)
(* argument first.                                                          *)
MatchLazy(t) ==
    /\ At(t, "match") /\ Tag(Top(t).b) = "lazy"
    /\ LET b == Top(t).b IN
       /\ evals' = [evals EXCEPT ![b] = @ + 1]
       /\ IF b \in heap.next
            THEN IF Unique(b)
                   THEN /\ hdr' = Freed(b) /\ field' = [field EXCEPT ![b] = None]
                        /\ Set(t, [Top(t) EXCEPT !.at = "return", !.own = 0, !.res = field[b]])
                   ELSE Go(t, "tag") /\ UNCHANGED <<hdr, field>>
            ELSE /\ UNCHANGED hdr
                 /\ IF field[b] = None
                      THEN Go(t, "tag") /\ UNCHANGED field
                      ELSE /\ field' = [field EXCEPT ![b] = None]
                           /\ Push(t, field[b], "force", [Top(t) EXCEPT !.at = "tag"])
    /\ UNCHANGED <<heap, todo>>

(* lazy/memoize stores the tag before the fields. *)
SetTag(t) ==
    /\ At(t, "tag")
    /\ hdr' = [hdr EXCEPT ![Top(t).b].tag = IF Top(t).b \in heap.next THEN "ind" ELSE "whnf"]
    /\ Go(t, "field")
    /\ UNCHANGED <<heap, field, evals, todo>>

SetField(t) ==
    /\ At(t, "field")
    /\ LET b == Top(t).b IN
       IF b \in heap.next
         THEN Go(t, "share") /\ UNCHANGED field
         ELSE /\ field' = [field EXCEPT ![b] = Top(t).res]
              /\ Set(t, [Top(t) EXCEPT !.at = EvalDone(Top(t)), !.own = @ - 1, !.res = b])
    /\ UNCHANGED <<heap, hdr, evals, todo>>

(* The value of an indirection is duplicated, the thunk released. *)
Share(t) ==
    /\ At(t, "share")
    /\ hdr' = With(field[Top(t).b], 1)
    /\ Set(t, [Top(t) EXCEPT !.at = "decref", !.res = field[Top(t).b]])
    /\ UNCHANGED <<heap, field, evals, todo>>

Decref(t) ==
    /\ At(t, "decref")
    /\ hdr' = With(Top(t).b, -1)
    /\ Set(t, [Top(t) EXCEPT !.at = EvalDone(Top(t)), !.own = @ - 1])
    /\ UNCHANGED <<heap, field, evals, todo>>

(* kk_indirect_compress: the first walk finds the final value ... *)
Compress(t) ==
    /\ At(t, "compress")
    /\ IF Tag(Top(t).res) = "ind"
         THEN Set(t, [Top(t) EXCEPT !.at = "find", !.h = field[Top(t).res]])
         ELSE Go(t, EvalDone(Top(t)))
    /\ UNCHANGED data

Find(t) ==
    /\ At(t, "find")
    /\ IF Tag(Top(t).h) = "ind"
         THEN Set(t, [Top(t) EXCEPT !.h = field[Top(t).h]])
         ELSE Go(t, "walk")
    /\ UNCHANGED data

(* ... and the second reads where an indirection leads and frees it, or     *)
(* releases it and points it at that value.                                 *)
Walk(t) ==
    /\ At(t, "walk")
    /\ LET b == Top(t).res IN
       IF Tag(b) # "ind" THEN Go(t, EvalDone(Top(t))) /\ UNCHANGED <<hdr, field>>
       ELSE IF Unique(b)
         THEN /\ hdr' = Freed(b) /\ field' = [field EXCEPT ![b] = None]
              /\ Set(t, [Top(t) EXCEPT !.res = field[b]])
         ELSE /\ Set(t, [Top(t) EXCEPT !.at = "walk_decref", !.h = [val |-> @, next |-> field[b]]])
              /\ UNCHANGED <<hdr, field>>
    /\ UNCHANGED <<heap, evals, todo>>

WalkDecref(t) ==
    /\ At(t, "walk_decref")
    /\ LET b == Top(t).res IN
       /\ hdr' = IF hdr[b].rc = 1 THEN Freed(b) ELSE With(b, -1)
       /\ Set(t, [Top(t) EXCEPT !.at = "walk_set", !.res = None,
                                !.h = [val |-> @.val, next |-> @.next, ind |-> b]])
    /\ UNCHANGED <<heap, field, evals, todo>>

WalkSet(t) ==
    /\ At(t, "walk_set")
    /\ LET h == Top(t).h IN
       /\ field' = [field EXCEPT ![h.ind] = h.val]
       /\ hdr' = With(h.val, 1)
       /\ Set(t, [Top(t) EXCEPT !.at = "walk", !.res = h.next, !.h = h.val])
    /\ UNCHANGED <<heap, evals, todo>>

(* lazy/atomic-leave: plainly, or by compare-and-swap. *)
LeaveUnshared(t) ==
    /\ At(t, "leave") /\ ~heap.shared
    /\ hdr' = Blocked(Top(t).b, FALSE)
    /\ Go(t, "leave_drop")
    /\ UNCHANGED <<heap, field, evals, todo>>

(* Faulty: the header is not loaded again. *)
LeaveLoad_Once(t) ==
    /\ At(t, "leave") /\ heap.shared
    /\ Set(t, [Top(t) EXCEPT !.at = "leave_cas", !.h = hdr[Top(t).b]])
    /\ UNCHANGED data

LeaveLoad(t) ==
    /\ \/ At(t, "leave") /\ heap.shared
       \/ At(t, "leave_cas") /\ hdr[Top(t).b] # Top(t).h
    /\ Set(t, [Top(t) EXCEPT !.at = "leave_cas", !.h = hdr[Top(t).b]])
    /\ UNCHANGED data

(* Faulty: the loaded header is stored, with the count of then. *)
LeaveCas_Store(t) ==
    /\ At(t, "leave_cas")
    /\ hdr' = [hdr EXCEPT ![Top(t).b] = [Top(t).h EXCEPT !.blocked = FALSE]]
    /\ Go(t, "leave_drop")
    /\ UNCHANGED <<heap, field, evals, todo>>

LeaveCas(t) ==
    /\ At(t, "leave_cas") /\ hdr[Top(t).b] = Top(t).h
    /\ hdr' = Blocked(Top(t).b, FALSE)
    /\ Go(t, "leave_drop")
    /\ UNCHANGED <<heap, field, evals, todo>>

LeaveDrop(t) ==
    /\ At(t, "leave_drop")
    /\ Push(t, Top(t).b, "drop", [Top(t) EXCEPT !.at = "return", !.own = @ - 1])
    /\ UNCHANGED data

(* lazy-whnf evaluates again until there is a value; then the caller goes   *)
(* on.  The program drops the value that it has forced.                     *)
Return(t) ==
    /\ At(t, "return")
    /\ LET v == Top(t).res  rest == Tail(stack[t]) IN
       IF Tag(v) # "whnf" THEN Set(t, Frame(v, "eval"))
       ELSE IF rest = <<>> THEN Set(t, Frame(v, "drop"))
       ELSE stack' = [stack EXCEPT ![t] = <<[Head(rest) EXCEPT !.res = v]>> \o Tail(rest)]
    /\ UNCHANGED data

Drop(t) ==
    /\ At(t, "drop")
    /\ LET b == Top(t).b IN
       IF hdr[b].rc > 1
         THEN /\ hdr' = With(b, -1) /\ UNCHANGED field
              /\ stack' = [stack EXCEPT ![t] = Tail(@)]
         ELSE /\ hdr' = Freed(b) /\ field' = [field EXCEPT ![b] = None]
              /\ IF field[b] = None THEN stack' = [stack EXCEPT ![t] = Tail(@)]
                                    ELSE Set(t, Frame(field[b], "drop"))
    /\ UNCHANGED <<heap, evals, todo>>

Step(t) ==
    \/ Begin(t) \/ ForceValue(t) \/ Return(t) \/ Drop(t)
    \/ EvalUnshared(t) \/ EnterLoad(t) \/ EnterRetry(t) \/ EnterCas(t) \/ Wait(t) \/ DupSelf(t)
    \/ MatchWhnf(t) \/ MatchIndirect(t) \/ IndirectDecref(t) \/ MatchLazy(t)
    \/ SetTag(t) \/ SetField(t) \/ Share(t) \/ Decref(t) \/ Compress(t) \/ Find(t)
    \/ Walk(t) \/ WalkDecref(t) \/ WalkSet(t)
    \/ LeaveUnshared(t) \/ LeaveLoad(t) \/ LeaveCas(t) \/ LeaveDrop(t)

Next == \E t \in Threads : Step(t)

Spec == Init /\ [][Next]_vars /\ \A t \in Threads : WF_vars(Step(t))
---------------------------------------------------------------------------
(* Threads do not evaluate one thunk together or one after the other: the   *)
(* compare-and-swap on the header lets one of them in, and the others find  *)
(* the result, however counts change in between.                            *)
EvaluatedOnce == \A b \in Blocks : evals[b] <= 1

(* Forcing, sharing of values and compression never make a count smaller    *)
(* than the number of references, so nothing is freed in use; in a heap of  *)
(* one thread counts are exact.  (In a shared heap the last decref of an    *)
(* indirection leaves the reference in its field behind.)                   *)
CountsCover ==
    \A b \in Blocks : /\ hdr[b].rc >= Refs(b)
                      /\ ~heap.shared => hdr[b].rc = Refs(b)

(* Indirections are freed or updated in place (lazy.c:101 "free or          *)
(* update-in-place as we traverse"), and none is updated that was freed.    *)
FreedOrUpdated == \A t \in Threads : At(t, "walk_set") => Tag(Top(t).h.ind) # "free"

(* Every force ends, whoever evaluates the thunk: what is blocked is        *)
(* unblocked, although releasing it competes with changes of the count.     *)
(* (Thunks do not need themselves here.)                                    *)
ForcesReturn == \A t \in Threads : stack[t] # <<>> ~> stack[t] = <<>> /\ todo[t] = <<>>
===========================================================================
