# Verification of the Koka runtime and compiler

TLA+ modules for the parts of Koka where correctness depends on an order of
events that no test controls: the reference counts that every Koka program
runs on, the stackless traversals of the heap that free and share data, shared
references and thunks, effect handlers, the task pool, and the incremental
builds of the compiler; and for the arithmetic and the conversions of the
library, where it depends on boundaries that no test reaches. Each module is
translated from the C, Koka or Haskell source that `PROJECT.json` ("map") names
line by line. TLC checks small instances; TLAPS proves the main results for all
values of the constants.

    tlc -config MCRefcount.cfg MCRefcount      # check an instance
    tlapm RefcountProofs.tla                   # check the proofs

## 1. The system

Koka is a compiler in Haskell (`src/src`) that generates C, with a run-time
library in C (`src/kklib`) and a standard library in Koka (`src/lib`). Memory
is reference counted: the compiler inserts `dup` and `drop`, and there is no
garbage collector, so every value of every program lives and dies by the code
in `kklib/include/kklib.h` and `kklib/src/refcount.c`.

| component | state it keeps | operations | interacts with |
|---|---|---|---|
| reference counts (`kklib.h`, `refcount.c`) | a 32-bit count per block: n ≥ 0 for n+1 references of one thread, negative for blocks that threads share, sticky near INT32_MIN | `dup`, `drop`, `decref`, `drop_reuse`, and their checked slow paths | all generated code |
| freeing (`refcount.c`) | parent links in the first field, field index in the header, of blocks being freed | `kk_block_drop_free` and the functions under it | called by the last `drop`; calls `free` |
| marking (`refcount.c`) | reversed pointers in fields, field index in the count | `kk_block_mark_shared` and the functions under it | called when a value is handed to another thread |
| task pool, promises (`thread.c`, `std/os/task.kk`) | queue of tasks, result of each promise, pthread conditions | schedule, worker loop, `kk_promise_get/set` | marks what it shares; reference counts |
| mutable references (`ref.c`, `ref.h`) | an atomic box with guard value 0 for shared references | get, set, swap, modify | reference counts |
| lazy values (`lazy.c`, `delayed.kk`) | header tag of a thunk; XBlocking/XValue of a delayed value | enter, wait, leave, compress; force | threads, reference counts |
| effect handlers (`std/core/hnd.kk`, `inline/hnd.c`) | evidence vector, the yield in progress with its continuations | prompt, yield, finally, initially, protect | all Koka programs with effects |
| build pipeline (`Compile/Build.hs`) | phase of each module, an MVar per module and phase | parse, resolve, type check, optimise, generate, link | one Haskell thread per module |
| project cache (`Compile/Project/*.hs`) | cache directories with stamps, lock files, fetched packages | validate, build, write stamp, fetch | the build; other processes |
| language server (`Main/langserver`) | reactor queue, pending requests, cancelled ids, document versions | request, notification, cancel | the build; the editor |
| dup/drop insertion (`Backend/C/Parc*.hs`, `Core/Borrowed.hs`) | none (pure) | a pass over Core | produces the calls above |
| integers (`integer.c`, `integer.h`) | a tagged word, or a block with digits whose memory is reused by the last holder | arithmetic with overflow to big integers, parsing, showing | all Koka programs |
| machine words (`bits.c`, `bits.h`) | none (pure) | counting, permuting, multiplying bits | integers, hashing, generated code |
| strings, slices (`string.c`, `bytes.c`, `sslice.c`) | valid utf-8 in bytes, external text validated | conversions from and to utf-8/16, search, replace, slice | files, the system, all programs |
| boxes, vectors; runtime start; OS interface | buffers, contexts | conversions, platform calls | |
| parser, inference, Core optimisation, code generators | terms (pure) | passes | the build pipeline |

**What is hard about it.** Counts are read plainly and then updated
atomically, with other threads in between. Counts saturate, and a saturated
block must never be freed while late updates still arrive. Freeing and marking
keep their own stack inside the blocks they visit. A thread that waits for a
promise runs other tasks on top of the one that waits. Mutable references and
thunks are small lock-free protocols. Modules of a build wait for each other's
phases, any of which may fail. Effect operations return through frames that
know nothing of them, and are put together again from what those frames leave
behind. One number has several representations. The project cache must survive
an interrupted build. `PROJECT.json` ("hazards") lists each of these with its
line and the properties that would catch it.

**What makes each component correct.**

- *Counts*: a count says how many references there are; nothing is freed while
  it is referred to, and nothing but sticky blocks leaks; memory is reused only
  by its last holder.
- *Freeing*: exactly what became unreachable is freed, once; nothing freed is
  touched; the C stack does not grow with the data; it ends.
- *Marking*: exactly what can be reached becomes thread-shared; the fields of
  live blocks are back as they were; counts keep their meaning.
- *Tasks*: a task runs once; work is not left to sleepers; an await returns
  after the result is there, and does return.
- *Builds*: what a build uses was compiled from what the sources now say; code
  is linked against the code it was compiled for; every failure is reported;
  threads never wait for each other forever.
- *References*: every get and exchange takes effect at one instant, on a value
  that the cell had; no reference to a value is lost or dropped twice.
- *Lazy values*: a thunk is evaluated once, by one thread; every other one gets
  its value; what is blocked is unblocked.
- *Handlers*: an operation reaches the innermost handler of its label that is
  not masked; a resumption continues the stack as it was left; finalizers run
  on every way out, once if nothing resumes twice.
- *Integers*: results are those of the integers, whatever the representation of
  the operands; what is shown is read back.
- *Words*: results are those of the definitions, for all words (but see finding 11).
- *Strings*: always valid utf-8 of the right code points, in the memory that was
  computed for them; slices begin and end at code points; external text can be
  written back as it was read. The last holds of 16 bit units that fit their
  memory, and not of bytes (findings 8 and 10).
- *Not modelled yet*: a cache stamp implies a complete build; the newest version
  of a document is checked; inserted dups and drops balance on every path.

## 2. Modules

| module | models | role |
|---|---|---|
| `Refcount` | the count of one block, any number of threads | core |
| `RecursiveDrop` | what dropping promises, over a whole heap | abstract specification |
| `DropFree` | how `refcount.c` frees, function by function | implements `RecursiveDrop` |
| `MarkShared` | how `refcount.c` marks | core |
| `TaskPool` | threads, queue, promises | |
| `Build` | validation, module threads, interfaces on disk | |
| `AtomicRef` | what a shared reference promises | abstract specification |
| `Ref` | `ref.c`, `ref.h`: the guard, compare-and-swap, counts | implements `AtomicRef` |
| `Lazy` | `lazy.c` and the code the compiler generates around thunks | |
| `Control` | delimited control on one stack of frames | abstract specification |
| `Handlers` | `hnd.kk`, `hnd.c`: evidence vectors and yielding | implements `Control` |
| `SmallInts`, `BigInts` | the fast paths of `integer.h`; `integer.c` | pure operators |
| `Bits` | `bits.h`, `bits.c` | pure operators |
| `Text` | `string.c`, `bytes.c`, `sslice.c` | pure operators |
| `IntegerOps`, `WordOps`, `TextOps` | programs that use them, beside the numbers, bit sets and code points they stand for | reference definitions |
| `Values` | the three together, for one run | composition |
| `RefcountProofs`, `RecursiveDropProofs`, `DropFreeProofs`, `MarkSharedProofs`, `TaskPoolProofs`, `RefProofs`, `ValueProofs`, `BuildProofs` | theorems | |
| `MC*` | instances for TLC | |

A definition named `X_Something` with a comment "Faulty" is a plausible bug in
the definition `X`. It is used by no specification: putting it in the place of
`X` makes the property named in `PROJECT.json` ("mutants") fail, which shows
that the property does observe that code.

### Refcount

State: `rc` is `header.refcount`; `block` says whether the memory is still
allocated and, if not, which function gave it up; `refs` counts the references
that no operation is using. Since a running operation consumes a reference,
`Total` (held or in use) is what the count should say. `pc` and `rc0` are the
operation of each thread and the count it has loaded. `shared`, `saturated` and
`lostDrops` are history.

Every operation is two steps, as in the code: a plain load (`Load`), then what
that value selects: a plain store (`DupUnshared`, `DropUnshared`, `DropUnique`)
or one atomic instruction (`DupShared`, `DropShared`), or nothing
(`DupSticky`, `DropSticky`). `DropShared` decides by the value that its own
atomic add replaced, not by the loaded one; that difference is what several
properties are about. `MakeShared` is `kk_block_make_shared` and `MoveUnique`
the hand-over of a block with its only reference.

The environment (`Next`) keeps the discipline the library expects: a block
that is not thread-shared is used by its owner. `SpecMarkedUnique` drops it for
the one case in which the library itself does (section 4).

The ranges are constants. `SpanAssumption` asks that each sticky range be as
wide as the number of threads; in the code they hold 2^28 counts each.

### RecursiveDrop and DropFree

`RecursiveDrop` is the textbook account: a block whose last reference is
released is dying, each reference in its fields is released once, in any order,
and then it is freed. Heaps may be cyclic and may hold static data.

`DropFree` has the C functions as frames on a stack, and inside a frame the
loops of the code with their variables: `kk_block_drop_free`,
`kk_block_fast_drop_free`, `kk_block_drop_free_recx` (the stackless one) and
`kk_block_drop_free_large_rec`. Memory is modelled: the first field of a block
that is being freed is overwritten by the link to its parent and `_field_idx`
in the header by the next field. `links` and `frees` observe the memory
discipline. The refinement mapping reads off the blocks that are being freed
(on the C stack, or on the chain of links in memory) and the fields they have
left: `Recursion == INSTANCE RecursiveDrop WITH ...`, and `DropsLikeRecursion`
is its specification.

`Wellformed` is what allocation guarantees of a block: its fields are `0..n-1`,
and one with `KK_SCAN_FSIZE_MAX` fields or more starts with its length. The
checked heaps are immutable and acyclic, since a cycle needs a mutable
reference; the proofs need neither. That a heap is finite (`HeapAssumption`) is a
hypothesis of the theorems.
`RecursiveDrop` has no run of its own: `drop_free` checks that `DropFree` is one
of its behaviours, and `NothingLeftBehind` and `NoUseAfterFree` say of the code's
own state what it promises. Which of the functions that free is called depends on
the size of the block (`refcount.c:377`, 427, 434, the last two possibly
with the size of another block); `FreeBlock` stands for both.

### MarkShared

Same layout: frames for `kk_block_mark_shared_rec` (with its tail loop),
`kk_block_mark_shared_recx` and `kk_block_mark_shared_recx_large`. The index of
the next field is the low digit of the count, in base `IDX_SPAN` (256 in the
code), and `WithIdx`/`WithoutIdx` are the shift, the cap and the way back.
Marking runs in one thread, on blocks only that thread can reach, or that are
shared already. `MarkedExactly` says at the end of a traversal that the blocks
reached are marked, with the counts they had, and that no others are;
`ReversalConsistent` says of every state in between that each field not at its
old value is on the reversed chain, once, and of the end that there is none.
What can be reached is a least set (`ReachableFrom`), so that proofs can use it.
`MarkAssumption` says that heaps are finite and acyclic, and that a block has the
fields 0..n-1, fewer than an index can count unless it is a large vector
(`Wellformed`, from the assertions in `kk_block_init`).

### TaskPool

A task is a list of operations (create a task, await a promise); a promise has
the name of its task. A thread has a stack of tasks because `kk_promise_get`
runs queued tasks on top of the one that waits. What happens between lock and
unlock is one step. Signals are sent after unlocking and are steps of their
own, which wake any one waiter. With `Spurious`, waits also return by
themselves, as POSIX allows.

### Build

`ctx` is the build context between builds, `mod` the modules as the threads of
the running build have them; `pc` is the stage a thread is about to take and
`maps` are the five maps of MVars. On disk are `src`, the interfaces `iface`
(with the comparison of file times that the code makes as a flag) and the
generated code `gen`. A text is a value of which only `Unlexable` matters; a
core is the set of module-and-text pairs that went into it, so that staleness
can be seen.

`Start` is a whole validation (load, resolve, `validateDependencies`): it runs
to its end before any stage starts. The code folds over the modules in build
order and reloads each that is ahead of an import; since an import has its phase
for good when its turn is over, that is the least set of modules `Outdated`. `moduleParse` to `moduleLink` are the
functions of that name, `PassOn` the branch of `moduleGuard` for modules that
are not in the phases a stage works on. A stage waits for all MVars it will
read and is then one step: reads of a filled MVar never change. What code
generation and linking write are separate steps, since they are separate
stages. `Throw` is an exception with the nested guards around it: it fills the
MVars of the stage and of all later ones and hands back the module as the build
found it, with the error. An exception in linking leaves no interface, but
for an executable: its interface is written before the executable is copied
(`CodeGen.hs:124`), and stays when that fails. Exceptions are raised in optimisation, code
generation and linking; in parsing and type checking errors are results, and
only an internal failure of the compiler would raise one. `OutcomeReported`
says that a failure is not lost and that the units of work that a build reports
add up to what it announced.

`Edit` saves a source between builds, and `Restart` is a new process that finds
the files on disk, possibly in the middle of a build.

### AtomicRef and Ref

`Ref` has one step per load, store or compare-and-swap of `ref.c`. Before
`Share` the reference has one thread and is used plainly; `Share` may come
between any two operations of the owner. A reader takes the value out and
leaves the guard 0 (`GetLock`), dups, and writes the value back (`GetUnlock`);
a thread that finds the guard compares with 1 and so fails until it is gone.
Raw values need no dup: `rawReads` counts shared reads of them, which return
without dropping the reference itself, as `kk_ref_get_thread_shared` does. A
block that is freed may be allocated again under the same address. Modify is
get and swap one after the other. The refinement mapping takes the value behind
the guard for the value of the register; a read takes effect when it puts the
guard there.

### Lazy

A header is one word: tag, blocked mark, count. `EnterLoad`/`EnterCas` are
`kk_lazy_atomic_thread_enter`, `Wait` is its busy loop, `LeaveLoad`/`LeaveCas`
the release. `DupSelf`, `Match*`, `SetTag` and `SetField` are what the compiler
generates (`synLazyEval`, `synLazyEvalLocked`, `ruLazyMemoize`): a thunk is
overwritten by its value if that is a constructor, or becomes an indirection.
`Compress` to `WalkSet` shorten chains of indirections. A thread has a stack of
the thunks it is forcing, since a thunk may force its argument.

### Control and Handlers

`Control` is the textbook account: a stack of frames; `Capture` cuts it at a
prompt, `Resume` puts the piece back, and an escape unwinds frame by frame and
runs the finalizers.

In `Handlers` the frames are those of the C stack in `hnd.kk`: `bind` for a user
function that waits for a result, `prompt`, `mask`, `open`, `under`, `local`,
`finally`, `fin` while a finalizer runs, `protect` for a clause. An operation
sets `yield`; each frame that is returned to leaves a continuation for the rest
of its work (`YieldExtend`, `YieldCont`) and returns, until the prompt with the
marker composes these into a resumption. Applying one rebuilds frame by frame,
with evidence vectors made anew. Evidence vectors are blocks with an identity,
since `prompt` compares addresses. The user's code is nondeterministic: it
installs handlers, masks and opens, performs operations of three kinds
(tail-resumptive, control, never), assigns variables, resumes and returns.
`Whole` reads the stack, the buffer of continuations and the resumption being
applied as one stack of frames; `Delimited` is the refinement of `Control` by
it. `Context` derives the handlers in scope from that stack alone, for
`EvidenceExact`.

### SmallInts, BigInts, IntegerOps

`SmallInts` works on words: n is 4n+1, pointers are multiples of four, and
`AddOvf`, `AddTag`, `AddSofa` and so on are the three ways in which the library
may be compiled. A fast path is the set of its results, empty when the generic
function is called. `BigInts` has digits, lowest first, in a base that is a
constant; unsigned sums wrap at `DIGIT_RANGE`. `Room` and `Junk` are memory that
is reused or allocated and not yet written. Long division is the loop of the
code: the guess for a digit, `SubtractAt` with its borrow, and `AddBack`. `Pow`
has both loops of the code: `PowBig` for an exponent that is a big integer, and
`PowLoop` for what is left of it.
`IntegerOps` keeps one integer and the number it should stand for, and applies
every operation with the other operand in every representation.

### Bits, WordOps, Text, TextOps, Values

`Bits` has a word as the set of its one bits; what the code does by masks,
multiplications and tables is computed in that way, and compared in `WordOps`
with definitions by quantifiers and numbers. A shift by the whole width is
undefined in C: the result is a set of outcomes (`ShrOutcomes`). `Text` has strings of bytes:
`ReadValidate` is the decoder that checks, `Utf8Read` the one that trusts, the
raw code points are those of `string.h`, and a slice is an offset and a length.
A result is `Sized`: the bytes that were written, and the length that the code
computed, and allocated, before it wrote them. `TextOps` keeps a string, that
length (`alloc`) and a slice of it together with the code points they stand for.
Text that is not read as what it means is in the model too: units for which too
little memory is counted (`Overrun`), and utf-8 that begins with a byte 0, of
which nothing is read (`Misread`). Nothing is claimed of it, and no operation
follows, since the program's memory is overwritten in the first case. A code
point 0 within a string is like any other, but extending and counting a slice
stop there (`sslice.c:33` and 127), as the properties say. Slices of different
strings have no text between them (`BetweenOthers`). `Values` lets a behaviour be a program of one of the three kinds.

## 3. Runs

| run | instance | shows |
|---|---|---|
| `refcount` | 3 threads, counts −9..8, sticky ranges of 3 | a shared count −N stands for N references or one more; freed with at most one reference left; reuse is exclusive; saturated blocks are not freed; only sticky blocks leak |
| `refcount_share` | 2 threads share a block | *finding*: not N references, as documented, but N+1 |
| `drop_free` | acyclic heaps of 4 blocks, up to 3 fields, with a vector or without | nothing freed is touched, nothing is left behind, bounded C stack, ends, implements `RecursiveDrop` |
| `mark_shared` | the same heaps; counts up to the cap; vectors of leaves | marks what is reachable and nothing else, fields can be restored at any time and are, ends |
| `task_pool` | main thread, 2 workers, 5 programs of 4 tasks | tasks run once, no stranded work, awaits hold, fork-join programs end |
| `task_pool_shared` | two threads await one promise | *finding*: one of them sleeps forever |
| `build` | a chain of 3 modules, 3 builds, one edit, one failure, restarts after clean builds | fresh cores, interfaces that match, linking reads what was compiled against, failures reported, progress exact, builds return |
| `refs` | 3 threads, 4 operations in all, 2 blocks and a raw value | linearizable, counts exact, at most one reader behind the guard, operations return |
| `lazy` | 3 threads and shared thunks; one thread and chains of up to 3 indirections | evaluated once, counts cover references, forces return |
| `handlers` | all programs of 5 operations, 2 labels, 2 handlers, 6 styles | evidence is that of the stack, finalizers run, control is delimited control |
| `values` | programs of 2 operations on integers or texts; all word operations | results are exact, order, text and search too, but for the cases of findings 8, 10 and 11 |
| `int_equality` | the integers of `values` | *finding*: a small and a big form of one number differ |

Configurations that belong to no run show a single thing each and are for
reading on: `MCRefcountRace`, `MCMarkSharedVectors`, `MCBuildRestart`,
`MCLazyChain`, `MCTextRoundTrip`, `MCTextRoom`, `MCWideProduct` and
`MCHandlersDirect` (section 4) each end in a counterexample.

**Why the bounds are enough.**

- *Refcount*: `RC_MAX` = 8 with ranges of 3 gives each region of the count
  (positive, thread-shared, no drops, no dups and drops) several values, and
  ten references reach the wrap-around. Three threads are one more than any
  race in the code involves, and make late updates add up. The theorems remove
  the bounds.
- *DropFree, MarkShared*: up to three fields give a first, a middle and a last
  one, each with its own code; blocks with no, one, two (the one-field path,
  with and without a leading value) and more fields take different paths. Four
  blocks in a chain give parent chains with an inner link, and sharing in the
  heap makes blocks that are reached twice. `Extra` and `Statics` add
  references from elsewhere, counts over the cap and static data.
  `MAX_RECURSE_DEPTH` is 1 rather than 100: it takes one level of recursion and
  the switch below it. `MaxCalls` bounds the C stack; only `MCMarkSharedVectors`
  reaches it.
- *TaskPool*: four tasks are enough to nest and cross awaits over three
  threads; the two workers are enough for one that helps and one that finishes
  the awaited task.
- *Build*: in a chain of three, the last module depends on the first only
  through the middle one, which exports inline definitions: the recursive waits
  and the transitive reload differ from the direct ones there. The root may be
  forced. Three builds are a first one, one that goes wrong or follows an edit,
  and one that must put things right (`MaxBuilds`); one edit and one failing
  stage (`MaxEdits`, `MaxFailures`) meet in every order with them. Of the three
  texts two are good and one cannot be lexed.
- *Ref*: two readers and a writer, or two writers and a reader, meet at the
  guard; the owner has a second operation, so that a block can be freed and its
  address used again under a thread that compares with it. The raw value is the
  one whose bits are 1, with which threads compare when they find the guard.
- *Lazy*: of three threads one may evaluate, one wait, and one change the count
  of the same thunk. In the thread-shared heaps no indirection leads to another
  one; with such chains the code goes wrong (section 4). Chains of every mix of
  thunks are compressed in heaps of one thread, uniquely referred to or not.
- *Handlers*: `CONT_MAX` is 2 rather than 8, so that the buffer of continuations
  overflows. Five operations (`FUEL`) are enough to install two handlers, put a
  frame between them, yield through it and resume elsewhere or twice. A style
  restricts which frames a program uses, and how it resumes: once, or twice but
  inside the handlers of the clause. This keeps the number of programs low; the
  styles together use every kind of frame.
- *Values*: `TEN` = 2 and three of its digits per digit make base 8, with small
  integers −16..15, so that operands have one to five digits, carries run
  through several of them, guesses in divisions are too large and Karatsuba's
  method (from 3 digits) splits unevenly. The base stays even, as the code needs
  for halving, and `DIGIT_RANGE` exceeds twice the base. Words have their full
  32 and 64 bits; every single bit, every run from either end and nine patterns
  are tried, and pairs of the patterns; products and midpoints are compared on 8
  bits. Exponents go up to 17, which is a big integer here. External text is every
  sequence of up to two of 13 critical bytes or 14 critical units, 0 among them,
  and longer ones for 3 and 4 byte sequences. Of the three arithmetics, only that
  with overflow tests runs.

Deadlock checking is off everywhere, since each of these systems may stop: the
block is freed, there is nothing left to drop or mark, the main thread
returned, or the bounds on builds and edits are reached. What must not stop is stated as liveness instead.

**Fairness.** `DropFree` and `MarkShared` are sequential code and assume weak
fairness of its next step, that is, that the thread is not suspended forever.
`TaskPool` assumes it of each thread separately, as the scheduler of the
operating system grants; nothing is assumed about which waiter a signal wakes
or that spurious wakeups ever happen, and none is assumed of tasks beyond that
they run. `Build` assumes it of each module's thread, which the scheduler of
the Haskell runtime grants, and of the end of a build, which is sequential code;
none of builds, edits, failures or restarts. `Ref` and `Lazy` assume it of each
thread, also while it spins: a compare-and-swap that fails was overtaken by
another thread, and what `OperationsReturn` and `ForcesReturn` show is that such
overtaking, with the operations of an instance bounded, leaves nothing locked.
In `Ref`, sharing is assumed to happen at last. `Handlers` and `Values` have no
liveness.

## 4. Findings

The first three are runs in which TLC shows what the code does against what its
comments or documentation say; `PROJECT.json` ("findings") quotes the lines. The
others have configurations that belong to no run.

1. **One signal for many waiters** (`thread.c:410`). `kk_promise_set` uses
   `pthread_cond_signal`, but a promise is a value that several tasks may await.
2. **Equality depends on the representation** (`integer.h:891`). With 64 bits a
   number from 10^18 up to 2^61 − 1 is small when computed by a fast path and
   big when parsed. `kk_integer_eq` then says no when the small one comes first.
   Ordering is not affected (`OrderExact`).
3. **Sharing loses one reference** (`refcount.c:171`). By `refcount.c:126` a count
   −N of a shared block stands for N references. A count n ≥ 0 stands for n+1, and
   `kk_block_make_shared` negates. `SharingWithinOne` and `SharingCostsOne` show
   that this is the whole damage: the count is never off by more than one, and at
   most one reference is left when the block is freed.
4. **A count of 0 cannot be shared** (`refcount.c:171`, `MCRefcountRace`): −0 = 0.
   A promise is marked right after it is allocated, and then dup'ed for a worker.
5. **Marking of large vectors** (`refcount.c:658`, `MCMarkSharedVectors`) recurs
   on the vector, not on the element.
6. **A stale interface after an interrupted build** (`Build.hs:613`,
   `MCBuildRestart`). Dependencies are compared by phase, so an interface on disk
   that is older than that of its import is accepted by a new process. It takes
   no second process if a build does not know all modules: let the roots be a and
   c in the chain a, b, c, and after a clean restart let a be edited and c be saved
   with imports that cannot be parsed. The build then leaves b out; once c is
   repaired, the old interface of b is accepted beside the new a (in
   `MCBuild.cfg`: `Roots = {a, c}`, `MaxEdits = 3`). `BuildFresh` shows that
   there is no third way.
7. **Compressing a thread-shared chain** (`lazy.c:105`, `MCLazyChain`). A shared
   block is never `kk_block_is_unique`, so an indirection whose last reference is
   that of the one before it is freed by `kk_block_decref`, and then
   `kk_block_field_set` writes to it. This is the only way: where no shared
   indirection leads to another, `CompressUpdatesLive` proves it cannot happen.
8. **Raw bytes are not written back** (`string.c:423` and 446, `MCTextRoundTrip`).
   The bytes 0x80..0xFF are stored as `OFS + byte` (`string.h:66`), but looked for
   in `OFS .. OFS + 0x7F`: the byte FF comes out as F3 AE 83 BF.
9. **Operations executed in place that yield** (`hnd.kk:583`, `MCHandlersDirect`).
   `under1` restores the evidence only when its clause does not yield. When an
   operation was called through `open-at`, that frame restores it; when it was
   called directly, what runs next on the way out finds the evidence of the
   clause.
10. **Too little room for some units** (`string.c:528`, `MCTextRoom`). When utf-16 is
    read, a unit 0xD800 or above 0xDFFF counts three bytes; it is then taken for half
    of a surrogate (`string.c:575`), so that four are written. The assertion at
    `string.c:582` fails, and the code point is `KK_RAW_UTF16_OFS` higher than the unit.
11. **A shift by the whole width** (`bits.c:380`, `MCWideProduct`). `kk_clmul64_wide`
    shifts right by 64 when the lowest bit of its operand is set. C leaves this
    undefined; processors that take the number modulo 64 xor the other operand into the
    high word.

Met while translating, and kept out of the instances as named: `SMALLINT_MIN / -1`
overflows (`integer.h:700`, `MIN_BY_MINUS_ONE`); leading zeros of a literal stay
in the digits, against `integer.c:27` (`LeadingZeros`); `kk_integer_div_pow10`
rounds down also when the quotient of a negative number is exact (`RoundsDown`
says when it is compared); `kk_string_alloc_from_utf8n` reads nothing of text that
begins with a byte 0 (`string.c:377`), though strings may contain them
(`string.h:16`). `kk_ref_get_thread_shared` keeps its reference when it returns a
raw value (`rawReads`), and the last decref of an indirection keeps the reference
in its field (`CountsCover` is exact for one thread only).

One more observation: helping (`thread.c:442`) puts a task on
top of the one that waits. If the upper task awaits a promise that only the
lower one can lead to, both wait forever, although each would end in a thread
of its own. The program `Crossed` of `MCTaskPool` does this: replace
`SharedOnly` by `{Crossed}`. `ForkJoinReturns` states the condition under which
it cannot happen: whoever creates a task awaits it, once.

## 5. Proofs

All theorems hold for every value of the constants that meets the ASSUMEs.

**`RefcountProofs`** (any number of threads and references, any widths).
Neither what a count says nor that saturated blocks survive is inductive: they
depend on what late operations, which loaded the count earlier, may still do.
`IInv` adds

- `LocalCounts`, `SharedCounts`: what a running operation has loaded agrees
  with who may use the block;
- `History`: only sharing and saturation make a count negative;
- `LateDropsAbsorbed`: once a dup went uncounted, or is about to, the count is
  so low that all atomic drops under way cannot lift it out of the range
  without drops;
- `LateDupsAbsorbed`: below the dup limit at most one late dup per thread lands.

`NextIInv` has one case per action; counting lemmas say how the sets of
operations under way change when a thread starts or ends one. Results:
`Invariance`, `TypeCorrect`, `UnsharedSafe`, `CountsExact` (what the code takes
counts for), `SharingWithinOne` (how far that is from what is documented),
`Saturation`, `SharingCostsOne`, `NeverStuck`, `NoOtherLeaks`, `SaturationStays`.

**`RecursiveDropProofs`** (heaps of any shape; that they are finite is a hypothesis,
`HeapAssumption`). The invariant says that
counts equal references from live blocks, from fields not yet released, and
from the program. `ReleaseRefs` is the core: a release removes exactly one
reference, since the fields of a block that starts dying go on counting.
Results: `DropInvariance`, `DropSafe`, `DropLeavesNoGarbage`.

**`DropFreeProofs`** (finite heaps of any size and shape, cyclic ones included).
Memory safety and the refinement cannot be proved one after the other, so the
invariant is the conjunction of two. `Structure` speaks of the code's own state:

- `FramesOK`, `Result`: each frame of `stack` is at a field its block has, no two
  frames free the same block, and a returned block is in no frame;
- `Nested`: on the C stack `kk_block_drop_free_recx` and
  `kk_block_drop_free_large_rec` take turns, `kk_block_drop_free` is only at the
  bottom and `kk_block_fast_drop_free` only at the top;
- `Chained`: the blocks parked with a saved index are linked into chains, one
  from each frame of `kk_block_drop_free_recx`, that never meet; nothing else is
  linked to;
- `Memory`: only fields that were scanned are overwritten, and only by a link.

`Drop!IInv` is the invariant of `RecursiveDropProofs` under the refinement
mapping: counts equal references. `Structure` makes each step of the code a
step of `RecursiveDrop` or a stutter (`NextSimulates`); that the counts are exact
is what tells `Structure` that a block whose count falls to zero is on no frame
and on no chain yet, so that the two are inductive together. Results:
`DropFreeInvariance`, `DropFreeTypes`, `DropFreeSafe`, `DropFreeBounded`, and
`DropFreeRefines`, the refinement as a property of the specification.

**`MarkSharedProofs`** (finite acyclic heaps of any size, with large vectors, any
`MAX_RECURSE_DEPTH` and any room on the C stack). The invariant is a conjunction:

- `Shape`, `TopOK`: which calls can be above which on the C stack, and what the
  running one has found out about its block;
- `Chained`: the blocks with a field that holds a link (`Parked`) are a chain, from
  the block whose return is awaited up to the one where pointer reversal began;
- `Counts`: a block that is scanned has its capped count above the index; every
  other one is as before or marked;
- `Reached`: only what the marked blocks lead to has been touched;
- `Pending`: what lies below a block that was visited is settled, or is being
  scanned, or lies below a block that some call still has to visit (`Todo`);
- `Hopeless`: once `kk_block_mark_shared_recx_large` has called for the same vector
  again (finding 5), there is an element no call gets past, so marking never
  returns; `Pending` is claimed only before that.

That the heap is acyclic is used three times: the block of the running call is
not parked (`TopNotParked`), nor are its children (`ChildNotParked`), and a block
waiting to be visited does not wait for itself (`PendingStep`). There is one lemma
per action; `VisitStep` and `PendingStep` are what they share. Results:
`MarkInvariance`, `MarkReverses`, and `MarkExact`, since without calls nothing is
parked and nothing is left to visit.

**`TaskPoolProofs`** (any threads, tasks and programs, deadlocking ones
included): `WorkSafe`, `AwaitsSafe` and `RunsOnceSafe`. For the last, the
invariant says that only created tasks are in a place, each in one
(`PlacesDistinct`), and that a result is set as the last step of a task that is
alone at the bottom of a stack (`ResultsLeave`); `CreatedOnce` is the assumption
that an operation of a program allocates a new task.

**`RefProofs`** (any threads, blocks, raw values and numbers of operations). The
invariant adds to `GuardHeld` that nobody compares or swaps before the reference
is shared; every step either leaves the guard alone, takes it while it is not
there, or is made by the one thread that has it. `SafeGuard` is the assertion in
`kk_ref_get_thread_shared`; `Refinement` shows, step by step, that `Ref`
implements the atomic register. `SafeCounts` is about the blocks: the count of a
block is the cardinality of a set of references (the cell, the arguments and
results of the threads), and each step moves, adds or removes one element.

**`ValueProofs`, lazy values** (any number of threads and thunks, any heaps and
programs). One hypothesis, `NoSharedChains`: in a heap that threads share, no
indirection leads to another at the start. The excluded case is finding 7. Heaps of
one thread have chains of any length. That a thunk is evaluated once is not inductive:
a thread may change a thunk because it has blocked it, or because it has the last
reference, and the latter rests on the counts. `LazyInv` is a conjunction:

- `LazyTypes`; `Sole`: a heap that is not shared is used by one thread;
- `Thunks`: what the field of a thunk holds, by its tag;
- `FramesOK`: what each frame holds, and what it knows of its thunk, at each point
  of the code; `Nested`: a frame below the top waits for the one above it;
- `Exclusive`: a thunk is blocked by at most one frame;
- `InProgress`: a thunk that was evaluated and has no value yet is being evaluated
  by some frame;
- `CountsCover`: a count is at least the number of references, which are counted
  as cardinalities of sets of tokens, and equal to it if the heap is not shared.

`StepKeeps` divides the work. A step of one thread is `Fair` to the frames of the
others when it changes a count only where it holds a reference, and a tag, a mark
or a field only where it has blocked the thunk, has the last reference, or is alone;
then the other frames still know what they knew. What is left of each action is its
own top frames, one lemma per action (`LeaveCasKeeps`, ...), and that what it adds to
and takes from a count is what it adds to and takes from the tokens: `Balance` splits
these into the running thread's top frames, one field and the rest. `LeadsOn` and
`LeadsField` keep hold of the end of a chain while `Compress` shortens it. Results:
`LazyInvariant`, `ThunksEvaluatedOnce`, `LazyCountsCover`, `CompressUpdatesLive`
(compressing never updates a freed block), and `LazyBlocksLive` (no block that is
referred to is freed, and `Exclusive`).

**`ValueProofs`, small integers** (any width, and each of the three arithmetics). A word is
4n+1 or 4n; the lemmas say what tags add up to and when a word fits. `AddSound`,
`SubSound`, `AddConstSound` and `MulSound`: the fast path returns the right small
integer whenever it returns; `FastComplete`: with overflow tests or the tag test
it does so whenever it can.

**`BuildProofs`** (any finite acyclic import graph, roots, texts, edits, builds,
failures and restarts, with concurrency or without). `BuildInv` is a conjunction:

- `Types`: the type invariant without the bound on `work`, which takes counting;
- `Staged`: where threads are, and that an MVar is filled exactly when its module
  is past the stage;
- `Validated`, `Lexable`: what `Start` hands to the threads. A module is no further
  than its imports, and only a module that could not be lexed is at `PhaseInit`;
- `Steady`: a thread never takes a module back behind what the build found, and
  what an MVar says has fallen behind stays behind;
- `Explained`: a module that is behind where it should be has an error, or imports
  one of lower rank that is behind;
- `Linked`, `Unlinked`: a linked module has its interface on disk, and generated
  code is unlinked only for an import that has none;
- `Accounted`: `work` is what the filled MVars are worth.

`ThreadStep` says once what a step of a thread can be (it parses, checks, ...,
passes on, waits in vain, or breaks); each conjunct is then proved from that, and
the validation (`Validation`, `NoneBehind`) from what a least set is. From this
follow, without more hypotheses:

- `BuildTypes` and `BuildLinked`, the latter also for builds that were
  interrupted anywhere;
- `BuildReports`: by `LostHasCause` the module of least rank among those left
  behind has an error, and by `BuildWork` the filled MVars are all there are.

`BuildFresh` and `BuildLinkReads` need `Current` (a core has all the modules it
needs, in their present texts but for what is dirty) and `Generated` (generated
code agrees with the modules that are past its stage). `NoneBehind`: nothing that
a kept module needs was lexed again. `LinkCloses`: following `modImportNames` from
one filled MVar to the next reaches everything the module imports. Both have two
hypotheses, which are those of finding 6: `CleanRestarts`, and `[]AllKnown`, that
a build's context has all that the roots need. Without either TLC finds `Fresh`
violated; `BuildKnowsAll` gives a case in which the second holds, that no source
ever fails to be lexed.

**Only model-checked**: liveness (`DropReturns`, `MarkReturns`,
`ForkJoinReturns`, `BuildReturns`, `OperationsReturn`, `ForcesReturn`);
`NothingLeftBehind`, which needs acyclic heaps (of `RecursiveDrop` the same is
proved for all heaps, `DropLeavesNoGarbage`);
`Lazy` with shared chains, where `FreedOrUpdated` fails (finding 7); everything
about `Handlers`: `EvidenceExact` and `Delimited` compare the code with the stack that
nested continuations stand for, which is a recursive definition, and `Finalized` counts
the finalizers in them. `BigInts`, `Text` and `Bits`
compute by recursion over digits, bytes and bits, about which the prover cannot do
induction; their results are compared with definitions on bounded inputs.

## 6. What is not modelled

- Memory order: the counts use relaxed increments and acquire-release
  decrements; the model is sequentially consistent. On a single count that is
  exact; for the contents of blocks it is not claimed.
- Raw blocks (`KK_TAG_CPTR_RAW`), which call a C function when freed, and
  context paths, which only use the header's index while a value is built.
- Cyclic heaps in `DropFree` and `MarkShared`. They need mutable references;
  marking such a heap by pointer reversal is listed under the hazards.
- In the task pool: failures of allocation and thread creation,
  `kk_task_group_free` (not called), and LVars, which `std/os/task.kk:66` binds and
  no other module of the library uses.
- In builds: import graphs that change or are cyclic, precompiled library
  interfaces, virtual main modules, builds focused on some modules
  (`buildcFocus`), edits while a build runs, failures while loading, and the
  semaphores that limit input and output. Two of these are listed as hazards
  without a property.
- In `Ref`: that values stored in a shared reference are marked (the code does
  not); raw values other than the one threads compare with behave like it.
- In `Lazy`: thunks that need themselves, which wait forever (`lazy.c:39` says
  so), and the delayed values of `delayed.kk`.
- In `Handlers`: named handlers, raw and shallow resumptions, `initially`, and
  the types that keep programs from performing operations without a handler
  (the model only performs operations that have one).
- In `BigInts`, `Bits` and `Text`: `kk_integer_clamp_size_t`, the number of digits
  of a 64 bit word (`bits.c:34`; that of 32 bits is), and `kk_slice_common_prefix`.
- Floating point: conversions of integers, and boxed doubles. Vectors and boxes.
- Components marked `not_modelled` in `PROJECT.json`, with the reason. Parsing,
  inference, Core transformations and code generation are functions over
  unbounded terms, whose correctness TLC's bounds say little about.

## 7. Plan

In the order of what is at stake when it goes wrong.

1. `Handlers`: `initially` and named handlers; delayed values, which need its
   exceptions around `Lazy`. Proofs about evidence vectors: insertion keeps them
   sorted, and a mask undoes the innermost handler of its label.
2. `ThunksEvaluatedOnce` for shared chains, with the blocks that compression
   frees too early as a case of the invariant.
3. `ProjectCache`: validate, build, stamp, with interruption between any two
   steps. `LanguageServer`: reactor queue, cancellation, document versions.
   `Build` gets edits during a build and `buildcFocus` with it, which is what
   the language server calls.
4. `Parc`: dup/drop insertion over a small expression language against a
   linear semantics, with the folds of the community modules instead of
   recursive operators.

`DropFree` and `MarkShared` may then share one heap with references, and
`Refcount` and `TaskPool` may be composed through the promise that finding 4
is about.
