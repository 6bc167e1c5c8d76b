-------------------------------- MODULE Build --------------------------------
(***************************************************************************)
(* Incremental, concurrent builds of the compiler (src/Compile/Build.hs).  *)
(* A build context keeps modules in some phase of their compilation.  A    *)
(* build first validates the context: it reloads edited modules and those  *)
(* whose imports fell behind.  Then one thread per module takes it through *)
(* the phases, waiting for imports in one MVar per module and phase.       *)
(*                                                                         *)
(* A module's text is a value: only whether it can be lexed matters.  The  *)
(* core of a compiled module is the set of <<module, text>> pairs that it  *)
(* was compiled from, its own and those of everything it imports.  The     *)
(* import graph does not change.  Reads of filled MVars are stable, so a   *)
(* phase waits for all it reads and is then one step.                      *)
(***************************************************************************)
EXTENDS Integers, FiniteSets, Functions

CONSTANTS
  Modules,      (* modules                                                 *)
  Imports,      (* modDeps: what each module imports                       *)
  Pub,          (* which of these it imports publicly                      *)
  Rank,         (* the build order                                         *)
  Roots,        (* buildcRoots                                             *)
  Entries,      (* modules with a main entry: they link an executable      *)
  Inlined,      (* modules that export inline definitions                  *)
  Texts,        (* contents of a source file                               *)
  Unlexable,    (* those whose imports cannot be parsed                    *)
  Original,     (* the text every module starts with                       *)
  CleanRestarts,(* whether the compiler is restarted only after a build    *)
                (* without errors                                          *)
  MaxEdits, MaxBuilds, MaxFailures   (* bounds of the model                *)

ASSUME BuildAssumption ==
  /\ IsFiniteSet(Modules)
  /\ Imports \in [Modules -> SUBSET Modules]
  /\ Pub \in [Modules -> SUBSET Modules]
  /\ Rank \in [Modules -> Nat]
  /\ \A m \in Modules : /\ Pub[m] \subseteq Imports[m]
                        /\ \A d \in Imports[m] : Rank[d] < Rank[m]
  /\ Roots \subseteq Modules /\ Entries \subseteq Roots
  /\ Inlined \subseteq Modules
  /\ Unlexable \subseteq Texts /\ Original \in Texts \ Unlexable
  /\ CleanRestarts \in BOOLEAN
  /\ MaxEdits \in Nat /\ MaxBuilds \in Nat /\ MaxFailures \in Nat

(* ModulePhase, in its order; PhaseLibIfaceLoaded and PhaseLinkedError are *)
(* never given to a module.                                                *)
PhaseInit        == 0
PhaseLexed       == 1
PhaseParsedError == 2
PhaseParsed      == 3
PhaseTypedError  == 4
PhaseTyped       == 5
PhaseIfaceLoaded == 6
PhaseOptimized   == 7
PhaseCodeGen     == 8
PhaseLinked      == 9
isErrorPhase(p)  == p \in {PhaseParsedError, PhaseTypedError}

Cores == SUBSET (Modules \X Texts)

Module == [phase : PhaseInit..PhaseLinked,  (* modPhase                    *)
           text  : Texts,                   (* modSource                   *)
           deps  : SUBSET Modules,          (* modDeps                     *)
           core  : Cores,                   (* modCore; {} for Nothing     *)
           inl   : BOOLEAN,                 (* modInlines is not Right []  *)
           err   : BOOLEAN]                 (* modErrors has an error      *)

Stages == {"parse", "tcheck", "optimize", "codegen", "link"}

VARIABLES
  src,        (* text of each source file                                  *)
  iface,      (* .kki files: core, and whether newer than the source       *)
  gen,        (* generated .c and .h files: the core they were made from   *)
  ctx,        (* buildcModules; during a build, what the threads start at  *)
  dirty,      (* sources edited since the context last looked at them      *)
  goal,       (* "none", or the stage that the running build ends with     *)
  pc,         (* the next stage of each module's thread                    *)
  mod,        (* the module as its thread has compiled it                  *)
  link,       (* modules whose code this build generated                   *)
  maps,       (* the MVars of each stage that are filled                   *)
  work,       (* envWorkDone                                               *)
  concurrent, (* maxConcurrency > 1                                        *)
  edits, builds, failures   (* counted up to their bounds                  *)

disk    == <<src, iface, gen>>
threads == <<pc, mod, link, maps, work>>
bounds  == <<edits, builds, failures>>
vars    == <<disk, ctx, dirty, goal, threads, concurrent, bounds>>

NoFiles == [m \in {} |-> {}]
NoMaps  == [s \in Stages |-> NoFiles]
Empty   == [m \in {} |-> {}]

Init ==
  /\ src = [m \in Modules |-> Original] /\ iface = NoFiles /\ gen = NoFiles
  /\ ctx = Empty /\ dirty = {} /\ goal = "none"
  /\ pc = Empty /\ mod = Empty /\ link = {} /\ maps = NoMaps /\ work = 0
  /\ concurrent \in BOOLEAN
  /\ edits = 0 /\ builds = 0 /\ failures = 0

Without(files, m) == Restrict(files, DOMAIN files \ {m})
With(files, m, f) == [d \in DOMAIN files \cup {m} |-> IF d = m THEN f ELSE files[d]]

(* The least set of modules that satisfies P.                              *)
Least(P(_)) == {m \in Modules : \A S \in SUBSET Modules : P(S) => m \in S}

(* Core imports: the imports and what they import publicly, in turn.       *)
CoreImports == [m \in Modules |->
  Least(LAMBDA S : Imports[m] \subseteq S /\ \A d \in S : Pub[d] \subseteq S)]

(* Everything a module imports, and itself.                                *)
Reach == [m \in Modules |->
  Least(LAMBDA S : m \in S /\ \A d \in S : Imports[d] \subseteq S)]

modImportNames(m, v) == IF v.core = {} THEN {} ELSE CoreImports[m]

-----------------------------------------------------------------------------
(* Validation                                                              *)

Reset(v) == [v EXCEPT !.phase = PhaseInit, !.err = FALSE, !.inl = FALSE]

Created(m) == [phase |-> PhaseInit, text |-> src[m], deps |-> {},
               core |-> {}, inl |-> FALSE, err |-> FALSE]

moduleValidate(m) ==
  IF m \notin DOMAIN ctx THEN Created(m)
  ELSE IF m \in dirty THEN Reset(ctx[m]) ELSE ctx[m]

moduleLex(m, v) ==
  IF src[m] \in Unlexable
  THEN [v EXCEPT !.phase = PhaseInit, !.text = src[m], !.err = TRUE]
  ELSE [v EXCEPT !.phase = PhaseLexed, !.text = src[m],
                 !.deps = Imports[m], !.err = FALSE]

(* The interface; without inline definitions there is nothing left to do.  *)
moduleLoadIface(m, v) ==
  [v EXCEPT !.phase = IF m \in Inlined THEN PhaseIfaceLoaded ELSE PhaseLinked,
            !.deps = CoreImports[m], !.core = iface[m].core,
            !.inl = m \in Inlined, !.err = FALSE]

moduleLoad(m, forced) ==
  LET v     == moduleValidate(m)
      force == m \in forced \/ isErrorPhase(v.phase)
  IN  IF v.phase >= PhaseLexed /\ ~force THEN v
      ELSE IF m \in DOMAIN iface /\ iface[m].newer /\ ~force
           THEN moduleLoadIface(m, v) ELSE moduleLex(m, v)

(* The modules that the roots need, as far as their imports are known.     *)
Needed(forced) ==
  Least(LAMBDA S : /\ Roots \subseteq S
                   /\ \A m \in S : moduleLoad(m, forced).deps \subseteq S)

(* Faulty: modules are kept although an import was reloaded.               *)
validateDependencies_Off(forced) == [m \in Needed(forced) |-> moduleLoad(m, forced)]

(* A module that is ahead of one it imports is reloaded from its source,   *)
(* which may leave those that import it ahead in turn: the fold over the   *)
(* modules in build order reloads the least set with all of these.         *)
Reloaded(m, forced) == moduleLex(m, moduleLoad(m, forced))

Outdated(forced) ==
  Least(LAMBDA S : \A m \in Modules :
    LET v        == moduleLoad(m, forced)
        phase(d) == (IF d \in S THEN Reloaded(d, forced) ELSE moduleLoad(d, forced)).phase
    IN  v.phase >= PhaseLexed /\ (\E d \in v.deps : phase(d) < v.phase) => m \in S)

validateDependencies(forced) ==
  [m \in Needed(forced) |-> IF m \in Outdated(forced) THEN Reloaded(m, forced)
                                                     ELSE moduleLoad(m, forced)]

-----------------------------------------------------------------------------
(* The threads of a build                                                  *)

(* moduleGuard: a stage does its work on modules that are in these phases, *)
(* at least Expect and below Target, and passes others on.                 *)
Expect == [s \in Stages |-> CASE s = "parse"    -> PhaseLexed
                              [] s = "tcheck"   -> PhaseParsed
                              [] s = "optimize" -> PhaseTyped
                              [] s = "codegen"  -> PhaseOptimized
                              [] s = "link"     -> PhaseCodeGen]
Target == [s \in Stages |-> CASE s = "parse"    -> PhaseParsed
                              [] s = "tcheck"   -> PhaseTyped
                              [] s = "optimize" -> PhaseOptimized
                              [] s = "codegen"  -> PhaseCodeGen
                              [] s = "link"     -> PhaseLinked]

phaseWorkUnit == [s \in Stages |-> CASE s = "tcheck" -> 2 [] s = "link" -> 3
                                     [] OTHER -> 1]

phaseTotalWork(s) == IF s = "link" THEN 8 ELSE 3

After(s) == IF s = goal THEN "end"
            ELSE CASE s = "parse"    -> "tcheck"  [] s = "tcheck"  -> "optimize"
                   [] s = "optimize" -> "codegen" [] s = "codegen" -> "link"

Later == [s \in Stages |-> {r \in Stages : Target[r] > Target[s]}]

(* Without concurrency the modules are compiled one after the other.       *)
Turn(m) == concurrent \/ \A d \in DOMAIN pc : Rank[d] < Rank[m] => pc[d] = "end"

At(m, s) == m \in DOMAIN pc /\ pc[m] = s /\ Turn(m)

Guarded(m, s) == mod[m].phase < Expect[s] \/ mod[m].phase >= Target[s]

(* done: fill the MVar and go on to the next stage.                        *)
Done(m, s, v) ==
  /\ m \notin DOMAIN maps[s]
  /\ maps' = [maps EXCEPT ![s] = With(@, m, v)]
  /\ mod' = [mod EXCEPT ![m] = v]
  /\ pc'  = [pc EXCEPT ![m] = After(s)]
  /\ work' = work + phaseWorkUnit[s]
  /\ UNCHANGED <<src, ctx, dirty, goal, concurrent, edits, builds>>

Fails == failures < MaxFailures /\ failures' = failures + 1
Works == UNCHANGED failures

PassOn(m) ==
  \E s \in Stages :
    /\ At(m, s) /\ Guarded(m, s) /\ Done(m, s, mod[m])
    /\ Works /\ UNCHANGED <<iface, gen, link>>

moduleParse(m) ==
  /\ At(m, "parse") /\ ~Guarded(m, "parse")
  /\ \/ Works /\ Done(m, "parse", [mod[m] EXCEPT !.phase = PhaseParsed])
     \/ \E p \in {PhaseParsedError, PhaseParsed} :   (* a wrong name is an error too *)
          Fails /\ Done(m, "parse", [mod[m] EXCEPT !.phase = p, !.err = TRUE])
  /\ UNCHANGED <<iface, gen, link>>

(* The modules a stage reads from the MVars of stage s: those in first,    *)
(* and what next says of each that has been read.  They are Ready when all *)
(* MVars among them are filled, and Behind when one is not at phase p.     *)
Reads(s, first, next(_, _)) ==
  Least(LAMBDA S : /\ first \subseteq S
                   /\ \A d \in S \cap DOMAIN maps[s] : next(d, maps[s][d]) \subseteq S)

Ready(s, reads)     == reads \subseteq DOMAIN maps[s]
Behind(s, reads, p) == \E d \in reads : maps[s][d].phase < p

moduleWaitForPubImports(m) ==
  Reads("tcheck", mod[m].deps,
        LAMBDA d, v : IF v.core = {} THEN {} ELSE Pub[d])

moduleWaitForInlineImports(m) ==
  LET direct == modImportNames(m, mod[m])
  IN  Reads("optimize", direct,
            LAMBDA d, v : IF d \in direct /\ v.inl THEN modImportNames(d, v) ELSE {})

(* Faulty: only the imports themselves.                                    *)
moduleWaitForImports_Direct(m, s) == modImportNames(m, mod[m])

moduleWaitForImports(m, s) ==
  Reads(s, modImportNames(m, mod[m]), LAMBDA d, v : modImportNames(d, v))

moduleTypeCheck(m) ==
  LET imports == moduleWaitForPubImports(m)
      core == {<<m, mod[m].text>>} \cup UNION {maps["tcheck"][d].core : d \in imports}
  IN  /\ At(m, "tcheck") /\ ~Guarded(m, "tcheck") /\ Ready("tcheck", imports)
      /\ IF Behind("tcheck", imports, PhaseTyped)
         THEN Works /\ Done(m, "tcheck", mod[m])
         ELSE \/ /\ Works
                 /\ Done(m, "tcheck", [mod[m] EXCEPT !.phase = PhaseTyped, !.core = core])
              \/ /\ Fails
                 /\ Done(m, "tcheck", [mod[m] EXCEPT !.phase = PhaseTypedError,
                                                     !.err = TRUE])
      /\ UNCHANGED <<iface, gen, link>>

(* The thread of m ends with result v; the MVars of the stages filled get  *)
(* the module as it is if it is that of stage s, else as the build found   *)
(* it; n units of work are reported.                                       *)
End(m, s, filled, v, n) ==
  /\ Fails
  /\ maps' = [r \in Stages |->
                IF r \notin filled THEN maps[r]
                ELSE [d \in DOMAIN maps[r] \cup {m} |->
                        IF d # m THEN maps[r][d]
                        ELSE IF r = s THEN mod[m] ELSE ctx[m]]]
  /\ mod' = [mod EXCEPT ![m] = v]
  /\ pc'  = [pc EXCEPT ![m] = "end"]
  /\ work' = work + n
  /\ UNCHANGED <<src, ctx, dirty, goal, link, concurrent, edits, builds>>

Rest(s)   == {s} \cup Later[s]
Failed(m) == [ctx[m] EXCEPT !.err = TRUE]
RestWork  == [optimize |-> 5, codegen |-> 4, link |-> 3]

(* Faulty: only the MVar of the stage itself is filled, the error is lost,  *)
(* or the module keeps the phase it had reached.                           *)
Throw_OneMVar(m, s)    == End(m, s, {s}, Failed(m), RestWork[s])
Throw_NoError(m, s)    == End(m, s, Rest(s), ctx[m], RestWork[s])
Throw_KeepsPhase(m, s) == End(m, s, Rest(s), [mod[m] EXCEPT !.err = TRUE], RestWork[s])

(* An exception in a stage: the guards around it fill the MVars of later   *)
(* stages too, and the module as it was before the build gets the error.   *)
Throw(m, s) == End(m, s, Rest(s), Failed(m), RestWork[s])

(* For an interface it is the inline definitions that are parsed.          *)
moduleOptimize(m) ==
  LET imports == moduleWaitForInlineImports(m)
  IN  /\ At(m, "optimize") /\ ~Guarded(m, "optimize") /\ Ready("optimize", imports)
      /\ IF Behind("optimize", imports, PhaseOptimized)
         THEN Works /\ Done(m, "optimize", mod[m]) /\ UNCHANGED link
         ELSE IF mod[m].phase = PhaseIfaceLoaded
         THEN /\ \/ Works /\ Done(m, "optimize", [mod[m] EXCEPT !.phase = PhaseLinked])
                 \/ Fails /\ Done(m, "optimize", [mod[m] EXCEPT !.phase = PhaseLinked,
                                                     !.inl = FALSE, !.err = TRUE])
              /\ UNCHANGED link
         ELSE \/ /\ Works /\ UNCHANGED link
                 /\ Done(m, "optimize", [mod[m] EXCEPT !.phase = PhaseOptimized,
                                                       !.inl = m \in Inlined])
              \/ Throw(m, "optimize")
      /\ UNCHANGED <<iface, gen>>

(* The interface is removed first.  An exception leaves no usable code.    *)
(* That imports are Behind is checked in the code, but cannot be: they are *)
(* among those that optimisation waited for.                               *)
moduleCodeGen(m) ==
  /\ At(m, "codegen") /\ ~Guarded(m, "codegen")
  /\ Ready("optimize", modImportNames(m, mod[m]))
  /\ \/ /\ Works /\ gen' = With(gen, m, mod[m].core) /\ link' = link \cup {m}
        /\ Done(m, "codegen", [mod[m] EXCEPT !.phase = PhaseCodeGen])
     \/ Throw(m, "codegen") /\ gen' = Without(gen, m)
  /\ iface' = Without(iface, m)

(* An executable is linked for a module with a main entry (isJust mbEntry).*)
FullLink(m) == m \in Entries /\ m \in link

(* Linking compiles the generated code, which reads that of all imports,   *)
(* and writes the interface; that of an executable stays when copying the  *)
(* executable then fails.  An executable needs all imports linked.  A      *)
(* module that was at PhaseCodeGen already has nothing to link (noLink).   *)
moduleLink(m) ==
  LET fullLink == FullLink(m)
      s        == IF fullLink THEN "link" ELSE "codegen"
      imports  == moduleWaitForImports(m, s)
      kki      == [core |-> mod[m].core, newer |-> TRUE]
  IN  /\ At(m, "link") /\ ~Guarded(m, "link") /\ Ready(s, imports)
      /\ IF Behind(s, imports, IF fullLink THEN PhaseLinked ELSE PhaseCodeGen)
         THEN Works /\ Done(m, "link", mod[m]) /\ UNCHANGED <<iface, link>>
         ELSE \/ /\ Works /\ Done(m, "link", [mod[m] EXCEPT !.phase = PhaseLinked])
                 /\ iface' = IF m \in link THEN With(iface, m, kki) ELSE iface
                 /\ UNCHANGED link
              \/ m \in link /\ Throw(m, "link") /\ UNCHANGED iface
              \/ fullLink /\ Throw(m, "link") /\ iface' = With(iface, m, kki)
      /\ UNCHANGED gen

Thread(m) == PassOn(m) \/ moduleParse(m) \/ moduleTypeCheck(m) \/ moduleOptimize(m)
               \/ moduleCodeGen(m) \/ moduleLink(m)

-----------------------------------------------------------------------------
(* Builds, edits and restarts                                              *)

Idle == goal = "none"

(* buildcBuildEx, or buildcTypeCheck when s is "tcheck".                   *)
Start(s, forced) ==
  /\ Idle /\ builds < MaxBuilds /\ builds' = builds + 1
  /\ goal'  = s
  /\ ctx'   = validateDependencies(forced)
  /\ mod'   = ctx'
  /\ dirty' = dirty \ DOMAIN ctx'
  /\ pc'    = [m \in DOMAIN ctx' |-> "parse"]
  /\ maps'  = NoMaps /\ link' = {} /\ work' = 0
  /\ UNCHANGED <<disk, concurrent, edits, failures>>

Finish ==
  /\ ~Idle /\ \A m \in DOMAIN pc : pc[m] = "end"
  /\ goal' = "none" /\ ctx' = mod
  /\ pc' = Empty /\ mod' = Empty /\ link' = {} /\ maps' = NoMaps
  /\ UNCHANGED <<disk, dirty, work, concurrent, bounds>>

(* A source file is saved, between builds.                                 *)
Edit(m, t) ==
  /\ Idle /\ edits < MaxEdits /\ edits' = edits + 1
  /\ t # src[m] /\ src' = [src EXCEPT ![m] = t]
  /\ dirty' = dirty \cup {m}
  /\ iface' = IF m \in DOMAIN iface THEN [iface EXCEPT ![m].newer = FALSE] ELSE iface
  /\ UNCHANGED <<gen, ctx, goal, threads, concurrent, builds, failures>>

BuiltClean == Idle /\ \A m \in DOMAIN ctx : ctx[m].phase = PhaseLinked /\ ~ctx[m].err

(* A new process, with an empty context; the old one may be interrupted.   *)
Restart ==
  /\ CleanRestarts => BuiltClean
  /\ DOMAIN ctx # {}
  /\ ctx' = Empty /\ dirty' = {} /\ goal' = "none"
  /\ pc' = Empty /\ mod' = Empty /\ link' = {} /\ maps' = NoMaps /\ work' = 0
  /\ UNCHANGED <<disk, concurrent, bounds>>

Next ==
  \/ \E s \in {"tcheck", "link"}, forced \in {{}, Roots} : Start(s, forced)
  \/ \E m \in Modules : Thread(m)
  \/ Finish
  \/ \E m \in Modules, t \in Texts : Edit(m, t)
  \/ Restart

Spec == Init /\ [][Next]_vars

(* Threads that can go on do, and a build whose threads have ended ends.   *)
FairSpec == Spec /\ WF_vars(Finish) /\ \A m \in Modules : WF_vars(Thread(m))

-----------------------------------------------------------------------------
(* Properties                                                              *)

Holds(f, F) == DOMAIN f \subseteq Modules /\ f \in [DOMAIN f -> F]

(* All state has its type; a build has work of 8 units per module at most. *)
TypeOK ==
  /\ src \in [Modules -> Texts]
  /\ Holds(iface, [core : Cores, newer : BOOLEAN]) /\ Holds(gen, Cores)
  /\ Holds(ctx, Module) /\ Holds(mod, Module)
  /\ Holds(pc, Stages \cup {"end"}) /\ DOMAIN pc = DOMAIN mod
  /\ DOMAIN maps = Stages /\ \A s \in Stages : Holds(maps[s], Module)
  /\ dirty \subseteq Modules /\ link \subseteq Modules
  /\ goal \in {"none", "tcheck", "link"} /\ concurrent \in BOOLEAN
  /\ work \in 0..8 * Cardinality(Modules)
  /\ edits \in 0..MaxEdits /\ builds \in 0..MaxBuilds /\ failures \in 0..MaxFailures

(* Between builds, every compiled module of the context was compiled from  *)
(* the texts that its own source and those of all it imports, directly or  *)
(* not, have now, unless they were edited since that build: interfaces on  *)
(* disk and modules in memory are never reused after an import changed.    *)
Fresh ==
  Idle => \A m \in DOMAIN ctx : ctx[m].phase >= PhaseTyped =>
    /\ {p[1] : p \in ctx[m].core} = Reach[m]
    /\ \A p \in ctx[m].core : p[1] \notin dirty => p[2] = src[p[1]]

(* A linked module, in the context or in a thread, has on disk the         *)
(* interface of just its core, whatever failed or was interrupted before.  *)
LinkedHasInterface ==
  \A m \in Modules : \A f \in IF Idle THEN {ctx} ELSE {mod} :
    m \in DOMAIN f /\ f[m].phase = PhaseLinked =>
      m \in DOMAIN iface /\ iface[m].core = f[m].core

(* When a module is linked, the generated code of everything it imports is *)
(* there, made from the very cores that the module was compiled against;   *)
(* and for an executable all of that has been linked before.               *)
LinkReadsMatchingCode ==
  [][\A m \in link :
       m \in DOMAIN mod' /\ mod[m].phase < PhaseLinked /\ mod'[m].phase = PhaseLinked =>
         \A d \in Reach[m] :
           /\ d \in DOMAIN gen /\ gen[d] \subseteq mod[m].core
           /\ m \in Entries /\ d # m => d \in DOMAIN iface /\ iface[d].core = gen[d]]_vars

(* A build that ends has taken every module to the phase it was for, or    *)
(* some module has an error: modules are not left behind silently. When    *)
(* its threads have ended, each stage of each module has reported its work *)
(* exactly once, whatever failed on the way.                               *)
OutcomeReported ==
  [][/\ goal # "none" /\ goal' = "none" =>
          \/ \A m \in DOMAIN ctx' : ctx'[m].phase >= Target[goal]
          \/ \E m \in DOMAIN ctx' : ctx'[m].err
     /\ ~Idle /\ (\A m \in DOMAIN pc : pc[m] = "end") =>
          work = phaseTotalWork(goal) * Cardinality(DOMAIN ctx)]_vars

(* A build returns, with concurrency and without, whatever stages fail.    *)
BuildReturns == ~Idle ~> Idle
=============================================================================
