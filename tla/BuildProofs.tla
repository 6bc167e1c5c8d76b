----------------------------- MODULE BuildProofs -----------------------------
(***************************************************************************)
(* Proofs about Build, for any acyclic import graph, any roots, any number *)
(* of edits, builds, failures and restarts, with concurrency or without.   *)
(*                                                                         *)
(* BuildInv says where each thread is (Staged), what validation hands to   *)
(* the threads (Validated, Lexable), that a thread never takes a module    *)
(* back behind what the build found (Steady), why a module was left behind *)
(* (Explained), what is on disk (Linked), that generated code is not left  *)
(* unlinked without a reason (Unlinked), and what the work adds up to      *)
(* (Accounted).  Current and Generated say how fresh cores are, and that   *)
(* generated code agrees with interfaces and modules.                      *)
(***************************************************************************)
EXTENDS Build, FiniteSetTheorems, WellFoundedInduction, TLAPS

(* The interface of m is newer than its source.                             *)
Newer(m) == m \in DOMAIN iface /\ iface[m].newer

(* The type invariant, but for the bound on the work, which takes counting. *)
Types ==
  /\ src \in [Modules -> Texts]
  /\ Holds(iface, [core : Cores, newer : BOOLEAN]) /\ Holds(gen, Cores)
  /\ Holds(ctx, Module) /\ Holds(mod, Module)
  /\ Holds(pc, Stages \cup {"end"}) /\ DOMAIN pc = DOMAIN mod
  /\ DOMAIN maps = Stages /\ \A s \in Stages : Holds(maps[s], Module)
  /\ dirty \subseteq Modules /\ link \subseteq Modules
  /\ goal \in {"none", "tcheck", "link"} /\ concurrent \in BOOLEAN
  /\ work \in Nat
  /\ edits \in 0..MaxEdits /\ builds \in 0..MaxBuilds /\ failures \in 0..MaxFailures

(* The stages that module m is past.                                       *)
Past(m) == {s \in Stages : IF pc[m] = "end" THEN Target[s] <= Target[goal]
                                            ELSE Target[s] < Target[pc[m]]}

(* A build has a thread for each module of its context, and an MVar is     *)
(* filled once its module is past the stage.                               *)
Staged ==
  /\ IF Idle THEN DOMAIN pc = {} ELSE DOMAIN pc = DOMAIN ctx
  /\ link \subseteq DOMAIN maps["codegen"]
  /\ \A s \in Stages : DOMAIN maps[s] \subseteq DOMAIN pc
  /\ \A m \in DOMAIN pc :
       /\ pc[m] # "end" => Target[pc[m]] <= Target[goal]
       /\ \A s \in Stages : m \in DOMAIN maps[s] <=> s \in Past(m)

(* What a build validated: a module knows its imports, which are in the    *)
(* context and no further back than it.                                    *)
Validated ==
  \A m \in DOMAIN ctx :
    /\ ctx[m].deps \subseteq CoreImports[m] \cap DOMAIN ctx
    /\ ctx[m].phase >= PhaseLexed => Imports[m] \subseteq ctx[m].deps
    /\ ~Idle /\ ctx[m].phase > PhaseLexed =>
         \A d \in ctx[m].deps : ctx[d].phase >= ctx[m].phase
    /\ ~Idle => /\ m \notin dirty
                /\ ~isErrorPhase(ctx[m].phase) /\ ctx[m].phase # PhaseCodeGen
                /\ ctx[m].phase = PhaseInit => ctx[m].err

(* An interface is newer only than a source that was not edited since, and *)
(* a module that is not behind its source is as lexable as the source.     *)
Lexable ==
  /\ \A m \in Modules : Newer(m) => m \notin dirty /\ src[m] \notin Unlexable
  /\ \A m \in DOMAIN ctx \ dirty : ctx[m].phase = PhaseInit <=> src[m] \in Unlexable

(* A thread never takes a module back to before the build.                 *)
Steady ==
  \A m \in DOMAIN pc :
    /\ mod[m].phase >= ctx[m].phase /\ mod[m].deps = ctx[m].deps
    /\ ctx[m].phase = PhaseInit => mod[m].phase = PhaseInit
    /\ ctx[m].phase \in {PhaseIfaceLoaded, PhaseLinked} =>
         mod[m].phase \in {PhaseIfaceLoaded, PhaseLinked} /\ mod[m].core = ctx[m].core
    /\ ctx[m].err => mod[m].err
    /\ mod[m].phase = PhaseCodeGen => m \in link
    /\ \A s \in Stages : m \in DOMAIN maps[s] =>
         /\ maps[s][m].phase < Target[s] => mod[m].phase < Target[s]
         /\ s = "link" /\ maps[s][m].phase = PhaseLinked => mod[m].phase = PhaseLinked

(* A module with an error, or short of a stage that it is past.            *)
Lost(m) ==
  m \in DOMAIN pc /\ (mod[m].err \/ \E s \in Past(m) : mod[m].phase < Target[s])

(* Modules fall behind for an error, of their own or of an import.         *)
Explained ==
  \A m \in DOMAIN pc : Lost(m) =>
    mod[m].err \/ \E d \in DOMAIN pc : Rank[d] < Rank[m] /\ Lost(d)

(* A module at these phases has its interface on disk.                     *)
HasInterface(m, v) ==
  v.phase \in {PhaseIfaceLoaded, PhaseLinked} => m \in DOMAIN iface /\ iface[m].core = v.core

Linked ==
  /\ \A m \in DOMAIN pc : HasInterface(m, mod[m])
  /\ \A m \in DOMAIN ctx : Idle => HasInterface(m, ctx[m])

(* An import whose code was not generated.                                 *)
Missing(m, d) ==
  d \in Reach[m] \ {m} /\ d \in DOMAIN maps["codegen"] /\ mod[d].phase < PhaseCodeGen

(* Generated code is only left unlinked for an import that has none.       *)
Unlinked ==
  /\ \A m \in DOMAIN maps["link"] : mod[m].phase = PhaseCodeGen => \E d \in Modules : Missing(m, d)
  /\ \A m \in DOMAIN ctx : Idle /\ ctx[m].phase = PhaseCodeGen =>
       \E d \in Reach[m] \cap DOMAIN ctx : ctx[d].phase < PhaseCodeGen

(* The work of the MVars that are filled, and its account.                 *)
Units(f) == Cardinality(DOMAIN f["parse"]) + 2 * Cardinality(DOMAIN f["tcheck"])
              + Cardinality(DOMAIN f["optimize"]) + Cardinality(DOMAIN f["codegen"])
              + 3 * Cardinality(DOMAIN f["link"])

Accounted ==
  /\ ~Idle => work = Units(maps)
  /\ work <= 8 * Cardinality(Modules)

(* The modules that the roots need, and whether the context has them all:  *)
(* it may not when the imports of a module could not be read.              *)
All == UNION {Reach[r] : r \in Roots}

AllKnown == DOMAIN ctx \in {{}, All}

(* The core of m has all that it needs to have, and of the modules in S it *)
(* has the present text.                                                   *)
FreshCore(m, core, S) ==
  {p[1] : p \in core} = Reach[m] /\ \A p \in core : p[1] \in S => p[2] = src[p[1]]

FreshModule(m, v, S) ==
  /\ v.phase \in PhaseLexed..PhaseTypedError /\ m \in S => v.text = src[m]
  /\ v.phase >= PhaseTyped => FreshCore(m, v.core, S)

(* A thread works on fresh modules only.  Between builds the context is    *)
(* fresh but for what was edited since, and when there is no context, so   *)
(* are the interfaces that the next process will find.                     *)
Current ==
  /\ DOMAIN ctx = {} => \A m \in DOMAIN iface \cap All :
       FreshCore(m, iface[m].core, {n \in Modules : Newer(n)})
  /\ \A m \in DOMAIN ctx : FreshModule(m, ctx[m], Modules \ dirty)
  /\ \A m \in DOMAIN pc :
       /\ FreshModule(m, ctx[m], Modules) /\ FreshModule(m, mod[m], Modules)
       /\ \A s \in Stages : m \in DOMAIN maps[s] => FreshModule(m, maps[s][m], Modules)

(* Code is generated from the core of the interface, and of the module.    *)
HasCode(m, core) == m \in DOMAIN gen /\ gen[m] = core

Generated ==
  /\ \A m \in DOMAIN iface : HasCode(m, iface[m].core)
  /\ \A m \in DOMAIN pc : mod[m].phase >= PhaseCodeGen => HasCode(m, mod[m].core)
  /\ \A m \in DOMAIN maps["codegen"] :
       maps["codegen"][m].phase >= PhaseCodeGen => HasCode(m, maps["codegen"][m].core)

-----------------------------------------------------------------------------
LEMMA StageFacts ==
  /\ Target["parse"] = 3 /\ Target["tcheck"] = 5 /\ Target["optimize"] = 7
  /\ Target["codegen"] = 8 /\ Target["link"] = 9
  /\ Expect["parse"] = 1 /\ Expect["tcheck"] = 3 /\ Expect["optimize"] = 5
  /\ Expect["codegen"] = 7 /\ Expect["link"] = 8
BY DEF Target, Expect, Stages, PhaseLexed, PhaseParsed, PhaseTyped, PhaseOptimized,
       PhaseCodeGen, PhaseLinked

LEMMA AfterStage ==
  ASSUME NEW s \in Stages, goal \in {"tcheck", "link"}, Target[s] <= Target[goal]
  PROVE  /\ After(s) = "end" <=> s = goal
         /\ After(s) # "end" => /\ After(s) \in Stages /\ Expect[After(s)] = Target[s]
                                /\ Target[After(s)] <= Target[goal]
         /\ \A r \in Stages : (r = s \/ Target[r] < Target[s]) <=>
              IF After(s) = "end" THEN Target[r] <= Target[goal]
                                  ELSE Target[r] < Target[After(s)]
BY StageFacts, SMTT(30) DEF After, Stages

LEMMA ReachSelf ==
  ASSUME NEW m \in Modules
  PROVE  /\ m \in Reach[m] /\ Reach[m] \subseteq Modules
         /\ \A d \in Reach[m] : Imports[d] \subseteq Reach[m]
BY BuildAssumption DEF Reach, Least

LEMMA ReachLeast ==
  ASSUME NEW m \in Modules, NEW S \in SUBSET Modules, m \in S,
         \A d \in S : Imports[d] \subseteq S
  PROVE  Reach[m] \subseteq S
BY DEF Reach, Least

LEMMA ReachTransitive ==
  ASSUME NEW m \in Modules, NEW d \in Reach[m]
  PROVE  Reach[d] \subseteq Reach[m]
BY ReachSelf, ReachLeast

LEMMA ReachLower ==
  ASSUME NEW m \in Modules, NEW d \in Reach[m] \ {m}
  PROVE  Rank[d] < Rank[m]
<1> DEFINE S == {e \in Modules : e = m \/ Rank[e] < Rank[m]}
<1>1. ASSUME NEW e \in S, NEW i \in Imports[e] PROVE i \in S
  BY BuildAssumption
<1>2. Reach[m] \subseteq S BY <1>1, ReachLeast
<1> QED BY <1>2

LEMMA CoreImportsFacts ==
  ASSUME NEW m \in Modules
  PROVE  Imports[m] \subseteq CoreImports[m] /\ CoreImports[m] \subseteq Reach[m] \ {m}
<1>1. Imports[m] \subseteq CoreImports[m] BY BuildAssumption DEF CoreImports, Least
<1> DEFINE S == Reach[m] \ {m}
<1>2. Imports[m] \subseteq S BY ReachSelf, BuildAssumption
<1>3. ASSUME NEW d \in S, NEW p \in Pub[d] PROVE p \in S
  BY ReachSelf, ReachLower, BuildAssumption
<1>4. S \in SUBSET Modules BY ReachSelf
<1>5. CoreImports[m] \subseteq S BY <1>2, <1>3, <1>4 DEF CoreImports, Least
<1> QED BY <1>1, <1>5

(* Every stage waits for modules that its module imports, directly or not. *)
LEMMA Below ==
  ASSUME NEW m \in Modules, NEW d \in Reach[m] \ {m}
  PROVE  Reach[d] \subseteq Reach[m] \ {m}
BY ReachTransitive, ReachLower, ReachSelf, BuildAssumption

LEMMA PubReads ==
  ASSUME NEW m \in Modules, mod[m].deps \subseteq CoreImports[m]
  PROVE  /\ mod[m].deps \subseteq moduleWaitForPubImports(m)
         /\ moduleWaitForPubImports(m) \subseteq Reach[m] \ {m}
<1> DEFINE S == Reach[m] \ {m}
<1>1. S \in SUBSET Modules /\ mod[m].deps \subseteq S BY ReachSelf, CoreImportsFacts
<1>2. ASSUME NEW d \in S, NEW p \in Pub[d] PROVE p \in S
  BY Below, ReachSelf, <1>1, BuildAssumption
<1>3. moduleWaitForPubImports(m) \subseteq S
  BY <1>1, <1>2 DEF moduleWaitForPubImports, Reads, Least
<1>4. mod[m].deps \subseteq moduleWaitForPubImports(m)
  BY <1>1 DEF moduleWaitForPubImports, Reads, Least
<1> QED BY <1>3, <1>4

LEMMA InlineReads ==
  ASSUME NEW m \in Modules
  PROVE  moduleWaitForInlineImports(m) \subseteq Reach[m] \ {m}
<1> DEFINE S == Reach[m] \ {m}
<1>1. S \in SUBSET Modules /\ modImportNames(m, mod[m]) \subseteq S
  BY ReachSelf, CoreImportsFacts DEF modImportNames
<1>2. ASSUME NEW d \in S, NEW v PROVE modImportNames(d, v) \subseteq S
  BY Below, CoreImportsFacts, <1>1 DEF modImportNames
<1>3. moduleWaitForInlineImports(m) \subseteq S
  BY <1>1, <1>2 DEF moduleWaitForInlineImports, Reads, Least
<1> QED BY <1>3

LEMMA ImportReads ==
  ASSUME NEW m \in Modules, NEW s \in Stages
  PROVE  /\ moduleWaitForImports(m, s) \subseteq Reach[m] \ {m}
         /\ modImportNames(m, mod[m]) \subseteq moduleWaitForImports(m, s)
         /\ \A d \in moduleWaitForImports(m, s) \cap DOMAIN maps[s] :
              modImportNames(d, maps[s][d]) \subseteq moduleWaitForImports(m, s)
<1> DEFINE S == Reach[m] \ {m}
<1> DEFINE R == moduleWaitForImports(m, s)
<1>1. S \in SUBSET Modules /\ modImportNames(m, mod[m]) \subseteq S
  BY ReachSelf, CoreImportsFacts DEF modImportNames
<1>2. ASSUME NEW d \in S, NEW v PROVE modImportNames(d, v) \subseteq S
  BY Below, CoreImportsFacts, <1>1 DEF modImportNames
<1>3. R \subseteq S BY <1>1, <1>2 DEF moduleWaitForImports, Reads, Least
<1>4. modImportNames(m, mod[m]) \subseteq R
  BY <1>1 DEF moduleWaitForImports, Reads, Least
<1>5. ASSUME NEW d \in R \cap DOMAIN maps[s] PROVE modImportNames(d, maps[s][d]) \subseteq R
  <2>1. modImportNames(d, maps[s][d]) \subseteq Modules BY <1>2, <1>3, <1>1
  <2> QED BY <2>1 DEF moduleWaitForImports, Reads, Least
<1> QED BY <1>3, <1>4, <1>5

-----------------------------------------------------------------------------
(* What the step of a thread does: all that is not its module's stays.     *)
Frame(m) ==
  /\ m \in Modules /\ m \in DOMAIN pc /\ pc[m] \in Stages
  /\ DOMAIN pc' = DOMAIN pc /\ DOMAIN mod' = DOMAIN mod /\ DOMAIN maps' = Stages
  /\ \A d \in DOMAIN pc \ {m} : pc'[d] = pc[d] /\ mod'[d] = mod[d]
  /\ \A s \in Stages : /\ DOMAIN maps[s] \subseteq DOMAIN maps'[s]
                       /\ DOMAIN maps'[s] \subseteq DOMAIN maps[s] \cup {m}
                       /\ \A d \in DOMAIN maps[s] : maps'[s][d] = maps[s][d]
  /\ UNCHANGED <<src, ctx, dirty, goal, concurrent, edits, builds>>

(* Its files stay, too.                                                    *)
FileFrame(m) == \A d \in Modules \ {m} :
  /\ d \in DOMAIN iface <=> d \in DOMAIN iface'
  /\ d \in DOMAIN iface => iface'[d] = iface[d]
  /\ d \in DOMAIN gen <=> d \in DOMAIN gen'
  /\ d \in DOMAIN gen => gen'[d] = gen[d]

(* Stage s of module m is done, with result v.                             *)
Moves(m, s, v) ==
  /\ s \in Stages /\ pc[m] = s /\ v \in Module /\ v.deps = mod[m].deps
  /\ pc'[m] = After(s) /\ mod'[m] = v
  /\ m \notin DOMAIN maps[s] /\ m \in DOMAIN maps'[s] /\ maps'[s][m] = v
  /\ \A r \in Stages \ {s} : maps'[r] = maps[r]
  /\ work' = work + phaseWorkUnit[s]

(* A stage reads from stage r that d, which m imports, did not reach it.   *)
Lacks(m, d, r) ==
  /\ d \in Reach[m] \ {m} /\ r \in Stages /\ d \in DOMAIN maps[r]
  /\ maps[r][d].phase < Target[r]

KeepsFiles == UNCHANGED <<iface, gen, link>>

Passes(m, s) == Moves(m, s, mod[m]) /\ Guarded(m, s) /\ KeepsFiles

Waits(m, s) ==
  /\ Moves(m, s, mod[m]) /\ ~Guarded(m, s) /\ KeepsFiles
  /\ \E d \in Modules, r \in Stages :
       Lacks(m, d, r) /\ (s = "link" => r \in {"codegen", "link"})

Advances(m, s, v) ==
  /\ Moves(m, s, v) /\ ~Guarded(m, s) /\ v.text = mod[m].text
  /\ v.phase >= mod[m].phase /\ (v.phase >= Target[s] \/ v.err) /\ (mod[m].err => v.err)

Parses(m) == \E v \in Module :
  /\ Advances(m, "parse", v) /\ KeepsFiles
  /\ v.phase \in {PhaseParsedError, PhaseParsed} /\ v.core = mod[m].core

(* All modules that were read from stage s are at phase p at least.        *)
Present(s, reads, p) == Ready(s, reads) /\ \A d \in reads : maps[s][d].phase >= p

Checked(m, v) ==
  LET imports == moduleWaitForPubImports(m)
  IN  /\ Present("tcheck", imports, PhaseTyped)
      /\ v.core = {<<m, mod[m].text>>} \cup UNION {maps["tcheck"][d].core : d \in imports}

Checks(m) == \E v \in Module :
  /\ Advances(m, "tcheck", v) /\ KeepsFiles
  /\ v.phase \in {PhaseTypedError, PhaseTyped}
  /\ v.phase = PhaseTyped => Checked(m, v)

Optimizes(m) == \E v \in Module :
  /\ Advances(m, "optimize", v) /\ KeepsFiles /\ v.core = mod[m].core
  /\ \/ mod[m].phase = PhaseTyped /\ v.phase = PhaseOptimized
     \/ mod[m].phase = PhaseIfaceLoaded /\ v.phase = PhaseLinked

Generates(m) == \E v \in Module :
  /\ Advances(m, "codegen", v) /\ v.core = mod[m].core
  /\ mod[m].phase = PhaseOptimized /\ v.phase = PhaseCodeGen
  /\ iface' = Without(iface, m) /\ gen' = With(gen, m, v.core) /\ link' = link \cup {m}

Linkable(m) ==
  LET s == IF FullLink(m) THEN "link" ELSE "codegen"
  IN  Present(s, moduleWaitForImports(m, s), Target[s])

Links(m) == \E v \in Module :
  /\ Linkable(m)
  /\ Advances(m, "link", v) /\ v.core = mod[m].core
  /\ mod[m].phase = PhaseCodeGen /\ v.phase = PhaseLinked
  /\ iface' = (IF m \in link THEN With(iface, m, [core |-> v.core, newer |-> TRUE]) ELSE iface)
  /\ UNCHANGED <<gen, link>>

(* The interface of an executable that cannot be copied stays.              *)
Written(m) == iface' = With(iface, m, [core |-> mod[m].core, newer |-> TRUE])

Breaks(m, s) ==
  /\ s \in Stages /\ pc[m] = s /\ mod[m].phase = Expect[s]
  /\ s \in {"optimize", "codegen", "link"}
  /\ pc'[m] = "end" /\ mod'[m] = Failed(m)
  /\ \A r \in Stages :
       IF r \in Rest(s) THEN /\ m \notin DOMAIN maps[r] /\ m \in DOMAIN maps'[r]
                             /\ maps'[r][m] = IF r = s THEN mod[m] ELSE ctx[m]
                        ELSE maps'[r] = maps[r]
  /\ work' = work + RestWork[s] /\ UNCHANGED link
  /\ IF s = "codegen" THEN iface' = Without(iface, m) /\ gen' = Without(gen, m)
                      ELSE UNCHANGED gen /\ (iface' = iface \/ (s = "link" /\ Written(m)))

ThreadTypes ==
  /\ Holds(mod, Module) /\ Holds(pc, Stages \cup {"end"}) /\ DOMAIN pc = DOMAIN mod
  /\ DOMAIN maps = Stages /\ \A s \in Stages : Holds(maps[s], Module)
  /\ work \in Nat

LEMMA DoneStep ==
  ASSUME Types, Staged, NEW m \in Modules, NEW s \in Stages, At(m, s),
         NEW v \in Module, v.deps = mod[m].deps, Done(m, s, v)
  PROVE  Frame(m) /\ Moves(m, s, v) /\ ThreadTypes'
<1>1. m \in DOMAIN pc /\ pc[m] = s BY DEF At
<1>2. maps' = [maps EXCEPT ![s] = With(@, m, v)] /\ mod' = [mod EXCEPT ![m] = v]
      /\ pc' = [pc EXCEPT ![m] = After(s)] /\ work' = work + phaseWorkUnit[s]
      /\ m \notin DOMAIN maps[s]
  BY DEF Done
<1>3. DOMAIN maps' = Stages /\ \A r \in Stages \ {s} : maps'[r] = maps[r]
  BY <1>2 DEF Types
<1>4. maps'[s] = With(maps[s], m, v) BY <1>2 DEF Types
<1>5. /\ DOMAIN maps'[s] = DOMAIN maps[s] \cup {m} /\ maps'[s][m] = v
      /\ \A d \in DOMAIN maps[s] : maps'[s][d] = maps[s][d]
      /\ Holds(maps'[s], Module)
  BY <1>2, <1>4 DEF With, Types, Holds
<1>6. After(s) \in Stages \cup {"end"}
  BY <1>1, AfterStage DEF Staged, Types, Idle, After, Stages
<1>7. mod'[m] = v /\ pc'[m] = After(s) /\ DOMAIN pc' = DOMAIN pc /\ DOMAIN mod' = DOMAIN mod
      /\ \A d \in DOMAIN pc \ {m} : pc'[d] = pc[d] /\ mod'[d] = mod[d]
  BY <1>1, <1>2 DEF Types, Holds
<1>8. Holds(mod', Module) /\ Holds(pc', Stages \cup {"end"})
  BY <1>1, <1>2, <1>6, <1>7 DEF Types, Holds
<1>9. work' \in Nat
  BY <1>2 DEF Types, phaseWorkUnit
<1>10. Frame(m)
  <2>1. UNCHANGED <<src, ctx, dirty, goal, concurrent, edits, builds>> BY DEF Done
  <2> QED BY <1>1, <1>3, <1>5, <1>7, <2>1 DEF Frame
<1>11. Moves(m, s, v) BY <1>1, <1>2, <1>3, <1>5, <1>7 DEF Moves
<1>12. ThreadTypes'
  <2>1. \A r \in Stages : Holds(maps'[r], Module) BY <1>3, <1>5 DEF Types
  <2> QED BY <1>3, <1>7, <1>8, <1>9, <2>1 DEF ThreadTypes, Types
<1> QED BY <1>10, <1>11, <1>12

LEMMA ThrowStep ==
  ASSUME Types, Staged, NEW m \in Modules, NEW s \in {"optimize", "codegen", "link"},
         At(m, s), Throw(m, s)
  PROVE  /\ Frame(m) /\ ThreadTypes'
         /\ pc[m] = s /\ pc'[m] = "end" /\ mod'[m] = Failed(m)
         /\ \A r \in Stages :
              IF r \in Rest(s) THEN /\ m \notin DOMAIN maps[r] /\ m \in DOMAIN maps'[r]
                                    /\ maps'[r][m] = IF r = s THEN mod[m] ELSE ctx[m]
                               ELSE maps'[r] = maps[r]
         /\ work' = work + RestWork[s] /\ UNCHANGED link
<1>1. m \in DOMAIN pc /\ pc[m] = s /\ s \in Stages BY DEF At, Stages
<1>2. m \in DOMAIN ctx /\ ctx[m] \in Module /\ mod[m] \in Module /\ Failed(m) \in Module
  <2>1. m \in DOMAIN ctx /\ ctx[m] \in Module /\ mod[m] \in Module
    BY <1>1 DEF Staged, Types, Holds, Idle
  <2>2. Failed(m) \in Module BY <2>1 DEF Failed, Module
  <2> QED BY <2>1, <2>2
<1>3. /\ maps' = [r \in Stages |->
                IF r \notin Rest(s) THEN maps[r]
                ELSE [d \in DOMAIN maps[r] \cup {m} |->
                        IF d # m THEN maps[r][d]
                        ELSE IF r = s THEN mod[m] ELSE ctx[m]]]
      /\ mod' = [mod EXCEPT ![m] = Failed(m)] /\ pc'  = [pc EXCEPT ![m] = "end"]
      /\ work' = work + RestWork[s]
      /\ UNCHANGED <<src, ctx, dirty, goal, link, concurrent, edits, builds>>
  BY DEF Throw, End
<1>4. \A r \in Rest(s) : m \notin DOMAIN maps[r]
  BY <1>1, StageFacts DEF Staged, Past, Rest, Later, Stages
<1>5. DOMAIN maps' = Stages /\ \A r \in Stages \ Rest(s) : maps'[r] = maps[r]
  BY <1>3
<1>6. ASSUME NEW r \in Stages, r \in Rest(s)
      PROVE  /\ DOMAIN maps'[r] = DOMAIN maps[r] \cup {m}
             /\ maps'[r][m] = IF r = s THEN mod[m] ELSE ctx[m]
             /\ \A d \in DOMAIN maps[r] : maps'[r][d] = maps[r][d]
             /\ Holds(maps'[r], Module)
  <2>1. maps'[r] = [d \in DOMAIN maps[r] \cup {m} |->
                        IF d # m THEN maps[r][d]
                        ELSE IF r = s THEN mod[m] ELSE ctx[m]]
    BY <1>3, <1>6
  <2> QED BY <2>1, <1>2, <1>4, <1>6 DEF Types, Holds
<1>7. mod'[m] = Failed(m) /\ pc'[m] = "end" /\ DOMAIN pc' = DOMAIN pc
      /\ DOMAIN mod' = DOMAIN mod
      /\ \A d \in DOMAIN pc \ {m} : pc'[d] = pc[d] /\ mod'[d] = mod[d]
  BY <1>1, <1>3 DEF Types, Holds
<1>8. Holds(mod', Module) /\ Holds(pc', Stages \cup {"end"})
  BY <1>1, <1>2, <1>3, <1>7 DEF Types, Holds
<1>9. work' \in Nat BY <1>3 DEF Types, RestWork
<1>10. Frame(m) BY <1>1, <1>3, <1>5, <1>6, <1>7 DEF Frame
<1>11. ThreadTypes'
  <2>1. \A r \in Stages : Holds(maps'[r], Module) BY <1>5, <1>6 DEF Types
  <2> QED BY <1>5, <1>7, <1>8, <1>9, <2>1 DEF ThreadTypes, Types
<1> QED BY <1>1, <1>3, <1>4, <1>5, <1>6, <1>7, <1>10, <1>11

(* The kinds of steps a thread takes.                                      *)
Kinds(m) ==
  \/ \E s \in Stages : Passes(m, s) \/ Waits(m, s) \/ Breaks(m, s)
  \/ Parses(m) \/ Checks(m) \/ Optimizes(m) \/ Generates(m) \/ Links(m)

LEMMA FilesKept ==
  ASSUME Types, NEW m, UNCHANGED <<iface, gen>>
  PROVE  FileFrame(m)
BY DEF FileFrame

LEMMA WithFile ==
  ASSUME NEW files, NEW F, Holds(files, F), NEW m \in Modules, NEW f \in F
  PROVE  /\ Holds(With(files, m, f), F) /\ DOMAIN With(files, m, f) = DOMAIN files \cup {m}
         /\ With(files, m, f)[m] = f
         /\ \A d \in DOMAIN files \ {m} : With(files, m, f)[d] = files[d]
BY DEF Holds, With

LEMMA WithoutFile ==
  ASSUME NEW files, NEW F, Holds(files, F), NEW m \in Modules
  PROVE  /\ Holds(Without(files, m), F) /\ DOMAIN Without(files, m) = DOMAIN files \ {m}
         /\ \A d \in DOMAIN files \ {m} : Without(files, m)[d] = files[d]
BY DEF Holds, Without, Restrict

LEMMA LaterTypes ==
  ASSUME Types, NEW m, Frame(m), ThreadTypes', link' \subseteq Modules,
         failures' \in 0..MaxFailures,
         Holds(iface', [core : Cores, newer : BOOLEAN]), Holds(gen', Cores)
  PROVE  Types'
<1>1. UNCHANGED <<src, ctx, dirty, goal, concurrent, edits, builds>> BY DEF Frame
<1> QED BY <1>1 DEF Types, ThreadTypes

(* What a module of a running build is.                                    *)
LEMMA Running ==
  ASSUME Types, Staged, Validated, Steady, NEW m \in Modules, NEW s, At(m, s)
  PROVE  /\ m \in DOMAIN pc /\ pc[m] = s /\ m \in DOMAIN ctx /\ ~Idle
         /\ mod[m] \in Module /\ mod[m].deps \subseteq CoreImports[m]
<1>1. m \in DOMAIN pc /\ pc[m] = s BY DEF At
<1>2. m \in DOMAIN ctx /\ ~Idle BY <1>1 DEF Staged
<1>3. mod[m] \in Module BY <1>1 DEF Types, Holds
<1> QED BY <1>1, <1>2, <1>3 DEF Steady, Validated

LEMMA FailureCount ==
  ASSUME Types, Fails \/ Works
  PROVE  failures' \in 0..MaxFailures
BY BuildAssumption DEF Types, Fails, Works

LEMMA PhaseRange ==
  /\ PhaseInit..PhaseLinked = 0..9
  /\ {PhaseInit, PhaseLexed, PhaseParsedError, PhaseParsed, PhaseTypedError, PhaseTyped,
      PhaseIfaceLoaded, PhaseOptimized, PhaseCodeGen, PhaseLinked} \subseteq PhaseInit..PhaseLinked
BY DEF PhaseInit, PhaseLexed, PhaseParsedError, PhaseParsed, PhaseTypedError, PhaseTyped,
       PhaseIfaceLoaded, PhaseOptimized, PhaseCodeGen, PhaseLinked

LEMMA PhaseSet ==
  ASSUME NEW v \in Module, NEW p \in PhaseInit..PhaseLinked
  PROVE  LET w == [v EXCEPT !.phase = p]
         IN  /\ w \in Module /\ w.phase = p /\ w.deps = v.deps /\ w.text = v.text
             /\ w.core = v.core /\ w.err = v.err
BY DEF Module

LEMMA ParseStep ==
  ASSUME Types, Staged, Validated, Steady, NEW m \in Modules, moduleParse(m)
  PROVE  Types' /\ Frame(m) /\ FileFrame(m) /\ Parses(m)
<1>1. At(m, "parse") /\ ~Guarded(m, "parse") /\ UNCHANGED <<iface, gen, link>>
  BY DEF moduleParse
<1>2. PICK v : /\ Done(m, "parse", v) /\ (Fails \/ Works)
               /\ \/ v = [mod[m] EXCEPT !.phase = PhaseParsed]
                  \/ \E p \in {PhaseParsedError, PhaseParsed} :
                       v = [mod[m] EXCEPT !.phase = p, !.err = TRUE]
  BY DEF moduleParse
<1>3. mod[m] \in Module BY <1>1, Running
<1>4. /\ v \in Module /\ v.deps = mod[m].deps /\ v.text = mod[m].text /\ v.core = mod[m].core
      /\ v.phase \in {PhaseParsedError, PhaseParsed} /\ (mod[m].err => v.err)
      /\ v.phase = PhaseParsed \/ v.err
  <2>1. CASE v = [mod[m] EXCEPT !.phase = PhaseParsed]
    BY <2>1, <1>3, PhaseRange, PhaseSet
  <2>2. CASE \E p \in {PhaseParsedError, PhaseParsed} :
               v = [mod[m] EXCEPT !.phase = p, !.err = TRUE]
    <3>1. PICK p \in {PhaseParsedError, PhaseParsed} :
             v = [mod[m] EXCEPT !.phase = p, !.err = TRUE]
      BY <2>2
    <3> QED BY <3>1, <1>3, PhaseRange DEF Module
  <2> QED BY <1>2, <2>1, <2>2
<1>5. v.phase >= mod[m].phase /\ (v.phase >= Target["parse"] \/ v.err)
  BY <1>1, <1>3, <1>4, StageFacts
  DEF Guarded, Module, PhaseParsed, PhaseParsedError, PhaseInit, PhaseLinked
<1>6. Frame(m) /\ Moves(m, "parse", v) /\ ThreadTypes'
  BY <1>1, <1>2, <1>4, DoneStep DEF Stages
<1>7. Parses(m) BY <1>1, <1>4, <1>5, <1>6 DEF Parses, Advances, KeepsFiles
<1>8. Types' BY <1>1, <1>2, <1>6, FailureCount, LaterTypes DEF Types
<1> QED BY <1>1, <1>6, <1>7, <1>8, FilesKept

LEMMA PassStep ==
  ASSUME Types, Staged, Validated, Steady, NEW m \in Modules, PassOn(m)
  PROVE  Types' /\ Frame(m) /\ FileFrame(m) /\ \E s \in Stages : Passes(m, s)
<1>1. PICK s \in Stages : /\ At(m, s) /\ Guarded(m, s) /\ Done(m, s, mod[m])
                          /\ Works /\ UNCHANGED <<iface, gen, link>>
  BY DEF PassOn
<1>2. mod[m] \in Module BY <1>1, Running
<1>3. Frame(m) /\ Moves(m, s, mod[m]) /\ ThreadTypes' BY <1>1, <1>2, DoneStep
<1>4. Passes(m, s) BY <1>1, <1>3 DEF Passes, KeepsFiles
<1>5. Types' BY <1>1, <1>3, FailureCount, LaterTypes DEF Types
<1> QED BY <1>1, <1>3, <1>4, <1>5, FilesKept

LEMMA WaitStep ==
  ASSUME Types, Staged, Validated, Steady, NEW m \in Modules, NEW s \in Stages,
         At(m, s), ~Guarded(m, s), Done(m, s, mod[m]), Works, UNCHANGED <<iface, gen, link>>,
         NEW d, NEW r \in Stages, Lacks(m, d, r), s = "link" => r \in {"codegen", "link"}
  PROVE  Types' /\ Frame(m) /\ FileFrame(m) /\ Waits(m, s)
<1>2. mod[m] \in Module BY Running
<1>3. Frame(m) /\ Moves(m, s, mod[m]) /\ ThreadTypes' BY <1>2, DoneStep
<1>4. d \in Modules BY ReachSelf DEF Lacks
<1>5. Waits(m, s) BY <1>3, <1>4 DEF Waits, KeepsFiles
<1>6. Types' BY <1>3, FailureCount, LaterTypes DEF Types
<1> QED BY <1>3, <1>5, <1>6, FilesKept

LEMMA PresentFacts ==
  ASSUME Types, NEW s \in Stages, NEW reads, Ready(s, reads), NEW p \in Nat, ~Behind(s, reads, p)
  PROVE  Present(s, reads, p)
<1>1. \A d \in reads : maps[s][d].phase \in Nat
  BY PhaseRange DEF Types, Holds, Module, Ready
<1> QED BY <1>1 DEF Present, Behind

LEMMA CheckStep ==
  ASSUME Types, Staged, Validated, Steady, NEW m \in Modules, moduleTypeCheck(m)
  PROVE  Types' /\ Frame(m) /\ FileFrame(m) /\ (Checks(m) \/ Waits(m, "tcheck"))
<1> DEFINE imports == moduleWaitForPubImports(m)
           core == {<<m, mod[m].text>>} \cup UNION {maps["tcheck"][d].core : d \in imports}
<1>1. At(m, "tcheck") /\ ~Guarded(m, "tcheck") /\ Ready("tcheck", imports)
      /\ UNCHANGED <<iface, gen, link>>
  BY DEF moduleTypeCheck
<1>2. mod[m] \in Module /\ mod[m].deps \subseteq CoreImports[m] BY <1>1, Running
<1>3. imports \subseteq Reach[m] \ {m} BY <1>2, PubReads
<1>4. CASE Behind("tcheck", imports, PhaseTyped)
  <2>1. Done(m, "tcheck", mod[m]) /\ Works BY <1>4 DEF moduleTypeCheck
  <2>2. PICK d \in imports : maps["tcheck"][d].phase < PhaseTyped BY <1>4 DEF Behind
  <2>3. Lacks(m, d, "tcheck") /\ "tcheck" \in Stages
    BY <1>1, <1>3, <2>2, StageFacts DEF Lacks, Ready, Stages, PhaseTyped
  <2> QED BY <1>1, <2>1, <2>3, WaitStep
<1>5. CASE ~Behind("tcheck", imports, PhaseTyped)
  <2>1. PICK v : /\ Done(m, "tcheck", v) /\ (Fails \/ Works)
                 /\ \/ v = [mod[m] EXCEPT !.phase = PhaseTyped, !.core = core]
                    \/ v = [mod[m] EXCEPT !.phase = PhaseTypedError, !.err = TRUE]
    BY <1>5 DEF moduleTypeCheck
  <2>2. core \in Cores
    <3>1. ASSUME NEW d \in imports PROVE maps["tcheck"][d].core \in Cores
      BY <1>1 DEF Types, Holds, Module, Ready, Stages
    <3>2. <<m, mod[m].text>> \in Modules \X Texts BY <1>2 DEF Module
    <3> QED BY <3>1, <3>2 DEF Cores
  <2> HIDE DEF core, imports
  <2>3. /\ v \in Module /\ v.deps = mod[m].deps /\ v.text = mod[m].text
        /\ v.phase \in {PhaseTypedError, PhaseTyped} /\ (mod[m].err => v.err)
        /\ v.phase = PhaseTyped \/ v.err
    <3>1. CASE v = [mod[m] EXCEPT !.phase = PhaseTyped, !.core = core]
      BY <3>1, <1>2, <2>2, PhaseRange DEF Module
    <3>2. CASE v = [mod[m] EXCEPT !.phase = PhaseTypedError, !.err = TRUE]
      BY <3>2, <1>2, PhaseRange DEF Module
    <3> QED BY <2>1, <3>1, <3>2
  <2>8. v.phase = PhaseTyped => Checked(m, v)
    <3>1. v.phase = PhaseTyped => v.core = core
      <4>1. CASE v = [mod[m] EXCEPT !.phase = PhaseTyped, !.core = core]
        BY <4>1, <1>2 DEF Module
      <4>2. CASE v = [mod[m] EXCEPT !.phase = PhaseTypedError, !.err = TRUE]
        BY <4>2, <1>2 DEF Module, PhaseTyped, PhaseTypedError
      <4> QED BY <2>1, <4>1, <4>2
    <3>2. Present("tcheck", imports, PhaseTyped)
      BY <1>1, <1>5, PresentFacts DEF Stages, PhaseTyped
    <3> QED BY <3>1, <3>2 DEF Checked, core, imports
  <2>4. v.phase >= mod[m].phase /\ (v.phase >= Target["tcheck"] \/ v.err)
    BY <1>1, <1>2, <2>3, StageFacts
    DEF Guarded, Module, PhaseTyped, PhaseTypedError, PhaseInit, PhaseLinked
  <2>5. Frame(m) /\ Moves(m, "tcheck", v) /\ ThreadTypes'
    BY <1>1, <2>1, <2>3, DoneStep DEF Stages
  <2>6. Checks(m) BY <1>1, <2>3, <2>4, <2>5, <2>8 DEF Checks, Advances, KeepsFiles
  <2>7. Types' BY <1>1, <2>1, <2>5, FailureCount, LaterTypes DEF Types
  <2> QED BY <1>1, <2>5, <2>6, <2>7, FilesKept
<1> QED BY <1>4, <1>5

(* An interface that is left behind is made of the module's own core.      *)
LEMMA WrittenFile ==
  ASSUME Types, NEW m \in Modules, m \in DOMAIN pc, Written(m)
  PROVE  /\ Holds(iface', [core : Cores, newer : BOOLEAN])
         /\ DOMAIN iface' = DOMAIN iface \cup {m}
         /\ \A d \in Modules \ {m} : d \in DOMAIN iface <=> d \in DOMAIN iface'
         /\ \A d \in DOMAIN iface \ {m} : iface'[d] = iface[d]
<1> DEFINE F   == [core : Cores, newer : BOOLEAN]
           kki == [core |-> mod[m].core, newer |-> TRUE]
<1>1. Holds(iface, F) BY DEF Types
<1>2. mod[m] \in Module BY DEF Types, Holds
<1>3. kki \in F BY <1>2 DEF Module
<1>4. iface' = With(iface, m, kki) BY DEF Written
<1> HIDE DEF kki, F
<1>5. /\ Holds(iface', F) /\ DOMAIN iface' = DOMAIN iface \cup {m}
      /\ \A d \in DOMAIN iface \ {m} : iface'[d] = iface[d]
  BY <1>1, <1>3, <1>4 DEF With, Holds
<1> QED BY <1>5 DEF F

LEMMA BreakStep ==
  ASSUME Types, Staged, Validated, Steady, NEW m \in Modules,
         NEW s \in {"optimize", "codegen", "link"}, At(m, s), Throw(m, s), mod[m].phase = Expect[s],
         IF s = "codegen" THEN iface' = Without(iface, m) /\ gen' = Without(gen, m)
         ELSE UNCHANGED gen /\ (iface' = iface \/ (s = "link" /\ Written(m)))
  PROVE  Types' /\ Frame(m) /\ FileFrame(m) /\ Breaks(m, s)
<1>1. s \in Stages BY DEF Stages
<1>2. Frame(m) /\ ThreadTypes' /\ UNCHANGED link BY ThrowStep
<1>3. Breaks(m, s) BY <1>1, ThrowStep DEF Breaks
<1>4. /\ Holds(iface', [core : Cores, newer : BOOLEAN]) /\ Holds(gen', Cores) /\ FileFrame(m)
  <2>1. CASE s = "codegen"
    <3>1. /\ Holds(iface', [core : Cores, newer : BOOLEAN]) /\ DOMAIN iface' = DOMAIN iface \ {m}
          /\ \A d \in DOMAIN iface \ {m} : iface'[d] = iface[d]
      <4>1. Holds(iface, [core : Cores, newer : BOOLEAN]) BY DEF Types
      <4>2. iface' = Without(iface, m) BY <2>1
      <4> QED BY <4>1, <4>2, WithoutFile
    <3>2. /\ Holds(gen', Cores) /\ DOMAIN gen' = DOMAIN gen \ {m}
          /\ \A d \in DOMAIN gen \ {m} : gen'[d] = gen[d]
      <4>1. Holds(gen, Cores) BY DEF Types
      <4> QED BY <2>1, <4>1, WithoutFile
    <3> QED BY <3>1, <3>2 DEF FileFrame
  <2>2. CASE s # "codegen" /\ iface' = iface BY <2>2 DEF Types, FileFrame
  <2>3. CASE s # "codegen" /\ Written(m)
    <3>1. gen' = gen BY <2>3
    <3>2. /\ Holds(iface', [core : Cores, newer : BOOLEAN])
          /\ \A d \in Modules \ {m} : d \in DOMAIN iface <=> d \in DOMAIN iface'
          /\ \A d \in DOMAIN iface \ {m} : iface'[d] = iface[d]
      BY <1>2, <2>3, WrittenFile DEF Frame
    <3> QED BY <3>1, <3>2 DEF Types, FileFrame
  <2> QED BY <2>1, <2>2, <2>3
<1>5. Fails BY DEF Throw, End
<1>6. Types' BY <1>2, <1>4, <1>5, FailureCount, LaterTypes DEF Types
<1> QED BY <1>2, <1>3, <1>4, <1>6

LEMMA OptimizeStep ==
  ASSUME Types, Staged, Validated, Steady, NEW m \in Modules, moduleOptimize(m)
  PROVE  /\ Types' /\ Frame(m) /\ FileFrame(m)
         /\ Optimizes(m) \/ Waits(m, "optimize") \/ Breaks(m, "optimize")
<1> DEFINE imports == moduleWaitForInlineImports(m)
<1>1. At(m, "optimize") /\ ~Guarded(m, "optimize") /\ Ready("optimize", imports)
      /\ UNCHANGED <<iface, gen>>
  BY DEF moduleOptimize
<1>2. mod[m] \in Module BY <1>1, Running
<1>3. imports \subseteq Reach[m] \ {m} BY InlineReads
<1>4. mod[m].phase \in {PhaseTyped, PhaseIfaceLoaded}
  BY <1>1, <1>2, StageFacts
  DEF Guarded, Module, PhaseInit, PhaseLinked, PhaseTyped, PhaseIfaceLoaded
<1>5. CASE Behind("optimize", imports, PhaseOptimized)
  <2>1. Done(m, "optimize", mod[m]) /\ Works /\ UNCHANGED link BY <1>5 DEF moduleOptimize
  <2>2. PICK d \in imports : maps["optimize"][d].phase < PhaseOptimized BY <1>5 DEF Behind
  <2>3. Lacks(m, d, "optimize") /\ "optimize" \in Stages
    BY <1>1, <1>3, <2>2, StageFacts DEF Lacks, Ready, Stages, PhaseOptimized
  <2> QED BY <1>1, <2>1, <2>3, WaitStep
<1>6. ASSUME NEW v, Done(m, "optimize", v), Fails \/ Works, UNCHANGED link,
             \/ /\ mod[m].phase = PhaseIfaceLoaded
                /\ \/ v = [mod[m] EXCEPT !.phase = PhaseLinked]
                   \/ v = [mod[m] EXCEPT !.phase = PhaseLinked, !.inl = FALSE, !.err = TRUE]
             \/ /\ mod[m].phase = PhaseTyped
                /\ v = [mod[m] EXCEPT !.phase = PhaseOptimized, !.inl = m \in Inlined]
      PROVE  Types' /\ Frame(m) /\ FileFrame(m) /\ Optimizes(m)
  <2>1. /\ v \in Module /\ v.deps = mod[m].deps /\ v.text = mod[m].text /\ v.core = mod[m].core
        /\ (mod[m].err => v.err)
        /\ \/ mod[m].phase = PhaseTyped /\ v.phase = PhaseOptimized
           \/ mod[m].phase = PhaseIfaceLoaded /\ v.phase = PhaseLinked
    <3>1. CASE mod[m].phase = PhaseIfaceLoaded
      <4>1. PhaseIfaceLoaded # PhaseTyped BY DEF PhaseTyped, PhaseIfaceLoaded
      <4>2. CASE v = [mod[m] EXCEPT !.phase = PhaseLinked]
        BY <3>1, <4>2, <1>2, PhaseRange, PhaseSet
      <4>3. CASE v = [mod[m] EXCEPT !.phase = PhaseLinked, !.inl = FALSE, !.err = TRUE]
        BY <3>1, <4>3, <1>2, PhaseRange DEF Module
      <4> QED BY <3>1, <4>1, <4>2, <4>3, <1>6
    <3>2. CASE mod[m].phase = PhaseTyped
      <4>1. v = [mod[m] EXCEPT !.phase = PhaseOptimized, !.inl = m \in Inlined]
        BY <3>2, <1>6 DEF PhaseTyped, PhaseIfaceLoaded
      <4>2. (m \in Inlined) \in BOOLEAN BY SMT
      <4> QED BY <1>2, <3>2, <4>1, <4>2, PhaseRange DEF Module
    <3> QED BY <3>1, <3>2, <1>4
  <2>2. v.phase >= mod[m].phase /\ v.phase >= Target["optimize"]
    BY <2>1, StageFacts DEF PhaseTyped, PhaseIfaceLoaded, PhaseOptimized, PhaseLinked
  <2>3. Frame(m) /\ Moves(m, "optimize", v) /\ ThreadTypes'
    BY <1>1, <1>6, <2>1, DoneStep DEF Stages
  <2>4. Optimizes(m) BY <1>1, <1>6, <2>1, <2>2, <2>3 DEF Optimizes, Advances, KeepsFiles
  <2>5. Types' BY <1>1, <1>6, <2>3, FailureCount, LaterTypes DEF Types
  <2> QED BY <1>1, <2>3, <2>4, <2>5, FilesKept
<1>7. CASE ~Behind("optimize", imports, PhaseOptimized) /\ mod[m].phase = PhaseIfaceLoaded
  <2>1. \E v : /\ Done(m, "optimize", v) /\ (Fails \/ Works) /\ UNCHANGED link
               /\ \/ v = [mod[m] EXCEPT !.phase = PhaseLinked]
                  \/ v = [mod[m] EXCEPT !.phase = PhaseLinked, !.inl = FALSE, !.err = TRUE]
    BY <1>7 DEF moduleOptimize
  <2> QED BY <2>1, <1>6, <1>7
<1>8. CASE ~Behind("optimize", imports, PhaseOptimized) /\ mod[m].phase # PhaseIfaceLoaded
  <2>1. CASE Throw(m, "optimize")
    <3>1. mod[m].phase = Expect["optimize"] BY <1>4, <1>8, StageFacts DEF PhaseTyped
    <3> QED BY <1>1, <2>1, <3>1, BreakStep
  <2>2. CASE /\ Works /\ UNCHANGED link
             /\ Done(m, "optimize", [mod[m] EXCEPT !.phase = PhaseOptimized,
                                                   !.inl = m \in Inlined])
    BY <2>2, <1>4, <1>6, <1>8
  <2> QED BY <1>8, <2>1, <2>2 DEF moduleOptimize
<1> QED BY <1>5, <1>7, <1>8

LEMMA CodeGenStep ==
  ASSUME Types, Staged, Validated, Steady, NEW m \in Modules, moduleCodeGen(m)
  PROVE  Types' /\ Frame(m) /\ FileFrame(m) /\ (Generates(m) \/ Breaks(m, "codegen"))
<1>1. At(m, "codegen") /\ ~Guarded(m, "codegen") /\ iface' = Without(iface, m)
  BY DEF moduleCodeGen
<1>2. mod[m] \in Module BY <1>1, Running
<1>3. mod[m].phase = PhaseOptimized
  BY <1>1, <1>2, StageFacts DEF Guarded, Module, PhaseInit, PhaseLinked, PhaseOptimized
<1>4. CASE Throw(m, "codegen") /\ gen' = Without(gen, m)
  <2>1. mod[m].phase = Expect["codegen"] BY <1>3, StageFacts DEF PhaseOptimized
  <2> QED BY <1>1, <1>4, <2>1, BreakStep
<1>5. CASE /\ Works /\ gen' = With(gen, m, mod[m].core) /\ link' = link \cup {m}
           /\ Done(m, "codegen", [mod[m] EXCEPT !.phase = PhaseCodeGen])
  <2>1. PICK v : v = [mod[m] EXCEPT !.phase = PhaseCodeGen] OBVIOUS
  <2>2. /\ v \in Module /\ v.deps = mod[m].deps /\ v.text = mod[m].text /\ v.core = mod[m].core
        /\ v.err = mod[m].err /\ v.phase = PhaseCodeGen
    BY <1>2, <2>1, PhaseRange, PhaseSet
  <2>3. v.phase >= mod[m].phase /\ v.phase >= Target["codegen"]
    BY <1>3, <2>2, StageFacts DEF PhaseOptimized, PhaseCodeGen
  <2>4. Frame(m) /\ Moves(m, "codegen", v) /\ ThreadTypes'
    BY <1>1, <1>5, <2>1, <2>2, DoneStep DEF Stages
  <2>5. Generates(m) BY <1>1, <1>3, <1>5, <2>2, <2>3, <2>4 DEF Generates, Advances
  <2>6. v.core \in Cores BY <2>2 DEF Module
  <2>7. /\ Holds(iface', [core : Cores, newer : BOOLEAN]) /\ DOMAIN iface' = DOMAIN iface \ {m}
        /\ \A d \in DOMAIN iface \ {m} : iface'[d] = iface[d]
    <3>1. Holds(iface, [core : Cores, newer : BOOLEAN]) BY DEF Types
    <3> QED BY <1>1, <3>1, WithoutFile
  <2>8. /\ Holds(gen', Cores) /\ DOMAIN gen' = DOMAIN gen \cup {m}
        /\ \A d \in DOMAIN gen \ {m} : gen'[d] = gen[d]
    <3>1. Holds(gen, Cores) BY DEF Types
    <3>2. gen' = With(gen, m, v.core) BY <1>5, <2>2
    <3> QED BY <2>6, <3>1, <3>2, WithFile
  <2>9. FileFrame(m) BY <2>7, <2>8 DEF FileFrame
  <2>10. Types' BY <1>5, <2>4, <2>7, <2>8, FailureCount, LaterTypes DEF Types
  <2> QED BY <2>4, <2>5, <2>9, <2>10
<1> QED BY <1>4, <1>5 DEF moduleCodeGen

LEMMA LinkStep ==
  ASSUME Types, Staged, Validated, Steady, NEW m \in Modules, moduleLink(m)
  PROVE  /\ Types' /\ Frame(m) /\ FileFrame(m)
         /\ Links(m) \/ Waits(m, "link") \/ Breaks(m, "link")
<1> DEFINE s       == IF FullLink(m) THEN "link" ELSE "codegen"
           imports == moduleWaitForImports(m, s)
           p       == IF FullLink(m) THEN PhaseLinked ELSE PhaseCodeGen
           kki     == [core |-> mod[m].core, newer |-> TRUE]
<1>1. At(m, "link") /\ ~Guarded(m, "link") /\ Ready(s, imports) /\ UNCHANGED gen
  BY DEF moduleLink
<1>2. mod[m] \in Module BY <1>1, Running
<1>3. s \in {"codegen", "link"} /\ s \in Stages /\ p = Target[s]
  BY StageFacts DEF Stages, PhaseLinked, PhaseCodeGen
<1>4. imports \subseteq Reach[m] \ {m} BY <1>3, ImportReads
<1>5. mod[m].phase = PhaseCodeGen
  BY <1>1, <1>2, StageFacts DEF Guarded, Module, PhaseInit, PhaseLinked, PhaseCodeGen
<1>6. CASE Behind(s, imports, p)
  <2>1. Done(m, "link", mod[m]) /\ Works /\ UNCHANGED <<iface, link>> BY <1>6 DEF moduleLink
  <2>2. PICK d \in imports : maps[s][d].phase < p BY <1>6 DEF Behind
  <2>3. Lacks(m, d, s) BY <1>1, <1>3, <1>4, <2>2 DEF Lacks, Ready
  <2>4. "link" \in Stages BY DEF Stages
  <2> HIDE DEF s, imports, p
  <2> QED BY <1>1, <1>3, <2>1, <2>3, <2>4, WaitStep
<1>7. CASE ~Behind(s, imports, p) /\ Throw(m, "link") /\ (UNCHANGED iface \/ Written(m))
  <2>1. mod[m].phase = Expect["link"] BY <1>5, StageFacts DEF PhaseCodeGen
  <2> QED BY <1>1, <1>7, <2>1, BreakStep
<1>8. CASE /\ ~Behind(s, imports, p)
           /\ Works /\ Done(m, "link", [mod[m] EXCEPT !.phase = PhaseLinked])
           /\ iface' = IF m \in link THEN With(iface, m, kki) ELSE iface
           /\ UNCHANGED link
  <2>1. PICK v : v = [mod[m] EXCEPT !.phase = PhaseLinked] OBVIOUS
  <2>2. /\ v \in Module /\ v.deps = mod[m].deps /\ v.text = mod[m].text /\ v.core = mod[m].core
        /\ v.err = mod[m].err /\ v.phase = PhaseLinked
    BY <1>2, <2>1, PhaseRange, PhaseSet
  <2>3. v.phase >= mod[m].phase /\ v.phase >= Target["link"]
    BY <1>5, <2>2, StageFacts DEF PhaseLinked, PhaseCodeGen
  <2>4. Frame(m) /\ Moves(m, "link", v) /\ ThreadTypes'
    BY <1>1, <1>8, <2>1, <2>2, DoneStep DEF Stages
  <2>5. Links(m)
    <3>1. ~Behind(s, imports, p) BY <1>8
    <3>2. Present(s, imports, p) BY <1>1, <1>3, <3>1, PresentFacts, StageFacts
    <3>3. Linkable(m) BY <1>3, <3>2 DEF Linkable
    <3> QED BY <1>1, <1>5, <1>8, <2>2, <2>3, <2>4, <3>3 DEF Links, Advances
  <2>6. m \in link => Written(m) BY <1>8 DEF Written
  <2>7. /\ Holds(iface', [core : Cores, newer : BOOLEAN])
        /\ \A d \in Modules \ {m} : d \in DOMAIN iface <=> d \in DOMAIN iface'
        /\ \A d \in DOMAIN iface \ {m} : iface'[d] = iface[d]
    <3>1. m \in DOMAIN pc BY <1>1 DEF At
    <3>2. CASE m \in link BY <2>6, <3>1, <3>2, WrittenFile
    <3>3. CASE m \notin link
      <4>1. iface' = iface BY <1>8, <3>3
      <4> QED BY <4>1 DEF Types
    <3> QED BY <3>2, <3>3
  <2>8. FileFrame(m) BY <1>1, <2>7 DEF FileFrame
  <2>9. Types' BY <1>1, <1>8, <2>4, <2>7, FailureCount, LaterTypes DEF Types
  <2> QED BY <2>4, <2>5, <2>8, <2>9
<1> QED BY <1>6, <1>7, <1>8 DEF moduleLink, Written

(* Every step of a thread is one of these.                                 *)
LEMMA ThreadStep ==
  ASSUME Types, Staged, Validated, Steady, NEW m \in Modules, Thread(m)
  PROVE  Types' /\ Frame(m) /\ FileFrame(m) /\ Kinds(m)
<1> "tcheck" \in Stages /\ "optimize" \in Stages /\ "codegen" \in Stages /\ "link" \in Stages
  BY DEF Stages
<1>1. CASE PassOn(m) BY <1>1, PassStep DEF Kinds
<1>2. CASE moduleParse(m) BY <1>2, ParseStep DEF Kinds
<1>3. CASE moduleTypeCheck(m) BY <1>3, CheckStep DEF Kinds
<1>4. CASE moduleOptimize(m) BY <1>4, OptimizeStep DEF Kinds
<1>5. CASE moduleCodeGen(m) BY <1>5, CodeGenStep DEF Kinds
<1>6. CASE moduleLink(m) BY <1>6, LinkStep DEF Kinds
<1> QED BY <1>1, <1>2, <1>3, <1>4, <1>5, <1>6 DEF Thread

-----------------------------------------------------------------------------
(* Steps of threads preserve each part of the invariant.                   *)
ThreadContext(m) ==
  /\ Types /\ Types' /\ Staged /\ Validated /\ Steady
  /\ m \in Modules /\ Frame(m) /\ FileFrame(m) /\ Kinds(m)

LEMMA StageNames ==
  Stages = {"parse", "tcheck", "optimize", "codegen", "link"}
BY DEF Stages

(* A step that is not the failure of a stage moves the module on.          *)
LEMMA KindsMove ==
  ASSUME NEW m, ThreadContext(m)
  PROVE  /\ \/ \E s \in Stages, v \in Module : Moves(m, s, v)
            \/ \E s \in {"optimize", "codegen", "link"} : Breaks(m, s)
         /\ link \subseteq link' /\ link' \subseteq link \cup {m}
<1>1. m \in DOMAIN pc /\ mod[m] \in Module BY DEF ThreadContext, Frame, Types, Holds
<1> "parse" \in Stages /\ "tcheck" \in Stages /\ "optimize" \in Stages
    /\ "codegen" \in Stages /\ "link" \in Stages
  BY StageNames
<1>2. CASE \E s \in Stages : Passes(m, s)
  BY <1>1, <1>2 DEF Passes, KeepsFiles
<1>3. CASE \E s \in Stages : Waits(m, s)
  BY <1>1, <1>3 DEF Waits, KeepsFiles
<1>4. CASE \E s \in Stages : Breaks(m, s)
  BY <1>4 DEF Breaks
<1>5. CASE Parses(m) BY <1>5 DEF Parses, Advances, KeepsFiles
<1>6. CASE Checks(m) BY <1>6 DEF Checks, Advances, KeepsFiles
<1>7. CASE Optimizes(m) BY <1>7 DEF Optimizes, Advances, KeepsFiles
<1>8. CASE Generates(m) BY <1>8 DEF Generates, Advances
<1>9. CASE Links(m) BY <1>9 DEF Links, Advances
<1> QED BY <1>2, <1>3, <1>4, <1>5, <1>6, <1>7, <1>8, <1>9 DEF ThreadContext, Kinds

(* A thread at stage s has a module that is past those before.             *)
LEMMA AtStage ==
  ASSUME NEW m, ThreadContext(m)
  PROVE  /\ m \in DOMAIN pc /\ m \in DOMAIN ctx /\ m \in DOMAIN mod /\ ~Idle /\ ~Idle'
         /\ goal \in {"tcheck", "link"} /\ pc[m] \in Stages
         /\ Target[pc[m]] <= Target[goal]
         /\ \A r \in Stages : m \in DOMAIN maps[r] <=> Target[r] < Target[pc[m]]
         /\ mod[m] \in Module /\ ctx[m] \in Module
<1>1. m \in DOMAIN pc /\ pc[m] \in Stages /\ goal' = goal BY DEF ThreadContext, Frame
<1>2. pc[m] # "end" BY <1>1 DEF Stages
<1>3. m \in DOMAIN ctx /\ ~Idle /\ ~Idle' BY <1>1 DEF ThreadContext, Staged, Idle
<1>4. goal \in {"tcheck", "link"} BY <1>3 DEF ThreadContext, Types, Idle
<1>5. \A r \in Stages : m \in DOMAIN maps[r] <=> Target[r] < Target[pc[m]]
  BY <1>1, <1>2 DEF ThreadContext, Staged, Past
<1>6. mod[m] \in Module /\ ctx[m] \in Module /\ m \in DOMAIN mod
  BY <1>1, <1>3 DEF ThreadContext, Types, Holds
<1> QED BY <1>1, <1>2, <1>3, <1>4, <1>5, <1>6 DEF ThreadContext, Staged

LEMMA ThreadStaged ==
  ASSUME NEW m, ThreadContext(m)
  PROVE  Staged'
<1> USE DEF ThreadContext
<1>1. /\ DOMAIN pc' = DOMAIN pc /\ ctx' = ctx /\ goal' = goal
      /\ \A s \in Stages : DOMAIN maps'[s] \subseteq DOMAIN maps[s] \cup {m}
      /\ \A s \in Stages : DOMAIN maps[s] \subseteq DOMAIN maps'[s]
      /\ \A d \in DOMAIN pc \ {m} : pc'[d] = pc[d]
  BY DEF Frame
<1>2. m \in DOMAIN pc /\ ~Idle /\ pc[m] \in Stages BY AtStage
<1>3. IF Idle' THEN DOMAIN pc' = {} ELSE DOMAIN pc' = DOMAIN ctx'
  BY <1>1, <1>2 DEF Staged, Idle
<1>4. \A s \in Stages : DOMAIN maps'[s] \subseteq DOMAIN pc'
  BY <1>1, <1>2 DEF Staged
<1>5. link' \subseteq DOMAIN (maps'["codegen"])
  <2>1. CASE Generates(m)
    <3>1. m \in DOMAIN maps'["codegen"] /\ link' = link \cup {m}
      BY <2>1 DEF Generates, Advances, Moves
    <3> QED BY <3>1, <1>1, StageNames DEF Staged
  <2>2. CASE ~Generates(m)
    <3>1. link' = link
      BY <2>2 DEF Kinds, Passes, Waits, Breaks, Parses, Checks, Optimizes, Links, KeepsFiles
    <3> QED BY <3>1, <1>1, StageNames DEF Staged
  <2> QED BY <2>1, <2>2
<1>6. ASSUME NEW d \in DOMAIN pc, d # m
      PROVE  /\ pc'[d] # "end" => Target[pc'[d]] <= Target[goal']
             /\ \A s \in Stages : d \in DOMAIN maps'[s] <=> s \in Past(d)'
  <2>1. pc'[d] = pc[d] BY <1>1, <1>6
  <2>2. \A s \in Stages : d \in DOMAIN maps'[s] <=> d \in DOMAIN maps[s] BY <1>1, <1>6
  <2>3. \A s \in Stages : s \in Past(d)' <=> s \in Past(d) BY <2>1, <1>1 DEF Past
  <2> QED BY <1>1, <2>1, <2>2, <2>3 DEF Staged
<1>7. /\ pc'[m] # "end" => Target[pc'[m]] <= Target[goal']
      /\ \A s \in Stages : m \in DOMAIN maps'[s] <=> s \in Past(m)'
  <2>1. ASSUME NEW s \in Stages, NEW v \in Module, Moves(m, s, v) PROVE <1>7
    <3>1. pc[m] = s /\ pc'[m] = After(s) /\ m \in DOMAIN maps'[s]
          /\ \A r \in Stages \ {s} : maps'[r] = maps[r]
      BY <2>1 DEF Moves
    <3>2. \A r \in Stages : m \in DOMAIN maps'[r] <=> (r = s \/ Target[r] < Target[s])
      BY <3>1, AtStage
    <3>3. /\ After(s) # "end" => Target[After(s)] <= Target[goal]
          /\ \A r \in Stages : (r = s \/ Target[r] < Target[s]) <=>
               IF After(s) = "end" THEN Target[r] <= Target[goal]
                                   ELSE Target[r] < Target[After(s)]
      BY <3>1, AtStage, AfterStage
    <3>4. \A r \in Stages : r \in Past(m)' <=>
               IF After(s) = "end" THEN Target[r] <= Target[goal]
                                   ELSE Target[r] < Target[After(s)]
      BY <3>1, <1>1 DEF Past
    <3> QED BY <3>1, <3>2, <3>3, <3>4, <1>1
  <2>2. ASSUME NEW s \in {"optimize", "codegen", "link"}, Breaks(m, s) PROVE <1>7
    <3>1. pc[m] = s /\ pc'[m] = "end"
          /\ \A r \in Stages : IF r \in Rest(s) THEN m \in DOMAIN maps'[r] ELSE maps'[r] = maps[r]
      BY <2>2 DEF Breaks
    <3>2. goal = "link" BY <3>1, AtStage, StageFacts
    <3>3. \A r \in Stages : Target[r] <= Target["link"] BY StageFacts DEF Stages
    <3>4. \A r \in Stages : m \in DOMAIN maps'[r]
      <4>1. ASSUME NEW r \in Stages, r \notin Rest(s) PROVE Target[r] < Target[s]
        BY <4>1, StageFacts DEF Rest, Later, Stages
      <4> QED BY <4>1, <3>1, AtStage
    <3> QED BY <3>1, <3>2, <3>3, <3>4, <1>1 DEF Past
  <2> QED BY <2>1, <2>2, KindsMove
<1> QED BY <1>1, <1>3, <1>4, <1>5, <1>6, <1>7 DEF Staged

(* A stage that works on its module finds it where the stage before left it. *)
LEMMA Guards ==
  ASSUME NEW m, ThreadContext(m), NEW r \in Stages, m \in DOMAIN maps[r]
  PROVE  Target[r] <= Expect[pc[m]] /\ r # pc[m] /\ Target[r] < Target[pc[m]]
BY AtStage, StageFacts, StageNames

LEMMA ThreadSteady ==
  ASSUME NEW m, ThreadContext(m)
  PROVE  Steady'
<1> USE DEF ThreadContext
<1>1. /\ DOMAIN pc' = DOMAIN pc /\ ctx' = ctx
      /\ \A d \in DOMAIN pc \ {m} : mod'[d] = mod[d]
      /\ \A d \in DOMAIN pc \ {m}, s \in Stages : d \in DOMAIN maps'[s] =>
           d \in DOMAIN maps[s] /\ maps'[s][d] = maps[s][d]
  BY DEF Frame
<1> DEFINE P(d) ==
    /\ mod[d].phase >= ctx[d].phase /\ mod[d].deps = ctx[d].deps
    /\ ctx[d].phase = PhaseInit => mod[d].phase = PhaseInit
    /\ ctx[d].phase \in {PhaseIfaceLoaded, PhaseLinked} =>
         mod[d].phase \in {PhaseIfaceLoaded, PhaseLinked} /\ mod[d].core = ctx[d].core
    /\ ctx[d].err => mod[d].err
    /\ mod[d].phase = PhaseCodeGen => d \in link
    /\ \A s \in Stages : d \in DOMAIN maps[s] =>
         /\ maps[s][d].phase < Target[s] => mod[d].phase < Target[s]
         /\ s = "link" /\ maps[s][d].phase = PhaseLinked => mod[d].phase = PhaseLinked
<1>2. ASSUME NEW d \in DOMAIN pc, d # m PROVE P(d)'
  <2>1. P(d) BY <1>2 DEF Steady
  <2> QED BY <1>1, <1>2, <2>1, KindsMove
<1>3. P(m)'
  <2>0. /\ m \in DOMAIN pc /\ m \in DOMAIN ctx /\ ctx'[m] = ctx[m] /\ P(m)
        /\ mod[m] \in Module /\ ctx[m] \in Module /\ pc[m] \in Stages /\ link \subseteq link'
    BY <1>1, AtStage, KindsMove DEF Steady
  <2>1. ASSUME NEW s \in Stages, NEW v \in Module, Moves(m, s, v),
               v.phase >= mod[m].phase, mod[m].phase = PhaseInit => v.phase = PhaseInit,
               mod[m].phase \in {PhaseIfaceLoaded, PhaseLinked} =>
                 v.phase \in {PhaseIfaceLoaded, PhaseLinked} /\ v.core = mod[m].core,
               mod[m].err => v.err, v.phase = PhaseCodeGen => m \in link',
               Guarded(m, s) => v = mod[m]
        PROVE  P(m)'
    <3>1. mod'[m] = v /\ v.deps = mod[m].deps /\ pc[m] = s /\ maps'[s][m] = v
          /\ \A r \in Stages \ {s} : maps'[r] = maps[r]
      BY <2>1 DEF Moves
    <3>2. v.phase \in Nat /\ mod[m].phase \in Nat /\ ctx[m].phase \in Nat
      BY <2>0, <2>1, PhaseRange DEF Module
    <3>3. ASSUME NEW r \in Stages, r # s, m \in DOMAIN maps[r]
          PROVE  /\ maps[r][m].phase < Target[r] => v.phase < Target[r]
                 /\ r # "link"
      <4>1. Target[r] <= Expect[s] /\ Target[r] < Target[s] BY <3>1, <3>3, Guards
      <4>2. r # "link" BY <4>1, StageFacts, StageNames
      <4>3. maps[r][m].phase < Target[r] => mod[m].phase < Target[r] BY <2>0, <3>3
      <4>4. Target[r] \in Nat /\ Expect[s] \in Nat BY StageFacts, StageNames
      <4>5. mod[m].phase < Target[r] => Guarded(m, s) BY <4>1, <4>4, <3>2 DEF Guarded
      <4> QED BY <4>2, <4>3, <4>5, <2>1
    <3>4. \A r \in Stages : m \in DOMAIN maps'[r] =>
            /\ maps'[r][m].phase < Target[r] => v.phase < Target[r]
            /\ r = "link" /\ maps'[r][m].phase = PhaseLinked => v.phase = PhaseLinked
      BY <3>1, <3>3
    <3>5. /\ v.phase >= ctx[m].phase
          /\ ctx[m].phase = PhaseInit => v.phase = PhaseInit
          /\ ctx[m].phase \in {PhaseIfaceLoaded, PhaseLinked} =>
               v.phase \in {PhaseIfaceLoaded, PhaseLinked} /\ v.core = ctx[m].core
          /\ ctx[m].err => v.err
          /\ v.phase = PhaseCodeGen => m \in link'
          /\ v.deps = ctx[m].deps
      BY <2>0, <2>1, <3>1, <3>2
    <3> HIDE DEF ThreadContext
    <3> QED BY <2>0, <3>1, <3>4, <3>5
  <2>2. ASSUME NEW s \in Stages, NEW v \in Module, Advances(m, s, v),
               mod[m].phase \in {PhaseIfaceLoaded, PhaseLinked} =>
                 v.phase \in {PhaseIfaceLoaded, PhaseLinked} /\ v.core = mod[m].core,
               v.phase = PhaseCodeGen => m \in link'
        PROVE  P(m)'
    <3>1. mod[m].phase # PhaseInit
      <4>1. Expect[s] >= 1 BY StageFacts, StageNames
      <4>2. ~(mod[m].phase < Expect[s]) BY <2>2 DEF Advances, Guarded
      <4> QED BY <4>1, <4>2, StageFacts, StageNames DEF PhaseInit
    <3> QED BY <2>1, <2>2, <3>1 DEF Advances
  <2> "parse" \in Stages /\ "tcheck" \in Stages /\ "optimize" \in Stages
      /\ "codegen" \in Stages /\ "link" \in Stages
    BY StageNames
  <2> HIDE DEF P
  <2>3. CASE \E s \in Stages : Passes(m, s)
    <3>1. mod[m].phase = PhaseCodeGen => m \in link' BY <2>0 DEF P
    <3>2. mod[m].phase >= mod[m].phase BY <2>0, PhaseRange DEF Module
    <3> QED BY <2>0, <2>1, <2>3, <3>1, <3>2 DEF Passes
  <2>4. CASE \E s \in Stages : Waits(m, s)
    <3>1. mod[m].phase = PhaseCodeGen => m \in link' BY <2>0 DEF P
    <3>2. mod[m].phase >= mod[m].phase BY <2>0, PhaseRange DEF Module
    <3> QED BY <2>0, <2>1, <2>4, <3>1, <3>2 DEF Waits
  <2>5. CASE Parses(m)
    <3>1. PICK v \in Module : Advances(m, "parse", v) /\ v.phase \in {PhaseParsedError, PhaseParsed}
      BY <2>5 DEF Parses
    <3>2. v.phase # PhaseCodeGen /\ mod[m].phase \notin {PhaseIfaceLoaded, PhaseLinked}
      BY <3>1, StageFacts DEF Advances, Guarded, PhaseParsedError, PhaseParsed, PhaseCodeGen,
                              PhaseIfaceLoaded, PhaseLinked
    <3> QED BY <2>2, <3>1, <3>2
  <2>6. CASE Checks(m)
    <3>1. PICK v \in Module : Advances(m, "tcheck", v) /\ v.phase \in {PhaseTypedError, PhaseTyped}
      BY <2>6 DEF Checks
    <3>2. v.phase # PhaseCodeGen /\ mod[m].phase \notin {PhaseIfaceLoaded, PhaseLinked}
      BY <3>1, StageFacts DEF Advances, Guarded, PhaseTypedError, PhaseTyped, PhaseCodeGen,
                              PhaseIfaceLoaded, PhaseLinked
    <3> QED BY <2>2, <3>1, <3>2
  <2>7. CASE Optimizes(m)
    <3>1. PICK v \in Module :
            /\ Advances(m, "optimize", v) /\ v.core = mod[m].core
            /\ \/ mod[m].phase = PhaseTyped /\ v.phase = PhaseOptimized
               \/ mod[m].phase = PhaseIfaceLoaded /\ v.phase = PhaseLinked
      BY <2>7 DEF Optimizes
    <3>2. /\ v.phase # PhaseCodeGen
          /\ mod[m].phase \in {PhaseIfaceLoaded, PhaseLinked} =>
                 v.phase \in {PhaseIfaceLoaded, PhaseLinked} /\ v.core = mod[m].core
      BY <3>1 DEF PhaseTyped, PhaseOptimized, PhaseCodeGen, PhaseIfaceLoaded, PhaseLinked
    <3> QED BY <2>2, <3>1, <3>2
  <2>8. CASE Generates(m)
    <3>1. PICK v \in Module :
            /\ Advances(m, "codegen", v) /\ mod[m].phase = PhaseOptimized /\ m \in link'
      BY <2>8 DEF Generates
    <3>2. mod[m].phase \notin {PhaseIfaceLoaded, PhaseLinked}
      BY <3>1 DEF PhaseOptimized, PhaseIfaceLoaded, PhaseLinked
    <3> QED BY <2>2, <3>1, <3>2
  <2>9. CASE Links(m)
    <3>1. PICK v \in Module :
            Advances(m, "link", v) /\ mod[m].phase = PhaseCodeGen /\ v.phase = PhaseLinked
      BY <2>9 DEF Links
    <3>2. mod[m].phase \notin {PhaseIfaceLoaded, PhaseLinked} /\ v.phase # PhaseCodeGen
      BY <3>1 DEF PhaseCodeGen, PhaseIfaceLoaded, PhaseLinked
    <3> QED BY <2>2, <3>1, <3>2
  <2>10. ASSUME NEW s \in {"optimize", "codegen", "link"}, Breaks(m, s) PROVE P(m)'
    <3>1. /\ pc[m] = s /\ mod[m].phase = Expect[s] /\ mod'[m] = Failed(m) /\ s \in Stages
          /\ \A r \in Stages :
               IF r \in Rest(s) THEN maps'[r][m] = IF r = s THEN mod[m] ELSE ctx[m]
                                ELSE maps'[r] = maps[r]
      BY <2>10 DEF Breaks
    <3>2. /\ mod'[m].phase = ctx[m].phase /\ mod'[m].deps = ctx[m].deps
          /\ mod'[m].core = ctx[m].core /\ mod'[m].err
      BY <2>0, <3>1 DEF Failed, Module
    <3>3. ctx[m].phase <= Expect[s] /\ ctx[m].phase \in Nat
      BY <2>0, <3>1, PhaseRange DEF P, Module
    <3>4. ctx[m].phase # PhaseCodeGen BY AtStage DEF Validated
    <3>5. ASSUME NEW r \in Stages, m \in DOMAIN maps'[r]
          PROVE  /\ maps'[r][m].phase < Target[r] => ctx[m].phase < Target[r]
                 /\ ~(r = "link" /\ maps'[r][m].phase = PhaseLinked)
      <4>1. Expect[s] < Target[s] /\ Expect[s] < PhaseLinked
        BY <3>1, StageFacts DEF PhaseLinked
      <4>2. CASE r \in Rest(s)
        <5>1. Target[s] <= Target[r] BY <3>1, <4>2, StageFacts, StageNames DEF Rest, Later
        <5>2. maps'[r][m].phase <= Expect[s]
          BY <3>1, <3>3, <4>2, StageFacts, StageNames
        <5> QED BY <3>3, <4>1, <5>1, <5>2, StageFacts, StageNames DEF PhaseLinked
      <4>3. CASE r \notin Rest(s)
        <5>1. maps'[r] = maps[r] BY <3>1, <4>3
        <5>2. Target[r] <= Expect[s] /\ Target[r] < Target[s] BY <3>1, <3>5, <5>1, Guards
        <5>3. r # "link" BY <5>2, StageFacts, StageNames
        <5>4. ~(maps[r][m].phase < Target[r])
          BY <2>0, <3>1, <3>5, <5>1, <5>2, StageFacts, StageNames DEF P
        <5> QED BY <5>1, <5>3, <5>4
      <4> QED BY <4>2, <4>3
    <3>6. /\ ctx[m].phase \in {PhaseIfaceLoaded, PhaseLinked} =>
               ctx[m].phase \in {PhaseIfaceLoaded, PhaseLinked} /\ ctx[m].core = ctx[m].core
          /\ ctx[m].phase >= ctx[m].phase
      BY <3>3
    <3> HIDE DEF ThreadContext
    <3> QED BY <2>0, <3>2, <3>4, <3>5, <3>6 DEF P
  <2>11. \A s \in Stages : Breaks(m, s) => s \in {"optimize", "codegen", "link"} BY DEF Breaks
  <2> QED BY <2>3, <2>4, <2>5, <2>6, <2>7, <2>8, <2>9, <2>10, <2>11 DEF Kinds
<1> QED BY <1>1, <1>2, <1>3 DEF Steady

LEMMA ThreadValidated ==
  ASSUME NEW m, ThreadContext(m)
  PROVE  Validated'
<1>1. ctx' = ctx /\ dirty' = dirty /\ goal' = goal BY DEF ThreadContext, Frame
<1> QED BY <1>1 DEF ThreadContext, Validated, Idle

(* What a thread that works on its module finds in it.                     *)
LEMMA WorkPhase ==
  ASSUME NEW m, ThreadContext(m), NEW s \in Stages, NEW v, Advances(m, s, v)
  PROVE  /\ pc[m] = s /\ Expect[s] <= mod[m].phase /\ mod[m].phase < Target[s]
         /\ mod[m].phase >= PhaseLexed
<1>1. pc[m] = s /\ ~Guarded(m, s) BY DEF Advances, Moves
<1>2. mod[m].phase \in Nat BY AtStage, PhaseRange DEF Module
<1> QED BY <1>1, <1>2, StageFacts, StageNames DEF Guarded, PhaseLexed

(* A module that is worked on has been lexed, and its source not edited.   *)
LEMMA WorkLexed ==
  ASSUME NEW m, ThreadContext(m), Lexable, mod[m].phase >= PhaseLexed
  PROVE  m \notin dirty /\ src[m] \notin Unlexable
<1>1. m \in DOMAIN ctx /\ m \notin dirty BY AtStage DEF ThreadContext, Validated
<1>2. ctx[m].phase # PhaseInit
  BY AtStage DEF ThreadContext, Steady, PhaseInit, PhaseLexed
<1> QED BY <1>1, <1>2 DEF Lexable

LEMMA ThreadLexable ==
  ASSUME NEW m, ThreadContext(m), Lexable
  PROVE  Lexable'
<1>1. ctx' = ctx /\ dirty' = dirty /\ src' = src BY DEF ThreadContext, Frame
<1>2. ASSUME NEW d \in Modules \ {m} PROVE Newer(d)' => Newer(d)
  BY <1>2 DEF ThreadContext, FileFrame, Newer
<1>3. Newer(m)' => m \notin dirty /\ src[m] \notin Unlexable
  <2>1. CASE Links(m)
    <3>1. PICK v : Advances(m, "link", v) BY <2>1 DEF Links
    <3> QED BY <3>1, WorkPhase, WorkLexed, StageNames
  <2>3. CASE Breaks(m, "link")
    <3>1. pc[m] = "link" /\ mod[m].phase = Expect["link"] BY <2>3 DEF Breaks
    <3> QED BY <3>1, WorkLexed, StageFacts DEF PhaseLexed
  <2>2. CASE ~Links(m) /\ ~Breaks(m, "link")
    <3>1. iface' = iface \/ iface' = Without(iface, m)
      BY <2>2 DEF ThreadContext, Kinds, Passes, Waits, Breaks, Parses, Checks, Optimizes,
                  Generates, KeepsFiles
    <3>2. DOMAIN Without(iface, m) = DOMAIN iface \ {m} BY DEF Without, Restrict
    <3> QED BY <3>1, <3>2 DEF ThreadContext, Lexable, Newer
  <2> QED BY <2>1, <2>2, <2>3
<1> QED BY <1>1, <1>2, <1>3 DEF Lexable

(* What a stage has lost stays lost.                                       *)
LEMMA LostStays ==
  ASSUME NEW m, ThreadContext(m), Staged', NEW d, Lost(d)
  PROVE  Lost(d)'
<1>1. DOMAIN pc' = DOMAIN pc /\ goal' = goal /\ d \in DOMAIN pc
      /\ \A e \in DOMAIN pc \ {m} : mod'[e] = mod[e] /\ pc'[e] = pc[e]
  BY DEF ThreadContext, Frame, Lost
<1>2. CASE d # m BY <1>1, <1>2 DEF Lost, Past
<1>3. CASE d = m /\ mod[m].err
  <2>1. mod'[m].err
    <3>1. CASE \E s \in Stages : Passes(m, s) \/ Waits(m, s)
      BY <1>3, <3>1 DEF Passes, Waits, Moves
    <3>2. CASE \E s \in Stages : Breaks(m, s)
      BY <3>2, AtStage DEF Breaks, Failed, Module
    <3>3. CASE Parses(m) \/ Checks(m) \/ Optimizes(m) \/ Generates(m) \/ Links(m)
      BY <1>3, <3>3 DEF Parses, Checks, Optimizes, Generates, Links, Advances, Moves
    <3> QED BY <3>1, <3>2, <3>3 DEF ThreadContext, Kinds
  <2> QED BY <1>1, <1>3, <2>1 DEF Lost
<1>4. CASE d = m /\ \E r \in Past(m) : mod[m].phase < Target[r]
  <2>1. PICK r \in Stages : r \in Past(m) /\ mod[m].phase < Target[r] BY <1>4 DEF Past
  <2>2. m \in DOMAIN maps[r] /\ m \in DOMAIN maps'[r]
    BY <2>1, <1>1, <1>4 DEF ThreadContext, Staged, Frame
  <2>3. Target[r] <= Expect[pc[m]] /\ Target[r] < Target[pc[m]] BY <2>2, Guards
  <2>4. r \in Past(m)' BY <2>2, <1>1, <1>4 DEF Staged
  <2>5. mod[m].phase \in Nat /\ pc[m] \in Stages BY AtStage, PhaseRange DEF Module
  <2>6. mod[m].phase < Expect[pc[m]] BY <2>1, <2>3, <2>5, StageFacts, StageNames
  <2>7. Guarded(m, pc[m]) BY <2>6 DEF Guarded
  <2>8. CASE \E s \in Stages : Passes(m, s)
    <3>1. mod'[m] = mod[m] BY <2>8 DEF Passes, Moves
    <3>2. Target[r]' = Target[r] OBVIOUS
    <3> QED BY <1>1, <1>4, <2>1, <2>4, <3>1 DEF Lost
  <2>9. ~\E s \in Stages : Waits(m, s) BY <2>7 DEF Waits, Moves
  <2>10. ~(Parses(m) \/ Checks(m) \/ Optimizes(m) \/ Generates(m) \/ Links(m))
    BY <2>7 DEF Parses, Checks, Optimizes, Generates, Links, Advances, Moves
  <2>11. ~\E s \in Stages : Breaks(m, s)
    BY <2>5, <2>6 DEF Breaks
  <2> QED BY <2>8, <2>9, <2>10, <2>11 DEF ThreadContext, Kinds
<1> QED BY <1>2, <1>3, <1>4 DEF Lost

(* A module for which a stage waits in vain is lost.                       *)
LEMMA LacksLost ==
  ASSUME NEW m, ThreadContext(m), NEW d, NEW r, Lacks(m, d, r)
  PROVE  /\ Lost(d) /\ Rank[d] < Rank[m] /\ mod[d].phase < Target[r]
         /\ d \in DOMAIN pc /\ r \in Past(d)
<1>1. d \in DOMAIN maps[r] /\ r \in Stages /\ maps[r][d].phase < Target[r] BY DEF Lacks
<1>2. d \in DOMAIN pc BY <1>1 DEF ThreadContext, Staged
<1>3. r \in Past(d) BY <1>1, <1>2 DEF ThreadContext, Staged
<1>4. mod[d].phase < Target[r] BY <1>1, <1>2 DEF ThreadContext, Steady
<1>5. Rank[d] < Rank[m] BY ReachLower DEF ThreadContext, Lacks
<1> QED BY <1>2, <1>3, <1>4, <1>5 DEF Lost

LEMMA ThreadExplained ==
  ASSUME NEW m, ThreadContext(m), Staged', Explained
  PROVE  Explained'
<1>1. DOMAIN pc' = DOMAIN pc /\ goal' = goal
      /\ \A e \in DOMAIN pc \ {m} : mod'[e] = mod[e] /\ pc'[e] = pc[e]
  BY DEF ThreadContext, Frame
<1>2. ASSUME NEW d \in DOMAIN pc, Lost(d)
      PROVE  mod[d].err \/ \E e \in DOMAIN pc' : Rank[e] < Rank[d] /\ Lost(e)'
  BY <1>1, <1>2, LostStays DEF Explained
<1>3. ASSUME NEW d \in DOMAIN pc, d # m, Lost(d)'
      PROVE  mod'[d].err \/ \E e \in DOMAIN pc' : Rank[e] < Rank[d] /\ Lost(e)'
  <2>1. Lost(d) BY <1>1, <1>3 DEF Lost, Past
  <2> QED BY <1>1, <1>2, <1>3, <2>1
<1>4. ASSUME Lost(m)', ~mod'[m].err
      PROVE  \E e \in DOMAIN pc' : Rank[e] < Rank[m] /\ Lost(e)'
  <2>1. PICK r \in Stages : r \in Past(m)' /\ mod'[m].phase < Target[r]
    BY <1>4 DEF Lost, Past
  <2>2. m \in DOMAIN pc /\ m \in DOMAIN maps'[r]
    BY <2>1, <1>1, AtStage DEF Staged
  <2>3. ASSUME m \in DOMAIN maps[r], mod[m].phase < Target[r], ~mod[m].err
        PROVE  \E e \in DOMAIN pc' : Rank[e] < Rank[m] /\ Lost(e)'
    <3>1. Lost(m) BY <2>2, <2>3 DEF Lost, ThreadContext, Staged
    <3> QED BY <1>2, <2>2, <2>3, <3>1
  <2>4. CASE \E s \in Stages : Passes(m, s)
    <3>1. PICK s \in Stages : Passes(m, s) BY <2>4
    <3>2. /\ mod'[m] = mod[m] /\ pc[m] = s /\ Guarded(m, s)
          /\ \A q \in Stages \ {s} : maps'[q] = maps[q]
      BY <3>1 DEF Passes, Moves
    <3>3. CASE r # s BY <1>4, <2>1, <2>2, <2>3, <3>2, <3>3
    <3>4. CASE r = s
      <4>1. mod[m].phase \in Nat BY AtStage, PhaseRange DEF Module
      <4>2. mod[m].phase < Expect[s]
        BY <2>1, <3>2, <3>4, <4>1, StageFacts, StageNames DEF Guarded
      <4>3. CASE s = "parse"
        <5>1. mod[m].phase = PhaseInit BY <4>1, <4>2, <4>3, StageFacts DEF PhaseInit
        <5>2. ctx[m].phase = PhaseInit
          BY <5>1, AtStage, PhaseRange DEF ThreadContext, Steady, PhaseInit, Module
        <5>3. mod[m].err BY <5>2, AtStage DEF ThreadContext, Validated, Steady
        <5> QED BY <1>4, <3>2, <5>3
      <4>4. CASE s # "parse"
        <5>1. PICK q \in Stages : Target[q] = Expect[s] /\ Target[q] < Target[s]
          BY <4>4, StageFacts, StageNames
        <5>2. m \in DOMAIN maps[q] BY <5>1, <3>2, AtStage
        <5>3. q \in Past(m) BY <5>2, <2>2 DEF ThreadContext, Staged
        <5>4. Lost(m) BY <5>1, <5>3, <4>2, <2>2 DEF Lost
        <5> QED BY <1>2, <1>4, <2>2, <3>2, <5>4
      <4> QED BY <4>3, <4>4
    <3> QED BY <3>3, <3>4
  <2>5. CASE \E s \in Stages : Waits(m, s)
    <3>1. PICK d, q : Lacks(m, d, q) BY <2>5 DEF Waits
    <3>2. d \in DOMAIN pc /\ Rank[d] < Rank[m] /\ Lost(d) BY <3>1, LacksLost
    <3> QED BY <1>1, <3>2, LostStays
  <2>6. CASE \E s \in Stages : Breaks(m, s)
    <3>1. mod'[m].err BY <2>6, AtStage DEF Breaks, Failed, Module
    <3> QED BY <1>4, <3>1
  <2>7. ASSUME NEW s \in Stages, NEW v \in Module, Advances(m, s, v)
        PROVE  \E e \in DOMAIN pc' : Rank[e] < Rank[m] /\ Lost(e)'
    <3>1. /\ mod'[m] = v /\ pc[m] = s /\ v.phase >= Target[s]
          /\ \A q \in Stages \ {s} : maps'[q] = maps[q]
      BY <1>4, <2>7 DEF Advances, Moves
    <3>2. r # s BY <2>1, <3>1, <2>7, PhaseRange, StageFacts, StageNames DEF Module
    <3>3. m \in DOMAIN maps[r] BY <2>2, <3>1, <3>2
    <3>4. Target[r] < Target[s] BY <3>1, <3>3, Guards
    <3> QED BY <2>1, <3>1, <3>4, <2>7, PhaseRange, StageFacts, StageNames DEF Module
  <2>8. CASE Parses(m) \/ Checks(m) \/ Optimizes(m) \/ Generates(m) \/ Links(m)
    BY <2>7, <2>8, StageNames DEF Parses, Checks, Optimizes, Generates, Links
  <2> QED BY <2>4, <2>5, <2>6, <2>8 DEF ThreadContext, Kinds
<1> QED BY <1>1, <1>3, <1>4 DEF Explained

LEMMA ThreadLinked ==
  ASSUME NEW m, ThreadContext(m), Linked
  PROVE  Linked'
<1>1. DOMAIN pc' = DOMAIN pc /\ ~Idle' /\ \A e \in DOMAIN pc \ {m} : mod'[e] = mod[e]
  BY AtStage DEF ThreadContext, Frame
<1>2. ASSUME NEW d \in DOMAIN pc, d # m PROVE HasInterface(d, mod[d])'
  <2>1. d \in Modules BY DEF ThreadContext, Types, Holds
  <2>2. HasInterface(d, mod[d]) BY DEF Linked
  <2> QED BY <1>1, <1>2, <2>1, <2>2 DEF ThreadContext, FileFrame, HasInterface
<1>3. HasInterface(m, mod[m])'
  <2>0. HasInterface(m, mod[m]) BY AtStage DEF Linked
  <2>1. CASE \E s \in Stages : Passes(m, s) \/ Waits(m, s)
    BY <2>0, <2>1 DEF Passes, Waits, Moves, KeepsFiles, HasInterface
  <2>2. CASE Parses(m) \/ Checks(m)
    <3>1. mod'[m].phase \in {PhaseParsedError, PhaseParsed, PhaseTypedError, PhaseTyped}
      BY <2>2 DEF Parses, Checks, Advances, Moves
    <3>2. mod'[m].phase \notin {PhaseIfaceLoaded, PhaseLinked}
      BY <3>1 DEF PhaseParsedError, PhaseParsed, PhaseTypedError, PhaseTyped,
                  PhaseIfaceLoaded, PhaseLinked
    <3> QED BY <3>2 DEF HasInterface
  <2>3. CASE Optimizes(m)
    <3>1. /\ mod'[m].core = mod[m].core /\ iface' = iface
          /\ mod'[m].phase = PhaseOptimized \/ mod[m].phase = PhaseIfaceLoaded
      BY <2>3 DEF Optimizes, Advances, Moves, KeepsFiles
    <3>2. PhaseOptimized \notin {PhaseIfaceLoaded, PhaseLinked}
      BY DEF PhaseOptimized, PhaseIfaceLoaded, PhaseLinked
    <3> QED BY <2>0, <3>1, <3>2 DEF HasInterface
  <2>4. CASE Generates(m)
    <3>1. mod'[m].phase = PhaseCodeGen BY <2>4 DEF Generates, Advances, Moves
    <3> QED BY <3>1 DEF HasInterface, PhaseCodeGen, PhaseIfaceLoaded, PhaseLinked
  <2>5. CASE Links(m)
    <3>1. PICK v \in Module :
            /\ Advances(m, "link", v) /\ mod[m].phase = PhaseCodeGen
            /\ iface' = (IF m \in link THEN With(iface, m, [core |-> v.core, newer |-> TRUE]) ELSE iface)
      BY <2>5 DEF Links
    <3>2. m \in link BY <3>1, AtStage DEF ThreadContext, Steady
    <3>3. iface' = With(iface, m, [core |-> v.core, newer |-> TRUE]) /\ mod'[m] = v
      BY <3>1, <3>2 DEF Advances, Moves
    <3>4. m \in DOMAIN iface' /\ iface'[m].core = v.core BY <3>3 DEF With
    <3> QED BY <3>3, <3>4 DEF HasInterface
  <2>6. CASE \E s \in Stages : Breaks(m, s)
    <3>1. PICK s \in Stages : Breaks(m, s) BY <2>6
    <3>2. mod'[m].phase = ctx[m].phase /\ mod[m].phase = Expect[s]
          /\ s \in {"optimize", "codegen", "link"}
      BY <3>1, AtStage DEF Breaks, Failed, Module
    <3>3. mod[m].phase \notin {PhaseIfaceLoaded, PhaseLinked}
      BY <3>2, StageFacts DEF PhaseIfaceLoaded, PhaseLinked
    <3>4. ctx[m].phase \notin {PhaseIfaceLoaded, PhaseLinked}
      BY <3>3, AtStage DEF ThreadContext, Steady
    <3> QED BY <3>2, <3>4 DEF HasInterface
  <2> QED BY <2>1, <2>2, <2>3, <2>4, <2>5, <2>6 DEF ThreadContext, Kinds
<1> QED BY <1>1, <1>2, <1>3 DEF Linked

LEMMA MissingStays ==
  ASSUME NEW m, ThreadContext(m), NEW d, NEW e, Missing(d, e)
  PROVE  Missing(d, e)'
<1>1. /\ e \in Reach[d] \ {d} /\ e \in DOMAIN maps["codegen"] /\ mod[e].phase < PhaseCodeGen
      /\ "codegen" \in Stages
  BY StageNames DEF Missing
<1>2. e \in DOMAIN maps'["codegen"] /\ e \in DOMAIN pc
  BY <1>1 DEF ThreadContext, Frame, Staged
<1>3. CASE e # m
  BY <1>1, <1>2, <1>3 DEF ThreadContext, Frame, Missing
<1>4. CASE e = m
  <2>1. pc[m] = "link" BY <1>1, <1>4, Guards, AtStage, StageFacts, StageNames
  <2>2. Expect["link"] = PhaseCodeGen BY StageFacts DEF PhaseCodeGen
  <2>3. Guarded(m, "link") BY <1>1, <1>4, <2>2 DEF Guarded
  <2>4. mod[m].phase # Expect["link"]
    BY <1>1, <1>4, <2>2, AtStage, PhaseRange DEF Module, PhaseCodeGen
  <2>5. CASE \E s \in Stages : Passes(m, s) \/ Waits(m, s)
    BY <1>1, <1>2, <1>4, <2>5 DEF Passes, Waits, Moves, Missing
  <2>6. ~\E s \in Stages : Breaks(m, s) BY <2>1, <2>4 DEF Breaks
  <2>7. ~(Parses(m) \/ Checks(m) \/ Optimizes(m) \/ Generates(m) \/ Links(m))
    BY <2>1, <2>3 DEF Parses, Checks, Optimizes, Generates, Links, Advances, Moves
  <2> QED BY <2>5, <2>6, <2>7 DEF ThreadContext, Kinds
<1> QED BY <1>3, <1>4

LEMMA ThreadUnlinked ==
  ASSUME NEW m, ThreadContext(m), Staged', Unlinked
  PROVE  Unlinked'
<1>1. /\ ~Idle' /\ "link" \in Stages /\ "codegen" \in Stages
      /\ DOMAIN maps'["link"] \subseteq DOMAIN maps["link"] \cup {m}
      /\ \A e \in DOMAIN pc \ {m} : mod'[e] = mod[e]
  BY AtStage, StageNames DEF ThreadContext, Frame
<1>2. ASSUME NEW d \in DOMAIN maps'["link"], d # m, mod'[d].phase = PhaseCodeGen
      PROVE  \E e \in Modules : Missing(d, e)'
  <2>1. d \in DOMAIN maps["link"] /\ d \in DOMAIN pc
    BY <1>1, <1>2 DEF ThreadContext, Staged
  <2>2. PICK e \in Modules : Missing(d, e) BY <1>1, <1>2, <2>1 DEF Unlinked
  <2> QED BY <2>2, MissingStays
<1>3. ASSUME m \in DOMAIN maps'["link"], mod'[m].phase = PhaseCodeGen
      PROVE  \E e \in Modules : Missing(m, e)'
  <2>1. m \notin DOMAIN maps["link"]
    BY <1>1, Guards, AtStage, StageFacts, StageNames
  <2>2. ASSUME NEW s \in Stages, NEW v, Moves(m, s, v) PROVE s = "link" /\ v.phase = PhaseCodeGen
    BY <1>1, <1>3, <2>1, <2>2 DEF Moves
  <2>3. CASE \E s \in Stages : Passes(m, s)
    <3>1. Moves(m, "link", mod[m]) /\ Guarded(m, "link") BY <2>2, <2>3 DEF Passes
    <3>2. mod[m].phase = PhaseCodeGen BY <3>1, <2>2, <1>1
    <3> QED BY <3>1, <3>2, StageFacts DEF Guarded, PhaseCodeGen
  <2>4. CASE \E s \in Stages : Waits(m, s)
    <3>1. PICK d \in Modules, r \in {"codegen", "link"} : Lacks(m, d, r)
      BY <2>2, <2>4 DEF Waits
    <3>2. /\ mod[d].phase < Target[r] /\ r \in Past(d) /\ d \in DOMAIN pc
          /\ d \in Reach[m] \ {m} /\ d \in DOMAIN maps[r]
      BY <3>1, LacksLost DEF Lacks
    <3>3. "codegen" \in Past(d)
      <4>1. pc[d] \in Stages \cup {"end"} BY <3>2 DEF ThreadContext, Types, Holds
      <4>2. goal \in Stages BY AtStage, StageNames
      <4>3. r \in Stages /\ "codegen" \in Stages /\ Target["codegen"] <= Target[r]
        BY <3>1, StageFacts, StageNames
      <4>4. \A q \in Stages : Target[q] \in Nat BY StageFacts, StageNames
      <4>5. Target[goal] \in Nat /\ Target[r] \in Nat /\ Target["codegen"] \in Nat
        BY <4>2, <4>3, <4>4
      <4>6. CASE pc[d] = "end"
        <5>1. Target[r] <= Target[goal] BY <3>2, <4>6 DEF Past
        <5>2. Target["codegen"] <= Target[goal] BY <4>3, <4>5, <5>1
        <5> QED BY <4>3, <4>6, <5>2 DEF Past
      <4>7. CASE pc[d] # "end"
        <5>1. Target[r] < Target[pc[d]] BY <3>2, <4>7 DEF Past
        <5>2. Target[pc[d]] \in Nat BY <4>1, <4>4, <4>7
        <5>3. Target["codegen"] < Target[pc[d]] BY <4>3, <4>5, <5>1, <5>2
        <5> QED BY <4>3, <4>7, <5>3 DEF Past
      <4> QED BY <4>6, <4>7
    <3>4. d \in DOMAIN maps["codegen"] BY <3>2, <3>3, <1>1 DEF ThreadContext, Staged
    <3>5. mod[d].phase \in Nat BY <3>2, PhaseRange DEF ThreadContext, Types, Holds, Module
    <3>6. CASE mod[d].phase < PhaseCodeGen
      <4>1. Missing(m, d) BY <3>2, <3>4, <3>6 DEF Missing
      <4> QED BY <3>1, <4>1, MissingStays
    <3>7. CASE ~(mod[d].phase < PhaseCodeGen)
      <4>1. r = "link" /\ mod[d].phase = PhaseCodeGen
        BY <3>2, <3>5, <3>7, StageFacts DEF PhaseCodeGen
      <4>2. PICK e \in Modules : Missing(d, e) BY <3>2, <4>1 DEF Unlinked
      <4>3. Missing(m, e) BY <3>2, <4>2, Below DEF Missing, ThreadContext
      <4> QED BY <4>3, MissingStays
    <3> QED BY <3>6, <3>7
  <2>5. CASE \E s \in Stages : Breaks(m, s)
    <3>1. mod'[m].phase = ctx[m].phase BY <2>5, AtStage DEF Breaks, Failed, Module
    <3>2. ctx[m].phase # PhaseCodeGen BY AtStage DEF ThreadContext, Validated
    <3> QED BY <1>3, <3>1, <3>2
  <2>6. CASE Parses(m) \/ Checks(m) \/ Optimizes(m) \/ Generates(m)
    BY <2>2, <2>6, StageNames DEF Parses, Checks, Optimizes, Generates, Advances
  <2>7. CASE Links(m)
    <3>1. mod'[m].phase = PhaseLinked BY <2>7 DEF Links, Advances, Moves
    <3> QED BY <1>3, <3>1 DEF PhaseLinked, PhaseCodeGen
  <2> QED BY <2>3, <2>4, <2>5, <2>6, <2>7 DEF ThreadContext, Kinds
<1> QED BY <1>1, <1>2, <1>3 DEF Unlinked

LEMMA AddOne ==
  ASSUME NEW S \in SUBSET Modules, NEW m \in Modules
  PROVE  /\ Cardinality(S) \in Nat /\ Cardinality(S) <= Cardinality(Modules)
         /\ m \notin S => Cardinality(S \cup {m}) = Cardinality(S) + 1
<1>1. IsFiniteSet(Modules) /\ IsFiniteSet(S) BY BuildAssumption, FS_Subset
<1> QED BY <1>1, FS_AddElement, FS_CardinalityType, FS_Subset

(* The stage of a module that is done adds to the work just what it counts. *)
LEMMA ThreadAccounted ==
  ASSUME NEW m, ThreadContext(m), Accounted
  PROVE  Accounted'
<1> DEFINE C(f, s) == Cardinality(DOMAIN f[s])
<1>1. /\ work = Units(maps) /\ goal' = goal /\ m \in Modules /\ pc[m] \in Stages
  BY AtStage DEF ThreadContext, Accounted, Frame
<1>2. ASSUME NEW s \in Stages
      PROVE  /\ C(maps, s) \in Nat /\ C(maps', s) \in Nat /\ C(maps', s) <= Cardinality(Modules)
             /\ maps'[s] = maps[s] => C(maps', s) = C(maps, s)
             /\ m \notin DOMAIN maps[s] /\ m \in DOMAIN maps'[s] => C(maps', s) = C(maps, s) + 1
  <2>1. DOMAIN maps[s] \in SUBSET Modules /\ DOMAIN maps'[s] \in SUBSET Modules
    BY DEF ThreadContext, Types, Holds
  <2>2. m \in DOMAIN maps'[s] => DOMAIN maps'[s] = DOMAIN maps[s] \cup {m}
    BY DEF ThreadContext, Frame
  <2> QED BY <1>1, <2>1, <2>2, AddOne
<1>3. Cardinality(Modules) \in Nat BY BuildAssumption, FS_CardinalityType
<1>4. /\ Units(maps) = C(maps, "parse") + 2 * C(maps, "tcheck") + C(maps, "optimize")
                         + C(maps, "codegen") + 3 * C(maps, "link")
      /\ Units(maps)' = C(maps', "parse") + 2 * C(maps', "tcheck") + C(maps', "optimize")
                         + C(maps', "codegen") + 3 * C(maps', "link")
  BY DEF Units
<1>5. ASSUME NEW s \in Stages, NEW v, Moves(m, s, v) PROVE work' = Units(maps)'
  <2>1. /\ work' = work + phaseWorkUnit[s] /\ C(maps', s) = C(maps, s) + 1
        /\ \A r \in Stages \ {s} : C(maps', r) = C(maps, r)
    BY <1>2, <1>5 DEF Moves
  <2>2. /\ phaseWorkUnit["parse"] = 1 /\ phaseWorkUnit["tcheck"] = 2
        /\ phaseWorkUnit["optimize"] = 1 /\ phaseWorkUnit["codegen"] = 1
        /\ phaseWorkUnit["link"] = 3
    BY DEF phaseWorkUnit, Stages
  <2> HIDE DEF C
  <2> QED BY <1>1, <1>2, <1>4, <2>1, <2>2, StageNames
<1>6. ASSUME NEW s \in {"optimize", "codegen", "link"}, Breaks(m, s) PROVE work' = Units(maps)'
  <2>1. /\ work' = work + RestWork[s]
        /\ \A r \in Stages : r \in Rest(s) => C(maps', r) = C(maps, r) + 1
        /\ \A r \in Stages : r \notin Rest(s) => C(maps', r) = C(maps, r)
    BY <1>2, <1>6 DEF Breaks
  <2>2. /\ RestWork["optimize"] = 5 /\ RestWork["codegen"] = 4 /\ RestWork["link"] = 3
    BY DEF RestWork
  <2>3. /\ Rest("optimize") = {"optimize", "codegen", "link"}
        /\ Rest("codegen") = {"codegen", "link"} /\ Rest("link") = {"link"}
    BY StageFacts, StageNames DEF Rest, Later
  <2> HIDE DEF C
  <2> QED BY <1>1, <1>2, <1>4, <2>1, <2>2, <2>3, StageNames
<1>7. work' = Units(maps)' BY <1>5, <1>6, KindsMove
<1>8. work' <= 8 * Cardinality(Modules)
  <2> HIDE DEF C
  <2> QED BY <1>2, <1>3, <1>4, <1>7, StageNames
<1> QED BY <1>7, <1>8 DEF Accounted

-----------------------------------------------------------------------------
(* Validation: a module is kept as it is in the context, its interface is  *)
(* loaded, or its source is lexed.                                         *)
Kept(m, w) ==
  /\ m \in DOMAIN ctx \ dirty /\ w = ctx[m]
  /\ w.phase >= PhaseLexed /\ ~isErrorPhase(w.phase)

Loaded(m, w) ==
  /\ m \notin DOMAIN ctx /\ Newer(m) /\ w = moduleLoadIface(m, Created(m))

Lexed(m, w) ==
  /\ w.phase \in {PhaseInit, PhaseLexed} /\ w.text = src[m]
  /\ w.phase = PhaseInit <=> src[m] \in Unlexable
  /\ w.phase = PhaseInit => w.err
  /\ w.phase = PhaseLexed => w.deps = Imports[m]

Between == Types /\ Staged /\ Validated /\ Lexable /\ Linked /\ Unlinked /\ Idle

LEMMA CreatedType ==
  ASSUME Types, NEW m \in Modules
  PROVE  /\ Created(m) \in Module /\ Created(m).phase = PhaseInit /\ Created(m).deps = {}
BY PhaseRange DEF Created, Module, Types, Cores

LEMMA LexFacts ==
  ASSUME Types, NEW m \in Modules, NEW v \in Module
  PROVE  /\ moduleLex(m, v) \in Module /\ Lexed(m, moduleLex(m, v))
         /\ moduleLex(m, v).phase = PhaseInit => moduleLex(m, v).deps = v.deps
<1>1. src[m] \in Texts /\ Imports[m] \in SUBSET Modules /\ PhaseInit # PhaseLexed
  BY BuildAssumption DEF Types, PhaseInit, PhaseLexed
<1>2. CASE src[m] \in Unlexable
  <2>1. moduleLex(m, v) = [v EXCEPT !.phase = PhaseInit, !.text = src[m], !.err = TRUE]
    BY <1>2 DEF moduleLex
  <2>2. moduleLex(m, v) \in Module BY <1>1, <2>1, PhaseRange DEF Module
  <2>3. /\ moduleLex(m, v).phase = PhaseInit /\ moduleLex(m, v).text = src[m]
        /\ moduleLex(m, v).err /\ moduleLex(m, v).deps = v.deps
    BY <1>1, <2>1, PhaseRange DEF Module
  <2> QED BY <1>1, <1>2, <2>2, <2>3 DEF Lexed
<1>3. CASE src[m] \notin Unlexable
  <2>1. moduleLex(m, v) = [v EXCEPT !.phase = PhaseLexed, !.text = src[m],
                                    !.deps = Imports[m], !.err = FALSE]
    BY <1>3 DEF moduleLex
  <2>2. moduleLex(m, v) \in Module BY <1>1, <2>1, PhaseRange DEF Module
  <2>3. /\ moduleLex(m, v).phase = PhaseLexed /\ moduleLex(m, v).text = src[m]
        /\ moduleLex(m, v).deps = Imports[m]
    BY <1>1, <2>1, PhaseRange DEF Module
  <2> QED BY <1>1, <1>3, <2>2, <2>3 DEF Lexed
<1> QED BY <1>2, <1>3

LEMMA LoadIfaceFacts ==
  ASSUME Types, NEW m \in Modules, m \in DOMAIN iface, NEW v \in Module
  PROVE  LET w == moduleLoadIface(m, v)
         IN  /\ w \in Module /\ w.phase \in {PhaseIfaceLoaded, PhaseLinked}
             /\ w.deps = CoreImports[m] /\ w.core = iface[m].core
<1>1. iface[m].core \in Cores /\ CoreImports[m] \in SUBSET Modules
  BY CoreImportsFacts, ReachSelf DEF Types, Holds
<1>2. (m \in Inlined) \in BOOLEAN BY SMT
<1>3. PICK p \in {PhaseIfaceLoaded, PhaseLinked} :
        p = IF m \in Inlined THEN PhaseIfaceLoaded ELSE PhaseLinked
  OBVIOUS
<1>4. moduleLoadIface(m, v) = [v EXCEPT !.phase = p, !.deps = CoreImports[m],
         !.core = iface[m].core, !.inl = m \in Inlined, !.err = FALSE]
  BY <1>3 DEF moduleLoadIface
<1>5. moduleLoadIface(m, v) \in Module BY <1>1, <1>2, <1>3, <1>4, PhaseRange DEF Module
<1>6. /\ moduleLoadIface(m, v).phase = p /\ moduleLoadIface(m, v).deps = CoreImports[m]
      /\ moduleLoadIface(m, v).core = iface[m].core
  BY <1>4 DEF Module
<1> QED BY <1>3, <1>5, <1>6

LEMMA ValidateFacts ==
  ASSUME Between, NEW m \in Modules
  PROVE  LET v == moduleValidate(m)
         IN  /\ v \in Module /\ v.deps \subseteq CoreImports[m]
             /\ v.phase >= PhaseLexed => m \in DOMAIN ctx \ dirty /\ v = ctx[m]
             /\ m \notin DOMAIN ctx => v = Created(m)
             /\ m \in DOMAIN ctx => v.deps = ctx[m].deps
             /\ m \in DOMAIN ctx /\ ~(v.phase >= PhaseLexed) => ~Newer(m)
<1>1. CASE m \notin DOMAIN ctx
  BY <1>1, CreatedType DEF Between, moduleValidate, PhaseInit, PhaseLexed
<1>2. CASE m \in DOMAIN ctx /\ m \in dirty
  <2>1. ctx[m] \in Module /\ ~Newer(m) /\ ctx[m].deps \subseteq CoreImports[m]
    BY <1>2 DEF Between, Types, Holds, Lexable, Validated
  <2>2. moduleValidate(m) = [ctx[m] EXCEPT !.phase = PhaseInit, !.err = FALSE, !.inl = FALSE]
    BY <1>2 DEF moduleValidate, Reset
  <2>3. moduleValidate(m) \in Module /\ moduleValidate(m).phase = PhaseInit
        /\ moduleValidate(m).deps = ctx[m].deps
    BY <2>1, <2>2, PhaseRange DEF Module
  <2> QED BY <1>2, <2>1, <2>3 DEF PhaseInit, PhaseLexed
<1>3. CASE m \in DOMAIN ctx /\ m \notin dirty
  <2>1. ctx[m] \in Module /\ ctx[m].deps \subseteq CoreImports[m]
    BY <1>3 DEF Between, Types, Holds, Validated
  <2>2. moduleValidate(m) = ctx[m] BY <1>3 DEF moduleValidate
  <2>3. ~(ctx[m].phase >= PhaseLexed) => ~Newer(m)
    BY <1>3, <2>1, PhaseRange DEF Between, Lexable, Module, PhaseInit, PhaseLexed
  <2> QED BY <1>3, <2>1, <2>2, <2>3
<1> QED BY <1>1, <1>2, <1>3

LEMMA LoadFacts ==
  ASSUME Between, NEW m \in Modules, NEW forced
  PROVE  LET w == moduleLoad(m, forced)
         IN  /\ w \in Module /\ w.deps \subseteq CoreImports[m]
             /\ w.phase >= PhaseLexed => Imports[m] \subseteq w.deps
             /\ Kept(m, w) \/ Loaded(m, w) \/ Lexed(m, w)
             /\ m \in DOMAIN ctx => w.deps \in {ctx[m].deps, Imports[m]}
<1> DEFINE v == moduleValidate(m)
           force == m \in forced \/ isErrorPhase(v.phase)
           w == moduleLoad(m, forced)
<1>1. /\ v \in Module /\ v.deps \subseteq CoreImports[m]
      /\ v.phase >= PhaseLexed => m \in DOMAIN ctx \ dirty /\ v = ctx[m]
      /\ m \notin DOMAIN ctx => v = Created(m)
      /\ m \in DOMAIN ctx => v.deps = ctx[m].deps
      /\ m \in DOMAIN ctx /\ ~(v.phase >= PhaseLexed) => ~Newer(m)
  BY ValidateFacts
<1>2. Imports[m] \subseteq CoreImports[m] BY CoreImportsFacts
<1>3. CASE v.phase >= PhaseLexed /\ ~force
  <2>1. w = v BY <1>3 DEF moduleLoad
  <2>2. Kept(m, w) BY <1>1, <1>3, <2>1 DEF Kept
  <2>3. Imports[m] \subseteq w.deps BY <1>1, <1>3, <2>1 DEF Between, Validated
  <2> QED BY <1>1, <2>1, <2>2, <2>3
<1>4. CASE ~(v.phase >= PhaseLexed /\ ~force) /\ Newer(m) /\ ~force
  <2>1. w = moduleLoadIface(m, v) BY <1>4 DEF moduleLoad, Newer
  <2>2. m \notin DOMAIN ctx /\ v = Created(m) /\ m \in DOMAIN iface BY <1>1, <1>4 DEF Newer
  <2>3. Loaded(m, w) BY <1>4, <2>1, <2>2 DEF Loaded
  <2>4. w \in Module /\ w.deps = CoreImports[m]
    BY <1>1, <2>1, <2>2, LoadIfaceFacts DEF Between
  <2> QED BY <1>2, <2>2, <2>3, <2>4
<1>5. CASE ~(v.phase >= PhaseLexed /\ ~force) /\ ~(Newer(m) /\ ~force)
  <2>1. w = moduleLex(m, v) BY <1>5 DEF moduleLoad, Newer
  <2>2. /\ w \in Module /\ Lexed(m, w) /\ (w.phase = PhaseInit => w.deps = v.deps)
    BY <1>1, <2>1, LexFacts DEF Between
  <2>3. PhaseInit < PhaseLexed BY DEF PhaseInit, PhaseLexed
  <2>4. w.deps \in {v.deps, Imports[m]} /\ (w.phase >= PhaseLexed => w.deps = Imports[m])
    BY <2>2, <2>3 DEF Lexed, PhaseInit, PhaseLexed
  <2>5. w.deps \subseteq CoreImports[m] BY <1>1, <1>2, <2>4
  <2>6. w.phase >= PhaseLexed => Imports[m] \subseteq w.deps BY <2>4
  <2>7. m \in DOMAIN ctx => w.deps \in {ctx[m].deps, Imports[m]} BY <1>1, <2>4
  <2> HIDE DEF w
  <2> QED BY <2>2, <2>5, <2>6, <2>7 DEF w
<1> QED BY <1>3, <1>4, <1>5

LEMMA ReloadFacts ==
  ASSUME Between, NEW m \in Modules, NEW forced
  PROVE  LET w == Reloaded(m, forced)  l == moduleLoad(m, forced)
         IN  /\ w \in Module /\ Lexed(m, w) /\ w.phase <= l.phase
             /\ w.deps \in {l.deps, Imports[m]}
             /\ w.phase = PhaseInit => w.deps = l.deps
<1> DEFINE w == Reloaded(m, forced)
           l == moduleLoad(m, forced)
<1>1. l \in Module /\ (Kept(m, l) \/ Loaded(m, l) \/ Lexed(m, l)) BY LoadFacts
<1>2. w \in Module /\ Lexed(m, w) /\ (w.phase = PhaseInit => w.deps = l.deps)
  BY <1>1, LexFacts DEF Reloaded, Between
<1>3. w.phase <= l.phase
  <2>1. l.phase \in Nat BY <1>1, PhaseRange DEF Module
  <2>2. w.phase \in {0, 1} BY <1>2 DEF Lexed, PhaseInit, PhaseLexed
  <2>3. CASE Lexed(m, l) BY <1>2, <2>1, <2>2, <2>3 DEF Lexed, PhaseInit, PhaseLexed
  <2>4. CASE Kept(m, l) BY <2>1, <2>2, <2>4 DEF Kept, PhaseLexed
  <2>5. CASE Loaded(m, l)
    <3>1. l.phase \in {PhaseIfaceLoaded, PhaseLinked}
      BY <2>5, CreatedType, LoadIfaceFacts DEF Loaded, Between, Newer
    <3> QED BY <3>1, <2>2 DEF PhaseIfaceLoaded, PhaseLinked
  <2> QED BY <1>1, <2>3, <2>4, <2>5
<1>4. w.deps \in {l.deps, Imports[m]} BY <1>2 DEF Lexed
<1> QED BY <1>2, <1>3, <1>4

LEMMA NeededFacts ==
  ASSUME Between, NEW forced
  PROVE  /\ Roots \subseteq Needed(forced) /\ Needed(forced) \subseteq Modules
         /\ \A m \in Needed(forced) : moduleLoad(m, forced).deps \subseteq Needed(forced)
<1>1. Roots \subseteq Needed(forced) /\ Needed(forced) \subseteq Modules
  BY BuildAssumption DEF Needed, Least
<1>2. ASSUME NEW m \in Needed(forced), NEW d \in moduleLoad(m, forced).deps
      PROVE  d \in Needed(forced)
  <2>1. d \in Modules BY <1>1, LoadFacts, CoreImportsFacts, ReachSelf
  <2> QED BY <2>1 DEF Needed, Least
<1> QED BY <1>1, <1>2

LEMMA NeededLeast ==
  ASSUME NEW forced, NEW S \in SUBSET Modules, Roots \subseteq S,
         \A m \in S : moduleLoad(m, forced).deps \subseteq S
  PROVE  Needed(forced) \subseteq S
BY DEF Needed, Least

(* A module that is not reloaded is not ahead of one it imports.           *)
LEMMA OutdatedFacts ==
  ASSUME Between, NEW forced, NEW m \in Modules, m \notin Outdated(forced),
         moduleLoad(m, forced).phase >= PhaseLexed, NEW d \in moduleLoad(m, forced).deps
  PROVE  (IF d \in Outdated(forced) THEN Reloaded(d, forced) ELSE moduleLoad(d, forced)).phase
           >= moduleLoad(m, forced).phase
<1> DEFINE phase(e, S) ==
             (IF e \in S THEN Reloaded(e, forced) ELSE moduleLoad(e, forced)).phase
           l(e) == moduleLoad(e, forced)
           closed(S) == \A e \in Modules :
             l(e).phase >= PhaseLexed /\ (\E i \in l(e).deps : phase(i, S) < l(e).phase) => e \in S
           O == Outdated(forced)
<1>1. O = {e \in Modules : \A S \in SUBSET Modules : closed(S) => e \in S}
  BY DEF Outdated, Least
<1>2. d \in Modules BY LoadFacts, CoreImportsFacts, ReachSelf
<1>3. l(m).phase \in Nat /\ l(d).phase \in Nat /\ Reloaded(d, forced).phase \in Nat
      /\ Reloaded(d, forced).phase <= l(d).phase
  BY <1>2, LoadFacts, ReloadFacts, PhaseRange DEF Module
<1>4. SUFFICES ASSUME phase(d, O) < l(m).phase PROVE FALSE
  BY <1>3
<1>5. ASSUME NEW S \in SUBSET Modules, closed(S) PROVE m \in S
  <2>1. O \subseteq S BY <1>1, <1>5
  <2>2. phase(d, S) <= phase(d, O) BY <1>3, <2>1
  <2>3. phase(d, S) < l(m).phase BY <1>3, <1>4, <2>2
  <2> HIDE DEF phase, l
  <2> QED BY <1>5, <2>3 DEF l
<1>6. m \in O BY <1>1, <1>5
<1> QED BY <1>6

(* The validated context.                                                  *)
LEMMA Validation ==
  ASSUME Between, NEW forced, NEW c, c = validateDependencies(forced)
  PROVE  /\ Holds(c, Module) /\ DOMAIN c = Needed(forced)
         /\ \A m \in DOMAIN c :
              /\ c[m] \in Module /\ (Kept(m, c[m]) \/ Loaded(m, c[m]) \/ Lexed(m, c[m]))
              /\ c[m].deps \subseteq CoreImports[m] \cap DOMAIN c
              /\ c[m].phase >= PhaseLexed => Imports[m] \subseteq c[m].deps
              /\ c[m].phase > PhaseLexed => \A d \in c[m].deps : c[d].phase >= c[m].phase
<1> DEFINE l(e) == moduleLoad(e, forced)
           O == Outdated(forced)
<1>1. c = [m \in Needed(forced) |-> IF m \in O THEN Reloaded(m, forced) ELSE l(m)]
  BY DEF validateDependencies
<1>2. DOMAIN c = Needed(forced) /\ Needed(forced) \subseteq Modules BY <1>1, NeededFacts
<1>3. ASSUME NEW m \in DOMAIN c
      PROVE  /\ c[m] \in Module /\ (Kept(m, c[m]) \/ Loaded(m, c[m]) \/ Lexed(m, c[m]))
             /\ c[m].deps \subseteq CoreImports[m] \cap DOMAIN c
             /\ c[m].phase >= PhaseLexed => Imports[m] \subseteq c[m].deps
             /\ c[m].phase > PhaseLexed => \A d \in c[m].deps : c[d].phase >= c[m].phase
  <2>1. m \in Modules /\ m \in Needed(forced) BY <1>2, <1>3
  <2>2. /\ l(m) \in Module /\ l(m).deps \subseteq CoreImports[m]
        /\ l(m).phase >= PhaseLexed => Imports[m] \subseteq l(m).deps
        /\ Kept(m, l(m)) \/ Loaded(m, l(m)) \/ Lexed(m, l(m))
        /\ l(m).deps \subseteq Needed(forced)
    BY <2>1, LoadFacts, NeededFacts
  <2>3. CASE m \in O
    <3>1. c[m] = Reloaded(m, forced) BY <1>1, <2>1, <2>3
    <3>2. /\ c[m] \in Module /\ Lexed(m, c[m]) /\ c[m].phase <= l(m).phase
          /\ c[m].deps \in {l(m).deps, Imports[m]}
          /\ c[m].phase = PhaseInit => c[m].deps = l(m).deps
      BY <2>1, <3>1, ReloadFacts
    <3>3. c[m].phase \in {0, 1} /\ (c[m].phase = 1 => c[m].deps = Imports[m])
      BY <3>2 DEF Lexed, PhaseInit, PhaseLexed
    <3>4. c[m].phase = 1 => l(m).phase >= PhaseLexed
      BY <2>2, <3>2, PhaseRange DEF Module, PhaseLexed
    <3>5. c[m].deps \subseteq l(m).deps
      BY <2>2, <3>2, <3>3, <3>4 DEF PhaseInit
    <3> HIDE DEF l
    <3> QED BY <1>2, <2>2, <3>2, <3>3, <3>5 DEF PhaseLexed, PhaseInit
  <2>4. CASE m \notin O
    <3>1. c[m] = l(m) BY <1>1, <2>1, <2>4
    <3>2. ASSUME l(m).phase > PhaseLexed, NEW d \in l(m).deps PROVE c[d].phase >= l(m).phase
      <4>1. c[d] = IF d \in O THEN Reloaded(d, forced) ELSE l(d) BY <1>1, <2>2
      <4>2. l(m).phase >= PhaseLexed BY <2>2, <3>2, PhaseRange DEF Module, PhaseLexed
      <4> QED BY <2>1, <2>4, <4>1, <4>2, OutdatedFacts
    <3> HIDE DEF l
    <3> QED BY <1>2, <2>2, <3>1, <3>2
  <2> QED BY <2>3, <2>4
<1>4. Holds(c, Module)
  <2>1. c \in [DOMAIN c -> Module] BY <1>1, <1>3
  <2> QED BY <1>2, <2>1 DEF Holds
<1> QED BY <1>2, <1>3, <1>4

(* All modules that one in the context needs are as far as it is.          *)
LEMMA NoneBehind ==
  ASSUME Between, NEW forced, NEW c, c = validateDependencies(forced),
         NEW m \in DOMAIN c, c[m].phase > PhaseLexed, NEW d \in Reach[m]
  PROVE  d \in DOMAIN c /\ c[d].phase >= c[m].phase
<1> DEFINE S == {e \in DOMAIN c : c[e].phase >= c[m].phase}
<1>1. /\ DOMAIN c \subseteq Modules /\ \A e \in DOMAIN c : c[e].phase \in Nat
  BY Validation, PhaseRange DEF Holds, Module
<1>2. m \in S BY <1>1
<1>3. ASSUME NEW e \in S, NEW i \in Imports[e] PROVE i \in S
  <2>1. c[e].phase > PhaseLexed /\ c[e].phase >= PhaseLexed BY <1>1 DEF PhaseLexed
  <2>2. i \in c[e].deps /\ i \in DOMAIN c /\ c[i].phase >= c[e].phase
    BY <2>1, Validation
  <2> QED BY <1>1, <2>2
<1>4. Reach[m] \subseteq S BY <1>1, <1>2, <1>3, ReachLeast
<1> QED BY <1>4

(* Generated code that was not linked is not taken up again: what it could *)
(* not be linked with is behind, and it is reloaded.                       *)
LEMMA NoneGenerated ==
  ASSUME Between, NEW forced, NEW c, c = validateDependencies(forced), NEW m \in DOMAIN c
  PROVE  c[m].phase # PhaseCodeGen /\ ~isErrorPhase(c[m].phase)
<1>1. /\ m \in Modules /\ (Kept(m, c[m]) \/ Loaded(m, c[m]) \/ Lexed(m, c[m]))
      /\ \A d \in DOMAIN c : Kept(d, c[d]) \/ Loaded(d, c[d]) \/ Lexed(d, c[d])
  BY Validation DEF Holds
<1>2. CASE Lexed(m, c[m])
  BY <1>2 DEF Lexed, PhaseInit, PhaseLexed, PhaseCodeGen, isErrorPhase, PhaseParsedError,
              PhaseTypedError
<1>3. CASE Loaded(m, c[m])
  <2>1. c[m].phase \in {PhaseIfaceLoaded, PhaseLinked}
    BY <1>1, <1>3, CreatedType, LoadIfaceFacts DEF Loaded, Between, Newer
  <2> QED BY <2>1 DEF PhaseIfaceLoaded, PhaseLinked, PhaseCodeGen, isErrorPhase,
                      PhaseParsedError, PhaseTypedError
<1>4. CASE Kept(m, c[m])
  <2>1. SUFFICES ASSUME c[m].phase = PhaseCodeGen PROVE FALSE BY <1>4 DEF Kept
  <2>2. m \in DOMAIN ctx /\ ctx[m].phase = PhaseCodeGen BY <1>4, <2>1 DEF Kept
  <2>3. PICK d \in Reach[m] \cap DOMAIN ctx : ctx[d].phase < PhaseCodeGen
    BY <2>2 DEF Between, Unlinked
  <2>4. d \in DOMAIN c /\ c[d].phase >= PhaseCodeGen
    BY <2>1, NoneBehind DEF PhaseLexed, PhaseCodeGen
  <2>5. ~Loaded(d, c[d]) BY DEF Loaded
  <2>6. ~Lexed(d, c[d]) BY <2>4 DEF Lexed, PhaseInit, PhaseLexed, PhaseCodeGen
  <2>7. c[d] = ctx[d] /\ ctx[d] \in Module
    BY <1>1, <2>4, <2>5, <2>6 DEF Kept, Between, Types, Holds
  <2> QED BY <2>3, <2>4, <2>7, PhaseRange DEF Module, PhaseCodeGen
<1> QED BY <1>1, <1>2, <1>3, <1>4

LEMMA NoMapsFacts ==
  /\ DOMAIN NoMaps = Stages
  /\ \A s \in Stages : DOMAIN NoMaps[s] = {} /\ Holds(NoMaps[s], Module)
  /\ Units(NoMaps) = 0
<1>1. DOMAIN NoMaps = Stages /\ \A s \in Stages : DOMAIN NoMaps[s] = {}
  BY DEF NoMaps, NoFiles
<1>2. \A s \in Stages : Holds(NoMaps[s], Module) BY DEF NoMaps, NoFiles, Holds
<1>3. \A s \in Stages : Cardinality(DOMAIN NoMaps[s]) = 0 BY <1>1, FS_EmptySet
<1>4. Units(NoMaps) = 0 + 2 * 0 + 0 + 0 + 3 * 0 BY <1>3, StageNames DEF Units
<1> QED BY <1>1, <1>2, <1>4

LEMMA EmptyFacts ==
  ASSUME NEW F
  PROVE  DOMAIN Empty = {} /\ Holds(Empty, F) /\ DOMAIN NoFiles = {} /\ Holds(NoFiles, F)
BY DEF Empty, NoFiles, Holds

LEMMA StartLinked ==
  ASSUME Between, NEW forced, NEW c, c = validateDependencies(forced), NEW m \in DOMAIN c
  PROVE  HasInterface(m, c[m])
<1>1. m \in Modules /\ (Kept(m, c[m]) \/ Loaded(m, c[m]) \/ Lexed(m, c[m]))
  BY Validation DEF Holds
<1>2. CASE Kept(m, c[m]) BY <1>2 DEF Kept, Between, Linked
<1>3. CASE Loaded(m, c[m])
  BY <1>1, <1>3, CreatedType, LoadIfaceFacts DEF Loaded, Between, Newer, HasInterface
<1>4. CASE Lexed(m, c[m])
  BY <1>4 DEF Lexed, HasInterface, PhaseInit, PhaseLexed, PhaseIfaceLoaded, PhaseLinked
<1> QED BY <1>1, <1>2, <1>3, <1>4

BuildInv ==
  Types /\ Staged /\ Validated /\ Lexable /\ Steady /\ Explained /\ Linked /\ Unlinked /\ Accounted

LEMMA StartStep ==
  ASSUME BuildInv, NEW s \in {"tcheck", "link"}, NEW forced, Start(s, forced)
  PROVE  BuildInv'
<1> DEFINE c == validateDependencies(forced)
<1>1. Between BY DEF BuildInv, Between, Start
<1>2. /\ goal' = s /\ ctx' = c /\ mod' = c /\ dirty' = dirty \ DOMAIN c
      /\ pc' = [m \in DOMAIN c |-> "parse"] /\ maps' = NoMaps /\ link' = {} /\ work' = 0
      /\ builds < MaxBuilds /\ builds' = builds + 1
      /\ UNCHANGED <<src, iface, gen, concurrent, edits, failures>>
  BY DEF Start, disk
<1>3. /\ Holds(c, Module)
      /\ \A m \in DOMAIN c :
           /\ m \in Modules /\ c[m] \in Module
           /\ Kept(m, c[m]) \/ Loaded(m, c[m]) \/ Lexed(m, c[m])
           /\ c[m].deps \subseteq CoreImports[m] \cap DOMAIN c
           /\ c[m].phase >= PhaseLexed => Imports[m] \subseteq c[m].deps
           /\ c[m].phase > PhaseLexed => \A d \in c[m].deps : c[d].phase >= c[m].phase
           /\ c[m].phase # PhaseCodeGen /\ ~isErrorPhase(c[m].phase)
  BY <1>1, Validation, NoneGenerated DEF Holds
<1> HIDE DEF c
<1>4. ~Idle' /\ \A m \in DOMAIN c : pc'[m] = "parse" BY <1>2 DEF Idle
<1>5. DOMAIN pc' = DOMAIN c BY <1>2
<1>6. \A m \in DOMAIN pc' : Past(m)' = {}
  BY <1>2, <1>4, <1>5, StageFacts, StageNames DEF Past
<1>7. Types'
  <2>1. Holds(pc', Stages \cup {"end"}) BY <1>2, <1>3, StageNames DEF Holds
  <2>2. builds' \in 0..MaxBuilds /\ work' \in Nat
    BY <1>2, BuildAssumption DEF BuildInv, Types
  <2>3. goal' \in {"none", "tcheck", "link"} /\ dirty' \subseteq Modules /\ link' \subseteq Modules
    BY <1>2 DEF BuildInv, Types
  <2> QED BY <1>2, <1>3, <1>5, <2>1, <2>2, <2>3, NoMapsFacts DEF BuildInv, Types
<1>8. Staged'
  <2>1. \A m \in DOMAIN pc' : Target[pc'[m]] <= Target[goal']
    BY <1>2, <1>4, <1>5, StageFacts
  <2> QED BY <1>2, <1>4, <1>5, <1>6, <2>1, NoMapsFacts, StageNames DEF Staged
<1>9. Validated'
  <2>1. ASSUME NEW m \in DOMAIN c, c[m].phase = PhaseInit PROVE c[m].err
    <3>1. ~Kept(m, c[m]) BY <2>1 DEF Kept, PhaseInit, PhaseLexed
    <3>2. ~Loaded(m, c[m])
      BY <1>3, <2>1, CreatedType, LoadIfaceFacts
      DEF Loaded, BuildInv, Newer, PhaseInit, PhaseIfaceLoaded, PhaseLinked
    <3> QED BY <1>3, <2>1, <3>1, <3>2 DEF Lexed
  <2> QED BY <1>2, <1>3, <1>4, <2>1 DEF Validated
<1>10. Lexable'
  <2>1. \A m \in Modules : Newer(m)' => m \notin dirty' /\ src'[m] \notin Unlexable
    BY <1>2 DEF BuildInv, Lexable, Newer
  <2>2. ASSUME NEW m \in DOMAIN c PROVE c[m].phase = PhaseInit <=> src[m] \in Unlexable
    <3>1. CASE Kept(m, c[m])
      BY <3>1 DEF Kept, BuildInv, Lexable, PhaseInit, PhaseLexed
    <3>2. CASE Loaded(m, c[m])
      <4>1. c[m].phase # PhaseInit
        BY <1>3, <3>2, CreatedType, LoadIfaceFacts
        DEF Loaded, BuildInv, Newer, PhaseInit, PhaseIfaceLoaded, PhaseLinked
      <4> QED BY <1>3, <3>2, <4>1 DEF Loaded, BuildInv, Lexable
    <3>3. CASE Lexed(m, c[m]) BY <3>3 DEF Lexed
    <3> QED BY <1>3, <3>1, <3>2, <3>3
  <2> QED BY <1>2, <2>1, <2>2 DEF Lexable
<1>11. Steady'
  <2>1. \A m \in DOMAIN c : c[m].phase >= c[m].phase BY <1>3, PhaseRange DEF Module
  <2> QED BY <1>2, <1>3, <1>5, <2>1, NoMapsFacts DEF Steady
<1>12. Explained' BY <1>5, <1>6 DEF Explained, Lost
<1>13. Linked'
  <2>1. \A m \in DOMAIN c : HasInterface(m, c[m]) BY <1>1, StartLinked DEF c
  <2> QED BY <1>2, <1>4, <1>5, <2>1 DEF Linked, HasInterface
<1>14. Unlinked' BY <1>2, <1>4, NoMapsFacts, StageNames DEF Unlinked
<1>15. Accounted'
  <2>1. Cardinality(Modules) \in Nat BY BuildAssumption, FS_CardinalityType
  <2>2. Units(maps)' = 0 BY <1>2, NoMapsFacts DEF Units
  <2> QED BY <1>2, <2>1, <2>2 DEF Accounted
<1> QED BY <1>7, <1>8, <1>9, <1>10, <1>11, <1>12, <1>13, <1>14, <1>15 DEF BuildInv

LEMMA FinishStep ==
  ASSUME BuildInv, Finish
  PROVE  BuildInv'
<1>1. /\ ~Idle /\ (\A m \in DOMAIN pc : pc[m] = "end") /\ goal' = "none" /\ ctx' = mod
      /\ pc' = Empty /\ mod' = Empty /\ link' = {} /\ maps' = NoMaps
      /\ UNCHANGED <<src, iface, gen, dirty, work, concurrent, edits, builds, failures>>
  BY DEF Finish, disk, bounds
<1>2. DOMAIN pc = DOMAIN mod /\ DOMAIN mod = DOMAIN ctx /\ Idle' /\ DOMAIN pc' = {} /\ DOMAIN mod' = {}
  BY <1>1, EmptyFacts DEF BuildInv, Types, Staged, Idle
<1>3. \A m \in DOMAIN ctx :
        /\ m \in Modules /\ mod[m] \in Module /\ ctx[m] \in Module
        /\ mod[m].phase >= ctx[m].phase /\ mod[m].deps = ctx[m].deps
        /\ ctx[m].phase = PhaseInit => mod[m].phase = PhaseInit
        /\ mod[m].phase = PhaseCodeGen => m \in link
  BY <1>2 DEF BuildInv, Types, Holds, Steady
<1>4. \A m \in DOMAIN ctx : mod[m].phase = PhaseInit => ctx[m].phase = PhaseInit
  BY <1>3, PhaseRange DEF Module, PhaseInit
<1>5. Types'
  BY <1>1, <1>2, EmptyFacts, NoMapsFacts DEF BuildInv, Types
<1>6. Staged' BY <1>1, <1>2, NoMapsFacts, StageNames DEF Staged
<1>7. Validated'
  <2>1. \A m \in DOMAIN ctx : mod[m].phase >= PhaseLexed => ctx[m].phase >= PhaseLexed
    BY <1>3, PhaseRange DEF Module, PhaseInit, PhaseLexed
  <2> QED BY <1>1, <1>2, <1>3, <2>1 DEF BuildInv, Validated
<1>8. Lexable'
  BY <1>1, <1>2, <1>3, <1>4 DEF BuildInv, Lexable, Newer
<1>9. Steady' /\ Explained' BY <1>2 DEF Steady, Explained
<1>10. Linked'
  BY <1>1, <1>2 DEF BuildInv, Linked, HasInterface
<1>11. Unlinked'
  <2>1. DOMAIN maps'["link"] = {} BY <1>1, NoMapsFacts, StageNames
  <2>2. ASSUME NEW m \in DOMAIN ctx, mod[m].phase = PhaseCodeGen
        PROVE  \E d \in Reach[m] \cap DOMAIN mod : mod[d].phase < PhaseCodeGen
    <3>1. m \in link /\ m \in DOMAIN maps["codegen"] /\ "codegen" \in Stages /\ "link" \in Stages
      BY <1>3, <2>2, StageNames DEF BuildInv, Staged
    <3>2. "codegen" \in Past(m) /\ pc[m] = "end" BY <1>1, <1>2, <3>1 DEF BuildInv, Staged
    <3>3. Target["codegen"] <= Target[goal] BY <3>2 DEF Past
    <3>4. goal = "link" BY <1>1, <3>3, StageFacts DEF BuildInv, Types, Idle
    <3>5. "link" \in Past(m) BY <3>1, <3>2, <3>4, StageFacts DEF Past
    <3>6. m \in DOMAIN maps["link"] BY <1>2, <3>1, <3>5 DEF BuildInv, Staged
    <3>7. PICK d \in Modules : Missing(m, d) BY <2>2, <3>6 DEF BuildInv, Unlinked
    <3> QED BY <1>2, <3>1, <3>7 DEF BuildInv, Missing, Staged
  <2> QED BY <1>1, <1>2, <2>1, <2>2 DEF Unlinked
<1>12. Accounted' BY <1>1, <1>2 DEF BuildInv, Accounted
<1> QED BY <1>5, <1>6, <1>7, <1>8, <1>9, <1>10, <1>11, <1>12 DEF BuildInv

LEMMA EditFiles ==
  ASSUME Types, NEW m \in Modules, NEW t \in Texts, Edit(m, t)
  PROVE  /\ DOMAIN iface' = DOMAIN iface
         /\ \A d \in DOMAIN iface : iface'[d].core = iface[d].core
         /\ \A d \in DOMAIN iface \ {m} : iface'[d] = iface[d]
         /\ m \in DOMAIN iface => ~iface'[m].newer
         /\ Holds(iface', [core : Cores, newer : BOOLEAN])
         /\ \A d \in Modules : Newer(d)' => d # m /\ Newer(d)
<1>1. iface' = IF m \in DOMAIN iface THEN [iface EXCEPT ![m].newer = FALSE] ELSE iface
  BY DEF Edit
<1>2. /\ DOMAIN iface' = DOMAIN iface
      /\ \A d \in DOMAIN iface : iface'[d].core = iface[d].core
      /\ \A d \in DOMAIN iface \ {m} : iface'[d] = iface[d]
      /\ m \in DOMAIN iface => ~iface'[m].newer
      /\ Holds(iface', [core : Cores, newer : BOOLEAN])
  <2>1. CASE m \notin DOMAIN iface BY <1>1, <2>1 DEF Types
  <2>2. CASE m \in DOMAIN iface
    <3>1. iface[m] \in [core : Cores, newer : BOOLEAN]
          /\ \A d \in DOMAIN iface : iface[d] \in [core : Cores, newer : BOOLEAN]
      BY <2>2 DEF Types, Holds
    <3>2. iface' = [iface EXCEPT ![m] = [iface[m] EXCEPT !.newer = FALSE]]
      BY <1>1, <2>2
    <3>3. PICK k : k = [iface[m] EXCEPT !.newer = FALSE] OBVIOUS
    <3>4. /\ k \in [core : Cores, newer : BOOLEAN]
          /\ k.core = iface[m].core /\ ~k.newer
      BY <3>1, <3>3
    <3>5. iface' = [iface EXCEPT ![m] = k] BY <3>2, <3>3
    <3>6. /\ DOMAIN iface' = DOMAIN iface /\ iface'[m] = k
          /\ \A d \in DOMAIN iface \ {m} : iface'[d] = iface[d]
      BY <3>5, <2>2
    <3>7. iface' = [d \in DOMAIN iface |-> IF d = m THEN k ELSE iface[d]] BY <3>5
    <3>8. \A d \in DOMAIN iface : (IF d = m THEN k ELSE iface[d]) \in [core : Cores, newer : BOOLEAN]
      BY <3>1, <3>4
    <3> DEFINE F == [core : Cores, newer : BOOLEAN]
    <3>9. iface' \in [DOMAIN iface' -> F]
      <4>1. \A d \in DOMAIN iface : (IF d = m THEN k ELSE iface[d]) \in F BY <3>8
      <4> HIDE DEF F
      <4> QED BY <3>6, <3>7, <4>1
    <3>10. Holds(iface', F) BY <3>6, <3>9 DEF Holds, Types
    <3> QED BY <3>4, <3>6, <3>10
  <2> QED BY <2>1, <2>2
<1>3. \A d \in Modules : Newer(d)' => d # m /\ Newer(d) BY <1>2 DEF Newer
<1> QED BY <1>2, <1>3

LEMMA EditStep ==
  ASSUME BuildInv, NEW m \in Modules, NEW t \in Texts, Edit(m, t)
  PROVE  BuildInv'
<1>1. /\ Idle /\ edits < MaxEdits /\ edits' = edits + 1
      /\ src' = [src EXCEPT ![m] = t] /\ dirty' = dirty \cup {m}
      /\ iface' = IF m \in DOMAIN iface THEN [iface EXCEPT ![m].newer = FALSE] ELSE iface
      /\ UNCHANGED <<gen, ctx, goal, pc, mod, link, maps, work, concurrent, builds, failures>>
  BY DEF Edit, threads
<1>2. /\ DOMAIN iface' = DOMAIN iface
      /\ \A d \in DOMAIN iface : iface'[d].core = iface[d].core
      /\ \A d \in DOMAIN iface \ {m} : iface'[d] = iface[d]
      /\ m \in DOMAIN iface => ~iface'[m].newer
      /\ Holds(iface', [core : Cores, newer : BOOLEAN])
  BY EditFiles DEF BuildInv
<1>3. \A d \in Modules : Newer(d)' => d # m /\ Newer(d) BY EditFiles DEF BuildInv
<1>4. Types'
  <2>1. src' \in [Modules -> Texts] /\ edits' \in 0..MaxEdits /\ dirty' \subseteq Modules
    BY <1>1, BuildAssumption DEF BuildInv, Types
  <2> QED BY <1>1, <1>2, <2>1 DEF BuildInv, Types
<1>5. Staged'
  <2>1. \A d \in DOMAIN pc : Past(d)' = Past(d) BY <1>1 DEF Past
  <2> QED BY <1>1, <2>1 DEF BuildInv, Staged, Idle
<1>6. Validated' BY <1>1 DEF BuildInv, Validated, Idle
<1>7. Lexable'
  <2>1. \A d \in Modules \ {m} : src'[d] = src[d] BY <1>1 DEF BuildInv, Types
  <2>2. DOMAIN ctx \subseteq Modules BY DEF BuildInv, Types, Holds
  <2> QED BY <1>1, <1>3, <2>1, <2>2 DEF BuildInv, Lexable
<1>8. DOMAIN pc = {} BY <1>1 DEF BuildInv, Staged
<1>9. Steady' /\ Explained' BY <1>1, <1>8 DEF Steady, Explained
<1>10. Linked' BY <1>1, <1>2, <1>8 DEF BuildInv, Linked, HasInterface, Idle
<1>11. Unlinked'
  <2>1. DOMAIN maps["link"] = {} BY <1>8, StageNames DEF BuildInv, Staged
  <2> QED BY <1>1, <2>1 DEF BuildInv, Unlinked, Idle
<1>12. Accounted' BY <1>1 DEF BuildInv, Accounted, Idle
<1> QED BY <1>4, <1>5, <1>6, <1>7, <1>9, <1>10, <1>11, <1>12 DEF BuildInv

LEMMA RestartStep ==
  ASSUME BuildInv, Restart
  PROVE  BuildInv'
<1>1. /\ ctx' = Empty /\ dirty' = {} /\ goal' = "none" /\ pc' = Empty /\ mod' = Empty
      /\ link' = {} /\ maps' = NoMaps /\ work' = 0
      /\ UNCHANGED <<src, iface, gen, concurrent, edits, builds, failures>>
  BY DEF Restart, disk, bounds
<1>2. Idle' /\ DOMAIN pc' = {} /\ DOMAIN ctx' = {} /\ DOMAIN mod' = {}
  BY <1>1, EmptyFacts DEF Idle
<1>3. Types' BY <1>1, <1>2, EmptyFacts, NoMapsFacts DEF BuildInv, Types
<1>4. Staged' BY <1>1, <1>2, NoMapsFacts, StageNames DEF Staged
<1>5. Validated' /\ Steady' /\ Explained' BY <1>2 DEF Validated, Steady, Explained
<1>6. Lexable' BY <1>1, <1>2 DEF BuildInv, Lexable, Newer
<1>7. Linked' BY <1>2 DEF Linked
<1>8. Unlinked' BY <1>1, <1>2, NoMapsFacts, StageNames DEF Unlinked
<1>9. Accounted'
  <2>1. Cardinality(Modules) \in Nat BY BuildAssumption, FS_CardinalityType
  <2> QED BY <1>1, <1>2, <2>1 DEF Accounted
<1> QED BY <1>3, <1>4, <1>5, <1>6, <1>7, <1>8, <1>9 DEF BuildInv

LEMMA InitInv ==
  ASSUME Init
  PROVE  BuildInv
<1>1. /\ src = [m \in Modules |-> Original] /\ iface = NoFiles /\ gen = NoFiles
      /\ ctx = Empty /\ dirty = {} /\ goal = "none"
      /\ pc = Empty /\ mod = Empty /\ link = {} /\ maps = NoMaps /\ work = 0
      /\ concurrent \in BOOLEAN /\ edits = 0 /\ builds = 0 /\ failures = 0
  BY DEF Init
<1>2. /\ Idle /\ DOMAIN pc = {} /\ DOMAIN ctx = {} /\ DOMAIN mod = {} /\ DOMAIN iface = {}
      /\ Cardinality(Modules) \in Nat
  BY <1>1, EmptyFacts, BuildAssumption, FS_CardinalityType DEF Idle
<1>3. Types
  BY <1>1, <1>2, EmptyFacts, NoMapsFacts, BuildAssumption DEF Types
<1>4. Staged BY <1>1, <1>2, NoMapsFacts, StageNames DEF Staged
<1>5. Validated /\ Steady /\ Explained /\ Linked
  BY <1>2 DEF Validated, Steady, Explained, Linked
<1>6. Lexable BY <1>2 DEF Lexable, Newer
<1>7. Unlinked BY <1>1, <1>2, NoMapsFacts, StageNames DEF Unlinked
<1>8. Accounted BY <1>1, <1>2 DEF Accounted
<1> QED BY <1>3, <1>4, <1>5, <1>6, <1>7, <1>8 DEF BuildInv

LEMMA ThreadInv ==
  ASSUME BuildInv, NEW m \in Modules, Thread(m)
  PROVE  BuildInv' /\ ThreadContext(m)
<1>1. ThreadContext(m) BY ThreadStep DEF BuildInv, ThreadContext
<1>2. Staged' BY <1>1, ThreadStaged
<1> QED
  BY <1>1, <1>2, ThreadValidated, ThreadLexable, ThreadSteady, ThreadExplained, ThreadLinked,
     ThreadUnlinked, ThreadAccounted DEF BuildInv, ThreadContext

LEMMA StutterInv ==
  ASSUME BuildInv, UNCHANGED vars
  PROVE  BuildInv'
<1>1. /\ UNCHANGED <<src, iface, gen, ctx, dirty, goal, pc, mod, link, maps, work, concurrent>>
      /\ UNCHANGED <<edits, builds, failures>>
  BY DEF vars, disk, threads, bounds
<1>2. (Idle' <=> Idle) /\ \A m \in DOMAIN pc : Past(m)' = Past(m)
  BY <1>1 DEF Idle, Past
<1>3. Types' BY <1>1 DEF BuildInv, Types
<1>4. Staged' BY <1>1, <1>2 DEF BuildInv, Staged
<1>5. Validated' BY <1>1, <1>2 DEF BuildInv, Validated
<1>6. Lexable' BY <1>1 DEF BuildInv, Lexable, Newer
<1>7. Steady' BY <1>1 DEF BuildInv, Steady
<1>8. Explained' BY <1>1, <1>2 DEF BuildInv, Explained, Lost
<1>9. Linked' BY <1>1, <1>2 DEF BuildInv, Linked, HasInterface
<1>10. Unlinked' BY <1>1, <1>2 DEF BuildInv, Unlinked, Missing
<1>11. Accounted' BY <1>1, <1>2 DEF BuildInv, Accounted
<1> QED BY <1>3, <1>4, <1>5, <1>6, <1>7, <1>8, <1>9, <1>10, <1>11 DEF BuildInv

LEMMA NextInv ==
  ASSUME BuildInv, [Next]_vars
  PROVE  BuildInv'
<1>1. CASE \E s \in {"tcheck", "link"}, forced \in {{}, Roots} : Start(s, forced)
  BY <1>1, StartStep
<1>2. CASE \E m \in Modules : Thread(m) BY <1>2, ThreadInv
<1>3. CASE Finish BY <1>3, FinishStep
<1>4. CASE \E m \in Modules, t \in Texts : Edit(m, t) BY <1>4, EditStep
<1>5. CASE Restart BY <1>5, RestartStep
<1>6. CASE UNCHANGED vars BY <1>6, StutterInv
<1> QED BY <1>1, <1>2, <1>3, <1>4, <1>5, <1>6 DEF Next

(* The invariant holds in every state between and during builds, whatever  *)
(* the threads of Build.hs fail in and whenever the process is restarted.  *)
THEOREM BuildInvariance == Spec => []BuildInv
<1>1. Init => BuildInv BY InitInv
<1>2. BuildInv /\ [Next]_vars => BuildInv' BY NextInv
<1> QED BY <1>1, <1>2, PTL DEF Spec

(* All state has its type, and no build reports more work than 8 units for *)
(* each module (phaseTotalWork).                                           *)
THEOREM BuildTypes == Spec => []TypeOK
<1>1. BuildInv => TypeOK
  <2> SUFFICES ASSUME BuildInv PROVE TypeOK OBVIOUS
  <2>1. Cardinality(Modules) \in Nat BY BuildAssumption, FS_CardinalityType
  <2>2. work \in 0..8 * Cardinality(Modules) BY <2>1 DEF BuildInv, Types, Accounted
  <2> QED BY <2>2 DEF BuildInv, Types, TypeOK
<1> QED BY <1>1, BuildInvariance, PTL

(* A module that is linked, in the context or in a thread, has on disk the *)
(* interface of just its core: moduleCodeGen removes the interface first,  *)
(* moduleLink writes it last, and an exception hands back the module as    *)
(* the build found it.                                                     *)
THEOREM BuildLinked == Spec => []LinkedHasInterface
<1>1. BuildInv => LinkedHasInterface
  <2> SUFFICES ASSUME BuildInv, NEW m \in Modules, NEW f \in IF Idle THEN {ctx} ELSE {mod},
                      m \in DOMAIN f, f[m].phase = PhaseLinked
               PROVE  m \in DOMAIN iface /\ iface[m].core = f[m].core
    BY DEF LinkedHasInterface
  <2>1. CASE Idle BY <2>1 DEF BuildInv, Linked, HasInterface
  <2>2. CASE ~Idle BY <2>2 DEF BuildInv, Linked, HasInterface, Types
  <2> QED BY <2>1, <2>2
<1> QED BY <1>1, BuildInvariance, PTL

LEMMA LeastNatural ==
  ASSUME NEW T \in SUBSET Nat, T # {}
  PROVE  \E n \in T : \A k \in T : n <= k
<1> DEFINE less == OpToRel(<, Nat)
<1>1. IsWellFoundedOn(less, Nat) BY NatLessThanWellFounded
<1>2. \A x \in Nat, y \in Nat : x < y => <<x, y>> \in less BY DEF OpToRel
<1> HIDE DEF less
<1>3. PICK n \in T : \A k \in T : <<k, n>> \notin less BY <1>1, WFMin
<1>4. \A k \in T : ~(k < n) BY <1>2, <1>3
<1> QED BY <1>3, <1>4

(* The first module in build order that is lost has an error of its own.   *)
LEMMA LostHasCause ==
  ASSUME BuildInv, NEW m \in DOMAIN pc, Lost(m)
  PROVE  \E d \in DOMAIN pc : mod[d].err
<1> DEFINE L == {d \in DOMAIN pc : Lost(d)}
<1>1. DOMAIN pc \subseteq Modules BY DEF BuildInv, Types, Holds
<1> DEFINE T == {Rank[d] : d \in L}
<1>2. T \in SUBSET Nat /\ T # {} BY <1>1, BuildAssumption
<1>3. PICK d \in L : \A e \in L : Rank[d] <= Rank[e]
  <2>1. PICK n \in T : \A k \in T : n <= k
    <3> HIDE DEF T
    <3> QED BY <1>2, LeastNatural
  <2> QED BY <2>1
<1>4. \A e \in L : ~(Rank[e] < Rank[d]) BY <1>1, <1>3, BuildAssumption
<1> QED BY <1>3, <1>4 DEF BuildInv, Explained

LEMMA BuildWork ==
  ASSUME BuildInv, ~Idle, \A m \in DOMAIN pc : pc[m] = "end"
  PROVE  work = phaseTotalWork(goal) * Cardinality(DOMAIN ctx)
<1>1. /\ goal \in {"tcheck", "link"} /\ DOMAIN pc = DOMAIN ctx /\ DOMAIN pc \in SUBSET Modules
      /\ work = Units(maps)
  BY DEF BuildInv, Types, Staged, Accounted, Idle, Holds
<1>2. ASSUME NEW s \in Stages
      PROVE  DOMAIN maps[s] = IF Target[s] <= Target[goal] THEN DOMAIN pc ELSE {}
  <2>1. DOMAIN maps[s] \subseteq DOMAIN pc
        /\ \A m \in DOMAIN pc : m \in DOMAIN maps[s] <=> Target[s] <= Target[goal]
    BY DEF BuildInv, Staged, Past
  <2> QED BY <2>1
<1> DEFINE n == Cardinality(DOMAIN pc)
<1>3. n \in Nat /\ Cardinality({}) = 0 BY <1>1, AddOne, FS_EmptySet
<1>4. CASE goal = "tcheck"
  <2>1. /\ DOMAIN maps["parse"] = DOMAIN pc /\ DOMAIN maps["tcheck"] = DOMAIN pc
        /\ DOMAIN maps["optimize"] = {} /\ DOMAIN maps["codegen"] = {} /\ DOMAIN maps["link"] = {}
    BY <1>2, <1>4, StageFacts, StageNames
  <2>2. work = n + 2 * n + 0 + 0 + 3 * 0 BY <1>1, <1>3, <2>1 DEF Units
  <2>3. phaseTotalWork(goal) = 3 BY <1>4 DEF phaseTotalWork
  <2> QED BY <1>1, <1>3, <2>2, <2>3
<1>5. CASE goal = "link"
  <2>1. /\ DOMAIN maps["parse"] = DOMAIN pc /\ DOMAIN maps["tcheck"] = DOMAIN pc
        /\ DOMAIN maps["optimize"] = DOMAIN pc /\ DOMAIN maps["codegen"] = DOMAIN pc
        /\ DOMAIN maps["link"] = DOMAIN pc
    BY <1>2, <1>5, StageFacts, StageNames
  <2>2. work = n + 2 * n + n + n + 3 * n BY <1>1, <2>1 DEF Units
  <2>3. phaseTotalWork(goal) = 8 BY <1>5 DEF phaseTotalWork
  <2> QED BY <1>1, <1>3, <2>2, <2>3
<1> QED BY <1>1, <1>4, <1>5

LEMMA BuildOutcome ==
  ASSUME BuildInv, Next, goal # "none", goal' = "none"
  PROVE  \/ \A m \in DOMAIN ctx' : ctx'[m].phase >= Target[goal]
         \/ \E m \in DOMAIN ctx' : ctx'[m].err
<1>1. CASE Finish
  <2>1. /\ ctx' = mod /\ DOMAIN mod = DOMAIN pc /\ \A m \in DOMAIN pc : pc[m] = "end"
        /\ goal \in {"tcheck", "link"}
    BY <1>1 DEF Finish, BuildInv, Types
  <2>2. goal \in Stages BY <2>1, StageNames
  <2>3. SUFFICES ASSUME NEW m \in DOMAIN pc, ~(mod[m].phase >= Target[goal])
                 PROVE  \E d \in DOMAIN pc : mod[d].err
    BY <2>1
  <2>4. mod[m] \in Module BY <2>1 DEF BuildInv, Types, Holds
  <2>5. mod[m].phase < Target[goal] BY <2>1, <2>3, <2>4, PhaseRange, StageFacts DEF Module
  <2>6. goal \in Past(m) BY <2>1, <2>2, StageFacts DEF Past
  <2> QED BY <2>5, <2>6, LostHasCause DEF Lost
<1>2. CASE Restart
  <2>1. DOMAIN ctx' = {} BY <1>2, EmptyFacts DEF Restart
  <2> QED BY <2>1
<1>3. CASE \E s \in {"tcheck", "link"}, forced \in {{}, Roots} : Start(s, forced)
  BY <1>3 DEF Start
<1>4. CASE \E m \in Modules : Thread(m)
  <2>1. goal' = goal BY <1>4, ThreadInv DEF ThreadContext, Frame
  <2> QED BY <2>1
<1>5. CASE \E m \in Modules, t \in Texts : Edit(m, t)
  BY <1>5 DEF Edit, Idle
<1> QED BY <1>1, <1>2, <1>3, <1>4, <1>5 DEF Next

(* Builds lose no failure and no work: when the threads are through, every *)
(* module is where the build was to take it or some module has an error,   *)
(* and phaseCompleted has been told of each stage once.                    *)
THEOREM BuildReports == Spec => OutcomeReported
<1> DEFINE A == /\ goal # "none" /\ goal' = "none" =>
                     \/ \A m \in DOMAIN ctx' : ctx'[m].phase >= Target[goal]
                     \/ \E m \in DOMAIN ctx' : ctx'[m].err
                /\ ~Idle /\ (\A m \in DOMAIN pc : pc[m] = "end") =>
                     work = phaseTotalWork(goal) * Cardinality(DOMAIN ctx)
<1>1. BuildInv /\ [Next]_vars => [A]_vars
  <2> SUFFICES ASSUME BuildInv, Next PROVE A OBVIOUS
  <2> QED BY BuildOutcome, BuildWork
<1> QED BY <1>1, BuildInvariance, PTL DEF Spec, OutcomeReported

-----------------------------------------------------------------------------
(* Freshness.                                                              *)
LEMMA AllFacts ==
  /\ All \subseteq Modules /\ \A m \in All : Reach[m] \subseteq All
<1>1. ASSUME NEW m \in All PROVE m \in Modules /\ Reach[m] \subseteq All
  <2>1. PICK r \in Roots : m \in Reach[r] BY DEF All
  <2>2. r \in Modules BY BuildAssumption
  <2> QED BY <2>1, <2>2, ReachSelf, ReachTransitive DEF All
<1> QED BY <1>1

(* The present core of a module.                                           *)
CoreNow(m) == {<<n, src[n]>> : n \in Reach[m]}

LEMMA CoreNowFacts ==
  ASSUME Types, NEW m \in Modules
  PROVE  /\ CoreNow(m) # {} /\ FreshCore(m, CoreNow(m), Modules)
         /\ \A core \in Cores : FreshCore(m, core, Modules) => core = CoreNow(m)
<1>1. m \in Reach[m] /\ Reach[m] \subseteq Modules BY ReachSelf
<1>2. FreshCore(m, CoreNow(m), Modules)
  <2>1. \A p \in CoreNow(m) : p[1] \in Reach[m] /\ p[2] = src[p[1]] BY DEF CoreNow
  <2>2. \A n \in Reach[m] : <<n, src[n]>> \in CoreNow(m) /\ <<n, src[n]>>[1] = n BY DEF CoreNow
  <2>3. {p[1] : p \in CoreNow(m)} = Reach[m]
    <3>1. {p[1] : p \in CoreNow(m)} \subseteq Reach[m] BY <2>1
    <3>2. ASSUME NEW n \in Reach[m] PROVE n \in {p[1] : p \in CoreNow(m)}
      <4>1. PICK q \in CoreNow(m) : q[1] = n BY <2>2
      <4> QED BY <4>1
    <3> QED BY <3>1, <3>2
  <2> QED BY <2>1, <2>3 DEF FreshCore
<1>3. ASSUME NEW core \in Cores, FreshCore(m, core, Modules) PROVE core = CoreNow(m)
  <2>1. \A p \in core : p = <<p[1], p[2]>> /\ p[1] \in Modules BY DEF Cores
  <2>2. \A p \in core : p[1] \in Reach[m] /\ p[2] = src[p[1]] BY <1>3, <2>1 DEF FreshCore
  <2>3. core \subseteq CoreNow(m) BY <2>1, <2>2 DEF CoreNow
  <2>4. ASSUME NEW n \in Reach[m] PROVE <<n, src[n]>> \in core
    <3>1. PICK p \in core : p[1] = n BY <1>3 DEF FreshCore
    <3> QED BY <2>1, <2>2, <3>1
  <2> QED BY <2>3, <2>4 DEF CoreNow
<1> QED BY <1>1, <1>2, <1>3 DEF CoreNow

(* A core that is fresh where its source is fresh everywhere it counts.    *)
LEMMA FreshWider ==
  ASSUME NEW m \in Modules, NEW v, NEW S, NEW R, FreshModule(m, v, S),
         Reach[m] \cap R \subseteq S
  PROVE  FreshModule(m, v, R)
<1>1. m \in Reach[m] BY ReachSelf
<1>2. \A core : FreshCore(m, core, S) => FreshCore(m, core, R)
  BY DEF FreshCore
<1> QED BY <1>1, <1>2 DEF FreshModule

(* The core of a module is made of its text and the cores of its imports.  *)
LEMMA ReachSplit ==
  ASSUME NEW m \in Modules, NEW S \in SUBSET Modules,
         Imports[m] \subseteq S, S \subseteq Reach[m]
  PROVE  Reach[m] = {m} \cup UNION {Reach[d] : d \in S}
<1> DEFINE R == {m} \cup UNION {Reach[d] : d \in S}
<1>1. R \subseteq Reach[m] BY ReachSelf, ReachTransitive
<1>2. R \in SUBSET Modules /\ m \in R BY <1>1, ReachSelf
<1>3. ASSUME NEW e \in R, NEW i \in Imports[e] PROVE i \in R
  <2>1. CASE e = m BY <2>1, <1>3, ReachSelf
  <2>2. CASE \E d \in S : e \in Reach[d] BY <2>2, <1>3, ReachSelf
  <2> QED BY <2>1, <2>2
<1>4. Reach[m] \subseteq R
  <2> HIDE DEF R
  <2> QED BY <1>2, <1>3, ReachLeast
<1> QED BY <1>1, <1>4

LEMMA CheckedFresh ==
  ASSUME NEW m, ThreadContext(m), Current, NEW v \in Module, Checks(m), v = mod'[m],
         v.phase = PhaseTyped
  PROVE  FreshCore(m, v.core, Modules)
<1> DEFINE imports == moduleWaitForPubImports(m)
           tc == maps["tcheck"]
<1>1. PICK w \in Module : Advances(m, "tcheck", w) /\ (w.phase = PhaseTyped => Checked(m, w))
  BY DEF Checks
<1>2. w = v BY <1>1 DEF Advances, Moves
<1>3. /\ Present("tcheck", imports, PhaseTyped)
      /\ v.core = {<<m, mod[m].text>>} \cup UNION {tc[d].core : d \in imports}
  BY <1>1, <1>2 DEF Checked
<1>4. /\ m \in DOMAIN ctx /\ m \in DOMAIN pc /\ m \in Modules /\ mod[m] \in Module
      /\ "tcheck" \in Stages /\ mod[m].deps = ctx[m].deps
  BY AtStage, StageNames DEF ThreadContext, Steady
<1>5. mod[m].phase >= PhaseLexed /\ mod[m].phase < PhaseTyped /\ mod[m].phase \in Nat
  <2>1. mod[m].phase \in Nat BY <1>4, PhaseRange DEF Module
  <2> QED BY <1>1, <2>1, <1>4, StageFacts, WorkPhase DEF PhaseTyped
<1>6. mod[m].text = src[m]
  BY <1>4, <1>5 DEF Current, FreshModule, PhaseLexed, PhaseTyped, PhaseTypedError
<1>7. Imports[m] \subseteq mod[m].deps /\ mod[m].deps \subseteq CoreImports[m]
  <2>1. ctx[m].phase >= PhaseLexed
    <3>1. ctx[m].phase # PhaseInit
      BY <1>4, <1>5 DEF ThreadContext, Steady, PhaseInit, PhaseLexed
    <3>2. ctx[m] \in Module BY AtStage
    <3> QED BY <3>1, <3>2, PhaseRange DEF Module, PhaseInit, PhaseLexed
  <2> QED BY <1>4, <2>1 DEF ThreadContext, Validated
<1>8. Imports[m] \subseteq imports /\ imports \subseteq Reach[m] \ {m}
  BY <1>4, <1>7, PubReads
<1>9. ASSUME NEW d \in imports PROVE d \in Modules /\ tc[d].core = CoreNow(d)
  <2>1. d \in DOMAIN tc /\ tc[d].phase >= PhaseTyped BY <1>3 DEF Present, Ready
  <2>2. d \in DOMAIN pc /\ d \in Modules /\ tc[d] \in Module
    BY <1>4, <2>1 DEF ThreadContext, Staged, Types, Holds
  <2>3. FreshCore(d, tc[d].core, Modules)
    BY <1>4, <2>1, <2>2 DEF Current, FreshModule
  <2>4. tc[d].core \in Cores BY <2>2 DEF Module
  <2> QED BY <2>2, <2>3, <2>4, CoreNowFacts DEF ThreadContext
<1>10. Reach[m] = {m} \cup UNION {Reach[d] : d \in imports}
  <2>1. imports \in SUBSET Modules /\ imports \subseteq Reach[m] BY <1>4, <1>8, ReachSelf
  <2> HIDE DEF imports
  <2> QED BY <1>4, <1>8, <2>1, ReachSplit
<1>11. v.core = CoreNow(m)
  <2>1. v.core = {<<m, src[m]>>} \cup UNION {CoreNow(d) : d \in imports}
    <3> HIDE DEF imports, tc
    <3> QED BY <1>3, <1>6, <1>9
  <2> HIDE DEF imports
  <2> QED BY <1>10, <2>1 DEF CoreNow
<1> QED BY <1>4, <1>11, CoreNowFacts DEF ThreadContext

(* A module that is kept or loaded is fresh: all it needs is kept or       *)
(* loaded too, so none of it was edited, and none lexed again.             *)
LEMMA StartFresh ==
  ASSUME Between, Current, AllKnown, NEW forced, NEW c, c = validateDependencies(forced),
         DOMAIN c \in {{}, All}, NEW m \in DOMAIN c
  PROVE  FreshModule(m, c[m], Modules)
<1>1. /\ DOMAIN c \subseteq Modules /\ m \in Modules
      /\ \A d \in DOMAIN c : c[d] \in Module /\ (Kept(d, c[d]) \/ Loaded(d, c[d]) \/ Lexed(d, c[d]))
  BY Validation DEF Holds
<1>2. DOMAIN c = All /\ m \in All BY DEF All
<1>3. ASSUME c[m].phase >= PhaseTyped, NEW d \in Reach[m]
      PROVE  d \in DOMAIN c /\ ~Lexed(d, c[d])
  <2>1. c[m].phase > PhaseLexed BY <1>1, <1>3, PhaseRange DEF Module, PhaseTyped, PhaseLexed
  <2>2. d \in DOMAIN c /\ c[d].phase >= c[m].phase BY <2>1, NoneBehind
  <2>3. c[d].phase > PhaseLexed
    BY <1>1, <1>3, <2>2, PhaseRange DEF Module, PhaseTyped, PhaseLexed
  <2> QED BY <2>2, <2>3 DEF Lexed, PhaseInit, PhaseLexed
<1>4. CASE Lexed(m, c[m])
  BY <1>4 DEF Lexed, FreshModule, PhaseInit, PhaseLexed, PhaseTyped
<1>5. CASE Kept(m, c[m])
  <2>1. m \in DOMAIN ctx /\ c[m] = ctx[m] /\ m \notin dirty BY <1>5 DEF Kept
  <2>2. DOMAIN ctx = All BY <2>1 DEF AllKnown
  <2>3. FreshModule(m, c[m], Modules \ dirty) BY <2>1 DEF Current
  <2>4. c[m].phase >= PhaseTyped => Reach[m] \cap dirty = {}
    <3> SUFFICES ASSUME c[m].phase >= PhaseTyped, NEW d \in Reach[m] PROVE d \notin dirty
      OBVIOUS
    <3>1. d \in DOMAIN c /\ ~Lexed(d, c[d]) BY <1>3
    <3>2. ~Loaded(d, c[d]) BY <1>2, <2>2, <3>1 DEF Loaded
    <3> QED BY <1>1, <3>1, <3>2 DEF Kept
  <2>5. CASE c[m].phase >= PhaseTyped
    <3>1. Reach[m] \cap Modules \subseteq Modules \ dirty BY <2>4, <2>5
    <3> QED BY <1>1, <2>3, <3>1, FreshWider
  <2>6. CASE ~(c[m].phase >= PhaseTyped)
    BY <1>1, <2>1, <2>3, <2>6 DEF FreshModule
  <2> QED BY <2>5, <2>6
<1>6. CASE Loaded(m, c[m])
  <2>1. DOMAIN ctx = {} BY <1>2, <1>6 DEF Loaded, AllKnown
  <2>2. /\ m \in DOMAIN iface /\ c[m].core = iface[m].core
        /\ c[m].phase \in {PhaseIfaceLoaded, PhaseLinked}
    BY <1>1, <1>6, CreatedType, LoadIfaceFacts DEF Loaded, Between, Newer
  <2>3. c[m].phase >= PhaseTyped /\ c[m].phase \notin PhaseLexed..PhaseTypedError
    BY <2>2 DEF PhaseIfaceLoaded, PhaseLinked, PhaseTyped, PhaseLexed, PhaseTypedError
  <2>4. FreshCore(m, c[m].core, {n \in Modules : Newer(n)})
    BY <1>2, <2>1, <2>2 DEF Current
  <2>5. ASSUME NEW d \in Reach[m] PROVE Newer(d)
    <3>1. d \in DOMAIN c /\ ~Lexed(d, c[d]) BY <1>3, <2>3
    <3>2. ~Kept(d, c[d]) BY <2>1 DEF Kept
    <3> QED BY <1>1, <3>1, <3>2 DEF Loaded
  <2>6. FreshModule(m, c[m], {n \in Modules : Newer(n)}) BY <2>3, <2>4 DEF FreshModule
  <2>7. Reach[m] \cap Modules \subseteq {n \in Modules : Newer(n)} BY <2>5
  <2> QED BY <1>1, <2>6, <2>7, FreshWider
<1> QED BY <1>1, <1>4, <1>5, <1>6

LEMMA StartCurrent ==
  ASSUME BuildInv, Current, AllKnown, AllKnown', NEW s, NEW forced, Start(s, forced)
  PROVE  Current'
<1> DEFINE c == validateDependencies(forced)
<1>1. Between BY DEF BuildInv, Between, Start
<1>2. /\ ctx' = c /\ mod' = c /\ dirty' = dirty \ DOMAIN c
      /\ pc' = [m \in DOMAIN c |-> "parse"] /\ maps' = NoMaps /\ UNCHANGED <<src, iface>>
  BY DEF Start, disk
<1>3. /\ DOMAIN c \subseteq Modules /\ Roots \subseteq DOMAIN c
      /\ \A m \in DOMAIN c : m \in Modules
  BY <1>1, Validation, NeededFacts DEF Holds
<1> HIDE DEF c
<1>4. DOMAIN c \in {{}, All} BY <1>2 DEF AllKnown
<1>5. ASSUME NEW m \in DOMAIN c PROVE FreshModule(m, c[m], Modules)
  BY <1>1, <1>4, StartFresh DEF c
<1>6. \A m \in DOMAIN c : FreshModule(m, ctx'[m], Modules \ dirty')
  BY <1>2, <1>3, <1>5, FreshWider
<1>8. DOMAIN ctx' = {} => All = {} BY <1>2, <1>3 DEF All
<1>9. DOMAIN pc' = DOMAIN c BY <1>2
<1>10. \A m \in DOMAIN ctx' : FreshModule(m, ctx[m], Modules \ dirty)'
  BY <1>2, <1>6 DEF FreshModule, FreshCore
<1>11. \A m \in DOMAIN pc' : FreshModule(m, ctx[m], Modules)' /\ FreshModule(m, mod[m], Modules)'
  BY <1>2, <1>5, <1>9 DEF FreshModule, FreshCore
<1>12. \A s1 \in Stages : DOMAIN maps'[s1] = {} BY <1>2, NoMapsFacts
<1> QED BY <1>8, <1>10, <1>11, <1>12 DEF Current

LEMMA WorkFresh ==
  ASSUME NEW m, ThreadContext(m), Current
  PROVE  FreshModule(m, mod'[m], Modules)
<1>1. m \in Modules /\ mod[m] \in Module /\ ctx[m] \in Module
      /\ FreshModule(m, mod[m], Modules) /\ FreshModule(m, ctx[m], Modules)
  BY AtStage DEF ThreadContext, Current
<1>2. mod[m].phase \in Nat BY <1>1, PhaseRange DEF Module
<1>3. CASE \E s \in Stages : Passes(m, s) \/ Waits(m, s)
  BY <1>1, <1>3 DEF Passes, Waits, Moves
<1>4. CASE Parses(m)
  <2>1. PICK v \in Module :
          Advances(m, "parse", v) /\ v.phase \in {PhaseParsedError, PhaseParsed}
    BY <1>4 DEF Parses
  <2>2. mod'[m] = v /\ v.text = mod[m].text BY <2>1 DEF Advances, Moves
  <2>3. mod[m].phase >= PhaseLexed /\ mod[m].phase < PhaseParsed
    BY <2>1, WorkPhase, StageFacts, StageNames DEF PhaseParsed
  <2>4. v.text = src[m]
    BY <1>1, <1>2, <2>2, <2>3 DEF FreshModule, PhaseLexed, PhaseParsed, PhaseTypedError
  <2>5. ~(v.phase >= PhaseTyped) BY <2>1 DEF PhaseParsedError, PhaseParsed, PhaseTyped
  <2> QED BY <2>2, <2>4, <2>5 DEF FreshModule
<1>5. CASE Checks(m)
  <2>1. PICK v \in Module : Advances(m, "tcheck", v) /\ v.phase \in {PhaseTypedError, PhaseTyped}
    BY <1>5 DEF Checks
  <2>2. mod'[m] = v /\ v.text = mod[m].text BY <2>1 DEF Advances, Moves
  <2>3. mod[m].phase >= PhaseLexed /\ mod[m].phase < PhaseTyped
    BY <2>1, WorkPhase, StageFacts, StageNames DEF PhaseTyped
  <2>4. v.text = src[m]
    BY <1>1, <1>2, <2>2, <2>3 DEF FreshModule, PhaseLexed, PhaseTyped, PhaseTypedError
  <2>5. v.phase = PhaseTyped => FreshCore(m, v.core, Modules)
    BY <1>5, <2>2, CheckedFresh
  <2>6. v.phase >= PhaseTyped => v.phase = PhaseTyped
    BY <2>1 DEF PhaseTypedError, PhaseTyped
  <2> QED BY <2>2, <2>4, <2>5, <2>6 DEF FreshModule
<1>6. CASE Optimizes(m) \/ Generates(m) \/ Links(m)
  <2>1. PICK v \in Module :
          /\ v.core = mod[m].core /\ mod'[m] = v
          /\ mod[m].phase \in {PhaseTyped, PhaseIfaceLoaded, PhaseOptimized, PhaseCodeGen}
          /\ v.phase \in {PhaseOptimized, PhaseCodeGen, PhaseLinked}
    BY <1>6 DEF Optimizes, Generates, Links, Advances, Moves
  <2>2. mod[m].phase >= PhaseTyped /\ v.phase \notin PhaseLexed..PhaseTypedError
    BY <2>1 DEF PhaseTyped, PhaseIfaceLoaded, PhaseOptimized, PhaseCodeGen, PhaseLinked,
                PhaseLexed, PhaseTypedError
  <2> QED BY <1>1, <2>1, <2>2 DEF FreshModule
<1>7. CASE \E s \in Stages : Breaks(m, s)
  <2>1. mod'[m] = [ctx[m] EXCEPT !.err = TRUE] BY <1>7 DEF Breaks, Failed
  <2>2. mod'[m].phase = ctx[m].phase /\ mod'[m].core = ctx[m].core /\ mod'[m].text = ctx[m].text
    BY <1>1, <2>1 DEF Module
  <2> QED BY <1>1, <2>2 DEF FreshModule
<1> QED BY <1>3, <1>4, <1>5, <1>6, <1>7 DEF ThreadContext, Kinds

LEMMA ThreadCurrent ==
  ASSUME NEW m, ThreadContext(m), Current
  PROVE  Current'
<1>1. /\ ctx' = ctx /\ src' = src /\ dirty' = dirty /\ DOMAIN pc' = DOMAIN pc
      /\ DOMAIN pc \subseteq Modules /\ m \in DOMAIN ctx /\ m \in DOMAIN pc
      /\ \A d \in DOMAIN pc \ {m} : mod'[d] = mod[d]
      /\ \A s \in Stages : /\ DOMAIN maps'[s] \subseteq DOMAIN maps[s] \cup {m}
                           /\ \A d \in DOMAIN maps[s] : maps'[s][d] = maps[s][d]
  BY AtStage DEF ThreadContext, Frame, Types, Holds
<1>2. FreshModule(m, mod'[m], Modules) /\ FreshModule(m, mod[m], Modules)
      /\ FreshModule(m, ctx[m], Modules)
  BY <1>1, WorkFresh DEF Current
<1>3. ASSUME NEW s \in Stages, m \in DOMAIN maps'[s]
      PROVE  FreshModule(m, maps'[s][m], Modules)
  <2>1. CASE m \in DOMAIN maps[s] BY <1>1, <2>1 DEF Current
  <2>2. CASE m \notin DOMAIN maps[s]
    <3>1. CASE \E r \in Stages, v \in Module : Moves(m, r, v)
      <4>1. PICK r \in Stages, v \in Module : Moves(m, r, v) BY <3>1
      <4>2. r = s BY <1>3, <2>2, <4>1 DEF Moves
      <4>3. maps'[s][m] = mod'[m] BY <4>1, <4>2 DEF Moves
      <4> QED BY <1>2, <4>3
    <3>2. CASE \E r \in {"optimize", "codegen", "link"} : Breaks(m, r)
      <4>1. PICK r \in Stages : Breaks(m, r) BY <3>2, StageNames
      <4>2. s \in Rest(r) BY <1>3, <2>2, <4>1 DEF Breaks
      <4>3. maps'[s][m] = mod[m] \/ maps'[s][m] = ctx[m] BY <4>1, <4>2 DEF Breaks
      <4> QED BY <1>2, <4>3
    <3> QED BY <3>1, <3>2, KindsMove
  <2> QED BY <2>1, <2>2
<1>4. ASSUME NEW d \in DOMAIN pc
      PROVE  /\ FreshModule(d, ctx[d], Modules) /\ FreshModule(d, mod'[d], Modules)
             /\ \A s \in Stages : d \in DOMAIN maps'[s] => FreshModule(d, maps'[s][d], Modules)
  <2>1. CASE d = m BY <1>2, <1>3, <2>1
  <2>2. CASE d # m
    <3>1. mod'[d] = mod[d] /\ \A s \in Stages : d \in DOMAIN maps'[s] =>
             d \in DOMAIN maps[s] /\ maps'[s][d] = maps[s][d]
      BY <1>1, <2>2
    <3> QED BY <3>1 DEF Current
  <2> QED BY <2>1, <2>2
<1>5. \A d \in DOMAIN pc' :
        /\ FreshModule(d, ctx[d], Modules)' /\ FreshModule(d, mod[d], Modules)'
        /\ \A s \in Stages : d \in DOMAIN maps'[s] => FreshModule(d, maps[s][d], Modules)'
  BY <1>1, <1>4 DEF FreshModule, FreshCore
<1>6. \A d \in DOMAIN ctx' : FreshModule(d, ctx[d], Modules \ dirty)'
  BY <1>1 DEF Current, FreshModule, FreshCore
<1>7. DOMAIN ctx' # {} BY <1>1
<1> QED BY <1>5, <1>6, <1>7 DEF Current

LEMMA FinishCurrent ==
  ASSUME BuildInv, Current, Finish
  PROVE  Current'
<1>1. /\ ctx' = mod /\ pc' = Empty /\ UNCHANGED <<src, iface, dirty>>
      /\ DOMAIN mod = DOMAIN pc /\ DOMAIN mod = DOMAIN ctx /\ DOMAIN mod \subseteq Modules
  BY DEF Finish, disk, BuildInv, Types, Staged, Holds
<1>2. \A m \in DOMAIN ctx' : FreshModule(m, ctx'[m], Modules \ dirty)
  BY <1>1, FreshWider DEF Current
<1>3. \A m \in DOMAIN ctx' : FreshModule(m, ctx[m], Modules \ dirty)'
  BY <1>1, <1>2 DEF FreshModule, FreshCore
<1>4. DOMAIN ctx' = {} => \A m \in DOMAIN iface' \cap All :
        FreshCore(m, iface[m].core, {n \in Modules : Newer(n)})'
  BY <1>1 DEF Current, FreshCore, Newer
<1>5. DOMAIN pc' = {} BY <1>1, EmptyFacts
<1> QED BY <1>3, <1>4, <1>5 DEF Current

LEMMA EditCurrent ==
  ASSUME BuildInv, Current, NEW m \in Modules, NEW t \in Texts, Edit(m, t)
  PROVE  Current'
<1>1. /\ Idle /\ src' = [src EXCEPT ![m] = t] /\ dirty' = dirty \cup {m}
      /\ ctx' = ctx /\ pc' = pc /\ DOMAIN pc = {}
      /\ \A d \in Modules \ {m} : src'[d] = src[d]
  BY DEF Edit, threads, BuildInv, Types, Staged
<1>2. /\ DOMAIN iface' = DOMAIN iface
      /\ \A d \in DOMAIN iface : iface'[d].core = iface[d].core
      /\ \A d \in Modules : Newer(d)' => d # m /\ Newer(d)
  BY EditFiles DEF BuildInv
<1>3. DOMAIN ctx \subseteq Modules BY DEF BuildInv, Types, Holds
<1>4. ASSUME NEW d \in DOMAIN ctx PROVE FreshModule(d, ctx[d], Modules \ dirty)'
  BY <1>1, <1>3 DEF Current, FreshModule, FreshCore
<1>5. ASSUME DOMAIN ctx = {}, NEW d \in DOMAIN iface \cap All
      PROVE  FreshCore(d, iface[d].core, {n \in Modules : Newer(n)})'
  <2>1. FreshCore(d, iface'[d].core, {n \in Modules : Newer(n)}) BY <1>2, <1>5 DEF Current
  <2>2. \A n \in {k \in Modules : Newer(k)'} : n \in {k \in Modules : Newer(k)} /\ src'[n] = src[n]
    BY <1>1, <1>2
  <2> QED BY <2>1, <2>2 DEF FreshCore
<1> QED BY <1>1, <1>2, <1>4, <1>5 DEF Current

(* A clean restart leaves an interface for all that the context had, and   *)
(* none is newer than its source when the source was edited since.         *)
LEMMA RestartCurrent ==
  ASSUME CleanRestarts, BuildInv, Current, AllKnown, Restart
  PROVE  Current'
<1>1. /\ BuiltClean /\ DOMAIN ctx = All /\ ctx' = Empty /\ pc' = Empty
      /\ UNCHANGED <<src, iface>>
  BY DEF Restart, disk, AllKnown
<1>2. ASSUME NEW m \in DOMAIN iface \cap All
      PROVE  FreshCore(m, iface[m].core, {n \in Modules : Newer(n)})
  <2>1. m \in DOMAIN ctx /\ ctx[m].phase = PhaseLinked /\ Idle BY <1>1, <1>2 DEF BuiltClean
  <2>2. iface[m].core = ctx[m].core BY <2>1 DEF BuildInv, Linked, HasInterface
  <2>3. PhaseLinked >= PhaseTyped BY DEF PhaseLinked, PhaseTyped
  <2>4. FreshCore(m, iface[m].core, Modules \ dirty)
    BY <2>1, <2>2, <2>3 DEF Current, FreshModule
  <2>5. {n \in Modules : Newer(n)} \subseteq Modules \ dirty BY DEF BuildInv, Lexable
  <2> QED BY <2>4, <2>5 DEF FreshCore
<1>3. \A m \in DOMAIN iface' \cap All : FreshCore(m, iface[m].core, {n \in Modules : Newer(n)})'
  BY <1>1, <1>2 DEF FreshCore, Newer
<1>4. DOMAIN ctx' = {} /\ DOMAIN pc' = {} BY <1>1, EmptyFacts
<1> QED BY <1>3, <1>4 DEF Current

LEMMA NextCurrent ==
  ASSUME CleanRestarts, BuildInv, Current, AllKnown, AllKnown', [Next]_vars
  PROVE  Current'
<1>1. CASE \E s \in {"tcheck", "link"}, forced \in {{}, Roots} : Start(s, forced)
  BY <1>1, StartCurrent
<1>2. CASE \E m \in Modules : Thread(m)
  BY <1>2, ThreadInv, ThreadCurrent
<1>3. CASE Finish BY <1>3, FinishCurrent
<1>4. CASE \E m \in Modules, t \in Texts : Edit(m, t) BY <1>4, EditCurrent
<1>5. CASE Restart BY <1>5, RestartCurrent
<1>6. CASE UNCHANGED vars
  <2>1. UNCHANGED <<src, iface, ctx, dirty, pc, mod, maps>>
    BY <1>6 DEF vars, disk, threads
  <2> QED BY <2>1 DEF Current, FreshModule, FreshCore, Newer
<1> QED BY <1>1, <1>2, <1>3, <1>4, <1>5, <1>6 DEF Next

(* As long as the compiler is restarted only after clean builds, and       *)
(* builds know all modules that the roots need, no compiled module of a    *)
(* context is stale: validateDependencies reloads whatever an edit of an   *)
(* import, direct or not, made out of date.                                *)
THEOREM BuildFresh ==
  ASSUME CleanRestarts
  PROVE  Spec /\ []AllKnown => []Fresh
<1>1. Init => Current
  <2> SUFFICES ASSUME Init PROVE Current OBVIOUS
  <2>1. iface = NoFiles /\ ctx = Empty /\ pc = Empty BY DEF Init
  <2>2. DOMAIN iface = {} /\ DOMAIN ctx = {} /\ DOMAIN pc = {} BY <2>1, EmptyFacts
  <2> QED BY <2>2 DEF Current
<1>2. BuildInv /\ Current /\ AllKnown /\ AllKnown' /\ [Next]_vars => Current'
  BY NextCurrent
<1>3. BuildInv /\ Current => Fresh
  <2> SUFFICES ASSUME BuildInv, Current, NEW m \in DOMAIN ctx, ctx[m].phase >= PhaseTyped
               PROVE  /\ {p[1] : p \in ctx[m].core} = Reach[m]
                      /\ \A p \in ctx[m].core : p[1] \notin dirty => p[2] = src[p[1]]
    BY DEF Fresh
  <2>1. FreshCore(m, ctx[m].core, Modules \ dirty) BY DEF Current, FreshModule
  <2>2. m \in Modules BY DEF BuildInv, Types, Holds
  <2>3. Reach[m] \subseteq Modules BY <2>2, ReachSelf
  <2>4. \A p \in ctx[m].core : p[1] \in Modules BY <2>1, <2>3 DEF FreshCore
  <2> QED BY <2>1, <2>4 DEF FreshCore
<1> QED BY <1>1, <1>2, <1>3, BuildInvariance, PTL DEF Spec

-----------------------------------------------------------------------------
(* Generated code, interfaces and modules agree.                           *)
LEMMA StartGenerated ==
  ASSUME BuildInv, Generated, NEW s, NEW forced, Start(s, forced)
  PROVE  Generated'
<1> DEFINE c == validateDependencies(forced)
<1>1. Between BY DEF BuildInv, Between, Start
<1>2. /\ mod' = c /\ pc' = [m \in DOMAIN c |-> "parse"] /\ maps' = NoMaps
      /\ UNCHANGED <<iface, gen>>
  BY DEF Start, disk
<1>3. ASSUME NEW m \in DOMAIN c, c[m].phase >= PhaseCodeGen PROVE HasCode(m, c[m].core)
  <2>1. c[m] \in Module /\ c[m].phase # PhaseCodeGen /\ HasInterface(m, c[m])
    BY <1>1, Validation, NoneGenerated, StartLinked
  <2>2. c[m].phase = PhaseLinked
    BY <1>3, <2>1, PhaseRange DEF Module, PhaseCodeGen, PhaseLinked
  <2>3. m \in DOMAIN iface /\ iface[m].core = c[m].core BY <2>1, <2>2 DEF HasInterface
  <2> QED BY <2>3 DEF Generated
<1> HIDE DEF c
<1>4. DOMAIN maps'["codegen"] = {} /\ DOMAIN pc' = DOMAIN c BY <1>2, NoMapsFacts, StageNames
<1> QED BY <1>2, <1>3, <1>4 DEF Generated, HasCode

(* What a module that breaks goes back to was not generated in this build. *)
LEMMA BreakPhase ==
  ASSUME NEW m, ThreadContext(m), NEW s, Breaks(m, s)
  PROVE  /\ ctx[m].phase < PhaseCodeGen /\ mod'[m].phase = ctx[m].phase
         /\ s = "codegen" => mod[m].phase < PhaseCodeGen
<1>1. /\ mod[m].phase = Expect[s] /\ s \in {"optimize", "codegen", "link"}
      /\ mod'[m] = [ctx[m] EXCEPT !.err = TRUE]
  BY DEF Breaks, Failed
<1>2. ctx[m] \in Module /\ m \in DOMAIN pc /\ m \in DOMAIN ctx /\ ~Idle BY AtStage
<1>3. ctx[m].phase # PhaseCodeGen /\ mod[m].phase >= ctx[m].phase
  BY <1>2 DEF ThreadContext, Validated, Steady
<1>4. ctx[m].phase \in Nat BY <1>2, PhaseRange DEF Module
<1>5. mod'[m].phase = ctx[m].phase BY <1>1, <1>2 DEF Module
<1> QED BY <1>1, <1>3, <1>4, <1>5, StageFacts DEF PhaseCodeGen

LEMMA ThreadGenerated ==
  ASSUME NEW m, ThreadContext(m), Linked, Generated
  PROVE  Generated'
<1> DEFINE stays == gen' = gen
           mapped == m \in DOMAIN maps["codegen"]
<1>1. /\ m \in Modules /\ m \in DOMAIN pc /\ mod[m] \in Module /\ DOMAIN pc' = DOMAIN pc
      /\ DOMAIN pc \subseteq Modules /\ "codegen" \in Stages /\ pc[m] \in Stages
      /\ DOMAIN iface \subseteq Modules /\ DOMAIN iface' \subseteq Modules
      /\ DOMAIN maps["codegen"] \subseteq Modules
      /\ \A d \in DOMAIN pc \ {m} : mod'[d] = mod[d]
      /\ DOMAIN maps["codegen"] \subseteq DOMAIN maps'["codegen"]
      /\ DOMAIN maps'["codegen"] \subseteq DOMAIN maps["codegen"] \cup {m}
      /\ \A d \in DOMAIN maps["codegen"] : maps'["codegen"][d] = maps["codegen"][d]
  BY AtStage, StageNames DEF ThreadContext, Frame, Types, Holds
<1>2. ASSUME NEW d \in Modules \ {m}, NEW core PROVE HasCode(d, core) => HasCode(d, core)'
  BY DEF ThreadContext, FileFrame, HasCode
<1>3. mapped => pc[m] = "link"
  BY <1>1, AtStage, StageFacts, StageNames
<1>4. /\ m \in DOMAIN iface' => HasCode(m, iface[m].core)'
      /\ mod'[m].phase >= PhaseCodeGen => HasCode(m, mod[m].core)'
      /\ mapped => gen' = gen
  <2>0. /\ m \in DOMAIN iface => HasCode(m, iface[m].core)
        /\ mod[m].phase >= PhaseCodeGen => HasCode(m, mod[m].core)
        /\ HasInterface(m, mod[m])
    BY <1>1 DEF Generated, Linked
  <2>1. CASE \E s \in Stages : Passes(m, s) \/ Waits(m, s)
    <3>1. mod'[m] = mod[m] /\ UNCHANGED <<iface, gen>>
      BY <2>1 DEF Passes, Waits, Moves, KeepsFiles
    <3> QED BY <2>0, <3>1 DEF HasCode
  <2>2. CASE Parses(m) \/ Checks(m)
    <3>1. /\ mod'[m].phase \in {PhaseParsedError, PhaseParsed, PhaseTypedError, PhaseTyped}
          /\ UNCHANGED <<iface, gen>>
      BY <2>2 DEF Parses, Checks, Advances, Moves, KeepsFiles
    <3>2. ~(mod'[m].phase >= PhaseCodeGen)
      BY <3>1 DEF PhaseParsedError, PhaseParsed, PhaseTypedError, PhaseTyped, PhaseCodeGen
    <3> QED BY <2>0, <3>1, <3>2 DEF HasCode
  <2>3. CASE Optimizes(m)
    <3>1. /\ mod'[m].core = mod[m].core /\ UNCHANGED <<iface, gen>>
          /\ mod'[m].phase = PhaseOptimized \/ mod[m].phase = PhaseIfaceLoaded
      BY <2>3 DEF Optimizes, Advances, Moves, KeepsFiles
    <3>2. ~(PhaseOptimized >= PhaseCodeGen) BY DEF PhaseOptimized, PhaseCodeGen
    <3>3. mod[m].phase = PhaseIfaceLoaded => HasCode(m, mod[m].core)
      BY <2>0 DEF HasInterface
    <3> QED BY <2>0, <3>1, <3>2, <3>3 DEF HasCode
  <2>4. CASE Generates(m)
    <3>1. PICK v : /\ Advances(m, "codegen", v) /\ iface' = Without(iface, m)
                   /\ gen' = With(gen, m, v.core)
      BY <2>4 DEF Generates
    <3>2. mod'[m] = v /\ pc[m] = "codegen" BY <3>1 DEF Advances, Moves
    <3>3. m \notin DOMAIN iface' BY <3>1 DEF Without, Restrict
    <3>4. m \in DOMAIN gen' /\ gen'[m] = v.core BY <3>1 DEF With
    <3> QED BY <1>3, <3>2, <3>3, <3>4 DEF HasCode
  <2>5. CASE Links(m)
    <3>1. PICK v \in Module :
            /\ Advances(m, "link", v) /\ mod[m].phase = PhaseCodeGen /\ v.core = mod[m].core
            /\ iface' = (IF m \in link THEN With(iface, m, [core |-> v.core, newer |-> TRUE]) ELSE iface)
            /\ gen' = gen
      BY <2>5 DEF Links
    <3>2. m \in link BY <3>1, AtStage DEF ThreadContext, Steady
    <3>3. iface' = With(iface, m, [core |-> v.core, newer |-> TRUE]) /\ mod'[m] = v
      BY <3>1, <3>2 DEF Advances, Moves
    <3>4. m \in DOMAIN iface' /\ iface'[m].core = v.core BY <3>3 DEF With
    <3>5. HasCode(m, mod[m].core) BY <2>0, <3>1 DEF PhaseCodeGen
    <3> QED BY <3>1, <3>3, <3>4, <3>5 DEF HasCode
  <2>6. CASE \E s \in Stages : Breaks(m, s)
    <3>1. PICK s \in Stages : Breaks(m, s) BY <2>6
    <3>2. ctx[m].phase < PhaseCodeGen /\ mod'[m].phase = ctx[m].phase /\ ctx[m] \in Module
      BY <3>1, BreakPhase, AtStage
    <3>3. ~(mod'[m].phase >= PhaseCodeGen) BY <3>2, PhaseRange DEF Module, PhaseCodeGen
    <3>4. CASE s = "codegen"
      <4>1. iface' = Without(iface, m) /\ pc[m] = "codegen" BY <3>1, <3>4 DEF Breaks
      <4>2. m \notin DOMAIN iface' BY <4>1 DEF Without, Restrict
      <4> QED BY <1>3, <3>3, <4>1, <4>2
    <3>5. CASE s # "codegen"
      <4>1. gen' = gen /\ (iface' = iface \/ (s = "link" /\ Written(m))) BY <3>1, <3>5 DEF Breaks
      <4>2. CASE iface' = iface BY <2>0, <3>3, <4>1, <4>2 DEF HasCode
      <4>3. CASE s = "link" /\ Written(m)
        <5>1. mod[m].phase = Expect["link"] BY <3>1, <4>3 DEF Breaks
        <5>2. HasCode(m, mod[m].core) BY <2>0, <5>1, StageFacts DEF PhaseCodeGen
        <5>3. iface'[m].core = mod[m].core BY <4>3 DEF Written, With
        <5> QED BY <3>3, <4>1, <5>2, <5>3 DEF HasCode
      <4> QED BY <4>1, <4>2, <4>3
    <3> QED BY <3>4, <3>5
  <2> QED BY <2>1, <2>2, <2>3, <2>4, <2>5, <2>6 DEF ThreadContext, Kinds
<1>5. ASSUME m \in DOMAIN maps'["codegen"], maps'["codegen"][m].phase >= PhaseCodeGen
      PROVE  HasCode(m, maps["codegen"][m].core)'
  <2>1. CASE mapped
    <3>1. maps'["codegen"][m] = maps["codegen"][m] /\ gen' = gen BY <1>1, <1>4, <2>1
    <3>2. HasCode(m, maps["codegen"][m].core) BY <1>5, <2>1, <3>1 DEF Generated
    <3> QED BY <3>1, <3>2 DEF HasCode
  <2>2. CASE ~mapped
    <3>1. CASE \E r \in Stages, v \in Module : Moves(m, r, v)
      <4>1. PICK r \in Stages, v \in Module : Moves(m, r, v) BY <3>1
      <4>2. r = "codegen" BY <1>1, <1>5, <2>2, <4>1 DEF Moves
      <4>3. maps'["codegen"][m] = mod'[m] BY <4>1, <4>2 DEF Moves
      <4> QED BY <1>4, <1>5, <4>3 DEF HasCode
    <3>2. CASE \E r \in {"optimize", "codegen", "link"} : Breaks(m, r)
      <4>1. PICK r \in Stages : Breaks(m, r) BY <3>2, StageNames
      <4>2. "codegen" \in Rest(r) BY <1>1, <1>5, <2>2, <4>1 DEF Breaks
      <4>3. maps'["codegen"][m] = IF "codegen" = r THEN mod[m] ELSE ctx[m]
        BY <1>1, <4>1, <4>2 DEF Breaks
      <4>4. maps'["codegen"][m].phase < PhaseCodeGen BY <4>1, <4>3, BreakPhase
      <4>5. maps'["codegen"][m].phase \in Nat
        BY <1>1, <4>3, AtStage, PhaseRange DEF Module
      <4> QED BY <1>5, <4>4, <4>5 DEF PhaseCodeGen
    <3> QED BY <3>1, <3>2, KindsMove
  <2> QED BY <2>1, <2>2
<1>6. ASSUME NEW d \in DOMAIN iface', d # m PROVE HasCode(d, iface[d].core)'
  <2>1. d \in DOMAIN iface /\ iface'[d] = iface[d]
    BY <1>1, <1>6 DEF ThreadContext, FileFrame
  <2>2. HasCode(d, iface[d].core) /\ d \in Modules BY <1>1, <2>1 DEF Generated
  <2> QED BY <1>2, <1>6, <2>1, <2>2 DEF HasCode
<1>7. ASSUME NEW d \in DOMAIN pc, d # m, mod'[d].phase >= PhaseCodeGen
      PROVE  HasCode(d, mod[d].core)'
  <2>1. mod'[d] = mod[d] /\ d \in Modules BY <1>1, <1>7
  <2>2. HasCode(d, mod[d].core) BY <1>7, <2>1 DEF Generated
  <2> QED BY <1>2, <1>7, <2>1, <2>2 DEF HasCode
<1>8. ASSUME NEW d \in DOMAIN maps'["codegen"], d # m, maps'["codegen"][d].phase >= PhaseCodeGen
      PROVE  HasCode(d, maps["codegen"][d].core)'
  <2>1. d \in DOMAIN maps["codegen"] /\ maps'["codegen"][d] = maps["codegen"][d] /\ d \in Modules
    BY <1>1, <1>8
  <2>2. HasCode(d, maps["codegen"][d].core) BY <1>8, <2>1 DEF Generated
  <2> QED BY <1>2, <1>8, <2>1, <2>2 DEF HasCode
<1> QED BY <1>1, <1>4, <1>5, <1>6, <1>7, <1>8 DEF Generated

LEMMA NextGenerated ==
  ASSUME BuildInv, Generated, [Next]_vars
  PROVE  Generated'
<1>1. CASE \E s \in {"tcheck", "link"}, forced \in {{}, Roots} : Start(s, forced)
  BY <1>1, StartGenerated
<1>2. CASE \E m \in Modules : Thread(m)
  BY <1>2, ThreadInv, ThreadGenerated DEF BuildInv
<1>3. CASE Finish \/ Restart
  <2>1. UNCHANGED <<iface, gen>> /\ pc' = Empty /\ maps' = NoMaps
    BY <1>3 DEF Finish, Restart, disk
  <2>2. DOMAIN pc' = {} /\ DOMAIN maps'["codegen"] = {}
    BY <2>1, EmptyFacts, NoMapsFacts, StageNames
  <2> QED BY <2>1, <2>2 DEF Generated, HasCode
<1>4. CASE \E m \in Modules, t \in Texts : Edit(m, t)
  <2>1. PICK m \in Modules, t \in Texts : Edit(m, t) BY <1>4
  <2>2. /\ UNCHANGED <<gen, pc, mod, maps>> /\ DOMAIN iface' = DOMAIN iface
        /\ \A d \in DOMAIN iface : iface'[d].core = iface[d].core
    BY <2>1, EditFiles DEF BuildInv, Edit, threads
  <2> QED BY <2>2 DEF Generated, HasCode
<1>5. CASE UNCHANGED vars
  <2>1. UNCHANGED <<iface, gen, pc, mod, maps>> BY <1>5 DEF vars, disk, threads
  <2> QED BY <2>1 DEF Generated, HasCode
<1> QED BY <1>1, <1>2, <1>3, <1>4, <1>5 DEF Next

(* Linking waits for all that a module imports, if no core is empty.       *)
LEMMA LinkCloses ==
  ASSUME NEW m \in Modules, NEW s \in Stages, mod[m].core # {},
         \A d \in moduleWaitForImports(m, s) : d \in DOMAIN maps[s] /\ maps[s][d].core # {}
  PROVE  Reach[m] \subseteq moduleWaitForImports(m, s) \cup {m}
<1> DEFINE R == moduleWaitForImports(m, s)
<1>1. R \subseteq Reach[m] \ {m} /\ R \subseteq Modules
  BY ImportReads, ReachSelf
<1>2. Imports[m] \subseteq R
  <2>1. modImportNames(m, mod[m]) \subseteq R BY ImportReads
  <2> QED BY <2>1, CoreImportsFacts DEF modImportNames
<1>3. ASSUME NEW d \in R PROVE Imports[d] \subseteq R
  <2>1. modImportNames(d, maps[s][d]) \subseteq R BY ImportReads
  <2>2. d \in Modules BY <1>1
  <2> QED BY <2>1, <2>2, CoreImportsFacts DEF modImportNames
<1> HIDE DEF R
<1>4. R \cup {m} \in SUBSET Modules BY <1>1
<1>5. Reach[m] \subseteq R \cup {m} BY <1>2, <1>3, <1>4, ReachLeast
<1> QED BY <1>5 DEF R

LEMMA LinkMatches ==
  ASSUME BuildInv, Current, Generated, NEW m, ThreadContext(m), Links(m), NEW d \in Reach[m]
  PROVE  /\ d \in DOMAIN gen /\ gen[d] \subseteq mod[m].core
         /\ m \in Entries /\ d # m => d \in DOMAIN iface /\ iface[d].core = gen[d]
<1> DEFINE s == IF FullLink(m) THEN "link" ELSE "codegen"
           R == moduleWaitForImports(m, s)
<1>1. Present(s, R, Target[s]) /\ mod[m].phase = PhaseCodeGen /\ m \in link
  BY AtStage DEF Links, Linkable, ThreadContext, Steady
<1>2. /\ m \in Modules /\ m \in DOMAIN pc /\ mod[m] \in Module /\ "codegen" \in Stages
      /\ s \in Stages /\ DOMAIN pc \subseteq Modules /\ d \in Modules /\ "link" \in Stages
  BY AtStage, StageNames, ReachSelf DEF ThreadContext, Types, Holds
<1>3. ASSUME NEW e \in DOMAIN pc, NEW v \in Module, FreshModule(e, v, Modules),
             v.phase >= PhaseCodeGen
      PROVE  v.core = CoreNow(e) /\ v.core # {}
  <2>1. v.phase >= PhaseTyped /\ v.core \in Cores
    BY <1>3, PhaseRange DEF Module, PhaseCodeGen, PhaseTyped
  <2> QED BY <1>2, <1>3, <2>1, CoreNowFacts DEF FreshModule, BuildInv
<1>4. mod[m].core = CoreNow(m) /\ mod[m].core # {} /\ HasCode(m, mod[m].core)
  BY <1>1, <1>2, <1>3 DEF Current, Generated, PhaseCodeGen
<1>5. ASSUME NEW e \in R
      PROVE  /\ e \in DOMAIN maps[s] /\ e \in DOMAIN pc /\ maps[s][e] \in Module
             /\ maps[s][e].phase >= Target[s] /\ maps[s][e].phase >= PhaseCodeGen
             /\ maps[s][e].core = CoreNow(e) /\ maps[s][e].core # {}
  <2>1. e \in DOMAIN maps[s] /\ maps[s][e].phase >= Target[s] BY <1>1 DEF Present, Ready
  <2>2. e \in DOMAIN pc /\ maps[s][e] \in Module
    BY <1>2, <2>1 DEF BuildInv, Staged, Types, Holds
  <2>3. maps[s][e].phase \in Nat BY <2>2, PhaseRange DEF Module
  <2>4. Target[s] \in {8, 9} BY StageFacts
  <2>5. maps[s][e].phase >= PhaseCodeGen BY <2>1, <2>3, <2>4 DEF PhaseCodeGen
  <2>6. FreshModule(e, maps[s][e], Modules) BY <1>2, <2>1, <2>2 DEF Current
  <2> QED BY <1>3, <2>1, <2>2, <2>5, <2>6
<1>6. Reach[m] \subseteq R \cup {m}
  <2> HIDE DEF s
  <2> QED BY <1>2, <1>4, <1>5, LinkCloses
<1>7. CASE d = m BY <1>4, <1>7 DEF HasCode
<1>8. CASE d # m
  <2>1. d \in R BY <1>6, <1>8
  <2>2. HasCode(d, CoreNow(d)) /\ (s = "link" => d \in DOMAIN iface)
    <3>1. CASE s = "codegen"
      <4>1. HasCode(d, maps["codegen"][d].core) BY <1>5, <2>1, <3>1 DEF Generated
      <4> QED BY <1>5, <2>1, <3>1, <4>1
    <3>2. CASE s = "link"
      <4>1. d \in DOMAIN pc /\ d \in DOMAIN maps["link"] /\ maps["link"][d] \in Module
            /\ maps["link"][d].phase >= PhaseLinked
        BY <1>5, <2>1, <3>2, StageFacts DEF PhaseLinked
      <4>2. maps["link"][d].phase = PhaseLinked
        BY <4>1, PhaseRange DEF Module, PhaseLinked
      <4>3. mod[d].phase = PhaseLinked BY <1>2, <4>1, <4>2 DEF BuildInv, Steady
      <4>4. mod[d] \in Module /\ FreshModule(d, mod[d], Modules) /\ HasInterface(d, mod[d])
        BY <4>1 DEF BuildInv, Types, Holds, Current, Linked
      <4>5. PhaseLinked >= PhaseCodeGen BY DEF PhaseLinked, PhaseCodeGen
      <4>6. mod[d].core = CoreNow(d) /\ HasCode(d, mod[d].core)
        BY <1>3, <4>1, <4>3, <4>4, <4>5 DEF Generated
      <4>7. d \in DOMAIN iface BY <4>3, <4>4 DEF HasInterface
      <4> QED BY <4>6, <4>7
    <3> QED BY <3>1, <3>2
  <2>3. CoreNow(d) \subseteq CoreNow(m) BY <1>2, ReachTransitive DEF CoreNow
  <2>4. m \in Entries => s = "link" BY <1>1 DEF FullLink
  <2>5. d \in DOMAIN iface => iface[d].core = gen[d] BY DEF Generated, HasCode
  <2> QED BY <1>4, <2>2, <2>3, <2>4, <2>5 DEF HasCode
<1> QED BY <1>7, <1>8

LEMMA LinkSteps ==
  ASSUME BuildInv, Current, Generated, Next, NEW m \in link, m \in DOMAIN mod',
         mod[m].phase < PhaseLinked, mod'[m].phase = PhaseLinked
  PROVE  \A d \in Reach[m] :
           /\ d \in DOMAIN gen /\ gen[d] \subseteq mod[m].core
           /\ m \in Entries /\ d # m => d \in DOMAIN iface /\ iface[d].core = gen[d]
<1>1. m \in DOMAIN maps["codegen"] /\ m \in DOMAIN pc /\ ~Idle /\ "codegen" \in Stages
  BY StageNames DEF BuildInv, Staged
<1>2. mod[m] \in Module BY <1>1 DEF BuildInv, Types, Holds
<1>3. PICK e \in Modules : Thread(e)
  <2>1. ~(Finish \/ Restart)
    <3>1. Finish \/ Restart => DOMAIN mod' = {} BY EmptyFacts DEF Finish, Restart
    <3> QED BY <3>1
  <2>2. ~(\E s, forced : Start(s, forced)) /\ ~(\E n, t : Edit(n, t)) BY <1>1 DEF Start, Edit
  <2> QED BY <2>1, <2>2 DEF Next
<1>4. ThreadContext(e) BY <1>3, ThreadInv
<1>5. mod'[m] # mod[m] BY <1>2, PhaseRange DEF Module, PhaseLinked
<1>6. e = m BY <1>1, <1>4, <1>5 DEF ThreadContext, Frame
<1>7. ThreadContext(m) BY <1>4, <1>6
<1>8. pc[m] = "link"
  BY <1>1, <1>7, AtStage, StageFacts, StageNames
<1>9. ~(\E s \in Stages : Passes(m, s) \/ Waits(m, s)) BY <1>5 DEF Passes, Waits, Moves
<1>10. ~(\E s \in Stages : Breaks(m, s))
  <2> SUFFICES ASSUME NEW s \in Stages, Breaks(m, s) PROVE FALSE OBVIOUS
  <2>1. mod'[m].phase < PhaseCodeGen BY <1>7, BreakPhase
  <2> QED BY <2>1 DEF PhaseCodeGen, PhaseLinked
<1>11. ~(Parses(m) \/ Checks(m) \/ Optimizes(m) \/ Generates(m))
  BY <1>8 DEF Parses, Checks, Optimizes, Generates, Advances, Moves
<1>12. Links(m) BY <1>7, <1>9, <1>10, <1>11 DEF ThreadContext, Kinds
<1> QED BY <1>7, <1>12, LinkMatches

(* Under the same conditions moduleLink finds the generated code of all    *)
(* that a module imports, made from the cores it was compiled against, and *)
(* an executable is only linked after all of these.                        *)
THEOREM BuildLinkReads ==
  ASSUME CleanRestarts
  PROVE  Spec /\ []AllKnown => LinkReadsMatchingCode
<1> DEFINE A == \A m \in link :
       m \in DOMAIN mod' /\ mod[m].phase < PhaseLinked /\ mod'[m].phase = PhaseLinked =>
         \A d \in Reach[m] :
           /\ d \in DOMAIN gen /\ gen[d] \subseteq mod[m].core
           /\ m \in Entries /\ d # m => d \in DOMAIN iface /\ iface[d].core = gen[d]
<1>1. Init => Current /\ Generated
  <2> SUFFICES ASSUME Init PROVE Current /\ Generated OBVIOUS
  <2>1. iface = NoFiles /\ ctx = Empty /\ pc = Empty /\ maps = NoMaps BY DEF Init
  <2>2. /\ DOMAIN iface = {} /\ DOMAIN ctx = {} /\ DOMAIN pc = {}
        /\ DOMAIN maps["codegen"] = {}
    BY <2>1, EmptyFacts, NoMapsFacts, StageNames
  <2> QED BY <2>2 DEF Current, Generated
<1>2. BuildInv /\ Current /\ AllKnown /\ AllKnown' /\ [Next]_vars => Current'
  BY NextCurrent
<1>3. BuildInv /\ Generated /\ [Next]_vars => Generated' BY NextGenerated
<1>4. BuildInv /\ Current /\ Generated /\ [Next]_vars => [A]_vars
  <2> SUFFICES ASSUME BuildInv, Current, Generated, Next PROVE A OBVIOUS
  <2> QED BY LinkSteps
<1> QED BY <1>1, <1>2, <1>3, <1>4, BuildInvariance, PTL DEF Spec, LinkReadsMatchingCode

(* When no source ever fails to be lexed, builds know all modules that the *)
(* roots need, so that freshness depends on clean restarts only.           *)
THEOREM BuildKnowsAll ==
  ASSUME Unlexable = {}
  PROVE  Spec => []AllKnown
<1>1. Init => AllKnown
  BY EmptyFacts DEF Init, AllKnown
<1>2. ASSUME BuildInv, NEW s, NEW forced, Start(s, forced) PROVE AllKnown'
  <2> DEFINE c == validateDependencies(forced)
             N == Needed(forced)
  <2>1. Between BY <1>2 DEF BuildInv, Between, Start
  <2>2. DOMAIN c = N /\ N \subseteq Modules /\ Roots \subseteq N BY <2>1, Validation, NeededFacts
  <2>3. ASSUME NEW m \in N PROVE Imports[m] \subseteq N
    <3> DEFINE w == moduleLoad(m, forced)
    <3>1. /\ m \in Modules /\ w \in Module /\ w.deps \subseteq N
          /\ w.phase >= PhaseLexed => Imports[m] \subseteq w.deps
          /\ Kept(m, w) \/ Loaded(m, w) \/ Lexed(m, w)
      BY <2>1, <2>2, LoadFacts, NeededFacts
    <3>2. w.phase >= PhaseLexed
      <4>1. CASE Kept(m, w) BY <4>1 DEF Kept
      <4>2. CASE Loaded(m, w)
        <5>1. w.phase \in {PhaseIfaceLoaded, PhaseLinked}
          BY <2>1, <3>1, <4>2, CreatedType, LoadIfaceFacts DEF Loaded, Between, Newer
        <5> QED BY <5>1 DEF PhaseIfaceLoaded, PhaseLinked, PhaseLexed
      <4>3. CASE Lexed(m, w) BY <4>3 DEF Lexed, PhaseLexed
      <4> QED BY <3>1, <4>1, <4>2, <4>3
    <3> QED BY <3>1, <3>2
  <2>4. All \subseteq N
    <3>1. \A r \in Roots : Reach[r] \subseteq N
      <4> HIDE DEF N
      <4> QED BY <2>2, <2>3, ReachLeast
    <3> QED BY <3>1 DEF All
  <2>5. N \subseteq All
    <3>1. Roots \subseteq All BY ReachSelf, BuildAssumption DEF All
    <3>2. ASSUME NEW m \in All PROVE moduleLoad(m, forced).deps \subseteq All
      <4>1. m \in Modules /\ Reach[m] \subseteq All BY AllFacts
      <4> QED BY <2>1, <4>1, LoadFacts, CoreImportsFacts
    <3> QED BY <3>1, <3>2, AllFacts, NeededLeast
  <2>6. ctx' = c BY <1>2 DEF Start
  <2> QED BY <2>2, <2>4, <2>5, <2>6 DEF AllKnown
<1>3. BuildInv /\ AllKnown /\ [Next]_vars => AllKnown'
  <2> SUFFICES ASSUME BuildInv, AllKnown, [Next]_vars PROVE AllKnown' OBVIOUS
  <2>1. CASE \E s \in {"tcheck", "link"}, forced \in {{}, Roots} : Start(s, forced)
    BY <1>2, <2>1
  <2>2. CASE \E m \in Modules : Thread(m)
    <3>1. ctx' = ctx BY <2>2, ThreadInv DEF ThreadContext, Frame
    <3> QED BY <3>1 DEF AllKnown
  <2>3. CASE Finish
    <3>1. DOMAIN ctx' = DOMAIN ctx BY <2>3 DEF Finish, BuildInv, Types, Staged
    <3> QED BY <3>1 DEF AllKnown
  <2>4. CASE Restart
    <3>1. DOMAIN ctx' = {} BY <2>4, EmptyFacts DEF Restart
    <3> QED BY <3>1 DEF AllKnown
  <2>5. CASE UNCHANGED vars \/ \E m \in Modules, t \in Texts : Edit(m, t)
    BY <2>5 DEF vars, Edit, AllKnown
  <2> QED BY <2>1, <2>2, <2>3, <2>4, <2>5 DEF Next
<1> QED BY <1>1, <1>3, BuildInvariance, PTL DEF Spec
=============================================================================
