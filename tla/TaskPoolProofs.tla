--------------------------- MODULE TaskPoolProofs ---------------------------
(***************************************************************************)
(* Proofs about TaskPool for any number of threads and tasks, and for any  *)
(* program, those included that deadlock.                                  *)
(***************************************************************************)
EXTENDS TaskPool, FiniteSetTheorems, TLAPS

(* The part of TypeOK that the other invariants need.                      *)
Shape ==
  /\ prog \in [Bodies -> Seq(Ops)]
  /\ DOMAIN mode = Threads
  /\ pos \in [Bodies -> Nat \ {0}]

LEMMA InitShape == Init => Shape
BY PoolAssumption DEF Init, Shape

(* Positions stay positions when one of them is advanced.                  *)
LEMMA AdvancedPositions ==
  ASSUME NEW k, NEW p \in [Bodies -> Nat \ {0}]
  PROVE  [p EXCEPT ![k] = @ + 1] \in [Bodies -> Nat \ {0}]
<1>1. \A l \in Bodies : p[l] \in Nat /\ p[l] # 0 /\ p[l] + 1 \in Nat /\ p[l] + 1 # 0
  OBVIOUS
<1>2. [p EXCEPT ![k] = @ + 1] = [l \in Bodies |-> IF l = k THEN p[l] + 1 ELSE p[l]]
  OBVIOUS
<1>3. QED
  BY <1>1, <1>2

USE DEF Go, At, Advance, Signal

LEMMA NextShape == Shape /\ [Next]_vars => Shape'
<1> SUFFICES ASSUME Shape, [Next]_vars PROVE Shape'
  OBVIOUS
<1> USE DEF Shape
<1>1. CASE UNCHANGED vars
  BY <1>1 DEF vars
<1>2. ASSUME NEW t \in Threads, ThreadStep(t) \/ SpuriousWakeup(t)
      PROVE  Shape'
  <2>1. CASE Schedule(t) \/ Check(t)
    <3>1. CASE Schedule(t)
      <4>1. prog' = prog /\ DOMAIN mode' = Threads
        BY <3>1 DEF Schedule
      <4>2. pos' = [pos EXCEPT ![Current(t)] = @ + 1]
        BY <3>1 DEF Schedule
      <4>3. pos' \in [Bodies -> Nat \ {0}]
        BY <4>2, AdvancedPositions
      <4>4. QED
        BY <4>1, <4>3
    <3>2. CASE Check(t)
      BY <3>2 DEF Check
    <3>3. QED
      BY <2>1, <3>1, <3>2
  <2>2. CASE SignalTasks(t) \/ SignalPromise(t)
    BY <2>2 DEF SignalTasks, SignalPromise
  <2>3. CASE Await(t) \/ Help(t) \/ HelpNone(t) \/ Recheck(t) \/ SetResult(t)
    BY <2>3 DEF Await, Help, HelpNone, Recheck, SetResult, Dequeue
  <2>4. CASE WorkerDequeue(t) \/ WorkerWait(t) \/ Exit \/ SpuriousWakeup(t)
    BY <2>4 DEF WorkerDequeue, WorkerWait, Exit, SpuriousWakeup, Dequeue
  <2>5. QED
    BY <1>2, <2>1, <2>2, <2>3, <2>4 DEF ThreadStep
<1>3. QED
  BY <1>1, <1>2 DEF Next

-----------------------------------------------------------------------------
(* Each step leaves its own thread looking at the queue, or leaves the     *)
(* queue empty, or changes neither the queue nor who is looking.           *)
LEMMA NextWork == Shape /\ WorkNeverStranded /\ [Next]_vars => WorkNeverStranded'
<1> SUFFICES ASSUME Shape, WorkNeverStranded, [Next]_vars PROVE WorkNeverStranded'
  OBVIOUS
<1> USE DEF Shape, WorkNeverStranded, Looking
<1>1. CASE UNCHANGED vars
  BY <1>1 DEF vars
<1>2. ASSUME NEW t \in Threads, ThreadStep(t) \/ SpuriousWakeup(t)
      PROVE  WorkNeverStranded'
  <2>1. CASE \/ Schedule(t) \/ SignalTasks(t) \/ Await(t) \/ Check(t) \/ Help(t)
             \/ SetResult(t) \/ WorkerDequeue(t) \/ SpuriousWakeup(t)
    <3>1. mode'[t] \in {"signal_tasks", "run", "check", "help", "signal_promise", "idle"}
      <4>1. CASE Schedule(t)
        BY <4>1 DEF Schedule
      <4>2. CASE SignalTasks(t)
        BY <4>2 DEF SignalTasks
      <4>3. CASE Await(t) \/ Check(t) \/ Help(t) \/ SetResult(t)
        BY <4>3 DEF Await, Check, Help, SetResult, Dequeue
      <4>4. CASE WorkerDequeue(t) \/ SpuriousWakeup(t)
        BY <4>4 DEF WorkerDequeue, SpuriousWakeup, Dequeue
      <4>5. QED
        BY <2>1, <4>1, <4>2, <4>3, <4>4
    <3>2. QED
      BY <3>1
  <2>2. CASE SignalPromise(t)
    <3>1. mode'[t] \in {"idle", "check"}
      BY <2>2 DEF SignalPromise
    <3>2. QED
      BY <3>1
  <2>3. CASE HelpNone(t) \/ WorkerWait(t)
    BY <2>3 DEF HelpNone, WorkerWait
  <2>4. CASE Recheck(t)
    <3>1. \A u \in Threads : Looking(u) => mode'[u] = mode[u]
      BY <2>4 DEF Recheck
    <3>2. QED
      BY <2>4, <3>1 DEF Recheck
  <2>5. CASE Exit
    BY <2>5 DEF Exit, Threads
  <2>6. QED
    BY <1>2, <2>1, <2>2, <2>3, <2>4, <2>5 DEF ThreadStep
<1>3. QED
  BY <1>1, <1>2 DEF Next

LEMMA NextAwaits == Shape /\ AwaitsSatisfied /\ [Next]_vars => AwaitsSatisfied'
<1> SUFFICES ASSUME Shape, AwaitsSatisfied, [Next]_vars PROVE AwaitsSatisfied'
  OBVIOUS
<1> USE DEF Shape, AwaitsSatisfied
<1>1. CASE UNCHANGED <<prog, pos>> /\ result \subseteq result'
  BY <1>1
<1>2. ASSUME NEW t \in Threads, Advance(t), UNCHANGED <<prog, result>>,
             Op(t)[1] = "await" => Op(t)[2] \in result
      PROVE  AwaitsSatisfied'
  <2> SUFFICES ASSUME NEW k \in Bodies, NEW i \in 1..(pos'[k] - 1),
                      prog[k][i][1] = "await"
               PROVE  prog[k][i][2] \in result
    BY <1>2
  <2>1. CASE i \in 1..(pos[k] - 1)
    BY <2>1
  <2>2. CASE i \notin 1..(pos[k] - 1)
    <3>1. k = Current(t) /\ i = pos[k]
      BY <1>2, <2>2
    <3>2. QED
      BY <1>2, <3>1 DEF Op
  <2>3. QED
    BY <2>1, <2>2
<1>3. ASSUME NEW t \in Threads, ThreadStep(t) \/ SpuriousWakeup(t)
      PROVE  AwaitsSatisfied'
  <2>1. CASE Schedule(t)
    BY <1>2, <2>1 DEF Schedule
  <2>2. CASE Check(t) /\ Target(t) \in result
    BY <1>2, <2>2 DEF Check, Target
  <2>3. CASE Check(t) /\ Target(t) \notin result
    BY <1>1, <2>3 DEF Check
  <2>4. CASE \/ SignalTasks(t) \/ Await(t) \/ Help(t) \/ HelpNone(t) \/ Recheck(t)
             \/ SetResult(t) \/ SignalPromise(t)
    BY <1>1, <2>4 DEF SignalTasks, Await, Help, HelpNone, Recheck, SetResult, SignalPromise
  <2>5. CASE WorkerDequeue(t) \/ WorkerWait(t) \/ Exit \/ SpuriousWakeup(t)
    BY <1>1, <2>5 DEF WorkerDequeue, WorkerWait, Exit, SpuriousWakeup
  <2>6. QED
    BY <1>3, <2>1, <2>2, <2>3, <2>4, <2>5 DEF ThreadStep
<1>4. QED
  BY <1>1, <1>3 DEF Next, vars

-----------------------------------------------------------------------------
(* A thread that is in the middle of a task has it on its stack.           *)
Resting == {"idle", "wait_tasks", "exit"}
Running == \A t \in Threads : mode[t] \notin Resting => stack[t] # <<>>

(* The tasks whose operation "task" has been carried out.                  *)
Created ==
  {k \in Tasks : \E l \in Bodies : \E j \in DOMAIN prog[l] :
                   j < pos[l] /\ prog[l][j] = <<"task", k>>}

PlacesCreated ==
  /\ \A i \in DOMAIN queue : queue[i] \in Created
  /\ \A t \in Threads : \A i \in DOMAIN stack[t] : stack[t][i] \in Tasks => stack[t][i] \in Created
  /\ \A k \in result : k \in Created

PlacesDistinct ==
  /\ \A i, j \in DOMAIN queue : queue[i] = queue[j] => i = j
  /\ \A i \in DOMAIN queue, t \in Threads : \A j \in DOMAIN stack[t] : queue[i] # stack[t][j]
  /\ \A t, u \in Threads : \A i \in DOMAIN stack[t], j \in DOMAIN stack[u] :
       stack[t][i] = stack[u][j] => t = u /\ i = j

ResultsLeave ==
  /\ \A i \in DOMAIN queue : queue[i] \notin result
  /\ \A t \in Threads : \A i \in DOMAIN stack[t] :
       stack[t][i] \in result => i = 1 /\ mode[t] = "signal_promise"

Values ==
  /\ Shape
  /\ CreatedOnce(prog)
  /\ queue \in Seq(Tasks)
  /\ stack \in [Threads -> Seq(Bodies)]
  /\ result \in SUBSET Tasks

(* What makes TaskRunsOnce inductive: only a task that was created is      *)
(* anywhere, so that the task of the next "task" operation is nowhere.     *)
Places == Values /\ Running /\ PlacesCreated /\ PlacesDistinct /\ ResultsLeave

LEMMA PushIndices ==
  ASSUME NEW S, NEW s \in Seq(S), NEW x \in S
  PROVE  /\ <<x>> \o s \in Seq(S) /\ <<x>> \o s # <<>>
         /\ \A i \in DOMAIN (<<x>> \o s) :
              \/ i = 1 /\ (<<x>> \o s)[i] = x
              \/ i # 1 /\ i - 1 \in DOMAIN s /\ (<<x>> \o s)[i] = s[i - 1]
<1>1. Len(<<x>> \o s) = Len(s) + 1 /\ <<x>> \o s \in Seq(S)
  OBVIOUS
<1>2. (<<x>> \o s)[1] = x
  OBVIOUS
<1>3. \A i \in 2..(Len(s) + 1) : (<<x>> \o s)[i] = s[i - 1]
  OBVIOUS
<1>4. QED
  BY <1>1, <1>2, <1>3

LEMMA TailIndices ==
  ASSUME NEW S, NEW s \in Seq(S), s # <<>>
  PROVE  /\ Tail(s) \in Seq(S)
         /\ \A i \in DOMAIN Tail(s) : i + 1 \in DOMAIN s /\ i # 0 /\ Tail(s)[i] = s[i + 1]
OBVIOUS

LEMMA AppendIndices ==
  ASSUME NEW S, NEW s \in Seq(S), NEW x \in S
  PROVE  /\ Append(s, x) \in Seq(S)
         /\ \A i \in DOMAIN Append(s, x) :
              \/ i = Len(s) + 1 /\ i \notin DOMAIN s /\ Append(s, x)[i] = x
              \/ i \in DOMAIN s /\ Append(s, x)[i] = s[i]
OBVIOUS

LEMMA InitPlaces == Init => Places
<1> SUFFICES ASSUME Init PROVE Places
  OBVIOUS
<1>1. Values
  <2>1. CreatedOnce(prog) /\ Shape
    BY InitShape, PoolAssumption DEF Init
  <2>2. <<Root>> \in Seq(Bodies)
    BY DEF Bodies
  <2>3. stack \in [Threads -> Seq(Bodies)]
    BY <2>2 DEF Init
  <2>4. QED
    BY <2>1, <2>3 DEF Init, Values
<1>2. Running /\ PlacesCreated /\ ResultsLeave
  BY PoolAssumption DEF Init, Running, Resting, PlacesCreated, ResultsLeave, Threads
<1>3. PlacesDistinct
  BY DEF Init, PlacesDistinct
<1>4. QED
  BY <1>1, <1>2, <1>3 DEF Places

LEMMA CreatedAt ==
  ASSUME NEW p, CreatedOnce(p), NEW x \in Bodies, NEW i \in DOMAIN p[x],
         NEW y \in Bodies, NEW j \in DOMAIN p[y], p[x][i][1] = "task", p[y][j] = p[x][i]
  PROVE  x = y /\ i = j
BY DEF CreatedOnce

(* What is created stays created.                                          *)
LEMMA CreatedStays ==
  ASSUME Shape, prog' = prog, \A l \in Bodies : pos'[l] \in Nat /\ pos[l] <= pos'[l]
  PROVE  Created \subseteq Created'
BY DEF Shape, Created

LEMMA AdvanceGrows ==
  ASSUME Shape, NEW t, Advance(t)
  PROVE  \A l \in Bodies : pos'[l] \in Nat /\ pos[l] <= pos'[l]
<1> SUFFICES ASSUME NEW l \in Bodies PROVE pos'[l] \in Nat /\ pos[l] <= pos'[l]
  OBVIOUS
<1>1. pos[l] \in Nat /\ l \in DOMAIN pos
  BY DEF Shape
<1>2. pos' = [pos EXCEPT ![Current(t)] = @ + 1]
  OBVIOUS
<1>3. pos'[l] = IF l = Current(t) THEN pos[l] + 1 ELSE pos[l]
  BY <1>1, <1>2
<1>4. QED
  BY <1>1, <1>3

(* Steps that move no task.                                                *)
LEMMA StayPlaces ==
  ASSUME Places, Shape', UNCHANGED <<prog, queue, stack, result>>,
         \A l \in Bodies : pos'[l] \in Nat /\ pos[l] <= pos'[l],
         \A u \in Threads : mode[u] \in Resting => mode'[u] \in Resting,
         \A u \in Threads : At(u, "signal_promise") => mode'[u] = "signal_promise"
  PROVE  Places'
<1>1. Values'
  BY DEF Places, Values, CreatedOnce
<1>2. Running'
  BY DEF Places, Running
<1>3. PlacesCreated'
  BY CreatedStays DEF Places, Values, PlacesCreated
<1>4. PlacesDistinct' /\ ResultsLeave'
  BY DEF Places, PlacesDistinct, ResultsLeave
<1>5. QED
  BY <1>1, <1>2, <1>3, <1>4 DEF Places

(* The task that a thread creates was nowhere before.                      *)
LEMMA SchedulePlaces ==
  ASSUME Places, Shape', NEW t \in Threads, Schedule(t)
  PROVE  Places'
<1> DEFINE k == Target(t)
<1> USE DEF Places, Values
<1>1. stack[t] # <<>> /\ 1 \in DOMAIN stack[t] /\ Current(t) = stack[t][1] /\ Current(t) \in Bodies
  <2>1. stack[t] # <<>> /\ stack[t] \in Seq(Bodies)
    BY DEF Running, Resting, Schedule
  <2>2. QED
    BY <2>1 DEF Current
<1>2. pos[Current(t)] \in DOMAIN prog[Current(t)] /\ Op(t) \in Ops /\ Op(t) = <<"task", k>> /\ k \in Tasks
  <2>1. pos[Current(t)] \in DOMAIN prog[Current(t)]
    BY <1>1 DEF Schedule, Finished, Shape
  <2>2. Op(t) \in Ops
    BY <1>1, <2>1 DEF Op, Shape
  <2>3. QED
    BY <2>1, <2>2 DEF Ops, Schedule, Target
<1>3. k \notin Created
  <2>1. SUFFICES ASSUME NEW l \in Bodies, NEW j \in DOMAIN prog[l],
                        j < pos[l], prog[l][j] = <<"task", k>>
                 PROVE  FALSE
    BY DEF Created
  <2>2. /\ prog[Current(t)][pos[Current(t)]] = <<"task", k>>
        /\ prog[Current(t)][pos[Current(t)]][1] = "task"
    BY <1>2 DEF Op
  <2> HIDE DEF k
  <2>3. Current(t) = l /\ pos[Current(t)] = j
    <3>1. prog[l][j] = prog[Current(t)][pos[Current(t)]] /\ CreatedOnce(prog)
      BY <2>1, <2>2
    <3>2. Current(t) \in Bodies /\ pos[Current(t)] \in DOMAIN prog[Current(t)]
      BY <1>1, <1>2
    <3> HIDE DEF Places, Values
    <3>3. QED
      BY <2>2, <3>1, <3>2, CreatedAt
  <2>4. pos[l] \in Nat
    BY DEF Shape
  <2>5. QED
    BY <2>1, <2>3, <2>4
<1>4. k \in Created'
  <2>1. prog' = prog /\ Advance(t)
    BY DEF Schedule
  <2>2. pos'[Current(t)] = pos[Current(t)] + 1 /\ pos[Current(t)] \in Nat
    BY <1>1, <2>1 DEF Shape
  <2>3. prog[Current(t)][pos[Current(t)]] = <<"task", k>>
    BY <1>2 DEF Op
  <2>4. QED
    <3>1. pos[Current(t)] \in DOMAIN prog'[Current(t)] /\ pos[Current(t)] < pos'[Current(t)]
      BY <1>2, <2>1, <2>2
    <3>2. prog'[Current(t)][pos[Current(t)]] = <<"task", k>>
      BY <2>1, <2>3
    <3> HIDE DEF k
    <3>3. \E l \in Bodies : \E j \in DOMAIN prog'[l] : j < pos'[l] /\ prog'[l][j] = <<"task", k>>
      BY <1>1, <3>1, <3>2
    <3>4. QED
      BY <1>2, <3>3 DEF Created, k
<1>5. Created \subseteq Created'
  <2>1. prog' = prog /\ Advance(t)
    BY DEF Schedule
  <2>2. QED
    BY <2>1, AdvanceGrows, CreatedStays
<1>6. queue' = Append(queue, k) /\ stack' = stack /\ result' = result /\ prog' = prog
  BY DEF Schedule
<1>7. /\ queue' \in Seq(Tasks)
      /\ \A i \in DOMAIN queue' : \/ i = Len(queue) + 1 /\ i \notin DOMAIN queue /\ queue'[i] = k
                                  \/ i \in DOMAIN queue /\ queue'[i] = queue[i]
  BY <1>2, <1>6, AppendIndices
<1> HIDE DEF k
<1>8. Values'
  BY <1>6, <1>7 DEF CreatedOnce
<1>9. Running'
  BY <1>1, <1>6 DEF Running, Resting, Schedule, Shape
<1>10. PlacesCreated'
  <2>1. \A i \in DOMAIN queue' : queue'[i] \in Created'
    BY <1>4, <1>5, <1>7 DEF PlacesCreated
  <2>2. QED
    BY <1>5, <1>6, <2>1 DEF PlacesCreated
<1>11. PlacesDistinct'
  <2>1. \A i, j \in DOMAIN queue' : queue'[i] = queue'[j] => i = j
    BY <1>3, <1>7 DEF PlacesDistinct, PlacesCreated
  <2>2. \A i \in DOMAIN queue', u \in Threads : \A j \in DOMAIN stack'[u] : queue'[i] # stack'[u][j]
    BY <1>2, <1>3, <1>6, <1>7 DEF PlacesDistinct, PlacesCreated
  <2>3. QED
    BY <1>6, <2>1, <2>2 DEF PlacesDistinct
<1>12. ResultsLeave'
  <2>1. \A i \in DOMAIN queue' : queue'[i] \notin result'
    BY <1>3, <1>6, <1>7 DEF ResultsLeave, PlacesCreated
  <2>2. mode[t] # "signal_promise" /\ mode' = [mode EXCEPT ![t] = "signal_tasks"]
    BY DEF Schedule
  <2>3. QED
    BY <1>6, <2>1, <2>2 DEF ResultsLeave, Shape
<1>13. QED
  BY <1>8, <1>9, <1>10, <1>11, <1>12

(* The first task of the queue moves to the stack of the thread.           *)
LEMMA DequeuePlaces ==
  ASSUME Places, Shape', NEW t \in Threads, Dequeue(t), UNCHANGED <<prog, result, pos>>,
         mode[t] \in {"idle", "help"}
  PROVE  Places'
<1> DEFINE k == Head(queue)
<1> USE DEF Places, Values
<1>1. queue \in Seq(Tasks) /\ queue # <<>> /\ 1 \in DOMAIN queue /\ k = queue[1] /\ k \in Tasks /\ k \in Bodies
  BY DEF Dequeue, Bodies
<1>2. /\ queue' \in Seq(Tasks)
      /\ \A i \in DOMAIN queue' : i + 1 \in DOMAIN queue /\ i # 0 /\ queue'[i] = queue[i + 1]
  BY <1>1, TailIndices DEF Dequeue
<1>3. stack[t] \in Seq(Bodies) /\ stack' = [stack EXCEPT ![t] = <<k>> \o @]
  BY DEF Dequeue
<1>4. /\ <<k>> \o stack[t] \in Seq(Bodies) /\ <<k>> \o stack[t] # <<>>
      /\ \A i \in DOMAIN (<<k>> \o stack[t]) :
           \/ i = 1 /\ (<<k>> \o stack[t])[i] = k
           \/ i # 1 /\ i - 1 \in DOMAIN stack[t] /\ (<<k>> \o stack[t])[i] = stack[t][i - 1]
  BY <1>1, <1>3, PushIndices
<1>5. /\ stack' \in [Threads -> Seq(Bodies)]
      /\ stack'[t] = <<k>> \o stack[t]
      /\ \A u \in Threads : u # t => stack'[u] = stack[u]
  BY <1>3, <1>4
<1>6. \A u \in Threads : \A i \in DOMAIN stack'[u] :
        \/ u = t /\ i = 1 /\ stack'[u][i] = k
        \/ u = t /\ i # 1 /\ i - 1 \in DOMAIN stack[u] /\ stack'[u][i] = stack[u][i - 1]
        \/ u # t /\ i \in DOMAIN stack[u] /\ stack'[u][i] = stack[u][i]
  BY <1>4, <1>5
<1>7. prog' = prog /\ result' = result /\ pos' = pos /\ mode' = [mode EXCEPT ![t] = "run"]
  BY DEF Dequeue
<1>8. stack'[t] # <<>>
  BY <1>4, <1>5
<1> HIDE DEF k
<1>9. Values'
  BY <1>2, <1>5, <1>7 DEF CreatedOnce
<1>10. Running'
  BY <1>5, <1>7, <1>8 DEF Running, Resting, Shape
<1>11. PlacesCreated'
  <2>1. Created \subseteq Created'
    BY <1>7 DEF Created
  <2>2. \A i \in DOMAIN queue' : queue'[i] \in Created
    BY <1>2 DEF PlacesCreated
  <2>3. \A u \in Threads : \A i \in DOMAIN stack'[u] : stack'[u][i] \in Tasks => stack'[u][i] \in Created
    BY <1>1, <1>6 DEF PlacesCreated
  <2>4. QED
    BY <1>7, <2>1, <2>2, <2>3 DEF PlacesCreated
<1>12. PlacesDistinct'
  <2>1. \A i, j \in DOMAIN queue' : queue'[i] = queue'[j] => i = j
    <3> SUFFICES ASSUME NEW i \in DOMAIN queue', NEW j \in DOMAIN queue', queue'[i] = queue'[j]
                 PROVE  i = j
      OBVIOUS
    <3>1. i + 1 = j + 1
      BY <1>2 DEF PlacesDistinct
    <3>2. i \in Int /\ j \in Int
      BY <1>2
    <3>3. QED
      BY <3>1, <3>2
  <2>2. \A i \in DOMAIN queue' : queue'[i] # k /\ \A u \in Threads : \A j \in DOMAIN stack[u] : queue'[i] # stack[u][j]
    <3> SUFFICES ASSUME NEW i \in DOMAIN queue'
                 PROVE  /\ queue'[i] # k
                        /\ \A u \in Threads : \A j \in DOMAIN stack[u] : queue'[i] # stack[u][j]
      OBVIOUS
    <3>1. i \in Nat /\ i # 0 /\ i + 1 # 1 /\ i + 1 \in DOMAIN queue /\ queue'[i] = queue[i + 1]
      BY <1>2
    <3>2. QED
      BY <1>1, <3>1 DEF PlacesDistinct
  <2>3. \A i \in DOMAIN queue', u \in Threads : \A j \in DOMAIN stack'[u] : queue'[i] # stack'[u][j]
    BY <1>6, <2>2
  <2>4. \A u \in Threads : \A j \in DOMAIN stack[u] : stack[u][j] # k
    BY <1>1 DEF PlacesDistinct
  <2>5. \A u, v \in Threads : \A i \in DOMAIN stack'[u], j \in DOMAIN stack'[v] :
          stack'[u][i] = stack'[v][j] => u = v /\ i = j
    <3> SUFFICES ASSUME NEW u \in Threads, NEW v \in Threads,
                        NEW i \in DOMAIN stack'[u], NEW j \in DOMAIN stack'[v],
                        stack'[u][i] = stack'[v][j]
                 PROVE  u = v /\ i = j
      OBVIOUS
    <3>1. i \in Int /\ j \in Int
      BY <1>5
    <3>2. CASE u # t \/ v # t \/ i = 1 \/ j = 1
      BY <1>6, <2>4, <3>2 DEF PlacesDistinct
    <3>3. CASE u = t /\ v = t /\ i # 1 /\ j # 1
      <4>1. i - 1 = j - 1
        BY <1>6, <3>3 DEF PlacesDistinct
      <4>2. QED
        BY <3>1, <3>3, <4>1
    <3>4. QED
      BY <3>2, <3>3
  <2>6. QED
    BY <2>1, <2>3, <2>5 DEF PlacesDistinct
<1>13. ResultsLeave'
  <2>1. \A i \in DOMAIN queue' : queue'[i] \notin result'
    BY <1>2, <1>7 DEF ResultsLeave
  <2>2. k \notin result'
    BY <1>1, <1>7 DEF ResultsLeave
  <2>3. \A i \in DOMAIN stack[t] : stack[t][i] \notin result'
    BY <1>7 DEF ResultsLeave
  <2>4. \A u \in Threads : u # t => mode'[u] = mode[u]
    BY <1>7 DEF Shape
  <2>5. \A u \in Threads : \A i \in DOMAIN stack'[u] :
          stack'[u][i] \in result' => i = 1 /\ mode'[u] = "signal_promise"
    BY <1>6, <1>7, <2>2, <2>3, <2>4 DEF ResultsLeave
  <2>6. QED
    BY <2>1, <2>5 DEF ResultsLeave
<1>14. QED
  BY <1>9, <1>10, <1>11, <1>12, <1>13

LEMMA SetResultPlaces ==
  ASSUME Places, Shape', NEW t \in Threads, SetResult(t)
  PROVE  Places'
<1> USE DEF Places, Values
<1>1. stack[t] # <<>> /\ 1 \in DOMAIN stack[t] /\ Current(t) = stack[t][1] /\ Current(t) \in Tasks
  BY DEF Running, Resting, SetResult, Current, Bodies
<1>2. UNCHANGED <<prog, queue, pos, stack>> /\ result' = result \cup {Current(t)}
  BY DEF SetResult
<1>3. mode[t] = "run" /\ mode' = [mode EXCEPT ![t] = "signal_promise"]
  BY DEF SetResult
<1>4. Values'
  BY <1>1, <1>2 DEF CreatedOnce
<1>5. Running'
  BY <1>1, <1>2, <1>3 DEF Running, Shape
<1>6. PlacesCreated'
  <2>1. Current(t) \in Created
    BY <1>1 DEF PlacesCreated
  <2>2. Created \subseteq Created'
    BY <1>2 DEF Created
  <2>3. QED
    BY <1>2, <2>1, <2>2 DEF PlacesCreated
<1>7. PlacesDistinct'
  BY <1>2 DEF PlacesDistinct
<1>8. ResultsLeave'
  <2>1. \A i \in DOMAIN queue' : queue'[i] \notin result'
    BY <1>1, <1>2 DEF ResultsLeave, PlacesDistinct
  <2>2. \A u \in Threads : u # t => mode'[u] = mode[u]
    BY <1>3 DEF Shape
  <2>3. mode'[t] = "signal_promise"
    BY <1>3 DEF Shape
  <2>4. \A u \in Threads : \A i \in DOMAIN stack[u] :
          stack[u][i] \in result' => i = 1 /\ mode'[u] = "signal_promise"
    <3> SUFFICES ASSUME NEW u \in Threads, NEW i \in DOMAIN stack[u], stack[u][i] \in result'
                 PROVE  i = 1 /\ mode'[u] = "signal_promise"
      OBVIOUS
    <3>1. CASE stack[u][i] = Current(t)
      BY <1>1, <2>3, <3>1 DEF PlacesDistinct
    <3>2. CASE stack[u][i] \in result
      BY <1>3, <2>2, <3>2 DEF ResultsLeave
    <3>3. QED
      BY <1>2, <3>1, <3>2
  <2>5. QED
    BY <1>2, <2>1, <2>4 DEF ResultsLeave
<1>9. QED
  BY <1>4, <1>5, <1>6, <1>7, <1>8

LEMMA SignalPromisePlaces ==
  ASSUME Places, Shape', NEW t \in Threads, SignalPromise(t)
  PROVE  Places'
<1> USE DEF Places, Values
<1>1. mode[t] = "signal_promise" /\ stack[t] # <<>> /\ stack[t] \in Seq(Bodies)
  BY DEF Running, Resting, SignalPromise
<1>2. UNCHANGED <<prog, queue, result, pos>> /\ stack' = [stack EXCEPT ![t] = Tail(@)]
  BY DEF SignalPromise
<1>3. /\ Tail(stack[t]) \in Seq(Bodies)
      /\ \A i \in DOMAIN Tail(stack[t]) :
           i + 1 \in DOMAIN stack[t] /\ i # 0 /\ Tail(stack[t])[i] = stack[t][i + 1]
  BY <1>1, TailIndices
<1>4. /\ stack' \in [Threads -> Seq(Bodies)] /\ stack'[t] = Tail(stack[t])
      /\ \A u \in Threads : u # t => stack'[u] = stack[u]
  BY <1>2, <1>3
<1>5. \A u \in Threads : \A i \in DOMAIN stack'[u] :
        \/ u = t /\ i # 0 /\ i + 1 \in DOMAIN stack[u] /\ stack'[u][i] = stack[u][i + 1]
        \/ u # t /\ i \in DOMAIN stack[u] /\ stack'[u][i] = stack[u][i]
  BY <1>3, <1>4
<1>6. /\ mode'[t] = IF Tail(stack[t]) = <<>> THEN "idle" ELSE "check"
      /\ \A u \in Threads : u # t => \/ mode'[u] = mode[u]
                                     \/ mode[u] = "wait" /\ mode'[u] = "check"
  BY <1>1 DEF SignalPromise, Waiting, Shape
<1>7. Values'
  BY <1>2, <1>4 DEF CreatedOnce
<1>8. Running'
  BY <1>4, <1>6 DEF Running, Resting
<1>9. PlacesCreated'
  <2>1. Created \subseteq Created'
    BY <1>2 DEF Created
  <2>2. QED
    BY <1>2, <1>5, <2>1 DEF PlacesCreated
<1>10. PlacesDistinct'
  <2>1. \A i \in DOMAIN queue, u \in Threads : \A j \in DOMAIN stack'[u] : queue[i] # stack'[u][j]
    BY <1>5 DEF PlacesDistinct
  <2>2. \A u, v \in Threads : \A i \in DOMAIN stack'[u], j \in DOMAIN stack'[v] :
          stack'[u][i] = stack'[v][j] => u = v /\ i = j
    <3> SUFFICES ASSUME NEW u \in Threads, NEW v \in Threads,
                        NEW i \in DOMAIN stack'[u], NEW j \in DOMAIN stack'[v],
                        stack'[u][i] = stack'[v][j]
                 PROVE  u = v /\ i = j
      OBVIOUS
    <3>1. i \in Int /\ j \in Int
      BY <1>4
    <3>2. CASE u # t \/ v # t
      BY <1>5, <3>2 DEF PlacesDistinct
    <3>3. CASE u = t /\ v = t
      <4>1. i + 1 = j + 1
        BY <1>5, <3>3 DEF PlacesDistinct
      <4>2. QED
        BY <3>1, <3>3, <4>1
    <3>4. QED
      BY <3>2, <3>3
  <2>3. QED
    BY <1>2, <2>1, <2>2 DEF PlacesDistinct
<1>11. ResultsLeave'
  <2>1. \A i \in DOMAIN queue' : queue'[i] \notin result'
    BY <1>2 DEF ResultsLeave
  <2>2. \A u \in Threads : \A i \in DOMAIN stack'[u] :
          stack'[u][i] \in result' => i = 1 /\ mode'[u] = "signal_promise"
    <3> SUFFICES ASSUME NEW u \in Threads, NEW i \in DOMAIN stack'[u], stack'[u][i] \in result
                 PROVE  i = 1 /\ mode'[u] = "signal_promise"
      BY <1>2
    <3>1. u # t
      <4>1. SUFFICES ASSUME u = t PROVE FALSE
        OBVIOUS
      <4>2. i \in Int /\ i # 0 /\ i + 1 \in DOMAIN stack[t] /\ stack[t][i + 1] \in result
        BY <1>4, <1>5, <4>1
      <4>3. i + 1 = 1
        BY <4>2 DEF ResultsLeave
      <4>4. QED
        BY <4>2, <4>3
    <3>2. QED
      BY <1>5, <1>6, <3>1 DEF ResultsLeave
  <2>3. QED
    BY <2>1, <2>2 DEF ResultsLeave
<1>12. QED
  BY <1>7, <1>8, <1>9, <1>10, <1>11

LEMMA NextPlaces == Places /\ [Next]_vars => Places'
<1> SUFFICES ASSUME Places, [Next]_vars PROVE Places'
  OBVIOUS
<1>1. Shape /\ Shape'
  BY NextShape DEF Places, Values
<1>2. \A l \in Bodies : pos[l] \in Nat /\ pos[l] <= pos[l]
  BY <1>1 DEF Shape
<1>3. CASE UNCHANGED vars
  BY <1>1, <1>2, <1>3, StayPlaces DEF vars
<1>4. ASSUME NEW t \in Threads, ThreadStep(t) \/ SpuriousWakeup(t)
      PROVE  Places'
  <2>1. CASE Schedule(t)
    BY <1>1, <2>1, SchedulePlaces
  <2>2. CASE Help(t) \/ WorkerDequeue(t)
    BY <1>1, <2>2, DequeuePlaces DEF Help, WorkerDequeue
  <2>3. CASE SetResult(t)
    BY <1>1, <2>3, SetResultPlaces
  <2>4. CASE SignalPromise(t)
    BY <1>1, <2>4, SignalPromisePlaces
  <2>5. CASE Check(t)
    <3>1. \A l \in Bodies : pos'[l] \in Nat /\ pos[l] <= pos'[l]
      BY <1>1, <1>2, <2>5, AdvanceGrows DEF Check
    <3>2. UNCHANGED <<prog, queue, stack, result>>
      BY <2>5 DEF Check
    <3>3. /\ mode[t] = "check"
          /\ \A u \in Threads : u # t => mode'[u] = mode[u]
      BY <1>1, <2>5 DEF Check, Shape
    <3>4. QED
      BY <1>1, <3>1, <3>2, <3>3, StayPlaces DEF Resting
  <2>6. CASE \/ SignalTasks(t) \/ Await(t) \/ HelpNone(t) \/ Recheck(t)
             \/ WorkerWait(t) \/ Exit \/ SpuriousWakeup(t)
    <3> DEFINE Quiet == /\ UNCHANGED <<prog, queue, stack, result>>
                        /\ \A l \in Bodies : pos'[l] \in Nat /\ pos[l] <= pos'[l]
                        /\ \A u \in Threads : mode[u] \in Resting => mode'[u] \in Resting
                        /\ \A u \in Threads : At(u, "signal_promise") => mode'[u] = "signal_promise"
    <3> USE <1>1, <1>2 DEF Shape, Resting
    <3>1. SignalTasks(t) => Quiet
      BY DEF SignalTasks
    <3>2. Await(t) => Quiet
      BY DEF Await
    <3>3. HelpNone(t) => Quiet
      BY DEF HelpNone
    <3>4. Recheck(t) => Quiet
      BY DEF Recheck
    <3>5. WorkerWait(t) => Quiet
      BY DEF WorkerWait
    <3>6. Exit => Quiet
      BY DEF Exit
    <3>7. SpuriousWakeup(t) => Quiet
      BY DEF SpuriousWakeup
    <3>8. Quiet
      BY <2>6, <3>1, <3>2, <3>3, <3>4, <3>5, <3>6, <3>7
    <3>9. QED
      BY <3>8, StayPlaces
  <2>7. QED
    BY <1>4, <2>1, <2>2, <2>3, <2>4, <2>5, <2>6 DEF ThreadStep
<1>5. QED
  BY <1>3, <1>4 DEF Next

(* Places that are distinct are at most one, and none that matters has a   *)
(* result.                                                                 *)
LEMMA PlacesOnce == Places => TaskRunsOnce
<1> SUFFICES ASSUME Places, NEW k \in Tasks
             PROVE  /\ Cardinality(Queued(k)) + Cardinality(Stacked(k)) <= 1
                    /\ k \in result =>
                         /\ Queued(k) = {}
                         /\ \A place \in Stacked(k) : place[2] = 1 /\ At(place[1], "signal_promise")
  BY DEF TaskRunsOnce
<1> USE DEF Places
<1>1. \A p : p \in Stacked(k) <=> \E t \in Threads : \E i \in DOMAIN stack[t] :
                                    stack[t][i] = k /\ p = <<t, i>>
  BY DEF Stacked
<1>2. \A i, j \in Queued(k) : i = j
  BY DEF Queued, PlacesDistinct
<1>3. \A p, q \in Stacked(k) : p = q
  BY <1>1 DEF PlacesDistinct
<1>4. Queued(k) = {} \/ Stacked(k) = {}
  BY <1>1 DEF Queued, PlacesDistinct
<1>5. Cardinality(Queued(k)) \in {0, 1} /\ (Queued(k) = {} => Cardinality(Queued(k)) = 0)
  <2>1. Queued(k) = {} \/ \E i : Queued(k) = {i}
    BY <1>2
  <2>2. QED
    BY <2>1, FS_EmptySet, FS_Singleton
<1>6. Cardinality(Stacked(k)) \in {0, 1} /\ (Stacked(k) = {} => Cardinality(Stacked(k)) = 0)
  <2>1. Stacked(k) = {} \/ \E p : Stacked(k) = {p}
    BY <1>3
  <2>2. QED
    BY <2>1, FS_EmptySet, FS_Singleton
<1>7. Cardinality(Queued(k)) + Cardinality(Stacked(k)) <= 1
  BY <1>4, <1>5, <1>6
<1>8. k \in result =>
        /\ Queued(k) = {}
        /\ \A place \in Stacked(k) : place[2] = 1 /\ At(place[1], "signal_promise")
  BY <1>1 DEF Queued, ResultsLeave
<1>9. QED
  BY <1>7, <1>8

-----------------------------------------------------------------------------
(* However many tasks wait, and whichever deadlock their awaits form, a    *)
(* task that is in the queue is not left to sleeping threads.              *)
THEOREM WorkSafe == Spec => []WorkNeverStranded
<1>1. Init => Shape /\ WorkNeverStranded
  BY InitShape DEF Init, WorkNeverStranded
<1>2. Shape /\ WorkNeverStranded /\ [Next]_vars => (Shape /\ WorkNeverStranded)'
  BY NextShape, NextWork
<1>3. QED
  BY <1>1, <1>2, PTL DEF Spec

(* No task continues after an await whose promise has no result.           *)
THEOREM AwaitsSafe == Spec => []AwaitsSatisfied
<1>1. Init => Shape /\ AwaitsSatisfied
  BY InitShape DEF Init, AwaitsSatisfied
<1>2. Shape /\ AwaitsSatisfied /\ [Next]_vars => (Shape /\ AwaitsSatisfied)'
  BY NextShape, NextAwaits
<1>3. QED
  BY <1>1, <1>2, PTL DEF Spec

(* Each task that is created is run by one thread, once, whichever threads *)
(* help while they wait.                                                   *)
THEOREM RunsOnceSafe == Spec => []TaskRunsOnce
<1>1. Places /\ [Next]_vars => Places'
  BY NextPlaces
<1>2. QED
  BY InitPlaces, <1>1, PlacesOnce, PTL DEF Spec
=============================================================================
