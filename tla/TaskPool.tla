------------------------------ MODULE TaskPool ------------------------------
(***************************************************************************)
(* Parallel tasks and promises (kklib/src/thread.c; lib/std/os/task.kk).   *)
(* Worker threads take tasks from one queue.  A thread that awaits a       *)
(* promise which has no result runs other tasks of the queue on top of the *)
(* task that waits, and sleeps on the promise when the queue is empty.     *)
(*                                                                         *)
(* Code between lock and unlock is one step; signals come after unlocking  *)
(* and are steps of their own.  A task is a list of operations: to create  *)
(* another task or to await its promise.  A promise has the name of its    *)
(* task.                                                                   *)
(***************************************************************************)
EXTENDS Integers, Sequences, FiniteSets

CONSTANTS
  Workers,    (* the threads of the pool                                   *)
  Main,       (* the main thread                                           *)
  Tasks,      (* tasks                                                     *)
  Root,       (* what the main thread runs; not a task                     *)
  Programs,   (* the programs to run: [Tasks \cup {Root} -> operations]    *)
  Spurious    (* whether waiting threads may wake without a signal         *)

Threads == Workers \cup {Main}
Bodies  == Tasks \cup {Root}

Ops == {"task", "await"} \X Tasks

(* kk_task_alloc makes a new task each time: no two operations of a        *)
(* program create the same one.                                            *)
CreatedOnce(p) ==
  \A k, l \in Bodies : \A i \in DOMAIN p[k], j \in DOMAIN p[l] :
    p[k][i][1] = "task" /\ p[l][j] = p[k][i] => <<k, i>> = <<l, j>>

ASSUME PoolAssumption ==
  /\ Main \notin Workers /\ Root \notin Tasks
  /\ \A p \in Programs : p \in [Bodies -> Seq(Ops)] /\ CreatedOnce(p)

VARIABLES
  prog,       (* the program; never changes                                *)
  queue,      (* tasks_group.tasks                                         *)
  result,     (* the promises that have a result                           *)
  stack,      (* per thread: the tasks on its stack, the running one first *)
  pos,        (* per task: its next operation                              *)
  mode        (* per thread: what it is doing                              *)

vars == <<prog, queue, result, stack, pos, mode>>

Init ==
  /\ prog \in Programs
  /\ queue  = <<>>
  /\ result = {}
  /\ stack  = [t \in Threads |-> IF t = Main THEN <<Root>> ELSE <<>>]
  /\ pos    = [k \in Bodies |-> 1]
  /\ mode   = [t \in Threads |-> IF t = Main THEN "run" ELSE "idle"]

Current(t)  == Head(stack[t])
Finished(t) == pos[Current(t)] > Len(prog[Current(t)])
Op(t)       == prog[Current(t)][pos[Current(t)]]
Target(t)   == Op(t)[2]
At(t, m)    == mode[t] = m
Go(t, m)    == mode' = [mode EXCEPT ![t] = m]
Advance(t)  == pos' = [pos EXCEPT ![Current(t)] = @ + 1]

(* pthread_cond_signal: one of the threads waiting for the condition, if   *)
(* there is one, goes on; t itself continues at m.                         *)
Signal(t, m, waiting, woken) ==
  \/ waiting = {} /\ Go(t, m)
  \/ \E w \in waiting : mode' = [mode EXCEPT ![t] = m, ![w] = woken]

-----------------------------------------------------------------------------
(* kk_task_schedule: the task is queued, then the pool is signalled.       *)
Schedule(t) ==
  /\ At(t, "run") /\ ~Finished(t) /\ Op(t)[1] = "task"
  /\ queue' = Append(queue, Target(t))
  /\ Advance(t)
  /\ Go(t, "signal_tasks")
  /\ UNCHANGED <<prog, result, stack>>

SignalTasks(t) ==
  /\ At(t, "signal_tasks")
  /\ Signal(t, "run", {w \in Workers : At(w, "wait_tasks")}, "idle")
  /\ UNCHANGED <<prog, queue, result, stack, pos>>

Dequeue(t) ==
  /\ queue # <<>>
  /\ queue' = Tail(queue)
  /\ stack' = [stack EXCEPT ![t] = <<Head(queue)>> \o @]
  /\ Go(t, "run")

(* Faulty: the task stays in the queue until it has been run.              *)
WorkerDequeue_Peek(w) ==
  /\ At(w, "idle") /\ queue # <<>>
  /\ stack' = [stack EXCEPT ![w] = <<Head(queue)>> \o @]
  /\ Go(w, "run")
  /\ UNCHANGED <<prog, queue, result, pos>>

(* kk_task_group_worker                                                    *)
WorkerDequeue(w) ==
  /\ At(w, "idle")
  /\ Dequeue(w)
  /\ UNCHANGED <<prog, result, pos>>

WorkerWait(w) ==
  /\ At(w, "idle") /\ queue = <<>>
  /\ Go(w, "wait_tasks")
  /\ UNCHANGED <<prog, queue, result, stack, pos>>

-----------------------------------------------------------------------------
(* kk_promise_get                                                          *)
Await(t) ==
  /\ At(t, "run") /\ ~Finished(t) /\ Op(t)[1] = "await"
  /\ Go(t, "check")
  /\ UNCHANGED <<prog, queue, result, stack, pos>>

Check(t) ==
  /\ At(t, "check")
  /\ IF Target(t) \in result THEN Advance(t) /\ Go(t, "run")
     ELSE Go(t, "help") /\ UNCHANGED pos
  /\ UNCHANGED <<prog, queue, result, stack>>

Help(t) ==
  /\ At(t, "help")
  /\ Dequeue(t)
  /\ UNCHANGED <<prog, result, pos>>

(* Faulty: a thread sleeps although the queue is not empty.                *)
HelpNone_Unguarded(t) ==
  /\ At(t, "help")
  /\ Go(t, "recheck")
  /\ UNCHANGED <<prog, queue, result, stack, pos>>

HelpNone(t) ==
  /\ At(t, "help") /\ queue = <<>>
  /\ Go(t, "recheck")
  /\ UNCHANGED <<prog, queue, result, stack, pos>>

(* Faulty: the result is not looked at again before sleeping.              *)
Recheck_Not(t) ==
  /\ At(t, "recheck")
  /\ Go(t, "wait")
  /\ UNCHANGED <<prog, queue, result, stack, pos>>

Recheck(t) ==
  /\ At(t, "recheck")
  /\ Go(t, IF Target(t) \in result THEN "check" ELSE "wait")
  /\ UNCHANGED <<prog, queue, result, stack, pos>>

(* Faulty: a woken thread returns without looking at the result again.     *)
SpuriousWakeup_NoLoop(t) ==
  /\ Spurious
  /\ \/ At(t, "wait") /\ Go(t, "run") /\ Advance(t)
     \/ At(t, "wait_tasks") /\ Go(t, "idle") /\ UNCHANGED pos
  /\ UNCHANGED <<prog, queue, result, stack>>

(* Waking without a signal; the thread looks again at what it waits for.   *)
SpuriousWakeup(t) ==
  /\ Spurious
  /\ \/ At(t, "wait") /\ Go(t, "check")
     \/ At(t, "wait_tasks") /\ Go(t, "idle")
  /\ UNCHANGED <<prog, queue, result, stack, pos>>

-----------------------------------------------------------------------------
(* The end of kk_task_exec: kk_promise_set stores the result and, when the *)
(* lock is released, signals; then the task below goes on, or the worker.  *)
SetResult(t) ==
  /\ At(t, "run") /\ Finished(t) /\ Current(t) # Root
  /\ result' = result \cup {Current(t)}
  /\ Go(t, "signal_promise")
  /\ UNCHANGED <<prog, queue, stack, pos>>

Waiting(p) == {w \in Threads : At(w, "wait") /\ Target(w) = p}

SignalPromise(t) ==
  /\ At(t, "signal_promise")
  /\ Signal(t, IF Tail(stack[t]) = <<>> THEN "idle" ELSE "check",
            Waiting(Current(t)), "check")
  /\ stack' = [stack EXCEPT ![t] = Tail(@)]
  /\ UNCHANGED <<prog, queue, result, pos>>

Exit ==
  /\ At(Main, "run") /\ Current(Main) = Root /\ Finished(Main)
  /\ Go(Main, "exit")
  /\ UNCHANGED <<prog, queue, result, stack, pos>>

ThreadStep(t) ==
  \/ Schedule(t) \/ SignalTasks(t)
  \/ Await(t) \/ Check(t) \/ Help(t) \/ HelpNone(t) \/ Recheck(t)
  \/ SetResult(t) \/ SignalPromise(t)
  \/ t \in Workers /\ (WorkerDequeue(t) \/ WorkerWait(t))
  \/ t = Main /\ Exit

(* The process ends when the main thread does.                             *)
Next ==
  /\ mode[Main] # "exit"
  /\ \E t \in Threads : ThreadStep(t) \/ SpuriousWakeup(t)

Spec     == Init /\ [][Next]_vars
FairSpec == Spec /\ \A t \in Threads : WF_vars(mode[Main] # "exit" /\ ThreadStep(t))

-----------------------------------------------------------------------------
(* The variables range over the values the code can give them.             *)
TypeOK ==
  /\ prog \in [Bodies -> Seq(Ops)]
  /\ queue \in Seq(Tasks)
  /\ result \in SUBSET Tasks
  /\ stack \in [Threads -> Seq(Bodies)]
  /\ pos \in [Bodies -> Nat \ {0}]
  /\ mode \in [Threads -> {"idle", "run", "signal_tasks", "wait_tasks", "check", "help",
                           "recheck", "wait", "signal_promise", "exit"}]

(* Where a task is: in the queue, or on the stack of a thread.             *)
Queued(k)  == {i \in DOMAIN queue : queue[i] = k}
Stacked(k) == UNION {{<<t, i>> : i \in {j \in DOMAIN stack[t] : stack[t][j] = k}} : t \in Threads}

(* A task is run once: it is in one place at most, and nowhere, except to  *)
(* signal, once its promise has a result.                                  *)
TaskRunsOnce ==
  \A k \in Tasks :
    /\ Cardinality(Queued(k)) + Cardinality(Stacked(k)) <= 1
    /\ k \in result =>
         /\ Queued(k) = {}
         /\ \A place \in Stacked(k) : place[2] = 1 /\ At(place[1], "signal_promise")

(* While there are tasks in the queue, some thread will look at the queue  *)
(* before it sleeps: work is never left to sleeping threads only.          *)
Looking(t) == mode[t] \notin {"recheck", "wait", "wait_tasks"}
WorkNeverStranded == queue # <<>> => \E t \in Threads : Looking(t)

(* A task goes past an await only when the promise has its result.         *)
AwaitsSatisfied ==
  \A k \in Bodies : \A i \in 1..(pos[k] - 1) :
    prog[k][i][1] = "await" => prog[k][i][2] \in result

(* In the program every promise is awaited once at most, by the task that  *)
(* created its task before.                                                *)
ForkJoin ==
  \A k \in Bodies : \A i \in DOMAIN prog[k] :
    prog[k][i][1] = "await" =>
      /\ \E j \in 1..(i - 1) : prog[k][j] = <<"task", prog[k][i][2]>>
      /\ \A l \in Bodies : \A j \in DOMAIN prog[l] :
           prog[l][j] = prog[k][i] => <<l, j>> = <<k, i>>

(* A fork-join program comes to its end however its tasks are spread over  *)
(* the threads: no wakeup is lost, and tasks run by a thread that waits    *)
(* never keep it from what it waits for.                                   *)
ForkJoinReturns == ForkJoin ~> (mode[Main] = "exit")

(* Every program whose awaits a thread for each task would satisfy ends.   *)
MainReturns == <>(mode[Main] = "exit")
=============================================================================
