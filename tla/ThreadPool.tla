----------------------------- MODULE ThreadPool -----------------------------
(***************************************************************************)
(* The thread pool (cct/threadPool.h, cct/threadPool.cpp), with the        *)
(* start() / join() protocol of its Thread objects (cct/thread.cpp) and    *)
(* the blocking queue of its tasks (module MQ).                            *)
(*                                                                         *)
(* One thread, the owner, constructs the pool and calls setNumThreads(),   *)
(* start() and join(); each is a loop over _threads that other threads can *)
(* interleave with.  Any thread adds tasks.  A worker posts the semaphore  *)
(* of its Thread object, writes _tid and then pulls and runs tasks for     *)
(* ever.  A failed assertion aborts the process.                           *)
(*                                                                         *)
(* AlreadyPosted, ExecuteAgain and ExecuteAndQuit stand for slips          *)
(* in this code (PROJECT.json, "mutants") and are not part of the    *)
(* specification.                                                          *)
(***************************************************************************)
EXTENDS Integers, Sequences, FiniteSets

CONSTANTS
    kMaxNumThreads, \* ThreadPool::kMaxNumThreads
    NumArgs,        \* the arguments given to the constructor and the setter
    MaxThreads,     \* bound on the number of Thread objects in _threads
    MaxTasks        \* bound on the number of tasks added

ASSUME ThreadPoolAssumption ==
    /\ kMaxNumThreads \in Nat
    /\ NumArgs \subseteq Int
    /\ MaxThreads \in Nat
    /\ MaxTasks \in Nat

Threads == 1..MaxThreads

VARIABLES
    q, pc, pushed, taken, dropped,  \* _taskQueue, see MQ
    opc,        \* what the owner is doing
    at,         \* the position of its loop over _threads
    numThreads, \* _numThreads
    threads,    \* _threads.size()
    started,    \* for each Thread object, _started
    sem,        \* for each Thread object, _sem
    tid,        \* for each Thread object, whether _tid has been written
    interrupted,\* history: threads whose handshake a signal cut short
    wpc,        \* what each worker is doing
    task,       \* the task each worker holds, 0 for none
    done        \* history: how often each task has been executed

queueVars == <<q, pc, pushed, taken, dropped>>
poolVars == <<numThreads, threads>>
threadVars == <<started, sem, tid, interrupted>>
workerVars == <<wpc, task>>
vars == <<queueVars, opc, at, poolVars, threadVars, workerVars, done>>

TaskQueue == INSTANCE MQ WITH Pullers <- Threads, MaxItems <- MaxTasks

AlreadyPosted == 1
NotPosted == 0

Init ==
    /\ TaskQueue!Init
    /\ opc = "unconstructed"
    /\ at = 1
    /\ numThreads = 0
    /\ threads = 0
    /\ started = [t \in Threads |-> FALSE]
    /\ sem = [t \in Threads |-> NotPosted]
    /\ tid = [t \in Threads |-> FALSE]
    /\ interrupted = {}
    /\ wpc = [t \in Threads |-> "unborn"]
    /\ task = [t \in Threads |-> 0]
    /\ done = [n \in 1..MaxTasks |-> 0]

-----------------------------------------------------------------------------
(* The owner.                                                              *)


(* The number setNumThreads() settles for.                                 *)
Clamped(num) ==
    IF num > kMaxNumThreads THEN kMaxNumThreads ELSE IF num < 0 THEN 0 ELSE num

(* init(), called times times: each call appends _numThreads new threads.  *)
InitThreads(num, times) ==
    /\ numThreads' = num
    /\ threads' = threads + times * num
    /\ threads' <= MaxThreads
    /\ UNCHANGED <<queueVars, at, threadVars, workerVars, done>>

ConstructDefault ==
    /\ opc = "unconstructed"
    /\ opc' = "idle"
    /\ UNCHANGED <<queueVars, at, poolVars, threadVars, workerVars, done>>

(* ThreadPool(num) calls setNumThreads(), which calls init(), and then     *)
(* init() itself.                                                          *)
Construct(num) ==
    /\ opc = "unconstructed"
    /\ opc' = "idle"
    /\ InitThreads(Clamped(num), 2)

SetNumThreads(num) ==
    /\ opc = "idle"
    /\ UNCHANGED opc
    /\ InitThreads(Clamped(num), 1)

CallStart ==
    /\ opc = "idle"
    /\ opc' = "starting"
    /\ at' = 1
    /\ UNCHANGED <<queueVars, poolVars, threadVars, workerVars, done>>

(* Thread::start() up to pthread_create.                                   *)
StartThread ==
    /\ opc = "starting"
    /\ at <= threads
    /\ ~started[at]
    /\ started' = [started EXCEPT ![at] = TRUE]
    /\ wpc' = [wpc EXCEPT ![at] = "created"]
    /\ opc' = "handshake"
    /\ UNCHANGED <<queueVars, at, poolVars, sem, tid, interrupted, task, done>>

(* assert(!_started)                                                       *)
StartAborts ==
    /\ opc = "starting"
    /\ at <= threads
    /\ started[at]
    /\ opc' = "aborted"
    /\ UNCHANGED <<queueVars, at, poolVars, threadVars, workerVars, done>>

(* _sem.wait(), and on to the next thread.                                 *)
Handshake ==
    /\ opc = "handshake"
    /\ sem[at] > 0
    /\ sem' = [sem EXCEPT ![at] = @ - 1]
    /\ at' = at + 1
    /\ opc' = "starting"
    /\ UNCHANGED <<queueVars, poolVars, started, tid, interrupted, workerVars,
                   done>>

(* A signal handler of the program runs: sem_wait() fails with EINTR, and  *)
(* Semaphore::wait() logs that one should try again, but returns.          *)
InterruptedHandshake ==
    /\ opc = "handshake"
    /\ sem[at] = 0
    /\ interrupted' = interrupted \cup {at}
    /\ at' = at + 1
    /\ opc' = "starting"
    /\ UNCHANGED <<queueVars, poolVars, started, sem, tid, workerVars, done>>

StartReturns ==
    /\ opc = "starting"
    /\ at > threads
    /\ opc' = "idle"
    /\ UNCHANGED <<queueVars, at, poolVars, threadVars, workerVars, done>>

(* join() blocks in the join of the first thread that was started: the     *)
(* workers never return, so no step of it follows.                         *)
CallJoin ==
    /\ opc = "idle"
    /\ threads > 0
    /\ opc' = IF started[1] THEN "joining" ELSE "aborted"
    /\ UNCHANGED <<queueVars, at, poolVars, threadVars, workerVars, done>>

Owner ==
    ConstructDefault \/ CallStart \/ StartThread \/ StartAborts \/ Handshake
        \/ InterruptedHandshake \/ StartReturns \/ CallJoin
        \/ \E num \in NumArgs : Construct(num) \/ SetNumThreads(num)

-----------------------------------------------------------------------------
(* Tasks and workers.                                                      *)

Alive == opc \notin {"unconstructed", "aborted"}

addTask ==
    /\ Alive
    /\ TaskQueue!push
    /\ UNCHANGED <<opc, at, poolVars, threadVars, workerVars, done>>

(* startThread(): the post comes first ...                                 *)
Post(t) ==
    /\ Alive
    /\ wpc[t] = "created"
    /\ sem' = [sem EXCEPT ![t] = @ + 1]
    /\ wpc' = [wpc EXCEPT ![t] = "posted"]
    /\ UNCHANGED <<queueVars, opc, at, poolVars, started, tid, interrupted, task,
                   done>>

(* ... then beforeRoutine() writes _tid, and the routine begins.           *)
WriteTid(t) ==
    /\ Alive
    /\ wpc[t] = "posted"
    /\ tid' = [tid EXCEPT ![t] = TRUE]
    /\ wpc' = [wpc EXCEPT ![t] = "looping"]
    /\ UNCHANGED <<queueVars, opc, at, poolVars, started, sem, interrupted, task,
                   done>>

(* thread_routine(): Task t = _taskQueue.pull(), waiting included ...      *)
Pull(t) ==
    /\ Alive
    /\ wpc[t] = "looping"
    /\ TaskQueue!pull(t) \/ TaskQueue!pullWait(t)
    /\ UNCHANGED <<opc, at, poolVars, threadVars, workerVars, done>>

Wakeup(t) ==
    /\ Alive
    /\ wpc[t] = "looping"
    /\ TaskQueue!SpuriousWakeup(t)
    /\ UNCHANGED <<opc, at, poolVars, threadVars, workerVars, done>>

(* ... which hands over the oldest one ...                                 *)
Take(t) ==
    /\ Alive
    /\ wpc[t] = "looping"
    /\ TaskQueue!pullTake(t)
    /\ wpc' = [wpc EXCEPT ![t] = "executing"]
    /\ task' = [task EXCEPT ![t] = Head(q)]
    /\ UNCHANGED <<opc, at, poolVars, threadVars, done>>

(* A worker that forgets to drop the task it has run.                      *)
ExecuteAgain(t) ==
    /\ Alive
    /\ wpc[t] = "executing"
    /\ done[task[t]] < 2
    /\ done' = [done EXCEPT ![task[t]] = @ + 1]
    /\ UNCHANGED <<queueVars, opc, at, poolVars, threadVars, workerVars>>

(* A worker that runs one task and leaves its loop.                        *)
ExecuteAndQuit(t) ==
    /\ Alive
    /\ wpc[t] = "executing"
    /\ done' = [done EXCEPT ![task[t]] = @ + 1]
    /\ wpc' = [wpc EXCEPT ![t] = "unborn"]
    /\ task' = [task EXCEPT ![t] = 0]
    /\ UNCHANGED <<queueVars, opc, at, poolVars, threadVars>>

(* ... and t(): the task is executed, and the loop begins again.           *)
Execute(t) ==
    /\ Alive
    /\ wpc[t] = "executing"
    /\ done' = [done EXCEPT ![task[t]] = @ + 1]
    /\ wpc' = [wpc EXCEPT ![t] = "looping"]
    /\ task' = [task EXCEPT ![t] = 0]
    /\ UNCHANGED <<queueVars, opc, at, poolVars, threadVars>>

Work(t) == Post(t) \/ WriteTid(t) \/ Pull(t) \/ Take(t) \/ Execute(t)

(* A failed assertion is the end.                                          *)
Aborted == opc = "aborted" /\ UNCHANGED vars

Next ==
    \/ Owner
    \/ addTask
    \/ \E t \in Threads : Work(t) \/ Wakeup(t)
    \/ Aborted

Spec == Init /\ [][Next]_vars

(* The scheduler runs the workers, each task terminates, and the owner     *)
(* finishes the start() it is in; it need not call anything.               *)
Fairness ==
    /\ \A t \in Threads : WF_vars(Work(t))
    /\ WF_vars(StartThread \/ StartAborts \/ Handshake \/ StartReturns)

FairSpec == Spec /\ Fairness

-----------------------------------------------------------------------------
(* Properties.                                                             *)

(* start() waits for the child: once it is past a thread, and no signal    *)
(* cut the wait short, that thread runs.  The semaphore counts one post    *)
(* for one wait, so that no thread can pass on the post of another.        *)
HandshakeSound ==
    \A t \in Threads \ interrupted :
        started[t] /\ ~(opc = "handshake" /\ at = t) =>
            wpc[t] \notin {"unborn", "created"}

Holders(n) == { t \in Threads : task[t] = n }

(* A task is executed once and by one worker: a task that has left the     *)
(* queue is in the hands of one worker or has been executed once, and one  *)
(* that has not is neither.                                                *)
ExecutedOnce ==
    \A n \in 1..MaxTasks :
        Cardinality(Holders(n)) + done[n] =
            IF n \in TaskQueue!Items(taken) THEN 1 ELSE 0

(* A task added before, during or after start() is executed in the end,    *)
(* however many workers are asleep when it arrives; join() does not stop   *)
(* the workers, only an aborted process does.                              *)
EveryTaskRuns ==
    \A n \in 1..MaxTasks :
        (pushed >= n /\ started[1]) ~> (done[n] = 1 \/ opc = "aborted")
=============================================================================
