----------------------------- MODULE CctProofs -----------------------------
(***************************************************************************)
(* Proofs about the two parts of cct/ that run user code.                  *)
(*                                                                         *)
(* About ThreadPool, for every number of threads and tasks, every maximum  *)
(* and all arguments of setNumThreads().  What a step does to the queue of *)
(* tasks is a step of MQ, so that the invariant of MQProofs is taken over. *)
(*                                                                         *)
(* About Fiber, for every number of fibers and every use of them.          *)
(***************************************************************************)
EXTENDS ThreadPool, Fiber, FiniteSetTheorems, SequenceTheorems, TLAPS

Queue == INSTANCE MQProofs WITH Pullers <- Threads, MaxItems <- MaxTasks

-----------------------------------------------------------------------------
(* The pool: the queue of its tasks.                                       *)

(* All actions but five leave the queue alone.                             *)
QueueActions(t) == Pull(t) \/ Wakeup(t) \/ Take(t)

LEMMA QueueSteps ==
    ASSUME [Next]_vars
    PROVE  \/ UNCHANGED queueVars
           \/ addTask
           \/ \E t \in Threads : QueueActions(t)
<1>1. CASE Owner
  BY <1>1
  DEF Owner, ConstructDefault, Construct, SetNumThreads, InitThreads, CallStart,
      StartThread, StartAborts, Handshake, InterruptedHandshake, StartReturns,
      CallJoin
<1>2. ASSUME NEW t \in Threads, Post(t) \/ WriteTid(t) \/ Execute(t)
      PROVE  UNCHANGED queueVars
  BY <1>2 DEF Post, WriteTid, Execute
<1>3. CASE Aborted \/ UNCHANGED vars
  BY <1>3 DEF Aborted, vars
<1> QED
  BY <1>1, <1>2, <1>3 DEF Next, Work, QueueActions

LEMMA InitQueue == Init => Queue!Inv
<1>1. Init => Queue!Init
  BY DEF Init, TaskQueue!Init, Queue!Init
<1> QED
  BY <1>1, ThreadPoolAssumption, Queue!InitInv

LEMMA StepQueue == Queue!Inv /\ [Next]_vars => Queue!Inv'
<1> SUFFICES ASSUME Queue!Inv, [Next]_vars PROVE Queue!Inv'
  OBVIOUS
<1>1. CASE UNCHANGED queueVars
  BY <1>1, ThreadPoolAssumption, Queue!StepInv DEF queueVars, Queue!vars
<1>2. CASE addTask
  <2>1. Queue!push
    BY <1>2
    DEF addTask, TaskQueue!push, TaskQueue!BackAdded, TaskQueue!WakeupAll,
        Queue!push, Queue!BackAdded, Queue!WakeupAll
  <2> QED
    BY <2>1, ThreadPoolAssumption, Queue!StepInv DEF Queue!Next
<1>3. ASSUME NEW t \in Threads, QueueActions(t) PROVE Queue!Inv'
  <2>1. CASE TaskQueue!pull(t)
    <3>1. Queue!pull(t)
      BY <2>1 DEF TaskQueue!pull, Queue!pull
    <3> QED
      BY <3>1, ThreadPoolAssumption, Queue!StepInv DEF Queue!Next
  <2>2. CASE TaskQueue!pullWait(t)
    <3>1. Queue!pullWait(t)
      BY <2>2
      DEF TaskQueue!pullWait, TaskQueue!MustWait, Queue!pullWait, Queue!MustWait
    <3> QED
      BY <3>1, ThreadPoolAssumption, Queue!StepInv DEF Queue!Next
  <2>3. CASE TaskQueue!SpuriousWakeup(t)
    <3>1. Queue!SpuriousWakeup(t)
      BY <2>3 DEF TaskQueue!SpuriousWakeup, Queue!SpuriousWakeup
    <3> QED
      BY <3>1, ThreadPoolAssumption, Queue!StepInv DEF Queue!Next
  <2>4. CASE TaskQueue!pullTake(t)
    <3>1. Queue!pullTake(t)
      BY <2>4
      DEF TaskQueue!pullTake, TaskQueue!Popped, Queue!pullTake, Queue!Popped
    <3> QED
      BY <3>1, ThreadPoolAssumption, Queue!StepInv DEF Queue!Next
  <2> QED
    BY <1>3, <2>1, <2>2, <2>3, <2>4 DEF QueueActions, Pull, Wakeup, Take
<1> QED
  BY <1>1, <1>2, <1>3, QueueSteps

(* What was pulled, as a set.                                              *)
Pulled == TaskQueue!Items(taken)

(* The oldest queued task has not been pulled before: the queue is in the  *)
(* order of the pushes.                                                    *)
LEMMA HeadIsNew ==
    ASSUME Queue!Inv, q # <<>>
    PROVE  /\ Head(q) \in 1..MaxTasks
           /\ Head(q) \notin Pulled
           /\ TaskQueue!Items(Append(taken, Head(q))) = Pulled \cup {Head(q)}
<1>1. taken \in Seq(1..MaxTasks) /\ q \in Seq(1..MaxTasks)
  BY DEF Queue!Inv, Queue!TypeOK
<1>2. Head(q) \in 1..MaxTasks /\ Head(q) = q[1] /\ Len(q) >= 1 /\ Len(q) \in Nat
  <2>1. q \in Seq(1..MaxTasks) /\ q # <<>>
    BY <1>1
  <2>2. Head(q) \in 1..MaxTasks
    BY <2>1, HeadTailProperties
  <2> QED
    BY <2>1, <2>2
<1>3. ASSUME NEW k \in 1..Len(taken) PROVE taken[k] # Head(q)
  <2> DEFINE all == taken \o q
             last == Len(taken) + 1
  <2>1. /\ Len(taken) \in Nat /\ Len(all) = Len(taken) + Len(q)
        /\ all[k] = taken[k] /\ all[last] = q[1]
    BY <1>1, <1>2
  <2>2. k \in 1..Len(all) /\ last \in 1..Len(all) /\ k < last
    BY <1>2, <2>1
  <2>3. all[k] < all[last]
    BY <2>2 DEF Queue!Inv, Queue!Increasing, Queue!History
  <2>4. taken[k] \in 1..MaxTasks
    BY <1>1, ElementOfSeq
  <2> QED
    BY <1>2, <2>1, <2>3, <2>4
<1>4. Head(q) \notin Pulled
  BY <1>3 DEF Pulled, TaskQueue!Items
<1>5. Queue!Items(Append(taken, Head(q))) = Queue!Items(taken) \cup {Head(q)}
  BY <1>1, <1>2, ThreadPoolAssumption, Queue!ItemsAppend
<1>6. ASSUME NEW s PROVE TaskQueue!Items(s) = Queue!Items(s)
  BY DEF TaskQueue!Items, Queue!Items
<1>7. TaskQueue!Items(Append(taken, Head(q))) = Pulled \cup {Head(q)}
  <2>1. TaskQueue!Items(Append(taken, Head(q))) = Queue!Items(Append(taken, Head(q)))
    BY <1>6
  <2>2. Pulled = Queue!Items(taken)
    BY <1>6 DEF Pulled
  <2> QED
    BY <1>5, <2>1, <2>2
<1> QED
  BY <1>2, <1>4, <1>7

-----------------------------------------------------------------------------
(* The handshake of start().                                               *)

(* Where the owner is, and that a semaphore is posted by a thread that     *)
(* runs.                                                                   *)
StartInv ==
    /\ at \in Nat \ {0} /\ threads \in Nat /\ threads <= MaxThreads
    /\ numThreads \in Nat
    /\ opc \in {"handshake", "starting"} => at <= MaxThreads + 1
    /\ opc = "handshake" => at \in Threads
    /\ started \in [Threads -> BOOLEAN]
    /\ sem \in [Threads -> Nat]
    /\ wpc \in [Threads -> {"unborn", "created", "posted", "looping",
                            "executing"}]
    /\ \A t \in Threads : started[t] <=> wpc[t] # "unborn"
    /\ \A t \in Threads : sem[t] > 0 => wpc[t] \notin {"unborn", "created"}
    /\ HandshakeSound

LEMMA InitStart == Init => StartInv
  BY ThreadPoolAssumption DEF Init, StartInv, HandshakeSound, Threads, NotPosted

LEMMA StepStart == StartInv /\ [Next]_vars => StartInv'
<1> SUFFICES ASSUME StartInv, [Next]_vars PROVE StartInv'
  OBVIOUS
<1> USE ThreadPoolAssumption DEF StartInv, HandshakeSound, Threads
<1>1. ASSUME NEW num \in NumArgs, Construct(num) \/ SetNumThreads(num)
      PROVE  StartInv'
  <2>1. Clamped(num) \in Nat
    BY DEF Clamped
  <2>2. PICK n \in {1, 2} : InitThreads(Clamped(num), n)
    BY <1>1 DEF Construct, SetNumThreads
  <2>3. n * Clamped(num) \in Nat
    BY <2>1
  <2> QED
    BY <1>1, <2>1, <2>2, <2>3
    DEF Construct, SetNumThreads, InitThreads, threadVars, workerVars
<1>2. CASE ConstructDefault \/ CallStart \/ StartAborts \/ StartReturns
           \/ CallJoin
  BY <1>2 DEF ConstructDefault, CallStart, StartAborts, StartReturns, CallJoin,
              poolVars, threadVars, workerVars
<1>3. CASE StartThread
  <2>1. /\ at \in Threads /\ ~started[at] /\ wpc[at] = "unborn" /\ sem[at] = 0
        /\ opc = "starting" /\ opc' = "handshake"
        /\ started' = [started EXCEPT ![at] = TRUE]
        /\ wpc' = [wpc EXCEPT ![at] = "created"]
        /\ UNCHANGED <<at, threads, numThreads, sem, interrupted>>
    BY <1>3 DEF StartThread, poolVars
  <2>2. \A t \in Threads \ {at} : started'[t] = started[t] /\ wpc'[t] = wpc[t]
    BY <2>1
  <2>3. HandshakeSound'
    BY <2>1, <2>2
  <2> QED
    BY <2>1, <2>2, <2>3
<1>4. CASE Handshake
  BY <1>4 DEF Handshake, poolVars, workerVars
<1>5. CASE InterruptedHandshake
  BY <1>5 DEF InterruptedHandshake, poolVars, workerVars
<1>6. CASE addTask
  BY <1>6 DEF addTask, poolVars, threadVars, workerVars
<1>7. ASSUME NEW t \in Threads, Post(t) \/ WriteTid(t) PROVE StartInv'
  <2>1. /\ wpc[t] \in {"created", "posted"} /\ wpc'[t] \in {"posted", "looping"}
        /\ wpc' \in [Threads -> {"unborn", "created", "posted", "looping",
                                "executing"}]
        /\ \A u \in Threads \ {t} : wpc'[u] = wpc[u] /\ sem'[u] = sem[u]
        /\ sem' \in [Threads -> Nat]
        /\ UNCHANGED <<opc, at, threads, numThreads, started, interrupted>>
    <3>1. CASE Post(t)
      BY <3>1 DEF Post, poolVars
    <3>2. CASE WriteTid(t)
      BY <3>2 DEF WriteTid, poolVars
    <3> QED
      BY <1>7, <3>1, <3>2
  <2>2. HandshakeSound'
    BY <2>1
  <2> QED
    BY <2>1, <2>2
<1>8. ASSUME NEW t \in Threads, QueueActions(t) \/ Execute(t)
      PROVE  StartInv'
  BY <1>8 DEF QueueActions, Pull, Wakeup, Take, Execute, poolVars, threadVars,
              workerVars
<1>9. CASE Aborted \/ UNCHANGED vars
  BY <1>9 DEF Aborted, vars, poolVars, threadVars, workerVars
<1> QED
  BY <1>1, <1>2, <1>3, <1>4, <1>5, <1>6, <1>7, <1>8, <1>9
  DEF Next, Owner, Work, QueueActions

(* start() is past a thread only when that thread runs, unless a signal    *)
(* cut the wait on its semaphore short.                                    *)
THEOREM StartWaits == Spec => []HandshakeSound
<1>1. StartInv => HandshakeSound
  BY DEF StartInv
<1> QED
  BY <1>1, InitStart, StepStart, PTL DEF Spec

-----------------------------------------------------------------------------
(* Tasks.                                                                  *)

(* A task is with nobody, with one worker, or behind one execution.        *)
Account(n) ==
    /\ n \notin Pulled => Holders(n) = {} /\ done[n] = 0
    /\ n \in Pulled =>
          \/ Holders(n) = {} /\ done[n] = 1
          \/ done[n] = 0 /\ \E t \in Threads : Holders(n) = {t}

TaskInv ==
    /\ task \in [Threads -> 0..MaxTasks]
    /\ done \in [1..MaxTasks -> Nat]
    /\ \A t \in Threads : task[t] # 0 <=> wpc[t] = "executing"
    /\ \A n \in 1..MaxTasks : Account(n)

LEMMA InitTask == Init => TaskInv
<1> SUFFICES ASSUME Init PROVE TaskInv
  OBVIOUS
<1>1. Pulled = {}
  <2>1. taken = <<>> /\ Len(<<>>) = 0
    BY DEF Init, TaskQueue!Init
  <2> QED
    BY <2>1 DEF Pulled, TaskQueue!Items
<1>2. \A n \in 1..MaxTasks : Holders(n) = {}
  BY DEF Init, Holders
<1> QED
  BY <1>1, <1>2, ThreadPoolAssumption DEF Init, TaskInv, Account

(* A worker takes the head of the queue ...                                *)
LEMMA TakeTask ==
    ASSUME Queue!Inv, StartInv, TaskInv, NEW t \in Threads, Take(t)
    PROVE  TaskInv'
<1> DEFINE h == Head(q)
<1>1. /\ q # <<>> /\ wpc[t] = "looping" /\ taken' = Append(taken, h)
      /\ wpc' = [wpc EXCEPT ![t] = "executing"]
      /\ task' = [task EXCEPT ![t] = h] /\ done' = done
  BY DEF Take, TaskQueue!pullTake
<1>2. h \in 1..MaxTasks /\ h \notin Pulled /\ Pulled' = Pulled \cup {h}
  BY <1>1, HeadIsNew DEF Pulled
<1> HIDE DEF h
<1>3. task[t] = 0 /\ task'[t] = h /\ \A u \in Threads \ {t} : task'[u] = task[u]
  BY <1>1 DEF TaskInv
<1>4. Holders(h) = {} /\ done[h] = 0
  BY <1>2 DEF TaskInv, Account
<1>5. ASSUME NEW n \in 1..MaxTasks, n = h PROVE Holders(n)' = {t}
  <2>1. \A u \in Threads : task[u] # h
    BY <1>4 DEF Holders
  <2>2. \A u \in Threads : task'[u] = h <=> u = t
    BY <1>3, <2>1
  <2> QED
    BY <1>5, <2>2 DEF Holders
<1>6. ASSUME NEW n \in 1..MaxTasks, n # h PROVE Holders(n)' = Holders(n)
  BY <1>3, <1>6 DEF Holders
<1>7. ASSUME NEW n \in 1..MaxTasks PROVE Account(n)'
  <2>1. CASE n = h
    <3>1. Holders(n)' = {t} /\ done'[n] = 0 /\ n \in Pulled'
      BY <1>1, <1>2, <1>4, <1>5, <2>1
    <3> QED
      BY <3>1 DEF Account
  <2>2. CASE n # h
    <3>1. Holders(n)' = Holders(n) /\ done'[n] = done[n]
      BY <1>1, <1>6, <2>2
    <3>2. n \in Pulled' <=> n \in Pulled
      BY <1>2, <2>2
    <3> QED
      BY <3>1, <3>2 DEF TaskInv, Account
  <2> QED
    BY <2>1, <2>2
<1>8. task' \in [Threads -> 0..MaxTasks]
  BY <1>1, <1>2 DEF TaskInv
<1>9. \A u \in Threads : task'[u] # 0 <=> wpc'[u] = "executing"
  BY <1>1, <1>2, <1>3 DEF TaskInv, StartInv
<1> QED
  BY <1>1, <1>7, <1>8, <1>9 DEF TaskInv

(* ... and executes it.                                                    *)
LEMMA ExecuteTask ==
    ASSUME Queue!Inv, StartInv, TaskInv, NEW t \in Threads, Execute(t)
    PROVE  TaskInv'
<1> DEFINE m == task[t]
<1>1. /\ wpc[t] = "executing" /\ taken' = taken
      /\ wpc' = [wpc EXCEPT ![t] = "looping"]
      /\ task' = [task EXCEPT ![t] = 0]
      /\ done' = [done EXCEPT ![m] = @ + 1]
  BY DEF Execute, queueVars
<1>2. m \in 1..MaxTasks /\ task[t] = m
  BY <1>1, ThreadPoolAssumption DEF TaskInv
<1> HIDE DEF m
<1>3. task'[t] = 0 /\ \A u \in Threads \ {t} : task'[u] = task[u]
  BY <1>1 DEF TaskInv
<1>4. Holders(m) = {t} /\ done[m] = 0 /\ m \in Pulled
  <2>1. t \in Holders(m)
    BY <1>2 DEF Holders
  <2> QED
    BY <1>2, <2>1 DEF TaskInv, Account
<1>5. ASSUME NEW n \in 1..MaxTasks, n = m PROVE Holders(n)' = {}
  <2>1. \A u \in Threads : task[u] = m => u = t
    BY <1>4 DEF Holders
  <2>2. \A u \in Threads : task'[u] # m
    BY <1>2, <1>3, <2>1
  <2> QED
    BY <1>5, <2>2 DEF Holders
<1>6. ASSUME NEW n \in 1..MaxTasks, n # m PROVE Holders(n)' = Holders(n)
  <2>1. task[t] # n /\ task'[t] # n
    BY <1>2, <1>3, <1>6
  <2>2. \A u \in Threads : task'[u] = n <=> task[u] = n
    BY <1>3, <2>1
  <2> QED
    BY <2>2 DEF Holders
<1>7. Pulled' = Pulled
  BY <1>1 DEF Pulled
<1>8. done' \in [1..MaxTasks -> Nat] /\ done'[m] = 1
  BY <1>1, <1>2, <1>4 DEF TaskInv
<1>9. ASSUME NEW n \in 1..MaxTasks PROVE Account(n)'
  <2>1. CASE n = m
    <3>1. Holders(n)' = {} /\ done'[n] = 1
      BY <1>5, <1>8, <2>1
    <3> QED
      BY <1>4, <1>7, <2>1, <3>1 DEF Account
  <2>2. CASE n # m
    <3>1. Holders(n)' = Holders(n) /\ done'[n] = done[n]
      BY <1>1, <1>6, <2>2 DEF TaskInv
    <3> QED
      BY <1>7, <3>1 DEF TaskInv, Account
  <2> QED
    BY <2>1, <2>2
<1>10. task' \in [Threads -> 0..MaxTasks]
  BY <1>1, ThreadPoolAssumption DEF TaskInv
<1>11. \A u \in Threads : task'[u] # 0 <=> wpc'[u] = "executing"
  BY <1>1, <1>3 DEF TaskInv, StartInv
<1> QED
  BY <1>8, <1>9, <1>10, <1>11 DEF TaskInv

LEMMA StepTask == Queue!Inv /\ StartInv /\ TaskInv /\ [Next]_vars => TaskInv'
<1> SUFFICES ASSUME Queue!Inv, StartInv, TaskInv, [Next]_vars PROVE TaskInv'
  OBVIOUS
<1>1. ASSUME UNCHANGED <<taken, task, done>>,
             \A t \in Threads : wpc'[t] = "executing" <=> wpc[t] = "executing"
      PROVE  TaskInv'
  BY <1>1 DEF TaskInv, Account, Holders, Pulled
<1>2. CASE Owner \/ addTask
  <2>1. UNCHANGED <<taken, task, done>>
    BY <1>2
    DEF Owner, ConstructDefault, Construct, SetNumThreads, InitThreads,
        CallStart, StartThread, StartAborts, Handshake, InterruptedHandshake,
        StartReturns, CallJoin, addTask, TaskQueue!push, queueVars, workerVars
  <2>2. \A t \in Threads : wpc'[t] = "executing" <=> wpc[t] = "executing"
    <3>1. CASE StartThread
      BY <3>1 DEF StartThread, StartInv
    <3>2. CASE ~StartThread
      BY <1>2, <3>2
      DEF Owner, ConstructDefault, Construct, SetNumThreads, InitThreads,
          CallStart, StartAborts, Handshake, InterruptedHandshake,
          StartReturns, CallJoin, addTask, workerVars
    <3> QED
      BY <3>1, <3>2
  <2> QED
    BY <1>1, <2>1, <2>2
<1>3. ASSUME NEW t \in Threads, Post(t) \/ WriteTid(t) \/ Pull(t) \/ Wakeup(t)
      PROVE  TaskInv'
  <2>1. UNCHANGED <<taken, task, done>>
    BY <1>3 DEF Post, WriteTid, Pull, Wakeup, TaskQueue!pull,
                TaskQueue!pullWait, TaskQueue!SpuriousWakeup, queueVars,
                workerVars
  <2>2. \A u \in Threads : wpc'[u] = "executing" <=> wpc[u] = "executing"
    BY <1>3 DEF Post, WriteTid, Pull, Wakeup, workerVars, StartInv
  <2> QED
    BY <1>1, <2>1, <2>2
<1>4. ASSUME NEW t \in Threads, Take(t) \/ Execute(t) PROVE TaskInv'
  BY <1>4, TakeTask, ExecuteTask
<1>5. CASE Aborted \/ UNCHANGED vars
  BY <1>1, <1>5 DEF Aborted, vars, queueVars, workerVars
<1> QED
  BY <1>2, <1>3, <1>4, <1>5 DEF Next, Work

(* Every task is executed once, by the one worker that pulled it, and one  *)
(* that is still queued by nobody.                                         *)
THEOREM TasksRunOnce == Spec => []ExecutedOnce
<1>1. TaskInv => ExecutedOnce
  <2> SUFFICES ASSUME TaskInv, NEW n \in 1..MaxTasks
               PROVE  Cardinality(Holders(n)) + done[n] =
                          IF n \in Pulled THEN 1 ELSE 0
    BY DEF ExecutedOnce, Pulled
  <2>1. Cardinality({}) = 0 /\ \A t \in Threads : Cardinality({t}) = 1
    BY FS_EmptySet, FS_Singleton
  <2>2. CASE n \notin Pulled
    <3>1. Holders(n) = {} /\ done[n] = 0
      BY <2>2 DEF TaskInv, Account
    <3> QED
      BY <2>1, <2>2, <3>1
  <2>3. CASE n \in Pulled
    <3>1. CASE Holders(n) = {} /\ done[n] = 1
      BY <2>1, <2>3, <3>1
    <3>2. CASE done[n] = 0 /\ \E t \in Threads : Holders(n) = {t}
      BY <2>1, <2>3, <3>2
    <3> QED
      BY <2>3, <3>1, <3>2 DEF TaskInv, Account
  <2> QED
    BY <2>2, <2>3
<1> QED
  BY <1>1, InitQueue, StepQueue, InitStart, StepStart, InitTask, StepTask, PTL
  DEF Spec

-----------------------------------------------------------------------------
(* Fibers: what a switch of contexts does.                                 *)

SavedStack(save, x) == IF x = save THEN on ELSE ctx[x].stack
SavedPoint(save, point, x) == IF x = save THEN point ELSE ctx[x].point

Points == {"entry", "user", "exit", "stale"}

LEMMA SwitchSaves ==
    ASSUME TypeOK, NEW save \in All, NEW point \in Points
    PROVE  /\ Saved(save, point) \in [All -> Context]
           /\ \A x \in All :
                 /\ Saved(save, point)[x].stack = SavedStack(save, x)
                 /\ Saved(save, point)[x].point = SavedPoint(save, point, x)
                 /\ SavedStack(save, x) \in All
                 /\ SavedPoint(save, point, x) \in Points
  BY DEF TypeOK, Saved, Context, SavedStack, SavedPoint, Points

LEMMA SwitchTypes ==
    ASSUME TypeOK, outcome = "fine", NEW save \in All, NEW point \in Points,
           NEW load \in All, NEW ms \in SUBSET Fibers,
           Switch(save, point, load, ms)
    PROVE  /\ on' \in All /\ ctx' \in [All -> Context]
           /\ outcome' \in {"fine", "undefined", "aborted"}
           /\ inMainFunc' \subseteq Fibers
<1> DEFINE saved == Saved(save, point)
<1>1. /\ saved \in [All -> Context]
      /\ saved[load].stack \in All
  BY SwitchSaves
<1>2. \A s \in All : GoneOn(saved, s) \in [All -> Context]
  BY <1>1 DEF GoneOn, Context
<1> HIDE DEF saved
<1>3. CASE \E how \in {"undefined", "aborted"} : Fails(how, ms)
  BY <1>3 DEF Fails, TypeOK
<1>4. CASE ~(\E how \in {"undefined", "aborted"} : Fails(how, ms))
  <2>1. /\ ~(saved[load].point = "entry" /\ load = Main)
        /\ on' = saved[load].stack
        /\ ctx' = GoneOn(saved, saved[load].stack)
        /\ inMainFunc' = IF saved[load].point = "entry"
                         THEN ms \cup {load} ELSE ms
        /\ outcome' = outcome
    BY <1>4 DEF Switch, EntersMainFunc, saved
  <2> QED
    BY <1>1, <1>2, <2>1 DEF All
<1> QED
  BY <1>3, <1>4

(* A switch that succeeds.                                                 *)
LEMMA Switched ==
    ASSUME TypeOK, outcome = "fine", NEW save \in All, NEW point \in Points,
           NEW load \in All, NEW ms, Switch(save, point, load, ms),
           outcome' = "fine"
    PROVE  /\ on' = SavedStack(save, load)
           /\ SavedPoint(save, point, load) \in {"user", "entry"}
           /\ SavedPoint(save, point, load) = "entry" => load # Main
           /\ life'[on'] # "destroyed" /\ threadFiber # None
           /\ \A x \in All :
                 /\ ctx'[x].stack = SavedStack(save, x)
                 /\ ctx'[x].point = IF SavedStack(save, x) = on'
                                    THEN "stale"
                                    ELSE SavedPoint(save, point, x)
           /\ inMainFunc' = IF SavedPoint(save, point, load) = "entry"
                            THEN ms \cup {load} ELSE ms
<1> DEFINE saved == Saved(save, point)
<1>1. /\ saved \in [All -> Context]
      /\ \A x \in All :
            /\ saved[x].stack = SavedStack(save, x)
            /\ saved[x].point = SavedPoint(save, point, x)
            /\ SavedStack(save, x) \in All
            /\ SavedPoint(save, point, x) \in Points
  BY SwitchSaves
<1>2. ASSUME NEW s \in All, NEW x \in All
      PROVE  /\ GoneOn(saved, s)[x].stack = saved[x].stack
             /\ GoneOn(saved, s)[x].point = IF saved[x].stack = s
                                            THEN "stale" ELSE saved[x].point
  BY <1>1 DEF GoneOn, Context
<1> HIDE DEF saved
<1>3. /\ saved[load].point \notin {"stale", "exit"}
      /\ saved[load].point = "entry" => load # Main
      /\ life'[saved[load].stack] # "destroyed" /\ threadFiber # None
      /\ on' = saved[load].stack
      /\ ctx' = GoneOn(saved, saved[load].stack)
      /\ inMainFunc' = IF saved[load].point = "entry"
                       THEN ms \cup {load} ELSE ms
  BY DEF Switch, Fails, EntersMainFunc, saved
<1>4. SavedPoint(save, point, load) \in {"user", "entry"}
  BY <1>1, <1>3 DEF Points
<1>5. on' = SavedStack(save, load) /\ on' \in All
  BY <1>1, <1>3
<1>6. ctx' = GoneOn(saved, on')
  BY <1>3
<1>7. ASSUME NEW x \in All
      PROVE  /\ ctx'[x].stack = SavedStack(save, x)
             /\ ctx'[x].point = IF SavedStack(save, x) = on'
                                THEN "stale"
                                ELSE SavedPoint(save, point, x)
  BY <1>1, <1>2, <1>5, <1>6
<1> QED
  BY <1>1, <1>3, <1>4, <1>5, <1>7

(* One that does not.                                                      *)
LEMMA SwitchFails ==
    ASSUME TypeOK, outcome = "fine", NEW save \in All, NEW point \in Points,
           NEW load \in All, NEW ms, Switch(save, point, load, ms),
           outcome' # "fine"
    PROVE  /\ UNCHANGED <<ctx, on>> /\ inMainFunc' = ms
           /\ \/ /\ outcome' = "undefined"
                 /\ \/ threadFiber = None
                    \/ life'[save] = "destroyed"
                    \/ SavedPoint(save, point, load) = "stale"
                    \/ life'[SavedStack(save, load)] = "destroyed"
              \/ /\ outcome' = "aborted"
                 /\ \/ RefusesToDie
                    \/ SavedPoint(save, point, load) = "exit"
                    \/ SavedPoint(save, point, load) = "entry" /\ load = Main
<1> DEFINE saved == Saved(save, point)
<1>1. /\ saved[load].stack = SavedStack(save, load)
      /\ saved[load].point = SavedPoint(save, point, load)
  BY SwitchSaves
<1> HIDE DEF saved
<1> QED
  BY <1>1 DEF Switch, Fails, saved

-----------------------------------------------------------------------------
(* Typing.                                                                 *)

LEMMA InitTypeOK == FiberInit => TypeOK
  BY FiberAssumption DEF FiberInit, TypeOK, All, Status, Context, Rules

(* What is left of the fibers.                                             *)
LEMMA DestroyTypes ==
    ASSUME TypeOK, NEW refs, Destroy(Unreferenced(refs))
    PROVE  /\ life' \in [All -> {"unborn", "alive", "destroyed"}]
           /\ \A x \in All : life'[x] = IF life[x] = "alive" /\ x \notin refs
                                        THEN "destroyed" ELSE life[x]
  BY DEF TypeOK, Destroy, Unreferenced

LEMMA StepTypeOK == TypeOK /\ [FiberNext]_fiberVars => TypeOK'
<1> SUFFICES ASSUME TypeOK, [FiberNext]_fiberVars PROVE TypeOK'
  OBVIOUS
<1> USE FiberAssumption
<1>0. /\ Main \in All /\ Fibers \subseteq All
      /\ "user" \in Points /\ "exit" \in Points
      /\ threadFiber \in All \cup {None}
  BY DEF All, Points, TypeOK
<1>1. CASE GetThis
  <2>1. curFiber' \in All \cup {None} /\ threadFiber' = Main
    BY <1>0, <1>1 DEF GetThis, TypeOK
  <2>2. handles' \subseteq All
    BY <1>1, <2>1 DEF GetThis, TypeOK
  <2> QED
    BY <1>0, <1>1, <2>1, <2>2 DEF GetThis, TypeOK
<1>2. ASSUME NEW f \in Fibers, NewFiber(f) PROVE TypeOK'
  BY <1>0, <1>2 DEF NewFiber, TypeOK, Status
<1>3. ASSUME NEW f \in All, Drop(f) PROVE TypeOK'
  <2>1. life' \in [All -> {"unborn", "alive", "destroyed"}]
    BY <1>3, DestroyTypes DEF Drop
  <2>2. /\ misuse' \subseteq Rules /\ handles' \subseteq All
        /\ outcome' \in {"fine", "aborted"}
    BY <1>3 DEF Drop, TypeOK, Rules, Breaks
  <2> QED
    BY <1>3, <2>1, <2>2 DEF Drop, TypeOK
<1>4. ASSUME NEW f \in All, swapIn(f) PROVE TypeOK'
  <2>1. life' \in [All -> {"unborn", "alive", "destroyed"}]
    BY <1>4, DestroyTypes DEF swapIn
  <2>2. misuse' \subseteq Rules
    BY <1>4 DEF swapIn, TypeOK, Rules, Breaks
  <2>3. /\ on' \in All /\ ctx' \in [All -> Context]
        /\ outcome' \in {"fine", "undefined", "aborted"}
        /\ inMainFunc' \subseteq Fibers
    BY <1>0, <1>4, SwitchTypes DEF swapIn, TypeOK
  <2>4. /\ status' \in [All -> Status] /\ curFiber' = f
        /\ UNCHANGED <<handles, threadFiber>>
    BY <1>4 DEF swapIn, TypeOK, Status
  <2> QED
    BY <2>1, <2>2, <2>3, <2>4 DEF TypeOK
<1>5. ASSUME NEW f \in All, NEW s \in {"RUNNABLE", "SLEEPING"}, Yield(f, s)
      PROVE  TypeOK'
  <2>1. life' \in [All -> {"unborn", "alive", "destroyed"}]
    BY <1>5, DestroyTypes DEF Yield
  <2>2. misuse' \subseteq Rules
    BY <1>5 DEF Yield, TypeOK, Rules, Breaks
  <2>3. /\ on' \in All /\ ctx' \in [All -> Context]
        /\ outcome' \in {"fine", "undefined", "aborted"}
        /\ inMainFunc' \subseteq Fibers
    BY <1>0, <1>5, SwitchTypes DEF Yield, TypeOK
  <2>4. /\ status' \in [All -> Status] /\ curFiber' = threadFiber
        /\ UNCHANGED <<handles, threadFiber>>
    BY <1>5 DEF Yield, BackToMain, TypeOK, Status
  <2> QED
    BY <1>0, <2>1, <2>2, <2>3, <2>4 DEF TypeOK
<1>6. ASSUME NEW f \in All, NEW hs \in SUBSET All, NEW ms \in SUBSET Fibers,
             FiberExit(f, hs, ms), status' \in [All -> Status],
             misuse' \subseteq Rules
      PROVE  TypeOK'
  <2>1. life' \in [All -> {"unborn", "alive", "destroyed"}]
    BY <1>6, DestroyTypes DEF FiberExit
  <2>2. /\ on' \in All /\ ctx' \in [All -> Context]
        /\ outcome' \in {"fine", "undefined", "aborted"}
        /\ inMainFunc' \subseteq Fibers
    BY <1>0, <1>6, SwitchTypes DEF FiberExit
  <2>3. handles' = hs /\ curFiber' = threadFiber /\ threadFiber' = threadFiber
    BY <1>6 DEF FiberExit, BackToMain
  <2> QED
    BY <1>0, <1>6, <2>1, <2>2, <2>3 DEF TypeOK
<1>7. ASSUME NEW f \in Fibers, NEW s \in {"FREE", "EXCEPT"}, End(f, s)
      PROVE  TypeOK'
  <2>1. status' \in [All -> Status] /\ misuse' \subseteq Rules
    BY <1>7 DEF End, TypeOK, Status
  <2>2. /\ handles \in SUBSET All /\ inMainFunc \ {f} \in SUBSET Fibers
        /\ FiberExit(f, handles, inMainFunc \ {f})
    BY <1>7 DEF End, TypeOK
  <2> QED
    BY <1>0, <1>6, <2>1, <2>2
<1>8. ASSUME NEW f \in All, UserFiberExit(f) PROVE TypeOK'
  <2>1. status' \in [All -> Status] /\ misuse' \subseteq Rules
    BY <1>8 DEF UserFiberExit, TypeOK, Rules
  <2>2. PICK hs \in {handles, handles \ {f}} : FiberExit(f, hs, inMainFunc)
    BY <1>8 DEF UserFiberExit
  <2>3. hs \in SUBSET All /\ inMainFunc \in SUBSET Fibers
    BY DEF TypeOK
  <2> QED
    BY <1>6, <2>1, <2>2, <2>3
<1>9. ASSUME NEW f \in All \cup {None}, SetThis(f) PROVE TypeOK'
  <2>1. life' \in [All -> {"unborn", "alive", "destroyed"}]
    BY <1>9, DestroyTypes DEF SetThis
  <2>2. misuse' \subseteq Rules /\ outcome' \in {"fine", "aborted"}
    BY <1>9 DEF SetThis, TypeOK, Rules
  <2> QED
    BY <1>9, <2>1, <2>2 DEF SetThis, TypeOK
<1>10. ASSUME NEW f \in Fibers, ThrowOther(f) PROVE TypeOK'
  BY <1>10 DEF ThrowOther, TypeOK, Rules, objectVars, referenceVars
<1>11. CASE ThreadExits
  <2>1. life' \in [All -> {"unborn", "alive", "destroyed"}]
    BY <1>11, DestroyTypes DEF ThreadExits
  <2>2. outcome' \in {"aborted", "ended"}
    BY <1>11 DEF ThreadExits
  <2> QED
    BY <1>11, <2>1, <2>2 DEF ThreadExits, TypeOK
<1>12. CASE Over \/ UNCHANGED fiberVars
  BY <1>12 DEF Over, fiberVars, objectVars, referenceVars, TypeOK
<1> QED
  BY <1>1, <1>2, <1>3, <1>4, <1>5, <1>7, <1>8, <1>9, <1>10, <1>11, <1>12
  DEF FiberNext, swapOut, yieldSleeping, Return, Throw

(* The thread's pointers, the statuses and the contexts keep their types,  *)
(* whatever the user does.                                                 *)
THEOREM FibersTypeCorrect == FiberSpec => []TypeOK
  BY InitTypeOK, StepTypeOK, PTL DEF FiberSpec

-----------------------------------------------------------------------------
(* What holds of a thread that is fine, whatever rules are broken.         *)

(* The fibers referred to exist.  The stack the thread is on has the       *)
(* fiber's own reference, and so has every stack that can be resumed.      *)
Backed ==
    /\ \A x \in All : x \in handles \cup inMainFunc \cup {curFiber, threadFiber}
                      => life[x] = "alive"
    /\ \A f \in Fibers : ctx[f].point = "entry" => ctx[f].stack = f
    /\ \A f \in Fibers :
          on = f => /\ f \in inMainFunc
                    /\ \A x \in All : ctx[x].stack = f => ctx[x].point = "stale"
    /\ \A x \in All :
          ctx[x].point = "user" /\ ctx[x].stack \in Fibers =>
              ctx[x].stack \in inMainFunc

LEMMA InitBacked == FiberInit => Backed
<1> SUFFICES ASSUME FiberInit PROVE Backed
  OBVIOUS
<1>1. \A x \in All : ctx[x].stack = x /\ ctx[x].point = "entry"
  BY DEF FiberInit
<1> QED
  BY <1>1, FiberAssumption DEF FiberInit, Backed, All

(* A switch gives up at most the reference of the fiber that ends.         *)
LEMMA SwitchBacked ==
    ASSUME TypeOK, Backed, outcome = "fine", NEW save \in All,
           NEW point \in {"user", "exit"}, NEW load \in All,
           NEW ms \in SUBSET Fibers, ms \subseteq inMainFunc,
           \/ ms = inMainFunc
           \/ ms = inMainFunc \ {on} /\ save = on /\ point = "exit",
           Switch(save, point, load, ms), outcome' = "fine",
           \A x \in All : x \in handles' \cup ms \cup {curFiber', threadFiber'}
                           => life'[x] = "alive",
           life'[load] = "alive"
    PROVE  Backed'
<1>1. point \in Points
  BY DEF Points
<1>2. /\ on' = SavedStack(save, load)
      /\ SavedPoint(save, point, load) \in {"user", "entry"}
      /\ SavedPoint(save, point, load) = "entry" => load # Main
      /\ \A x \in All :
            /\ ctx'[x].stack = SavedStack(save, x)
            /\ ctx'[x].point = IF SavedStack(save, x) = on'
                               THEN "stale"
                               ELSE SavedPoint(save, point, x)
      /\ inMainFunc' = IF SavedPoint(save, point, load) = "entry"
                       THEN ms \cup {load} ELSE ms
  BY <1>1, Switched
<1>3. Fibers \subseteq All /\ \A x \in All : x = Main \/ x \in Fibers
  BY DEF All
<1>4. \A x \in All : x \in handles' \cup inMainFunc' \cup {curFiber', threadFiber'}
                      => life'[x] = "alive"
  BY <1>2
<1>5. \A f \in Fibers : ctx'[f].point = "entry" => ctx'[f].stack = f
  BY <1>2, <1>3 DEF Backed, SavedStack, SavedPoint
<1>6. \A x \in All :
          SavedPoint(save, point, x) = "user" /\ SavedStack(save, x) \in Fibers
              => SavedStack(save, x) \in ms
  BY <1>3 DEF Backed, SavedStack, SavedPoint
<1>7. \A f \in Fibers :
          on' = f => /\ f \in inMainFunc'
                     /\ \A x \in All : ctx'[x].stack = f => ctx'[x].point = "stale"
  <2> SUFFICES ASSUME NEW f \in Fibers, on' = f PROVE f \in inMainFunc'
    BY <1>2
  <2>1. CASE SavedPoint(save, point, load) = "user"
    BY <1>2, <1>6, <2>1
  <2>2. CASE SavedPoint(save, point, load) = "entry"
    <3>1. load \in Fibers /\ load # save
      BY <1>2, <1>3, <2>2 DEF SavedPoint
    <3>2. ctx[load].stack = load
      BY <2>2, <3>1 DEF Backed, SavedPoint
    <3> QED
      BY <1>2, <2>2, <3>1, <3>2 DEF SavedStack
  <2> QED
    BY <1>2, <2>1, <2>2
<1>8. \A x \in All :
          ctx'[x].point = "user" /\ ctx'[x].stack \in Fibers =>
              ctx'[x].stack \in inMainFunc'
  BY <1>2, <1>6
<1> QED
  BY <1>4, <1>5, <1>7, <1>8 DEF Backed

LEMMA StepBacked ==
    ASSUME TypeOK, Backed, outcome = "fine", FiberNext, outcome' = "fine"
    PROVE  Backed'
<1> USE FiberAssumption
<1>0. /\ Main \in All /\ Fibers \subseteq All /\ None \notin All
      /\ inMainFunc \in SUBSET Fibers /\ handles \subseteq All
  BY DEF All, TypeOK
<1>1. CASE GetThis
  <2>1. /\ threadFiber' = Main /\ UNCHANGED <<inMainFunc, ctx, on>>
        /\ handles' \subseteq handles \cup {curFiber'}
    BY <1>1 DEF GetThis
  <2>2. \A x \in All : x \in handles' \cup inMainFunc' \cup {curFiber', threadFiber'}
                        => life'[x] = "alive"
    <3>1. CASE threadFiber = None
      <4>1. curFiber' = Main /\ life' = [life EXCEPT ![Main] = "alive"]
        BY <1>1, <3>1 DEF GetThis
      <4> QED
        BY <1>0, <2>1, <4>1 DEF Backed, TypeOK
    <3>2. CASE threadFiber = Main
      <4>1. UNCHANGED <<curFiber, life>>
        BY <1>1, <3>2 DEF GetThis
      <4> QED
        BY <2>1, <3>2, <4>1 DEF Backed
    <3> QED
      BY <3>1, <3>2 DEF TypeOK
  <2> QED
    BY <2>1, <2>2 DEF Backed
<1>2. ASSUME NEW f \in Fibers, NewFiber(f) PROVE Backed'
  BY <1>0, <1>2 DEF NewFiber, Backed, TypeOK
<1>3. ASSUME NEW f \in All, Drop(f) PROVE Backed'
  <2>1. /\ handles' \subseteq handles
        /\ UNCHANGED <<inMainFunc, curFiber, threadFiber, ctx, on>>
        /\ \A x \in All : x \in handles' \cup inMainFunc
                                         \cup {curFiber, threadFiber}
                          => life'[x] = life[x]
    BY <1>3, DestroyTypes DEF Drop
  <2> QED
    BY <2>1 DEF Backed
<1>4. ASSUME NEW f \in All, swapIn(f) PROVE Backed'
  <2>1. /\ f \in handles /\ curFiber' = f /\ UNCHANGED <<handles, threadFiber>>
        /\ Switch(Main, "user", f, inMainFunc)
        /\ \A x \in All : x \in handles \cup inMainFunc \cup {f, threadFiber}
                          => life'[x] = life[x]
    BY <1>4, DestroyTypes DEF swapIn
  <2>2. \A x \in All : x \in handles' \cup inMainFunc \cup {curFiber', threadFiber'}
                        => life'[x] = "alive"
    BY <2>1 DEF Backed
  <2>3. life'[f] = "alive"
    BY <2>1, <2>2
  <2> QED
    BY <1>0, <2>1, <2>2, <2>3, SwitchBacked
<1>5. ASSUME NEW f \in All, NEW s, Yield(f, s) PROVE Backed'
  <2>1. /\ f \in handles /\ curFiber' = threadFiber
        /\ UNCHANGED <<handles, threadFiber>>
        /\ Switch(f, "user", Main, inMainFunc)
        /\ \A x \in All : x \in handles \cup inMainFunc \cup {threadFiber}
                          => life'[x] = life[x]
    BY <1>5, DestroyTypes DEF Yield, BackToMain
  <2>2. \A x \in All : x \in handles' \cup inMainFunc \cup {curFiber', threadFiber'}
                        => life'[x] = "alive"
    BY <2>1 DEF Backed
  <2>3. threadFiber = Main
    <3>1. "user" \in Points
      BY DEF Points
    <3> QED
      BY <1>0, <2>1, <3>1, Switched DEF TypeOK
  <2>4. life'[Main] = "alive"
    BY <1>0, <2>1, <2>2, <2>3
  <2> QED
    BY <1>0, <2>1, <2>2, <2>4, SwitchBacked
<1>6. ASSUME NEW f \in All, NEW hs \in SUBSET handles,
             NEW ms \in SUBSET Fibers, ms \subseteq inMainFunc,
             ms = inMainFunc \/ (ms = inMainFunc \ {on} /\ f = on),
             FiberExit(f, hs, ms)
      PROVE  Backed'
  <2>1. /\ handles' = hs /\ curFiber' = threadFiber /\ UNCHANGED threadFiber
        /\ Switch(f, "exit", Main, ms)
        /\ \A x \in All : x \in hs \cup ms \cup {threadFiber}
                          => life'[x] = life[x]
    BY <1>6, DestroyTypes DEF FiberExit, BackToMain
  <2>2. \A x \in All : x \in handles' \cup ms \cup {curFiber', threadFiber'}
                        => life'[x] = "alive"
    BY <1>6, <2>1 DEF Backed
  <2>3. threadFiber = Main
    <3>1. "exit" \in Points
      BY DEF Points
    <3> QED
      BY <1>0, <1>6, <2>1, <3>1, Switched DEF TypeOK
  <2> QED
    BY <1>0, <1>6, <2>1, <2>2, <2>3, SwitchBacked
<1>7. ASSUME NEW f \in Fibers, NEW s, End(f, s) PROVE Backed'
  <2>1. on = f /\ FiberExit(f, handles, inMainFunc \ {f})
    BY <1>7 DEF End
  <2> QED
    BY <1>0, <1>6, <2>1
<1>8. ASSUME NEW f \in All, UserFiberExit(f) PROVE Backed'
  <2>1. PICK hs \in {handles, handles \ {f}} : FiberExit(f, hs, inMainFunc)
    BY <1>8 DEF UserFiberExit
  <2>2. hs \in SUBSET handles /\ inMainFunc \subseteq inMainFunc
    OBVIOUS
  <2> QED
    BY <1>0, <1>6, <2>1, <2>2
<1>9. ASSUME NEW f \in All \cup {None}, SetThis(f) PROVE Backed'
  <2>1. /\ curFiber' = f /\ f \in handles \cup {None}
        /\ UNCHANGED <<handles, inMainFunc, threadFiber, ctx, on>>
        /\ \A x \in All : x \in handles \cup inMainFunc \cup {f, threadFiber}
                          => life'[x] = life[x]
    BY <1>9, DestroyTypes DEF SetThis
  <2> QED
    BY <1>0, <2>1 DEF Backed
<1>10. CASE \/ ThreadExits \/ Over
            \/ \E f \in Fibers : ThrowOther(f)
  BY <1>10 DEF ThreadExits, Over, ThrowOther
<1> QED
  BY <1>1, <1>2, <1>3, <1>4, <1>5, <1>7, <1>8, <1>9, <1>10
  DEF FiberNext, swapOut, yieldSleeping, Return, Throw

-----------------------------------------------------------------------------
(* The rest of the inductive invariant: while fibers yield themselves, and *)
(* SetThis() and FiberExit() are left to fiber.cpp.                        *)

Loose == misuse \cap {"yieldsOther", "internal"} # {}

(* Who is switched from has a main fiber to go back to, and not to its     *)
(* beginning.                                                              *)
Began ==
    /\ curFiber = None <=> threadFiber = None
    /\ on # Main => threadFiber = Main /\ ctx[Main].point # "entry"

(* A fiber's context is on its own stack.                                  *)
Stacks ==
    /\ \A f \in Fibers : ctx[f].stack = f
    /\ curFiber \in Fibers => on = curFiber
    /\ ctx[Main].point # "exit"

(* The fibers that exist are those referred to.                            *)
References ==
    /\ \A f \in Fibers : life[f] = "alive" => f \in handles \cup inMainFunc
    /\ life[Main] = "alive" => threadFiber = Main

(* What the status says of a fiber that is not inside its MainFunc(), and  *)
(* of the main fiber.                                                      *)
Ended == {"FREE", "EXCEPT"}
Statuses ==
    /\ \A f \in Fibers \ inMainFunc : status[f] \in Ended \cup {"INIT"}
    /\ \A f \in Fibers : ctx[f].point = "exit" => status[f] \in Ended
    /\ \A f \in Fibers : life[f] = "unborn" => ctx[f].point = "entry"
    /\ status[Main] \in Ended \/ misuse \cap {"mainYields", "mainEntered"} # {}

(* Fibers that are switched to from the main fiber only.                   *)
Orderly ==
    "nested" \notin misuse =>
        /\ curFiber = on \/ (curFiber = None /\ on = Main)
        /\ \A f \in Fibers : status[f] = "RUNNING" <=> f = on
        /\ on # Main => ctx[Main].stack = Main /\ ctx[Main].point = "user"
        /\ \A f \in Fibers : f # on => ctx[f].point # "stale"

Held ==
    misuse \cap {"nested", "droppedRunning"} = {} =>
        on = Main \/ on \in handles

Sound == Began /\ Stacks /\ References /\ Statuses /\ Orderly /\ Held

Inv ==
    /\ TypeOK
    /\ outcome = "fine" => Backed /\ (~Loose => Sound)
    /\ NeverOnFreedStack
    /\ OnlyMisuseFails

LEMMA BackedLives ==
    ASSUME Backed
    PROVE  \A f \in Fibers :
               on = f \/ (\E x \in All : ctx[x] = [stack |-> f, point |-> "user"])
                   => f \in inMainFunc /\ life[f] = "alive"
  BY DEF Backed, All

LEMMA InitInv == FiberInit => Inv
<1> SUFFICES ASSUME FiberInit PROVE Inv
  OBVIOUS
<1>1. \A x \in All : ctx[x].stack = x /\ ctx[x].point = "entry"
  BY DEF FiberInit
<1>2. Main \in All /\ Fibers \subseteq All /\ Main \notin Fibers
  BY FiberAssumption DEF All
<1>3. Sound
  BY <1>1, <1>2, FiberAssumption
  DEF FiberInit, Sound, Began, Stacks, References, Statuses, Orderly, Held,
      Ended
<1>4. OnlyMisuseFails
  BY DEF FiberInit, OnlyMisuseFails
<1>5. NeverOnFreedStack
  BY InitBacked, BackedLives DEF NeverOnFreedStack
<1> QED
  BY <1>3, <1>4, <1>5, InitTypeOK, InitBacked DEF Inv

(* Nothing is freed as long as no reference is given up but a fiber's own. *)
LEMMA NothingGone ==
    ASSUME TypeOK, Sound, NEW refs,
           handles \cup inMainFunc \cup {threadFiber} \subseteq refs,
           Destroy(Unreferenced(refs))
    PROVE  /\ \A x \in All : life'[x] = life[x]
           /\ ~RefusesToDie
<1>1. \A x \in All : life[x] = "alive" => x \in refs
  BY DEF Sound, References, All
<1>2. \A x \in All : life'[x] = life[x]
  BY <1>1, DestroyTypes
<1> QED
  BY <1>2 DEF RefusesToDie

LEMMA GetThisSound ==
    ASSUME TypeOK, Sound, GetThis
    PROVE  Sound'
<1>1. /\ threadFiber' = Main /\ curFiber' # None
      /\ handles \subseteq handles' /\ handles' \subseteq handles \cup {curFiber'}
      /\ UNCHANGED <<status, inMainFunc, ctx, on, misuse>>
  BY FiberAssumption DEF GetThis, TypeOK, Sound, Began, All
<1>2. \/ /\ threadFiber = None /\ curFiber = None /\ on = Main
         /\ curFiber' = Main
         /\ \A f \in Fibers : life'[f] = life[f]
      \/ UNCHANGED <<curFiber, life>>
  BY FiberAssumption DEF GetThis, TypeOK, All, Sound, Began
<1> QED
  BY <1>1, <1>2, FiberAssumption
  DEF Sound, Began, Stacks, References, Statuses, Orderly, Held

LEMMA NewFiberSound ==
    ASSUME TypeOK, Backed, Sound, NEW f \in Fibers, NewFiber(f)
    PROVE  Sound'
<1>1. /\ life[f] = "unborn" /\ life'[f] = "alive" /\ status'[f] = "INIT"
      /\ \A x \in All : x # f => life'[x] = life[x] /\ status'[x] = status[x]
      /\ handles' = handles \cup {f}
      /\ UNCHANGED <<inMainFunc, curFiber, threadFiber, ctx, on, misuse>>
  BY DEF NewFiber, TypeOK, All
<1>2. Main \in All /\ Fibers \subseteq All /\ Main \notin Fibers
  BY FiberAssumption DEF All
<1>3. f # on /\ f # Main
  BY <1>1, <1>2 DEF Backed
<1>4. Began' /\ Stacks' /\ References' /\ Held'
  BY <1>1, <1>2 DEF Sound, Began, Stacks, References, Held
<1>5. Statuses'
  BY <1>1, <1>2 DEF Sound, Statuses, Ended
<1>6. Orderly'
  BY <1>1, <1>2, <1>3 DEF Sound, Orderly
<1> QED
  BY <1>4, <1>5, <1>6 DEF Sound

(* Giving up a handle frees the fiber unless its own reference is left.    *)
LEMMA DropSound ==
    ASSUME TypeOK, Backed, Sound, NEW f \in All, Drop(f)
    PROVE  /\ outcome' = "fine" => Sound'
           /\ OnlyMisuseFails'
<1>1. /\ f \in handles /\ handles' = handles \ {f} /\ outcome = "fine"
      /\ misuse \subseteq misuse'
      /\ f # Main /\ on = f => "droppedRunning" \in misuse'
      /\ status[f] = "INIT" => "droppedUnstarted" \in misuse'
      /\ outcome' = IF RefusesToDie THEN "aborted" ELSE "fine"
      /\ UNCHANGED <<status, inMainFunc, curFiber, threadFiber, ctx, on>>
  BY DEF Drop, Breaks
<1>2. Main \in All /\ Fibers \subseteq All /\ Main \notin Fibers
  BY FiberAssumption DEF All
<1>3. \A x \in All :
          life'[x] = IF /\ life[x] = "alive"
                        /\ x \notin (handles \ {f}) \cup inMainFunc
                                     \cup {curFiber, threadFiber}
                     THEN "destroyed" ELSE life[x]
  BY <1>1, DestroyTypes DEF Drop
<1>4. \A x \in All : life'[x] # life[x] => x = f /\ x \in Fibers \ inMainFunc
  BY <1>3 DEF Sound, References, All
<1>5. f \in Fibers /\ life'[f] = "alive" => f \in inMainFunc
  BY <1>1, <1>2, <1>3, FiberAssumption DEF Sound, Stacks, Backed, TypeOK
<1>6. Began' /\ Stacks'
  BY <1>1 DEF Sound, Began, Stacks
<1>7. References'
  BY <1>1, <1>2, <1>4, <1>5, <1>3 DEF Sound, References
<1>8. Statuses' /\ Orderly'
  BY <1>1, <1>2, <1>3 DEF Sound, Statuses, Orderly
<1>9. Held'
  BY <1>1, <1>2 DEF Sound, Held
<1>10. OnlyMisuseFails'
  <2>1. ASSUME outcome' = "aborted" PROVE "droppedUnstarted" \in misuse'
    <3>1. PICK x \in All : /\ life[x] = "alive" /\ life'[x] = "destroyed"
                           /\ Refused(x, status')
      BY <1>1, <2>1 DEF RefusesToDie
    <3>2. x = f /\ f \in Fibers \ inMainFunc
      BY <1>4, <3>1
    <3> QED
      BY <1>1, <3>1, <3>2 DEF Refused, Sound, Statuses, Ended
  <2> QED
    BY <1>1, <2>1 DEF OnlyMisuseFails
<1> QED
  BY <1>6, <1>7, <1>8, <1>9, <1>10 DEF Sound

(* The main fiber switched to from itself, which only changes its status.  *)
LEMMA MainToMain ==
    ASSUME TypeOK, Backed, outcome = "fine", threadFiber = Main,
           \A x \in Fibers : ctx[x].stack = x,
           \A x \in All : life'[x] = life[x],
           Switch(Main, "user", Main, inMainFunc)
    PROVE  /\ outcome' = "fine" /\ on' = on /\ inMainFunc' = inMainFunc
           /\ ctx'[Main].stack = on /\ ctx'[Main].point = "stale"
           /\ \A x \in Fibers :
                 /\ ctx'[x].stack = x
                 /\ ctx'[x].point = IF x = on THEN "stale" ELSE ctx[x].point
<1>1. /\ Main \in All /\ Fibers \subseteq All /\ Main \notin Fibers
      /\ "user" \in Points /\ on \in All /\ None # Main
  BY FiberAssumption DEF All, Points, TypeOK
<1>2. /\ SavedStack(Main, Main) = on
      /\ SavedPoint(Main, "user", Main) = "user"
      /\ \A x \in Fibers : /\ SavedStack(Main, x) = x
                           /\ SavedPoint(Main, "user", x) = ctx[x].point
  BY <1>1 DEF SavedStack, SavedPoint
<1>3. life[on] = "alive" /\ life[Main] = "alive" /\ ~RefusesToDie
  BY <1>1 DEF Backed, RefusesToDie, All
<1>4. outcome' = "fine"
  BY <1>1, <1>2, <1>3, SwitchFails
<1> QED
  BY <1>1, <1>2, <1>4, Switched

LEMMA MainSound ==
    ASSUME TypeOK, Backed, Sound, outcome = "fine", threadFiber = Main,
           \A x \in All : life'[x] = life[x],
           Switch(Main, "user", Main, inMainFunc),
           curFiber' = Main, UNCHANGED <<handles, threadFiber>>,
           \A x \in Fibers : status'[x] = status[x],
           misuse \subseteq misuse',
           misuse' \cap {"mainYields", "mainEntered"} # {},
           on = Main \/ "nested" \in misuse'
    PROVE  outcome' = "fine" /\ Sound'
<1>1. Main \in All /\ Fibers \subseteq All /\ Main \notin Fibers
  BY FiberAssumption DEF All
<1>2. /\ outcome' = "fine" /\ on' = on /\ inMainFunc' = inMainFunc
      /\ ctx'[Main].stack = on /\ ctx'[Main].point = "stale"
      /\ \A x \in Fibers :
            /\ ctx'[x].stack = x
            /\ ctx'[x].point = IF x = on THEN "stale" ELSE ctx[x].point
  BY MainToMain DEF Sound, Stacks
<1>3. Began' /\ Stacks' /\ References' /\ Held'
  BY <1>1, <1>2, FiberAssumption
  DEF Sound, Began, Stacks, References, Held
<1>4. Statuses'
  BY <1>1, <1>2 DEF Sound, Statuses, Backed
<1>5. Orderly'
  BY <1>1, <1>2 DEF Sound, Orderly
<1> QED
  BY <1>2, <1>3, <1>4, <1>5 DEF Sound

LEMMA SwapInSound ==
    ASSUME TypeOK, Backed, Sound, NEW f \in All, swapIn(f)
    PROVE  /\ outcome' = "fine" => Sound'
           /\ OnlyMisuseFails'
<1>1. /\ f \in handles /\ curFiber' = f /\ outcome = "fine"
      /\ misuse \subseteq misuse'
      /\ threadFiber = None => "noMainFiber" \in misuse'
      /\ on # Main => "nested" \in misuse'
      /\ f = Main => "mainEntered" \in misuse'
      /\ f # Main /\ status[f] \in Ended => "finishedAgain" \in misuse'
      /\ Switch(Main, "user", f, inMainFunc)
      /\ UNCHANGED <<handles, threadFiber>>
  BY DEF swapIn, Breaks, Ended
<1>2. /\ handles \subseteq All /\ inMainFunc \subseteq Fibers
      /\ Main \in All /\ Fibers \subseteq All /\ Main \notin Fibers
      /\ \A x \in All : x = Main \/ x \in Fibers
      /\ "user" \in Points /\ None # Main /\ threadFiber \in {Main, None}
  BY FiberAssumption DEF TypeOK, All, Points
<1>3. /\ status'[f] = "RUNNING"
      /\ \A x \in All : x # f => status'[x] = status[x]
  BY <1>2 DEF swapIn, TypeOK
<1>4. (\A x \in All : life'[x] = life[x]) /\ ~RefusesToDie
  BY NothingGone DEF swapIn
<1>5. CASE f = Main
  <2>1. threadFiber = Main
    BY <1>1, <1>2, <1>5 DEF Backed, Sound, References
  <2> QED
    BY <1>1, <1>2, <1>3, <1>4, <1>5, <2>1, MainSound DEF OnlyMisuseFails
<1>6. CASE f \in Fibers
  <2>1. /\ SavedStack(Main, f) = f /\ SavedPoint(Main, "user", f) = ctx[f].point
        /\ SavedStack(Main, Main) = on /\ SavedPoint(Main, "user", Main) = "user"
        /\ \A x \in Fibers : /\ SavedStack(Main, x) = x
                             /\ SavedPoint(Main, "user", x) = ctx[x].point
    BY <1>2, <1>6 DEF SavedStack, SavedPoint, Sound, Stacks
  <2>2. CASE outcome' = "fine"
    <3>1. /\ on' = f /\ ctx[f].point \in {"user", "entry"}
          /\ \A x \in All :
                /\ ctx'[x].stack = SavedStack(Main, x)
                /\ ctx'[x].point = IF SavedStack(Main, x) = on'
                                   THEN "stale"
                                   ELSE SavedPoint(Main, "user", x)
          /\ inMainFunc' = IF ctx[f].point = "entry"
                           THEN inMainFunc \cup {f} ELSE inMainFunc
          /\ threadFiber = Main
      BY <1>1, <1>2, <2>1, <2>2, Switched
    <3>2. /\ \A x \in Fibers : /\ ctx'[x].stack = x
                               /\ x # f => ctx'[x].point = ctx[x].point
          /\ ctx'[f].point = "stale"
          /\ ctx'[Main].stack = on
          /\ ctx'[Main].point \in {"user", "stale"}
          /\ on # f => ctx'[Main].point = "user"
      BY <1>2, <1>6, <2>1, <3>1
    <3>3. f \in inMainFunc' /\ inMainFunc \subseteq inMainFunc'
          /\ inMainFunc' \subseteq inMainFunc \cup {f}
      BY <1>6, <1>2, <2>1, <3>1 DEF Backed, Sound, Stacks
    <3>4. on # f
      BY <1>2, <1>6, <3>1 DEF Backed, Sound, Stacks
    <3>5. Began' /\ Stacks'
      BY <1>1, <1>2, <1>6, <3>1, <3>2, FiberAssumption DEF Began, Stacks
    <3>6. References'
      BY <1>1, <1>2, <1>4, <3>3 DEF Sound, References
    <3>7. Statuses'
      BY <1>1, <1>2, <1>3, <1>4, <1>6, <3>2, <3>3
      DEF Sound, Statuses, Backed
    <3>8. Orderly'
      BY <1>1, <1>2, <1>3, <1>6, <3>1, <3>2, <3>4 DEF Sound, Orderly
    <3>9. Held'
      BY <1>1, <3>1 DEF Held
    <3> QED
      BY <2>2, <3>5, <3>6, <3>7, <3>8, <3>9 DEF Sound, OnlyMisuseFails
  <2>3. CASE outcome' # "fine"
    <3>1. life[f] = "alive" /\ (threadFiber = Main => life[Main] = "alive")
      BY <1>1, <1>2 DEF Backed
    <3>2. \/ /\ outcome' = "undefined"
             /\ ctx[f].point = "stale" \/ threadFiber = None
          \/ outcome' = "aborted" /\ ctx[f].point = "exit"
      BY <1>1, <1>2, <1>4, <1>6, <2>1, <2>3, <3>1, SwitchFails
    <3>3. ctx[f].point = "stale" => "nested" \in misuse'
      BY <1>1, <1>2, <1>6 DEF Sound, Orderly
    <3>4. ctx[f].point = "exit" => "finishedAgain" \in misuse'
      BY <1>1, <1>2, <1>6 DEF Sound, Statuses
    <3> QED
      BY <1>1, <2>3, <3>2, <3>3, <3>4 DEF OnlyMisuseFails
  <2> QED
    BY <2>2, <2>3
<1> QED
  BY <1>2, <1>5, <1>6

(* A switch back to the main fiber from the fiber the thread is on.        *)
LEMMA BackFromFiber ==
    ASSUME TypeOK, Backed, Sound, outcome = "fine", NEW f \in Fibers, on = f,
           NEW point \in Points, NEW ms, Switch(f, point, Main, ms),
           life'[f] = life[f], life'[Main] = life[Main], ~RefusesToDie
    PROVE  /\ outcome' = "fine" =>
                 /\ on' = ctx[Main].stack /\ on' # f
                 /\ ctx[Main].point = "user"
                 /\ ctx'[f].stack = f /\ ctx'[f].point = point
                 /\ ctx'[Main].stack = on' /\ ctx'[Main].point = "stale"
                 /\ \A x \in Fibers : ctx'[x].stack = x
                 /\ \A x \in Fibers \ {f} :
                       ctx'[x].point = IF x = on' THEN "stale"
                                                  ELSE ctx[x].point
                 /\ inMainFunc' = ms
           /\ outcome' # "fine" =>
                 outcome' = "undefined" /\ "nested" \in misuse
<1>1. /\ Main \in All /\ f \in All /\ Fibers \subseteq All /\ f # Main
      /\ None # Main
  BY FiberAssumption DEF All
<1>2. /\ SavedStack(f, Main) = ctx[Main].stack
      /\ SavedPoint(f, point, Main) = ctx[Main].point
      /\ SavedStack(f, f) = f /\ SavedPoint(f, point, f) = point
      /\ \A x \in Fibers : SavedStack(f, x) = x
      /\ \A x \in Fibers \ {f} : SavedPoint(f, point, x) = ctx[x].point
  BY <1>1 DEF SavedStack, SavedPoint, Sound, Stacks
<1>3. /\ ctx[Main].point # "entry" /\ ctx[Main].point # "exit"
      /\ threadFiber = Main /\ life[Main] = "alive" /\ life[f] = "alive"
  BY <1>1 DEF Backed, Sound, Began, Stacks
<1>4. CASE outcome' = "fine"
  <2>1. /\ on' = ctx[Main].stack /\ ctx[Main].point = "user"
        /\ \A x \in All :
              /\ ctx'[x].stack = SavedStack(f, x)
              /\ ctx'[x].point = IF SavedStack(f, x) = on'
                                 THEN "stale" ELSE SavedPoint(f, point, x)
        /\ inMainFunc' = ms
    BY <1>1, <1>2, <1>3, <1>4, Switched
  <2>2. on' # f
    BY <1>1, <2>1 DEF Backed
  <2> QED
    BY <1>1, <1>2, <1>4, <2>1, <2>2
<1>5. CASE outcome' # "fine"
  <2>1. /\ outcome' = "undefined"
        /\ ctx[Main].point = "stale" \/ life'[ctx[Main].stack] = "destroyed"
    BY <1>1, <1>2, <1>3, <1>5, SwitchFails
  <2>2. "nested" \notin misuse =>
            ctx[Main].point = "user" /\ ctx[Main].stack = Main
    BY <1>1 DEF Sound, Orderly
  <2> QED
    BY <1>1, <1>3, <1>5, <2>1, <2>2
<1> QED
  BY <1>4, <1>5

LEMMA YieldSound ==
    ASSUME TypeOK, Backed, Sound, NEW f \in All,
           NEW s \in {"RUNNABLE", "SLEEPING"}, Yield(f, s), ~Loose'
    PROVE  /\ outcome' = "fine" => Sound'
           /\ OnlyMisuseFails'
<1>1. /\ f \in handles /\ f = curFiber /\ outcome = "fine"
      /\ curFiber' = threadFiber /\ misuse \subseteq misuse'
      /\ f = Main => "mainYields" \in misuse'
      /\ misuse' \subseteq misuse \cup {"noMainFiber", "mainYields"}
      /\ Switch(f, "user", Main, inMainFunc)
      /\ UNCHANGED <<handles, threadFiber>>
  BY DEF Yield, Breaks, BackToMain, Loose
<1>2. /\ handles \subseteq All /\ inMainFunc \subseteq Fibers
      /\ Main \in All /\ Fibers \subseteq All /\ Main \notin Fibers
      /\ \A x \in All : x = Main \/ x \in Fibers
      /\ "user" \in Points /\ on \in All /\ None \notin All
  BY FiberAssumption DEF TypeOK, All, Points
<1>3. /\ status'[f] = s
      /\ \A x \in All : x # f => status'[x] = status[x]
  BY <1>2 DEF Yield, TypeOK
<1>4. threadFiber = Main
  BY <1>1, <1>2 DEF Sound, Began, TypeOK
<1>5. (\A x \in All : life'[x] = life[x]) /\ ~RefusesToDie
  BY NothingGone DEF Yield
<1>6. CASE f = Main
  <2>1. on = Main \/ "nested" \in misuse'
    BY <1>1, <1>2, <1>6 DEF Sound, Orderly
  <2> QED
    BY <1>1, <1>2, <1>3, <1>4, <1>5, <1>6, <2>1, MainSound
    DEF OnlyMisuseFails
<1>7. CASE f \in Fibers
  <2>1. on = f /\ f \in inMainFunc
    BY <1>1, <1>7 DEF Backed, Sound, Stacks
  <2>2. CASE outcome' = "fine"
    <3>1. /\ on' = ctx[Main].stack /\ on' # f
          /\ ctx[Main].point = "user"
          /\ ctx'[f].stack = f /\ ctx'[f].point = "user"
          /\ ctx'[Main].stack = on' /\ ctx'[Main].point = "stale"
          /\ \A x \in Fibers : ctx'[x].stack = x
          /\ \A x \in Fibers \ {f} :
                ctx'[x].point = IF x = on' THEN "stale" ELSE ctx[x].point
          /\ inMainFunc' = inMainFunc
      BY <1>1, <1>2, <1>5, <1>7, <2>1, <2>2, BackFromFiber
    <3>2. on' \in Fibers => on' \in inMainFunc
      BY <1>2, <3>1 DEF Backed
    <3>3. Began' /\ Stacks' /\ References'
      BY <1>1, <1>2, <1>4, <1>5, <2>1, <3>1
      DEF Sound, Began, Stacks, References
    <3>4. Statuses'
      BY <1>1, <1>2, <1>3, <1>5, <1>7, <2>1, <3>1, <3>2
      DEF Sound, Statuses, Backed
    <3>5. Orderly'
      BY <1>1, <1>2, <1>3, <1>4, <1>7, <2>1, <3>1 DEF Sound, Orderly
    <3>6. Held'
      BY <1>1, <1>2, <1>7, <2>1, <3>1 DEF Sound, Held, Orderly
    <3> QED
      BY <2>2, <3>3, <3>4, <3>5, <3>6 DEF Sound, OnlyMisuseFails
  <2>3. CASE outcome' # "fine"
    BY <1>1, <1>2, <1>5, <1>7, <2>1, <2>3, BackFromFiber DEF OnlyMisuseFails
  <2> QED
    BY <2>2, <2>3
<1> QED
  BY <1>2, <1>6, <1>7

LEMMA EndSound ==
    ASSUME TypeOK, Backed, Sound, outcome = "fine", NEW f \in Fibers,
           NEW s \in Ended, End(f, s)
    PROVE  /\ outcome' = "fine" => Sound'
           /\ OnlyMisuseFails'
<1> DEFINE ms == inMainFunc \ {f}
<1>1. /\ outcome = "fine" /\ on = f /\ threadFiber = Main
      /\ curFiber' = Main /\ UNCHANGED <<handles, threadFiber, misuse>>
      /\ Switch(f, "exit", Main, ms)
  BY FiberAssumption DEF End, FiberExit, BackToMain, Sound, Began
<1>2. /\ handles \subseteq All /\ inMainFunc \subseteq Fibers
      /\ Main \in All /\ Fibers \subseteq All /\ Main \notin Fibers
      /\ \A x \in All : x = Main \/ x \in Fibers
      /\ "exit" \in Points /\ f \in inMainFunc /\ None # Main
  BY <1>1, FiberAssumption DEF TypeOK, All, Points, Backed
<1>3. /\ status'[f] = s
      /\ \A x \in All : x # f => status'[x] = status[x]
  BY <1>2 DEF End, TypeOK
<1>4. \A x \in All :
          life'[x] = IF life[x] = "alive" /\ x \notin handles \cup ms \cup {Main}
                     THEN "destroyed" ELSE life[x]
  BY <1>1, DestroyTypes DEF End, FiberExit, BackToMain
<1>5. \A x \in All : life'[x] # life[x] => x = f
  BY <1>4 DEF Sound, References, All
<1>6. life[f] = "alive" /\ life[Main] = "alive" /\ life'[Main] = life[Main]
  BY <1>1, <1>2, <1>4 DEF Backed
<1>7. ~RefusesToDie
  <2>1. ~Refused(f, status')
    BY <1>3 DEF Refused, Ended
  <2> QED
    BY <1>5, <2>1 DEF RefusesToDie
<1>8. CASE f \notin handles
  <2>1. life'[f] = "destroyed"
    BY <1>2, <1>4, <1>6, <1>8
  <2>2. outcome' = "undefined"
    BY <1>1, <1>7, <2>1 DEF Switch, Fails
  <2> QED
    BY <1>1, <1>2, <1>8, <2>2 DEF OnlyMisuseFails, Sound, Held
<1>9. CASE f \in handles
  <2>1. \A x \in All : life'[x] = life[x]
    BY <1>4, <1>5, <1>9
  <2>2. CASE outcome' = "fine"
    <3>1. /\ on' = ctx[Main].stack /\ on' # f
          /\ ctx[Main].point = "user"
          /\ ctx'[f].stack = f /\ ctx'[f].point = "exit"
          /\ ctx'[Main].stack = on' /\ ctx'[Main].point = "stale"
          /\ \A x \in Fibers : ctx'[x].stack = x
          /\ \A x \in Fibers \ {f} :
                ctx'[x].point = IF x = on' THEN "stale" ELSE ctx[x].point
          /\ inMainFunc' = ms
      BY <1>1, <1>2, <1>7, <2>1, <2>2, BackFromFiber
    <3>2. on' \in Fibers => on' \in ms
      BY <1>2, <3>1 DEF Backed
    <3>3. Began' /\ Stacks' /\ References'
      BY <1>1, <1>2, <1>9, <2>1, <3>1 DEF Sound, Began, Stacks, References
    <3>4. Statuses'
      BY <1>1, <1>2, <1>3, <1>6, <2>1, <3>1, <3>2
      DEF Sound, Statuses, Backed
    <3>5. Orderly'
      BY <1>1, <1>2, <1>3, <3>1 DEF Sound, Orderly, Ended
    <3>6. Held'
      BY <1>1, <1>2, <3>1 DEF Sound, Held, Orderly
    <3> QED
      BY <2>2, <3>3, <3>4, <3>5, <3>6 DEF Sound, OnlyMisuseFails
  <2>3. CASE outcome' # "fine"
    BY <1>1, <1>2, <1>7, <2>1, <2>3, BackFromFiber DEF OnlyMisuseFails
  <2> QED
    BY <2>2, <2>3
<1> QED
  BY <1>8, <1>9

LEMMA ThreadExitsSound ==
    ASSUME TypeOK, Backed, Sound, ThreadExits
    PROVE  outcome' # "fine" /\ OnlyMisuseFails'
<1>1. /\ on = Main /\ UNCHANGED <<status, misuse>>
      /\ outcome' = IF RefusesToDie THEN "aborted" ELSE "ended"
      /\ \A x \in All :
            life'[x] = IF life[x] = "alive" /\ x \notin handles \cup inMainFunc
                       THEN "destroyed" ELSE life[x]
  BY DestroyTypes DEF ThreadExits
<1>2. RefusesToDie => Refused(Main, status)
  BY <1>1 DEF RefusesToDie, Refused, Sound, References, All
<1>3. Refused(Main, status) => misuse \cap {"mainYields", "mainEntered"} # {}
  BY DEF Refused, Sound, Statuses, Ended
<1> QED
  BY <1>1, <1>2, <1>3 DEF OnlyMisuseFails

(* A thread that aborts has freed no stack that is in use.                 *)
LEMMA AbortLives ==
    ASSUME TypeOK, Backed, Sound, FiberNext, outcome = "fine",
           outcome' = "aborted", Asymmetric',
           "droppedRunning" \notin misuse'
    PROVE  NeverOnFreedStack'
<1>1. Fibers \subseteq All
  BY DEF All
<1>2. SUFFICES UNCHANGED <<ctx, on>> /\ \A f \in inMainFunc : life'[f] = life[f]
  BY BackedLives DEF NeverOnFreedStack
<1>3. \A save, point, load, ms :
          Switch(save, point, load, ms) => UNCHANGED <<ctx, on>>
  BY DEF Switch, Fails
<1>4. \A refs : /\ inMainFunc \subseteq refs
                /\ Destroy(Unreferenced(refs))
                => \A f \in inMainFunc : life'[f] = life[f]
  BY <1>1, DestroyTypes DEF TypeOK
<1>5. ASSUME NEW f \in All, Drop(f) \/ swapIn(f) \/ (\E s : Yield(f, s))
      PROVE  UNCHANGED <<ctx, on>> /\ \A g \in inMainFunc : life'[g] = life[g]
  <2>1. CASE Drop(f)
    BY <1>4, <2>1 DEF Drop
  <2>2. CASE swapIn(f)
    BY <1>3, <1>4, <2>2 DEF swapIn
  <2>3. ASSUME NEW s, Yield(f, s)
        PROVE  UNCHANGED <<ctx, on>> /\ \A g \in inMainFunc : life'[g] = life[g]
    BY <1>3, <1>4, <2>3 DEF Yield
  <2> QED
    BY <1>5, <2>1, <2>2, <2>3
<1>6. ASSUME NEW f \in Fibers, NEW s, End(f, s)
      PROVE  UNCHANGED <<ctx, on>> /\ \A g \in inMainFunc : life'[g] = life[g]
  <2>1. f \in handles
    BY <1>6, FiberAssumption DEF End, Asymmetric, Sound, Held
  <2>2. inMainFunc \subseteq handles \cup (inMainFunc \ {f})
                                    \cup {BackToMain, threadFiber}
    BY <2>1
  <2> QED
    BY <1>3, <1>4, <1>6, <2>2 DEF End, FiberExit
<1>7. CASE ThreadExits
  BY <1>4, <1>7 DEF ThreadExits
<1>8. ASSUME NEW f, GetThis \/ NewFiber(f) \/ UserFiberExit(f) \/ SetThis(f)
      PROVE  FALSE
  BY <1>8 DEF GetThis, NewFiber, UserFiberExit, SetThis, Asymmetric
<1>9. ASSUME NEW f, ThrowOther(f)
      PROVE  UNCHANGED <<ctx, on>> /\ \A g \in inMainFunc : life'[g] = life[g]
  BY <1>9 DEF ThrowOther, objectVars
<1> QED
  BY <1>5, <1>6, <1>7, <1>8, <1>9
  DEF FiberNext, swapOut, yieldSleeping, Return, Throw, Over

LEMMA MisuseStays == FiberNext => misuse \subseteq misuse'
  BY DEF FiberNext, GetThis, NewFiber, Drop, swapIn, swapOut, yieldSleeping,
         Yield, UserFiberExit, SetThis, Return, Throw, End, ThrowOther,
         ThreadExits, Over, fiberVars

LEMMA StepInv == Inv /\ [FiberNext]_fiberVars => Inv'
<1> SUFFICES ASSUME Inv, [FiberNext]_fiberVars
             PROVE  /\ outcome' = "fine" => Backed' /\ (~Loose' => Sound')
                    /\ NeverOnFreedStack' /\ OnlyMisuseFails'
  BY StepTypeOK DEF Inv
<1>1. CASE outcome # "fine" \/ UNCHANGED fiberVars
  <2>1. UNCHANGED fiberVars
    BY <1>1 DEF FiberNext, GetThis, NewFiber, Drop, swapIn, swapOut,
                yieldSleeping, Yield, UserFiberExit, SetThis, Return, Throw,
                End, FiberExit, ThrowOther, ThreadExits, Over
  <2>2. outcome' = outcome /\ NeverOnFreedStack' /\ OnlyMisuseFails'
    BY <2>1 DEF Inv, NeverOnFreedStack, Asymmetric, OnlyMisuseFails, fiberVars,
                objectVars
  <2>3. Backed => Backed'
    BY <2>1 DEF Backed, fiberVars, objectVars, referenceVars
  <2>4. (Loose <=> Loose') /\ (Sound => Sound')
    BY <2>1
    DEF Loose, Sound, Began, Stacks, References, Statuses, Orderly, Held,
        fiberVars, objectVars, referenceVars
  <2> QED
    BY <2>2, <2>3, <2>4 DEF Inv
<1>2. CASE outcome = "fine" /\ FiberNext
  <2>0. TypeOK /\ Backed /\ outcome = "fine"
    BY <1>2 DEF Inv
  <2>1. outcome' = "fine" => Backed'
    BY <1>2, <2>0, StepBacked
  <2>2. ~Loose' => Sound
    BY <1>2, MisuseStays DEF Inv, Loose
  <2>3. NeverOnFreedStack'
    <3>1. CASE outcome' = "fine"
      <4>1. Backed'
        BY <2>1, <3>1
      <4>2. \A f \in Fibers :
                on' = f \/ (\E x \in All : ctx'[x] = [stack |-> f, point |-> "user"])
                    => life'[f] = "alive"
        BY <4>1 DEF Backed, All
      <4> QED
        BY <4>2 DEF NeverOnFreedStack
    <3>2. CASE /\ outcome' = "aborted" /\ Asymmetric'
               /\ "droppedRunning" \notin misuse'
      <4>1. Sound
        BY <2>2, <3>2 DEF Asymmetric, Loose
      <4> QED
        BY <1>2, <2>0, <3>2, <4>1, AbortLives
    <3> QED
      BY <3>1, <3>2 DEF NeverOnFreedStack
  <2>4. CASE Loose'
    BY <2>1, <2>3, <2>4 DEF Loose, OnlyMisuseFails
  <2>5. CASE ~Loose'
    <3>1. Sound
      BY <2>2, <2>5
    <3> SUFFICES (outcome' = "fine" => Sound') /\ OnlyMisuseFails'
      BY <2>1, <2>3
    <3>2. CASE GetThis
      BY <2>0, <3>1, <3>2, GetThisSound DEF GetThis, OnlyMisuseFails
    <3>3. ASSUME NEW f \in Fibers, NewFiber(f)
          PROVE  (outcome' = "fine" => Sound') /\ OnlyMisuseFails'
      BY <2>0, <3>1, <3>3, NewFiberSound DEF NewFiber, OnlyMisuseFails
    <3>4. ASSUME NEW f \in All,
                 Drop(f) \/ swapIn(f) \/ swapOut(f) \/ yieldSleeping(f)
          PROVE  (outcome' = "fine" => Sound') /\ OnlyMisuseFails'
      BY <2>0, <2>5, <3>1, <3>4, DropSound, SwapInSound, YieldSound
      DEF swapOut, yieldSleeping
    <3>5. ASSUME NEW f \in Fibers, Return(f) \/ Throw(f)
          PROVE  (outcome' = "fine" => Sound') /\ OnlyMisuseFails'
      BY <2>0, <3>1, <3>5, EndSound DEF Return, Throw, Ended
    <3>6. ASSUME NEW f \in Fibers, ThrowOther(f)
          PROVE  (outcome' = "fine" => Sound') /\ OnlyMisuseFails'
      BY <3>6 DEF ThrowOther, OnlyMisuseFails
    <3>7. ASSUME NEW f, UserFiberExit(f) \/ SetThis(f)
          PROVE  FALSE
      BY <2>5, <3>7 DEF UserFiberExit, SetThis, Loose
    <3>8. CASE ThreadExits
      BY <2>0, <3>1, <3>8, ThreadExitsSound
    <3> QED
      BY <1>2, <3>2, <3>3, <3>4, <3>5, <3>6, <3>7, <3>8 DEF FiberNext, Over
  <2> QED
    BY <2>4, <2>5
<1> QED
  BY <1>1, <1>2

LEMMA InvHolds == FiberSpec => []Inv
  BY InitInv, StepInv, PTL DEF FiberSpec

(* While fibers are entered from the main fiber and leave themselves,      *)
(* GetThis() is the fiber whose stack the thread is on, and no other child *)
(* is RUNNING.                                                             *)
THEOREM CurrentIsRunning == FiberSpec => []CurrentRuns
<1>1. Inv => CurrentRuns
  <2> SUFFICES ASSUME Inv, outcome = "fine", threadFiber = Main, Asymmetric
               PROVE  /\ curFiber = on
                      /\ \A f \in Fibers : status[f] = "RUNNING" <=> f = on
                      /\ on # Main => ctx[Main] = [stack |-> Main, point |-> "user"]
    BY DEF CurrentRuns
  <2>1. Sound /\ "nested" \notin misuse
    BY DEF Inv, Loose, Asymmetric
  <2>2. curFiber # None /\ ctx[Main] \in Context
    BY <2>1, FiberAssumption DEF Inv, TypeOK, All, Sound, Began
  <2>3. ctx[Main] = [stack |-> ctx[Main].stack, point |-> ctx[Main].point]
    BY <2>2 DEF Context
  <2> QED
    BY <2>1, <2>2, <2>3 DEF Sound, Orderly
<1> QED
  BY <1>1, InvHolds, PTL

(* The thread never executes on the stack of a fiber that was freed, and   *)
(* nothing that a switch could resume was freed, whatever the user does.   *)
THEOREM StacksLive == FiberSpec => []NeverOnFreedStack
<1>1. Inv => NeverOnFreedStack
  BY DEF Inv
<1> QED
  BY <1>1, InvHolds, PTL

(* What is undefined or aborts goes back to a rule the user has broken,    *)
(* whichever public members it calls on whichever fibers.                  *)
THEOREM MisuseOnly == FiberSpec => []OnlyMisuseFails
<1>1. Inv => OnlyMisuseFails
  BY DEF Inv
<1> QED
  BY <1>1, InvHolds, PTL

(* No step takes f away from where it is stranded.                         *)
LEMMA StepStranded ==
    ASSUME TypeOK, Backed, Sound, FiberNext, outcome = "fine",
           NEW f \in Fibers, Stranded(f), Asymmetric'
    PROVE  Stranded(f)' /\ f \in inMainFunc'
<1> DEFINE Stays == /\ life'[f] = "alive" /\ f \notin handles'
                    /\ f \in inMainFunc'
                    /\ on' # f /\ ctx'[f].point = "user"
<1>0. /\ life[f] = "alive" /\ f \notin handles /\ f \in inMainFunc
      /\ on # f /\ ctx[f].point = "user" /\ "nested" \notin misuse
      /\ curFiber # f /\ ~Loose'
  BY DEF Stranded, Sound, References, Stacks, Asymmetric, Loose
<1>1. /\ Main \in All /\ f \in All /\ Fibers \subseteq All /\ f # Main
      /\ \A x \in All : x = Main \/ x \in Fibers
      /\ {"user", "exit"} \subseteq Points
      /\ \A x \in Fibers : ctx[x].stack = x
  BY FiberAssumption DEF All, Points, Sound, Stacks
<1>2. on # Main => ctx[Main].stack = Main
  BY <1>0 DEF Sound, Orderly
<1>3. SUFFICES Stays
  BY DEF Stranded
<1>4. CASE GetThis
  BY <1>0, <1>1, <1>4 DEF GetThis, TypeOK
<1>5. ASSUME NEW g \in Fibers, NewFiber(g) PROVE Stays
  BY <1>0, <1>1, <1>5 DEF NewFiber, TypeOK
<1>6. ASSUME NEW g \in All, Drop(g) PROVE Stays
  BY <1>0, <1>1, <1>6 DEF Drop, Destroy, Unreferenced
(* A switch of the fiber the thread is on, to a context that is not f's.   *)
<1>7. ASSUME NEW save \in All, NEW point \in {"user", "exit"}, NEW load \in All,
             NEW ms, f \in ms, Switch(save, point, load, ms),
             save # f, SavedStack(save, load) # f,
             handles' = handles, life'[f] = "alive"
      PROVE  Stays
  <2>1. SavedStack(save, f) = f /\ SavedPoint(save, point, f) = "user"
    BY <1>0, <1>1, <1>7 DEF SavedStack, SavedPoint
  <2>2. point \in Points
    BY <1>1, <1>7
  <2>3. CASE outcome' = "fine"
    BY <1>0, <1>1, <1>7, <2>1, <2>2, <2>3, Switched
  <2>4. CASE outcome' # "fine"
    BY <1>0, <1>7, <2>2, <2>4, SwitchFails
  <2> QED
    BY <2>3, <2>4
<1>8. ASSUME NEW g \in All, swapIn(g) PROVE Stays
  <2>1. /\ g # f /\ on = Main /\ handles' = handles
        /\ Switch(Main, "user", g, inMainFunc)
    BY <1>0, <1>8 DEF swapIn, Breaks, Asymmetric
  <2>2. life'[f] = "alive"
    BY <1>0, <1>1, <1>8, NothingGone DEF swapIn
  <2>3. SavedStack(Main, g) # f
    BY <1>1, <2>1 DEF SavedStack
  <2> QED
    BY <1>0, <1>1, <1>7, <2>1, <2>2, <2>3
<1>9. ASSUME NEW g \in All, NEW s, Yield(g, s) PROVE Stays
  <2>1. /\ g = curFiber /\ g \in handles /\ handles' = handles
        /\ Switch(g, "user", Main, inMainFunc)
    BY <1>0, <1>9 DEF Yield, Breaks, Loose
  <2>2. life'[f] = "alive"
    BY <1>0, <1>1, <1>9, NothingGone DEF Yield
  <2>3. SavedStack(g, Main) # f
    BY <1>0, <1>1, <1>2, <2>1, FiberAssumption DEF SavedStack, Sound, Stacks
  <2> QED
    BY <1>0, <1>1, <1>7, <2>1, <2>2, <2>3
<1>10. ASSUME NEW g \in Fibers, NEW s, End(g, s) PROVE Stays
  <2> DEFINE ms == inMainFunc \ {g}
  <2>1. /\ on = g /\ g # f /\ f \in ms /\ handles' = handles
        /\ Switch(g, "exit", Main, ms)
    BY <1>0, <1>10 DEF End, FiberExit
  <2>2. life'[f] = "alive"
    BY <1>0, <1>1, <1>10, <2>1, DestroyTypes DEF End, FiberExit
  <2>3. SavedStack(g, Main) # f
    BY <1>1, <1>2, <2>1 DEF SavedStack
  <2> QED
    BY <1>1, <1>7, <2>1, <2>2, <2>3
<1>11. ASSUME NEW g, UserFiberExit(g) \/ SetThis(g) PROVE Stays
  BY <1>0, <1>11 DEF UserFiberExit, SetThis, Loose
<1>12. ASSUME NEW g \in Fibers, ThrowOther(g) PROVE Stays
  BY <1>0, <1>12 DEF ThrowOther, objectVars, referenceVars
<1>13. CASE ThreadExits
  BY <1>0, <1>1, <1>13 DEF ThreadExits, Destroy, Unreferenced
<1>14. CASE Over
  BY <1>0, <1>14 DEF Over
<1> HIDE DEF Stays
<1> QED
  BY <1>4, <1>5, <1>6, <1>8, <1>9, <1>10, <1>11, <1>12, <1>13, <1>14
  DEF FiberNext, swapOut, yieldSleeping, Return, Throw

(* A fiber left in the middle of its callback without a handle stays there *)
(* for good, as long as fibers are entered from the main fiber and leave   *)
(* themselves.                                                             *)
THEOREM StrandedForGood == FiberSpec => StrandedStays
<1>1. Inv /\ [FiberNext]_fiberVars =>
          [\A f \in Fibers :
              Stranded(f) /\ Asymmetric' =>
                  Stranded(f)' /\ f \in inMainFunc']_fiberVars
  <2> SUFFICES ASSUME Inv, FiberNext, fiberVars' # fiberVars,
                      NEW f \in Fibers, Stranded(f), Asymmetric'
               PROVE  Stranded(f)' /\ f \in inMainFunc'
    OBVIOUS
  <2>1. outcome = "fine"
    BY DEF FiberNext, GetThis, NewFiber, Drop, swapIn, swapOut, yieldSleeping,
           Yield, UserFiberExit, SetThis, Return, Throw, End, FiberExit,
           ThrowOther, ThreadExits, Over
  <2>2. TypeOK /\ Backed /\ Sound
    BY <2>1 DEF Inv, Loose, Stranded, Asymmetric
  <2> QED
    BY <2>1, <2>2, StepStranded
<1> QED
  BY <1>1, InvHolds, PTL DEF FiberSpec, StrandedStays
=============================================================================
