--------------------------- MODULE LoggingProofs ---------------------------
(***************************************************************************)
(* Proofs about Logging, for every set of threads and every number of      *)
(* records.                                                                *)
(***************************************************************************)
EXTENDS Logging, SequenceTheorems, TLAPS

-----------------------------------------------------------------------------
(* Types.                                                                  *)

(* A thread with a record in the making has begun one: so that counting it *)
(* out gives a number.                                                     *)
TypeInv ==
    /\ TypeOK
    /\ ~undefined => \A t \in Threads : pc[t] = "body" => begun[t] # 0

LEMMA InitTypeInv == Init => TypeInv
<1> SUFFICES ASSUME Init PROVE TypeInv
  OBVIOUS
<1>1. BackEnd!TypeOK
  BY DEF Init, BackEnd!Init, BackEnd!TypeOK, BackEnd!FirstLines
<1>2. "idle" \in Pcs /\ "start" \in Stages
  BY DEF Pcs, Stages
<1>3. streams \in Seq(Threads) /\ lines \in Seq(Line)
  BY DEF Init
<1> QED
  BY <1>1, <1>2, <1>3 DEF Init, TypeOK, TypeInv

(* What the output function does to the records and to the back end.       *)
LEMMA OutputType ==
    ASSUME TypeOK, NEW t \in Threads, NEW n \in Nat, Output(t, n)
    PROVE  /\ undefined' \in BOOLEAN
           /\ given' = [given EXCEPT ![t] = n]
           /\ given' \in [Threads -> Nat]
           /\ printed' \in [Threads -> Nat]
           /\ lines' \in Seq(Line)
           /\ BackEnd!TypeOK'
<1>1. given' = [given EXCEPT ![t] = n] /\ undefined' \in BOOLEAN
  BY DEF Output, TypeOK, Gone
<1>2. printed' \in [Threads -> Nat]
  BY DEF Output, TypeOK
<1>3. lines' \in Seq(Line)
  <2>1. [by |-> t, upto |-> n] \in Line
    BY DEF Line
  <2> QED
    <3>1. lines \in Seq(Line)
      BY DEF TypeOK
    <3>2. lines' = lines \/ lines' = Append(lines, [by |-> t, upto |-> n])
      BY DEF Output
    <3> QED
      BY <2>1, <3>1, <3>2
<1>4. BackEnd!TypeOK'
  BY DEF Output, TypeOK, BackEnd!TypeOK, BackEnd!Accept, backEndVars
<1> QED
  BY <1>1, <1>2, <1>3, <1>4 DEF TypeOK

(* The part of the state a thread's step leaves alone has its type still.  *)
LEMMA StepType ==
    ASSUME TypeOK, NEW t \in Threads, NEW from \in Pcs, NEW to \in Pcs,
           Step(t, from, to)
    PROVE  /\ pc' \in [Threads -> Pcs]
           /\ late' \in BOOLEAN /\ stage' \in Stages
           /\ asked' \in [Threads -> Nat] /\ releases' \in Nat
           /\ toBackEnd' \in BOOLEAN
  BY DEF TypeOK, Step, ShuttingDown

LEMMA RegisterType ==
    ASSUME TypeOK, NEW t \in Threads, Register(t)
    PROVE  TypeOK'
<1>1. streams' \in Seq(Threads)
  BY DEF Register, TypeOK
<1>2. Step(t, "stream", "stream")
  BY DEF Register
<1>3. "stream" \in Pcs
  BY DEF Pcs
<1> QED
  BY <1>1, <1>2, <1>3, StepType
  DEF Register, TypeOK, loggerVars, recordVars, backEndVars, BackEnd!TypeOK

(* A step that leaves records, streams and back end alone.                 *)
LEMMA FrameType ==
    ASSUME TypeOK,
           pc' \in [Threads -> Pcs], stage' \in Stages,
           late' \in BOOLEAN, asked' \in [Threads -> Nat],
           releases' \in Nat, toBackEnd' \in BOOLEAN,
           undefined' \in BOOLEAN,
           instance' \in Nat, created' \in Nat,
           UNCHANGED <<registryVars, recordVars, backEndVars>>
    PROVE  TypeOK'
  BY DEF TypeOK, registryVars, recordVars, backEndVars, BackEnd!TypeOK

LEMMA LogType ==
    ASSUME TypeOK, NEW t \in Threads, Log(t)
    PROVE  TypeOK'
<1>0. /\ {"idle", "levelLock", "levelReturn", "streamTest"} \subseteq Pcs
      /\ {"streamLock", "streamReturn", "stream", "body"} \subseteq Pcs
  BY DEF Pcs
<1>1. ASSUME NEW from \in Pcs, NEW missing \in Pcs, NEW there \in Pcs,
             TestInstance(t, from, missing, there)
      PROVE  TypeOK'
  <2>1. PICK to \in Pcs : Step(t, from, to)
    BY <1>1 DEF TestInstance
  <2>2. UNCHANGED <<loggerVars, registryVars, recordVars, undefined,
                    backEndVars>>
    BY <1>1 DEF TestInstance
  <2>3. instance' \in Nat /\ created' \in Nat /\ undefined' \in BOOLEAN
    BY <2>2 DEF loggerVars, TypeOK
  <2> QED
    BY <2>1, <2>2, <2>3, StepType, FrameType
<1>2. ASSUME NEW from \in Pcs, NEW to \in Pcs, Construct(t, from, to)
      PROVE  TypeOK'
  <2>1. Step(t, from, to)
    BY <1>2 DEF Construct
  <2>2. instance' \in Nat /\ created' \in Nat
    BY <1>2 DEF Construct, TypeOK, loggerVars
  <2>3. UNCHANGED <<registryVars, recordVars, backEndVars>>
    BY <1>2 DEF Construct
  <2>4. undefined' \in BOOLEAN
    BY <1>2 DEF Construct, TypeOK
  <2> QED
    BY <2>1, <2>2, <2>3, <2>4, StepType, FrameType
<1>3. ASSUME NEW from \in Pcs, NEW to \in Pcs, UseInstance(t, from, to)
      PROVE  TypeOK'
  <2>1. Step(t, from, to) /\ undefined' \in BOOLEAN
    BY <1>3 DEF UseInstance
  <2>2. UNCHANGED <<loggerVars, registryVars, recordVars, backEndVars>>
    BY <1>3 DEF UseInstance
  <2>3. instance' \in Nat /\ created' \in Nat
    BY <2>2 DEF loggerVars, TypeOK
  <2> QED
    BY <2>1, <2>2, <2>3, StepType, FrameType
<1>4. CASE makeLog(t)
  <2>1. Step(t, "stream", "body") /\ UNCHANGED <<loggerVars, registryVars>>
    BY <1>4 DEF makeLog
  <2>2. CASE Lost(t)
    BY <2>1, <2>2, <1>0, StepType, FrameType
    DEF Lost, TypeOK, loggerVars
  <2>3. CASE ~Lost(t)
    <3>1. begun' = [begun EXCEPT ![t] = @ + 1]
      BY <1>4, <2>3 DEF makeLog
    <3>2. PICK n \in {given[t], begun[t]} : Output(t, n)
      BY <1>4, <2>3 DEF makeLog
    <3>3. n \in Nat
      BY DEF TypeOK
    <3>4. /\ given' \in [Threads -> Nat] /\ printed' \in [Threads -> Nat]
          /\ lines' \in Seq(Line) /\ undefined' \in BOOLEAN
          /\ BackEnd!TypeOK'
      BY <3>2, <3>3, OutputType
    <3>5. begun' \in [Threads -> Nat]
      BY <3>1 DEF TypeOK
    <3> QED
      BY <1>0, <2>1, <3>4, <3>5, StepType
      DEF TypeOK, loggerVars, registryVars
  <2> QED
    BY <2>2, <2>3
<1>5. CASE Insert(t)
  <2>1. Step(t, "body", "idle") /\ UNCHANGED <<loggerVars, registryVars>>
    BY <1>5 DEF Insert
  <2>2. CASE Lost(t)
    BY <2>1, <2>2, <1>0, StepType, FrameType
    DEF Lost, TypeOK, loggerVars
  <2>3. CASE ~Lost(t)
    <3>1. begun' = begun
      BY <1>5, <2>3 DEF Insert
    <3>2. PICK n \in {given[t], begun[t] - 1, begun[t]} :
             n >= given[t] /\ Output(t, n)
      BY <1>5, <2>3 DEF Insert
    <3>3. n \in Nat
      BY <3>2 DEF TypeOK
    <3>4. /\ given' \in [Threads -> Nat] /\ printed' \in [Threads -> Nat]
          /\ lines' \in Seq(Line) /\ undefined' \in BOOLEAN
          /\ BackEnd!TypeOK'
      BY <3>2, <3>3, OutputType
    <3> QED
      BY <1>0, <2>1, <3>1, <3>4, StepType
      DEF TypeOK, loggerVars, registryVars
  <2> QED
    BY <2>2, <2>3
<1> QED
  BY <1>0, <1>1, <1>2, <1>3, <1>4, <1>5, RegisterType
  DEF Log, TestForLevel, ConstructForLevel, Wanted, Filtered,
      TestForStream, ConstructForStream, CallStream

LEMMA OwnerStep ==
    ASSUME TypeOK, NEW from \in Stages, NEW to \in Stages, Owner(from, to)
    PROVE  /\ pc' \in [Threads -> Pcs] /\ late' \in BOOLEAN
           /\ stage' \in Stages
  BY DEF Owner, TypeOK

LEMMA OwnerType ==
    ASSUME TypeInv,
           CreateAsyncLog \/ BeginShutdown \/ WatcherRelease \/ Stop
              \/ Stopped \/ Exit \/ DeleterRelease \/ Harden
    PROVE  TypeOK'
<1>0. /\ TypeOK
      /\ {"start", "up", "release", "clearing", "freeing", "stop"}
            \subseteq Stages
      /\ {"gone", "exitRelease", "exitClearing", "exitFreeing", "ended"}
            \subseteq Stages
  BY DEF TypeInv, Stages
<1>1. CASE CreateAsyncLog \/ Exit
  <2>1. PICK from \in Stages, to \in Stages : Owner(from, to)
    BY <1>0, <1>1 DEF CreateAsyncLog, Exit
  <2>2. UNCHANGED <<registryVars, recordVars, backEndVars>>
    BY <1>1 DEF CreateAsyncLog, Exit
  <2>3. /\ instance' \in Nat /\ created' \in Nat
        /\ undefined' \in BOOLEAN /\ toBackEnd' \in BOOLEAN
        /\ asked' \in [Threads -> Nat] /\ releases' \in Nat
    BY <1>0, <1>1 DEF CreateAsyncLog, Exit, TypeOK, loggerVars
  <2> QED
    BY <1>0, <2>1, <2>2, <2>3, OwnerStep, FrameType
<1>2. CASE BeginShutdown
  <2>1. PICK from \in Stages, to \in Stages : Owner(from, to)
    BY <1>0, <1>2 DEF BeginShutdown, ReleaseFirst
  <2>2. ASSUME NEW t \in Threads PROVE Finished(t) \in Nat
    <3>1. begun[t] \in Nat /\ (pc[t] = "body" => begun[t] # 0)
      BY <1>0, <2>1 DEF Owner, TypeOK, TypeInv
    <3> QED
      BY <3>1 DEF Finished
  <2>3. asked' \in [Threads -> Nat]
    BY <1>2, <2>2 DEF BeginShutdown
  <2>4. UNCHANGED <<registryVars, recordVars, backEndVars>>
    BY <1>2 DEF BeginShutdown
  <2>5. /\ instance' \in Nat /\ created' \in Nat
        /\ undefined' \in BOOLEAN /\ toBackEnd' \in BOOLEAN
        /\ releases' \in Nat
    BY <1>0, <1>2 DEF BeginShutdown, TypeOK, loggerVars
  <2> QED
    BY <1>0, <2>1, <2>3, <2>4, <2>5, OwnerStep, FrameType
<1>3. ASSUME NEW from \in Stages, NEW to \in Stages, NEW after \in Stages,
             TestRelease(from, to, after) \/ StreamsCleared(from, to)
      PROVE  TypeOK'
  <2>1. PICK next \in Stages : Owner(from, next)
    BY <1>3 DEF TestRelease, StreamsCleared
  <2>2. UNCHANGED <<registryVars, recordVars, backEndVars>>
    BY <1>3 DEF TestRelease, StreamsCleared
  <2>3. /\ instance' \in Nat /\ created' \in Nat
        /\ undefined' \in BOOLEAN /\ toBackEnd' \in BOOLEAN
        /\ asked' \in [Threads -> Nat] /\ releases' \in Nat
    BY <1>0, <1>3 DEF TestRelease, StreamsCleared, TypeOK, loggerVars
  <2> QED
    BY <1>0, <2>1, <2>2, <2>3, OwnerStep, FrameType
<1>4. ASSUME NEW from \in Stages, NEW to \in Stages, EndRelease(from, to)
      PROVE  TypeOK'
  <2>1. Owner(from, to)
    BY <1>4 DEF EndRelease
  <2>2. /\ tms' = {} /\ instance' = 0 /\ releases' = releases + 1
        /\ UNCHANGED <<created, streams, pointing, recordVars, toBackEnd,
                       undefined, backEndVars, asked>>
    BY <1>4 DEF EndRelease
  <2> QED
    BY <1>0, <2>1, <2>2, OwnerStep
    DEF TypeOK, recordVars, backEndVars, BackEnd!TypeOK
<1>5. ASSUME NEW at \in Stages, DestroyStream(at) PROVE TypeOK'
  <2>1. streams \in Seq(Threads) /\ streams # <<>>
    BY <1>0, <1>5 DEF DestroyStream, TypeOK
  <2>2. Head(streams) \in Threads /\ streams' \in Seq(Threads)
    BY <1>5, <2>1 DEF DestroyStream, Rest
  <2>3. AllOf(Head(streams)) \in Nat
    BY <1>0, <2>2 DEF AllOf, TypeOK
  <2>4. /\ Owner(at, at) /\ Output(Head(streams), AllOf(Head(streams)))
        /\ UNCHANGED <<loggerVars, tms, pointing, begun, toBackEnd, asked,
                       releases>>
    BY <1>5 DEF DestroyStream
  <2>5. /\ given' \in [Threads -> Nat] /\ printed' \in [Threads -> Nat]
        /\ lines' \in Seq(Line) /\ undefined' \in BOOLEAN
        /\ BackEnd!TypeOK'
    BY <1>0, <2>2, <2>3, <2>4, OutputType
  <2> QED
    BY <1>0, <2>2, <2>4, <2>5, OwnerStep DEF TypeOK, loggerVars
<1>6. CASE Stop \/ Stopped
  <2>1. PICK to \in Stages : Owner("stop", to)
    BY <1>0, <1>6 DEF Stop, Stopped
  <2>2. BackEnd!TypeOK'
    BY <1>0, <1>6 DEF Stop, Stopped, TypeOK, BackEnd!TypeOK,
                      BackEnd!Promise, BackEnd!Close
  <2>3. UNCHANGED <<loggerVars, registryVars, recordVars, toBackEnd,
                    undefined, asked, releases>>
    BY <1>6 DEF Stop, Stopped
  <2> QED
    BY <1>0, <2>1, <2>2, <2>3, OwnerStep
    DEF TypeOK, loggerVars, registryVars, recordVars
<1>7. CASE Harden
  <2>1. PICK n \in Len(disk)..accepted : disk' = BackEnd!FirstLines(n)
    BY <1>7 DEF Harden, BackEnd!Harden
  <2>2. n \in Nat
    BY <1>0 DEF TypeOK, BackEnd!TypeOK
  <2>3. disk' \in Seq(Nat)
    BY <2>1, <2>2 DEF BackEnd!FirstLines
  <2>4. BackEnd!TypeOK'
    BY <1>0, <1>7, <2>3 DEF Harden, BackEnd!Harden, BackEnd!TypeOK, TypeOK
  <2>5. UNCHANGED <<pc, loggerVars, registryVars, recordVars, toBackEnd,
                    stage, undefined, historyVars>>
    BY <1>7 DEF Harden
  <2> QED
    BY <1>0, <2>4, <2>5
    DEF TypeOK, loggerVars, registryVars, recordVars, historyVars
<1> QED
  BY <1>0, <1>1, <1>2, <1>3, <1>4, <1>5, <1>6, <1>7
  DEF WatcherRelease, DeleterRelease

LEMMA StepTypeInv == TypeInv /\ [Next]_vars => TypeInv'
<1> SUFFICES ASSUME TypeInv, [Next]_vars PROVE TypeInv'
  OBVIOUS
<1>1. CASE UNCHANGED vars
  BY <1>1 DEF vars, loggerVars, registryVars, recordVars, backEndVars,
              historyVars, TypeOK, BackEnd!TypeOK, TypeInv
<1>2. CASE Next
  <2>1. TypeOK'
    BY <1>1, <1>2, LogType, OwnerType DEF Next, Over, TypeInv
  <2>2. ASSUME ~undefined', NEW t \in Threads, pc'[t] = "body"
        PROVE  begun'[t] # 0
    <3> USE DEF TypeOK, TypeInv
    <3>1. ASSUME NEW u \in Threads, Log(u), ~makeLog(u)
          PROVE  begun'[t] # 0
      <4>1. ~undefined /\ (pc'[t] = "body" => pc[t] = "body")
        BY <3>1 DEF Log, TestForLevel, ConstructForLevel, Wanted, Filtered,
              TestForStream, ConstructForStream, CallStream, Insert,
              TestInstance, Construct, UseInstance, Register, Step, MayLog
      <4>2. begun' = begun
        BY <2>2, <3>1 DEF Log, TestForLevel, ConstructForLevel, Wanted,
              Filtered, TestForStream, ConstructForStream, CallStream,
              Insert, TestInstance, Construct, UseInstance, Register, Lost,
              recordVars
      <4> QED
        BY <2>2, <4>1, <4>2
    <3>2. ASSUME NEW u \in Threads, makeLog(u) PROVE begun'[t] # 0
      <4>1. begun' = [begun EXCEPT ![u] = @ + 1]
        BY <2>2, <3>2 DEF makeLog, Lost
      <4>2. ~undefined /\ pc' = [pc EXCEPT ![u] = "body"]
        BY <3>2 DEF makeLog, Step, MayLog
      <4> QED
        BY <2>2, <4>1, <4>2
    <3>3. CASE CreateAsyncLog \/ BeginShutdown \/ WatcherRelease \/ Stop
                 \/ Stopped \/ Exit \/ DeleterRelease \/ Harden
      <4>1. ~undefined /\ UNCHANGED <<pc, begun>>
        BY <3>3 DEF CreateAsyncLog, BeginShutdown, WatcherRelease, Stop,
              Stopped, Exit, DeleterRelease, Harden, TestRelease,
              DestroyStream, StreamsCleared, EndRelease, Owner, recordVars
      <4> QED
        BY <2>2, <4>1
    <3> QED
      BY <1>2, <2>2, <3>1, <3>2, <3>3, <1>1 DEF Next, Over
  <2> QED
    BY <2>1, <2>2 DEF TypeInv
<1> QED
  BY <1>1, <1>2

LEMMA TypeHolds == Spec => []TypeInv
  BY InitTypeInv, StepTypeInv, PTL DEF Spec

(* The Loggers, the registered streams, the counts of every thread and the *)
(* state of the back end keep their types (logger.h:14, flog.h:16).        *)
THEOREM TypeCorrect == Spec => []TypeOK
<1>1. TypeInv => TypeOK
  BY DEF TypeInv
<1> QED
  BY <1>1, TypeHolds, PTL
-----------------------------------------------------------------------------
(* Which steps touch what.                                                 *)

(* The steps of getInstance() and of the use of what it returns.           *)
InstanceStep(t) ==
    \/ TestForLevel(t) \/ ConstructForLevel(t) \/ Wanted(t) \/ Filtered(t)
    \/ TestForStream(t) \/ ConstructForStream(t) \/ CallStream(t)

LEMMA InstanceSteps ==
    ASSUME NEW t \in Threads, InstanceStep(t)
    PROVE  /\ ~undefined
           /\ late' = (late \/ ShuttingDown)
           /\ undefined' => instance = 0
           /\ \/ instance' = instance /\ created' = created
              \/ /\ instance = 0
                 /\ created' = created + 1 /\ instance' = created'
           /\ \A u \in Threads : pc'[u] = "body" => pc[u] = "body"
           /\ UNCHANGED <<stage, asked, releases, toBackEnd>>
           /\ UNCHANGED <<registryVars, recordVars, backEndVars>>
<1>1. ASSUME NEW from, NEW missing, NEW there, missing # "body",
             there # "body", TestInstance(t, from, missing, there)
      PROVE  /\ ~undefined /\ ~undefined'
             /\ late' = (late \/ ShuttingDown)
             /\ instance' = instance /\ created' = created
             /\ \A u \in Threads : pc'[u] = "body" => pc[u] = "body"
             /\ UNCHANGED <<stage, asked, releases, toBackEnd>>
             /\ UNCHANGED <<registryVars, recordVars, backEndVars>>
  BY <1>1 DEF TestInstance, Step, MayLog, loggerVars
<1>2. ASSUME NEW from, NEW to, to # "body", Construct(t, from, to)
      PROVE  /\ ~undefined /\ ~undefined'
             /\ late' = (late \/ ShuttingDown)
             /\ \/ instance' = instance /\ created' = created
                \/ /\ instance = 0
                   /\ created' = created + 1 /\ instance' = created'
             /\ \A u \in Threads : pc'[u] = "body" => pc[u] = "body"
             /\ UNCHANGED <<stage, asked, releases, toBackEnd>>
             /\ UNCHANGED <<registryVars, recordVars, backEndVars>>
  BY <1>2 DEF Construct, CheckedAgain, Step, MayLog, loggerVars
<1>3. ASSUME NEW from, NEW to, to # "body", UseInstance(t, from, to)
      PROVE  /\ ~undefined /\ (undefined' => instance = 0)
             /\ late' = (late \/ ShuttingDown)
             /\ instance' = instance /\ created' = created
             /\ \A u \in Threads : pc'[u] = "body" => pc[u] = "body"
             /\ UNCHANGED <<stage, asked, releases, toBackEnd>>
             /\ UNCHANGED <<registryVars, recordVars, backEndVars>>
  <2>1. undefined' => instance = 0
    <3>1. undefined' = (instance = 0)
      BY <1>3 DEF UseInstance
    <3> QED
      BY <3>1, Zenon
  <2> QED
    BY <1>3, <2>1 DEF UseInstance, Step, MayLog, loggerVars
<1>4. CASE TestForLevel(t) \/ TestForStream(t)
  BY <1>1, <1>4 DEF TestForLevel, TestForStream
<1>5. CASE ConstructForLevel(t) \/ ConstructForStream(t)
  BY <1>2, <1>5 DEF ConstructForLevel, ConstructForStream
<1>6. CASE Wanted(t) \/ Filtered(t) \/ CallStream(t)
  BY <1>3, <1>6 DEF Wanted, Filtered, CallStream
<1> QED
  BY <1>4, <1>5, <1>6 DEF InstanceStep

(* Every step, by what it may disturb; nothing follows an undefined one.   *)
LEMMA Cases ==
    ASSUME Next
    PROVE  \/ UNCHANGED vars
           \/ \E t \in Threads :
                 InstanceStep(t) \/ Register(t) \/ makeLog(t) \/ Insert(t)
           \/ CreateAsyncLog \/ BeginShutdown
           \/ TestRelease("release", "clearing", "stop")
           \/ TestRelease("exitRelease", "exitClearing", "ended")
           \/ DestroyStream("clearing") \/ DestroyStream("exitClearing")
           \/ StreamsCleared("clearing", "freeing")
           \/ StreamsCleared("exitClearing", "exitFreeing")
           \/ EndRelease("freeing", "stop")
           \/ EndRelease("exitFreeing", "ended")
           \/ Stop \/ Stopped \/ Exit \/ Harden
  BY DEF Next, Log, InstanceStep, Over, WatcherRelease, DeleterRelease

-----------------------------------------------------------------------------
(* One Logger at a time.                                                   *)

LoggerInv == created <= releases + (IF instance = 0 THEN 0 ELSE 1)

LEMMA StepLoggerInv == TypeInv /\ LoggerInv /\ [Next]_vars => LoggerInv'
<1> SUFFICES ASSUME TypeInv, LoggerInv, [Next]_vars PROVE LoggerInv'
  OBVIOUS
<1>0. instance \in Nat /\ created \in Nat /\ releases \in Nat
  BY DEF TypeInv, TypeOK
<1>1. ASSUME NEW t \in Threads, InstanceStep(t) PROVE LoggerInv'
  <2>1. releases' = releases
    BY <1>1, InstanceSteps
  <2>2. \/ instance' = instance /\ created' = created
        \/ instance = 0 /\ created' = created + 1 /\ instance' = created'
    BY <1>1, InstanceSteps
  <2> QED
    BY <1>0, <2>1, <2>2 DEF LoggerInv
<1>2. ASSUME NEW from, NEW to, EndRelease(from, to) PROVE LoggerInv'
  BY <1>0, <1>2 DEF EndRelease, LoggerInv
<1>3. ASSUME UNCHANGED <<instance, created, releases>> PROVE LoggerInv'
  BY <1>3 DEF LoggerInv
<1>4. ASSUME NEW t \in Threads, Register(t) \/ makeLog(t) \/ Insert(t)
      PROVE  LoggerInv'
  BY <1>3, <1>4 DEF Register, makeLog, Insert, Step, loggerVars
<1>5. CASE CreateAsyncLog \/ BeginShutdown \/ Stop \/ Stopped \/ Exit
             \/ Harden
  BY <1>3, <1>5 DEF CreateAsyncLog, BeginShutdown, Stop, Stopped, Exit,
                    Harden, loggerVars, historyVars
<1>6. ASSUME NEW from, NEW to, NEW after,
             TestRelease(from, to, after) \/ StreamsCleared(from, to)
                \/ DestroyStream(from)
      PROVE  LoggerInv'
  BY <1>3, <1>6 DEF TestRelease, StreamsCleared, DestroyStream, loggerVars
<1>7. CASE UNCHANGED vars
  BY <1>3, <1>7 DEF vars, loggerVars, historyVars
<1> QED
  BY <1>1, <1>2, <1>4, <1>5, <1>6, <1>7, Cases

(* Each release() makes room for one Logger, however many threads find     *)
(* none at the same time (logger.cpp:25-36).                               *)
THEOREM OneLoggerAtATime == Spec => []OneLogger
<1>1. Init => LoggerInv
  BY DEF Init, LoggerInv
<1>2. TypeInv /\ LoggerInv => OneLogger
  BY DEF TypeInv, TypeOK, LoggerInv, OneLogger
<1> QED
  BY <1>1, <1>2, StepLoggerInv, TypeHolds, PTL DEF Spec

-----------------------------------------------------------------------------
(* The order of the shutdown.                                              *)

(* The Logger stays until the first release() is done, the output function *)
(* is the back end's exactly if there is an AsyncLogInit, and nobody stops *)
(* the back end before.                                                    *)
Order ==
    /\ stage = "start" => ~toBackEnd
    /\ stage \in {"up", "release", "clearing", "freeing", "stop", "gone"} =>
          toBackEnd
    /\ stage \in {"start", "up", "release", "clearing", "freeing"} =>
          instance # 0
    /\ ~toBackEnd => instance # 0 \/ stage = "ended"
    /\ stage \in {"start", "up"} => closing = "open"

LEMMA InitOrder == Init => Order
  BY DEF Init, Order, BackEnd!Init

LEMMA ThreadOrder ==
    ASSUME TypeInv, Order, NEW t \in Threads,
           InstanceStep(t) \/ Register(t) \/ makeLog(t) \/ Insert(t)
    PROVE  Order'
<1>1. UNCHANGED <<stage, toBackEnd>>
  BY InstanceSteps DEF Register, makeLog, Insert, Step
<1>2. instance' = instance \/ instance' # 0
  <2>1. CASE InstanceStep(t)
    BY <2>1, InstanceSteps DEF TypeInv, TypeOK
  <2>2. CASE Register(t) \/ makeLog(t) \/ Insert(t)
    BY <2>2 DEF Register, makeLog, Insert, loggerVars
  <2> QED
    BY <2>1, <2>2
<1>3. closing' = closing
  <2>1. CASE InstanceStep(t)
    BY <2>1, InstanceSteps DEF backEndVars
  <2>2. CASE Register(t) \/ makeLog(t) \/ Insert(t)
    BY <2>2 DEF Register, makeLog, Insert, Output, Lost, backEndVars,
                BackEnd!Accept
  <2> QED
    BY <2>1, <2>2
<1> QED
  BY <1>1, <1>2, <1>3 DEF Order

LEMMA StepOrder == TypeInv /\ Order /\ [Next]_vars => Order'
<1> SUFFICES ASSUME TypeInv, Order, [Next]_vars PROVE Order'
  OBVIOUS
<1>1. CASE CreateAsyncLog \/ BeginShutdown \/ Exit
  BY <1>1 DEF CreateAsyncLog, BeginShutdown, ReleaseFirst, Exit, Owner, Order,
              loggerVars, backEndVars
<1>2. CASE Stop \/ Stopped
  BY <1>2 DEF Stop, Stopped, Owner, Order, loggerVars
<1>3. CASE Harden
  BY <1>3 DEF Harden, BackEnd!Harden, Order, loggerVars
<1>4. CASE \/ TestRelease("release", "clearing", "stop")
           \/ TestRelease("exitRelease", "exitClearing", "ended")
           \/ StreamsCleared("clearing", "freeing")
           \/ StreamsCleared("exitClearing", "exitFreeing")
  BY <1>4 DEF TestRelease, StreamsCleared, Owner, Order, loggerVars,
              backEndVars
<1>5. CASE EndRelease("freeing", "stop") \/ EndRelease("exitFreeing", "ended")
  BY <1>5 DEF EndRelease, Owner, Order, backEndVars
<1>6. CASE DestroyStream("clearing") \/ DestroyStream("exitClearing")
  BY <1>6 DEF DestroyStream, Owner, Output, Order, loggerVars, backEndVars,
              BackEnd!Accept
<1>7. CASE UNCHANGED vars
  BY <1>7 DEF vars, loggerVars, backEndVars, Order
<1> QED
  BY <1>1, <1>2, <1>3, <1>4, <1>5, <1>6, <1>7, ThreadOrder, Cases

-----------------------------------------------------------------------------
(* A quiet shutdown is safe.                                               *)

(* While no thread has logged after the shutdown began: before it, all     *)
(* streams that threads refer to are there, and after the release the back *)
(* end gets no more from a stream.                                         *)
Registered ==
    \A t \in Threads :
        /\ t \in pointing => Usable(t)
        /\ pc[t] = "body" => t \in pointing
QuietInv ==
    ~late =>
        /\ ~undefined
        /\ ~ShuttingDown => Registered
        /\ toBackEnd /\ stage \notin {"start", "up", "release", "clearing"} =>
              streams = <<>>

LEMMA InitQuietInv == Init => QuietInv
  BY DEF Init, QuietInv, Registered, ShuttingDown

LEMMA ThreadQuietInv ==
    ASSUME TypeInv, Order, QuietInv, NEW t \in Threads,
           InstanceStep(t) \/ Register(t) \/ makeLog(t) \/ Insert(t)
    PROVE  QuietInv'
<1>1. late' = (late \/ ShuttingDown) /\ UNCHANGED <<stage, toBackEnd>>
  BY InstanceSteps DEF Register, makeLog, Insert, Step
<1>2. SUFFICES ASSUME ~late' PROVE QuietInv'
  BY DEF QuietInv
<1>3. /\ ~late /\ ~undefined /\ Registered /\ ~Gone
      /\ stage \in {"start", "up"} /\ instance # 0
  <2>1. ~late /\ ~ShuttingDown
    BY <1>1, <1>2 DEF TypeInv, TypeOK
  <2> QED
    BY <2>1 DEF QuietInv, ShuttingDown, Gone, Order
<1>4. CASE InstanceStep(t)
  <2>1. ~undefined' /\ UNCHANGED <<streams, tms, pointing>>
    BY <1>3, <1>4, InstanceSteps DEF registryVars
  <2>2. Registered'
    BY <1>3, <1>4, <2>1, InstanceSteps DEF Registered, Usable
  <2> QED
    BY <1>1, <1>3, <2>1, <2>2 DEF QuietInv, ShuttingDown
<1>5. CASE Register(t)
  <2>1. /\ streams' = Append(streams, t) /\ streams \in Seq(Threads)
        /\ pointing' = pointing \cup {t} /\ tms' = tms \cup {t}
        /\ pc' = [pc EXCEPT ![t] = "stream"] /\ pc \in [Threads -> Pcs]
        /\ ~undefined'
    BY <1>3, <1>5 DEF Register, Step, TypeInv, TypeOK
  <2>2. /\ Len(streams') = Len(streams) + 1 /\ Len(streams) \in Nat
        /\ streams'[Len(streams')] = t
        /\ \A k \in 1..Len(streams) : streams'[k] = streams[k]
    BY <2>1
  <2>3. ASSUME NEW u \in Threads, Usable(u) \/ u = t PROVE Usable(u)'
    <3>1. CASE u = t
      BY <2>1, <2>2, <3>1 DEF Usable
    <3>2. CASE Usable(u)
      BY <2>1, <2>2, <3>2 DEF Usable
    <3> QED
      BY <2>3, <3>1, <3>2
  <2>4. Registered'
    BY <1>3, <2>1, <2>3 DEF Registered
  <2> QED
    BY <1>1, <1>3, <2>1, <2>4 DEF QuietInv, ShuttingDown
<1>6. CASE makeLog(t) \/ Insert(t)
  <2>1. t \in pointing
    BY <1>3, <1>6 DEF makeLog, Insert, Registered, Step
  <2>2. Usable(t)
    BY <1>3, <2>1 DEF Registered
  <2>3. PICK n : Output(t, n)
    BY <1>6, <2>2 DEF makeLog, Insert
  <2>4. ~undefined'
    BY <1>3, <2>3 DEF Output
  <2>5. /\ UNCHANGED <<streams, tms, pointing>>
        /\ \A u \in Threads : pc'[u] = "body" => u = t \/ pc[u] = "body"
    BY <1>6 DEF makeLog, Insert, Step, registryVars, TypeInv, TypeOK
  <2>6. Registered'
    BY <1>3, <2>1, <2>5 DEF Registered, Usable
  <2> QED
    BY <1>1, <1>3, <2>4, <2>5, <2>6 DEF QuietInv, ShuttingDown
<1> QED
  BY <1>4, <1>5, <1>6

LEMMA StepQuietInv ==
    TypeInv /\ Order /\ QuietInv /\ [Next]_vars => QuietInv'
<1> SUFFICES ASSUME TypeInv, Order, QuietInv, [Next]_vars PROVE QuietInv'
  OBVIOUS
<1>1. CASE CreateAsyncLog
  BY <1>1 DEF CreateAsyncLog, Owner, QuietInv, ShuttingDown, Registered,
              Usable, registryVars
<1>2. CASE BeginShutdown \/ Exit
  BY <1>2 DEF BeginShutdown, ReleaseFirst, Exit, Owner, QuietInv, Order,
              ShuttingDown, registryVars
<1>3. CASE Stop \/ Stopped
  BY <1>3 DEF Stop, Stopped, Owner, QuietInv, ShuttingDown, registryVars
<1>4. CASE Harden
  BY <1>4 DEF Harden, QuietInv, ShuttingDown, Registered, Usable,
              registryVars, historyVars
<1>5. CASE \/ TestRelease("release", "clearing", "stop")
           \/ TestRelease("exitRelease", "exitClearing", "ended")
           \/ StreamsCleared("clearing", "freeing")
           \/ StreamsCleared("exitClearing", "exitFreeing")
  BY <1>5 DEF TestRelease, StreamsCleared, Owner, QuietInv, Order,
              ShuttingDown, registryVars
<1>6. CASE EndRelease("freeing", "stop") \/ EndRelease("exitFreeing", "ended")
  BY <1>6 DEF EndRelease, Owner, QuietInv, ShuttingDown
<1>7. CASE DestroyStream("clearing") \/ DestroyStream("exitClearing")
  <2>1. /\ streams # <<>> /\ ~undefined
        /\ UNCHANGED <<stage, late, toBackEnd>>
        /\ stage \in {"clearing", "exitClearing"}
    BY <1>7 DEF DestroyStream, Owner
  <2>2. undefined' = (toBackEnd /\ Gone)
    BY <1>7 DEF DestroyStream, Output
  <2>3. ~late => ~undefined' /\ (toBackEnd => stage = "clearing")
    BY <2>1, <2>2 DEF QuietInv, Gone
  <2> QED
    BY <2>1, <2>3 DEF QuietInv, ShuttingDown
<1>8. CASE UNCHANGED vars
  BY <1>8 DEF vars, registryVars, historyVars, QuietInv, ShuttingDown,
              Registered, Usable
<1> QED
  BY <1>1, <1>2, <1>3, <1>4, <1>5, <1>6, <1>7, <1>8, ThreadQuietInv, Cases

(* The order of flog.h:20-21 is enough for a program whose threads do not  *)
(* log after the shutdown has begun.                                       *)
THEOREM QuietShutdown == Spec => []QuietShutdownIsSafe
<1>1. TypeInv /\ QuietInv => QuietShutdownIsSafe
  BY DEF QuietInv, QuietShutdownIsSafe
<1> QED
  BY <1>1, InitOrder, StepOrder, InitQuietInv, StepQuietInv, TypeHolds, PTL
  DEF Spec

-----------------------------------------------------------------------------
(* The shutdown keeps the records.                                         *)

(* The first n records of t are on stdout or in one of the first m lines.  *)
Handed(t, n, m) ==
    \/ printed[t] >= n
    \/ \E k \in 1..m : lines[k].by = t /\ lines[k].upto >= n

Counted ==
    \A t \in Threads :
        printed[t] <= given[t] /\ given[t] <= begun[t] /\ asked[t] <= begun[t]

(* A record that was not given away is in a registered stream.             *)
Unfinished ==
    \A t \in Threads :
        given[t] < begun[t] => \E k \in 1..Len(streams) : streams[k] = t

(* What was given away went to one of two places.                          *)
Passed ==
    /\ \A t \in Threads : Handed(t, given[t], Len(lines))
    /\ accepted = Len(lines)
    /\ ~toBackEnd => lines = <<>>

(* The streams have been destroyed, for the first time, if it says so.     *)
Cleared ==
    \/ stage \in {"freeing", "stop", "gone", "exitFreeing", "ended"}
    \/ toBackEnd /\ stage \in {"exitRelease", "exitClearing"}
AllGiven == Cleared => \A t \in Threads : asked[t] <= given[t]

(* stop() promises the back end's lines with all of that, and keeps it.    *)
Promised ==
    closing # "open" =>
        /\ promised <= Len(lines)
        /\ \A t \in Threads : Handed(t, asked[t], promised)
Closed ==
    toBackEnd /\ Gone => closing = "closed" /\ promised <= Len(disk)

KeepInv ==
    ~undefined =>
        Counted /\ Unfinished /\ Passed /\ AllGiven /\ Promised /\ Closed

LEMMA InitKeepInv == Init => KeepInv
<1> SUFFICES ASSUME Init PROVE KeepInv
  OBVIOUS
<1>1. Counted /\ Unfinished /\ AllGiven
  BY DEF Init, Counted, Unfinished, AllGiven
<1>2. Passed
  BY DEF Init, Passed, Handed, BackEnd!Init
<1>3. Promised /\ Closed
  BY DEF Init, Promised, Closed, BackEnd!Init
<1> QED
  BY <1>1, <1>2, <1>3 DEF KeepInv

(* A stream gives more away, be it to stdout or to the back end: what was  *)
(* handed over stays so, and so is what it gives.                          *)
LEMMA OutputKeeps ==
    ASSUME TypeInv, Counted, Passed, Promised, Closed, ~undefined,
           NEW t \in Threads, NEW n \in Nat, given[t] <= n, Output(t, n),
           ~undefined',
           UNCHANGED <<stage, toBackEnd, asked>>
    PROVE  /\ Passed' /\ Promised' /\ Closed'
           /\ given' = [given EXCEPT ![t] = n]
           /\ \A u \in Threads : printed'[u] <= given'[u]
<1>1. /\ printed \in [Threads -> Nat] /\ lines \in Seq(Line)
      /\ given \in [Threads -> Nat] /\ asked \in [Threads -> Nat]
      /\ promised \in Nat /\ accepted \in Nat /\ toBackEnd \in BOOLEAN
  BY DEF TypeInv, TypeOK, BackEnd!TypeOK
<1>2. given' = [given EXCEPT ![t] = n]
  BY DEF Output
<1>3. ~(toBackEnd /\ Gone)
  BY DEF Output
<1>4. ASSUME NEW u \in Threads PROVE printed'[u] <= given'[u]
  <2>1. \/ printed' = printed \/ printed' = [printed EXCEPT ![t] = n]
    BY DEF Output
  <2>2. printed[u] <= given[u]
    BY DEF Counted
  <2> QED
    BY <1>1, <1>2, <2>1, <2>2
<1>5. CASE ~toBackEnd
  <2>1. /\ printed' = [printed EXCEPT ![t] = n]
        /\ UNCHANGED <<lines, backEndVars>>
    BY <1>5 DEF Output
  <2>2. ASSUME NEW u \in Threads PROVE printed'[u] >= printed[u]
    <3>1. printed[t] <= given[t]
      BY DEF Counted
    <3> QED
      BY <1>1, <2>1, <3>1
  <2>3. Passed'
    <3>1. /\ accepted = Len(lines) /\ lines = <<>>
          /\ accepted' = accepted /\ lines' = lines
      BY <1>5, <2>1 DEF Passed, backEndVars
    <3>2. ASSUME NEW u \in Threads PROVE Handed(u, given[u], Len(lines))'
      <4>1. CASE u = t
        BY <1>1, <1>2, <2>1, <4>1 DEF Handed
      <4>2. CASE u # t
        <5>1. given'[u] = given[u] /\ given[u] \in Nat
          BY <1>1, <1>2, <4>2
        <5>2. Handed(u, given[u], Len(lines))
          BY DEF Passed
        <5>3. printed[u] \in Nat /\ printed'[u] \in Nat
          BY <1>1, <2>1
        <5> QED
          BY <2>1, <2>2, <5>1, <5>2, <5>3 DEF Handed
      <4> QED
        BY <4>1, <4>2
    <3> QED
      BY <3>1, <3>2 DEF Passed
  <2>4. Promised'
    <3>1. /\ closing' = closing /\ promised' = promised /\ lines' = lines
          /\ asked' = asked
      BY <2>1 DEF backEndVars
    <3>2. ASSUME NEW u \in Threads, Handed(u, asked[u], promised)
          PROVE  Handed(u, asked[u], promised)'
      <4>1. asked[u] \in Nat /\ printed[u] \in Nat /\ printed'[u] \in Nat
        BY <1>1, <2>1
      <4> QED
        BY <2>2, <3>1, <3>2, <4>1 DEF Handed
    <3> QED
      BY <3>1, <3>2 DEF Promised
  <2>5. Closed'
    BY <1>5 DEF Closed
  <2> QED
    BY <1>2, <1>4, <2>3, <2>4, <2>5
<1>6. CASE toBackEnd /\ n = given[t]
  <2>1. UNCHANGED <<printed, lines, backEndVars>>
    BY <1>1, <1>3, <1>6 DEF Output
  <2>2. given' = given
    BY <1>1, <1>2, <1>6
  <2> QED
    BY <1>2, <1>4, <2>1, <2>2 DEF Passed, Promised, Closed, Handed, Gone, backEndVars
<1>7. CASE toBackEnd /\ n # given[t]
  <2>1. /\ BackEnd!Accept /\ printed' = printed
        /\ lines' = Append(lines, [by |-> t, upto |-> n])
    BY <1>3, <1>7 DEF Output
  <2>2. [by |-> t, upto |-> n] \in Line
    BY DEF Line
  <2>3. /\ Len(lines) \in Nat /\ Len(lines') = Len(lines) + 1
        /\ lines'[Len(lines')] = [by |-> t, upto |-> n]
        /\ \A k \in 1..Len(lines) : lines'[k] = lines[k]
    BY <1>1, <2>1, <2>2
  <2>4. ASSUME NEW u \in Threads, NEW i, NEW m \in Nat, m <= Len(lines),
               Handed(u, i, m)
        PROVE  Handed(u, i, m)'
    BY <2>1, <2>3, <2>4 DEF Handed
  <2>5. ASSUME NEW u \in Threads PROVE Handed(u, given[u], Len(lines))'
    <3>1. CASE u = t
      <4>1. given'[u] = n /\ lines'[Len(lines')].by = u
            /\ lines'[Len(lines')].upto >= n
        BY <1>1, <1>2, <2>3, <3>1
      <4> QED
        BY <2>3, <4>1 DEF Handed
    <3>2. CASE u # t
      <4>1. given'[u] = given[u]
        BY <1>1, <1>2, <3>2
      <4>2. Handed(u, given[u], Len(lines))
        BY DEF Passed
      <4> QED
        BY <2>1, <2>3, <4>1, <4>2 DEF Handed
    <3> QED
      BY <3>1, <3>2
  <2>6. Passed'
    BY <1>7, <2>1, <2>3, <2>5 DEF Passed, BackEnd!Accept
  <2>7. Promised'
    BY <1>1, <2>1, <2>3, <2>4 DEF Promised, BackEnd!Accept
  <2>8. Closed'
    BY <1>3 DEF Closed, Gone
  <2> QED
    BY <1>2, <1>4, <2>6, <2>7, <2>8
<1> QED
  BY <1>5, <1>6, <1>7

(* Steps that leave records and back end alone keep what was promised.     *)
LEMMA QuietKeeps ==
    ASSUME TypeInv, Passed, Promised, Closed,
           toBackEnd' = toBackEnd, asked' = asked,
           Gone' => Gone \/ ~toBackEnd,
           UNCHANGED <<recordVars, backEndVars>>
    PROVE  Passed' /\ Promised' /\ Closed'
  BY DEF Passed, Promised, Closed, Handed, recordVars, backEndVars

LEMMA ThreadKeepInv ==
    ASSUME TypeInv, Order, KeepInv, NEW t \in Threads,
           InstanceStep(t) \/ Register(t) \/ makeLog(t) \/ Insert(t)
    PROVE  KeepInv'
<1>1. SUFFICES ASSUME ~undefined' PROVE KeepInv'
  BY DEF KeepInv
<1>2. ~undefined /\ UNCHANGED <<stage, asked, toBackEnd>>
  BY InstanceSteps DEF Register, makeLog, Insert, Step, MayLog
<1>3. Counted /\ Unfinished /\ Passed /\ AllGiven /\ Promised /\ Closed
  BY <1>2 DEF KeepInv
<1>4. /\ begun \in [Threads -> Nat] /\ given \in [Threads -> Nat]
      /\ printed \in [Threads -> Nat] /\ asked \in [Threads -> Nat]
      /\ streams \in Seq(Threads)
  BY DEF TypeInv, TypeOK
<1>5. CASE InstanceStep(t)
  <2>1. UNCHANGED <<registryVars, recordVars, backEndVars>>
    BY <1>5, InstanceSteps
  <2>2. Passed' /\ Promised' /\ Closed'
    BY <1>2, <1>3, <2>1, QuietKeeps DEF Gone
  <2> QED
    BY <1>2, <1>3, <2>1, <2>2
    DEF KeepInv, Counted, Unfinished, AllGiven, Cleared, registryVars,
        recordVars
<1>6. CASE Register(t)
  <2>1. streams' = Append(streams, t) /\ UNCHANGED <<recordVars, backEndVars>>
    BY <1>6 DEF Register
  <2>2. Passed' /\ Promised' /\ Closed'
    BY <1>2, <1>3, <2>1, QuietKeeps DEF Gone
  <2>3. /\ Len(streams') = Len(streams) + 1 /\ Len(streams) \in Nat
        /\ \A k \in 1..Len(streams) : streams'[k] = streams[k]
    BY <1>4, <2>1
  <2>4. Unfinished'
    BY <1>3, <2>1, <2>3 DEF Unfinished, recordVars
  <2> QED
    BY <1>2, <1>3, <2>1, <2>2, <2>4
    DEF KeepInv, Counted, AllGiven, Cleared, recordVars
<1>7. ASSUME NEW n \in Nat, given[t] <= n, Output(t, n), n <= begun'[t],
             streams' = streams, Usable(t),
             begun' \in [Threads -> Nat],
             \A u \in Threads : /\ begun[u] <= begun'[u]
                                /\ u # t => begun'[u] = begun[u]
      PROVE  KeepInv'
  <2>1. /\ Passed' /\ Promised' /\ Closed'
        /\ given' = [given EXCEPT ![t] = n]
        /\ \A u \in Threads : printed'[u] <= given'[u]
    BY <1>1, <1>2, <1>3, <1>7, OutputKeeps
  <2>2. \A u \in Threads : given[u] <= given'[u] /\ given'[u] <= begun'[u]
    BY <1>3, <1>4, <1>7, <2>1 DEF Counted
  <2>3. Counted'
    BY <1>2, <1>3, <1>4, <1>7, <2>1, <2>2 DEF Counted
  <2>4. Unfinished'
    <3>1. ASSUME NEW u \in Threads, given'[u] < begun'[u]
          PROVE  \E k \in 1..Len(streams) : streams[k] = u
      <4>1. CASE u = t
        BY <1>7, <4>1 DEF Usable
      <4>2. CASE u # t
        BY <1>3, <1>4, <1>7, <2>1, <3>1, <4>2 DEF Unfinished
      <4> QED
        BY <4>1, <4>2
    <3> QED
      BY <1>7, <3>1 DEF Unfinished
  <2>5. AllGiven'
    <3>1. ASSUME NEW u \in Threads, asked[u] <= given[u]
          PROVE  asked'[u] <= given'[u]
      BY <1>2, <1>4, <2>1, <2>2, <3>1
    <3> QED
      BY <1>2, <1>3, <3>1 DEF AllGiven, Cleared
  <2> QED
    BY <2>1, <2>3, <2>4, <2>5 DEF KeepInv
<1>8. CASE makeLog(t)
  <2>1. Usable(t) /\ begun' = [begun EXCEPT ![t] = @ + 1] /\ streams' = streams
    BY <1>1, <1>8 DEF makeLog, Lost, registryVars
  <2>2. PICK n \in {given[t], begun[t]} : Output(t, n)
    BY <1>1, <1>8 DEF makeLog, Lost
  <2>3. n \in Nat /\ given[t] <= n /\ n <= begun'[t]
    BY <1>3, <1>4, <2>1 DEF Counted
  <2>4. /\ begun' \in [Threads -> Nat]
        /\ \A u \in Threads : /\ begun[u] <= begun'[u]
                              /\ u # t => begun'[u] = begun[u]
    BY <1>4, <2>1
  <2> QED
    BY <1>7, <2>1, <2>2, <2>3, <2>4
<1>9. CASE Insert(t)
  <2>1. Usable(t) /\ begun' = begun /\ streams' = streams
    BY <1>1, <1>9 DEF Insert, Lost, registryVars
  <2>2. PICK n \in {given[t], begun[t] - 1, begun[t]} :
           n >= given[t] /\ Output(t, n)
    BY <1>1, <1>9 DEF Insert, Lost
  <2>3. n \in Nat /\ given[t] <= n /\ n <= begun'[t]
    BY <1>3, <1>4, <2>1, <2>2 DEF Counted
  <2>4. /\ begun' \in [Threads -> Nat]
        /\ \A u \in Threads : /\ begun[u] <= begun'[u]
                              /\ u # t => begun'[u] = begun[u]
    BY <1>4, <2>1
  <2> QED
    BY <1>7, <2>1, <2>2, <2>3, <2>4
<1> QED
  BY <1>5, <1>6, <1>8, <1>9

LEMMA StepKeepInv ==
    TypeInv /\ Order /\ KeepInv /\ [Next]_vars => KeepInv'
<1> SUFFICES ASSUME TypeInv, Order, KeepInv, [Next]_vars, ~undefined'
             PROVE  KeepInv'
  BY DEF KeepInv
<1>1. CASE UNCHANGED vars
  BY <1>1
  DEF vars, registryVars, recordVars, backEndVars, historyVars, KeepInv,
      Counted, Unfinished, Passed, Handed, AllGiven, Cleared, Promised,
      Closed, Gone
<1>2. CASE \E t \in Threads :
              InstanceStep(t) \/ Register(t) \/ makeLog(t) \/ Insert(t)
  BY <1>2, ThreadKeepInv
<1>3. ASSUME Counted, Unfinished, Passed, AllGiven, Promised, Closed,
             UNCHANGED <<streams, recordVars, backEndVars, toBackEnd, asked>>,
             Gone' => Gone \/ ~toBackEnd,
             Cleared' => Cleared \/ streams = <<>>
      PROVE  KeepInv'
  <2>1. Passed' /\ Promised' /\ Closed'
    BY <1>3, QuietKeeps
  <2>2. Counted' /\ Unfinished'
    BY <1>3 DEF Counted, Unfinished, recordVars
  <2>3. AllGiven'
    <3>1. ASSUME streams = <<>>, NEW u \in Threads PROVE asked[u] <= given[u]
      <4>1. Len(streams) = 0
        BY <3>1
      <4>2. ~(given[u] < begun[u])
        BY <1>3, <4>1 DEF Unfinished
      <4>3. /\ given[u] \in Nat /\ begun[u] \in Nat /\ asked[u] \in Nat
            /\ asked[u] <= begun[u]
        BY <1>3 DEF TypeInv, TypeOK, Counted
      <4> QED
        BY <4>2, <4>3
    <3> QED
      BY <1>3, <3>1 DEF AllGiven, recordVars
  <2> QED
    BY <2>1, <2>2, <2>3 DEF KeepInv
<1>4. ASSUME ~undefined
      PROVE  Counted /\ Unfinished /\ Passed /\ AllGiven /\ Promised /\ Closed
  BY <1>4 DEF KeepInv
<1>5. CASE \/ TestRelease("release", "clearing", "stop")
           \/ TestRelease("exitRelease", "exitClearing", "ended")
           \/ StreamsCleared("clearing", "freeing")
           \/ StreamsCleared("exitClearing", "exitFreeing")
           \/ Exit
  <2>1. /\ ~undefined
        /\ UNCHANGED <<streams, recordVars, backEndVars, toBackEnd, asked>>
    BY <1>5 DEF TestRelease, StreamsCleared, Exit, Owner, registryVars
  <2>2. Gone' => Gone \/ ~toBackEnd
    BY <1>5 DEF TestRelease, StreamsCleared, Exit, Owner, Order, Gone
  <2>3. Cleared' => Cleared \/ streams = <<>>
    BY <1>5, <2>1 DEF TestRelease, StreamsCleared, Exit, Owner, Order, Cleared
  <2> QED
    BY <1>3, <1>4, <2>1, <2>2, <2>3
<1>6. CASE EndRelease("freeing", "stop") \/ EndRelease("exitFreeing", "ended")
  <2>1. /\ ~undefined
        /\ UNCHANGED <<streams, recordVars, backEndVars, toBackEnd, asked>>
    BY <1>6 DEF EndRelease, Owner
  <2>2. (Gone' => Gone) /\ Cleared
    BY <1>6 DEF EndRelease, Owner, Gone, Cleared
  <2> QED
    BY <1>3, <1>4, <2>1, <2>2
<1>7. CASE CreateAsyncLog
  <2>1. /\ ~undefined /\ ~Gone' /\ ~Cleared' /\ toBackEnd'
        /\ UNCHANGED <<streams, recordVars, backEndVars, asked>>
    BY <1>7 DEF CreateAsyncLog, Owner, Gone, Cleared, registryVars
  <2> QED
    BY <1>4, <2>1
    DEF KeepInv, Counted, Unfinished, Passed, Handed, AllGiven, Promised,
        Closed, recordVars, backEndVars
<1>8. CASE BeginShutdown
  <2>1. /\ ~undefined /\ ~Cleared' /\ closing = "open"
        /\ (Gone' => ~toBackEnd)
        /\ UNCHANGED <<streams, recordVars, backEndVars, toBackEnd>>
        /\ asked' = [t \in Threads |-> Finished(t)]
    BY <1>8 DEF BeginShutdown, ReleaseFirst, Owner, Order, Gone, Cleared,
                registryVars
  <2>2. ASSUME NEW t \in Threads PROVE asked'[t] <= begun[t]
    <3>1. begun[t] \in Nat
      BY DEF TypeInv, TypeOK
    <3> QED
      BY <2>1, <3>1 DEF Finished
  <2>3. Counted' /\ Unfinished'
    BY <1>4, <2>1, <2>2 DEF Counted, Unfinished, recordVars
  <2>4. Passed' /\ AllGiven' /\ Promised' /\ Closed'
    BY <1>4, <2>1 DEF Passed, Handed, AllGiven, Promised, Closed, recordVars,
                      backEndVars
  <2> QED
    BY <2>3, <2>4 DEF KeepInv
<1>9. CASE DestroyStream("clearing") \/ DestroyStream("exitClearing")
  <2> DEFINE t == Head(streams)
             n == begun[t]
  <2>1. /\ ~undefined /\ streams # <<>> /\ streams' = Tail(streams)
        /\ Output(t, n)
        /\ UNCHANGED <<stage, begun, toBackEnd, asked>>
    BY <1>9 DEF DestroyStream, Owner, AllOf, Rest
  <2>2. /\ streams \in Seq(Threads) /\ t \in Threads /\ n \in Nat
        /\ given \in [Threads -> Nat] /\ begun \in [Threads -> Nat]
        /\ asked \in [Threads -> Nat]
    BY <2>1 DEF TypeInv, TypeOK
  <2>3. given[t] <= n
    BY <1>4, <2>1, <2>2 DEF Counted
  <2> HIDE DEF n
  <2>4. /\ Passed' /\ Promised' /\ Closed'
        /\ given' = [given EXCEPT ![t] = n]
        /\ \A u \in Threads : printed'[u] <= given'[u]
    BY <1>4, <2>1, <2>2, <2>3, OutputKeeps
  <2>5. ASSUME NEW u \in Threads
        PROVE  given[u] <= given'[u] /\ given'[u] <= begun[u]
    BY <1>4, <2>1, <2>2, <2>3, <2>4 DEF Counted, n
  <2>6. Counted'
    BY <1>4, <2>1, <2>4, <2>5 DEF Counted
  <2>7. Unfinished'
    <3>1. SUFFICES ASSUME NEW u \in Threads, given'[u] < begun[u]
                   PROVE  \E k \in 1..Len(streams') : streams'[k] = u
      BY <2>1 DEF Unfinished
    <3>2. u # t /\ given'[u] = given[u]
      BY <2>2, <2>4, <3>1 DEF n
    <3>3. PICK k \in 1..Len(streams) : streams[k] = u
      BY <1>4, <2>1, <3>1, <3>2 DEF Unfinished
    <3>4. /\ Len(streams) \in Nat /\ Len(streams') = Len(streams) - 1
          /\ t = streams[1]
          /\ \A i \in 1..Len(streams') : streams'[i] = streams[i + 1]
      BY <2>1, <2>2, HeadTailProperties
    <3>5. k # 1
      BY <3>2, <3>3, <3>4
    <3>6. k - 1 \in 1..Len(streams') /\ (k - 1) + 1 = k
      BY <3>4, <3>5
    <3>7. streams'[k - 1] = u
      BY <3>3, <3>4, <3>6
    <3> QED
      BY <3>6, <3>7
  <2>8. AllGiven'
    <3>1. ASSUME NEW u \in Threads, asked[u] <= given[u]
          PROVE  asked'[u] <= given'[u]
      BY <2>1, <2>2, <2>4, <2>5, <3>1
    <3> QED
      BY <1>4, <2>1, <3>1 DEF AllGiven, Cleared
  <2> QED
    BY <2>4, <2>6, <2>7, <2>8 DEF KeepInv
<1>10. CASE Stop
  <2>1. /\ ~undefined /\ stage = "stop" /\ stage' = stage
        /\ promised' = accepted
        /\ UNCHANGED <<streams, recordVars, accepted, disk, toBackEnd, asked>>
    BY <1>10 DEF Stop, Owner, BackEnd!Promise, registryVars
  <2>2. Counted' /\ Unfinished' /\ Passed' /\ AllGiven'
    BY <1>4, <2>1 DEF Counted, Unfinished, Passed, Handed, AllGiven, Cleared,
                      recordVars
  <2>3. Promised'
    <3>1. ASSUME NEW t \in Threads PROVE Handed(t, asked[t], Len(lines))
      <4>1. Handed(t, given[t], Len(lines)) /\ asked[t] <= given[t]
        BY <1>4, <2>1 DEF Passed, AllGiven, Cleared
      <4>2. given[t] \in Nat /\ asked[t] \in Nat /\ printed[t] \in Nat
        BY DEF TypeInv, TypeOK
      <4>3. ASSUME NEW k \in 1..Len(lines) PROVE lines[k].upto \in Nat
        <5>1. lines[k] \in Line
          BY ElementOfSeq DEF TypeInv, TypeOK
        <5> QED
          BY <5>1 DEF Line
      <4> QED
        BY <4>1, <4>2, <4>3 DEF Handed
    <3>2. promised' = Len(lines) /\ lines' = lines /\ Len(lines) \in Nat
      BY <1>4, <2>1 DEF Passed, recordVars, TypeInv, TypeOK
    <3> QED
      BY <2>1, <3>1, <3>2 DEF Promised, Handed, recordVars
  <2>4. Closed'
    BY <2>1 DEF Closed, Gone
  <2> QED
    BY <2>2, <2>3, <2>4 DEF KeepInv
<1>11. CASE Stopped
  <2>1. /\ ~undefined /\ stage = "stop" /\ stage' = "gone"
        /\ closing = "closing" /\ promised <= Len(disk) /\ closing' = "closed"
        /\ UNCHANGED <<streams, recordVars, accepted, disk, promised,
                       toBackEnd, asked>>
    BY <1>11 DEF Stopped, Owner, BackEnd!Close, registryVars
  <2> QED
    BY <1>4, <2>1
    DEF KeepInv, Counted, Unfinished, Passed, Handed, AllGiven, Cleared,
        Promised, Closed, recordVars
<1>12. CASE Harden
  <2>1. /\ ~undefined /\ ~Gone
        /\ UNCHANGED <<stage, streams, recordVars, accepted, promised,
                       closing, toBackEnd, asked>>
    BY <1>12 DEF Harden, BackEnd!Harden, registryVars, historyVars
  <2> QED
    BY <1>4, <2>1
    DEF KeepInv, Counted, Unfinished, Passed, Handed, AllGiven, Cleared,
        Promised, Closed, Gone, recordVars
<1> QED
  BY <1>1, <1>2, <1>5, <1>6, <1>7, <1>8, <1>9, <1>10, <1>11, <1>12, Cases

(* What every thread had finished when the shutdown began is out when it   *)
(* is over, whatever the other threads did meanwhile short of using what   *)
(* was destroyed.                                                          *)
THEOREM ShutdownKeeps == Spec => []ShutdownKeepsRecords
<1>1. TypeInv /\ Order /\ KeepInv => ShutdownKeepsRecords
  <2> SUFFICES ASSUME TypeInv, Order, KeepInv, ~undefined,
                      stage \in {"gone", "ended"}, NEW t \in Threads
               PROVE  Kept(t, asked[t])
    BY DEF ShutdownKeepsRecords
  <2>1. /\ Passed /\ AllGiven /\ Promised /\ Closed
        /\ Cleared /\ Gone
    BY DEF KeepInv, Cleared, Gone
  <2>2. /\ printed[t] \in Nat /\ given[t] \in Nat /\ asked[t] \in Nat
        /\ promised \in Nat /\ Len(disk) \in Nat
    BY DEF TypeInv, TypeOK, BackEnd!TypeOK
  <2>3. CASE toBackEnd
    <3>1. promised <= Len(disk) /\ Handed(t, asked[t], promised)
      BY <2>1, <2>3 DEF Promised, Closed
    <3> QED
      BY <2>2, <3>1 DEF Kept, OnDisk, Handed
  <2>4. CASE ~toBackEnd
    <3>1. asked[t] <= given[t] /\ lines = <<>> /\ Handed(t, given[t], Len(lines))
      BY <2>1, <2>4 DEF Passed, AllGiven
    <3>2. printed[t] >= given[t]
      BY <3>1 DEF Handed
    <3> QED
      BY <2>2, <3>1, <3>2 DEF Kept
  <2> QED
    BY <2>3, <2>4
<1> QED
  BY <1>1, InitOrder, StepOrder, InitKeepInv, StepKeepInv, TypeHolds, PTL
  DEF Spec
=============================================================================
