------------------------------ MODULE Logging ------------------------------
(***************************************************************************)
(* Logger (log/logger.h, log/logger.cpp) and the shutdown of logging       *)
(* (AsyncLogInit in log/flog.h): the threads' LOG_x statements, the        *)
(* singleton they go through, the streams it registers, and the order in   *)
(* which the streams and the back end are taken down.                      *)
(*                                                                         *)
(* The two ends are contracts shown elsewhere.  A LogStream hands over     *)
(* its records in order and whole (module LogStream), so that a thread's   *)
(* records are counted: it has begun some and given some of them away.     *)
(* The back end is DurableLog, which AsyncLogging implements: one call of  *)
(* its append() is one of its lines.                                       *)
(*                                                                         *)
(* One thread, Main, owns the AsyncLogInit, and takes it down between two  *)
(* statements of its own; the other threads go on.  What a thread does     *)
(* with a null Logger, a destroyed stream or tm, a vector that is being    *)
(* cleared, or a deleted back end, has no defined effect: `undefined'.     *)
(*                                                                         *)
(* Some operators stand for slips one could make in this code and are used *)
(* nowhere in the specification (PROJECT.json, "mutants"): NeverChecked,   *)
(* WithoutLast, StopFirst, StillThere.                                     *)
(***************************************************************************)
EXTENDS Naturals, Sequences, FiniteSets

CONSTANTS
    Threads,
    Main,           \* the thread that owns the AsyncLogInit
    MaxRecords      \* bound on the records of a thread

ASSUME LoggingAssumption ==
    /\ Main \in Threads
    /\ MaxRecords \in Nat

VARIABLES
    pc,         \* where each thread is in its LOG_x statement
    instance,   \* Logger::instance: the number of a Logger, 0 for null
    created,    \* how many Loggers have been constructed
    streams,    \* Logger::streams, a stream being its thread
    tms,        \* Logger::tms: the threads whose struct tm is allocated
    pointing,   \* the threads whose t_pLogStream is set
    begun,      \* records each thread has begun
    given,      \* records each stream has given to g_output
    toBackEnd,  \* g_output is AsyncLogOutput
    printed,    \* records of each thread that went to stdout
    lines,      \* the back end's lines: whose records, and up to which
    stage,      \* where the owner is
    undefined   \* something without a defined effect was done

VARIABLES
    accepted, disk, promised, closing   \* the back end (DurableLog)

VARIABLES
    asked,      \* history: records finished when the shutdown began
    releases,   \* history: completed releases
    late        \* history: a thread logged after the shutdown began

loggerVars == <<instance, created>>
registryVars == <<streams, tms, pointing>>
recordVars == <<begun, given, printed, lines>>
backEndVars == <<accepted, disk, promised, closing>>
historyVars == <<asked, releases, late>>
vars == <<pc, loggerVars, registryVars, recordVars, toBackEnd, stage,
          undefined, backEndVars, historyVars>>

BackEnd == INSTANCE DurableLog WITH stage <- closing

Line == [by : Threads, upto : Nat]

Pcs == {"idle", "levelLock", "levelReturn", "streamTest", "streamLock",
        "streamReturn", "stream", "body"}

Stages == {"start", "up", "release", "clearing", "freeing", "stop",
           "gone", "exitRelease", "exitClearing", "exitFreeing", "ended"}

TypeOK ==
    /\ pc \in [Threads -> Pcs]
    /\ instance \in Nat /\ created \in Nat
    /\ streams \in Seq(Threads)
    /\ tms \subseteq Threads /\ pointing \subseteq Threads
    /\ begun \in [Threads -> Nat]
    /\ given \in [Threads -> Nat]
    /\ printed \in [Threads -> Nat]
    /\ lines \in Seq(Line)
    /\ toBackEnd \in BOOLEAN /\ undefined \in BOOLEAN /\ late \in BOOLEAN
    /\ stage \in Stages
    /\ asked \in [Threads -> Nat]
    /\ releases \in Nat
    /\ BackEnd!TypeOK

(* Static initialisation has run: instance_deleter was made from           *)
(* getInstance().                                                          *)
Init ==
    /\ pc = [t \in Threads |-> "idle"]
    /\ instance = 1 /\ created = 1
    /\ streams = <<>> /\ tms = {} /\ pointing = {}
    /\ begun = [t \in Threads |-> 0]
    /\ given = [t \in Threads |-> 0]
    /\ printed = [t \in Threads |-> 0]
    /\ lines = <<>>
    /\ toBackEnd = FALSE
    /\ stage = "start"
    /\ undefined = FALSE
    /\ asked = [t \in Threads |-> 0]
    /\ releases = 0
    /\ late = FALSE
    /\ BackEnd!Init

-----------------------------------------------------------------------------
(* The output function.                                                    *)

Gone == stage \in {"gone", "exitRelease", "exitClearing", "exitFreeing",
                   "ended"}

(* The stream of t gives its records up to n to g_output: stdout, or       *)
(* append() of the back end, which must still exist.                       *)
Output(t, n) ==
    /\ undefined' = (toBackEnd /\ Gone)
    /\ given' = [given EXCEPT ![t] = n]
    /\ \/ /\ toBackEnd /\ ~Gone /\ n > given[t]
          /\ BackEnd!Accept
          /\ lines' = Append(lines, [by |-> t, upto |-> n])
          /\ UNCHANGED printed
       \/ /\ ~toBackEnd
          /\ printed' = [printed EXCEPT ![t] = n]
          /\ UNCHANGED <<lines, backEndVars>>
       \/ /\ toBackEnd
          /\ Gone \/ n = given[t]
          /\ UNCHANGED <<lines, printed, backEndVars>>

-----------------------------------------------------------------------------
(* A LOG_x statement of thread t.                                          *)

ShuttingDown == stage \notin {"start", "up"}

(* Main's statements and the steps of the owner alternate.                 *)
MayLog(t) ==
    /\ ~undefined
    /\ stage # "ended"
    /\ t = Main => stage \in {"start", "up", "gone"}

Step(t, from, to) ==
    /\ MayLog(t)
    /\ pc[t] = from
    /\ pc' = [pc EXCEPT ![t] = to]
    /\ late' = (late \/ ShuttingDown)
    /\ UNCHANGED <<stage, asked, releases, toBackEnd>>

(* The read of getInstance() without the lock.                             *)
TestInstance(t, from, missing, there) ==
    /\ from = "idle" => begun[t] < MaxRecords
    /\ Step(t, from, IF instance = 0 THEN missing ELSE there)
    /\ UNCHANGED <<loggerVars, registryVars, recordVars, undefined,
                   backEndVars>>

NeverChecked == TRUE
CheckedAgain == instance = 0

(* The critical section of getInstance(), which looks again.               *)
Construct(t, from, to) ==
    /\ Step(t, from, to)
    /\ IF CheckedAgain
       THEN /\ created' = created + 1
            /\ instance' = created'
       ELSE UNCHANGED loggerVars
    /\ UNCHANGED <<registryVars, recordVars, undefined, backEndVars>>

(* The second unlocked read of instance, for the value returned, and the   *)
(* use of that value.                                                      *)
UseInstance(t, from, to) ==
    /\ Step(t, from, to)
    /\ undefined' = (instance = 0)
    /\ UNCHANGED <<loggerVars, registryVars, recordVars, backEndVars>>

(* getLevel(): the record is wanted, or it is not.  LOG_FATAL begins with  *)
(* the second half.                                                        *)
TestForLevel(t) == TestInstance(t, "idle", "levelLock", "levelReturn")
ConstructForLevel(t) == Construct(t, "levelLock", "levelReturn")
Wanted(t) == UseInstance(t, "levelReturn", "streamTest")
Filtered(t) == UseInstance(t, "levelReturn", "idle")
TestForStream(t) ==
    \/ TestInstance(t, "idle", "streamLock", "streamReturn")
    \/ TestInstance(t, "streamTest", "streamLock", "streamReturn")
ConstructForStream(t) == Construct(t, "streamLock", "streamReturn")
CallStream(t) == UseInstance(t, "streamReturn", "stream")

(* The first half of stream() when the thread has no stream yet; other     *)
(* registrations wait for initlock, the destruction of streams does not.   *)
Register(t) ==
    /\ Step(t, "stream", "stream")
    /\ t \notin pointing
    /\ streams' = Append(streams, t)
    /\ pointing' = pointing \cup {t}
    /\ tms' = tms \cup {t}
    /\ undefined' = (stage \in {"clearing", "freeing", "exitClearing",
                                "exitFreeing"})
    /\ UNCHANGED <<loggerVars, recordVars, backEndVars>>

Usable(t) == t \in tms /\ \E k \in 1..Len(streams) : streams[k] = t

Lost(t) ==
    /\ undefined' = TRUE
    /\ UNCHANGED <<recordVars, backEndVars>>

(* makeLog(): the record begins; a flush by time gives away the earlier    *)
(* ones.                                                                   *)
makeLog(t) ==
    /\ Step(t, "stream", "body")
    /\ t \in pointing
    /\ \/ /\ Usable(t)
          /\ begun' = [begun EXCEPT ![t] = @ + 1]
          /\ \E n \in {given[t], begun[t]} : Output(t, n)
       \/ ~Usable(t) /\ Lost(t)
    /\ UNCHANGED <<loggerVars, registryVars>>

(* The last << of the statement.  An overflow gives away the records       *)
(* before this one, line mode this one too.                                *)
Insert(t) ==
    /\ Step(t, "body", "idle")
    /\ \/ /\ Usable(t)
          /\ \E n \in {given[t], begun[t] - 1, begun[t]} :
                n >= given[t] /\ Output(t, n)
          /\ UNCHANGED begun
       \/ ~Usable(t) /\ Lost(t)
    /\ UNCHANGED <<loggerVars, registryVars>>

Log(t) ==
    \/ TestForLevel(t) \/ ConstructForLevel(t) \/ Wanted(t) \/ Filtered(t)
    \/ TestForStream(t) \/ ConstructForStream(t) \/ CallStream(t)
    \/ Register(t) \/ makeLog(t) \/ Insert(t)

-----------------------------------------------------------------------------
(* The owner.                                                              *)

Owner(from, to) ==
    /\ ~undefined
    /\ stage = from
    /\ stage' = to
    /\ UNCHANGED <<pc, late>>

(* AsyncLogInit(): AsyncLoggingWatcher() sets the output function and      *)
(* starts the back end.                                                    *)
CreateAsyncLog ==
    /\ Owner("start", "up")
    /\ pc[Main] = "idle"
    /\ toBackEnd' = TRUE
    /\ UNCHANGED <<loggerVars, registryVars, recordVars, undefined,
                   backEndVars, asked, releases>>

Finished(t) == IF pc[t] = "body" THEN begun[t] - 1 ELSE begun[t]

StopFirst == "stop"
ReleaseFirst == "release"

(* ~AsyncLogInit() begins, with _lw; a program without an AsyncLogInit     *)
(* only has the release by instance_deleter when it exits.                 *)
BeginShutdown ==
    /\ \/ Owner("up", ReleaseFirst)
       \/ Owner("start", "exitRelease")
    /\ pc[Main] = "idle"
    /\ asked' = [t \in Threads |-> Finished(t)]
    /\ UNCHANGED <<loggerVars, registryVars, recordVars, toBackEnd,
                   undefined, backEndVars, releases>>

(* release(): `if (instance)'.                                             *)
TestRelease(from, to, after) ==
    /\ Owner(from, IF instance = 0 THEN after ELSE to)
    /\ UNCHANGED <<loggerVars, registryVars, recordVars, toBackEnd,
                   undefined, backEndVars, asked, releases>>

(* streams.clear() reaches the next stream, whose destructor gives away    *)
(* all that is left in it, the record being written included.              *)
WithoutLast(t) == IF begun[t] > given[t] THEN begun[t] - 1 ELSE given[t]
AllOf(t) == begun[t]

StillThere == streams
Rest == Tail(streams)

DestroyStream(at) ==
    /\ Owner(at, at)
    /\ streams # <<>>
    /\ Output(Head(streams), AllOf(Head(streams)))
    /\ streams' = Rest
    /\ UNCHANGED <<loggerVars, tms, pointing, begun, toBackEnd, asked,
                   releases>>

StreamsCleared(from, to) ==
    /\ Owner(from, to)
    /\ streams = <<>>
    /\ UNCHANGED <<loggerVars, registryVars, recordVars, toBackEnd,
                   undefined, backEndVars, asked, releases>>

(* The structs tm are freed, and instance = nullptr; the threads'          *)
(* t_pLogStream and t_tm stay.                                             *)
EndRelease(from, to) ==
    /\ Owner(from, to)
    /\ tms' = {}
    /\ instance' = 0
    /\ releases' = releases + 1
    /\ UNCHANGED <<created, streams, pointing, recordVars, toBackEnd,
                   undefined, backEndVars, asked>>

(* stop() of the back end, as its contract has it.                         *)
Stop ==
    /\ Owner("stop", "stop")
    /\ BackEnd!Promise
    /\ UNCHANGED <<loggerVars, registryVars, recordVars, toBackEnd,
                   undefined, asked, releases>>

(* stop() returns and the AsyncLogging is deleted.  g_output stays.        *)
Stopped ==
    /\ Owner("stop", "gone")
    /\ BackEnd!Close
    /\ UNCHANGED <<loggerVars, registryVars, recordVars, toBackEnd,
                   undefined, asked, releases>>

(* main() is over: the destructor of instance_deleter.                     *)
Exit ==
    /\ Owner("gone", "exitRelease")
    /\ pc[Main] = "idle"
    /\ UNCHANGED <<loggerVars, registryVars, recordVars, toBackEnd,
                   undefined, backEndVars, asked, releases>>

WatcherRelease ==
    \/ TestRelease("release", "clearing", "stop")
    \/ DestroyStream("clearing")
    \/ StreamsCleared("clearing", "freeing")
    \/ EndRelease("freeing", "stop")

DeleterRelease ==
    \/ TestRelease("exitRelease", "exitClearing", "ended")
    \/ DestroyStream("exitClearing")
    \/ StreamsCleared("exitClearing", "exitFreeing")
    \/ EndRelease("exitFreeing", "ended")

(* The back end's thread writes on.                                        *)
Harden ==
    /\ ~undefined
    /\ ~Gone
    /\ BackEnd!Harden
    /\ disk' # disk
    /\ UNCHANGED <<pc, loggerVars, registryVars, recordVars, toBackEnd,
                   stage, undefined, historyVars>>

(* The process has exited, or nothing can be said any more.                *)
Over == (undefined \/ stage = "ended") /\ UNCHANGED vars

Next ==
    \/ \E t \in Threads : Log(t)
    \/ CreateAsyncLog \/ BeginShutdown \/ WatcherRelease \/ Stop \/ Stopped
    \/ Exit \/ DeleterRelease
    \/ Harden
    \/ Over

Spec == Init /\ [][Next]_vars

(* The owner finishes a shutdown it has begun, and the back end writes.    *)
(* Threads need not log.                                                   *)
FairSpec ==
    /\ Spec
    /\ WF_vars(WatcherRelease) /\ WF_vars(DeleterRelease)
    /\ WF_vars(Stop) /\ WF_vars(Stopped)
    /\ WF_vars(Harden)

-----------------------------------------------------------------------------
(* Properties.                                                             *)

(* The first n records of thread t are where they will be found: on        *)
(* stdout, or in a line of the back end that has reached the disk.         *)
OnDisk(t, n) ==
    \E k \in 1..Len(disk) : lines[k].by = t /\ lines[k].upto >= n
Kept(t, n) == printed[t] >= n \/ OnDisk(t, n)

(* When AsyncLogInit is gone, or a program without it has exited, every    *)
(* record that any thread had finished before is out, though it was in     *)
(* the stream of another thread, in the back end or on its way             *)
(* (flog.h:18-22, logger.h:75, logStream.cpp:41): also when threads log on *)
(* during the shutdown, as long as they do nothing undefined.              *)
ShutdownKeepsRecords ==
    stage \in {"gone", "ended"} /\ ~undefined =>
        \A t \in Threads : Kept(t, asked[t])

(* The locks of Logger and the order of flog.h:20-21 are enough for a      *)
(* program in which no thread logs, or goes on with a LOG_x statement,     *)
(* after the shutdown has begun: nothing destroyed is used, neither by     *)
(* the threads, nor by the streams that are destroyed, nor by the second   *)
(* release at exit.                                                        *)
QuietShutdownIsSafe == undefined => late

(* However many threads find no Logger at once, one is constructed for     *)
(* each time that release() took the last one away (logger.cpp:25-36).     *)
OneLogger == created <= releases + 1

(* The shutdown comes to an end, though threads log on meanwhile and make  *)
(* stop() wait again.                                                      *)
ShutdownEnds == stage = "release" ~> stage \in {"gone", "exitRelease",
    "exitClearing", "exitFreeing", "ended"} \/ undefined
=============================================================================
