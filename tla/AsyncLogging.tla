---------------------------- MODULE AsyncLogging ----------------------------
(***************************************************************************)
(* The logging back end (log/asyncLogging.h, log/asyncLogging.cpp and the  *)
(* file appender of log/appender.h).                                       *)
(*                                                                         *)
(* Three kinds of thread meet here: any number of front ends, which call   *)
(* append(); the owner, which calls start() and later stop(); and the back *)
(* end thread, which runs mainRoutine().  The mutex _lock protects         *)
(* _currentBuffer, _nextBuffer and _buffers; _running is read and written  *)
(* without it.                                                             *)
(*                                                                         *)
(* A log line is abstracted to its position in the order in which append() *)
(* took the lock (variable accepted counts them) and to its length.  A     *)
(* LogBuffer is the sequence of the lines copied into it and the offset of *)
(* its _cur pointer.  A critical section that never waits is one atomic    *)
(* action.  The back end owns the mutex across steps only between testing  *)
(* the wait condition and being queued on the condition variable (bpc =    *)
(* "towait"): that window matters because stop() clears _running and       *)
(* signals without the lock.                                               *)
(*                                                                         *)
(* Some operators stand for slips one could make in this code and are used  *)
(* nowhere in the specification (PROJECT.json, "mutants"): HasRoomOrEqual, *)
(* MayClearAtOnce, BatchKept, NothingMore, NothingFull, TakenOutOfOrder,   *)
(* MustRollLate, OnlySignalsEndTheWait.                                    *)
(***************************************************************************)
EXTENDS Naturals, Sequences

CONSTANTS
    BufSize,    \* BUFSIZE, the capacity of a LogBuffer
    RollSize,   \* _rollSize, the size at which the file is rolled
    Lens,       \* the lengths a line can have
    Left,       \* the sizes of a .log0 that somebody else has left: an earlier
                \* process of the same id, or a script that unpacks it
    MaxLines,   \* bound on the number of lines the front ends append
    Null        \* a unique_ptr that holds nothing

ASSUME SizesAssumption ==
    /\ BufSize \in Nat \ {0} /\ RollSize \in Nat /\ MaxLines \in Nat
    /\ Left \subseteq Nat

(* LogStream hands over at most its own buffer, 100 kB, and the back end's *)
(* buffers hold 4 MB; a hand-over of no bytes changes nothing.             *)
ASSUME LensAssumption == Lens \subseteq 1..(BufSize - 1)

LogBuffer == [log : Seq(Nat), size : Nat]

ASSUME NullAssumption == Null \notin LogBuffer

VARIABLES
    accepted,       \* history: lines appended so far
    running,        \* _running
    currentBuffer,  \* _currentBuffer
    nextBuffer,     \* _nextBuffer
    sharedBuffers,  \* _buffers
    mpc,            \* where the owner is in start() / stop()
    size,           \* size, the local variable of stop()
    promised,       \* history: accepted when stop() last read the size
    bpc,            \* where the back end is in mainRoutine()
    buffer1,        \* buffer1, the spare for _currentBuffer
    buffer2,        \* buffer2, the spare for _nextBuffer
    buffers,        \* buffers, the batch being written
    i,              \* the position of the two loops over buffers
    needWrite,      \* needWrite
    written,        \* written
    file,           \* history: every line given to fwrite, over all files
    fileBytes,      \* history: the size of the open file, stdio's part included
    found,          \* history: its size when it was opened
    onDisk          \* how many lines of file have left the stdio buffer

queueVars == <<running, currentBuffer, nextBuffer, sharedBuffers>>
ownerVars == <<mpc, size, promised>>
batchVars == <<buffer1, buffer2, buffers, i, needWrite>>
fileVars  == <<written, file, fileBytes, found, onDisk>>
vars == <<accepted, queueVars, ownerVars, bpc, batchVars, fileVars>>

-----------------------------------------------------------------------------
(* LogBuffer.                                                              *)

NewBuffer == [log |-> <<>>, size |-> 0]

HasRoomOrEqual(b, len) == BufSize - b.size >= len
HasRoom(b, len) == BufSize - b.size > len

Put(b, line, len) == [log |-> Append(b.log, line), size |-> b.size + len]

-----------------------------------------------------------------------------
(* The condition variable.  Only the back end ever waits on it, so a       *)
(* signal moves it from the wait queue to the competition for the mutex,   *)
(* and is lost when it is not queued.                                      *)

Signal == bpc' = IF bpc = "waiting" THEN "enter" ELSE bpc

LockFree == bpc # "towait"

Init ==
    /\ accepted = 0
    /\ running = FALSE
    /\ currentBuffer = NewBuffer
    /\ nextBuffer = NewBuffer
    /\ sharedBuffers = <<>>
    /\ mpc = "new" /\ size = 0 /\ promised = 0
    /\ bpc = "unborn"
    /\ buffer1 = Null /\ buffer2 = Null
    /\ buffers = <<>> /\ i = 1 /\ needWrite = 0
    /\ written = 0 /\ file = <<>> /\ onDisk = 0
    /\ fileBytes = 0 /\ found = 0

-----------------------------------------------------------------------------
(* Front ends: append(logline, len).  The watcher installs the output      *)
(* function before it calls start(), so lines may come first; they may     *)
(* also come while stop() runs, until the object goes away.                *)

FrontEnd(len) ==
    /\ mpc # "stopped"
    /\ accepted < MaxLines
    /\ LockFree
    /\ len \in Lens
    /\ accepted' = accepted + 1

AppendInPlace(len) ==
    /\ FrontEnd(len)
    /\ HasRoom(currentBuffer, len)
    /\ currentBuffer' = Put(currentBuffer, accepted + 1, len)
    /\ UNCHANGED <<running, nextBuffer, sharedBuffers, ownerVars, bpc,
                   batchVars, fileVars>>

(* _currentBuffer is full and _nextBuffer takes its place.                 *)
AppendToNext(len) ==
    /\ FrontEnd(len)
    /\ ~HasRoom(currentBuffer, len)
    /\ nextBuffer # Null
    /\ sharedBuffers' = Append(sharedBuffers, currentBuffer)
    /\ currentBuffer' = Put(nextBuffer, accepted + 1, len)
    /\ nextBuffer' = Null
    /\ UNCHANGED <<running, ownerVars, bpc, batchVars, fileVars>>

(* Both are used up: allocate one, and hurry the back end.                 *)
AppendToFresh(len) ==
    /\ FrontEnd(len)
    /\ ~HasRoom(currentBuffer, len)
    /\ nextBuffer = Null
    /\ sharedBuffers' = Append(sharedBuffers, currentBuffer)
    /\ currentBuffer' = Put(NewBuffer, accepted + 1, len)
    /\ Signal
    /\ UNCHANGED <<running, nextBuffer, ownerVars, batchVars, fileVars>>

-----------------------------------------------------------------------------
(* The owner: start() and stop().                                          *)

Start ==
    /\ mpc = "new"
    /\ running' = TRUE
    /\ bpc' = "boot"
    /\ mpc' = "up"
    /\ UNCHANGED <<accepted, currentBuffer, nextBuffer, sharedBuffers, size,
                   promised, batchVars, fileVars>>

(* The locked read of _currentBuffer->size(), lines 62-65 and 69-70.       *)
ReadSize ==
    /\ LockFree
    /\ size' = currentBuffer.size
    /\ promised' = accepted
    /\ mpc' = "sampled"
    /\ UNCHANGED <<accepted, queueVars, bpc, batchVars, fileVars>>

StopBegin == mpc = "up" /\ ReadSize

StopWakeup ==
    /\ mpc = "sampled"
    /\ size > 0
    /\ Signal
    /\ mpc' = "signalled"
    /\ UNCHANGED <<accepted, queueVars, size, promised, batchVars, fileVars>>

StopReread == mpc = "signalled" /\ ReadSize

MayClearAtOnce == TRUE
MayClear == size = 0

(* _running = false, without the lock.                                     *)
StopClear ==
    /\ mpc = "sampled"
    /\ MayClear
    /\ running' = FALSE
    /\ mpc' = "cleared"
    /\ UNCHANGED <<accepted, currentBuffer, nextBuffer, sharedBuffers, size,
                   promised, bpc, batchVars, fileVars>>

StopSignal ==
    /\ mpc = "cleared"
    /\ Signal
    /\ mpc' = "joining"
    /\ UNCHANGED <<accepted, queueVars, size, promised, batchVars, fileVars>>

StopJoin ==
    /\ mpc = "joining"
    /\ bpc = "exited"
    /\ mpc' = "stopped"
    /\ UNCHANGED <<accepted, queueVars, size, promised, bpc, batchVars,
                   fileVars>>

Owner ==
    Start \/ StopBegin \/ StopWakeup \/ StopReread \/ StopClear
          \/ StopSignal \/ StopJoin

-----------------------------------------------------------------------------
(* The back end: mainRoutine().                                            *)

(* rollFile() and fopen(.log0, "a").  The script has made room for a new   *)
(* file.  If it could not be executed (asyncLogging.cpp:105) or has only   *)
(* copied the logs (jiaoben.py:42) the file is still there, and grows on;  *)
(* module Rotation has what it holds.                                      *)
Reopen ==
    \E n \in {0, fileBytes} \cup Left : found' = n /\ fileBytes' = n

Boot ==
    /\ bpc = "boot"
    /\ buffer1' = NewBuffer
    /\ buffer2' = NewBuffer
    /\ Reopen
    /\ bpc' = "top"
    /\ UNCHANGED <<accepted, queueVars, ownerVars, buffers, i, needWrite,
                   written, file, onDisk>>

BatchKept == buffers
BatchAtTop == <<>>

(* while (_running), seen TRUE: drop the batch that was written.           *)
LoopAgain ==
    /\ bpc = "top"
    /\ running
    /\ buffers' = BatchAtTop
    /\ i' = 1
    /\ bpc' = "enter"
    /\ UNCHANGED <<accepted, queueVars, ownerVars, buffer1, buffer2,
                   needWrite, fileVars>>

NothingMore == onDisk
AllWritten == Len(file)

(* while (_running), seen FALSE: the appender's destructor flushes stdio.  *)
LoopExit ==
    /\ bpc = "top"
    /\ ~running
    /\ onDisk' = AllWritten
    /\ bpc' = "exited"
    /\ UNCHANGED <<accepted, queueVars, ownerVars, batchVars, written, file,
                   fileBytes, found>>

NothingFull == running /\ sharedBuffers = <<>>
NothingToDo == running /\ sharedBuffers = <<>> /\ currentBuffer.size = 0

(* The mutex is taken and the wait condition holds.                        *)
DecideToWait ==
    /\ bpc = "enter"
    /\ NothingToDo
    /\ bpc' = "towait"
    /\ UNCHANGED <<accepted, queueVars, ownerVars, batchVars, fileVars>>

(* pthread_cond_timedwait queues the thread and releases the mutex.        *)
BeginWait ==
    /\ bpc = "towait"
    /\ bpc' = "waiting"
    /\ UNCHANGED <<accepted, queueVars, ownerVars, batchVars, fileVars>>

OnlySignalsEndTheWait == FALSE /\ UNCHANGED vars

(* The three seconds are over, or the wait ends for no reason.             *)
WaitEnds ==
    /\ bpc = "waiting"
    /\ bpc' = "enter"
    /\ UNCHANGED <<accepted, queueVars, ownerVars, batchVars, fileVars>>

TakenOutOfOrder == <<currentBuffer>> \o sharedBuffers
TakenBatch == Append(sharedBuffers, currentBuffer)

(* The rest of the critical section: take everything, put the spares in    *)
(* its place.  buffers.swap(_buffers) is a swap.                           *)
TakeBatch ==
    /\ bpc = "enter"
    /\ ~NothingToDo
    /\ buffers' = TakenBatch
    /\ sharedBuffers' = buffers
    /\ currentBuffer' = buffer1
    /\ buffer1' = Null
    /\ IF nextBuffer = Null
       THEN nextBuffer' = buffer2 /\ buffer2' = Null
       ELSE UNCHANGED <<nextBuffer, buffer2>>
    /\ i' = 1
    /\ bpc' = "refill"
    /\ UNCHANGED <<accepted, running, ownerVars, needWrite, fileVars>>

Refill ==
    /\ bpc = "refill"
    /\ buffer1' = NewBuffer
    /\ buffer2' = IF buffer2 = Null THEN NewBuffer ELSE buffer2
    /\ needWrite' = 0
    /\ bpc' = "measure"
    /\ UNCHANGED <<accepted, queueVars, ownerVars, buffers, i, fileVars>>

Measure ==
    /\ bpc = "measure"
    /\ i \in 1..Len(buffers)
    /\ needWrite' = needWrite + buffers[i].size
    /\ i' = i + 1
    /\ UNCHANGED <<accepted, queueVars, ownerVars, bpc, buffer1, buffer2,
                   buffers, fileVars>>

MustRollLate == written > RollSize
MustRoll == written + needWrite > RollSize

(* appender.reset() closes the file, rollFile() runs the rotation script   *)
(* and waits, and a new appender opens a file; written is reset whatever   *)
(* that file holds.                                                        *)
Roll ==
    /\ bpc = "measure"
    /\ i = Len(buffers) + 1
    /\ MustRoll
    /\ onDisk' = AllWritten
    /\ Reopen
    /\ written' = 0
    /\ i' = 1
    /\ bpc' = "write"
    /\ UNCHANGED <<accepted, queueVars, ownerVars, buffer1, buffer2, buffers,
                   needWrite, file>>

NoRoll ==
    /\ bpc = "measure"
    /\ i = Len(buffers) + 1
    /\ ~MustRoll
    /\ i' = 1
    /\ bpc' = "write"
    /\ UNCHANGED <<accepted, queueVars, ownerVars, buffer1, buffer2, buffers,
                   needWrite, fileVars>>

(* appender->append() is one fwrite: stdio keeps a tail of what it was     *)
(* given in its own buffer and hands over the rest, as it sees fit.        *)
Write ==
    /\ bpc = "write"
    /\ i \in 1..Len(buffers)
    /\ file' = file \o buffers[i].log
    /\ onDisk' \in onDisk..Len(file')
    /\ fileBytes' = fileBytes + buffers[i].size
    /\ i' = i + 1
    /\ UNCHANGED <<accepted, queueVars, ownerVars, bpc, buffer1, buffer2,
                   buffers, needWrite, written, found>>

WriteDone ==
    /\ bpc = "write"
    /\ i = Len(buffers) + 1
    /\ written' = written + needWrite
    /\ bpc' = "top"
    /\ UNCHANGED <<accepted, queueVars, ownerVars, batchVars, file, fileBytes,
                   found, onDisk>>

BackEnd ==
    Boot \/ LoopAgain \/ LoopExit \/ DecideToWait \/ BeginWait \/ WaitEnds
         \/ TakeBatch \/ Refill \/ Measure \/ Roll \/ NoRoll \/ Write
         \/ WriteDone

-----------------------------------------------------------------------------
(* After stop() nothing is left to happen.                                 *)
Stopped == mpc = "stopped" /\ UNCHANGED vars

Next ==
    \/ \E len \in Lens : AppendInPlace(len) \/ AppendToNext(len)
                                            \/ AppendToFresh(len)
    \/ Owner
    \/ BackEnd
    \/ Stopped

Spec == Init /\ [][Next]_vars

(* The scheduler runs the back end, a wait ends after three seconds, and   *)
(* the owner finishes the start() and the stop() it is in.  The back end   *)
(* may take the mutex again and again while stop() wants it, but sleeps in *)
(* between, so the owner, which keeps asking, gets it in the end (strong   *)
(* fairness).  Nothing makes the owner call stop(), and nothing makes a    *)
(* front end log.                                                          *)
Fairness ==
    /\ WF_vars(BackEnd)
    /\ WF_vars(Start \/ StopWakeup \/ StopClear \/ StopSignal \/ StopJoin)
    /\ SF_vars(StopReread)

FairSpec == Spec /\ Fairness

-----------------------------------------------------------------------------
(* Properties.                                                             *)

(* The state of the back end's objects and of the three kinds of thread    *)
(* has the shape the code gives it; in particular no buffer is ever filled *)
(* to or past its capacity, which LogBuffer::append does not check.        *)
Fits == { b \in LogBuffer : b.size < BufSize }

TypeOK ==
    /\ accepted \in 0..MaxLines
    /\ running \in BOOLEAN
    /\ currentBuffer \in Fits
    /\ nextBuffer \in {Null, NewBuffer}
    /\ sharedBuffers \in Seq(Fits)
    /\ mpc \in {"new", "up", "sampled", "signalled", "cleared", "joining",
                 "stopped"}
    /\ size \in Nat
    /\ promised \in 0..MaxLines
    /\ bpc \in {"unborn", "boot", "top", "enter", "towait", "waiting",
                 "refill", "measure", "write", "exited"}
    /\ buffer1 \in {Null, NewBuffer}
    /\ buffer2 \in {Null, NewBuffer}
    /\ buffers \in Seq(Fits)
    /\ i \in 1..(Len(buffers) + 1)
    /\ needWrite \in Nat
    /\ written \in Nat
    /\ file \in Seq(Nat)
    /\ fileBytes \in Nat /\ found \in Nat
    /\ onDisk \in 0..Len(file)

(* What has been given to fwrite, through buffer switches, batches and     *)
(* rolled files, is the first lines in the order of append(): none lost in *)
(* between, none twice, none overtaken by a later one.                     *)
WrittenInOrder == \A n \in 1..Len(file) : file[n] = n

(* stop() looks only at _currentBuffer and never at _buffers.  That is     *)
(* enough: whenever it can take the lock and finds the current buffer      *)
(* empty, no full buffer is left behind in _buffers.                       *)
StopTestSound ==
    LockFree /\ currentBuffer.size = 0 => sharedBuffers = <<>>

(* When stop() returns, every line appended before its last look at the    *)
(* buffer is on disk.                                                      *)
StopDrains == mpc = "stopped" => promised <= onDisk

(* mainRoutine's account of the file is what the file has grown by since   *)
(* it was opened, and it grows by more than _rollSize only if a single     *)
(* batch does.  So much for a new file; one that the script has left there *)
(* was opened with a size (found) that the account does not have, and      *)
(* outgrows _rollSize by as much (asyncLogging.cpp:119, :151).             *)
RollBound ==
    bpc = "top" =>
        /\ fileBytes = found + written
        /\ fileBytes > found + RollSize => fileBytes = found + needWrite

(* stop() returns, though its last signal can be sent before the back end  *)
(* is queued on the condition variable, and be lost.                       *)
StopReturns == (mpc = "sampled") ~> (mpc = "stopped")

(* A line appended while the back end is up and nobody has called stop()   *)
(* is written, whether or not further lines follow and whenever stop()     *)
(* comes.                                                                  *)
EventuallyWritten ==
    \A n \in 1..MaxLines :
        (mpc = "up" /\ accepted >= n) ~> (Len(file) >= n)

(* The lines that no crash of the process can take back any more.          *)
hardened == [n \in 1..onDisk |-> file[n]]

closing == IF mpc \in {"new", "up"} THEN "open"
           ELSE IF mpc = "stopped" THEN "closed" ELSE "closing"

DL == INSTANCE DurableLog WITH disk <- hardened, stage <- closing

(* The back end implements the durable log: its disk is what has left      *)
(* stdio, in file order, its promise is the count of lines at the last     *)
(* look stop() took at the buffer.  The lines appear on disk in the order  *)
(* of append(), and stop() returns only when the promised ones are there.  *)
ImplementsDurableLog == DL!Spec
=============================================================================
