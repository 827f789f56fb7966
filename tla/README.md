# Verification of cpp-utils

TLA+ specifications of the parts of cpp-utils whose correctness depends on more
than one thread or on more than one step: what they do, TLC runs that check
them on small instances, and proofs, checked by TLAPS, for every size.

## The system

cpp-utils is a library of building blocks. The logging system is its core and
most used part: everything else in it logs.

| component | state | operations | who calls it |
|---|---|---|---|
| logging front end, `log/logStream.*` | per thread: `_buf`, `_cur`, `_end`, `t_needFlush`, `t_lastSecs` | `makeLog`, `<<` / `append`, `flushLine`, `flush`, destructor | every `LOG_x` statement; hands over to `g_output` |
| `Logger`, `log/logger.*`, `log/flog.h` | singleton, `streams`, `tms`, a pointer to its stream per thread | `getInstance`, `stream`, `release`; `AsyncLogInit` | the `LOG_x` macros, `main` |
| logging back end, `log/asyncLogging.*`, `log/appender.h` | `_running`, `_currentBuffer`, `_nextBuffer`, `_buffers`, lock and condition; locals of `mainRoutine` | `append`, `start`, `stop`, `mainRoutine` (a thread), `rollFile` | front ends of all threads, the watcher |
| rotation script, `log/jiaoben.py` | files and an archive | `TarLogFile` | forked by `rollFile` |
| `MQ`, `itc/mq.h` | queue, mutex, condition | `push`, `pull`, `clear` | `ThreadPool`, users |
| `ThreadPool`, `cct/threadPool.*` | `_numThreads`, `_threads`, `_taskQueue` | constructors, `setNumThreads`, `start`, `join`, `addTask`, the workers' routine | users |
| `Thread`, `Semaphore`, `cct/thread.*`, `cct/sem.*` | `_started`, `_joined`, `_tid`, a semaphore | `start`, `join`, `startThread` | pool, back end |
| mutex, condition, `cct/mutex.h`, `cct/condition.h` | pthread objects | lock, wait, timed wait, signal, broadcast | all of the above |
| fibers, `cct/fiber.*` | status, references, current and main fiber of a thread, contexts | `swapIn`, `swapOut`, `yieldSleeping`, `MainFunc`, `FiberExit`, `GetThis` | users |
| configuration, `config/config.*` | registry of variables, a value and a callback each | `lookup`, `setValue`, `toString`, `fromString`, `loadFromYaml` | users, `Fiber` |
| skip list, list, `ds/*` | nodes | `insert`, `erase`, `find`, `remove`, `get` | users |
| serialization, `serialize/*` | a chain of fixed nodes | `write`, `read`, varint and zigzag codings | users |

How they interact: a `LOG_x` statement begins a record in the `LogStream` of its
thread. The stream calls `g_output` with whole records or lines; with an
`AsyncLogInit` in place that is `AsyncLogging::append`, which takes the back
end's lock and copies the text into its current 4 MB buffer. The back end's
thread takes full and partly filled buffers away under the lock and writes them
to a file without it. `stop()` waits, by looking at the current buffer over and
over, until the thread has taken everything, and joins it. An `AsyncLogInit` that
goes away first destroys the streams of all threads, each of which hands over
what it still has, and then stops the back end. Whenever a file has become too
long the back end forks the rotation script and waits for it. `ThreadPool` keeps
its tasks in an `MQ`, and starts each worker by a handshake over a semaphore.

What is hard, and must be right:

* *Back end*: two full-buffer hand-overs in opposite directions, a flag
  (`_running`) read and written without the lock, signals that may be sent
  before anybody waits, a `stop()` that decides by a single size. No line may be
  lost, repeated or overtaken, `stop()` must return, and only when what it found
  is on disk.
* *Front end*: overflow, line flush and flush by time in the middle of a record,
  with pointers that are moved back. No text may be lost, and only whole records
  or lines may be handed over, or the records of several threads get mixed up.
* *MQ*: lost wakeups, items taken twice, a waiting puller not tested again.
* *ThreadPool*: the order of calls decides how many threads there are; tasks must
  run once each.
* *Skip list*: the number of levels in use is kept by two operations that must
  agree, and `find()` puts two critical sections together.
* *Serialization*: writes that end anywhere in a chain of nodes, two sides whose
  arithmetic has to be inverse at the ends of every range.
* *Logger and shutdown*: double-checked locking against a `release()` that takes
  no notice of the threads that are writing, and an order of destruction (streams,
  back end, static objects) on which it depends whether the last records are kept.
* *Fibers*: which stack the thread is on, what `t_curFiber` says, whose context is
  saved where, and who holds the last reference to a stack that is being left.
* *Configuration*: a registry without a lock, a callback after the unlock, and
  conversions that take every container through the same few YAML calls.
* *Rotation*: a process of its own that renames by the last digit, and may be
  running still, or never have run, when the back end goes on.

`PROJECT.json` lists the components, and under `hazards` the places where these
difficulties bite.

## Modules

| module | models |
|---|---|
| `DurableLog` | abstract: what the logging back end promises |
| `AsyncLogging` | the back end, front ends and owner included |
| `MCAsyncLogging` | its small instance |
| `AsyncLoggingProofs` | theorems about it, and about `Rotation` |
| `MQ`, `MCMQ`, `MQProofs` | the queue, its instance, its theorems |
| `ThreadPool`, `MCThreadPool` | the pool, composed with `MQ` (`TaskQueue == INSTANCE MQ`) |
| `LogStream`, `MCLogStream`, `LogStreamProofs` | the front end of one thread |
| `Logging`, `MCLogging`, `LoggingProofs` | `LOG_x` of several threads, `Logger`, `AsyncLogInit`, composed with `DurableLog` (`BackEnd == INSTANCE DurableLog`) |
| `Rotation`, `MCRotation` | `rollFile()` and the script |
| `Fiber`, `MCFiber` | the fibers of a thread |
| `CctProofs` | theorems about `ThreadPool` and `Fiber` |
| `Config`, `ConfigNodes`, `MCConfig`, `ConfigProofs` | registry, variables and files |
| `SkipList`, `MCSkipList`, `SkipListProofs` | the key-value store |
| `Serialize`, `MCSerialize`, `SerializeProofs` | serializer and deserializer |

### AsyncLogging

A line is its number in the order in which `append()` took the lock, and a
length; a `LogBuffer` is the lines copied into it and its size. The variables
carry the names of the code. `bpc` and `mpc` say where `mainRoutine()` and
`start()`/`stop()` are.

A critical section that does not wait is one action: `AppendInPlace`,
`AppendToNext`, `AppendToFresh` (the three ways through `append()`),
`StopBegin`/`StopReread` (the locked reads of the size), `TakeBatch`. The wait
of the back end is three actions, because `stop()` signals without the lock:
`DecideToWait` (condition tested, lock held), `BeginWait` (queued, lock
released), `WaitEnds` (timeout or spurious). Everything the back end does
without the lock is a step per line of code or per buffer: `LoopAgain` and
`LoopExit` read `_running`, `Refill`, `Measure`, `Roll`/`NoRoll`, `Write`,
`WriteDone`. `Write` is one `fwrite`: of all that was ever given to stdio any
further part may reach the disk (`onDisk`); closing the file (in `Roll` and
`LoopExit`) writes the rest. `Boot` and `Roll` open `.log0` to append (`Reopen`):
it is new, or the one just closed, when the script could not be executed or has
only copied it, or has a size of `Left`, left by somebody else; `found` is that
size, `fileBytes` what the file has now. What the script does to the old files is
in `Rotation`. The object goes away after `stop()`, so no line is appended after
it; lines may come before `start()` and during `stop()`.

### DurableLog

Lines are accepted; a growing prefix of them is on disk; closing first promises
a number of lines, and is over only when they are on disk. `AsyncLogging`
implements it with `disk` the part of the file that has left stdio, and
`promised` the number of lines accepted when `stop()` last read the size.

### MQ

`push`, `clear`, and `pull` as `pull` (called), `pullWait` (tested, queued on
the condition and lock released in one step) and `pullTake`. `SpuriousWakeup`
ends a wait for no reason. An item is its number in the order of the pushes.

### ThreadPool

The owner's calls are loops over `_threads` that others interleave with: `start()`
is `CallStart`, then `StartThread` (up to `pthread_create`) and `Handshake`
(`_sem.wait()`) per thread, then `StartReturns`; `StartAborts` is the failed
assertion of a second start. `InterruptedHandshake` is `sem_wait()` failing with
`EINTR` because the program handles a signal. The child posts (`Post`), writes
`_tid` (`WriteTid`) and pulls (`Pull`, `Take`) and executes (`Execute`) for
ever. `CallJoin` has no step after it: the first join never returns, because the
routine of a worker does not (`cct/threadPoolTest.cpp` never gets to its
`return 0`).

### LogStream

One thread uses a stream, so that the module is sequential; its difficulty is
the pointers. `makeLog` is the part of `makeLog()` up to the call of
`formatTime()`, `AppendHead`, `AppendDash` and `AppendFunc` are its appends (the
last takes the " - " back first), `Insert` the user's `<<`, `Release` the
destructor. `append` has the three ways an append can go: there is room; there
is after the complete records are handed over; there is not, and the program
comes down (endless recursion, or a negative length). A character is its
position in all that was appended, so that loss, repetition and disorder show in
`out \o buf`; which ones are newlines, and in which second a record began, is
kept in history variables. `end` can be negative, as the pointer can be in front
of the array.

### Logging

A `LOG_x` statement is the steps `TestForLevel`, `ConstructForLevel`, `Wanted` or
`Filtered` (the level), `TestForStream`, `ConstructForStream`, `CallStream`,
`Register` (a thread's first call of `stream()`), `makeLog` and `Insert` (the last
`<<`): the unlocked test of `instance`, the critical section, and the unlocked
second read are steps of their own, twice per statement. The owner of the
`AsyncLogInit` goes through `stage`: `CreateAsyncLog`, `BeginShutdown`, the
`release()` of `_lw` (test, one step per destroyed stream, the end), `Stop` and
`Stopped`, `Exit`, and the `release()` by the destructor of `instance_deleter`.

The two ends are contracts. That a stream gives its records away whole and in order
is what `LogStream` is checked for; here a thread has begun some records and given
a prefix of them away, and each step may give away any that it may give away there.
The back end is `DurableLog`, which `AsyncLogging` is proved to implement. What a
thread does with a null `Logger`, a destroyed stream or `tm`, a vector that is being
cleared or a deleted back end sets `undefined`, and nothing more is claimed. `late`
remembers that a thread went on logging after the shutdown had begun, `asked` how
many records each had finished then. Levels are `Wanted` or `Filtered`.

### Rotation

`rollFile()` is `rollFile` (close and fork) and `WaitReturns` (`wait(NULL)` and the
opening of the next file); the script is a step per shell command (`TestArchive`
to `RmLogs`, or `TarOnly`), so that everything between two commands is a state: a
script that is killed, and one that still runs because the wait returned for
another child. A name is its digits, a file the batches in it, the archive a
directory of its own. `Listed` is the reversed output of `ls`, `Renamed` the
arithmetic on the last digit. The open file is followed through `mv`, `tar` and
`rm`. `trouble` records what has gone wrong around the script: `raced` (a script
still ran when the wait returned) and `startedLate` (it found files but no archive).

### Fiber

The thread is on one stack at a time (`on`); a context is a stack and a point on
it. `swapIn`, `Yield` (`swapOut`, `yieldSleeping`) and `FiberExit` (at the `End` of
`MainFunc()`, by `Return` or `Throw`) are each the assignments before
`swapcontext()` and the `Switch` itself: save, load, go on. They act on the fiber
they are called on, which may be the main one or not the one that runs. A context
whose stack has gone on since is `stale`, that of an ended fiber is at its `exit`,
where the assertion fails; so does `MainFunc()` on the stack the constructor makes
for the main fiber, if that is ever loaded from its `entry`. References are the
user's `handles` (`GetThis()` gives them too), `t_curFiber`, `t_threadFiber`, and
`cur` on a fiber's own stack (`inMainFunc`); the fibers nobody refers to any more
are freed in the step that drops the last reference. The user calls any public
member at any time, `SetThis()` and `FiberExit()` (`UserFiberExit`) included: the
`Rules` he breaks are collected in `misuse`, and how the thread ended is in
`outcome`.

### Config

Every access to the registry is a step; the insertion of `lookup()` is two
(`BeginInsert`, `EndInsert`), and an access in between is the data race
`undefined`. The locked part of `setValue()` is a step (`Store`), the callback after
the unlock another (`Notify`), which appends what it was told to `events`. A load
is a step per node of the file. Texts are YAML nodes (number, items, pairs, null),
and a conversion is what `FromText` and `ToText` make of them, with the empty set
for an exception; an integer may be negative, and a scalar that is no number has
no `number`.

A variable is an `int`, or a vector, set or map of `int` or of `std::string`. The
elements of a container go through `YAML::Load` when they are written
(`config.h:69`, `:131`, `:193`) and through `<<` when they are read (`:86`), which a
string need not survive. A string is therefore a pair: the node `yaml` it loads as
(with an `error` if it does not), and a `spelling`; `Written(node)` is the string
that `<<` makes of a node, and it is taken from yaml-cpp that this one loads as the
node again. `TextKeepsValue` says exactly which values come back. The keys of maps
are never numbers, by which yaml-cpp would find a pair as `node[i]`. Not modelled
are a variable that is itself a `std::string`, whose text is its value, other scalar
types, containers of containers, types with a `LexicalCast` of the user's, and
`unordered_map` of strings, which are not loaded but inserted (`config.h:225`).
`ConfigNodes` is `listAllNodes()`. `solo` follows a load that
nobody interferes with, `overlapped` says that a creation had company.

### SkipList

`insert()` and `erase()` hold the lock throughout, so that each is one action
(`insert` and `insertExisting` are the two outcomes of the former), with the
random level as a parameter. `find()` is `FindPre` (first critical section),
`FindNext` (the unlocked read of `next[0]`), `FindCompare` (second critical
section) and `FindReturns`; one thread is in it, which is enough because it changes
nothing. `update` is the search through the levels that all operations begin with.

Nodes are numbered as they are allocated, and a number is not used again; links
to a deleted node stay, as in the code. Whoever reads a deleted node
(`UpdateLost`, `FindLost`) sets `undefined`, after which nothing is claimed. The
run `skip_list_erase` shows that `erase()` can leave such links. The properties of
the structure are therefore about lists without them (`Intact`); they say that
nothing else is wrong with it: level bookkeeping, order, and what a search finds.
What `find()` answers is compared with the keys that were in the list at some time
during the call (`wasIn`, `wasOut`); `changed` says that the list changed between
`FindPre` and `FindNext`.

A call of `erase()` for a key that is not there deletes the node after its place
and counts it all the same (`kv_skiplist.h:221`, `:222`); `erase` does so too.

### Serialize

`se` is the serializer object, `write` the function `write()` on it, and `Write`
the functions for the types, a string being two calls of `write()`. The
deserializer is given the serializer's string at any time, directly or from a file
(`Load`, which stands for the constructor, `reset` with a string and `fromFile`)
and reads the values back in the order in which they were written, as the
repository's guide asks of its users. Who reads further than that, or a string cut
by white space in the file (`cut`), can fail the assertion of `read()`
(`ReadAborts`). The codings are modelled by their arithmetic on numbers of `width`
bytes; `ByteBits` is the size of a byte, 8 in reality, and powers of two are
`TwoTo`, because the provers know nothing of `^`. `IsValue` says what the type of a
value can hold.

`_cur` is never moved into a node that was added. The history `astray` says that
bytes have been stored through it since; up to then all is well
(`StringUntilAstray`), later it is not (`StringIsWhatWasSent`). The deserializer is
only given strings from before, so that its bytes are defined. `LittleEndian` is
TRUE in the instance: on a big-endian machine `readBit32()` would return fixed
numbers in the wrong order, because it tests the address of `isLittleEndian`.

## Runs

| run | instance | shows |
|---|---|---|
| `async_logging` | buffers of 3, lines of 1 or 2 bytes, 4 lines, rolling above 3, a file of 2 left behind | type, order, the test of `stop()`, no loss at `stop()`, rolling, refinement of `DurableLog`, `stop()` returns, lines get written |
| `log_stream` | buffer of 6, pieces of up to 2, 12 characters, both modes | nothing lost, whole records, no second or line left behind, only long records fail |
| `logging` | the owner's thread and another, 2 records each | finished records are kept by the shutdown, a quiet shutdown uses nothing destroyed, one `Logger` at a time, the shutdown ends |
| `rotation` | numbers of base 3, 3 batches, 6 rolls, 1 other child | no batch is lost before the second digit is full, older batches have higher numbers |
| `mq` | 3 pullers, 4 items | order, nothing lost, no sleeper beside an item, items are taken |
| `thread_pool` | maximum of 1 thread, arguments -1..2, 3 threads, 3 tasks | handshake, tasks executed once, and in the end |
| `fiber` | main fiber and 3 children, alike (symmetry), up to 2 rules broken | current fiber, status and stack agree, nobody is on a freed stack, failures come from misuse, stranded fibers stay |
| `config` | 2 threads, 7 declared variables, 2 files, 3 calls | registry, changes add up, a file takes effect, which values texts give back |
| `skip_list` | 3 keys, 2 levels, 3 nodes, 3 calls of `erase()` | shape, empty levels above `_curLevel`, searches find what is stored, `find()` answers right unless the list changes in the middle of it |
| `skip_list_erase` | same | violated: an erased node stays linked |
| `serialize` | bytes of 4 bits, nodes of 5, 22 values of all kinds, 3 writes | sizes, the string up to a write that goes astray, values read back |
| `serialize_spill` | same | violated: the string is not what was written |

Why the bounds are enough. In `AsyncLogging` a buffer is full after one or two
lines; three lines of two bytes use the current and the next buffer and force a
fresh one (`AppendToFresh`), and a fourth finds the back end anywhere in its loop. A
batch can stay below, reach and exceed the rolling size, alone or with what is in
the file. In `LogStream` a record has 2 to 12 characters: two or three fill the
buffer, and one can exceed it alone. In `Logging` two records let a thread have one
in its stream while it writes another, and give the streams something to hand over
one at a time while the other thread is anywhere in its statement. In `Rotation`
base 3 brings the first name of two digits with the fourth roll and the first lost
file with the fifth (the eleventh and the twelfth with ten); `NoBatchLost` claims
four rolls, and fails when it is made to claim one more, `HigherNumbersOlder` holds
for all six. One other child is enough for a script and the back end, or two
scripts, to run side by side. In `MQ` a broadcast wakes three pullers of whom one
gets the item. In `ThreadPool` with a maximum of one thread both the constructor (2
threads) and the setter (one more) get past it, and start meets three threads,
started ones among them; three tasks meet workers in every state. In `Fiber` three
children let one be switched to from a second while a third is suspended; behaviours
end with the third broken rule (`FewBroken`), since `OnlyMisuseFails` can fail only
where rules are missing from `misuse`, and the proofs are about all of them. In
`Config` three calls are two setters and a reader of one variable, or a load between
two of them; the files have a variable that is also part of a map, nodes that do not
convert, and a name with a dot in it; the strings are one that is kept, `""`, `"~"`
and one that does not load. In `SkipList` three keys have a predecessor, a successor
and one to look for; two levels are enough for `_curLevel` to be at, above and below
the highest level in use, and three erases for one to lower it and the next to
suffer. In `Serialize` a node of five bytes is left with anything from none to five
free, and a string of thirteen adds two nodes; numbers of two and four bytes are
taken at the ends of their ranges and of the varint groups.

What only grows is bounded in the guards (`MaxLines`, `MaxItems`, `MaxTasks`,
`MaxThreads`, `MaxChars`, `MaxNodes`, `MaxErases`, `MaxWrites`, `MaxRecords`,
`MaxCalls`, `MaxBatches`, `MaxRolls`, `MaxForeign`), and in `Fiber` by the
constraint on `MaxBroken`; the proofs do not depend on
the values.

Deadlock is checked in every run: the only states without a further step are the
ones that `Stopped` (in `AsyncLogging`), `Aborted`, `Gone`, `Over` and `Done` name.

Fairness. The back end's thread and the workers run when they can (weak
fairness); a timed wait ends after three seconds, so `WaitEnds` is fair with the
rest of the back end; the owner finishes the `start()` or `stop()` it is in, but
never has to call one. `StopReread` has strong fairness: the back end may take
the mutex again and again, but sleeps or writes in between, and `stop()` asks for
it all the time. In `Logging` the owner finishes the shutdown it has begun, and the
back end writes. No front end, `LOG_x` statement, push, task or spurious wakeup is
ever required to happen. Tasks given to the pool are taken to terminate. `Fiber`,
`Config`, `Rotation`, `LogStream`, `SkipList` and `Serialize` have no fairness:
nothing there happens unless a user calls it, or it is claimed of safety only.

### Where code and comments part

Two runs are violated, because a comment promises what the code does not do:

* `insert()` keeps `_curLevel` one past the highest level in use, `erase()`
  lowers it to that level, but unlinks only below it: the next erase of a node of
  that level leaves a link to deleted memory (`kv_skiplist.h:213`).
* `Serialize::write()` leaves `_cur` in the old node when it adds one
  (`serialize.cpp:123`): the next write overwrites earlier bytes.

Elsewhere the properties say what the code does, and a comment says more:

* `asyncLogging.h:99` and `asyncLogging.cpp:153` say that lines get to disk
  within three seconds; they get to stdio (`EventuallyWritten`), as there is no
  `fflush` before the file is closed.
* `ThreadPool(n)` initialises its threads twice, and each `setNumThreads()` adds
  to them (`threadPool.cpp:24`, `:52`), whatever the maximum of `:41`.
* `find()` reads `next[0]` without the lock (`kv_skiplist.h:131`): an insert just
  before makes it return 0 for a key that is there (`changed` in
  `FindAnswersRight`).
* `Serialize::fromFile()` reads up to white space (`serialize.cpp:407`), which
  `toFile()` does not avoid (`cut` in `ReadsBack`).
* `Thread::start()` does not wait for the child (comment `thread.cpp:102`) if a
  signal interrupts `sem_wait()`, because `Semaphore::wait()` returns (`sem.cpp:19`):
  `HandshakeSound` excepts threads in `interrupted`.
* `flushLine()` computes an `_end` in front of the buffer (`logStream.cpp:84`,
  comment `logStream.h:106`); the next record sets it anew, so that it does harm
  only when a record of several lines overflows the buffer after one of its
  newlines, and `OnlyLongRecordsFail` shows that only records as long as the buffer
  get there.
* `_rollSize` does not bound a file that is there when it is opened: where the
  script cannot be executed (`asyncLogging.cpp:105`) or only copies the logs
  (`jiaoben.py:42`), `.log0` is opened again to append (`appender.h:21`) and
  `written` starts from 0 (`asyncLogging.cpp:119`, `:151`). `RollBound` is therefore
  about what a file grows by while it is open.
* The comment at `asyncLogging.cpp:97` has the script rename 0 to 1, 1 to 2, and so
  on. It renames by the last digit (`jiaoben.py:27`), in the reversed order of words,
  in which `.log9` comes before `.log10`: the twelfth roll moves the one over the
  other, and the oldest file is lost. `NoBatchLost` claims the rolls before that.
  Where there is no archive yet the logs are copied into one but stay (`:42`), and
  come back over what was appended since (`:16`).
* The comment at `config.h:384` demands that variables are created in static
  initialisation only; `lookup()` does not enforce it. `StableHandles` shows what is
  needed: that no creation has company.
* `fiber.h:38` says that a fiber is always entered from the main fiber, and that the
  main fiber may stay `FREE`. Nothing enforces the first (`nested`), and a main
  fiber that yields or is entered is left `RUNNABLE` or `RUNNING`, for which its
  destructor aborts (`mainYields`, `mainEntered`). `swapOut()` called on a fiber that
  does not run resumes the main fiber where it no longer is (`yieldsOther`).

* Containers of strings do not keep them (`config.h:69`, `:100`, `:131`, `:193`):
  `{""}` is written as `[~]` and comes back as `{"~"}`, a string that is YAML in
  another spelling comes back in that of `<<`, and one that does not load makes
  `toString()` return `""`, from which the container comes back empty. A
  `vector<string>` given a map of n pairs gets n empty strings. `TextKeepsValue` says
  when the value is kept.
* The comment at `serialize.cpp:303` calls it a bug that `readVarInt8()` reads one
  byte: an `int8_t` whose highest bit is set needed two. It does not:
  `writeVarInt8()` writes the byte as it is, and `ReadsBack`, whose values include
  the negative ones of one byte, and `Decodes`, for all of them, show that it comes
  back. The code is right and the comment wrong.
* `encodeZigZag32()` and `encodeZigZag64()` negate the smallest number
  (`serialize.cpp:144`, `:148`), which C++ leaves undefined. The library is built
  without optimisation (`serialize/CMakeLists.txt:6`), where the negation is modulo
  2^32 or 2^64 and the number comes back; `encodeZigZag` says so, and `ReadsBack` is
  about that build.

## Proofs

All theorems hold for every value of the constants that satisfies the assumptions in
the modules: for `AsyncLogging` that sizes are natural numbers (those in `Left`
included), that a line is shorter than a buffer (the front end's buffer is 100 kB,
the back end's 4 MB), and that an empty pointer is not a buffer; for `Rotation` that
`Base` is at least 2 and the bounds are natural numbers; for `MQ` only that
`MaxItems` is a natural number; for `ThreadPool` that its bounds are; for `Logging`
that the owner's is one of the threads; for `LogStream` that `kBufferSize` is a
positive natural number and the bounds `MaxPiece` and `MaxChars` are natural
numbers; for `Fiber` that the main fiber is none of the children; for `Config` that
there are finitely many threads, that the declared variables are a list with
distinct names, that all values have the types of their variables (the types
modelled, of `int` and `std::string`), and that files are lists of nodes whose
numbers are integers (what the compiler and `YAML::Load` see to); for `SkipList`
that keys are integers, that there is a level, and that the bounds `MaxNodes` and
`MaxErases` are natural numbers; for `Serialize` that a byte has at least two bits,
that a node has room for a byte, and that every value is one its type can hold. None
of the properties is inductive, except types.

`AsyncLoggingProofs` proves `TypeCorrect`, `FileInOrder`, `StopTestIsSound`,
`StopLosesNothing`, `Refinement` and `FilesBounded`. The invariant `Inv` has four
parts:

* `TypeInv`: the types, and `SparesReady`, that `buffer1` and `buffer2` are new
  buffers wherever the back end may hand them over;
* `Control`: how `mpc`, `bpc` and `_running` go together (`_running` holds from
  `start()` to `StopClear`; when `stop()` is over the back end has exited, and
  then all of the file is on disk); that the batch is empty before it is taken
  and all written at the top of the loop; that at most the accepted lines are
  promised; and that an empty current buffer has nothing before it in `_buffers`;
* `WrittenInOrder`;
* `Pipeline`: the file, the unwritten part of the batch, `_buffers` and the
  current buffer hold the lines from 1 to `accepted` one after another. It is
  stated along the places a line passes through (`Carries`, a buffer whose log is
  a given interval of lines, and `Chain`, a sequence of buffers that carry
  adjoining intervals), and says that once `stop()` has seen the current buffer
  empty, what it promised is in the file or in the batch.

`StepTypeInv`, `StepControl`, `AppendPipeline`, `OwnerPipeline` and
`BackEndPipeline` show that each step preserves these parts, action by action.
When `stop()` returns, the back end has exited and its batch is written, so
that by `Pipeline` every promised line is in the file, and closing it has put
them on disk. `Refinement` uses the same
invariant: an action of `AsyncLogging` is a step of `DurableLog` (`Accept` for
the three appends, `Harden` for `Write`, `Roll` and `LoopExit`, `Promise` for the
reads of the size, `Close` for `StopJoin`) or leaves it alone. `FilesBounded` needs
the sum of the sizes of a batch; instead of a recursive definition `RollInv` says
that there is a function of partial sums (`Totals`), of which `needWrite` is the
value where the measuring loop is (`Measured`), and by which the writing loop has
come on (`PartlyWritten`); and that the open file has the size it was `found` with
and what that account adds.

The module also extends `Rotation`, the script that `rollFile()` starts (hence its
`RollInit`, `RollNext` and `RollSpec`), and proves `NoneLost` about it:
`RotationInv` says for the first `Base + 1` rolls, as long as `trouble` is empty
(`Calm`), that at most the last script runs, and only while `rollFile()` waits; where
the files are at each of its commands (`Place`); and that every batch has a copy
(`Kept`). Between rolls there is only `.log0` next to an archive of `.log1` to
`.log10` at most, so that unpacking replaces nothing. While the script renames,
`Renaming` says that the names left are of one digit and in descending order
(`ListedDescends`), and that what has been renamed is beyond what they become, so
that no `mv` replaces a file.

`NumbersOlder` is about any number of rolls, so about names of any length. They are
ones with a digit behind them (`Ones`), and `RenamedPassesNone` says that a renamed
file passes no other name on its way: in whatever order `ls` has listed them, a `mv`
may replace the next file, but it keeps the order of what is left. `AgesInv` says that
the files, the archive and both together are ordered by age, step by step of the
script, and that a `.log0` is in the list of names for as long as it is there
(`Emptying`, `ListedHasLog0`), so that the next `.log0` is a new file.

`MQProofs` proves `TypeCorrect`, `QueueInOrder`, `NothingLost` and
`NoLostWakeup`. Its invariant replaces the order of what was taken by that of the
whole history, taken and queued items together (`Increasing(History)`), of which
every item is at most `pushed`; only then does a new item keep the order.

`CctProofs` proves `StartWaits` and `TasksRunOnce` of the pool. The pool uses the queue
as module `MQ` has it, so that every step of the pool is one of the queue or none
(`Queue == INSTANCE MQProofs WITH ...`), and the queue's invariant is taken over:
the item at the head was never taken before (`HeadIsNew`). `StartInv` adds that a
semaphore is posted only by a thread that runs, `TaskInv` that a task is with
nobody, with exactly one worker, or behind one execution (`Account`).

`LoggingProofs` proves `TypeCorrect`, `OneLoggerAtATime`, `QuietShutdown` and
`ShutdownKeeps`. For the second, `created` is at most the releases, plus one if
there is a `Logger`. `Order` says what is left of `Logger`, output function and
back end at each stage. `QuietInv` says that, while nobody has logged late, every
thread's stream is registered before the shutdown, and that no stream is left after
the release. `KeepInv` follows the records: what was not given away is in a
registered stream (`Unfinished`), what was is on stdout or in a line (`Passed`),
after the release all that was asked for is given (`AllGiven`), and `stop()` has
promised the lines with it (`Promised`, `Closed`).

`LogStreamProofs` proves `TypeCorrect`, `AllKept`, `HandedOverWhole`,
`NothingStays` and `OnlyLongFail`. The invariant `StreamInv` adds to the last three
where the characters are: `out` and `buf` are two stretches of the text, the second
beginning where the first ends (`Stretches`, from which `NothingLost` follows);
the record that is being written begins at `end`, behind complete ones
(`RecordBegun`); newlines and first characters lie in the text (`FirstsInText`);
and, unless the next record flushes the buffer, those that wait are of the second
of the last one (`SameSecond`). The first lemmas say that stretches can be joined
and cut, `AppendCase` what an append of any length to any buffer leads to: the
piece is in the buffer, after something was handed over if there was no room, or
the program fails and the record is too long. `AppendStep` proves the invariant
for all appends at once.

`SkipListProofs` proves `SkipListInvariant`, `IsSkipList`, `HoldsWhatIsStored` and
`FindIsRight`. That a list is a skip list while no link leads to a deleted node is
not inductive: an `erase()` of a missing key can leave such links, a later step can
remove the last of them, and the list must then be found sound. `SkipListInv`
therefore holds of broken lists too. Besides types it says that links lead to higher
keys, on levels that both ends have (`Ascending`), that stored keys and nodes
correspond (`OneNodeEach`), that levels above `curLevel` are empty (`EmptyAbove`),
and, the heart of it, that a link of a node that is not deleted never jumps over a
key that is stored, even when it leads to a deleted node (`NoneSkipped`). `WalkIs`
and `UpdateIs` show that the recursive functions of the search exist and satisfy
their equations, `UpdateStops` that on every level the search ends at the last place
before the key or reads a deleted node; `InsertList` and `EraseList` build on it.
`FindInv` follows the steps of `find()`: as long as the list has not changed since
the first, the place found is the last before the key.

`ConfigProofs` proves `HandlesStable`, `ChangesTold`, `TextsKeepValues` and
`LoadsTakeEffect`. Without overlapping
creations at most one thread is anywhere in a creation, and the name it inserts is
not there (`Alone`). For the changes, the account of each variable is kept for
every value at once (`Adds`), with lemmas on how the counts of the told and the
telling move when a change is stored, told, or a variable added.

For the texts, `Back` is what an element comes back as. `VectorsText`, `SetsText` and
`MapsText` say that a container comes back with each element so changed, and
`ListsBack`, `SetsBack` and `MapsBack` that it is the same exactly if no element is;
for sets this needs that what comes back does not change again (`BackTwice`).
`TextOfValue` puts them together for every type, with `NullIsEmpty` for what does not
load; `NodeConverts` says that what a conversion gives has its type. `TypedInv` adds
that every variable, every value about to be set and every text under way has its
type.

For the loads, `LoadInv` says that the nodes a load has gone through have taken
effect (`Loaded`: each registered variable has the value of the last of these nodes
that gives it one) and that the others are left to do. `solo` forgets a load once
somebody else sets or creates a variable, except that a creation begun earlier
may still have to register its own, which then has no value from the file. `Loaded`
says that in this case only the nameless node of the document has been gone
through: for any other, the look-up would have raced with the insertion.
`DistinctVars` says that names and objects of the registry correspond, so that
setting one variable leaves the others alone.

Of fibers `CctProofs` proves `FibersTypeCorrect`, `CurrentIsRunning`, `StacksLive`,
`MisuseOnly` and `StrandedForGood` (`FiberSpec` is their specification).
`SwitchSaves`, `Switched` and `SwitchFails` say what `swapcontext()` does to all
contexts. While the thread is fine two invariants hold. `Backed` holds whatever the
user does: what is referred to exists, and a stack that runs or can be resumed has
its own reference; `StacksLive` follows from it. `Sound` holds until a fiber yields
another one or the user calls `SetThis()` or `FiberExit()` (`Loose`), and has six
parts: whoever is away from the thread's own stack has a main fiber to go back to
(`Began`); every child's context is on its own stack (`Stacks`); what exists is
what is referred to (`References`); what a status says of a fiber outside its
`MainFunc()`, and that the main fiber's changes only by entering it or yielding
from it (`Statuses`); and what more holds without nesting (`Orderly`) and without
dropped handles (`Held`).

`SerializeProofs` proves `StringIntact`, `Decodes` and `ValuesComeBack`. All three
need induction over numbers, which `Induction` gives for sets (a set of numbers that
has 0 and all successors has every number, because its complement has no least
element), and the equations of functions defined by recursion, which hold because
`Recursion` builds the function as the union of its beginnings. Powers of two,
`VarBytes`, the sums of `VarValue` and `FixedValue` and the folds of `FlattenSeq`
rest on these two.

For the string, `Chain` says that nodes have their size and that `_size` and
`_capacity` add up to theirs. `AtEnd` says that `_cur` is `_size` as long as there is
one node; with more of them it need not be known where `_cur` is, because a write to
several nodes either meets a full last one or goes astray. What a write adds is cut
at the borders of the nodes (`Cuts`, `WriteCuts`) and put together again by
`toString()` (`FlattenNodes`, `WriteAppends`).

For the values, `VarCodes` says that the bytes of a varint are a run of marked
bytes and an unmarked one that add up to the number (`Codes`), from which follow its
end and its value wherever it lies; `GroupsEnough`, with `VarShort`, that its bytes
fit into `tmp[]`; `ZigZagBack` that the folding of signed numbers is undone at both
ends of the range. `Decodes` joins them, kind by kind. It is about numbers of fixed
length on little-endian machines only (`Readable`): on others `readBit32()` and
`readBit64()` swap what `writeBit32()` and `writeBit64()` did not
(`serialize.cpp:268`, `:276`), so the restriction is the code's.
`ReadInv` says that the string in the deserializer is that of the values `given` to
it and that it stands behind the ones it has `got`; a file without white space keeps
the string (`FileKeepsWord`).

Only model-checked: the liveness properties (`StopReturns`, `EventuallyWritten`,
`EventuallyTaken`, `EveryTaskRuns`, `ShutdownEnds`), because fairness is out of the
prover's reach. Every invariant of the passing runs is the subject of a theorem.

## Not modelled

* `List` (`ds/list.h`): a sequential container that nothing but its own test uses;
  no operation of it depends on an interleaving or on a long history. Its positions
  are not quite those of the comment at `list.h:131`: `insert(-n-1)` is refused like
  a bad position, because `posPos()` returns -1 for both; `insert(-1)` inserts
  before the last element, not behind it; and `get()` of a bad position runs off the
  end of the list instead of failing.
* Hooks (`cct/hook.*`): a flag per thread that nothing in the library sets.
* `timestamp.*`, `currentThread.*`, the empty `hashtable.h`: wrappers of system
  calls, no state that could go wrong.
* The layout of messages and dates, the parsing of YAML, and how numbers
  and strings are spelled; of `LexicalCast` only what succeeds, and what comes back.
* Failing system calls: `fork()`, `fopen()`, `pthread_create()`, a full disk under
  `tar`, and the change of the date between two rolls.
* Memory effects below the level of a step: the torn publication of `instance` that
  `logger.cpp:28` describes, and the race on `_running`.
* The order of static initialisation and destruction across translation units; in
  `Logging` an `AsyncLogInit` belongs to `main`.
* Fibers that one thread makes and another one enters, and exceptions thrown by
  callbacks of `Config` beyond their effect on `setValue()`.
* Pool threads that return, and names of threads.
