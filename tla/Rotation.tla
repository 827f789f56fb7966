------------------------------ MODULE Rotation ------------------------------
(***************************************************************************)
(* Rolling the log file: rollFile() of the back end (log/asyncLogging.cpp) *)
(* and the script it starts (log/jiaoben.py), for the files of one process *)
(* and one day.                                                            *)
(*                                                                         *)
(* rollFile() forks, the child executes the script, and the back end waits *)
(* for a child, whichever it is, before it opens .log0 for appending.  The *)
(* script unpacks the archive next to the files, renames all of them by    *)
(* the last digit of their names, and packs them again; each command of    *)
(* the script is a step.  A name is the sequence of the digits after       *)
(* .log, a file the sequence of the batches written to it, the archive a   *)
(* directory of its own.  At most one file is open; it is known by the     *)
(* name it has now, if it still has one.                                   *)
(*                                                                         *)
(* RollInit, RollNext and RollSpec have names of their own because         *)
(* AsyncLoggingProofs speaks of AsyncLogging and of this module.           *)
(*                                                                         *)
(* Some operators stand for slips one could make in this code and are used *)
(* nowhere in the specification (PROJECT.json, "mutants"): LowestFirst,    *)
(* WithoutCarry.                                                           *)
(***************************************************************************)
EXTENDS Naturals, Sequences, FiniteSets, SequencesExt

CONSTANTS
    Base,           \* of the numbers in the names: ten
    MaxBatches,     \* bound on the batches the back end writes
    MaxRolls,       \* bound on the calls of rollFile()
    MaxForeign      \* bound on other children of the process that exit

ASSUME RotationAssumption ==
    Base \in Nat \ {0, 1} /\ {MaxBatches, MaxRolls, MaxForeign} \subseteq Nat

VARIABLES
    files,      \* the .log files, a function from names
    archive,    \* the set that has the .tar file, if there is one
    waiting,    \* the back end is in rollFile()
    open,       \* the name of the open file, if it has one
    scripts,    \* the children rollFile() has forked
    batches,    \* batches written so far
    foreign,    \* other children that have exited
    trouble     \* history: what has gone wrong around the script

rollVars == <<files, archive, waiting, open, scripts, batches, foreign, trouble>>

log0 == <<0>>
NoFiles == [name \in {} |-> <<>>]

Running(k) == scripts[k].at \notin {"ended", "collected"}

Go(k, at) == scripts' = [scripts EXCEPT ![k].at = at]

(* A child of fork(): it executes the script, or cannot and aborts.        *)
Children == [at : {"test", "ended"}, todo : {<<>>}]

(* mainRoutine() begins with a roll.                                       *)
RollInit ==
    /\ files = NoFiles
    /\ archive = {}
    /\ waiting = TRUE /\ open = {}
    /\ scripts \in {<<c>> : c \in Children}
    /\ batches = 0 /\ foreign = 0
    /\ trouble = {}

-----------------------------------------------------------------------------
(* The back end.                                                           *)

(* mainRoutine() writes a batch to the open file.                          *)
WriteBatch ==
    /\ ~waiting
    /\ batches < MaxBatches
    /\ batches' = batches + 1
    /\ files' = [n \in DOMAIN files |->
                    IF n \in open THEN Append(files[n], batches')
                                  ELSE files[n]]
    /\ UNCHANGED waiting
    /\ UNCHANGED <<archive, open, scripts, foreign, trouble>>

(* appender.reset() and rollFile() up to the wait.                         *)
rollFile ==
    /\ ~waiting
    /\ Len(scripts) < MaxRolls
    /\ waiting' = TRUE /\ open' = {}
    /\ \E c \in Children : scripts' = Append(scripts, c)
    /\ UNCHANGED <<files, archive, batches, foreign, trouble>>

(* fopen(.log0, "a").                                                      *)
OpenLog ==
    /\ open' = {log0}
    /\ files' = IF log0 \in DOMAIN files
                THEN files
                ELSE [n \in DOMAIN files \cup {log0} |->
                         IF n = log0 THEN <<>> ELSE files[n]]

(* wait(NULL) returns, for a child of rollFile() or for any other.         *)
WaitReturns ==
    /\ waiting
    /\ waiting' = FALSE
    /\ OpenLog
    /\ \/ /\ \E k \in DOMAIN scripts :
                /\ scripts[k].at = "ended"
                /\ Go(k, "collected")
          /\ UNCHANGED foreign
       \/ /\ foreign < MaxForeign
          /\ foreign' = foreign + 1
          /\ UNCHANGED scripts
    /\ trouble' = trouble \cup
           (IF \E k \in DOMAIN scripts : Running(k) THEN {"raced"} ELSE {})
    /\ UNCHANGED <<archive, batches>>

-----------------------------------------------------------------------------
(* TarLogFile() in child k, command by command.                            *)

TestArchive(k) ==
    /\ scripts[k].at = "test"
    /\ Go(k, IF archive = {} THEN "tarOnly" ELSE "unpack")
    /\ UNCHANGED <<files, archive, open, waiting, batches, foreign, trouble>>

(* tar -zxf replaces files that are there.                                 *)
Unpack(k) ==
    /\ scripts[k].at = "unpack"
    /\ Go(k, "rmTar")
    /\ \/ \E packed \in archive :
             /\ files' = [n \in DOMAIN packed \cup DOMAIN files |->
                             IF n \in DOMAIN packed THEN packed[n]
                                                    ELSE files[n]]
             /\ open' = open \ DOMAIN packed
       \/ archive = {} /\ UNCHANGED <<files, open>>
    /\ UNCHANGED <<archive, waiting, batches, foreign, trouble>>

RmTar(k) ==
    /\ scripts[k].at = "rmTar"
    /\ Go(k, "list")
    /\ archive' = {}
    /\ UNCHANGED <<files, open, waiting, batches, foreign, trouble>>

(* ls sorts the names as words.                                            *)
Before(a, b) ==
    \/ IsStrictPrefix(a, b)
    \/ \E i \in DOMAIN a \cap DOMAIN b :
          /\ a[i] < b[i]
          /\ \A j \in 1..(i - 1) : a[j] = b[j]

(* The kth has k of them not before it, or not after it.                   *)
LowestFirst(names) ==
    [k \in 1..Cardinality(names) |->
        CHOOSE n \in names : Cardinality({m \in names : ~ Before(n, m)}) = k]
Listed(names) ==
    [k \in 1..Cardinality(names) |->
        CHOOSE n \in names : Cardinality({m \in names : ~ Before(m, n)}) = k]

List(k) ==
    /\ scripts[k].at = "list"
    /\ scripts' = [scripts EXCEPT
                      ![k] = [at |-> "rename", todo |-> Listed(DOMAIN files)]]
    /\ UNCHANGED <<files, archive, open, waiting, batches, foreign, trouble>>

(* The last digit becomes the text of its successor: 9 becomes 10.         *)
WithoutCarry(name) == Append(Front(name), (Last(name) + 1) % Base)
Renamed(name) ==
    Front(name) \o (IF Last(name) + 1 = Base THEN <<1, 0>>
                                             ELSE <<Last(name) + 1>>)

(* mv of the next name in the list; nothing if the file has gone.          *)
Rename(k) ==
    LET from == Head(scripts[k].todo)
        to == Renamed(from)
    IN
    /\ scripts[k].at = "rename"
    /\ scripts[k].todo # <<>>
    /\ scripts' = [scripts EXCEPT ![k].todo = Tail(@)]
    /\ IF from \in DOMAIN files
       THEN /\ files' = [n \in (DOMAIN files \ {from}) \cup {to} |->
                            IF n = to THEN files[from] ELSE files[n]]
            /\ open' = (open \ {from, to}) \cup (IF from \in open THEN {to} ELSE {})
       ELSE UNCHANGED <<files, open>>
    /\ UNCHANGED <<archive, waiting, batches, foreign, trouble>>

Tar(k) ==
    /\ scripts[k].at = "rename"
    /\ scripts[k].todo = <<>>
    /\ Go(k, "rmLogs")
    /\ archive' = {files}
    /\ UNCHANGED <<files, open, waiting, batches, foreign, trouble>>

RmLogs(k) ==
    /\ scripts[k].at = "rmLogs"
    /\ Go(k, "ended")
    /\ files' = NoFiles
    /\ open' = open \ DOMAIN files
    /\ UNCHANGED <<archive, waiting, batches, foreign, trouble>>

(* The first time there is nothing to rename, so the files are only        *)
(* copied to the archive: usually there are none.                          *)
TarOnly(k) ==
    /\ scripts[k].at = "tarOnly"
    /\ Go(k, "ended")
    /\ archive' = {files}
    /\ trouble' = trouble \cup
           (IF DOMAIN files = {} THEN {} ELSE {"startedLate"})
    /\ UNCHANGED <<files, open, waiting, batches, foreign>>

Script(k) ==
    \/ TestArchive(k) \/ Unpack(k) \/ RmTar(k) \/ List(k) \/ Rename(k)
    \/ Tar(k) \/ RmLogs(k) \/ TarOnly(k)

(* The bounds are reached.                                                 *)
Done ==
    /\ ~waiting
    /\ batches = MaxBatches /\ Len(scripts) = MaxRolls
    /\ \A k \in DOMAIN scripts : ~Running(k)
    /\ UNCHANGED rollVars

RollNext ==
    \/ WriteBatch \/ rollFile \/ WaitReturns
    \/ \E k \in DOMAIN scripts : Script(k)
    \/ Done

RollSpec == RollInit /\ [][RollNext]_rollVars

-----------------------------------------------------------------------------
(* Properties.                                                             *)

In(directory, b) ==
    \E n \in DOMAIN directory : \E j \in DOMAIN directory[n] :
        directory[n][j] = b

(* No batch is ever without a copy, not even while a script is half done   *)
(* or if it is killed there, for the first Base + 1 rolls: up to then the  *)
(* archive has one file with two digits at most, and renaming from the     *)
(* end (jiaoben.py:23) never moves a file over another.  It takes that no  *)
(* script was still running when rollFile() returned (asyncLogging.cpp:109 *)
(* waits for any child), and that the first one found no files: what it    *)
(* copies to the archive comes back over what was appended since           *)
(* (jiaoben.py:16, :42).                                                   *)
NoBatchLost ==
    trouble = {} /\ Len(scripts) <= Base + 1 =>
        \A b \in 1..batches : \E d \in archive \cup {files} : In(d, b)

(* As numbers, which begin with no zero.                                   *)
Higher(a, b) == Len(a) > Len(b) \/ (Len(a) = Len(b) /\ Before(b, a))

(* Between two rolls the files go back in time as their numbers go up,     *)
(* .log0 being the newest and each batch in one file only.  This holds     *)
(* beyond the rolls that lose files, too, although the names are then      *)
(* renamed out of order (comment at asyncLogging.cpp:97).                  *)
HigherNumbersOlder ==
    trouble = {} /\ (\A k \in DOMAIN scripts : ~Running(k)) =>
        \A packed \in archive :
            /\ DOMAIN packed \cap DOMAIN files = {}
            /\ LET all == [n \in DOMAIN packed \cup DOMAIN files |->
                              IF n \in DOMAIN files THEN files[n]
                                                    ELSE packed[n]]
               IN \A m, n \in DOMAIN all :
                     Higher(m, n) =>
                         \A i \in DOMAIN all[m] : \A j \in DOMAIN all[n] :
                             all[m][i] < all[n][j]
=============================================================================
