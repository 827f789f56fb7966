------------------------- MODULE AsyncLoggingProofs -------------------------
(***************************************************************************)
(* Proofs about AsyncLogging, for every buffer size, roll size, set of     *)
(* line lengths and number of lines, and about what rollFile() does with   *)
(* the files (Rotation).                                                   *)
(***************************************************************************)
EXTENDS AsyncLogging, Rotation, FiniteSetTheorems, TLAPS

-----------------------------------------------------------------------------
(* Typing.  TypeOK is not inductive alone: the back end puts its spare     *)
(* buffers into _currentBuffer and _nextBuffer, so they must be there      *)
(* whenever it can get that far.                                           *)

SparesReady ==
    bpc \in {"top", "enter", "towait", "waiting", "measure", "write"} =>
        buffer1 = NewBuffer /\ buffer2 = NewBuffer

TypeInv == TypeOK /\ SparesReady

(* A new buffer is a buffer, and not the null pointer.                     *)
LEMMA NewBufferFits == NewBuffer \in Fits /\ NewBuffer # Null
<1>1. NewBuffer \in LogBuffer
  BY DEF NewBuffer, LogBuffer
<1> QED
  BY <1>1, SizesAssumption, NullAssumption DEF NewBuffer, Fits

LEMMA FitsFields ==
    ASSUME NEW b \in Fits
    PROVE  b.log \in Seq(Nat) /\ b.size \in Nat /\ b.size < BufSize
  BY DEF Fits, LogBuffer

(* LogBuffer::append, behind the test of append(), keeps a buffer below    *)
(* its capacity.                                                           *)
LEMMA PutFits ==
    ASSUME NEW b \in Fits, NEW line \in Nat, NEW len \in Lens,
           HasRoom(b, len)
    PROVE  /\ Put(b, line, len) \in Fits
           /\ Put(b, line, len).size > 0
           /\ Put(b, line, len).log = Append(b.log, line)
<1>1. len \in Nat /\ len > 0
  BY LensAssumption, SizesAssumption
<1>2. b.log \in Seq(Nat) /\ b.size \in Nat /\ b.size < BufSize
  BY FitsFields
<1>3. Append(b.log, line) \in Seq(Nat)
  BY <1>2
<1>4. b.size + len \in Nat /\ b.size + len < BufSize
  BY <1>1, <1>2, SizesAssumption DEF HasRoom
<1>5. Put(b, line, len) \in LogBuffer
  BY <1>3, <1>4 DEF Put, LogBuffer
<1> QED
  BY <1>1, <1>2, <1>4, <1>5 DEF Put, Fits

(* A line always fits into a new buffer: append() need not test again.     *)
LEMMA NewBufferHasRoom ==
    ASSUME NEW len \in Lens
    PROVE  HasRoom(NewBuffer, len)
  BY LensAssumption, SizesAssumption DEF HasRoom, NewBuffer

LEMMA InitTypeInv == Init => TypeInv
<1> SUFFICES ASSUME Init PROVE TypeInv
  OBVIOUS
<1>1. <<>> \in Seq(Fits) /\ <<>> \in Seq(Nat) /\ Len(<<>>) = 0
  OBVIOUS
<1>2. /\ accepted \in 0..MaxLines /\ promised \in 0..MaxLines
      /\ i \in 1..(Len(buffers) + 1) /\ onDisk \in 0..Len(file)
  BY <1>1, SizesAssumption DEF Init
<1>4. TypeOK
  BY <1>1, <1>2, NewBufferFits DEF Init, TypeOK
<1>3. SparesReady
  BY DEF Init, SparesReady
<1> QED
  BY <1>3, <1>4 DEF TypeInv

LEMMA ReopenTypes ==
    TypeOK /\ Reopen => found' \in Nat /\ fileBytes' = found'
  BY SizesAssumption DEF TypeOK, Reopen

LEMMA StepTypeInv == TypeInv /\ [Next]_vars => TypeInv'
<1> SUFFICES ASSUME TypeInv, [Next]_vars PROVE TypeInv'
  OBVIOUS
<1> USE DEF TypeInv
<1>1. ASSUME NEW len \in Lens, AppendInPlace(len) PROVE TypeInv'
  <2>1. Put(currentBuffer, accepted + 1, len) \in Fits
    BY <1>1, PutFits DEF AppendInPlace, FrontEnd, TypeOK
  <2>2. accepted' \in 0..MaxLines /\ promised' \in 0..MaxLines
    BY <1>1, SizesAssumption DEF AppendInPlace, FrontEnd, TypeOK, ownerVars
  <2> QED
    BY <1>1, <2>1, <2>2
    DEF AppendInPlace, TypeOK, SparesReady, ownerVars, batchVars, fileVars
<1>2. ASSUME NEW len \in Lens, AppendToNext(len) PROVE TypeInv'
  <2>1. Put(nextBuffer, accepted + 1, len) \in Fits
    BY <1>2, PutFits, NewBufferFits, NewBufferHasRoom
    DEF AppendToNext, FrontEnd, TypeOK
  <2>2. accepted' \in 0..MaxLines /\ promised' \in 0..MaxLines
    BY <1>2, SizesAssumption DEF AppendToNext, FrontEnd, TypeOK, ownerVars
  <2>3. Append(sharedBuffers, currentBuffer) \in Seq(Fits)
    BY DEF TypeOK
  <2> QED
    BY <1>2, <2>1, <2>2, <2>3
    DEF AppendToNext, TypeOK, SparesReady, ownerVars, batchVars, fileVars
<1>3. ASSUME NEW len \in Lens, AppendToFresh(len) PROVE TypeInv'
  <2>1. Put(NewBuffer, accepted + 1, len) \in Fits
    BY <1>3, PutFits, NewBufferFits, NewBufferHasRoom
    DEF AppendToFresh, FrontEnd, TypeOK
  <2>2. accepted' \in 0..MaxLines /\ promised' \in 0..MaxLines
    BY <1>3, SizesAssumption DEF AppendToFresh, FrontEnd, TypeOK, ownerVars
  <2>3. Append(sharedBuffers, currentBuffer) \in Seq(Fits)
    BY DEF TypeOK
  <2> QED
    BY <1>3, <2>1, <2>2, <2>3
    DEF AppendToFresh, Signal, TypeOK, SparesReady, ownerVars, batchVars,
        fileVars
<1>4. ASSUME Owner PROVE TypeInv'
  <2>1. CASE Start
    BY <2>1 DEF Start, TypeOK, SparesReady, batchVars, fileVars
  <2>2. CASE StopBegin \/ StopReread
    BY <2>2 DEF StopBegin, StopReread, ReadSize, TypeOK, SparesReady, Fits,
                LogBuffer, queueVars, batchVars, fileVars
  <2>3. CASE StopWakeup
    BY <2>3 DEF StopWakeup, Signal, TypeOK, SparesReady, queueVars,
                batchVars, fileVars
  <2>4. CASE StopClear
    BY <2>4 DEF StopClear, TypeOK, SparesReady, batchVars, fileVars
  <2>5. CASE StopSignal
    BY <2>5 DEF StopSignal, Signal, TypeOK, SparesReady, queueVars,
                batchVars, fileVars
  <2>6. CASE StopJoin
    BY <2>6 DEF StopJoin, TypeOK, SparesReady, queueVars, batchVars, fileVars
  <2> QED
    BY <1>4, <2>1, <2>2, <2>3, <2>4, <2>5, <2>6 DEF Owner
<1>5. CASE Boot
  <2>1. found' \in Nat /\ fileBytes' \in Nat
    BY <1>5, ReopenTypes DEF Boot
  <2> QED
    BY <1>5, <2>1 DEF Boot, TypeOK, SparesReady, queueVars, ownerVars
<1>6. CASE LoopAgain
  <2>1. <<>> \in Seq(Fits) /\ 1 \in 1..(Len(<<>>) + 1)
    OBVIOUS
  <2> QED
    BY <1>6, <2>1 DEF LoopAgain, BatchAtTop, TypeOK, SparesReady, queueVars,
                      ownerVars, fileVars
<1>7. CASE LoopExit
  <2>1. onDisk' \in 0..Len(file')
    BY <1>7 DEF LoopExit, AllWritten, TypeOK
  <2> QED
    BY <1>7, <2>1 DEF LoopExit, TypeOK, SparesReady, queueVars, ownerVars,
                      batchVars
<1>8. CASE DecideToWait \/ BeginWait \/ WaitEnds
  BY <1>8 DEF DecideToWait, BeginWait, WaitEnds, TypeOK, SparesReady,
              queueVars, ownerVars, batchVars, fileVars
<1>9. CASE TakeBatch
  <2>1. Append(sharedBuffers, currentBuffer) \in Seq(Fits)
    BY DEF TypeOK
  <2>2. buffer1 \in Fits /\ buffer2 = NewBuffer
    BY <1>9, NewBufferFits DEF TakeBatch, SparesReady
  <2>3. 1 \in 1..(Len(Append(sharedBuffers, currentBuffer)) + 1)
    BY <2>1
  <2>4. /\ nextBuffer' \in {Null, NewBuffer}
        /\ buffer1' \in {Null, NewBuffer}
        /\ buffer2' \in {Null, NewBuffer}
    BY <1>9, <2>2 DEF TakeBatch, TypeOK
  <2>5. TypeOK'
    BY <1>9, <2>1, <2>2, <2>3, <2>4
    DEF TakeBatch, TakenBatch, TypeOK, ownerVars, fileVars
  <2>6. SparesReady'
    BY <1>9 DEF TakeBatch, SparesReady
  <2> QED
    BY <2>5, <2>6
<1>10. CASE Refill
  BY <1>10 DEF Refill, TypeOK, SparesReady, queueVars, ownerVars, fileVars
<1>11. CASE Measure
  <2>1. buffers[i] \in Fits
    BY <1>11 DEF Measure, TypeOK
  <2>2. needWrite' \in Nat
    BY <1>11, <2>1, FitsFields DEF Measure, TypeOK
  <2>3. i' \in 1..(Len(buffers') + 1)
    BY <1>11 DEF Measure, TypeOK
  <2> QED
    BY <1>11, <2>2, <2>3 DEF Measure, TypeOK, SparesReady, queueVars,
                             ownerVars, fileVars
<1>12. CASE Roll
  <2>1. onDisk' \in 0..Len(file') /\ i' \in 1..(Len(buffers') + 1)
    BY <1>12 DEF Roll, AllWritten, TypeOK
  <2>2. found' \in Nat /\ fileBytes' \in Nat
    BY <1>12, ReopenTypes DEF Roll
  <2> QED
    BY <1>12, <2>1, <2>2 DEF Roll, TypeOK, SparesReady, queueVars, ownerVars
<1>13. CASE NoRoll
  <2>1. i' \in 1..(Len(buffers') + 1)
    BY <1>13 DEF NoRoll, TypeOK
  <2> QED
    BY <1>13, <2>1 DEF NoRoll, TypeOK, SparesReady, queueVars, ownerVars,
                       fileVars
<1>14. CASE Write
  <2>1. buffers[i] \in Fits
    BY <1>14 DEF Write, TypeOK
  <2>2. file' \in Seq(Nat) /\ fileBytes' \in Nat
    BY <1>14, <2>1, FitsFields DEF Write, TypeOK
  <2>3. onDisk' \in 0..Len(file') /\ i' \in 1..(Len(buffers') + 1)
    BY <1>14, <2>2 DEF Write, TypeOK
  <2> QED
    BY <1>14, <2>2, <2>3 DEF Write, TypeOK, SparesReady, queueVars, ownerVars
<1>15. CASE WriteDone
  BY <1>15 DEF WriteDone, TypeOK, SparesReady, queueVars, ownerVars, batchVars
<1>16. CASE UNCHANGED vars
  BY <1>16 DEF TypeOK, SparesReady, vars, queueVars, ownerVars, batchVars,
               fileVars
<1> QED
  BY <1>1, <1>2, <1>3, <1>4, <1>5, <1>6, <1>7, <1>8, <1>9, <1>10, <1>11,
     <1>12, <1>13, <1>14, <1>15, <1>16
  DEF Next, BackEnd, Stopped

(* The objects keep the shape the code gives them: no LogBuffer is filled  *)
(* to its capacity, the writing loops stay inside the batch, and the null  *)
(* pointers are where append() and mainRoutine() expect them.              *)
THEOREM TypeCorrect == Spec => []TypeOK
<1>1. TypeInv => TypeOK
  BY DEF TypeInv
<1> QED
  BY <1>1, InitTypeInv, StepTypeInv, PTL DEF Spec

-----------------------------------------------------------------------------
(* Contents.  Between append() and the file a line passes _currentBuffer,  *)
(* _buffers and the batch.  The argument is that these three always hold,  *)
(* in this order and without gaps, the lines that are not yet written.     *)

(* b holds the lines from x on, up to but not including y.                 *)
Carries(b, x, y) ==
    /\ y = x + Len(b.log)
    /\ \A k \in 1..Len(b.log) : b.log[k] = x + k - 1

(* The buffers of S from position j on together hold the lines from x on,  *)
(* up to but not including y; e[k] is where buffer k ends.                 *)
Chain(S, j, x, y) ==
    \E e \in [0..Len(S) -> Nat] :
        /\ e[j - 1] = x
        /\ e[Len(S)] = y
        /\ \A k \in j..Len(S) : Carries(S[k], e[k - 1], e[k])
        /\ \A k \in (j - 1)..Len(S) : e[k] <= y

LEMMA CarriesNew ==
    ASSUME NEW x \in Nat
    PROVE  Carries(NewBuffer, x, x)
  BY DEF Carries, NewBuffer

LEMMA CarriesPut ==
    ASSUME NEW b \in Fits, NEW len, NEW x \in Nat, NEW y \in Nat,
           Carries(b, x, y)
    PROVE  Carries(Put(b, y, len), x, y + 1)
<1>1. b.log \in Seq(Nat)
  BY FitsFields
<1>2. Put(b, y, len).log = Append(b.log, y)
  BY DEF Put
<1>3. /\ Len(Append(b.log, y)) = Len(b.log) + 1
      /\ Append(b.log, y)[Len(b.log) + 1] = y
      /\ \A k \in 1..Len(b.log) : Append(b.log, y)[k] = b.log[k]
      /\ Len(b.log) \in Nat
  BY <1>1
<1>4. y = x + Len(b.log)
  BY DEF Carries
<1>5. ASSUME NEW k \in 1..(Len(b.log) + 1)
      PROVE  Append(b.log, y)[k] = x + k - 1
  <2>1. CASE k \in 1..Len(b.log)
    BY <1>3, <2>1 DEF Carries
  <2>2. CASE k = Len(b.log) + 1
    BY <1>3, <2>2 DEF Carries
  <2> QED
    BY <1>3, <2>1, <2>2
<1> DEFINE log == Append(b.log, y)
<1>6. y + 1 = x + Len(log) /\ \A k \in 1..Len(log) : log[k] = x + k - 1
  BY <1>3, <1>4, <1>5
<1> HIDE DEF log
<1> QED
  BY <1>2, <1>6 DEF Carries, log

LEMMA ChainEmpty ==
    ASSUME NEW x \in Nat
    PROVE  Chain(<<>>, 1, x, x)
<1> DEFINE e == [k \in 0..0 |-> x]
<1>1. Len(<<>>) = 0 /\ 1 - 1 = 0
  OBVIOUS
<1>2. e \in [0..0 -> Nat] /\ e[0] = x
  OBVIOUS
<1>3. \A k \in 0..0 : e[k] <= x
  OBVIOUS
<1> HIDE DEF e
<1> QED
  BY <1>1, <1>2, <1>3 DEF Chain

LEMMA ChainDone ==
    ASSUME NEW S \in Seq(Fits), NEW x \in Nat, NEW y \in Nat,
           Chain(S, Len(S) + 1, x, y)
    PROVE  x = y
  BY DEF Chain

LEMMA ChainOrder ==
    ASSUME NEW S \in Seq(Fits), NEW j \in 1..(Len(S) + 1),
           NEW x \in Nat, NEW y \in Nat, Chain(S, j, x, y)
    PROVE  x <= y
  BY DEF Chain

(* The first buffer of a chain can be split off.                           *)
LEMMA ChainStep ==
    ASSUME NEW S \in Seq(Fits), NEW j \in 1..Len(S),
           NEW x \in Nat, NEW y \in Nat, Chain(S, j, x, y)
    PROVE  /\ Carries(S[j], x, x + Len(S[j].log))
           /\ Chain(S, j + 1, x + Len(S[j].log), y)
<1>1. PICK e \in [0..Len(S) -> Nat] :
        /\ e[j - 1] = x
        /\ e[Len(S)] = y
        /\ \A k \in j..Len(S) : Carries(S[k], e[k - 1], e[k])
        /\ \A k \in (j - 1)..Len(S) : e[k] <= y
  BY DEF Chain
<1>2. Carries(S[j], x, e[j])
  BY <1>1
<1>3. e[j] = x + Len(S[j].log)
  BY <1>2 DEF Carries
<1>4. /\ e[(j + 1) - 1] = x + Len(S[j].log)
      /\ \A k \in (j + 1)..Len(S) : Carries(S[k], e[k - 1], e[k])
      /\ \A k \in ((j + 1) - 1)..Len(S) : e[k] <= y
  BY <1>1, <1>3
<1> QED
  BY <1>1, <1>2, <1>3, <1>4 DEF Chain

(* A buffer that continues a chain can be added at its end.                *)
LEMMA ChainAppend ==
    ASSUME NEW S \in Seq(Fits), NEW b \in Fits,
           NEW x \in Nat, NEW y \in Nat, NEW z \in Nat,
           Chain(S, 1, x, y), Carries(b, y, z)
    PROVE  Chain(Append(S, b), 1, x, z)
<1> DEFINE T == Append(S, b)
           n == Len(S)
<1>1. PICK e \in [0..n -> Nat] :
        /\ e[0] = x
        /\ e[n] = y
        /\ \A k \in 1..n : Carries(S[k], e[k - 1], e[k])
        /\ \A k \in 0..n : e[k] <= y
  BY DEF Chain
<1>2. /\ n \in Nat /\ Len(T) = n + 1 /\ T[n + 1] = b
      /\ \A k \in 1..n : T[k] = S[k]
  OBVIOUS
<1>3. y <= z
  <2>1. Len(b.log) \in Nat
    BY FitsFields
  <2> QED
    BY <2>1 DEF Carries
<1> DEFINE f == [k \in 0..(n + 1) |-> IF k <= n THEN e[k] ELSE z]
<1>4. f \in [0..Len(T) -> Nat] /\ f[0] = x /\ f[Len(T)] = z
  BY <1>1, <1>2
<1>5. \A k \in 0..n : f[k] = e[k]
  BY <1>2
<1>6. \A k \in 1..Len(T) : Carries(T[k], f[k - 1], f[k])
  <2> SUFFICES ASSUME NEW k \in 1..(n + 1)
               PROVE  Carries(T[k], f[k - 1], f[k])
    BY <1>2
  <2>1. CASE k \in 1..n
    <3>1. f[k - 1] = e[k - 1] /\ f[k] = e[k]
      BY <1>2, <1>5, <2>1
    <3> QED
      BY <1>1, <1>2, <2>1, <3>1
  <2>2. CASE k = n + 1
    <3>1. f[k - 1] = y /\ f[k] = z
      BY <1>1, <1>2, <1>4, <1>5, <2>2
    <3> QED
      BY <1>2, <2>2, <3>1
  <2>3. k \in 1..n \/ k = n + 1
    BY <1>2
  <2> QED
    BY <2>1, <2>2, <2>3
<1>7. \A k \in 0..Len(T) : f[k] <= z
  <2> SUFFICES ASSUME NEW k \in 0..(n + 1) PROVE f[k] <= z
    BY <1>2
  <2>1. CASE k \in 0..n
    <3>1. f[k] = e[k] /\ e[k] \in Nat /\ e[k] <= y
      BY <1>1, <1>5, <2>1
    <3> QED
      BY <1>3, <3>1
  <2>2. CASE k = n + 1
    BY <1>2, <1>4, <2>2
  <2> QED
    BY <1>2, <2>1, <2>2
<1> HIDE DEF f, T, n
<1>8. f[1 - 1] = x /\ \A k \in (1 - 1)..Len(T) : f[k] <= z
  BY <1>4, <1>7
<1>9. Chain(T, 1, x, z)
  BY <1>4, <1>6, <1>8 DEF Chain
<1> QED
  BY <1>9 DEF T

-----------------------------------------------------------------------------
(* The inductive invariant.                                                *)

(* Where the unwritten part of the batch begins: measuring uses i as well. *)
Pos == IF bpc \in {"refill", "measure"} THEN 1 ELSE i

(* stop() has seen the current buffer empty and will not look again.       *)
Settled ==
    \/ mpc = "sampled" /\ size = 0
    \/ mpc \in {"cleared", "joining", "stopped"}

(* How the places of the two threads, and the state they leave behind,     *)
(* belong together.                                                        *)
Control ==
    /\ running <=> mpc \in {"up", "sampled", "signalled"}
    /\ mpc = "new" => bpc = "unborn"
    /\ mpc = "stopped" => bpc = "exited"
    /\ bpc \in {"unborn", "boot", "enter", "towait", "waiting"} =>
            buffers = <<>> /\ i = 1
    /\ bpc \in {"top", "exited"} => i = Len(buffers) + 1
    /\ bpc = "exited" => onDisk = Len(file) /\ Settled
    /\ promised <= accepted
    /\ currentBuffer.size = 0 =>
            currentBuffer.log = <<>> /\ sharedBuffers = <<>>

(* The unwritten lines are in the batch, then in _buffers, then in         *)
(* _currentBuffer; what stop() promised is beyond the reach of new lines.  *)
PipelineAt(s, c) ==
    /\ Chain(buffers, Pos, Len(file) + 1, s)
    /\ Chain(sharedBuffers, 1, s, c)
    /\ Carries(currentBuffer, c, accepted + 1)
    /\ Settled => promised < s

Pipeline == \E s, c \in Nat : PipelineAt(s, c)

Inv == TypeInv /\ Control /\ WrittenInOrder /\ Pipeline

LEMMA InitInv == Init => Inv
<1> SUFFICES ASSUME Init PROVE Inv
  OBVIOUS
<1>1. TypeInv
  BY InitTypeInv
<1>2. Control
  BY DEF Init, Control, NewBuffer
<1>3. WrittenInOrder
  BY DEF Init, WrittenInOrder
<1>4. PipelineAt(1, 1)
  <2>1. Pos = 1 /\ Len(file) + 1 = 1 /\ accepted + 1 = 1 /\ ~Settled
    BY DEF Init, Pos, Settled
  <2>2. Chain(buffers, Pos, Len(file) + 1, 1) /\ Chain(sharedBuffers, 1, 1, 1)
    BY <2>1, ChainEmpty DEF Init
  <2>3. Carries(currentBuffer, 1, accepted + 1)
    BY <2>1, CarriesNew DEF Init
  <2> QED
    BY <2>1, <2>2, <2>3 DEF PipelineAt
<1> QED
  BY <1>1, <1>2, <1>3, <1>4 DEF Inv, Pipeline

LEMMA StepControl ==
    ASSUME TypeInv, Control, [Next]_vars
    PROVE  Control'
<1> USE DEF TypeInv
<1>1. ASSUME NEW len \in Lens,
             AppendInPlace(len) \/ AppendToNext(len) \/ AppendToFresh(len)
      PROVE  Control'
  <2>1. currentBuffer'.size > 0
    <3>1. CASE AppendInPlace(len)
      BY <3>1, PutFits DEF AppendInPlace, FrontEnd, TypeOK
    <3>2. CASE AppendToNext(len)
      BY <3>2, PutFits, NewBufferFits, NewBufferHasRoom
      DEF AppendToNext, FrontEnd, TypeOK
    <3>3. CASE AppendToFresh(len)
      BY <3>3, PutFits, NewBufferFits, NewBufferHasRoom
      DEF AppendToFresh, FrontEnd, TypeOK
    <3> QED
      BY <1>1, <3>1, <3>2, <3>3
  <2>2. promised' <= accepted'
    BY <1>1, SizesAssumption
    DEF AppendInPlace, AppendToNext, AppendToFresh, FrontEnd, Control,
        TypeOK, ownerVars
  <2>3. /\ UNCHANGED <<running, mpc, size, promised, buffers, i, file, onDisk>>
        /\ bpc' = bpc \/ (bpc = "waiting" /\ bpc' = "enter")
        /\ mpc # "stopped"
    BY <1>1
    DEF AppendInPlace, AppendToNext, AppendToFresh, FrontEnd, Signal,
        ownerVars, batchVars, fileVars
  <2> QED
    BY <2>1, <2>2, <2>3 DEF Control, Settled
<1>2. CASE Start
  BY <1>2 DEF Start, Control, Settled, TypeOK, batchVars, fileVars
<1>3. CASE StopBegin \/ StopReread
  <2>1. /\ UNCHANGED <<accepted, running, currentBuffer, sharedBuffers, bpc,
                       buffers, i, file, onDisk>>
        /\ mpc \in {"up", "signalled"} /\ mpc' = "sampled"
        /\ promised' = accepted
    BY <1>3
    DEF StopBegin, StopReread, ReadSize, queueVars, batchVars, fileVars
  <2>2. promised' <= accepted'
    BY <2>1 DEF TypeOK
  <2> QED
    BY <2>1, <2>2 DEF Control, Settled
<1>4. CASE StopWakeup \/ StopClear \/ StopSignal \/ StopJoin
  <2>1. /\ UNCHANGED <<accepted, currentBuffer, sharedBuffers, size, promised,
                       buffers, i, file, onDisk>>
        /\ bpc' = bpc \/ (bpc = "waiting" /\ bpc' = "enter")
    BY <1>4
    DEF StopWakeup, StopClear, StopSignal, StopJoin, Signal, queueVars,
        batchVars, fileVars
  <2>2. \/ /\ mpc = "sampled" /\ size > 0 /\ mpc' = "signalled"
           /\ running' = running
        \/ mpc = "sampled" /\ size = 0 /\ mpc' = "cleared" /\ ~running'
        \/ mpc = "cleared" /\ mpc' = "joining" /\ running' = running
        \/ /\ mpc = "joining" /\ mpc' = "stopped" /\ running' = running
           /\ bpc = "exited" /\ bpc' = "exited"
    BY <1>4
    DEF StopWakeup, StopClear, MayClear, StopSignal, StopJoin, queueVars
  <2>3. bpc' = "exited" => Settled'
    BY <2>1, <2>2 DEF Control, Settled, TypeOK
  <2> QED
    BY <2>1, <2>2, <2>3 DEF Control
<1>5. CASE Boot \/ DecideToWait \/ BeginWait \/ WaitEnds \/ Refill
  <2>1. UNCHANGED <<accepted, running, currentBuffer, sharedBuffers, mpc, size,
                    promised, buffers, i, file, onDisk>>
    BY <1>5
    DEF Boot, DecideToWait, BeginWait, WaitEnds, Refill, queueVars, ownerVars,
        batchVars, fileVars
  <2>2. \/ bpc = "boot" /\ bpc' = "top"
        \/ /\ bpc \in {"enter", "towait", "waiting"}
           /\ bpc' \in {"enter", "towait", "waiting"}
        \/ bpc = "refill" /\ bpc' = "measure"
    BY <1>5 DEF Boot, DecideToWait, BeginWait, WaitEnds, Refill
  <2>3. bpc' = "top" => i = Len(buffers) + 1
    <3>1. CASE bpc = "boot"
      <4>1. buffers = <<>> /\ i = 1
        BY <3>1 DEF Control
      <4> QED
        BY <4>1
    <3> QED
      BY <2>2, <3>1
  <2> QED
    BY <2>1, <2>2, <2>3 DEF Control, Settled
<1>6. CASE LoopAgain
  BY <1>6
  DEF LoopAgain, BatchAtTop, Control, Settled, TypeOK, queueVars, ownerVars,
      fileVars
<1>7. CASE LoopExit
  BY <1>7
  DEF LoopExit, AllWritten, Control, Settled, TypeOK, queueVars, ownerVars,
      batchVars
<1>8. CASE TakeBatch
  <2>1. currentBuffer' = NewBuffer /\ sharedBuffers' = <<>>
    BY <1>8 DEF TakeBatch, Control, SparesReady
  <2> QED
    BY <1>8, <2>1
    DEF TakeBatch, Control, Settled, TypeOK, ownerVars, fileVars, NewBuffer
<1>9. CASE Measure \/ Roll \/ NoRoll \/ Write \/ WriteDone
  <2>1. /\ UNCHANGED <<accepted, running, currentBuffer, sharedBuffers, mpc,
                       size, promised, buffers>>
        /\ bpc \in {"measure", "write"}
        /\ \/ bpc' \in {"measure", "write"}
           \/ bpc' = "top" /\ i' = Len(buffers) + 1
    BY <1>9
    DEF Measure, Roll, NoRoll, Write, WriteDone, queueVars, ownerVars,
        batchVars, fileVars
  <2> QED
    BY <2>1 DEF Control, Settled
<1>10. CASE UNCHANGED vars
  BY <1>10 DEF Control, Settled, vars, queueVars, ownerVars, batchVars,
               fileVars
<1> QED
  BY <1>1, <1>2, <1>3, <1>4, <1>5, <1>6, <1>7, <1>8, <1>9, <1>10
  DEF Next, Owner, BackEnd, Stopped

(* New lines extend the pipeline at its end.                               *)
LEMMA AppendPipeline ==
    ASSUME Inv, NEW len \in Lens,
           AppendInPlace(len) \/ AppendToNext(len) \/ AppendToFresh(len)
    PROVE  Pipeline'
<1>1. PICK s \in Nat, c \in Nat : PipelineAt(s, c)
  BY DEF Inv, Pipeline
<1>2. /\ sharedBuffers \in Seq(Fits) /\ currentBuffer \in Fits
      /\ accepted + 1 \in Nat
  BY SizesAssumption DEF Inv, TypeInv, TypeOK
<1>3. accepted' + 1 = (accepted + 1) + 1 /\ accepted' = accepted + 1
  BY <1>2 DEF AppendInPlace, AppendToNext, AppendToFresh, FrontEnd
<1>4. /\ UNCHANGED <<buffers, i, file, mpc, size, promised>>
      /\ bpc' = bpc \/ (bpc = "waiting" /\ bpc' = "enter")
  BY DEF AppendInPlace, AppendToNext, AppendToFresh, FrontEnd, Signal,
         ownerVars, batchVars, fileVars
<1>5. /\ Chain(buffers, Pos, Len(file) + 1, s)'
      /\ (Settled => promised < s)'
  <2>1. Pos' = Pos /\ Settled' = Settled
    BY <1>4 DEF Pos, Settled
  <2> QED
    BY <1>1, <1>4, <2>1 DEF PipelineAt
<1>6. CASE AppendInPlace(len)
  <2>1. Chain(sharedBuffers, 1, s, c)'
    BY <1>1, <1>6 DEF PipelineAt, AppendInPlace
  <2>2. Carries(currentBuffer, c, accepted + 1)'
    BY <1>1, <1>2, <1>3, <1>6, CarriesPut DEF PipelineAt, AppendInPlace
  <2>3. PipelineAt(s, c)'
    BY <1>5, <2>1, <2>2 DEF PipelineAt
  <2> QED
    BY <2>3 DEF Pipeline
<1>7. CASE AppendToNext(len) \/ AppendToFresh(len)
  <2>1. /\ sharedBuffers' = Append(sharedBuffers, currentBuffer)
        /\ currentBuffer' = Put(NewBuffer, accepted + 1, len)
    BY <1>7 DEF AppendToNext, AppendToFresh, Inv, TypeInv, TypeOK
  <2>2. Chain(sharedBuffers', 1, s, accepted + 1)
    BY <1>1, <1>2, <2>1, ChainAppend DEF PipelineAt
  <2>3. Carries(currentBuffer', accepted + 1, accepted' + 1)
    BY <1>2, <1>3, <2>1, NewBufferFits, CarriesNew, CarriesPut
  <2>4. /\ Chain(buffers', Pos', Len(file') + 1, s)
        /\ Settled' => promised' < s
    BY <1>5
  <2>5. \E t \in Nat : /\ Chain(sharedBuffers', 1, s, t)
                       /\ Carries(currentBuffer', t, accepted' + 1)
    BY <1>2, <2>2, <2>3
  <2> QED
    BY <2>4, <2>5 DEF Pipeline, PipelineAt
<1> QED
  BY <1>6, <1>7

(* The owner's locked read settles the close only when nothing is left in  *)
(* _currentBuffer, and then nothing is left in _buffers either.            *)
LEMMA OwnerPipeline ==
    ASSUME Inv, Owner
    PROVE  Pipeline'
<1>1. PICK s \in Nat, c \in Nat : PipelineAt(s, c)
  BY DEF Inv, Pipeline
<1>2. /\ UNCHANGED <<accepted, currentBuffer, sharedBuffers, buffers, i, file>>
      /\ \/ bpc' = bpc
         \/ bpc \in {"unborn", "waiting"} /\ bpc' \in {"boot", "enter"}
  BY DEF Owner, Start, StopBegin, StopReread, ReadSize, StopWakeup, StopClear,
         StopSignal, StopJoin, Signal, queueVars, batchVars, fileVars, Inv,
         Control
<1>3. Pos' = Pos
  BY <1>2 DEF Pos, Inv, Control
<1>4. Settled' => promised' < s
  <2>1. CASE StopBegin \/ StopReread
    <3> SUFFICES ASSUME Settled' PROVE promised' < s
      OBVIOUS
    <3>1. currentBuffer.size = 0 /\ promised' = accepted
      BY <2>1 DEF StopBegin, StopReread, ReadSize, Settled
    <3>2. currentBuffer.log = <<>> /\ sharedBuffers = <<>>
      BY <3>1 DEF Inv, Control
    <3>3. s = c
      <4>1. <<>> \in Seq(Fits) /\ Len(<<>>) + 1 = 1
        OBVIOUS
      <4> QED
        BY <1>1, <3>2, <4>1, ChainDone DEF PipelineAt
    <3>4. accepted + 1 = c
      BY <1>1, <3>2 DEF PipelineAt, Carries
    <3> QED
      BY <3>1, <3>3, <3>4 DEF Inv, TypeInv, TypeOK
  <2>2. CASE ~(StopBegin \/ StopReread)
    <3>1. Settled' => Settled /\ promised' = promised
      BY <2>2 DEF Owner, Start, StopWakeup, StopClear, MayClear, StopSignal,
                  StopJoin, Settled
    <3> QED
      BY <1>1, <3>1 DEF PipelineAt
  <2> QED
    BY <2>1, <2>2
<1> QED
  BY <1>1, <1>2, <1>3, <1>4 DEF Pipeline, PipelineAt

(* The back end moves lines along the pipeline and into the file.          *)
LEMMA BackEndPipeline ==
    ASSUME Inv, BackEnd
    PROVE  Pipeline' /\ WrittenInOrder'
<1>1. PICK s \in Nat, c \in Nat : PipelineAt(s, c)
  BY DEF Inv, Pipeline
<1>2. /\ UNCHANGED <<accepted, mpc, size, promised>>
      /\ Settled' = Settled
  BY DEF BackEnd, Boot, LoopAgain, LoopExit, DecideToWait, BeginWait,
         WaitEnds, TakeBatch, Refill, Measure, Roll, NoRoll, Write, WriteDone,
         ownerVars, Settled
<1>3. /\ Len(file) + 1 \in Nat /\ file \in Seq(Nat)
      /\ sharedBuffers \in Seq(Fits) /\ buffers \in Seq(Fits)
      /\ currentBuffer \in Fits
      /\ accepted + 1 \in Nat
  BY SizesAssumption DEF Inv, TypeInv, TypeOK
<1>4. CASE Boot \/ LoopExit \/ DecideToWait \/ BeginWait \/ WaitEnds
           \/ Refill \/ Measure \/ Roll \/ NoRoll \/ WriteDone
  <2>1. UNCHANGED <<currentBuffer, sharedBuffers, buffers, file>>
    BY <1>4 DEF Boot, LoopExit, DecideToWait, BeginWait, WaitEnds, Refill,
                Measure, Roll, NoRoll, WriteDone, queueVars, batchVars,
                fileVars
  <2>2. Pos' = Pos
    BY <1>4 DEF Boot, LoopExit, DecideToWait, BeginWait, WaitEnds, Refill,
                Measure, Roll, NoRoll, WriteDone, batchVars, Pos
  <2>3. PipelineAt(s, c)'
    BY <1>1, <1>2, <2>1, <2>2 DEF PipelineAt
  <2> QED
    BY <2>1, <2>3 DEF Pipeline, WrittenInOrder, Inv
<1>5. CASE LoopAgain
  <2>1. /\ buffers' = <<>> /\ i' = 1
        /\ UNCHANGED <<currentBuffer, sharedBuffers, file>>
        /\ Pos = Len(buffers) + 1 /\ Pos' = 1
    BY <1>5 DEF LoopAgain, BatchAtTop, queueVars, fileVars, Pos, Inv, Control
  <2>2. s = Len(file) + 1
    BY <1>1, <1>3, <2>1, ChainDone DEF PipelineAt
  <2>3. Chain(buffers', Pos', Len(file') + 1, s)
    BY <1>3, <2>1, <2>2, ChainEmpty
  <2>4. PipelineAt(s, c)'
    BY <1>1, <1>2, <2>1, <2>3 DEF PipelineAt
  <2> QED
    BY <2>1, <2>4 DEF Pipeline, WrittenInOrder, Inv
<1>6. CASE TakeBatch
  <2>1. /\ buffers = <<>> /\ i = 1 /\ Pos = 1
        /\ buffers' = Append(sharedBuffers, currentBuffer)
        /\ sharedBuffers' = <<>>
        /\ currentBuffer' = NewBuffer
        /\ file' = file
        /\ Pos' = 1
    BY <1>6 DEF TakeBatch, TakenBatch, fileVars, Pos, Inv, Control, TypeInv,
                SparesReady
  <2>2. s = Len(file) + 1
    <3>1. <<>> \in Seq(Fits) /\ Len(<<>>) + 1 = 1
      OBVIOUS
    <3> QED
      BY <1>1, <1>3, <2>1, <3>1, ChainDone DEF PipelineAt
  <2>3. Chain(buffers', Pos', Len(file') + 1, accepted + 1)
    BY <1>1, <1>3, <2>1, <2>2, ChainAppend DEF PipelineAt
  <2>4. /\ Chain(sharedBuffers', 1, accepted + 1, accepted + 1)
        /\ Carries(currentBuffer', accepted + 1, accepted + 1)
    BY <1>3, <2>1, ChainEmpty, CarriesNew
  <2>5. promised' < accepted + 1
    BY <1>2 DEF Inv, Control, TypeInv, TypeOK
  <2>6. \E t \in Nat :
            /\ Chain(buffers', Pos', Len(file') + 1, t)
            /\ Chain(sharedBuffers', 1, t, t)
            /\ Carries(currentBuffer', t, accepted' + 1)
            /\ promised' < t
    BY <1>2, <1>3, <2>3, <2>4, <2>5
  <2> QED
    BY <2>1, <2>6 DEF Pipeline, PipelineAt, WrittenInOrder, Inv
<1>7. CASE Write
  <2> DEFINE b == buffers[i]
             n == Len(file)
  <2>1. /\ i \in 1..Len(buffers) /\ Pos = i /\ Pos' = i + 1
        /\ UNCHANGED <<currentBuffer, sharedBuffers, buffers>>
        /\ file' = file \o b.log
    BY <1>7 DEF Write, queueVars, Pos
  <2>2. b.log \in Seq(Nat) /\ Len(b.log) \in Nat
    BY <1>3, <2>1, FitsFields
  <2>3. /\ Carries(b, n + 1, (n + 1) + Len(b.log))
        /\ Chain(buffers, i + 1, (n + 1) + Len(b.log), s)
    BY <1>1, <1>3, <2>1, ChainStep DEF PipelineAt
  <2>4. Len(file') = n + Len(b.log) /\ Len(file') + 1 = (n + 1) + Len(b.log)
    <3>1. Len(file \o b.log) = n + Len(b.log) /\ n \in Nat
      BY <1>3, <2>2
    <3>2. Len(file') = n + Len(b.log)
      BY <2>1, <3>1, Zenon
    <3>3. ASSUME NEW p, NEW q \in Nat, NEW m \in Nat, p = q + m
          PROVE  p + 1 = (q + 1) + m
      BY <3>3
    <3> QED
      BY <2>2, <3>1, <3>2, <3>3
  <2>5. Chain(buffers', Pos', Len(file') + 1, s)
    BY <2>1, <2>3, <2>4
  <2>6. PipelineAt(s, c)'
    BY <1>1, <1>2, <2>1, <2>5 DEF PipelineAt
  <2>7. WrittenInOrder'
    <3> SUFFICES ASSUME NEW k \in 1..Len(file') PROVE file'[k] = k
      BY DEF WrittenInOrder
    <3>1. CASE k \in 1..n
      BY <1>3, <2>1, <2>2, <3>1 DEF WrittenInOrder, Inv
    <3>2. CASE k \in (n + 1)..(n + Len(b.log))
      <4>1. file'[k] = b.log[k - n] /\ k - n \in 1..Len(b.log)
        BY <1>3, <2>1, <2>2, <3>2
      <4>2. b.log[k - n] = (n + 1) + (k - n) - 1
        BY <2>3, <4>1 DEF Carries
      <4> QED
        BY <1>3, <4>1, <4>2
    <3>3. n \in Nat /\ k \in Nat /\ k >= 1 /\ k <= n + Len(b.log)
      BY <1>3, <2>4
    <3> QED
      BY <2>2, <3>1, <3>2, <3>3
  <2> QED
    BY <2>6, <2>7 DEF Pipeline
<1> QED
  BY <1>4, <1>5, <1>6, <1>7 DEF BackEnd

LEMMA StepInv == Inv /\ [Next]_vars => Inv'
<1> SUFFICES ASSUME Inv, [Next]_vars PROVE Inv'
  OBVIOUS
<1>1. TypeInv' /\ Control'
  BY StepTypeInv, StepControl DEF Inv
<1>2. Pipeline' /\ WrittenInOrder'
  <2>1. ASSUME NEW len \in Lens,
               AppendInPlace(len) \/ AppendToNext(len) \/ AppendToFresh(len)
        PROVE  Pipeline' /\ WrittenInOrder'
    <3>1. file' = file
      BY <2>1 DEF AppendInPlace, AppendToNext, AppendToFresh, fileVars
    <3> QED
      BY <2>1, <3>1, AppendPipeline DEF WrittenInOrder, Inv
  <2>2. CASE Owner
    <3>1. file' = file
      BY <2>2 DEF Owner, Start, StopBegin, StopReread, ReadSize, StopWakeup,
                  StopClear, StopSignal, StopJoin, fileVars
    <3> QED
      BY <2>2, <3>1, OwnerPipeline DEF WrittenInOrder, Inv
  <2>3. CASE BackEnd
    BY <2>3, BackEndPipeline
  <2>4. CASE UNCHANGED vars
    BY <2>4 DEF Inv, Pipeline, PipelineAt, Pos, Settled, WrittenInOrder, vars,
                queueVars, ownerVars, batchVars, fileVars
  <2> QED
    BY <2>1, <2>2, <2>3, <2>4 DEF Next, Stopped
<1> QED
  BY <1>1, <1>2 DEF Inv

LEMMA InvHolds == Spec => []Inv
  BY InitInv, StepInv, PTL DEF Spec

-----------------------------------------------------------------------------
(* The properties.                                                         *)

(* Lines reach the file in the order in which append() took the lock, each *)
(* once and none missing, however the buffers are switched and the file is *)
(* rolled.                                                                 *)
THEOREM FileInOrder == Spec => []WrittenInOrder
<1>1. Inv => WrittenInOrder
  BY DEF Inv
<1> QED
  BY <1>1, InvHolds, PTL

(* stop() may look at _currentBuffer alone: when that is empty, so is      *)
(* _buffers.                                                               *)
THEOREM StopTestIsSound == Spec => []StopTestSound
<1>1. Inv => StopTestSound
  BY DEF Inv, Control, StopTestSound
<1> QED
  BY <1>1, InvHolds, PTL

(* When stop() is over, the writing is: all that is promised is behind the *)
(* end of the file.                                                        *)
LEMMA InvDrains == Inv => StopDrains
<1> SUFFICES ASSUME Inv, mpc = "stopped" PROVE promised <= onDisk
  BY DEF StopDrains
<1>1. PICK s \in Nat, c \in Nat : PipelineAt(s, c)
  BY DEF Inv, Pipeline
<1>2. /\ bpc = "exited" /\ Settled /\ onDisk = Len(file)
      /\ Pos = Len(buffers) + 1
  BY DEF Inv, Control, Settled, Pos
<1>3. Len(file) + 1 \in Nat /\ buffers \in Seq(Fits) /\ promised \in Nat
  BY SizesAssumption DEF Inv, TypeInv, TypeOK
<1>4. s = Len(file) + 1 /\ promised < s
  BY <1>1, <1>2, <1>3, ChainDone DEF PipelineAt
<1> QED
  BY <1>2, <1>3, <1>4

(* Nothing that was appended before the last look of stop() is lost: it is *)
(* on disk when stop() returns.                                            *)
THEOREM StopLosesNothing == Spec => []StopDrains
  BY InvDrains, InvHolds, PTL

-----------------------------------------------------------------------------
(* The refinement.                                                         *)

(* No line is in the file before it was appended.                          *)
LEMMA FileWithinAccepted ==
    ASSUME Inv
    PROVE  Len(file) <= accepted
<1>1. PICK s \in Nat, c \in Nat : PipelineAt(s, c)
  BY DEF Inv, Pipeline
<1>2. /\ Len(file) \in Nat /\ Len(file) + 1 \in Nat
      /\ accepted \in Nat /\ accepted + 1 \in Nat
      /\ Pos \in 1..(Len(buffers) + 1) /\ 1 \in 1..(Len(sharedBuffers) + 1)
      /\ buffers \in Seq(Fits) /\ sharedBuffers \in Seq(Fits)
      /\ currentBuffer \in Fits
  BY SizesAssumption DEF Inv, TypeInv, TypeOK, Pos
<1>3. Len(file) + 1 <= s
  BY <1>1, <1>2, ChainOrder DEF PipelineAt
<1>4. s <= c
  BY <1>1, <1>2, ChainOrder DEF PipelineAt
<1>5. c <= accepted + 1
  <2>1. Len(currentBuffer.log) \in Nat
    BY <1>2, FitsFields
  <2> QED
    BY <1>1, <1>2, <2>1 DEF PipelineAt, Carries
<1> QED
  BY <1>2, <1>3, <1>4, <1>5

(* What is on disk is an initial part of the lines.                        *)
HardenedIsFirst ==
    hardened = DL!FirstLines(onDisk) /\ onDisk \in 0..accepted

LEMMA HardenedFirst == Inv => HardenedIsFirst
<1> SUFFICES ASSUME Inv PROVE HardenedIsFirst
  OBVIOUS
<1>1. onDisk \in 0..Len(file) /\ Len(file) \in Nat /\ accepted \in Nat
  BY SizesAssumption DEF Inv, TypeInv, TypeOK
<1>2. \A n \in 1..onDisk : file[n] = n
  BY <1>1 DEF Inv, WrittenInOrder
<1> QED
  BY <1>1, <1>2, FileWithinAccepted
  DEF HardenedIsFirst, hardened, DL!FirstLines

LEMMA HardenedLen ==
    ASSUME Inv
    PROVE  Len(hardened) = onDisk
  BY SizesAssumption DEF Inv, TypeInv, TypeOK, hardened

LEMMA RefineInit == Init => DL!Init
<1> SUFFICES ASSUME Init PROVE DL!Init
  OBVIOUS
<1>1. Inv
  BY InitInv
<1>2. hardened = DL!FirstLines(0)
  BY <1>1, HardenedFirst DEF HardenedIsFirst, Init
<1> QED
  BY <1>2 DEF Init, DL!Init, closing

LEMMA RefineStep == Inv /\ Inv' /\ [Next]_vars => [DL!Next]_(DL!vars)
<1> SUFFICES ASSUME Inv, Inv', [Next]_vars PROVE DL!Next \/ UNCHANGED DL!vars
  OBVIOUS
<1>1. ASSUME NEW len \in Lens,
             AppendInPlace(len) \/ AppendToNext(len) \/ AppendToFresh(len)
      PROVE  DL!Accept
  <2>1. /\ mpc # "stopped" /\ accepted' = accepted + 1
        /\ UNCHANGED <<mpc, promised, file, onDisk>>
    BY <1>1 DEF AppendInPlace, AppendToNext, AppendToFresh, FrontEnd,
                ownerVars, fileVars
  <2>2. UNCHANGED <<hardened, closing>> /\ closing # "closed"
    BY <2>1 DEF hardened, closing
  <2> QED
    BY <2>1, <2>2 DEF DL!Accept
<1>2. CASE StopBegin \/ StopReread
  <2>1. /\ mpc \in {"up", "signalled"} /\ mpc' = "sampled"
        /\ promised' = accepted
        /\ UNCHANGED <<accepted, file, onDisk>>
    BY <1>2 DEF StopBegin, StopReread, ReadSize, fileVars
  <2>2. hardened' = hardened /\ closing # "closed" /\ closing' = "closing"
    BY <2>1 DEF hardened, closing
  <2> QED
    BY <2>1, <2>2 DEF DL!Promise, DL!Next
<1>3. CASE StopJoin
  <2>1. /\ mpc = "joining" /\ mpc' = "stopped"
        /\ UNCHANGED <<accepted, promised, file, onDisk>>
    BY <1>3 DEF StopJoin, fileVars
  <2>2. hardened' = hardened /\ closing = "closing" /\ closing' = "closed"
    BY <2>1 DEF hardened, closing
  <2>3. promised <= Len(hardened)
    <3>1. Inv' => StopDrains'
      BY InvDrains, PTL
    <3> QED
      BY <2>1, <3>1, HardenedLen DEF StopDrains
  <2> QED
    BY <2>1, <2>2, <2>3 DEF DL!Close, DL!Next
<1>4. CASE Start \/ StopWakeup \/ StopClear \/ StopSignal
  <2>1. UNCHANGED <<accepted, promised, file, onDisk>>
    BY <1>4 DEF Start, StopWakeup, StopClear, StopSignal, fileVars
  <2>2. UNCHANGED <<hardened, closing>>
    BY <1>4, <2>1 DEF Start, StopWakeup, StopClear, StopSignal, hardened,
                      closing
  <2> QED
    BY <2>1, <2>2 DEF DL!vars
<1>5. CASE BackEnd
  <2>1. UNCHANGED <<accepted, mpc, promised>>
    BY <1>5 DEF BackEnd, Boot, LoopAgain, LoopExit, DecideToWait, BeginWait,
                WaitEnds, TakeBatch, Refill, Measure, Roll, NoRoll, Write,
                WriteDone, ownerVars
  <2>2. onDisk' >= onDisk
    <3>1. onDisk' = onDisk \/ onDisk' = Len(file) \/ onDisk' \in onDisk..Len(file')
      BY <1>5 DEF BackEnd, Boot, LoopAgain, LoopExit, DecideToWait, BeginWait,
                  WaitEnds, TakeBatch, Refill, Measure, Roll, NoRoll, Write,
                  WriteDone, AllWritten, fileVars
    <3>2. Len(file) \in Nat /\ onDisk \in Nat /\ onDisk <= Len(file)
      BY DEF Inv, TypeInv, TypeOK
    <3>3. onDisk' \in Nat /\ Len(file') \in Nat
      BY DEF Inv, TypeInv, TypeOK
    <3> QED
      BY <3>1, <3>2, <3>3
  <2>3. onDisk' \in Len(hardened)..accepted /\ hardened' = DL!FirstLines(onDisk')
    <3>1. Inv' => HardenedIsFirst'
      BY HardenedFirst, PTL
    <3>2. Len(hardened) = onDisk /\ onDisk \in Nat
      BY HardenedLen DEF Inv, TypeInv, TypeOK
    <3> QED
      BY <2>1, <2>2, <3>1, <3>2
      DEF HardenedIsFirst, DL!FirstLines, Inv, TypeInv, TypeOK
  <2>4. closing' = closing
    BY <2>1 DEF closing
  <2> QED
    BY <2>1, <2>3, <2>4 DEF DL!Harden, DL!Next
<1>6. CASE UNCHANGED vars
  BY <1>6 DEF vars, ownerVars, fileVars, DL!vars, hardened, closing
<1> QED
  BY <1>1, <1>2, <1>3, <1>4, <1>5, <1>6 DEF Next, Owner, Stopped, DL!Next

(* Every behaviour of the back end is one of the durable log: its lines    *)
(* become durable in order, and close() keeps its promise.                 *)
THEOREM Refinement == Spec => ImplementsDurableLog
<1>1. Init /\ []Inv /\ [][Next]_vars => DL!Init /\ [][DL!Next]_(DL!vars)
  BY RefineInit, RefineStep, PTL
<1> QED
  BY <1>1, InvHolds, PTL DEF Spec, ImplementsDurableLog, DL!Spec

-----------------------------------------------------------------------------
(* The growth of a file.  The loop of mainRoutine() that measures a batch    *)
(* and the one that writes it add up the same sizes.                       *)

(* total[k] is the size of the first k buffers of S.                       *)
Totals(S, n, total) ==
    /\ total \in [0..n -> Nat]
    /\ total[0] = 0
    /\ \A k \in 1..n : total[k] = total[k - 1] + S[k].size

(* needWrite counts the buffers before i; there is a function that adds up *)
(* their sizes, as a recursive definition would.                           *)
Measured == \E total : /\ Totals(buffers, i - 1, total)
                       /\ needWrite = total[i - 1]

(* needWrite counts the whole batch, the file has its buffers before i.    *)
PartlyWritten ==
    \E total : /\ Totals(buffers, Len(buffers), total)
               /\ needWrite = total[Len(buffers)]
               /\ fileBytes = found + written + total[i - 1]

RollInv ==
    /\ bpc \in {"unborn", "boot"} => written = 0
    /\ bpc # "write" => fileBytes = found + written
    /\ bpc = "refill" => i = 1
    /\ bpc = "measure" => Measured
    /\ bpc = "write" =>
          /\ PartlyWritten
          /\ written + needWrite > RollSize => written = 0
    /\ bpc = "top" /\ written > RollSize => written = needWrite

LEMMA InitRollInv == Init => RollInv
  BY DEF Init, RollInv

LEMMA StepRollInv == TypeInv /\ Control /\ RollInv /\ [Next]_vars => RollInv'
<1> SUFFICES ASSUME TypeInv, Control, RollInv, [Next]_vars PROVE RollInv'
  OBVIOUS
<1> USE DEF RollInv
<1>1. ASSUME UNCHANGED <<bpc, batchVars, fileVars>> PROVE RollInv'
  BY <1>1 DEF batchVars, fileVars, Measured, PartlyWritten
<1>2. ASSUME UNCHANGED <<batchVars, fileVars>>, Signal PROVE RollInv'
  BY <1>2 DEF Signal, batchVars, fileVars, Measured, PartlyWritten
<1>3. ASSUME NEW len \in Lens,
             AppendInPlace(len) \/ AppendToNext(len) \/ AppendToFresh(len)
      PROVE  RollInv'
  BY <1>1, <1>2, <1>3 DEF AppendInPlace, AppendToNext, AppendToFresh
<1>4. ASSUME Owner PROVE RollInv'
  <2>1. CASE Start
    BY <2>1 DEF Start, Control, fileVars
  <2>2. CASE StopBegin \/ StopReread \/ StopClear \/ StopJoin
    BY <1>1, <2>2 DEF StopBegin, StopReread, ReadSize, StopClear, StopJoin
  <2>3. CASE StopWakeup \/ StopSignal
    BY <1>2, <2>3 DEF StopWakeup, StopSignal
  <2> QED
    BY <1>4, <2>1, <2>2, <2>3 DEF Owner
<1>5. CASE LoopAgain \/ LoopExit \/ DecideToWait \/ BeginWait
           \/ WaitEnds \/ TakeBatch
  BY <1>5, SizesAssumption
  DEF LoopAgain, LoopExit, DecideToWait, BeginWait, WaitEnds, TakeBatch,
      batchVars, fileVars
<1>6. CASE Refill
  <2>1. /\ i' = 1 /\ needWrite' = 0 /\ bpc' = "measure" /\ buffers' = buffers
        /\ UNCHANGED <<written, fileBytes, found>>
        /\ fileBytes = found + written
    BY <1>6 DEF Refill, fileVars
  <2>2. Measured'
    <3> DEFINE total == [k \in 0..0 |-> 0]
    <3>1. Totals(buffers', i' - 1, total) /\ total[i' - 1] = 0
      BY <2>1 DEF Totals
    <3> QED
      BY <2>1, <3>1 DEF Measured
  <2> QED
    BY <2>1, <2>2
<1>7. CASE Measure
  <2>1. /\ i' = i + 1 /\ needWrite' = needWrite + buffers[i].size
        /\ bpc = "measure" /\ bpc' = "measure" /\ buffers' = buffers
        /\ UNCHANGED <<written, fileBytes, found>> /\ i \in 1..Len(buffers)
    BY <1>7 DEF Measure, fileVars
  <2>2. buffers[i].size \in Nat /\ i \in Nat
    BY <2>1, FitsFields DEF TypeInv, TypeOK
  <2>3. PICK total : Totals(buffers, i - 1, total) /\ needWrite = total[i - 1]
    BY <2>1 DEF Measured
  <2> DEFINE more == [k \in 0..i |-> IF k = i THEN needWrite' ELSE total[k]]
  <2>4. needWrite' \in Nat
    BY <2>1, <2>2 DEF TypeInv, TypeOK
  <2>5. more \in [0..i -> Nat] /\ more[0] = 0 /\ more[i] = needWrite'
    BY <2>1, <2>2, <2>3, <2>4 DEF Totals
  <2>6. \A k \in 0..(i - 1) : more[k] = total[k]
    BY <2>2
  <2>7. ASSUME NEW k \in 1..i
        PROVE  more[k] = more[k - 1] + buffers[k].size
    <3>1. CASE k = i
      BY <2>1, <2>2, <2>3, <2>5, <2>6, <3>1
    <3>2. CASE k # i
      <4>1. k \in 1..(i - 1) /\ k \in 0..(i - 1) /\ k - 1 \in 0..(i - 1)
        BY <2>2, <3>2
      <4> QED
        BY <2>3, <2>6, <4>1 DEF Totals
    <3> QED
      BY <3>1, <3>2
  <2> HIDE DEF more
  <2>8. i' - 1 = i
    BY <2>1, <2>2
  <2>9. Totals(buffers', i' - 1, more) /\ needWrite' = more[i' - 1]
    BY <2>1, <2>5, <2>7, <2>8 DEF Totals
  <2> QED
    BY <2>1, <2>9 DEF Measured
<1>8. ASSUME Roll \/ NoRoll PROVE RollInv'
  <2>1. /\ i = Len(buffers) + 1 /\ i' = 1 /\ bpc' = "write" /\ bpc = "measure"
        /\ UNCHANGED <<buffers, needWrite>>
    BY <1>8 DEF Roll, NoRoll
  <2>2. Len(buffers) \in Nat /\ written \in Nat /\ written' \in Nat
    BY <1>8 DEF Roll, NoRoll, TypeInv, TypeOK, fileVars
  <2>3. PICK total : Totals(buffers, i - 1, total) /\ needWrite = total[i - 1]
    BY <2>1 DEF Measured
  <2>4. i - 1 = Len(buffers) /\ i' - 1 = 0
    BY <2>1, <2>2
  <2>5. fileBytes' = found' + written' /\ found' \in Nat
    <3>1. CASE Roll
      <4>1. written' = 0 /\ Reopen
        BY <3>1 DEF Roll
      <4> QED
        BY <4>1, ReopenTypes DEF TypeInv
    <3>2. CASE NoRoll
      BY <3>2 DEF NoRoll, fileVars, TypeInv, TypeOK
    <3> QED
      BY <1>8, <3>1, <3>2
  <2>6. PartlyWritten'
    <3>1. total[0] = 0 /\ fileBytes' = found' + written' + total[i' - 1]
      BY <2>2, <2>3, <2>4, <2>5 DEF Totals
    <3> QED
      BY <2>1, <2>3, <2>4, <3>1 DEF PartlyWritten
  <2>7. written' + needWrite' > RollSize => written' = 0
    BY <1>8, <2>1 DEF Roll, NoRoll, MustRoll, fileVars
  <2> QED
    BY <2>1, <2>6, <2>7
<1>9. CASE Write
  <2>1. /\ i' = i + 1 /\ fileBytes' = fileBytes + buffers[i].size
        /\ bpc = "write" /\ bpc' = "write" /\ i \in 1..Len(buffers)
        /\ UNCHANGED <<buffers, needWrite, written, found>>
    BY <1>9 DEF Write
  <2>2. /\ buffers[i].size \in Nat /\ i \in Nat /\ written \in Nat
        /\ Len(buffers) \in Nat /\ found \in Nat
    BY <2>1, FitsFields DEF TypeInv, TypeOK
  <2>3. PICK total : /\ Totals(buffers, Len(buffers), total)
                     /\ needWrite = total[Len(buffers)]
                     /\ fileBytes = found + written + total[i - 1]
    BY <2>1 DEF PartlyWritten
  <2>4. total[i] = total[i - 1] + buffers[i].size /\ total[i - 1] \in Nat
    <3>1. i - 1 \in 0..Len(buffers)
      BY <2>1, <2>2
    <3>2. total[i - 1] \in Nat
      BY <2>3, <3>1 DEF Totals
    <3> QED
      BY <2>1, <2>3, <3>2 DEF Totals
  <2>5. fileBytes' = found + written + total[i] /\ i' - 1 = i
    BY <2>1, <2>2, <2>3, <2>4
  <2>6. PartlyWritten'
    BY <2>1, <2>3, <2>5 DEF PartlyWritten
  <2> QED
    BY <2>1, <2>6
<1>10. CASE WriteDone
  <2>1. /\ i = Len(buffers) + 1 /\ bpc = "write" /\ bpc' = "top"
        /\ written' = written + needWrite
        /\ UNCHANGED <<needWrite, fileBytes, found>>
    BY <1>10 DEF WriteDone, batchVars
  <2>2. /\ Len(buffers) \in Nat /\ written \in Nat /\ needWrite \in Nat
        /\ found \in Nat
    BY DEF TypeInv, TypeOK
  <2>3. fileBytes = found + written + needWrite
    <3>1. i - 1 = Len(buffers)
      BY <2>1, <2>2
    <3> QED
      BY <2>1, <3>1 DEF PartlyWritten
  <2> QED
    BY <2>1, <2>2, <2>3
<1>11. CASE UNCHANGED vars
  BY <1>1, <1>11 DEF vars
<1>12. CASE Boot
  <2>1. fileBytes' = found' + written' /\ bpc' = "top" /\ written' = 0
    <3>1. bpc = "boot" /\ bpc' = "top" /\ written' = written /\ Reopen
      BY <1>12 DEF Boot
    <3> QED
      BY <3>1, ReopenTypes DEF TypeInv
  <2> QED
    BY <2>1, SizesAssumption
<1> QED
  BY <1>3, <1>4, <1>5, <1>6, <1>7, <1>8, <1>9, <1>10, <1>11, <1>12
  DEF Next, BackEnd, Stopped

(* mainRoutine() knows by how much its file has grown since it was opened, *)
(* and lets it grow by more than _rollSize only when one batch is longer   *)
(* than that.  It does not know what the file had when it was opened.      *)
THEOREM FilesBounded == Spec => []RollBound
<1>1. TypeInv /\ RollInv => RollBound
  BY SizesAssumption DEF RollInv, RollBound, TypeInv, TypeOK
<1>2. Inv => TypeInv /\ Control
  BY DEF Inv
<1> QED
  BY <1>1, <1>2, InvHolds, InitRollInv, StepRollInv, PTL DEF Spec

-----------------------------------------------------------------------------
(* Rolling the file: Rotation, for numbers of every base and any bounds.   *)

(* What the files of the first Base + 1 rolls are called.                  *)
Name(num) == IF num < Base THEN <<num>> ELSE <<1, 0>>
Names(m, n) == {Name(num) : num \in m..n}

(* The names that are listed no later than n.                              *)
NotBefore(names, n) == {m \in names : ~ Before(m, n)}

LEMMA SingleBefore ==
    ASSUME NEW num \in Int, NEW j \in Int
    PROVE  Before(<<num>>, <<j>>) <=> num < j
<1>1. ~ IsStrictPrefix(<<num>>, <<j>>)
  <2> DEFINE s == <<num>>
             t == <<j>>
  <2>1. s \in Seq(Int) /\ t \in Seq(Int) /\ Len(s) = 1 /\ Len(t) = 1
        /\ s[1] = num /\ t[1] = j
    OBVIOUS
  <2> HIDE DEF s, t
  <2>2. SubSeq(s, 1, 1)[1] = num /\ SubSeq(t, 1, 1)[1] = j
    BY <2>1
  <2>3. num = j => s = t
    BY DEF s, t
  <2> QED
    BY <2>1, <2>2, <2>3 DEF IsStrictPrefix, IsPrefix, s, t
<1>2. /\ DOMAIN <<num>> = {1} /\ DOMAIN <<j>> = {1}
      /\ <<num>>[1] = num /\ <<j>>[1] = j /\ 1..(1 - 1) = {}
  OBVIOUS
<1>3. Before(<<num>>, <<j>>) <=>
          \E k \in {1} : /\ <<num>>[k] < <<j>>[k]
                         /\ \A l \in 1..(k - 1) : <<num>>[l] = <<j>>[l]
  BY <1>1, <1>2 DEF Before
<1> QED
  BY <1>2, <1>3

LEMMA ListedDescends ==
    ASSUME NEW names, IsFiniteSet(names),
           \A n \in names : n[1] \in Int /\ n = <<n[1]>>
    PROVE  LET s == Listed(names)
           IN /\ Len(s) \in Nat /\ s = [k \in 1..Len(s) |-> s[k]]
              /\ \A k \in 1..Len(s) : s[k] \in names
              /\ \A n \in names : \E k \in 1..Len(s) : s[k] = n
              /\ \A j, k \in 1..Len(s) : j < k => s[k][1] < s[j][1]
<1> DEFINE c == Cardinality(names)
           s == Listed(names)
           rank == [x \in names |-> Cardinality(NotBefore(names, x))]
<1>0. \A x, m \in names : m \in NotBefore(names, x) <=> m[1] >= x[1]
  <2> SUFFICES ASSUME NEW x \in names, NEW m \in names
               PROVE  ~ Before(m, x) <=> m[1] >= x[1]
    BY DEF NotBefore
  <2>1. Before(<<m[1]>>, <<x[1]>>) <=> m[1] < x[1]
    BY SingleBefore
  <2>2. x[1] \in Int /\ m[1] \in Int /\ <<m[1]>> = m /\ <<x[1]>> = x
    OBVIOUS
  <2> QED
    BY <2>1, <2>2
<1>1. c \in Nat
  BY FS_CardinalityType
<1>2. ASSUME NEW x \in names
      PROVE  /\ IsFiniteSet(NotBefore(names, x))
             /\ Cardinality(NotBefore(names, x)) \in 1..c
  <2>1. NotBefore(names, x) \in SUBSET names /\ x \in NotBefore(names, x)
    BY <1>0 DEF NotBefore
  <2>2. /\ IsFiniteSet(NotBefore(names, x))
        /\ Cardinality(NotBefore(names, x)) <= c
    BY <2>1, FS_Subset
  <2>3. /\ Cardinality(NotBefore(names, x)) \in Nat
        /\ Cardinality(NotBefore(names, x)) # 0
    BY <2>1, <2>2, FS_CardinalityType, FS_EmptySet
  <2> QED
    BY <1>1, <2>2, <2>3
<1>3. ASSUME NEW x \in names, NEW y \in names, x[1] < y[1]
      PROVE  Cardinality(NotBefore(names, y))
                 < Cardinality(NotBefore(names, x))
  <2>1. /\ NotBefore(names, y) \in SUBSET NotBefore(names, x)
        /\ x \in NotBefore(names, x) /\ x \notin NotBefore(names, y)
    BY <1>0, <1>3 DEF NotBefore
  <2>2. Cardinality(NotBefore(names, y)) <= Cardinality(NotBefore(names, x))
        /\ Cardinality(NotBefore(names, y)) # Cardinality(NotBefore(names, x))
    BY <1>2, <2>1, FS_Subset
  <2>3. /\ Cardinality(NotBefore(names, x)) \in Nat
        /\ Cardinality(NotBefore(names, y)) \in Nat
    BY <1>2
  <2> QED
    BY <2>2, <2>3
<1>4. ASSUME NEW x \in names, NEW y \in names,
             Cardinality(NotBefore(names, x))
                 = Cardinality(NotBefore(names, y))
      PROVE  x = y
  <2>1. x[1] \in Int /\ y[1] \in Int /\ ~(x[1] < y[1]) /\ ~(y[1] < x[1])
    BY <1>2, <1>3, <1>4
  <2> QED
    BY <2>1
<1>5. rank \in Injection(names, 1..c)
  BY <1>2, <1>4 DEF Injection, IsInjective
<1>6. IsFiniteSet(1..c) /\ Cardinality(1..c) = c
  BY <1>1, FS_Interval
<1>7. rank \in Surjection(names, 1..c)
  <2> HIDE DEF rank
  <2> QED
    BY <1>5, <1>6, FS_Injection
<1>8. \A k \in 1..c : \E x \in names : Cardinality(NotBefore(names, x)) = k
  BY <1>7 DEF Surjection
<1>9. s = [k \in 1..c |-> s[k]]
  <2> DEFINE t == [k \in 1..c |->
                      CHOOSE x \in names : Cardinality(NotBefore(names, x)) = k]
  <2>1. s = t
    BY Zenon DEF Listed, NotBefore
  <2>2. t = [k \in 1..c |-> t[k]]
    <3> HIDE DEF c
    <3> QED
      OBVIOUS
  <2> QED
    BY <2>1, <2>2
<1>10. \A k \in 1..c :
          s[k] = CHOOSE x \in names : Cardinality(NotBefore(names, x)) = k
  BY DEF Listed, NotBefore
<1> HIDE DEF s
<1>11. Len(s) = c
  BY <1>1, <1>9
<1>12. \A k \in 1..c :
          s[k] \in names /\ Cardinality(NotBefore(names, s[k])) = k
  BY <1>8, <1>10
<1>13. \A n \in names : \E k \in 1..c : s[k] = n
  BY <1>2, <1>4, <1>12
<1>14. ASSUME NEW j \in 1..c, NEW k \in 1..c, j < k
       PROVE  s[k][1] < s[j][1]
  <2>1. ~ (s[j][1] < s[k][1]) /\ s[j] # s[k]
    BY <1>3, <1>12, <1>14
  <2>2. s[j][1] # s[k][1]
    BY <1>12, <2>1
  <2>3. s[j][1] \in Int /\ s[k][1] \in Int
    BY <1>12
  <2> QED
    BY <2>1, <2>2, <2>3
<1> QED
  BY <1>1, <1>9, <1>11, <1>12, <1>13, <1>14 DEF s

-----------------------------------------------------------------------------
(* The inductive invariant.                                                *)

(* Types of the scripts, which hold beyond the first Base + 1 rolls.       *)
ScriptsOK ==
    /\ Len(scripts) \in Nat \ {0}
    /\ scripts = [k \in 1..Len(scripts) |->
                     [at |-> scripts[k].at, todo |-> scripts[k].todo]]

Latest == Len(scripts)
At == scripts[Latest].at

IsDirectory(d) ==
    d = [n \in DOMAIN d |-> d[n]] /\ \A n \in DOMAIN d : d[n] \in Seq(Nat)

(* Between two rolls .log0 is the only file next to the archive.           *)
Rolled(last) ==
    /\ DOMAIN files \subseteq {log0}
    /\ archive # {} => last >= 0
    /\ \A d \in archive : DOMAIN d \subseteq Names(1, last)

(* The names still to be renamed are in descending order, and the files    *)
(* that have been renamed are beyond what any of those will become.        *)
Renaming(todo) ==
    /\ Len(todo) \in Nat /\ todo = [k \in 1..Len(todo) |-> todo[k]]
    /\ \A k \in 1..Len(todo) :
          todo[k][1] \in 0..(Latest - 2) /\ todo[k] = <<todo[k][1]>>
    /\ \A j, k \in 1..Len(todo) : j < k => todo[k][1] < todo[j][1]
    /\ \A n \in DOMAIN files :
          \/ \E k \in 1..Len(todo) : n = todo[k]
          \/ \E num \in 1..(Latest - 1) :
                n = Name(num) /\ \A k \in 1..Len(todo) : todo[k][1] + 1 < num

(* All that is in the archive is next to it, too.                          *)
Unpacked ==
    /\ \A d \in archive : \A n \in DOMAIN d :
          n \in DOMAIN files /\ files[n] = d[n]
    /\ DOMAIN files \subseteq Names(0, Latest - 2)

(* Where the files are, step by step of the script.                        *)
Place ==
    /\ ~ Running(Latest) => Rolled(Latest - 1)
    /\ At \in {"test", "unpack"} => Rolled(Latest - 2)
    /\ At = "unpack" => archive # {}
    /\ At = "rmTar" => Unpacked
    /\ At = "list" => archive = {} /\ Unpacked
    /\ At = "rename" => archive = {} /\ Renaming(scripts[Latest].todo)
    /\ At = "rmLogs" =>
          archive = {files} /\ DOMAIN files \subseteq Names(1, Latest - 1)
    /\ At = "tarOnly" => archive = {} /\ Rolled(Latest - 1)

Directories ==
    /\ IsDirectory(files)
    /\ \A d \in archive : IsDirectory(d)
    /\ \A d, e \in archive : d = e
    /\ IF waiting
       THEN open = {}
       ELSE open = {log0} /\ log0 \in DOMAIN files

Kept == \A b \in 1..batches : \E d \in archive \cup {files} : In(d, b)

(* At most the last script runs, and only while rollFile() waits.          *)
Calm ==
    /\ \A k \in 1..Latest : Running(k) => k = Latest /\ waiting
    /\ Directories
    /\ Place
    /\ batches \in Nat
    /\ Kept

RotationInv ==
    /\ ScriptsOK
    /\ trouble = {} /\ Latest <= Base + 1 => Calm

-----------------------------------------------------------------------------
(* The scripts.                                                            *)

LEMMA LengthOf ==
    ASSUME NEW s, NEW n \in Nat, s = [k \in 1..n |-> s[k]]
    PROVE  Len(s) = n /\ DOMAIN s = 1..n /\ s \in Seq({s[k] : k \in 1..n})
<1> DEFINE S == {s[k] : k \in 1..n}
<1>1. s \in [1..n -> S]
  OBVIOUS
<1> HIDE DEF S
<1>2. s \in Seq(S)
  BY <1>1
<1>3. DOMAIN s = 1..n /\ DOMAIN s = 1..Len(s) /\ Len(s) \in Nat
  BY <1>1, <1>2
<1>4. Len(s) = n
  BY <1>2, <1>3
<1> QED
  BY <1>2, <1>3, <1>4 DEF S

LEMMA TaskSet ==
    ASSUME ScriptsOK, NEW k \in DOMAIN scripts, NEW a, NEW d,
           scripts' = [scripts EXCEPT ![k] = [at |-> a, todo |-> d]]
    PROVE  /\ ScriptsOK' /\ Latest' = Latest /\ k \in 1..Latest
           /\ \A j \in 1..Latest :
                 scripts'[j] = IF j = k THEN [at |-> a, todo |-> d]
                                        ELSE scripts[j]
<1> DEFINE n == Len(scripts)
<1>1. n \in Nat \ {0} /\ DOMAIN scripts = 1..n
      /\ \A j \in 1..n :
            scripts[j] = [at |-> scripts[j].at, todo |-> scripts[j].todo]
  <2>1. n \in Nat \ {0}
        /\ scripts = [j \in 1..n |->
                         [at |-> scripts[j].at, todo |-> scripts[j].todo]]
    BY DEF ScriptsOK
  <2> HIDE DEF n
  <2> QED
    BY <2>1
<1> HIDE DEF n
<1>2. \A j \in 1..n : scripts'[j] = IF j = k THEN [at |-> a, todo |-> d]
                                             ELSE scripts[j]
  BY <1>1
<1>3. scripts' = [j \in 1..n |-> scripts'[j]]
  BY <1>1
<1>4. Len(scripts') = n
  BY <1>1, <1>3, LengthOf
<1>5. \A j \in 1..n :
         scripts'[j] = [at |-> scripts'[j].at, todo |-> scripts'[j].todo]
  BY <1>1, <1>2
<1>6. scripts' = [j \in 1..n |->
                    [at |-> scripts'[j].at, todo |-> scripts'[j].todo]]
  BY <1>3, <1>5
<1> QED
  BY <1>1, <1>2, <1>4, <1>6 DEF ScriptsOK, Latest, n

LEMMA GoSets ==
    ASSUME ScriptsOK, NEW k \in DOMAIN scripts, NEW a, Go(k, a)
    PROVE  scripts' = [scripts EXCEPT
                          ![k] = [at |-> a, todo |-> scripts[k].todo]]
<1>1. scripts[k] = [at |-> scripts[k].at, todo |-> scripts[k].todo]
  BY DEF ScriptsOK
<1>2. [scripts[k] EXCEPT !.at = a] = [at |-> a, todo |-> scripts[k].todo]
  BY <1>1
<1>3. scripts' = [scripts EXCEPT ![k] = [scripts[k] EXCEPT !.at = a]]
  BY DEF Go
<1> QED
  BY <1>2, <1>3

(* What all steps of a script have in common.                              *)
LEMMA ScriptGoes ==
    ASSUME RotationInv, NEW k \in DOMAIN scripts, Running(k),
           NEW a, NEW d,
           scripts' = [scripts EXCEPT ![k] = [at |-> a, todo |-> d]],
           UNCHANGED <<waiting, batches>>, trouble \subseteq trouble',
           /\ Calm /\ Latest \in Nat \ {0} /\ Latest <= Base + 1
           /\ k = Latest /\ waiting /\ Latest' = Latest
           /\ At' = a /\ scripts'[Latest].todo = d
           /\ trouble' = {}
           => Directories' /\ Place' /\ Kept'
    PROVE  RotationInv'
<1>1. /\ ScriptsOK' /\ Latest' = Latest /\ k \in 1..Latest
      /\ \A j \in 1..Latest :
            scripts'[j] = IF j = k THEN [at |-> a, todo |-> d] ELSE scripts[j]
  <2>1. ScriptsOK
    BY DEF RotationInv
  <2>2. scripts' = [scripts EXCEPT ![k] = [at |-> a, todo |-> d]]
    OBVIOUS
  <2>3. /\ ScriptsOK' /\ Latest' = Latest /\ k \in 1..Latest
    BY <2>1, <2>2, TaskSet
  <2>4. \A j \in 1..Latest :
            scripts'[j] = IF j = k THEN [at |-> a, todo |-> d] ELSE scripts[j]
    BY <2>1, <2>2, TaskSet
  <2> QED
    BY <2>3, <2>4
<1>2. SUFFICES ASSUME trouble' = {}, Latest <= Base + 1
               PROVE  Calm'
  BY <1>1, <1>2 DEF RotationInv
<1>3. Latest \in Nat \ {0}
  BY DEF RotationInv, ScriptsOK, Latest
<1>4. Calm
  BY <1>2 DEF RotationInv
<1>5. k = Latest /\ waiting
  BY <1>1, <1>4 DEF Calm
<1>6. At' = a /\ scripts'[Latest].todo = d
  BY <1>1, <1>3, <1>5 DEF At
<1>7. Directories' /\ Place' /\ Kept'
  BY <1>1, <1>2, <1>3, <1>4, <1>5, <1>6
<1>8. \A j \in 1..Latest : Running(j)' => j = Latest
  BY <1>1, <1>4, <1>5 DEF Calm, Running
<1> QED
  BY <1>1, <1>4, <1>5, <1>7, <1>8 DEF Calm

-----------------------------------------------------------------------------
(* The steps.                                                              *)

LEMMA TestArchiveStep ==
    ASSUME RotationAssumption, RotationInv, NEW k \in DOMAIN scripts,
           TestArchive(k)
    PROVE  RotationInv'
<1> DEFINE a == IF archive = {} THEN "tarOnly" ELSE "unpack"
           d == scripts[k].todo
<1>1. scripts' = [scripts EXCEPT ![k] = [at |-> a, todo |-> d]]
      /\ Running(k)
  BY GoSets DEF TestArchive, RotationInv, Running
<1>2. UNCHANGED <<files, archive, open, waiting, batches, foreign, trouble>>
      /\ scripts[k].at = "test"
  BY DEF TestArchive
<1>3. IF archive = {} THEN a = "tarOnly" ELSE a = "unpack"
  OBVIOUS
<1> HIDE DEF a, d
<1>4. ASSUME Calm, Latest \in Nat \ {0}, k = Latest, Latest' = Latest, At' = a
      PROVE  Directories' /\ Place' /\ Kept'
  <2>1. Directories'
    BY <1>2, <1>4 DEF Calm, Directories, IsDirectory
  <2>2. Kept'
    BY <1>2, <1>4 DEF Calm, Kept, In
  <2>3. Rolled(Latest - 2)
    BY <1>2, <1>4 DEF Calm, Place, At
  <2>4. Rolled(Latest - 2)' /\ (archive = {} => Rolled(Latest - 1)')
    BY <1>2, <1>4, <2>3 DEF Rolled
  <2>5. Running(Latest)'
    BY <1>3, <1>4 DEF Running, At
  <2> QED
    BY <1>2, <1>3, <1>4, <2>1, <2>2, <2>4, <2>5 DEF Place
<1> QED
  BY <1>1, <1>2, <1>4, ScriptGoes

LEMMA NamesDiffer ==
    ASSUME RotationAssumption, NEW num \in Nat, NEW j \in Nat,
           num <= Base, j <= Base, Name(num) = Name(j)
    PROVE  num = j
<1>1. <<num>> # <<1, 0>> /\ <<j>> # <<1, 0>>
  OBVIOUS
<1>2. <<num>> = <<j>> => num = j
  OBVIOUS
<1> QED
  BY <1>1, <1>2 DEF Name, RotationAssumption

LEMMA UnpackStep ==
    ASSUME RotationAssumption, RotationInv,
           NEW k \in DOMAIN scripts, Unpack(k)
    PROVE  RotationInv'
<1> DEFINE d == scripts[k].todo
<1>1. scripts' = [scripts EXCEPT ![k] = [at |-> "rmTar", todo |-> d]]
      /\ Running(k)
  BY GoSets DEF Unpack, RotationInv, Running
<1>2. UNCHANGED <<archive, waiting, batches, foreign, trouble>>
      /\ scripts[k].at = "unpack"
  BY DEF Unpack
<1> HIDE DEF d
<1>4. ASSUME Calm, Latest \in Nat \ {0}, Latest <= Base + 1,
             k = Latest, waiting, Latest' = Latest, At' = "rmTar"
      PROVE  Directories' /\ Place' /\ Kept'
  <2>1. Rolled(Latest - 2) /\ Directories /\ Kept
    BY <1>2, <1>4 DEF Calm, Place, At
  <2>2. Running(Latest)'
    BY <1>4 DEF Running, At
  <2>5. archive # {}
    BY <1>2, <1>4 DEF Calm, Place, At
  <2>3. log0 \in Names(0, Latest - 2)
    BY <1>4, <2>1, <2>5
    DEF Rolled, log0, Name, Names, RotationAssumption
  <2>4. ASSUME NEW p \in archive,
               files' = [n \in DOMAIN p \cup DOMAIN files |->
                            IF n \in DOMAIN p THEN p[n] ELSE files[n]],
               open' = open \ DOMAIN p
        PROVE  Directories' /\ Place' /\ Kept'
    <3>1. DOMAIN p \cap DOMAIN files = {}
      <4> SUFFICES ASSUME NEW num \in 1..(Latest - 2), Name(num) = log0
                   PROVE  FALSE
        BY <2>1 DEF Rolled, Names
      <4>1. Name(0) = log0
        BY DEF Name, log0, RotationAssumption
      <4>2. num \in Nat /\ num <= Base /\ 0 <= Base /\ num # 0
        BY <1>4 DEF RotationAssumption
      <4> QED
        BY <4>1, <4>2, NamesDiffer
    <3>2. /\ \A n \in DOMAIN p : n \in DOMAIN files' /\ files'[n] = p[n]
          /\ \A n \in DOMAIN files :
                n \in DOMAIN files' /\ files'[n] = files[n]
          /\ DOMAIN files' = DOMAIN p \cup DOMAIN files
      BY <2>4, <3>1
    <3>3. IsDirectory(p) /\ IsDirectory(files) /\ \A e \in archive : e = p
      BY <2>1 DEF Directories
    <3>4. Directories'
      <4>1. IsDirectory(files)'
        BY <2>4, <3>2, <3>3 DEF IsDirectory
      <4> QED
        BY <1>2, <1>4, <2>1, <2>4, <4>1 DEF Directories, IsDirectory
    <3>5. Kept'
      <4> SUFFICES ASSUME NEW b \in 1..batches PROVE In(files', b)
        BY <1>2 DEF Kept
      <4>1. In(p, b) \/ In(files, b)
        BY <2>1, <3>3 DEF Kept
      <4> QED
        BY <3>2, <4>1 DEF In
    <3>6. Unpacked'
      <4>1. /\ DOMAIN p \subseteq Names(1, Latest - 2)
            /\ DOMAIN files \subseteq {log0}
        BY <2>1 DEF Rolled
      <4>2. DOMAIN files' \subseteq Names(0, Latest - 2)
        <5>1. Names(1, Latest - 2) \subseteq Names(0, Latest - 2)
          BY <1>4 DEF Names
        <5> QED
          BY <2>3, <3>2, <4>1, <5>1
      <4> QED
        BY <1>2, <1>4, <3>2, <3>3, <4>2 DEF Unpacked
    <3> QED
      BY <1>4, <2>2, <3>4, <3>5, <3>6 DEF Place
  <2> QED
    BY <2>4, <2>5 DEF Unpack
<1> QED
  BY <1>1, <1>2, <1>4, ScriptGoes

LEMMA RmTarStep ==
    ASSUME RotationInv, NEW k \in DOMAIN scripts, RmTar(k)
    PROVE  RotationInv'
<1> DEFINE d == scripts[k].todo
<1>1. scripts' = [scripts EXCEPT ![k] = [at |-> "list", todo |-> d]]
      /\ Running(k)
  BY GoSets DEF RmTar, RotationInv, Running
<1>2. UNCHANGED <<files, open, waiting, batches, foreign, trouble>>
      /\ scripts[k].at = "rmTar" /\ archive' = {}
  BY DEF RmTar
<1> HIDE DEF d
<1>3. ASSUME Calm, k = Latest, Latest' = Latest, At' = "list"
      PROVE  Directories' /\ Place' /\ Kept'
  <2>1. Unpacked /\ Directories /\ Kept
    BY <1>2, <1>3 DEF Calm, Place, At
  <2>2. Running(Latest)'
    BY <1>3 DEF Running, At
  <2>3. Directories'
    BY <1>2, <2>1 DEF Directories, IsDirectory
  <2>4. Kept'
    <3> SUFFICES ASSUME NEW b \in 1..batches PROVE In(files, b)
      BY <1>2 DEF Kept, In
    <3>1. PICK p \in archive \cup {files} : In(p, b)
      BY <2>1 DEF Kept
    <3>2. CASE p \in archive
      BY <2>1, <3>1, <3>2 DEF In, Unpacked
    <3> QED
      BY <3>1, <3>2
  <2>5. Unpacked'
    BY <1>2, <1>3, <2>1 DEF Unpacked
  <2> QED
    BY <1>2, <1>3, <2>2, <2>3, <2>4, <2>5 DEF Place
<1> QED
  BY <1>1, <1>2, <1>3, ScriptGoes

LEMMA ListStep ==
    ASSUME RotationAssumption, RotationInv,
           NEW k \in DOMAIN scripts, List(k)
    PROVE  RotationInv'
<1> DEFINE todo == Listed(DOMAIN files)
<1>1. scripts' = [scripts EXCEPT ![k] = [at |-> "rename", todo |-> todo]]
      /\ Running(k)
  BY DEF List, Running
<1>2. UNCHANGED <<files, archive, open, waiting, batches, foreign, trouble>>
      /\ scripts[k].at = "list"
  BY DEF List
<1>3. ASSUME Calm, Latest \in Nat \ {0}, Latest <= Base + 1, k = Latest,
             Latest' = Latest, At' = "rename", scripts'[Latest].todo = todo
      PROVE  Directories' /\ Place' /\ Kept'
  <2>1. Unpacked /\ archive = {} /\ Directories /\ Kept
    BY <1>2, <1>3 DEF Calm, Place, At
  <2>2. Running(Latest)'
    BY <1>3 DEF Running, At
  <2>3. Directories' /\ Kept'
    BY <1>2, <2>1 DEF Directories, IsDirectory, Kept, In
  <2>4. ASSUME NEW n \in DOMAIN files
        PROVE  n[1] \in 0..(Latest - 2) /\ n = <<n[1]>>
    <3>1. PICK num \in 0..(Latest - 2) : n = Name(num)
      BY <2>1 DEF Unpacked, Names
    <3>2. n = <<num>>
      BY <1>3, <3>1 DEF Name, RotationAssumption
    <3> QED
      BY <3>2
  <2>5. IsFiniteSet(DOMAIN files)
    <3> DEFINE digit == [n \in DOMAIN files |-> n[1]]
    <3>1. IsFiniteSet(0..(Latest - 2))
      BY <1>3, FS_Interval
    <3>2. digit \in Injection(DOMAIN files, 0..(Latest - 2))
      BY <2>4 DEF Injection, IsInjective
    <3> HIDE DEF digit
    <3> QED
      BY <3>1, <3>2, FS_Injection
  <2>6. /\ Len(todo) \in Nat /\ todo = [j \in 1..Len(todo) |-> todo[j]]
        /\ \A j \in 1..Len(todo) : todo[j] \in DOMAIN files
        /\ \A n \in DOMAIN files : \E j \in 1..Len(todo) : todo[j] = n
        /\ \A num, j \in 1..Len(todo) : num < j => todo[j][1] < todo[num][1]
    <3>1. \A n \in DOMAIN files : n[1] \in Int /\ n = <<n[1]>>
      BY <2>4
    <3> QED
      BY <2>5, <3>1, ListedDescends
  <2> HIDE DEF todo
  <2>7. Renaming(scripts[Latest].todo)'
    BY <1>2, <1>3, <2>4, <2>6 DEF Renaming
  <2> QED
    BY <1>2, <1>3, <2>1, <2>2, <2>3, <2>7 DEF Place
<1> HIDE DEF todo
<1> QED
  BY <1>1, <1>2, <1>3, ScriptGoes

LEMMA RenamedIs ==
    ASSUME RotationAssumption, NEW num \in Nat, num < Base
    PROVE  Renamed(<<num>>) = Name(num + 1)
<1> DEFINE s == <<num>>
<1>1. s \in Seq(Nat) /\ Len(s) = 1 /\ s[1] = num
  OBVIOUS
<1> HIDE DEF s
<1>2. Front(s) = <<>> /\ Last(s) = num
  BY <1>1 DEF Front, Last
<1>3. \A t \in Seq(Nat) : <<>> \o t = t
  OBVIOUS
<1>4. Renamed(s) = IF num + 1 = Base THEN <<1, 0>> ELSE <<num + 1>>
  BY <1>2, <1>3 DEF Renamed
<1> QED
  BY <1>4 DEF s, Name, RotationAssumption

LEMMA TarStep ==
    ASSUME RotationInv, NEW k \in DOMAIN scripts, Tar(k)
    PROVE  RotationInv'
<1> DEFINE d == scripts[k].todo
<1>1. scripts' = [scripts EXCEPT ![k] = [at |-> "rmLogs", todo |-> d]]
      /\ Running(k)
  BY GoSets DEF Tar, RotationInv, Running
<1>2. UNCHANGED <<files, open, waiting, batches, foreign, trouble>>
      /\ scripts[k].at = "rename" /\ scripts[k].todo = <<>>
      /\ archive' = {files}
  BY DEF Tar
<1> HIDE DEF d
<1>3. ASSUME Calm, Latest \in Nat \ {0}, k = Latest, Latest' = Latest,
             At' = "rmLogs"
      PROVE  Directories' /\ Place' /\ Kept'
  <2>1. Renaming(<<>>) /\ archive = {} /\ Directories /\ Kept
    BY <1>2, <1>3 DEF Calm, Place, At
  <2>2. Running(Latest)'
    BY <1>3 DEF Running, At
  <2>3. Directories' /\ Kept'
    BY <1>2, <2>1 DEF Directories, IsDirectory, Kept, In
  <2>4. DOMAIN files \subseteq Names(1, Latest - 1)
    BY <2>1 DEF Renaming, Names
  <2> QED
    BY <1>2, <1>3, <2>2, <2>3, <2>4 DEF Place
<1> QED
  BY <1>1, <1>2, <1>3, ScriptGoes

LEMMA RmLogsStep ==
    ASSUME RotationInv, NEW k \in DOMAIN scripts, RmLogs(k)
    PROVE  RotationInv'
<1> DEFINE d == scripts[k].todo
<1>1. scripts' = [scripts EXCEPT ![k] = [at |-> "ended", todo |-> d]]
      /\ Running(k)
  BY GoSets DEF RmLogs, RotationInv, Running
<1>2. UNCHANGED <<archive, waiting, batches, foreign, trouble>>
      /\ scripts[k].at = "rmLogs" /\ files' = NoFiles
      /\ open' = open \ DOMAIN files
  BY DEF RmLogs
<1> HIDE DEF d
<1>3. ASSUME Calm, Latest \in Nat \ {0}, k = Latest, waiting, Latest' = Latest,
             At' = "ended"
      PROVE  Directories' /\ Place' /\ Kept'
  <2>1. /\ archive = {files} /\ DOMAIN files \subseteq Names(1, Latest - 1)
        /\ Directories /\ Kept
    BY <1>2, <1>3 DEF Calm, Place, At
  <2>2. IsDirectory(NoFiles) /\ DOMAIN NoFiles = {}
    BY DEF IsDirectory, NoFiles
  <2>3. Directories'
    BY <1>2, <1>3, <2>1, <2>2 DEF Directories, IsDirectory
  <2>4. Kept'
    BY <1>2, <2>1 DEF Kept, In
  <2>5. Rolled(Latest - 1)'
    BY <1>2, <1>3, <2>1, <2>2 DEF Rolled
  <2> QED
    BY <1>3, <2>3, <2>4, <2>5 DEF Place
<1> QED
  BY <1>1, <1>2, <1>3, ScriptGoes

LEMMA TarOnlyStep ==
    ASSUME RotationInv, NEW k \in DOMAIN scripts, TarOnly(k)
    PROVE  RotationInv'
<1> DEFINE d == scripts[k].todo
<1>1. scripts' = [scripts EXCEPT ![k] = [at |-> "ended", todo |-> d]]
      /\ Running(k)
  BY GoSets DEF TarOnly, RotationInv, Running
<1>2. /\ UNCHANGED <<files, open, waiting, batches, foreign>>
      /\ scripts[k].at = "tarOnly" /\ archive' = {files}
      /\ trouble \subseteq trouble'
      /\ trouble' = {} => DOMAIN files = {}
  BY DEF TarOnly
<1> HIDE DEF d
<1>3. ASSUME Calm, Latest \in Nat \ {0}, k = Latest, waiting, Latest' = Latest,
             At' = "ended", trouble' = {}
      PROVE  Directories' /\ Place' /\ Kept'
  <2>1. archive = {} /\ Directories /\ Kept /\ DOMAIN files = {}
    BY <1>2, <1>3 DEF Calm, Place, At
  <2>2. Directories' /\ Kept'
    BY <1>2, <2>1 DEF Directories, IsDirectory, Kept, In
  <2>3. Rolled(Latest - 1)'
    BY <1>2, <1>3, <2>1 DEF Rolled
  <2> QED
    BY <1>3, <2>2, <2>3 DEF Place
<1> QED
  BY <1>1, <1>2, <1>3, ScriptGoes

LEMMA TodoSet ==
    ASSUME NEW c, NEW x, c = [at |-> c.at, todo |-> c.todo]
    PROVE  [c EXCEPT !.todo = x] = [at |-> c.at, todo |-> x]
  OBVIOUS

LEMMA RestOf ==
    ASSUME NEW s, Len(s) \in Nat, s = [k \in 1..Len(s) |-> s[k]], s # <<>>
    PROVE  /\ Len(s) \in Nat \ {0} /\ Head(s) = s[1]
           /\ Len(Tail(s)) = Len(s) - 1
           /\ Tail(s) = [k \in 1..(Len(s) - 1) |-> Tail(s)[k]]
           /\ \A k \in 1..(Len(s) - 1) : Tail(s)[k] = s[k + 1]
<1> DEFINE S == {s[k] : k \in 1..Len(s)}
           r == Tail(s)
<1>1. s \in Seq(S)
  BY LengthOf
<1> HIDE DEF S
<1>2. Len(s) # 0
  BY <1>1
<1>3. r \in Seq(S) /\ Len(r) = Len(s) - 1
  BY <1>1, <1>2
<1>4. r = [k \in 1..Len(r) |-> r[k]]
  <2> HIDE DEF r
  <2> QED
    BY <1>3
<1>5. Head(s) = s[1] /\ \A k \in 1..(Len(s) - 1) : r[k] = s[k + 1]
  BY <1>1, <1>2
<1> QED
  BY <1>2, <1>3, <1>4, <1>5

LEMMA RenameStep ==
    ASSUME RotationAssumption, RotationInv,
           NEW k \in DOMAIN scripts, Rename(k)
    PROVE  RotationInv'
<1> DEFINE todo == scripts[k].todo
           rest == Tail(todo)
           from == Head(todo)
           to == Renamed(from)
<1>1. scripts' = [scripts EXCEPT ![k] = [at |-> "rename", todo |-> rest]]
      /\ Running(k)
  <2>1. scripts[k] = [at |-> scripts[k].at, todo |-> scripts[k].todo]
    BY DEF RotationInv, ScriptsOK
  <2>2. /\ scripts[k].at = "rename"
        /\ scripts' = [scripts EXCEPT
                          ![k] = [scripts[k] EXCEPT
                                     !.todo = Tail(scripts[k].todo)]]
    BY DEF Rename
  <2>3. [scripts[k] EXCEPT !.todo = Tail(scripts[k].todo)]
            = [at |-> scripts[k].at, todo |-> rest]
    BY <2>1, TodoSet
  <2> QED
    BY <2>2, <2>3 DEF Running
<1>2. /\ UNCHANGED <<archive, waiting, batches, foreign, trouble>>
      /\ scripts[k].at = "rename" /\ todo # <<>>
      /\ IF from \in DOMAIN files
         THEN /\ files' = [n \in (DOMAIN files \ {from}) \cup {to} |->
                              IF n = to THEN files[from] ELSE files[n]]
              /\ open' = (open \ {from, to})
                             \cup (IF from \in open THEN {to} ELSE {})
         ELSE UNCHANGED <<files, open>>
  BY DEF Rename
<1> HIDE DEF todo, rest, from, to
<1>3. ASSUME Calm, Latest \in Nat \ {0}, Latest <= Base + 1, k = Latest,
             waiting, Latest' = Latest, At' = "rename",
             scripts'[Latest].todo = rest
      PROVE  Directories' /\ Place' /\ Kept'
  <2>1. Renaming(todo) /\ archive = {} /\ Directories /\ Kept
    BY <1>2, <1>3 DEF Calm, Place, At, todo
  <2>2. Running(Latest)'
    BY <1>3 DEF Running, At
  <2>3. /\ Len(todo) \in Nat \ {0} /\ from = todo[1]
        /\ Len(rest) = Len(todo) - 1
        /\ rest = [j \in 1..(Len(todo) - 1) |-> rest[j]]
        /\ \A j \in 1..(Len(todo) - 1) : rest[j] = todo[j + 1]
    <3>1. Len(todo) \in Nat /\ todo = [j \in 1..Len(todo) |-> todo[j]]
      BY <2>1 DEF Renaming
    <3> QED
      BY <1>2, <3>1, RestOf DEF from, rest
  <2>4. PICK num \in 0..(Latest - 2) : from = <<num>> /\ num = from[1]
    BY <2>1, <2>3 DEF Renaming
  <2>5. to = Name(num + 1) /\ num + 1 \in 1..(Latest - 1) /\ num + 1 <= Base
    BY <1>3, <2>4, RenamedIs DEF to, RotationAssumption
  <2>12. \A j \in 1..Len(todo) :
            /\ todo[j][1] \in 0..(Latest - 2) /\ todo[j] = <<todo[j][1]>>
            /\ j # 1 => todo[j][1] < num
    <3>1. ASSUME NEW j \in 1..Len(todo), j # 1
          PROVE  todo[j][1] < todo[1][1]
      <4>1. 1 \in 1..Len(todo) /\ 1 < j
        BY <2>3, <3>1
      <4> QED
        BY <2>1, <4>1 DEF Renaming
    <3> QED
      BY <2>1, <2>3, <2>4, <3>1 DEF Renaming
  <2>6. \A j \in 1..Len(rest) : rest[j][1] \in 0..(Latest - 2)
                                /\ rest[j] = <<rest[j][1]>> /\ rest[j][1] < num
    <3> SUFFICES ASSUME NEW j \in 1..Len(rest)
                 PROVE  rest[j][1] \in 0..(Latest - 2)
                        /\ rest[j] = <<rest[j][1]>> /\ rest[j][1] < num
      OBVIOUS
    <3>1. j + 1 \in 1..Len(todo) /\ j + 1 # 1 /\ rest[j] = todo[j + 1]
      BY <2>3
    <3> QED
      BY <2>12, <3>1
  <2>7. to \notin DOMAIN files
    <3>1. ASSUME NEW j \in 1..Len(todo) PROVE to # todo[j]
      <4>1. todo[j][1] \in Nat /\ todo[j][1] <= num /\ todo[j] = <<todo[j][1]>>
        <5>1. todo[j][1] \in 0..(Latest - 2) /\ todo[j] = <<todo[j][1]>>
              /\ (j # 1 => todo[j][1] < num) /\ todo[1][1] = num
          BY <2>3, <2>4, <2>12
        <5> QED
          BY <5>1
      <4>2. todo[j][1] < Base /\ Name(todo[j][1]) = todo[j]
        BY <1>3, <2>4, <4>1 DEF Name, RotationAssumption
      <4> QED
        BY <2>4, <2>5, <4>1, <4>2, NamesDiffer DEF RotationAssumption
    <3>2. ASSUME NEW h \in 1..(Latest - 1), num + 1 < h PROVE to # Name(h)
      BY <1>3, <2>4, <2>5, <3>2, NamesDiffer DEF RotationAssumption
    <3>3. 1 \in 1..Len(todo) /\ todo[1][1] = num
      BY <2>3, <2>4
    <3> QED
      BY <2>1, <3>1, <3>2, <3>3 DEF Renaming
  <2>8. /\ DOMAIN files' \subseteq (DOMAIN files \ {from}) \cup {to}
        /\ \A n \in DOMAIN files \ {from} :
              n \in DOMAIN files' /\ files'[n] = files[n]
        /\ from \in DOMAIN files =>
              to \in DOMAIN files' /\ files'[to] = files[from]
        /\ to \in DOMAIN files' => from \in DOMAIN files
        /\ IsDirectory(files)'
    BY <1>2, <2>1, <2>7 DEF Directories, IsDirectory
  <2>9. Directories'
    BY <1>2, <1>3, <2>1, <2>8 DEF Directories
  <2>10. Kept'
    BY <1>2, <2>1, <2>8 DEF Kept, In
  <2>11. Renaming(scripts[Latest].todo)'
    <3>1. ASSUME NEW h \in 1..Len(rest), NEW j \in 1..Len(rest), h < j
          PROVE  rest[j][1] < rest[h][1]
      <4>1. ASSUME NEW l \in 1..Len(rest)
            PROVE  l + 1 \in 1..Len(todo) /\ rest[l] = todo[l + 1]
        BY <2>3
      <4>2. h + 1 < j + 1
        BY <2>3, <3>1
      <4> QED
        BY <2>1, <4>1, <4>2 DEF Renaming
    <3>2. ASSUME NEW n \in DOMAIN files'
          PROVE  \/ \E j \in 1..Len(rest) : n = rest[j]
                 \/ \E h \in 1..(Latest - 1) :
                       /\ n = Name(h)
                       /\ \A j \in 1..Len(rest) : rest[j][1] + 1 < h
      <4>1. CASE n = to
        <5>1. \A j \in 1..Len(rest) : rest[j][1] + 1 < num + 1
          BY <2>4, <2>6
        <5> QED
          BY <2>5, <4>1, <5>1
      <4>2. ASSUME n \in DOMAIN files, n # from,
                   NEW j \in 1..Len(todo), n = todo[j]
            PROVE  \E l \in 1..Len(rest) : n = rest[l]
        <5>1. j - 1 \in 1..Len(rest) /\ rest[j - 1] = todo[(j - 1) + 1]
          BY <2>3, <4>2
        <5>2. (j - 1) + 1 = j
          OBVIOUS
        <5> QED
          BY <4>2, <5>1, <5>2
      <4>3. ASSUME NEW h \in 1..(Latest - 1),
                   \A j \in 1..Len(todo) : todo[j][1] + 1 < h
            PROVE  \A j \in 1..Len(rest) : rest[j][1] + 1 < h
        <5> SUFFICES ASSUME NEW j \in 1..Len(rest) PROVE rest[j][1] + 1 < h
          OBVIOUS
        <5>1. j + 1 \in 1..Len(todo) /\ rest[j] = todo[j + 1]
          BY <2>3
        <5> QED
          BY <4>3, <5>1
      <4>4. n = to \/ (n \in DOMAIN files /\ n # from)
        BY <1>2, <2>8
      <4> QED
        BY <2>1, <4>1, <4>2, <4>3, <4>4 DEF Renaming
    <3>3. Len(rest) \in Nat /\ rest = [j \in 1..Len(rest) |-> rest[j]]
      BY <2>3
    <3> QED
      BY <1>3, <2>6, <3>1, <3>2, <3>3 DEF Renaming
  <2> QED
    BY <1>2, <1>3, <2>1, <2>2, <2>9, <2>10, <2>11 DEF Place
<1> QED
  BY <1>1, <1>2, <1>3, ScriptGoes

LEMMA InitRotation == RotationAssumption /\ RollInit => RotationInv
<1> SUFFICES ASSUME RotationAssumption, RollInit PROVE RotationInv
  OBVIOUS
<1>1. PICK c \in Children : scripts = <<c>>
  BY DEF RollInit
<1>2. c = [at |-> c.at, todo |-> c.todo] /\ c.at \in {"test", "ended"}
  BY DEF Children
<1>3. Len(scripts) = 1 /\ scripts[1] = c /\ DOMAIN scripts = 1..1
      /\ scripts = [k \in 1..1 |-> scripts[k]]
  BY <1>1
<1>4. ScriptsOK
  <2>1. \A k \in 1..1 :
           scripts[k] = [at |-> scripts[k].at, todo |-> scripts[k].todo]
    BY <1>2, <1>3
  <2>2. scripts = [k \in 1..1 |->
                     [at |-> scripts[k].at, todo |-> scripts[k].todo]]
    BY <1>3, <2>1
  <2> QED
    BY <1>3, <2>2 DEF ScriptsOK
<1>5. /\ files = NoFiles /\ archive = {} /\ waiting = TRUE /\ open = {}
      /\ batches = 0
  BY DEF RollInit
<1>6. DOMAIN NoFiles = {} /\ IsDirectory(NoFiles)
  BY DEF NoFiles, IsDirectory
<1>7. Directories
  BY <1>5, <1>6 DEF Directories
<1>8. Rolled(0) /\ Rolled(-1)
  BY <1>5, <1>6 DEF Rolled
<1>9. Place
  BY <1>2, <1>3, <1>8 DEF Place, At, Latest
<1>10. Kept
  BY <1>5 DEF Kept
<1>11. \A k \in 1..Latest : Running(k) => k = Latest /\ waiting
  BY <1>3, <1>5 DEF Latest
<1> QED
  BY <1>4, <1>5, <1>7, <1>9, <1>10, <1>11 DEF RotationInv, Calm

LEMMA WriteStep ==
    ASSUME RotationInv, WriteBatch
    PROVE  RotationInv'
<1>1. /\ UNCHANGED <<waiting, archive, open, scripts, foreign, trouble>>
      /\ ~waiting /\ batches' = batches + 1
      /\ files' = [n \in DOMAIN files |->
                      IF n \in open THEN Append(files[n], batches')
                                    ELSE files[n]]
  BY DEF WriteBatch
<1>2. ScriptsOK' /\ Latest' = Latest /\ At' = At /\ Latest \in Nat \ {0}
  BY <1>1 DEF RotationInv, ScriptsOK, Latest, At
<1> SUFFICES ASSUME Calm PROVE Calm'
  BY <1>1, <1>2 DEF RotationInv
<1>4. \A k \in 1..Latest : ~ Running(k) /\ ~ Running(k)'
  BY <1>1 DEF Calm, Running
<1>5. /\ batches \in Nat /\ IsDirectory(files)
      /\ open = {log0} /\ log0 \in DOMAIN files
  BY <1>1 DEF Calm, Directories
<1>6. ASSUME NEW n \in DOMAIN files
      PROVE  /\ n \in DOMAIN files' /\ files'[n] \in Seq(Nat)
             /\ \A j \in DOMAIN files[n] :
                   j \in DOMAIN files'[n] /\ files'[n][j] = files[n][j]
             /\ n = log0 =>
                   \E j \in DOMAIN files'[n] : files'[n][j] = batches + 1
  <2>1. files[n] \in Seq(Nat) /\ batches + 1 \in Nat
    BY <1>5 DEF IsDirectory
  <2>2. CASE n = log0
    <3>1. files'[n] = Append(files[n], batches + 1)
      BY <1>1, <1>5, <2>2
    <3>2. Len(files[n]) + 1 \in DOMAIN Append(files[n], batches + 1)
      BY <2>1
    <3> QED
      BY <1>1, <2>1, <3>1, <3>2
  <2> QED
    BY <1>1, <1>5, <2>1, <2>2
<1>7. Directories'
  <2>1. IsDirectory(files)'
    BY <1>1, <1>6 DEF IsDirectory
  <2> QED
    BY <1>1, <1>5, <2>1 DEF Calm, Directories, IsDirectory
<1>8. Kept'
  <2> SUFFICES ASSUME NEW b \in 1..batches'
               PROVE  \E d \in archive \cup {files'} : In(d, b)
    BY <1>1 DEF Kept
  <2>1. CASE b = batches + 1
    BY <1>5, <1>6, <2>1 DEF In
  <2>2. CASE b # batches + 1
    <3>1. b \in 1..batches
      BY <1>1, <1>5, <2>2
    <3>2. PICK d \in archive \cup {files} : In(d, b)
      BY <3>1 DEF Calm, Kept
    <3> QED
      BY <1>6, <3>2 DEF In
  <2> QED
    BY <2>1, <2>2
<1>9. Place'
  <2>1. Latest \in 1..Latest
    BY <1>2
  <2>2. Rolled(Latest - 1)
    BY <1>4, <2>1 DEF Calm, Place
  <2>3. Rolled(Latest - 1)' /\ ~ Running(Latest)'
    BY <1>1, <1>2, <1>4, <2>1, <2>2 DEF Rolled
  <2> QED
    BY <1>2, <2>3 DEF Place, Running, At
<1> QED
  BY <1>1, <1>2, <1>4, <1>5, <1>7, <1>8, <1>9 DEF Calm

LEMMA AppendIs ==
    ASSUME NEW S, NEW s \in Seq(S), NEW c \in S
    PROVE  /\ Len(Append(s, c)) = Len(s) + 1
           /\ Append(s, c)[Len(s) + 1] = c
           /\ \A k \in 1..Len(s) : Append(s, c)[k] = s[k]
           /\ Append(s, c) = [k \in 1..(Len(s) + 1) |-> Append(s, c)[k]]
<1> DEFINE t == Append(s, c)
<1>1. t \in Seq(S) /\ Len(t) = Len(s) + 1
  OBVIOUS
<1>2. t[Len(s) + 1] = c /\ \A k \in 1..Len(s) : t[k] = s[k]
  OBVIOUS
<1> HIDE DEF t
<1>3. t = [k \in 1..Len(t) |-> t[k]]
  BY <1>1
<1> QED
  BY <1>1, <1>2, <1>3 DEF t

(* A roll adds a script; the end of a wait takes nothing back.             *)
LEMMA Forked ==
    ASSUME ScriptsOK, NEW c \in Children, scripts' = Append(scripts, c)
    PROVE  /\ ScriptsOK' /\ Latest \in Nat \ {0} /\ Latest' = Latest + 1
           /\ At' = c.at /\ c.at \in {"test", "ended"}
           /\ \A k \in 1..Latest : scripts'[k] = scripts[k]
<1>2. c = [at |-> c.at, todo |-> c.todo] /\ c.at \in {"test", "ended"}
  BY DEF Children
<1> DEFINE n == Len(scripts)
<1>4. /\ n \in Nat \ {0} /\ DOMAIN scripts = 1..n
      /\ \A k \in 1..n :
            scripts[k] = [at |-> scripts[k].at, todo |-> scripts[k].todo]
      /\ scripts \in Seq({scripts[k] : k \in 1..n})
  <2>1. n \in Nat \ {0}
        /\ scripts = [k \in 1..n |->
                         [at |-> scripts[k].at, todo |-> scripts[k].todo]]
    BY DEF ScriptsOK
  <2>2. scripts = [k \in 1..n |-> scripts[k]]
    <3> HIDE DEF n
    <3> QED
      BY <2>1
  <2> QED
    BY <2>1, <2>2, LengthOf
<1>5. /\ Len(scripts') = n + 1 /\ scripts'[n + 1] = c
      /\ \A k \in 1..n : scripts'[k] = scripts[k]
      /\ scripts' = [k \in 1..(n + 1) |-> scripts'[k]]
  <2> DEFINE S == {scripts[k] : k \in 1..n} \cup {c}
  <2>1. scripts \in Seq(S) /\ c \in S
    BY <1>4
  <2> HIDE DEF S
  <2> QED
    BY <2>1, AppendIs
<1> HIDE DEF n
<1>6. ScriptsOK'
  <2>1. \A k \in 1..(n + 1) :
           scripts'[k] = [at |-> scripts'[k].at, todo |-> scripts'[k].todo]
    BY <1>2, <1>4, <1>5
  <2>2. scripts' = [k \in 1..(n + 1) |->
                      [at |-> scripts'[k].at, todo |-> scripts'[k].todo]]
    BY <1>5, <2>1
  <2> QED
    BY <1>4, <1>5, <2>2 DEF ScriptsOK
<1> QED
  BY <1>2, <1>4, <1>5, <1>6 DEF Latest, At, n

LEMMA Waited ==
    ASSUME ScriptsOK, WaitReturns
    PROVE  /\ ScriptsOK' /\ Latest' = Latest
           /\ Latest \in Nat \ {0} /\ DOMAIN scripts = 1..Latest
           /\ \A k \in 1..Latest : ~ Running(k) => ~ Running(k)'
<1>1. CASE UNCHANGED scripts
  BY <1>1 DEF ScriptsOK, Latest, Running
<1>2. ASSUME NEW k \in DOMAIN scripts, Go(k, "collected")
      PROVE  /\ ScriptsOK' /\ Latest' = Latest
             /\ \A j \in 1..Latest : ~ Running(j) => ~ Running(j)'
  <2> DEFINE d == scripts[k].todo
  <2>2. scripts' = [scripts EXCEPT ![k] = [at |-> "collected", todo |-> d]]
    BY <1>2, GoSets
  <2> HIDE DEF d
  <2>3. ScriptsOK' /\ Latest' = Latest
    BY <2>2, TaskSet
  <2>4. \A j \in 1..Latest :
           scripts'[j] = IF j = k THEN [at |-> "collected", todo |-> d]
                                  ELSE scripts[j]
    BY <2>2, TaskSet
  <2> QED
    BY <2>3, <2>4 DEF Running
<1>3. Latest \in Nat \ {0} /\ DOMAIN scripts = 1..Latest
  BY DEF ScriptsOK, Latest
<1> QED
  BY <1>1, <1>2, <1>3 DEF WaitReturns

LEMMA Opened ==
    ASSUME IsDirectory(files), OpenLog
    PROVE  /\ DOMAIN files' = DOMAIN files \cup {log0}
           /\ \A n \in DOMAIN files : files'[n] = files[n]
           /\ log0 \notin DOMAIN files => files'[log0] = <<>>
           /\ IsDirectory(files)'
<1>1. CASE log0 \in DOMAIN files
  BY <1>1 DEF OpenLog, IsDirectory
<1>2. CASE log0 \notin DOMAIN files
  <2>1. /\ DOMAIN files' = DOMAIN files \cup {log0}
        /\ \A n \in DOMAIN files : files'[n] = files[n]
        /\ files'[log0] = <<>>
    BY <1>2 DEF OpenLog
  <2>2. files' = [n \in DOMAIN files' |-> files'[n]]
    BY <1>2 DEF OpenLog
  <2>3. <<>> \in Seq(Nat)
    OBVIOUS
  <2> QED
    BY <1>2, <2>1, <2>2, <2>3 DEF IsDirectory
<1> QED
  BY <1>1, <1>2

LEMMA rollFileStep ==
    ASSUME RotationAssumption, RotationInv, rollFile
    PROVE  RotationInv'
<1>1. PICK c \in Children : scripts' = Append(scripts, c)
  BY DEF rollFile
<1>3. /\ UNCHANGED <<files, archive, batches, foreign, trouble>>
      /\ ~waiting /\ waiting' = TRUE /\ open' = {}
  BY DEF rollFile
<1>7. /\ ScriptsOK' /\ Latest \in Nat \ {0} /\ Latest' = Latest + 1
      /\ At' = c.at /\ c.at \in {"test", "ended"}
      /\ \A k \in 1..Latest : scripts'[k] = scripts[k]
  BY <1>1, Forked DEF RotationInv
<1> SUFFICES ASSUME Calm PROVE Calm'
  <2>1. Latest + 1 <= Base + 1 => Latest <= Base + 1
    BY <1>7 DEF RotationAssumption
  <2> QED
    BY <1>3, <1>7, <2>1 DEF RotationInv
<1>9. \A k \in 1..Latest : ~ Running(k)
  BY <1>3 DEF Calm
<1>10. \A k \in 1..Latest' : Running(k)' => k = Latest'
  BY <1>7, <1>9 DEF Running
<1>11. Directories' /\ Kept' /\ batches' \in Nat
  BY <1>3 DEF Calm, Directories, IsDirectory, Kept, In
<1>12. Place'
  <2>1. Rolled(Latest - 1)
    <3>1. Latest \in 1..Latest
      BY <1>7
    <3> QED
      BY <1>9, <3>1 DEF Calm, Place
  <2>2. Latest' - 1 = Latest /\ Latest' - 2 = Latest - 1
    BY <1>7
  <2>3. Rolled(Latest - 1)' /\ Rolled(Latest - 2)'
    <3>1. Names(1, Latest - 1) \subseteq Names(1, Latest)
      BY <1>7 DEF Names
    <3> QED
      BY <1>3, <1>7, <2>1, <2>2, <3>1 DEF Rolled
  <2> QED
    BY <1>7, <2>3 DEF Place, Running
<1> QED
  BY <1>3, <1>7, <1>10, <1>11, <1>12 DEF Calm

LEMMA WaitReturnsStep ==
    ASSUME RotationInv, WaitReturns
    PROVE  RotationInv'
<1>1. /\ waiting' = FALSE /\ open' = {log0}
      /\ UNCHANGED <<archive, batches>>
      /\ OpenLog
      /\ trouble \subseteq trouble'
      /\ trouble' = {} => \A k \in DOMAIN scripts : ~ Running(k)
  BY DEF WaitReturns, OpenLog
<1>2. /\ ScriptsOK' /\ Latest' = Latest
      /\ \A k \in 1..Latest : ~ Running(k) => ~ Running(k)'
  BY Waited DEF RotationInv
<1>3. Latest \in Nat \ {0} /\ DOMAIN scripts = 1..Latest
  BY DEF RotationInv, ScriptsOK, Latest
<1> SUFFICES ASSUME Calm, trouble' = {} PROVE Calm'
  BY <1>1, <1>2 DEF RotationInv
<1>5. \A k \in 1..Latest : ~ Running(k) /\ ~ Running(k)'
  BY <1>1, <1>2, <1>3
<1>4. IsDirectory(files)
  BY DEF Calm, Directories
<1>6. /\ DOMAIN files' = DOMAIN files \cup {log0}
      /\ \A n \in DOMAIN files : files'[n] = files[n]
      /\ IsDirectory(files)'
  BY <1>1, <1>4, Opened
<1>7. Directories'
  BY <1>1, <1>6 DEF Calm, Directories
<1>8. Kept'
  BY <1>1, <1>6 DEF Calm, Kept, In
<1>9. Place'
  <2>1. Latest \in 1..Latest
    BY <1>3
  <2>2. Rolled(Latest - 1)
    BY <1>5, <2>1 DEF Calm, Place
  <2>3. Rolled(Latest - 1)' /\ ~ Running(Latest)'
    BY <1>1, <1>2, <1>5, <1>6, <2>1, <2>2 DEF Rolled
  <2> QED
    BY <1>2, <2>3 DEF Place, Running, At
<1> QED
  BY <1>1, <1>2, <1>5, <1>7, <1>8, <1>9 DEF Calm

LEMMA NextRotation ==
    RotationAssumption /\ RotationInv /\ [RollNext]_rollVars
        => RotationInv'
<1> SUFFICES ASSUME RotationAssumption, RotationInv,
                    [RollNext]_rollVars
             PROVE  RotationInv'
  OBVIOUS
<1>1. CASE WriteBatch
  BY <1>1, WriteStep
<1>2. CASE rollFile
  BY <1>2, rollFileStep
<1>3. CASE WaitReturns
  BY <1>3, WaitReturnsStep
<1>4. ASSUME NEW k \in DOMAIN scripts, Script(k)
      PROVE  RotationInv'
  BY <1>4, TestArchiveStep, UnpackStep, RmTarStep, ListStep, RenameStep,
     TarStep, RmLogsStep, TarOnlyStep DEF Script
<1>5. CASE UNCHANGED rollVars
  <2>1. /\ ScriptsOK => ScriptsOK'
        /\ Latest' = Latest /\ At' = At
        /\ \A k \in 1..Latest : Running(k)' <=> Running(k)
        /\ scripts' = scripts
    BY <1>5 DEF rollVars, ScriptsOK, Latest, At, Running
  <2>2. Directories => Directories'
    BY <1>5 DEF rollVars, Directories, IsDirectory
  <2>3. Kept => Kept'
    BY <1>5 DEF rollVars, Kept, In
  <2>4. ASSUME ScriptsOK, Place PROVE Place'
    <3>1. Latest \in 1..Latest
      BY <2>4 DEF ScriptsOK, Latest
    <3>2. /\ Rolled(Latest - 1)' <=> Rolled(Latest - 1)
          /\ Rolled(Latest - 2)' <=> Rolled(Latest - 2)
          /\ Unpacked' <=> Unpacked
          /\ Renaming(scripts[Latest].todo)' <=> Renaming(scripts[Latest].todo)
      BY <1>5, <2>1 DEF rollVars, Rolled, Unpacked, Renaming
    <3> QED
      BY <1>5, <2>1, <2>4, <3>1, <3>2 DEF rollVars, Place
  <2> QED
    BY <1>5, <2>1, <2>2, <2>3, <2>4 DEF rollVars, RotationInv, Calm
<1> QED
  BY <1>1, <1>2, <1>3, <1>4, <1>5 DEF RollNext, Done

(* For the first Base + 1 rolls no batch is ever without a copy, neither   *)
(* between nor during the commands of the script (jiaoben.py:13-43), if no *)
(* script was still running when rollFile() returned and the first one     *)
(* found no files.                                                         *)
THEOREM NoneLost == RollSpec => []NoBatchLost
<1>1. RotationInv => NoBatchLost
  BY DEF RotationInv, Calm, Kept, NoBatchLost, Latest
<1> QED
  BY <1>1, RotationAssumption, InitRotation, NextRotation, PTL DEF RollSpec

-----------------------------------------------------------------------------
(* Beyond the first Base + 1 rolls.                                        *)

(* The names there are: ones, and a digit behind them.                     *)
Ones(n, d) == [j \in 1..(n + 1) |-> IF j <= n THEN 1 ELSE d]
IsName(name) == \E n \in Nat : \E d \in 0..(Base - 1) : name = Ones(n, d)

Tidy(d) ==
    /\ IsDirectory(d)
    /\ IsFiniteSet(DOMAIN d)
    /\ \A n \in DOMAIN d :
          /\ IsName(n)
          /\ \A j \in DOMAIN d[n] : d[n][j] \in 1..batches

(* What is in a file of d is older than what is in one of e with a lower   *)
(* number.                                                                 *)
Ages(d, e) ==
    \A m \in DOMAIN d, n \in DOMAIN e :
        Higher(m, n) =>
            \A k \in DOMAIN d[m] : \A j \in DOMAIN e[n] : d[m][k] < e[n][j]

(* Only .log0 is next to the archive, which has older batches only.        *)
Apart ==
    /\ DOMAIN files \subseteq {log0}
    /\ \A d \in archive : log0 \notin DOMAIN d /\ Ages(d, files)

(* A file that is called .log0 is still to be renamed.                     *)
Emptying(todo) ==
    /\ Len(todo) \in Nat /\ todo = [k \in 1..Len(todo) |-> todo[k]]
    /\ log0 \in DOMAIN files => \E k \in 1..Len(todo) : todo[k] = log0

AgesPlace ==
    /\ ~ Running(Latest) \/ At \in {"test", "unpack", "tarOnly"} => Apart
    /\ At = "unpack" => archive # {}
    /\ At \in {"tarOnly", "list", "rename"} => archive = {}
    /\ At = "rename" => Emptying(scripts[Latest].todo)
    /\ At = "rmLogs" => archive = {files} /\ log0 \notin DOMAIN files

AgesDirectories ==
    /\ Tidy(files) /\ Ages(files, files)
    /\ \A d \in archive : Tidy(d) /\ Ages(d, d)
    /\ \A d, e \in archive : d = e
    /\ ~ waiting => open = {log0}

(* However often the file has been rolled.                                 *)
AgesCalm ==
    /\ \A k \in 1..Latest : Running(k) => k = Latest /\ waiting
    /\ batches \in Nat
    /\ AgesDirectories
    /\ AgesPlace

AgesInv == ScriptsOK /\ (trouble = {} => AgesCalm)

LEMMA OnesIs ==
    ASSUME NEW n \in Nat, NEW d \in Nat
    PROVE  /\ Ones(n, d) \in Seq(Nat) /\ Len(Ones(n, d)) = n + 1
           /\ DOMAIN Ones(n, d) = 1..(n + 1)
           /\ \A j \in 1..n : Ones(n, d)[j] = 1
           /\ Ones(n, d)[n + 1] = d
<1> DEFINE s == Ones(n, d)
<1>1. s \in [1..(n + 1) -> Nat]
  BY DEF Ones
<1>2. (\A j \in 1..n : s[j] = 1) /\ s[n + 1] = d
  BY DEF Ones
<1> HIDE DEF s
<1>3. s \in Seq(Nat)
  BY <1>1
<1>4. Len(s) = n + 1
  BY <1>1, <1>3
<1> QED
  BY <1>1, <1>2, <1>3, <1>4 DEF s

LEMMA Log0Name == RotationAssumption => IsName(log0)
<1> SUFFICES ASSUME RotationAssumption PROVE IsName(log0)
  OBVIOUS
<1>1. Ones(0, 0) = <<0>>
  <2>1. \A j \in 1..1 : (IF j <= 0 THEN 1 ELSE 0) = 0
    OBVIOUS
  <2>2. <<0>> = [j \in 1..1 |-> 0]
    OBVIOUS
  <2> QED
    BY <2>1, <2>2 DEF Ones
<1> QED
  BY <1>1 DEF IsName, log0, RotationAssumption

LEMMA HigherOnes ==
    ASSUME NEW n \in Nat, NEW d \in Nat, NEW m \in Nat, NEW e \in Nat
    PROVE  Higher(Ones(n, d), Ones(m, e)) <=> n > m \/ (n = m /\ d > e)
<1> DEFINE s == Ones(n, d)
           t == Ones(m, e)
<1>1. /\ s \in Seq(Nat) /\ Len(s) = n + 1 /\ DOMAIN s = 1..(n + 1)
      /\ (\A j \in 1..n : s[j] = 1) /\ s[n + 1] = d
  BY OnesIs
<1>2. /\ t \in Seq(Nat) /\ Len(t) = m + 1 /\ DOMAIN t = 1..(m + 1)
      /\ (\A j \in 1..m : t[j] = 1) /\ t[m + 1] = e
  BY OnesIs
<1> HIDE DEF s, t
<1>3. ASSUME n = m PROVE Before(t, s) <=> e < d
  <2>1. ~ IsStrictPrefix(t, s)
    <3> SUFFICES ASSUME IsStrictPrefix(t, s) PROVE FALSE
      OBVIOUS
    <3>1. t # s /\ Len(t) <= Len(s) /\ SubSeq(t, 1, Len(t)) = SubSeq(s, 1, Len(t))
      BY DEF IsStrictPrefix, IsPrefix
    <3>2. SubSeq(t, 1, Len(t)) = t /\ SubSeq(s, 1, Len(s)) = s
      BY <1>1, <1>2
    <3> QED
      BY <1>1, <1>2, <1>3, <3>1, <3>2
  <2>2. DOMAIN t \cap DOMAIN s = 1..(n + 1)
    BY <1>1, <1>2, <1>3
  <2>3. ASSUME NEW j \in 1..(n + 1), t[j] < s[j] PROVE j = n + 1
    BY <1>1, <1>2, <1>3, <2>3
  <2>4. \A j \in 1..(n + 1 - 1) : t[j] = s[j]
    BY <1>1, <1>2, <1>3
  <2> QED
    BY <1>1, <1>2, <1>3, <2>1, <2>2, <2>3, <2>4 DEF Before
<1> QED
  BY <1>1, <1>2, <1>3 DEF Higher, s, t

LEMMA RenamedOnes ==
    ASSUME NEW n \in Nat, NEW d \in Nat
    PROVE  Renamed(Ones(n, d)) = IF d + 1 = Base THEN Ones(n + 1, 0)
                                                 ELSE Ones(n, d + 1)
<1> DEFINE s == Ones(n, d)
           f == Front(s)
<1>1. /\ s \in Seq(Nat) /\ Len(s) = n + 1 /\ DOMAIN s = 1..(n + 1)
      /\ (\A j \in 1..n : s[j] = 1) /\ s[n + 1] = d
  BY OnesIs
<1> HIDE DEF s
<1>2. Last(s) = d
  BY <1>1 DEF Last
<1>3. f \in Seq(Nat) /\ Len(f) = n /\ \A j \in 1..n : f[j] = 1
  BY <1>1 DEF Front
<1> HIDE DEF f
<1>4. CASE d + 1 = Base
  <2> DEFINE t == f \o <<1, 0>>
  <2>1. <<1, 0>> \in Seq(Nat) /\ Len(<<1, 0>>) = 2
        /\ <<1, 0>>[1] = 1 /\ <<1, 0>>[2] = 0
    OBVIOUS
  <2>2. t \in Seq(Nat) /\ Len(t) = n + 2
    BY <1>3, <2>1
  <2>3. (\A j \in 1..(n + 1) : t[j] = 1) /\ t[n + 2] = 0
    BY <1>3, <2>1
  <2>4. /\ Ones(n + 1, 0) \in Seq(Nat) /\ Len(Ones(n + 1, 0)) = n + 2
        /\ \A j \in 1..(n + 1) : Ones(n + 1, 0)[j] = 1
        /\ Ones(n + 1, 0)[n + 2] = 0
    BY OnesIs
  <2> HIDE DEF t
  <2>5. t = Ones(n + 1, 0)
    <3>1. \A j \in 1..(n + 2) : t[j] = Ones(n + 1, 0)[j]
      BY <2>3, <2>4
    <3> QED
      BY <2>2, <2>4, <3>1
  <2> QED
    BY <1>2, <1>4, <2>5 DEF Renamed, f, s, t
<1>5. CASE d + 1 # Base
  <2> DEFINE t == f \o <<d + 1>>
  <2>1. <<d + 1>> \in Seq(Nat) /\ Len(<<d + 1>>) = 1 /\ <<d + 1>>[1] = d + 1
    OBVIOUS
  <2>2. t \in Seq(Nat) /\ Len(t) = n + 1
    BY <1>3, <2>1
  <2>3. (\A j \in 1..n : t[j] = 1) /\ t[n + 1] = d + 1
    BY <1>3, <2>1
  <2>4. /\ Ones(n, d + 1) \in Seq(Nat) /\ Len(Ones(n, d + 1)) = n + 1
        /\ \A j \in 1..n : Ones(n, d + 1)[j] = 1
        /\ Ones(n, d + 1)[n + 1] = d + 1
    <3>1. d + 1 \in Nat
      OBVIOUS
    <3> HIDE DEF t, f, s
    <3> QED
      BY <3>1, OnesIs
  <2> HIDE DEF t
  <2>5. t = Ones(n, d + 1)
    <3>1. \A j \in 1..(n + 1) : t[j] = Ones(n, d + 1)[j]
      BY <2>3, <2>4
    <3> QED
      BY <2>2, <2>4, <3>1
  <2> QED
    BY <1>2, <1>5, <2>5 DEF Renamed, f, s, t
<1> QED
  BY <1>4, <1>5

LEMMA NameFacts ==
    ASSUME RotationAssumption, NEW a, IsName(a)
    PROVE  /\ a \in Seq(Nat) /\ Len(a) > 0 /\ ~ Higher(log0, a)
           /\ ~ Higher(a, a) /\ ~ Before(a, log0)
           /\ a # log0 => Before(log0, a)
<1>1. PICK n \in Nat, d \in 0..(Base - 1) : a = Ones(n, d)
  BY DEF IsName
<1>2. log0 = Ones(0, 0) /\ log0 \in Seq(Nat) /\ Len(log0) = 1 /\ log0[1] = 0
      /\ DOMAIN log0 = {1}
  <2>1. /\ Ones(0, 0) \in Seq(Nat) /\ Len(Ones(0, 0)) = 1
        /\ Ones(0, 0)[1] = 0
    <3>1. 0 \in Nat /\ 0 + 1 = 1
      OBVIOUS
    <3> QED
      BY <3>1, OnesIs
  <2>2. <<0>> \in Seq(Nat) /\ Len(<<0>>) = 1 /\ <<0>>[1] = 0
    OBVIOUS
  <2>3. <<0>> = Ones(0, 0)
    BY <2>1, <2>2
  <2> QED
    BY <2>1, <2>3 DEF log0
<1>3. d \in Nat
  BY DEF RotationAssumption
<1>4. /\ a \in Seq(Nat) /\ Len(a) = n + 1 /\ DOMAIN a = 1..(n + 1)
      /\ (\A j \in 1..n : a[j] = 1) /\ a[n + 1] = d
  BY <1>1, <1>3, OnesIs
<1>5. ~ Higher(log0, a) /\ ~ Higher(a, a)
  BY <1>1, <1>2, <1>3, HigherOnes
<1>6. ~ Before(a, log0)
  <2>1. ASSUME IsStrictPrefix(a, log0) PROVE FALSE
    <3>1. a # log0 /\ Len(a) <= 1 /\ SubSeq(a, 1, Len(a)) = SubSeq(log0, 1, Len(a))
      BY <1>2, <2>1 DEF IsStrictPrefix, IsPrefix
    <3>2. Len(a) = 1 /\ SubSeq(a, 1, Len(a)) = a /\ SubSeq(log0, 1, 1) = log0
      BY <1>2, <1>4, <3>1
    <3> QED
      BY <3>1, <3>2
  <2>2. a[1] \in Nat
    BY <1>4
  <2> QED
    BY <1>2, <2>1, <2>2 DEF Before
<1>7. ASSUME a # log0 PROVE Before(log0, a)
  <2>1. CASE n = 0
    <3>1. d # 0
      BY <1>1, <1>2, <1>7, <2>1
    <3>2. 1 \in DOMAIN log0 \cap DOMAIN a /\ log0[1] < a[1]
          /\ \A j \in 1..(1 - 1) : log0[j] = a[j]
      BY <1>2, <1>3, <1>4, <2>1, <3>1
    <3> QED
      BY <3>2 DEF Before
  <2>2. CASE n # 0
    <3>2. 1 \in DOMAIN log0 \cap DOMAIN a /\ log0[1] < a[1]
          /\ \A j \in 1..(1 - 1) : log0[j] = a[j]
      BY <1>2, <1>4, <2>2
    <3> QED
      BY <3>2 DEF Before
  <2> QED
    BY <2>1, <2>2
<1> QED
  BY <1>4, <1>5, <1>6, <1>7

(* Renaming moves a file past no other one.                                *)
LEMMA RenamedPassesNone ==
    ASSUME RotationAssumption, NEW a, IsName(a)
    PROVE  LET to == Renamed(a)
           IN /\ IsName(to) /\ to # a /\ to # log0
              /\ \A n : IsName(n) /\ n # to =>
                    /\ Higher(n, to) => Higher(n, a)
                    /\ Higher(to, n) => n = a \/ Higher(a, n)
<1> DEFINE to == Renamed(a)
<1>1. PICK n \in Nat, d \in 0..(Base - 1) : a = Ones(n, d)
  BY DEF IsName
<1>2. PICK m \in Nat, e \in 0..(Base - 1) :
         /\ to = Ones(m, e)
         /\ IF d + 1 = Base THEN m = n + 1 /\ e = 0 ELSE m = n /\ e = d + 1
  <2>1. d \in Nat /\ 0 \in 0..(Base - 1)
        /\ (d + 1 # Base => d + 1 \in 0..(Base - 1))
    BY DEF RotationAssumption
  <2>2. to = IF d + 1 = Base THEN Ones(n + 1, 0) ELSE Ones(n, d + 1)
    BY <1>1, <2>1, RenamedOnes
  <2> QED
    BY <2>1, <2>2
<1> HIDE DEF to
<1>3. d \in Nat /\ e \in Nat /\ Base \in Nat
  BY DEF RotationAssumption
<1>4. IsName(to)
  BY <1>2 DEF IsName
<1>5. Higher(to, a) /\ ~ Higher(a, a) /\ ~ Higher(log0, a)
  <2>1. Higher(to, a)
    BY <1>1, <1>2, <1>3, HigherOnes
  <2> QED
    BY <2>1, NameFacts
<1>6. ASSUME NEW x, IsName(x), x # to
      PROVE  /\ Higher(x, to) => Higher(x, a)
             /\ Higher(to, x) => x = a \/ Higher(a, x)
  <2>1. PICK j \in Nat, f \in 0..(Base - 1) : x = Ones(j, f)
    BY <1>6 DEF IsName
  <2>2. f \in Nat
    BY DEF RotationAssumption
  <2>3. Higher(x, to) <=> j > m \/ (j = m /\ f > e)
    BY <1>2, <1>3, <2>1, <2>2, HigherOnes
  <2>4. Higher(x, a) <=> j > n \/ (j = n /\ f > d)
    BY <1>1, <1>3, <2>1, <2>2, HigherOnes
  <2>5. Higher(to, x) <=> m > j \/ (m = j /\ e > f)
    BY <1>2, <1>3, <2>1, <2>2, HigherOnes
  <2>6. Higher(a, x) <=> n > j \/ (n = j /\ d > f)
    BY <1>1, <1>3, <2>1, <2>2, HigherOnes
  <2>7. Higher(x, to) => Higher(x, a)
    BY <1>2, <1>3, <2>2, <2>3, <2>4
  <2>8. ASSUME Higher(to, x) PROVE x = a \/ Higher(a, x)
    <3>1. (j = n /\ f = d) \/ n > j \/ (n = j /\ d > f)
      BY <1>2, <1>3, <2>2, <2>5, <2>8
    <3> QED
      BY <1>1, <2>1, <2>6, <3>1
  <2> QED
    BY <2>7, <2>8
<1> QED
  BY <1>4, <1>5, <1>6 DEF to

(* The list has the name .log0 if there is one: no other is before it.     *)
LEMMA ListedHasLog0 ==
    ASSUME RotationAssumption, NEW names, IsFiniteSet(names),
           \A n \in names : IsName(n)
    PROVE  LET s == Listed(names)
           IN /\ Len(s) \in Nat /\ s = [k \in 1..Len(s) |-> s[k]]
              /\ log0 \in names => \E k \in 1..Len(s) : s[k] = log0
<1> DEFINE c == Cardinality(names)
           s == Listed(names)
           Rest(n) == {m \in names : ~ Before(m, n)}
<1>1. c \in Nat
  BY FS_CardinalityType
<1>2. s = [k \in 1..c |-> s[k]]
  <2> DEFINE t == [k \in 1..c |->
                      CHOOSE n \in names : Cardinality(Rest(n)) = k]
  <2>1. s = t
    BY Zenon DEF Listed
  <2>2. t = [k \in 1..c |-> t[k]]
    <3> HIDE DEF c
    <3> QED
      OBVIOUS
  <2> QED
    BY <2>1, <2>2
<1>3. \A k \in 1..c : s[k] = CHOOSE n \in names : Cardinality(Rest(n)) = k
  BY DEF Listed
<1> HIDE DEF s
<1>4. Len(s) = c
  BY <1>1, <1>2, LengthOf
<1>5. ASSUME log0 \in names PROVE \E k \in 1..c : s[k] = log0
  <2>1. Rest(log0) = names
    BY NameFacts
  <2>2. ASSUME NEW n \in names, n # log0 PROVE Cardinality(Rest(n)) < c
    <3>1. Rest(n) \in SUBSET names /\ log0 \notin Rest(n)
      BY <2>2, NameFacts
    <3> HIDE DEF Rest
    <3>2. IsFiniteSet(Rest(n)) /\ Cardinality(Rest(n)) <= c /\ Cardinality(Rest(n)) # c
      BY <1>5, <3>1, FS_Subset
    <3>3. Cardinality(Rest(n)) \in Nat
      BY <3>2, FS_CardinalityType
    <3> QED
      BY <1>1, <3>2, <3>3
  <2>3. c # 0
    BY <1>5, FS_EmptySet
  <2>4. c \in 1..c
    BY <1>1, <2>3
  <2>5. s[c] \in names /\ Cardinality(Rest(s[c])) = c
    <3> HIDE DEF Rest
    <3>1. s[c] = CHOOSE n \in names : Cardinality(Rest(n)) = c
      BY <1>3, <2>4
    <3>2. Cardinality(Rest(log0)) = c
      BY <2>1
    <3> QED
      BY <1>5, <3>1, <3>2
  <2>6. s[c] = log0
    <3> HIDE DEF Rest, c
    <3> QED
      BY <1>1, <2>2, <2>5
  <2> QED
    BY <2>4, <2>6
<1> QED
  BY <1>1, <1>2, <1>4, <1>5 DEF s

LEMMA AgesScriptGoes ==
    ASSUME AgesInv, NEW k \in DOMAIN scripts, Running(k),
           NEW a, NEW d,
           scripts' = [scripts EXCEPT ![k] = [at |-> a, todo |-> d]],
           UNCHANGED <<waiting, batches>>, trouble \subseteq trouble',
           /\ AgesCalm /\ Latest \in Nat \ {0}
           /\ k = Latest /\ waiting /\ Latest' = Latest
           /\ At' = a /\ scripts'[Latest].todo = d
           /\ trouble' = {}
           => AgesDirectories' /\ AgesPlace'
    PROVE  AgesInv'
<1>1. /\ ScriptsOK' /\ Latest' = Latest /\ k \in 1..Latest
      /\ \A j \in 1..Latest :
            scripts'[j] = IF j = k THEN [at |-> a, todo |-> d] ELSE scripts[j]
  <2>1. ScriptsOK
    BY DEF AgesInv
  <2>2. scripts' = [scripts EXCEPT ![k] = [at |-> a, todo |-> d]]
    OBVIOUS
  <2>3. /\ ScriptsOK' /\ Latest' = Latest /\ k \in 1..Latest
    BY <2>1, <2>2, TaskSet
  <2>4. \A j \in 1..Latest :
            scripts'[j] = IF j = k THEN [at |-> a, todo |-> d] ELSE scripts[j]
    BY <2>1, <2>2, TaskSet
  <2> QED
    BY <2>3, <2>4
<1>2. SUFFICES ASSUME trouble' = {} PROVE AgesCalm'
  BY <1>1, <1>2 DEF AgesInv
<1>3. Latest \in Nat \ {0}
  BY DEF AgesInv, ScriptsOK, Latest
<1>4. AgesCalm
  BY <1>2 DEF AgesInv
<1>5. k = Latest /\ waiting
  BY <1>1, <1>4 DEF AgesCalm
<1>6. At' = a /\ scripts'[Latest].todo = d
  BY <1>1, <1>3, <1>5 DEF At
<1>7. AgesDirectories' /\ AgesPlace'
  BY <1>1, <1>2, <1>3, <1>4, <1>5, <1>6
<1>8. \A j \in 1..Latest : Running(j)' => j = Latest
  BY <1>1, <1>4, <1>5 DEF AgesCalm, Running
<1> QED
  BY <1>1, <1>4, <1>5, <1>7, <1>8 DEF AgesCalm

LEMMA AgesTestArchive ==
    ASSUME AgesInv, NEW k \in DOMAIN scripts, TestArchive(k)
    PROVE  AgesInv'
<1> DEFINE a == IF archive = {} THEN "tarOnly" ELSE "unpack"
           d == scripts[k].todo
<1>1. scripts' = [scripts EXCEPT ![k] = [at |-> a, todo |-> d]]
      /\ Running(k)
  BY GoSets DEF TestArchive, AgesInv, Running
<1>2. UNCHANGED <<files, archive, open, waiting, batches, foreign, trouble>>
      /\ scripts[k].at = "test"
  BY DEF TestArchive
<1>3. ASSUME AgesCalm, k = Latest, Latest' = Latest, At' = a
      PROVE  AgesDirectories' /\ AgesPlace'
  <2>1. Apart /\ AgesDirectories
    BY <1>2, <1>3 DEF AgesCalm, AgesPlace, At
  <2>2. Apart' /\ AgesDirectories'
    BY <1>2, <2>1 DEF Apart, AgesDirectories, Tidy, IsDirectory, Ages
  <2> QED
    BY <1>2, <1>3, <2>2 DEF AgesPlace
<1> HIDE DEF a, d
<1> QED
  BY <1>1, <1>2, <1>3, AgesScriptGoes

LEMMA AgesUnpack ==
    ASSUME RotationAssumption, AgesInv, NEW k \in DOMAIN scripts, Unpack(k)
    PROVE  AgesInv'
<1> DEFINE d == scripts[k].todo
<1>1. scripts' = [scripts EXCEPT ![k] = [at |-> "rmTar", todo |-> d]]
      /\ Running(k)
  BY GoSets DEF Unpack, AgesInv, Running
<1>2. UNCHANGED <<archive, waiting, batches, foreign, trouble>>
      /\ scripts[k].at = "unpack"
  BY DEF Unpack
<1>3. ASSUME AgesCalm, waiting, k = Latest, Latest' = Latest, At' = "rmTar"
      PROVE  AgesDirectories' /\ AgesPlace'
  <2>1. Apart /\ AgesDirectories /\ archive # {}
    BY <1>2, <1>3 DEF AgesCalm, AgesPlace, At
  <2>2. Running(Latest)'
    BY <1>3 DEF Running, At
  <2>3. PICK p \in archive :
           files' = [n \in DOMAIN p \cup DOMAIN files |->
                        IF n \in DOMAIN p THEN p[n] ELSE files[n]]
    BY <2>1 DEF Unpack
  <2>4. /\ Tidy(p) /\ Ages(p, p) /\ log0 \notin DOMAIN p /\ Ages(p, files)
        /\ Tidy(files) /\ DOMAIN files \subseteq {log0}
    BY <2>1 DEF Apart, AgesDirectories
  <2>5. /\ DOMAIN files' = DOMAIN p \cup DOMAIN files
        /\ \A n \in DOMAIN p : files'[n] = p[n]
        /\ \A n \in DOMAIN files : files'[n] = files[n]
        /\ files' = [n \in DOMAIN files' |-> files'[n]]
    BY <2>3, <2>4
  <2>6. Tidy(files)'
    <3>1. IsFiniteSet(DOMAIN files')
      <4>1. IsFiniteSet(DOMAIN p) /\ IsFiniteSet(DOMAIN files)
        BY <2>4 DEF Tidy
      <4>2. IsFiniteSet(DOMAIN p \cup DOMAIN files)
        BY <4>1, FS_Union, Zenon
      <4> QED
        BY <2>5, <4>2
    <3> QED
      BY <1>2, <2>4, <2>5, <3>1 DEF Tidy, IsDirectory
  <2>7. Ages(files', files')
    <3> SUFFICES ASSUME NEW m \in DOMAIN files', NEW n \in DOMAIN files',
                        Higher(m, n),
                        NEW i1 \in DOMAIN files'[m], NEW j \in DOMAIN files'[n]
                 PROVE  files'[m][i1] < files'[n][j]
      BY DEF Ages
    <3>1. IsName(n)
      BY <2>4, <2>5 DEF Tidy
    <3>2. m # log0
      BY <3>1, NameFacts
    <3>3. m \in DOMAIN p
      BY <2>4, <2>5, <3>2
    <3> QED
      BY <2>4, <2>5, <3>3 DEF Ages
  <2>8. AgesDirectories'
    BY <1>2, <1>3, <2>1, <2>6, <2>7 DEF AgesDirectories, Tidy, IsDirectory, Ages
  <2> QED
    BY <1>3, <2>2, <2>8 DEF AgesPlace
<1> HIDE DEF d
<1> QED
  BY <1>1, <1>2, <1>3, AgesScriptGoes

LEMMA AgesRmTar ==
    ASSUME AgesInv, NEW k \in DOMAIN scripts, RmTar(k)
    PROVE  AgesInv'
<1> DEFINE d == scripts[k].todo
<1>1. scripts' = [scripts EXCEPT ![k] = [at |-> "list", todo |-> d]]
      /\ Running(k)
  BY GoSets DEF RmTar, AgesInv, Running
<1>2. UNCHANGED <<files, open, waiting, batches, foreign, trouble>>
      /\ archive' = {}
  BY DEF RmTar
<1>3. ASSUME AgesCalm, waiting, k = Latest, Latest' = Latest, At' = "list"
      PROVE  AgesDirectories' /\ AgesPlace'
  <2>1. AgesDirectories /\ Running(Latest)'
    BY <1>3 DEF AgesCalm, Running, At
  <2>2. AgesDirectories'
    BY <1>2, <2>1 DEF AgesDirectories, Tidy, IsDirectory, Ages
  <2> QED
    BY <1>2, <1>3, <2>1, <2>2 DEF AgesPlace
<1> HIDE DEF d
<1> QED
  BY <1>1, <1>2, <1>3, AgesScriptGoes

LEMMA AgesList ==
    ASSUME RotationAssumption, AgesInv, NEW k \in DOMAIN scripts, List(k)
    PROVE  AgesInv'
<1> DEFINE d == Listed(DOMAIN files)
<1>1. scripts' = [scripts EXCEPT ![k] = [at |-> "rename", todo |-> d]]
      /\ Running(k) /\ scripts[k].at = "list"
      /\ UNCHANGED <<files, archive, open, waiting, batches, foreign, trouble>>
  BY DEF List, Running
<1> HIDE DEF d
<1>3. ASSUME AgesCalm, waiting, k = Latest, Latest' = Latest,
             At' = "rename", scripts'[Latest].todo = d
      PROVE  AgesDirectories' /\ AgesPlace'
  <2>1. AgesDirectories /\ Running(Latest)' /\ archive = {}
    BY <1>1, <1>3 DEF AgesCalm, AgesPlace, Running, At
  <2>2. AgesDirectories'
    BY <1>1, <2>1 DEF AgesDirectories, Tidy, IsDirectory, Ages
  <2>3. /\ Len(d) \in Nat /\ d = [j \in 1..Len(d) |-> d[j]]
        /\ log0 \in DOMAIN files => \E j \in 1..Len(d) : d[j] = log0
    BY <2>1, ListedHasLog0 DEF AgesDirectories, Tidy, d
  <2>4. Emptying(scripts[Latest].todo)'
    BY <1>1, <1>3, <2>3 DEF Emptying
  <2> QED
    BY <1>1, <1>3, <2>1, <2>2, <2>4 DEF AgesPlace
<1> QED
  BY <1>1, <1>3, AgesScriptGoes

LEMMA AgesRename ==
    ASSUME RotationAssumption, AgesInv, NEW k \in DOMAIN scripts, Rename(k)
    PROVE  AgesInv'
<1> DEFINE todo == scripts[k].todo
           rest == Tail(todo)
           from == Head(todo)
           to == Renamed(from)
<1>1. scripts' = [scripts EXCEPT ![k] = [at |-> "rename", todo |-> rest]]
      /\ Running(k)
  <2>1. scripts[k] = [at |-> scripts[k].at, todo |-> scripts[k].todo]
    BY DEF AgesInv, ScriptsOK
  <2>2. /\ scripts[k].at = "rename"
        /\ scripts' = [scripts EXCEPT
                          ![k] = [scripts[k] EXCEPT
                                     !.todo = Tail(scripts[k].todo)]]
    BY DEF Rename
  <2>3. [scripts[k] EXCEPT !.todo = Tail(scripts[k].todo)]
            = [at |-> scripts[k].at, todo |-> rest]
    BY <2>1, TodoSet
  <2> QED
    BY <2>2, <2>3 DEF Running
<1>2. /\ UNCHANGED <<archive, waiting, batches, foreign, trouble>>
      /\ scripts[k].at = "rename" /\ todo # <<>>
      /\ IF from \in DOMAIN files
         THEN files' = [n \in (DOMAIN files \ {from}) \cup {to} |->
                           IF n = to THEN files[from] ELSE files[n]]
         ELSE UNCHANGED <<files, open>>
  BY DEF Rename
<1> HIDE DEF todo, rest, from, to
<1>3. ASSUME AgesCalm, waiting, k = Latest, Latest' = Latest,
             At' = "rename", scripts'[Latest].todo = rest
      PROVE  AgesDirectories' /\ AgesPlace'
  <2>1. Emptying(todo) /\ archive = {} /\ AgesDirectories
    BY <1>2, <1>3 DEF AgesCalm, AgesPlace, At, todo
  <2>2. Running(Latest)'
    BY <1>3 DEF Running, At
  <2>3. /\ Len(todo) \in Nat \ {0} /\ from = todo[1]
        /\ Len(rest) = Len(todo) - 1
        /\ rest = [j \in 1..(Len(todo) - 1) |-> rest[j]]
        /\ \A j \in 1..(Len(todo) - 1) : rest[j] = todo[j + 1]
    <3>1. Len(todo) \in Nat /\ todo = [j \in 1..Len(todo) |-> todo[j]]
      BY <2>1 DEF Emptying
    <3> QED
      BY <1>2, <3>1, RestOf DEF from, rest
  <2>4. ASSUME log0 \in DOMAIN files, log0 # from
        PROVE  \E j \in 1..Len(rest) : rest[j] = log0
    <3>1. PICK j \in 1..Len(todo) : todo[j] = log0
      BY <2>1, <2>4 DEF Emptying
    <3>2. j # 1
      BY <2>3, <2>4, <3>1
    <3>3. j - 1 \in 1..Len(rest) /\ (j - 1) + 1 = j
      BY <2>3, <3>1, <3>2
    <3>4. rest[j - 1] = todo[(j - 1) + 1]
      BY <2>3, <3>3
    <3> QED
      BY <3>1, <3>3, <3>4
  <2>5. Len(rest) \in Nat /\ rest = [j \in 1..Len(rest) |-> rest[j]]
    BY <2>3
  <2>6. CASE from \notin DOMAIN files
    <3>1. AgesDirectories'
      BY <1>2, <2>1, <2>6 DEF AgesDirectories, Tidy, IsDirectory, Ages
    <3>2. Emptying(scripts[Latest].todo)'
      BY <1>2, <1>3, <2>4, <2>5, <2>6 DEF Emptying
    <3> QED
      BY <1>2, <1>3, <2>1, <2>2, <3>1, <3>2 DEF AgesPlace
  <2>7. CASE from \in DOMAIN files
    <3>1. /\ DOMAIN files' = (DOMAIN files \ {from}) \cup {to}
          /\ files'[to] = files[from]
          /\ \A n \in DOMAIN files' :
                n # to => n \in DOMAIN files /\ n # from /\ files'[n] = files[n]
          /\ files' = [n \in DOMAIN files' |-> files'[n]]
      BY <1>2, <2>7
    <3>2. Tidy(files) /\ Ages(files, files) /\ IsName(from)
      BY <2>1, <2>7 DEF AgesDirectories, Tidy
    <3>3. /\ IsName(to) /\ to # log0
          /\ \A n : IsName(n) /\ n # to =>
                /\ Higher(n, to) => Higher(n, from)
                /\ Higher(to, n) => n = from \/ Higher(from, n)
      BY <3>2, RenamedPassesNone DEF to
    <3>4. Tidy(files)'
      <4>1. IsFiniteSet(DOMAIN files')
        <5>1. IsFiniteSet(DOMAIN files \ {from})
          BY <3>2, FS_RemoveElement DEF Tidy
        <5> QED
          BY <3>1, <5>1, FS_AddElement
      <4>2. \A n \in DOMAIN files' :
               /\ IsName(n) /\ files'[n] \in Seq(Nat)
               /\ \A j \in DOMAIN files'[n] : files'[n][j] \in 1..batches
        BY <2>7, <3>1, <3>2, <3>3 DEF Tidy, IsDirectory
      <4> QED
        BY <1>2, <3>1, <4>1, <4>2 DEF Tidy, IsDirectory
    <3>5. Ages(files', files')
      <4> SUFFICES ASSUME NEW m \in DOMAIN files', NEW n \in DOMAIN files',
                          Higher(m, n), NEW l \in DOMAIN files'[m],
                          NEW j \in DOMAIN files'[n]
                   PROVE  files'[m][l] < files'[n][j]
        BY DEF Ages
      <4>1. IsName(m) /\ IsName(n)
        BY <3>4 DEF Tidy
      <4>2. m # n
        BY <4>1, NameFacts
      <4>3. CASE m = to
        <5>1. n # to /\ n # from /\ n \in DOMAIN files /\ Higher(from, n)
          BY <3>1, <3>3, <4>1, <4>2, <4>3
        <5> QED
          BY <2>7, <3>1, <3>2, <4>3, <5>1 DEF Ages
      <4>4. CASE m # to /\ n = to
        <5>1. m \in DOMAIN files /\ Higher(m, from)
          BY <3>1, <3>3, <4>1, <4>4
        <5> QED
          BY <2>7, <3>1, <3>2, <4>4, <5>1 DEF Ages
      <4>5. CASE m # to /\ n # to
        BY <3>1, <3>2, <4>5 DEF Ages
      <4> QED
        BY <4>3, <4>4, <4>5
    <3>6. AgesDirectories'
      BY <1>2, <1>3, <2>1, <3>4, <3>5 DEF AgesDirectories
    <3>7. Emptying(scripts[Latest].todo)'
      BY <1>3, <2>4, <2>5, <3>1, <3>3 DEF Emptying
    <3> QED
      BY <1>2, <1>3, <2>1, <2>2, <3>6, <3>7 DEF AgesPlace
  <2> QED
    BY <2>6, <2>7
<1> QED
  BY <1>1, <1>2, <1>3, AgesScriptGoes

LEMMA AgesTar ==
    ASSUME AgesInv, NEW k \in DOMAIN scripts, Tar(k)
    PROVE  AgesInv'
<1> DEFINE d == scripts[k].todo
<1>1. scripts' = [scripts EXCEPT ![k] = [at |-> "rmLogs", todo |-> d]]
      /\ Running(k)
  BY GoSets DEF Tar, AgesInv, Running
<1>2. UNCHANGED <<files, open, waiting, batches, foreign, trouble>>
      /\ scripts[k].at = "rename" /\ scripts[k].todo = <<>>
      /\ archive' = {files}
  BY DEF Tar
<1>3. ASSUME AgesCalm, waiting, k = Latest, Latest' = Latest,
             At' = "rmLogs"
      PROVE  AgesDirectories' /\ AgesPlace'
  <2>1. Emptying(<<>>) /\ archive = {} /\ AgesDirectories
    BY <1>2, <1>3 DEF AgesCalm, AgesPlace, At
  <2>2. Running(Latest)'
    BY <1>3 DEF Running, At
  <2>3. AgesDirectories'
    BY <1>2, <2>1 DEF AgesDirectories, Tidy, IsDirectory, Ages
  <2>4. log0 \notin DOMAIN files
    BY <2>1 DEF Emptying
  <2> QED
    BY <1>2, <1>3, <2>2, <2>3, <2>4 DEF AgesPlace
<1> HIDE DEF d
<1> QED
  BY <1>1, <1>2, <1>3, AgesScriptGoes

LEMMA AgesRmLogs ==
    ASSUME AgesInv, NEW k \in DOMAIN scripts, RmLogs(k)
    PROVE  AgesInv'
<1> DEFINE d == scripts[k].todo
<1>1. scripts' = [scripts EXCEPT ![k] = [at |-> "ended", todo |-> d]]
      /\ Running(k)
  BY GoSets DEF RmLogs, AgesInv, Running
<1>2. UNCHANGED <<archive, waiting, batches, foreign, trouble>>
      /\ scripts[k].at = "rmLogs" /\ files' = NoFiles
  BY DEF RmLogs
<1>3. ASSUME AgesCalm, waiting, k = Latest, Latest' = Latest, At' = "ended"
      PROVE  AgesDirectories' /\ AgesPlace'
  <2>1. archive = {files} /\ log0 \notin DOMAIN files /\ AgesDirectories
    BY <1>2, <1>3 DEF AgesCalm, AgesPlace, At
  <2>2. /\ DOMAIN NoFiles = {} /\ NoFiles = [n \in DOMAIN NoFiles |-> NoFiles[n]]
        /\ IsFiniteSet(DOMAIN NoFiles)
    BY FS_EmptySet DEF NoFiles
  <2>3. AgesDirectories'
    BY <1>2, <1>3, <2>1, <2>2 DEF AgesDirectories, Tidy, IsDirectory, Ages
  <2>4. Apart'
    BY <1>2, <2>1, <2>2 DEF Apart, Ages
  <2> QED
    BY <1>3, <2>3, <2>4 DEF AgesPlace
<1> HIDE DEF d
<1> QED
  BY <1>1, <1>2, <1>3, AgesScriptGoes

LEMMA AgesTarOnly ==
    ASSUME AgesInv, NEW k \in DOMAIN scripts, TarOnly(k)
    PROVE  AgesInv'
<1> DEFINE d == scripts[k].todo
<1>1. scripts' = [scripts EXCEPT ![k] = [at |-> "ended", todo |-> d]]
      /\ Running(k)
  BY GoSets DEF TarOnly, AgesInv, Running
<1>2. /\ UNCHANGED <<files, open, waiting, batches, foreign>>
      /\ scripts[k].at = "tarOnly" /\ archive' = {files}
      /\ trouble \subseteq trouble'
      /\ trouble' = {} => DOMAIN files = {}
  BY DEF TarOnly
<1>3. ASSUME AgesCalm, waiting, k = Latest, Latest' = Latest, At' = "ended",
             trouble' = {}
      PROVE  AgesDirectories' /\ AgesPlace'
  <2>1. AgesDirectories /\ DOMAIN files = {}
    BY <1>2, <1>3 DEF AgesCalm
  <2>2. AgesDirectories'
    BY <1>2, <2>1 DEF AgesDirectories, Tidy, IsDirectory, Ages
  <2>3. Apart'
    BY <1>2, <2>1 DEF Apart, Ages
  <2> QED
    BY <1>3, <2>2, <2>3 DEF AgesPlace
<1> HIDE DEF d
<1> QED
  BY <1>1, <1>2, <1>3, AgesScriptGoes

LEMMA AgesWrite ==
    ASSUME RotationAssumption, AgesInv, WriteBatch
    PROVE  AgesInv'
<1>1. /\ UNCHANGED <<waiting, archive, open, scripts, foreign, trouble>>
      /\ ~waiting /\ batches' = batches + 1
      /\ files' = [n \in DOMAIN files |->
                      IF n \in open THEN Append(files[n], batches')
                                    ELSE files[n]]
  BY DEF WriteBatch
<1>2. ScriptsOK' /\ Latest' = Latest /\ At' = At /\ Latest \in Nat \ {0}
  BY <1>1 DEF AgesInv, ScriptsOK, Latest, At
<1> SUFFICES ASSUME AgesCalm PROVE AgesCalm'
  BY <1>1, <1>2 DEF AgesInv
<1>4. \A k \in 1..Latest : ~ Running(k) /\ ~ Running(k)'
  BY <1>1 DEF AgesCalm, Running
<1>5. Latest \in 1..Latest
  BY <1>2
<1>6. /\ Apart /\ AgesDirectories /\ batches \in Nat /\ open = {log0}
      /\ Tidy(files)
  BY <1>1, <1>4, <1>5 DEF AgesCalm, AgesPlace, AgesDirectories
<1>7. DOMAIN files' = DOMAIN files /\ files' = [n \in DOMAIN files' |-> files'[n]]
  BY <1>1
<1>8. ASSUME NEW n \in DOMAIN files
      PROVE  /\ files'[n] \in Seq(Nat)
             /\ \A j \in DOMAIN files'[n] :
                   \/ j \in DOMAIN files[n] /\ files'[n][j] = files[n][j]
                   \/ files'[n][j] = batches + 1
  <2>1. files[n] \in Seq(Nat) /\ batches + 1 \in Nat
    BY <1>6 DEF Tidy, IsDirectory
  <2>2. files'[n] = Append(files[n], batches + 1)
    BY <1>1, <1>6 DEF Apart
  <2> QED
    BY <2>1, <2>2
<1>9. Tidy(files)'
  <2>1. ASSUME NEW n \in DOMAIN files', NEW j \in DOMAIN files'[n]
        PROVE  files'[n][j] \in 1..(batches + 1)
    <3>1. n \in DOMAIN files
      BY <1>7
    <3>2. CASE j \in DOMAIN files[n] /\ files'[n][j] = files[n][j]
      <4>1. files[n][j] \in 1..batches
        BY <1>6, <3>1, <3>2 DEF Tidy
      <4> QED
        BY <1>6, <3>2, <4>1
    <3>3. CASE files'[n][j] = batches + 1
      BY <1>6, <3>3
    <3> QED
      BY <1>8, <3>1, <3>2, <3>3
  <2> QED
    BY <1>1, <1>6, <1>7, <1>8, <2>1 DEF Tidy, IsDirectory
<1>10. ASSUME NEW p \in archive
       PROVE  Tidy(p)' /\ Ages(p, p) /\ Ages(p, files') /\ log0 \notin DOMAIN p
  <2>1. Tidy(p) /\ Ages(p, p) /\ Ages(p, files) /\ log0 \notin DOMAIN p
    BY <1>6 DEF AgesDirectories, Apart
  <2>2. Tidy(p)'
    <3>1. 1..batches \subseteq 1..(batches + 1)
      BY <1>6
    <3> QED
      BY <1>1, <2>1, <3>1 DEF Tidy, IsDirectory
  <2>3. ASSUME NEW m \in DOMAIN p, NEW n \in DOMAIN files', Higher(m, n),
               NEW l \in DOMAIN p[m], NEW j \in DOMAIN files'[n]
        PROVE  p[m][l] < files'[n][j]
    <3>1. n \in DOMAIN files /\ p[m][l] \in 1..batches
      BY <1>7, <2>1 DEF Tidy
    <3>2. CASE j \in DOMAIN files[n] /\ files'[n][j] = files[n][j]
      BY <2>1, <2>3, <3>1, <3>2 DEF Ages
    <3>3. CASE files'[n][j] = batches + 1
      BY <1>6, <3>1, <3>3
    <3> QED
      BY <1>8, <3>1, <3>2, <3>3
  <2> QED
    BY <2>1, <2>2, <2>3 DEF Ages
<1>11. Ages(files', files')
  <2>1. \A m, n \in DOMAIN files' : ~ Higher(m, n)
    <3>1. DOMAIN files' \subseteq {log0}
      BY <1>6, <1>7 DEF Apart
    <3> QED
      BY <3>1, Log0Name, NameFacts
  <2> QED
    BY <2>1 DEF Ages
<1>12. AgesDirectories'
  BY <1>1, <1>6, <1>9, <1>10, <1>11 DEF AgesDirectories, Ages
<1>13. Apart'
  BY <1>1, <1>6, <1>7, <1>10 DEF Apart, Ages
<1>14. AgesPlace'
  BY <1>2, <1>4, <1>5, <1>13 DEF AgesPlace, Running, At
<1> QED
  BY <1>1, <1>2, <1>4, <1>6, <1>12, <1>14 DEF AgesCalm

LEMMA AgesRollFile ==
    ASSUME AgesInv, rollFile
    PROVE  AgesInv'
<1>1. PICK c \in Children : scripts' = Append(scripts, c)
  BY DEF rollFile
<1>2. /\ ScriptsOK' /\ Latest \in Nat \ {0} /\ Latest' = Latest + 1
      /\ At' = c.at /\ c.at \in {"test", "ended"}
      /\ \A k \in 1..Latest : scripts'[k] = scripts[k]
  BY <1>1, Forked DEF AgesInv
<1>3. /\ UNCHANGED <<files, archive, batches, foreign, trouble>>
      /\ ~waiting /\ waiting' = TRUE /\ open' = {}
  BY DEF rollFile
<1> SUFFICES ASSUME AgesCalm PROVE AgesCalm'
  BY <1>2, <1>3 DEF AgesInv
<1>4. \A k \in 1..Latest : ~ Running(k)
  BY <1>3 DEF AgesCalm
<1>5. \A k \in 1..Latest' : Running(k)' => k = Latest'
  BY <1>2, <1>4 DEF Running
<1>6. Apart /\ AgesDirectories
  <2>1. Latest \in 1..Latest
    BY <1>2
  <2> QED
    BY <1>4, <2>1 DEF AgesCalm, AgesPlace
<1>7. Apart' /\ AgesDirectories'
  BY <1>3, <1>6 DEF Apart, AgesDirectories, Tidy, IsDirectory, Ages
<1>8. AgesPlace'
  BY <1>2, <1>7 DEF AgesPlace
<1> QED
  BY <1>3, <1>5, <1>7, <1>8 DEF AgesCalm

LEMMA AgesWaitReturns ==
    ASSUME RotationAssumption, AgesInv, WaitReturns
    PROVE  AgesInv'
<1>1. /\ waiting' = FALSE /\ open' = {log0} /\ OpenLog
      /\ UNCHANGED <<archive, batches>>
      /\ trouble \subseteq trouble'
      /\ trouble' = {} => \A k \in DOMAIN scripts : ~ Running(k)
  BY DEF WaitReturns, OpenLog
<1>2. /\ ScriptsOK' /\ Latest' = Latest
      /\ Latest \in Nat \ {0} /\ DOMAIN scripts = 1..Latest
      /\ \A k \in 1..Latest : ~ Running(k) => ~ Running(k)'
  BY Waited DEF AgesInv
<1> SUFFICES ASSUME AgesCalm, trouble' = {} PROVE AgesCalm'
  BY <1>1, <1>2 DEF AgesInv
<1>3. \A k \in 1..Latest : ~ Running(k) /\ ~ Running(k)'
  BY <1>1, <1>2
<1>4. Latest \in 1..Latest
  BY <1>2
<1>5. Apart /\ AgesDirectories /\ Tidy(files) /\ IsDirectory(files)
  BY <1>3, <1>4 DEF AgesCalm, AgesPlace, AgesDirectories, Tidy
<1>6. /\ DOMAIN files' = DOMAIN files \cup {log0}
      /\ \A n \in DOMAIN files : files'[n] = files[n]
      /\ log0 \notin DOMAIN files => files'[log0] = <<>>
      /\ IsDirectory(files)'
  BY <1>1, <1>5, Opened
<1>7. DOMAIN files' = {log0}
  BY <1>5, <1>6 DEF Apart
<1>8. DOMAIN <<>> = {}
  OBVIOUS
<1>9. Tidy(files)'
  <2>1. IsFiniteSet(DOMAIN files')
    <3>1. IsFiniteSet({log0})
      BY FS_Singleton, Zenon
    <3> QED
      BY <1>7, <3>1
  <2> QED
    BY <1>1, <1>5, <1>6, <1>8, <2>1, Log0Name DEF Tidy
<1>10. Ages(files', files')
  BY <1>7, Log0Name, NameFacts DEF Ages
<1>11. AgesDirectories'
  BY <1>1, <1>5, <1>9, <1>10 DEF AgesDirectories, Tidy, IsDirectory, Ages
<1>12. Apart'
  BY <1>1, <1>5, <1>6, <1>7, <1>8 DEF Apart, Ages
<1>13. AgesPlace'
  BY <1>2, <1>3, <1>4, <1>12 DEF AgesPlace, Running, At
<1> QED
  BY <1>1, <1>2, <1>3, <1>11, <1>13 DEF AgesCalm

LEMMA InitAges == RotationAssumption /\ RollInit => AgesInv
<1> SUFFICES ASSUME RotationAssumption, RollInit PROVE AgesInv
  OBVIOUS
<1>1. PICK c \in Children : scripts = <<c>>
  BY DEF RollInit
<1>2. c = [at |-> c.at, todo |-> c.todo] /\ c.at \in {"test", "ended"}
  BY DEF Children
<1>3. Len(scripts) = 1 /\ scripts[1] = c /\ scripts = [k \in 1..1 |-> c]
  BY <1>1
<1>4. ScriptsOK
  BY <1>2, <1>3 DEF ScriptsOK
<1>5. /\ files = NoFiles /\ archive = {} /\ waiting = TRUE /\ batches = 0
  BY DEF RollInit
<1>6. /\ DOMAIN NoFiles = {} /\ NoFiles = [n \in DOMAIN NoFiles |-> NoFiles[n]]
      /\ IsFiniteSet(DOMAIN NoFiles)
  BY FS_EmptySet DEF NoFiles
<1>7. AgesDirectories
  BY <1>5, <1>6 DEF AgesDirectories, Tidy, IsDirectory, Ages
<1>8. Apart
  BY <1>5, <1>6 DEF Apart
<1>9. AgesPlace
  BY <1>2, <1>3, <1>8 DEF AgesPlace, At, Latest
<1>10. \A k \in 1..Latest : Running(k) => k = Latest /\ waiting
  BY <1>3, <1>5 DEF Latest
<1> QED
  BY <1>4, <1>5, <1>7, <1>9, <1>10 DEF AgesInv, AgesCalm

LEMMA NextAges ==
    RotationAssumption /\ AgesInv /\ [RollNext]_rollVars => AgesInv'
<1> SUFFICES ASSUME RotationAssumption, AgesInv, [RollNext]_rollVars
             PROVE  AgesInv'
  OBVIOUS
<1>1. CASE WriteBatch
  BY <1>1, AgesWrite
<1>2. CASE rollFile
  BY <1>2, AgesRollFile
<1>3. CASE WaitReturns
  BY <1>3, AgesWaitReturns
<1>4. ASSUME NEW k \in DOMAIN scripts, Script(k)
      PROVE  AgesInv'
  BY <1>4, AgesTestArchive, AgesUnpack, AgesRmTar, AgesList, AgesRename,
     AgesTar, AgesRmLogs, AgesTarOnly DEF Script
<1>5. CASE UNCHANGED rollVars
  <2>1. /\ ScriptsOK => ScriptsOK'
        /\ Latest' = Latest /\ At' = At
        /\ \A k \in 1..Latest : Running(k)' <=> Running(k)
        /\ scripts' = scripts
    BY <1>5 DEF rollVars, ScriptsOK, Latest, At, Running
  <2>2. /\ AgesDirectories => AgesDirectories'
        /\ Apart => Apart'
    BY <1>5 DEF rollVars, AgesDirectories, Tidy, IsDirectory, Ages, Apart
  <2>3. ASSUME ScriptsOK, AgesPlace PROVE AgesPlace'
    <3>1. Latest \in 1..Latest
      BY <2>3 DEF ScriptsOK, Latest
    <3>2. Emptying(scripts[Latest].todo) => Emptying(scripts[Latest].todo)'
      BY <1>5, <2>1 DEF rollVars, Emptying
    <3> QED
      BY <1>5, <2>1, <2>2, <2>3, <3>1, <3>2 DEF rollVars, AgesPlace
  <2> QED
    BY <1>5, <2>1, <2>2, <2>3 DEF rollVars, AgesInv, AgesCalm
<1> QED
  BY <1>1, <1>2, <1>3, <1>4, <1>5 DEF RollNext, Done

(* Between two rolls the files go back in time as their numbers go up,     *)
(* .log0 being the newest, and no name is in the archive and next to it.   *)
(* This holds for any number of rolls: where a file is renamed out of      *)
(* order it replaces its neighbour (jiaoben.py:23-31), but never passes    *)
(* it.                                                                     *)
THEOREM NumbersOlder == RollSpec => []HigherNumbersOlder
<1>1. AgesInv /\ RotationAssumption => HigherNumbersOlder
  <2> SUFFICES ASSUME AgesInv, RotationAssumption, trouble = {},
                      \A k \in DOMAIN scripts : ~ Running(k),
                      NEW p \in archive
               PROVE  /\ DOMAIN p \cap DOMAIN files = {}
                      /\ LET all == [n \in DOMAIN p \cup DOMAIN files |->
                                        IF n \in DOMAIN files THEN files[n]
                                                              ELSE p[n]]
                         IN \A m, n \in DOMAIN all :
                               Higher(m, n) =>
                                   \A k \in DOMAIN all[m] :
                                      \A j \in DOMAIN all[n] :
                                         all[m][k] < all[n][j]
    BY DEF HigherNumbersOlder
  <2> DEFINE all == [n \in DOMAIN p \cup DOMAIN files |->
                        IF n \in DOMAIN files THEN files[n] ELSE p[n]]
  <2>1. AgesCalm /\ ~ Running(Latest)
    BY DEF AgesInv, ScriptsOK, Latest
  <2>2. /\ DOMAIN files \subseteq {log0} /\ log0 \notin DOMAIN p
        /\ Ages(p, files) /\ Ages(p, p) /\ Tidy(files) /\ Tidy(p)
    BY <2>1 DEF AgesCalm, AgesPlace, Apart, AgesDirectories
  <2>3. /\ DOMAIN all = DOMAIN p \cup DOMAIN files
        /\ \A n \in DOMAIN files : all[n] = files[n]
        /\ \A n \in DOMAIN p : all[n] = p[n]
    BY <2>2
  <2> HIDE DEF all
  <2>4. ASSUME NEW m \in DOMAIN all, NEW n \in DOMAIN all, Higher(m, n)
        PROVE  \A k \in DOMAIN all[m] : \A j \in DOMAIN all[n] :
                  all[m][k] < all[n][j]
    <3>1. IsName(n)
      BY <2>2, <2>3 DEF Tidy
    <3>2. m \in DOMAIN p
      BY <2>2, <2>3, <2>4, <3>1, NameFacts
    <3> QED
      BY <2>2, <2>3, <2>4, <3>2 DEF Ages
  <2> QED
    BY <2>2, <2>4 DEF all
<1> QED
  BY <1>1, RotationAssumption, InitAges, NextAges, PTL DEF RollSpec
=============================================================================
