----------------------------- MODULE LogStream -----------------------------
(***************************************************************************)
(* The logging front end: the LogStream of one thread (log/logStream.h,    *)
(* log/logStream.cpp), which collects the text of log records in a buffer  *)
(* and hands it over to the output function.                               *)
(*                                                                         *)
(* A record is begun by makeLog(), as every LOG_x macro does, and grows by *)
(* each << that follows, until the next record begins.  A character is     *)
(* abstracted to its position in everything the thread ever appended;      *)
(* whether it is a newline, where records begin and in which second they   *)
(* began is kept beside.  The fixed parts of a record shrink to a          *)
(* character each: the head, the " - ", the name of the function.  The     *)
(* buffering mode is chosen before the first record, as every main() of    *)
(* the repository does.                                                    *)
(*                                                                         *)
(* Some operators stand for slips one could make in this code and are used *)
(* nowhere in the specification (PROJECT.json, "mutants"):                 *)
(* HasRoomOrEqual, NothingKept, UnendedRecord, WholeBuffer, FirstNewline.  *)
(***************************************************************************)
EXTENDS Integers, Sequences, SequencesExt

CONSTANTS
    kBufferSize,    \* LogStream::kBufferSize
    MaxPiece,       \* the longest text given to one <<
    MaxChars        \* bound on the characters appended

ASSUME LogStreamAssumption ==
    kBufferSize \in Nat \ {0} /\ MaxPiece \in Nat /\ MaxChars \in Nat

VARIABLES
    lineMode,   \* Logger::bufferLevel = kLineBuffer
    pc,         \* the next thing the thread does
    buf,        \* _buf .. _cur
    end,        \* _end - _buf
    needFlush,  \* t_needFlush
    out,        \* history: the characters given to g_output
    cuts,       \* history: Len(out) after each call of g_output
    count,      \* history: how many characters were appended
    newlines,   \* history: which of them are newlines
    records     \* history: the first character and the second of each record

streamVars == <<buf, end, out, cuts>>
vars == <<lineMode, pc, streamVars, needFlush, count, newlines, records>>

Record == [first : Nat, second : Nat]

TypeOK ==
    /\ lineMode \in BOOLEAN
    /\ pc \in {"idle", "head", "dash", "func", "body", "crashed", "released"}
    /\ buf \in Seq(1..MaxChars) /\ Len(buf) < kBufferSize
    /\ end \in Int
    /\ needFlush \in BOOLEAN
    /\ out \in Seq(1..MaxChars)
    /\ cuts \subseteq 0..MaxChars
    /\ count \in 0..MaxChars
    /\ newlines \subseteq 1..MaxChars
    /\ records \in Seq(Record)

Init ==
    /\ lineMode \in BOOLEAN
    /\ pc = "idle"
    /\ buf = <<>> /\ end = 0
    /\ needFlush = FALSE
    /\ out = <<>> /\ cuts = {}
    /\ count = 0 /\ newlines = {} /\ records = <<>>

-----------------------------------------------------------------------------
(* append() and what it calls.  The operators take the text they work on   *)
(* as an argument, because makeLog() shortens it before it appends.        *)

HasRoomOrEqual(text, piece) == kBufferSize - Len(text) >= Len(piece)
HasRoom(text, piece) == kBufferSize - Len(text) > Len(piece)

(* The place of the last newline, 0 if there is none.                      *)
FirstNewline(text, nls) ==
    SelectInSeq(text, LAMBDA c : c \in nls)
LastNewline(text, nls) ==
    SelectLastInSeq(text, LAMBDA c : c \in nls)

(* g_output() of the first n characters of text, after o and at ends c.    *)
HandOver(text, n, o, c) ==
    /\ out' = o \o SubSeq(text, 1, n)
    /\ cuts' = c \cup {Len(out')}

(* The part of append() that copies; in line mode it goes on to look for   *)
(* the last newline and hands over all up to it, unless that newline is    *)
(* the very first character (flushLine()).  Without a newline flushLine()  *)
(* hands over no characters and moves the buffer onto itself.              *)
Copy(text, e, o, c, piece, nls) ==
    LET longer == text \o piece
        last == LastNewline(longer, nls)
    IN IF lineMode /\ last > 1
       THEN /\ HandOver(longer, last, o, c)
            /\ buf' = SubSeq(longer, last + 1, Len(longer))
            /\ end' = e - last
       ELSE /\ buf' = longer
            /\ end' = e
            /\ out' = o
            /\ cuts' = c

(* The characters from _end on, which an overflow moves to the front.      *)
NothingKept(text) == <<>>
Kept(text) == SubSeq(text, end + 1, Len(text))

WholeBuffer(text) == Len(text)
Complete(text) == end

(* append(piece).  When the buffer is too full, the complete records are   *)
(* handed over and append() calls itself: it ends up here again, for ever, *)
(* if nothing was complete or the rest is still too long, and it hands     *)
(* over a negative number of characters if _end is before _buf.  Both      *)
(* bring the program down.                                                 *)
append(text, piece, nls, next) ==
    \/ /\ HasRoom(text, piece)
       /\ Copy(text, end, out, cuts, piece, nls)
       /\ pc' = next
    \/ /\ ~HasRoom(text, piece)
       /\ end > 0
       /\ HasRoom(Kept(text), piece)
       /\ LET o == out \o SubSeq(text, 1, Complete(text))
          IN Copy(Kept(text), 0, o, cuts \cup {Len(o)}, piece, nls)
       /\ pc' = next
    \/ /\ ~HasRoom(text, piece)
       /\ end > 0 => ~HasRoom(Kept(text), piece)
       /\ pc' = "crashed"
       /\ UNCHANGED streamVars

(* The next characters that are appended, n of them after the first k.     *)
NextChars(k, n) == [j \in 1..n |-> k + j]

-----------------------------------------------------------------------------
(* makeLog().                                                              *)

Seconds == IF records = <<>> THEN 0 ELSE Last(records).second

UnendedRecord == end
EndOfRecords == Len(buf)

(* t_needFlush as formatTime() leaves it; not set when the thread formats  *)
(* a time for the first time.                                              *)
Stale(passed) == passed > 0 /\ records # <<>> /\ ~lineMode

(* Up to the call of formatTime(), which sees that the second has changed, *)
(* and that later records, not this one, have to flush the buffer.         *)
makeLog(passed) ==
    /\ pc \in {"idle", "body"}
    /\ count + 3 <= MaxChars
    /\ passed \in (IF records = <<>> THEN {1} ELSE {0, 1})
    /\ IF needFlush
       THEN /\ HandOver(buf, EndOfRecords, out, cuts)
            /\ buf' = <<>>
            /\ end' = 0
       ELSE /\ end' = EndOfRecords
            /\ UNCHANGED <<buf, out, cuts>>
    /\ needFlush' = Stale(passed)
    /\ records' = Append(records,
                         [first |-> count + 1, second |-> Seconds + passed])
    /\ pc' = "head"
    /\ UNCHANGED <<lineMode, count, newlines>>

(* Append n characters; those in nls are newlines.                         *)
AppendNext(n, nls, next) ==
    /\ count + n <= MaxChars
    /\ append(buf, NextChars(count, n), newlines \cup nls, next)
    /\ count' = count + n
    /\ newlines' = newlines \cup nls
    /\ UNCHANGED <<lineMode, needFlush, records>>

(* Time, thread, level, file and line ...                                  *)
AppendHead == pc = "head" /\ AppendNext(1, {}, "dash")

(* ... and " - ", after which makeLog() with a function goes on.           *)
AppendDash ==
    /\ pc = "dash"
    /\ \E next \in {"func", "body"} : AppendNext(1, {}, next)

(* _cur -= 3, and the name of the function and " - " again.                *)
AppendFunc ==
    /\ pc = "func"
    /\ append(Front(buf), NextChars(count - 1, 2), newlines, "body")
    /\ count' = count + 1
    /\ UNCHANGED <<lineMode, needFlush, newlines, records>>

(* The user's <<.                                                          *)
Insert ==
    /\ pc = "body"
    /\ \E n \in 1..MaxPiece : \E nls \in SUBSET ((count + 1)..(count + n)) :
          AppendNext(n, nls, "body")

(* ~LogStream(), when Logger::release() clears the streams.                *)
Release ==
    /\ pc \in {"idle", "body"}
    /\ HandOver(buf, Len(buf), out, cuts)
    /\ buf' = <<>>
    /\ end' = 0
    /\ pc' = "released"
    /\ UNCHANGED <<lineMode, needFlush, count, newlines, records>>

(* The process is gone, or the stream is.                                  *)
Gone == pc \in {"crashed", "released"} /\ UNCHANGED vars

Next ==
    \/ \E passed \in {0, 1} : makeLog(passed)
    \/ AppendHead \/ AppendDash \/ AppendFunc \/ Insert
    \/ Release
    \/ Gone

Spec == Init /\ [][Next]_vars

-----------------------------------------------------------------------------
(* Properties.                                                             *)

(* All that was appended is handed over or still in the buffer, in order   *)
(* and once, through line flushes, overflows, flushes by time and the      *)
(* destructor, and though makeLog() takes three characters back.           *)
NothingLost ==
    pc # "crashed" => out \o buf = NextChars(0, count)

IsFirst(c) == \E k \in 1..Len(records) : records[k].first = c

(* A hand-over ends where a record begins or, in line mode, at a newline,  *)
(* so that the records of several threads, which take turns in handing     *)
(* over, never get mixed up inside a record (logStream.h:46-48).  Only the *)
(* last hand-over, by the destructor, ends where the text does.            *)
WholeRecordsHandedOver ==
    \A c \in cuts :
        \/ IsFirst(c + 1)
        \/ lineMode /\ c \in newlines
        \/ pc = "released" /\ c = count

(* What may wait in the buffer.  In full mode a second's records do not    *)
(* stay behind: when the second record of a later second begins they are   *)
(* all handed over, so that what is in the buffer is of one second, except *)
(* for the record last begun (logStream.cpp:128).  In line mode no line    *)
(* does: between two appends the buffer holds no newline, except that an   *)
(* empty line can wait at its front (logStream.cpp:77).                    *)
OneSecondBuffered ==
    \A j \in 1..Len(records) : \A k \in 1..Len(records) :
        /\ j < k /\ k < Len(records)
        /\ Len(out) < records[j].first
        => records[j].second = records[k].second
NoLineBuffered == \A k \in 2..Len(buf) : buf[k] \notin newlines
NothingStaysBehind ==
    pc # "crashed" => IF lineMode THEN NoLineBuffered ELSE OneSecondBuffered

(* append() fails only for a record which does not fit into the buffer     *)
(* itself, in line mode not even without the lines already handed over,    *)
(* however many records, of whatever length, came before.  The comment in  *)
(* logStream.h:102 takes for granted that there is none.                   *)
OnlyLongRecordsFail ==
    pc = "crashed" => /\ count - Last(records).first + 1 >= kBufferSize
                      /\ count - Len(out) >= kBufferSize
=============================================================================
