-------------------------- MODULE LogStreamProofs --------------------------
(***************************************************************************)
(* Proofs about LogStream, for every size of the buffer and every text.    *)
(***************************************************************************)
EXTENDS LogStream, SequenceTheorems, WellFoundedInduction, TLAPS

-----------------------------------------------------------------------------
(* The text.                                                               *)

LEMMA NextCharsSeq ==
    ASSUME NEW k \in Nat, NEW n \in Nat
    PROVE  /\ NextChars(k, n) \in Seq(Nat)
           /\ Len(NextChars(k, n)) = n
           /\ \A j \in 1..n : NextChars(k, n)[j] = k + j
<1>1. NextChars(k, n) \in [1..n -> Nat]
  BY DEF NextChars
<1>2. NextChars(k, n) \in Seq(Nat)
  BY <1>1, SeqDef
<1> QED
  BY <1>1, <1>2, LenProperties DEF NextChars

(* A sequence of characters that follow one another is a stretch.          *)
LEMMA IsStretch ==
    ASSUME NEW S, NEW s \in Seq(S), NEW k \in Nat, NEW n \in Nat,
           Len(s) = n, \A j \in 1..n : s[j] = k + j
    PROVE  s = NextChars(k, n)
<1>1. DOMAIN s = 1..n /\ s = [j \in DOMAIN s |-> s[j]]
  BY LenProperties
<1> QED
  BY <1>1 DEF NextChars

LEMMA ConcatStretch ==
    ASSUME NEW k \in Nat, NEW m \in Nat, NEW n \in Nat
    PROVE  NextChars(k, m) \o NextChars(k + m, n) = NextChars(k, m + n)
<1> DEFINE s == NextChars(k, m)
           t == NextChars(k + m, n)
<1>1. s \in Seq(Nat) /\ Len(s) = m /\ \A j \in 1..m : s[j] = k + j
  BY NextCharsSeq
<1>2. t \in Seq(Nat) /\ Len(t) = n /\ \A j \in 1..n : t[j] = (k + m) + j
  <2>1. k + m \in Nat
    OBVIOUS
  <2> HIDE DEF s
  <2> QED
    BY <2>1, NextCharsSeq
<1> HIDE DEF s, t
<1>3. /\ s \o t \in Seq(Nat)
      /\ Len(s \o t) = m + n
      /\ \A j \in 1..(m + n) :
            (s \o t)[j] = IF j <= m THEN s[j] ELSE t[j - m]
  BY <1>1, <1>2, ConcatProperties
<1>4. \A j \in 1..(m + n) : (s \o t)[j] = k + j
  BY <1>1, <1>2, <1>3
<1>5. s \o t = NextChars(k, m + n)
  <2>1. m + n \in Nat
    OBVIOUS
  <2> QED
    BY <2>1, <1>3, <1>4, IsStretch
<1> QED
  BY <1>5 DEF s, t

LEMMA SubStretch ==
    ASSUME NEW k \in Nat, NEW n \in Nat,
           NEW a \in 1..(n + 1), NEW b \in (a - 1)..n
    PROVE  SubSeq(NextChars(k, n), a, b) = NextChars(k + a - 1, b - a + 1)
<1> DEFINE s == NextChars(k, n)
           t == SubSeq(s, a, b)
<1>1. s \in Seq(Nat) /\ Len(s) = n /\ \A j \in 1..n : s[j] = k + j
  BY NextCharsSeq
<1> HIDE DEF s
<1>2. /\ t \in Seq(Nat)
      /\ Len(t) = b - a + 1
      /\ \A j \in 1..(b - a + 1) : t[j] = s[a + j - 1]
  BY <1>1, SubSeqProperties
<1>3. \A j \in 1..(b - a + 1) : t[j] = (k + a - 1) + j
  BY <1>1, <1>2
<1> HIDE DEF t
<1>4. t = NextChars(k + a - 1, b - a + 1)
  BY <1>2, <1>3, IsStretch
<1> QED
  BY <1>4 DEF s, t

LEMMA FrontOfStretch ==
    ASSUME NEW k \in Nat, NEW n \in Nat \ {0}
    PROVE  Front(NextChars(k, n)) = NextChars(k, n - 1)
<1>1. Front(NextChars(k, n)) = SubSeq(NextChars(k, n), 1, n - 1)
  BY NextCharsSeq DEF Front
<1>2. 1 \in 1..(n + 1) /\ n - 1 \in (1 - 1)..n
  OBVIOUS
<1>3. SubSeq(NextChars(k, n), 1, n - 1) = NextChars(k + 1 - 1, (n - 1) - 1 + 1)
  BY <1>2, SubStretch
<1>4. k + 1 - 1 = k /\ (n - 1) - 1 + 1 = n - 1
  OBVIOUS
<1> QED
  BY <1>1, <1>3, <1>4

LEMMA StretchInText ==
    ASSUME NEW k \in Nat, NEW n \in Nat, NEW m \in Nat, k + n <= m
    PROVE  NextChars(k, n) \in Seq(1..m)
<1>1. NextChars(k, n) \in [1..n -> 1..m]
  BY DEF NextChars
<1> QED
  BY <1>1, SeqDef

-----------------------------------------------------------------------------
(* The search for the last newline.                                        *)

LEMMA HasMaximum ==
    ASSUME NEW n \in Nat, NEW I, I \subseteq 1..n, I # {}
    PROVE  Max(I) \in I /\ \A y \in I : Max(I) >= y
<1> DEFINE T == {d \in Nat : n - d \in I}
           R == OpToRel(<, Nat)
<1>1. T \subseteq Nat /\ T # {}
  <2>1. PICK i \in I : TRUE
    OBVIOUS
  <2>2. n - i \in T
    BY <2>1
  <2> QED
    BY <2>2
<1>2. \E d \in T : \A y \in T : ~ (<<y, d>> \in R)
  <2> HIDE DEF T, R
  <2>1. IsWellFoundedOn(R, Nat)
    BY NatLessThanWellFounded DEF R
  <2> QED
    BY <1>1, <2>1, WFMin
<1>3. PICK d \in T : \A y \in T : ~ (y < d)
  BY <1>1, <1>2 DEF OpToRel
<1>4. n - d \in I
  OBVIOUS
<1>5. \A y \in I : n - d >= y
  <2> TAKE y \in I
  <2>1. y \in Int /\ n - y \in Nat /\ n - (n - y) = y
    OBVIOUS
  <2>2. n - y \in T
    BY <2>1
  <2> QED
    BY <1>3, <2>1, <2>2
<1> QED
  BY <1>4, <1>5 DEF Max

LEMMA LastNewlineIs ==
    ASSUME NEW k \in Nat, NEW n \in Nat, NEW nls, NEW last,
           last = LastNewline(NextChars(k, n), nls)
    PROVE  /\ last \in 0..n
           /\ last > 0 => k + last \in nls
           /\ \A j \in (last + 1)..n : k + j \notin nls
<1> DEFINE s == NextChars(k, n)
           I == {i \in 1..n : s[i] \in nls}
<1>1. Len(s) = n /\ \A j \in 1..n : s[j] = k + j
  BY NextCharsSeq
<1>2. last = IF I # {} THEN Max(I) ELSE 0
  BY <1>1 DEF LastNewline, SelectLastInSeq
<1> HIDE DEF s
<1>3. CASE I = {}
  BY <1>1, <1>2, <1>3
<1>4. CASE I # {}
  <2>1. last \in I /\ \A y \in I : last >= y
    BY <1>2, <1>4, HasMaximum
  <2> QED
    BY <1>1, <2>1
<1> QED
  BY <1>3, <1>4

-----------------------------------------------------------------------------
(* The inductive invariant.                                                *)

Taken == Len(out)
LastRecord == records[Len(records)]

(* out and buf are consecutive stretches of the text, which is all of it   *)
(* unless an append brought the program down.                              *)
Stretches ==
    /\ out = NextChars(0, Len(out))
    /\ buf = NextChars(Len(out), Len(buf))
    /\ IF pc = "crashed" THEN Len(out) + Len(buf) <= count
                         ELSE Len(out) + Len(buf) = count

(* Where the thread stands in its record, which begins at _end.            *)
RecordBegun ==
    LET first == LastRecord.first
    IN /\ pc = "idle" => records = <<>> /\ count = 0 /\ end = 0
       /\ pc \in {"head", "dash", "func", "body"} =>
             /\ records # <<>>
             /\ Len(out) + end = first - 1
       /\ pc = "head" => count = first - 1 /\ count + 3 <= MaxChars
       /\ pc = "dash" => count = first /\ count + 2 <= MaxChars
       /\ pc = "func" => /\ count = first + 1 /\ count + 1 <= MaxChars
                         /\ Len(buf) >= 1
       /\ pc = "body" => count > first

(* Earlier records have at least one character.                            *)
FirstsInText ==
    /\ \A k \in 1..Len(records) : k < Len(records) => records[k].first <= count
    /\ pc = "body" => \A k \in 1..Len(records) : records[k].first <= count

(* Unless the next record will flush the buffer, the record begun last is  *)
(* of the same second as the others that wait.                             *)
SameSecond ==
    ~lineMode /\ ~needFlush =>
        \A j \in 1..Len(records) :
            j < Len(records) /\ Len(out) < records[j].first =>
                records[j].second = LastRecord.second

StreamInv ==
    /\ TypeOK
    /\ Stretches
    /\ RecordBegun
    /\ newlines \subseteq 1..count
    /\ FirstsInText
    /\ SameSecond
    /\ NothingStaysBehind
    /\ WholeRecordsHandedOver
    /\ OnlyLongRecordsFail

-----------------------------------------------------------------------------
(* What append() does to stretches.                                        *)

LEMMA CopyStep ==
    ASSUME lineMode \in BOOLEAN,
           NEW l \in Nat, NEW m \in Nat, NEW n \in Nat, NEW e \in Int,
           NEW c, NEW nls,
           Copy(NextChars(l, m), e, NextChars(0, l), c,
                NextChars(l + m, n), nls)
    PROVE  \E d \in 0..(m + n) :
              /\ out' = NextChars(0, l + d)
              /\ buf' = NextChars(l + d, m + n - d)
              /\ end' = e - d
              /\ \A x \in cuts' : x \in c \/ (lineMode /\ d > 0 /\ x = l + d)
              /\ d > 0 => l + d \in nls
              /\ lineMode => \A j \in (d + 2)..(m + n) : l + j \notin nls
<1> DEFINE last == LastNewline(NextChars(l, m + n), nls)
<1>1. NextChars(l, m) \o NextChars(l + m, n) = NextChars(l, m + n)
  BY ConcatStretch
<1>2. m + n \in Nat /\ l + m \in Nat
  OBVIOUS
<1>3. /\ last \in 0..(m + n)
      /\ last > 0 => l + last \in nls
      /\ \A j \in (last + 1)..(m + n) : l + j \notin nls
  <2> DEFINE k == m + n
  <2> HIDE DEF k
  <2>1. /\ LastNewline(NextChars(l, k), nls) \in 0..k
        /\ LastNewline(NextChars(l, k), nls) > 0 =>
              l + LastNewline(NextChars(l, k), nls) \in nls
        /\ \A j \in (LastNewline(NextChars(l, k), nls) + 1)..k : l + j \notin nls
    BY <1>2, LastNewlineIs DEF k
  <2> QED
    BY <2>1 DEF k
<1>4. Len(NextChars(l, m + n)) = m + n
  BY <1>2, NextCharsSeq
<1>5. Copy(NextChars(l, m), e, NextChars(0, l), c, NextChars(l + m, n), nls)
      = IF lineMode /\ last > 1
        THEN /\ HandOver(NextChars(l, m + n), last, NextChars(0, l), c)
             /\ buf' = SubSeq(NextChars(l, m + n), last + 1, m + n)
             /\ end' = e - last
        ELSE /\ buf' = NextChars(l, m + n)
             /\ end' = e
             /\ out' = NextChars(0, l)
             /\ cuts' = c
  BY <1>1, <1>4 DEF Copy
<1> HIDE DEF last
<1>6. CASE lineMode /\ last > 1
  <2>1. /\ SubSeq(NextChars(l, m + n), 1, last) = NextChars(l, last)
        /\ SubSeq(NextChars(l, m + n), last + 1, m + n)
              = NextChars(l + last, m + n - last)
    <3> DEFINE k == m + n
    <3>1. /\ k \in Nat /\ k = m + n
          /\ 1 \in 1..(k + 1) /\ last \in (1 - 1)..k
          /\ last + 1 \in 1..(k + 1) /\ k \in ((last + 1) - 1)..k
      BY <1>3
    <3> HIDE DEF k
    <3>2. SubSeq(NextChars(l, k), 1, last) = NextChars(l + 1 - 1, last - 1 + 1)
      BY <3>1, SubStretch
    <3>3. SubSeq(NextChars(l, k), last + 1, k)
            = NextChars(l + (last + 1) - 1, k - (last + 1) + 1)
      BY <3>1, SubStretch
    <3>4. /\ l + 1 - 1 = l /\ last - 1 + 1 = last
          /\ l + (last + 1) - 1 = l + last /\ k - (last + 1) + 1 = k - last
      BY <3>1
    <3> QED
      BY <3>1, <3>2, <3>3, <3>4
  <2>2. NextChars(0, l) \o NextChars(l, last) = NextChars(0, l + last)
    <3>1. last \in Nat /\ 0 \in Nat /\ 0 + l = l
      BY <1>3
    <3>2. NextChars(0, l) \o NextChars(0 + l, last) = NextChars(0, l + last)
      BY <3>1, ConcatStretch
    <3> QED
      BY <3>1, <3>2
  <2>3. out' = NextChars(0, l + last) /\ Len(out') = l + last
    <3>1. out' = NextChars(0, l + last)
      BY <1>5, <1>6, <2>1, <2>2 DEF HandOver
    <3>2. l + last \in Nat /\ 0 \in Nat
      BY <1>3
    <3> QED
      BY <3>1, <3>2, NextCharsSeq
  <2>4. cuts' = c \cup {l + last}
    BY <1>5, <1>6, <2>3 DEF HandOver
  <2>5. buf' = NextChars(l + last, m + n - last) /\ end' = e - last
    BY <1>5, <1>6, <2>1
  <2>6. \A j \in (last + 2)..(m + n) : l + j \notin nls
    BY <1>3
  <2>7. \A x \in cuts' : x \in c \/ (lineMode /\ last > 0 /\ x = l + last)
    BY <1>3, <1>6, <2>4
  <2> QED
    BY <1>3, <2>3, <2>5, <2>6, <2>7
<1>7. CASE ~(lineMode /\ last > 1)
  <2>0. /\ out' = NextChars(0, l) /\ buf' = NextChars(l, m + n)
        /\ end' = e /\ cuts' = c
    BY <1>5, <1>7
  <2>1. /\ out' = NextChars(0, l + 0) /\ buf' = NextChars(l + 0, m + n - 0)
        /\ end' = e - 0 /\ cuts' = c
    <3>1. l + 0 = l /\ m + n - 0 = m + n /\ e - 0 = e
      OBVIOUS
    <3> QED
      BY <2>0, <3>1
  <2>2. lineMode => \A j \in 2..(m + n) : l + j \notin nls
    BY <1>3, <1>7
  <2>3. 0 \in 0..(m + n) /\ \A j \in (0 + 2)..(m + n) : j \in 2..(m + n)
    OBVIOUS
  <2> QED
    BY <2>1, <2>2, <2>3
<1> QED
  BY <1>6, <1>7

(* What append() of n characters after the first m in the buffer may do:   *)
(* hand over d characters, up to where a record or a line ends.            *)
AppendedTo(m, n, nls, d) ==
    /\ m + n - d < kBufferSize
    /\ out' = NextChars(0, Len(out) + d)
    /\ buf' = NextChars(Len(out) + d, m + n - d)
    /\ end' = end - d
    /\ \A x \in cuts' : \/ x \in cuts
                        \/ end > 0 /\ x = Len(out) + end
                        \/ lineMode /\ x = Len(out) + d /\ x \in nls
    /\ d > 0 => d = end \/ Len(out) + d \in nls
    /\ lineMode => \A j \in (d + 2)..(m + n) : Len(out) + j \notin nls

TooLong(m, n) ==
    /\ m + n >= kBufferSize
    /\ m + n - end >= kBufferSize

LEMMA AppendCase ==
    ASSUME LogStreamAssumption, lineMode \in BOOLEAN, end \in Int,
           Len(out) \in Nat, out = NextChars(0, Len(out)),
           NEW m \in Nat, NEW n \in Nat, end <= m, NEW nls, NEW next,
           append(NextChars(Len(out), m), NextChars(Len(out) + m, n), nls, next)
    PROVE  \/ pc' = "crashed" /\ UNCHANGED streamVars /\ TooLong(m, n)
           \/ pc' = next /\ \E d \in 0..(m + n) : AppendedTo(m, n, nls, d)
<1> DEFINE l == Len(out)
           text == NextChars(l, m)
           piece == NextChars(l + m, n)
<1>1. Len(text) = m /\ Len(piece) = n /\ l + m \in Nat
  <2>1. Len(text) = m
    BY NextCharsSeq
  <2>2. l + m \in Nat
    OBVIOUS
  <2>3. Len(piece) = n
    BY <2>2, NextCharsSeq
  <2> QED
    BY <2>1, <2>2, <2>3
<1>2. HasRoom(text, piece) <=> m + n < kBufferSize
  BY <1>1 DEF HasRoom, LogStreamAssumption
<1>3. ASSUME end > 0
      PROVE  /\ Kept(text) = NextChars(l + end, m - end)
             /\ m - end \in Nat /\ l + end \in Nat
             /\ HasRoom(Kept(text), piece) <=> m + n - end < kBufferSize
  <2>1. /\ end + 1 \in 1..(m + 1) /\ m \in ((end + 1) - 1)..m
        /\ l + (end + 1) - 1 = l + end /\ m - (end + 1) + 1 = m - end
        /\ m - end \in Nat /\ l + end \in Nat
    BY <1>3
  <2>2. Kept(text) = SubSeq(text, end + 1, m)
    BY <1>1 DEF Kept
  <2>3. SubSeq(text, end + 1, m)
          = NextChars(l + (end + 1) - 1, m - (end + 1) + 1)
    BY <2>1, SubStretch
  <2>4. Kept(text) = NextChars(l + end, m - end)
    BY <2>1, <2>2, <2>3
  <2>5. Len(Kept(text)) = m - end
    <3>1. Len(NextChars(l + end, m - end)) = m - end
      BY <2>1, NextCharsSeq
    <3> QED
      BY <2>4, <3>1
  <2> HIDE DEF text, piece
  <2>6. HasRoom(Kept(text), piece) <=> m + n - end < kBufferSize
    BY <1>1, <2>5 DEF HasRoom, LogStreamAssumption
  <2> QED
    BY <2>1, <2>4, <2>6
<1>4. CASE /\ HasRoom(text, piece)
           /\ Copy(text, end, out, cuts, piece, nls)
           /\ pc' = next
  <2>1. Copy(NextChars(l, m), end, NextChars(0, l), cuts,
             NextChars(l + m, n), nls)
    BY <1>4
  <2>2. PICK d \in 0..(m + n) :
              /\ out' = NextChars(0, l + d)
              /\ buf' = NextChars(l + d, m + n - d)
              /\ end' = end - d
              /\ \A x \in cuts' : x \in cuts \/ (lineMode /\ d > 0 /\ x = l + d)
              /\ d > 0 => l + d \in nls
              /\ lineMode => \A j \in (d + 2)..(m + n) : l + j \notin nls
    BY <2>1, CopyStep
  <2>3. m + n - d < kBufferSize
    BY <1>2, <1>4 DEF LogStreamAssumption
  <2>4. AppendedTo(m, n, nls, d)
    BY <2>2, <2>3 DEF AppendedTo
  <2> QED
    BY <1>4, <2>4
<1>5. CASE /\ ~HasRoom(text, piece)
           /\ end > 0
           /\ HasRoom(Kept(text), piece)
           /\ LET o == out \o SubSeq(text, 1, Complete(text))
              IN Copy(Kept(text), 0, o, cuts \cup {Len(o)}, piece, nls)
           /\ pc' = next
  <2> DEFINE k == l + end
             r == m - end
  <2>1. /\ k \in Nat /\ r \in Nat /\ k + r = l + m
        /\ Kept(text) = NextChars(k, r)
    BY <1>3, <1>5
  <2>2. out \o SubSeq(text, 1, Complete(text)) = NextChars(0, k)
    <3>1. end \in Nat /\ 1 \in 1..(m + 1) /\ end \in (1 - 1)..m
      BY <1>5
    <3>2. SubSeq(text, 1, end) = NextChars(l + 1 - 1, end - 1 + 1)
      BY <3>1, SubStretch
    <3>3. l + 1 - 1 = l /\ end - 1 + 1 = end
      BY <3>1
    <3>4. SubSeq(text, 1, Complete(text)) = NextChars(0 + l, end)
      BY <3>2, <3>3 DEF Complete
    <3>5. NextChars(0, l) \o NextChars(0 + l, end) = NextChars(0, l + end)
      <4>1. 0 \in Nat
        OBVIOUS
      <4> QED
        BY <3>1, <4>1, ConcatStretch
    <3> QED
      BY <3>4, <3>5
  <2>3. Len(NextChars(0, k)) = k
    BY <2>1, NextCharsSeq
  <2>4. Copy(NextChars(k, r), 0, NextChars(0, k), cuts \cup {k},
             NextChars(k + r, n), nls)
    BY <1>5, <2>1, <2>2, <2>3
  <2> HIDE DEF k, r
  <2>5. PICK d \in 0..(r + n) :
              /\ out' = NextChars(0, k + d)
              /\ buf' = NextChars(k + d, r + n - d)
              /\ end' = 0 - d
              /\ \A x \in cuts' :
                    (x \in cuts \cup {k}) \/ (lineMode /\ d > 0 /\ x = k + d)
              /\ d > 0 => k + d \in nls
              /\ lineMode => \A j \in (d + 2)..(r + n) : k + j \notin nls
    <3> DEFINE c == cuts \cup {k}
    <3>1. Copy(NextChars(k, r), 0, NextChars(0, k), c, NextChars(k + r, n), nls)
      BY <2>4
    <3> HIDE DEF c
    <3>2. 0 \in Int /\ k \in Nat /\ r \in Nat
      BY <2>1
    <3>3. \E d \in 0..(r + n) :
              /\ out' = NextChars(0, k + d)
              /\ buf' = NextChars(k + d, r + n - d)
              /\ end' = 0 - d
              /\ \A x \in cuts' : x \in c \/ (lineMode /\ d > 0 /\ x = k + d)
              /\ d > 0 => k + d \in nls
              /\ lineMode => \A j \in (d + 2)..(r + n) : k + j \notin nls
      BY <3>1, <3>2, CopyStep
    <3> QED
      BY <3>3 DEF c
  <2> DEFINE dd == end + d
  <2>6. /\ dd \in 0..(m + n)
        /\ k + d = l + dd /\ r + n - d = m + n - dd /\ 0 - d = end - dd
    BY <1>5 DEF k, r
  <2>7. m + n - dd < kBufferSize
    BY <1>3, <1>5 DEF LogStreamAssumption
  <2>8. lineMode => \A j \in (dd + 2)..(m + n) : l + j \notin nls
    <3> SUFFICES ASSUME lineMode, NEW j \in (dd + 2)..(m + n)
                 PROVE  l + j \notin nls
      OBVIOUS
    <3>1. j - end \in (d + 2)..(r + n) /\ k + (j - end) = l + j
      BY <1>5 DEF k, r
    <3> QED
      BY <2>5, <3>1
  <2>9. \A x \in cuts' :
          \/ x \in cuts
          \/ end > 0 /\ x = l + end
          \/ lineMode /\ x = l + dd /\ x \in nls
    <3> TAKE x \in cuts'
    <3>1. CASE x \in cuts \cup {k}
      <4>1. k = l + end
        BY DEF k
      <4>2. end > 0
        BY <1>5
      <4> QED
        BY <3>1, <4>1, <4>2
    <3>2. CASE lineMode /\ d > 0 /\ x = k + d
      BY <2>5, <2>6, <3>2
    <3> QED
      BY <2>5, <3>1, <3>2
  <2>10. dd > 0 => dd = end \/ l + dd \in nls
    BY <2>5, <2>6
  <2>11. /\ out' = NextChars(0, l + dd)
         /\ buf' = NextChars(l + dd, m + n - dd)
         /\ end' = end - dd
    BY <2>5, <2>6
  <2> HIDE DEF dd
  <2>12. AppendedTo(m, n, nls, dd)
    BY <2>7, <2>8, <2>9, <2>10, <2>11 DEF AppendedTo
  <2> QED
    BY <1>5, <2>6, <2>12
<1>6. CASE /\ ~HasRoom(text, piece)
           /\ end > 0 => ~HasRoom(Kept(text), piece)
           /\ pc' = "crashed"
           /\ UNCHANGED streamVars
  <2>1. m + n >= kBufferSize
    BY <1>2, <1>6 DEF LogStreamAssumption
  <2>2. m + n - end >= kBufferSize
    BY <1>3, <1>6, <2>1 DEF LogStreamAssumption
  <2> QED
    BY <1>6, <2>1, <2>2 DEF TooLong
<1> QED
  BY <1>4, <1>5, <1>6 DEF append

-----------------------------------------------------------------------------
(* The invariant is inductive.                                             *)

LEMMA InRecord ==
    ASSUME StreamInv, records # <<>>
    PROVE  /\ Len(records) \in Nat \ {0}
           /\ LastRecord = Last(records)
           /\ LastRecord.first \in Nat /\ LastRecord.second \in Nat
           /\ \A k \in 1..Len(records) :
                 records[k].first \in Nat /\ records[k].second \in Nat
<1>1. records \in Seq(Record)
  BY DEF StreamInv, TypeOK
<1>2. Len(records) \in Nat \ {0}
  BY <1>1, EmptySeq
<1>3. \A k \in 1..Len(records) : records[k] \in Record
  BY <1>1, ElementOfSeq
<1> QED
  BY <1>2, <1>3 DEF LastRecord, Last, Record

LEMMA InitStream == LogStreamAssumption /\ Init => StreamInv
<1> SUFFICES ASSUME LogStreamAssumption, Init PROVE StreamInv
  OBVIOUS
<1>1. /\ <<>> \in Seq(1..MaxChars) /\ <<>> \in Seq(Record) /\ Len(<<>>) = 0
      /\ <<>> = NextChars(0, 0)
  BY EmptySeq DEF NextChars
<1>2. TypeOK
  <2>1. /\ lineMode \in BOOLEAN /\ needFlush \in BOOLEAN /\ pc = "idle"
        /\ buf \in Seq(1..MaxChars) /\ out \in Seq(1..MaxChars)
        /\ records \in Seq(Record) /\ Len(buf) = 0
        /\ cuts = {} /\ newlines = {} /\ end = 0 /\ count = 0
    BY <1>1 DEF Init
  <2>2. 0 < kBufferSize /\ 0 \in 0..MaxChars
    BY DEF LogStreamAssumption
  <2> QED
    BY <2>1, <2>2 DEF TypeOK
<1>3. Stretches
  BY <1>1 DEF Init, Stretches
<1>4. RecordBegun /\ FirstsInText
  BY <1>1 DEF Init, RecordBegun, FirstsInText
<1>5. SameSecond /\ NothingStaysBehind
  BY <1>1 DEF Init, NoLineBuffered, SameSecond, NothingStaysBehind,
              OneSecondBuffered
<1>6. WholeRecordsHandedOver /\ OnlyLongRecordsFail
  BY DEF Init, WholeRecordsHandedOver, OnlyLongRecordsFail
<1> QED
  BY <1>2, <1>3, <1>4, <1>5, <1>6 DEF StreamInv, Init

(* The steps that append n characters after the first m in the buffer.     *)
LEMMA AppendStep ==
    ASSUME LogStreamAssumption, StreamInv,
           pc \in {"head", "dash", "func", "body"},
           NEW m \in Nat, NEW n \in Nat \ {0},
           NEW nls, newlines \subseteq nls, nls \subseteq 1..(Len(out) + m + n),
           NEW next \in {"dash", "func", "body"},
           end <= m, count <= Len(out) + m + n, Len(out) + m + n <= MaxChars,
           append(NextChars(Len(out), m), NextChars(Len(out) + m, n), nls, next),
           count' = Len(out) + m + n, newlines' = nls,
           UNCHANGED <<lineMode, needFlush, records>>,
           next = "dash" => count' = LastRecord.first /\ count' + 2 <= MaxChars,
           next = "func" => /\ count' = LastRecord.first + 1
                            /\ count' + 1 <= MaxChars
                            /\ count' \notin nls,
           next = "body" => count' > LastRecord.first
    PROVE  StreamInv'
<1> DEFINE l == Len(out)
           first == LastRecord.first
<1>1. /\ lineMode \in BOOLEAN /\ end \in Int /\ l \in Nat /\ count \in Nat
      /\ needFlush \in BOOLEAN /\ cuts \subseteq 0..MaxChars
      /\ out = NextChars(0, l) /\ kBufferSize \in Nat /\ MaxChars \in Nat
      /\ newlines \subseteq 1..count
  BY LenProperties DEF StreamInv, TypeOK, Stretches, LogStreamAssumption
<1>2. records # <<>> /\ l + end = first - 1
  BY DEF StreamInv, RecordBegun
<1>3. /\ first \in Nat /\ LastRecord.second \in Nat
      /\ Len(records) \in Nat \ {0} /\ LastRecord = Last(records)
      /\ \A k \in 1..Len(records) :
            records[k].first \in Nat /\ records[k].second \in Nat
      /\ LastRecord = records[Len(records)]
  BY <1>2, InRecord DEF LastRecord
<1>4. LastRecord' = LastRecord /\ \A c : IsFirst(c) => IsFirst(c)'
  BY DEF LastRecord, IsFirst
<1>5. records \in Seq(Record)
  BY DEF StreamInv, TypeOK
<1>6. \A k \in 1..Len(records) : k < Len(records) => records[k].first <= count
  BY DEF StreamInv, FirstsInText
<1>7. FirstsInText'
  <2>1. next = "body" => first <= count'
    BY <1>1, <1>3
  <2>2. pc' = next \/ pc' = "crashed"
    BY <1>1, AppendCase
  <2>3. \A k \in 1..Len(records) : records[k].first <= count \/ k = Len(records)
    BY <1>3, <1>6
  <2>4. \A k \in 1..Len(records) : k < Len(records) => records[k].first <= count'
    BY <1>1, <1>3, <1>6
  <2>5. next = "body" => \A k \in 1..Len(records) : records[k].first <= count'
    BY <1>1, <1>3, <2>1, <2>3
  <2> QED
    BY <2>2, <2>4, <2>5 DEF FirstsInText
<1>8. \A x \in cuts : IsFirst(x + 1) \/ (lineMode /\ x \in newlines)
  BY DEF StreamInv, WholeRecordsHandedOver
<1>9. IsFirst(first)
  BY <1>3 DEF IsFirst
<1>10. CASE pc' = "crashed" /\ UNCHANGED streamVars /\ TooLong(m, n)
  <2>1. TypeOK'
    BY <1>1, <1>10 DEF StreamInv, TypeOK, streamVars
  <2>2. Stretches'
    BY <1>1, <1>10 DEF StreamInv, TypeOK, Stretches, streamVars
  <2>3. RecordBegun'
    BY <1>10 DEF RecordBegun
  <2>4. SameSecond'
    BY <1>4, <1>10 DEF StreamInv, SameSecond, streamVars
  <2>5. NothingStaysBehind'
    BY <1>10 DEF NothingStaysBehind
  <2>6. WholeRecordsHandedOver'
    BY <1>4, <1>8, <1>10 DEF WholeRecordsHandedOver, streamVars
  <2>7. OnlyLongRecordsFail'
    BY <1>1, <1>2, <1>3, <1>4, <1>10 DEF OnlyLongRecordsFail, TooLong, streamVars
  <2> QED
    BY <1>7, <2>1, <2>2, <2>3, <2>4, <2>5, <2>6, <2>7 DEF StreamInv
<1>11. CASE pc' = next /\ \E d \in 0..(m + n) : AppendedTo(m, n, nls, d)
  <2>1. PICK d \in 0..(m + n) : AppendedTo(m, n, nls, d)
    BY <1>11
  <2> DEFINE k == l + d
             r == m + n - d
  <2>2. k \in Nat /\ r \in Nat /\ k + r = count' /\ k >= l /\ count' \in Nat
    BY <1>1
  <2>3. /\ out' = NextChars(0, k) /\ Len(out') = k /\ out' \in Seq(1..MaxChars)
        /\ buf' = NextChars(k, r) /\ Len(buf') = r /\ buf' \in Seq(1..MaxChars)
        /\ \A j \in 1..r : buf'[j] = k + j
    <3>1. out' = NextChars(0, k) /\ buf' = NextChars(k, r)
      BY <2>1 DEF AppendedTo
    <3> HIDE DEF k, r
    <3>2. 0 \in Nat /\ 0 + k <= MaxChars /\ k + r <= MaxChars
      BY <1>1, <2>2
    <3>3. Len(NextChars(0, k)) = k /\ NextChars(0, k) \in Seq(1..MaxChars)
      BY <1>1, <2>2, <3>2, NextCharsSeq, StretchInText
    <3>4. /\ Len(NextChars(k, r)) = r
          /\ \A j \in 1..r : NextChars(k, r)[j] = k + j
      BY <2>2, NextCharsSeq
    <3>5. NextChars(k, r) \in Seq(1..MaxChars)
      BY <1>1, <2>2, <3>2, StretchInText
    <3> QED
      BY <3>1, <3>3, <3>4, <3>5
  <2>4. r < kBufferSize /\ end' = end - d
    BY <2>1 DEF AppendedTo
  <2>5. k + end' = first - 1 /\ end' \in Int
    BY <1>1, <1>2, <2>4
  <2>6. \A x \in cuts' :
          \/ x \in cuts
          \/ end > 0 /\ x = l + end
          \/ lineMode /\ x \in nls
    BY <2>1 DEF AppendedTo
  <2>7. cuts' \subseteq 0..MaxChars
    <3>1. nls \subseteq 0..MaxChars
      BY <1>1
    <3>2. end > 0 => l + end \in 0..MaxChars
      BY <1>1
    <3> QED
      BY <1>1, <2>6, <3>1, <3>2
  <2>8. d > 0 => d = end \/ l + d \in nls
    BY <2>1 DEF AppendedTo
  <2>9. lineMode => \A j \in (d + 2)..(m + n) : l + j \notin nls
    BY <2>1 DEF AppendedTo
  <2> HIDE DEF k, r
  <2>10. TypeOK'
    <3>1. newlines' \subseteq 1..MaxChars /\ count' \in 0..MaxChars
      BY <1>1
    <3> QED
      BY <1>1, <1>5, <1>11, <2>3, <2>4, <2>5, <2>7, <3>1 DEF TypeOK
  <2>11. Stretches'
    BY <1>11, <2>2, <2>3 DEF Stretches
  <2>12. RecordBegun'
    <3>1. next = "func" => r >= 1
      <4> SUFFICES ASSUME next = "func", r = 0 PROVE FALSE
        BY <2>2
      <4>1. d = m + n /\ d > 0 /\ l + d = count'
        BY <1>1 DEF r
      <4>2. d = end
        BY <2>8, <4>1
      <4>3. l + d = first + 1
        BY <4>1
      <4> QED
        BY <1>1, <1>2, <1>3, <4>2, <4>3
    <3> QED
      BY <1>2, <1>4, <1>11, <2>3, <2>5, <3>1 DEF RecordBegun
  <2>13. newlines' \subseteq 1..count'
    OBVIOUS
  <2>14. SameSecond'
    <3> SUFFICES ASSUME ~lineMode, ~needFlush,
                        NEW j \in 1..Len(records), j < Len(records),
                        k < records[j].first
                 PROVE  records[j].second = LastRecord.second
      BY <1>4, <2>3 DEF SameSecond
    <3>1. l < records[j].first
      BY <1>1, <1>3, <2>2
    <3>2. SameSecond
      BY DEF StreamInv
    <3> QED
      BY <3>1, <3>2 DEF SameSecond
  <2>15. lineMode => NoLineBuffered'
    <3> SUFFICES ASSUME lineMode, NEW j \in 2..r PROVE k + j \notin nls
      BY <2>2, <2>3 DEF NoLineBuffered
    <3>1. d + j \in (d + 2)..(m + n) /\ l + (d + j) = k + j
      BY <1>1 DEF k, r
    <3> QED
      BY <2>9, <3>1
  <2>16. ~lineMode => OneSecondBuffered'
    <3> SUFFICES ASSUME ~lineMode PROVE OneSecondBuffered'
      OBVIOUS
    <3>1. OneSecondBuffered
      BY DEF StreamInv, NothingStaysBehind
    <3>2. OneSecondBuffered'
      <4> SUFFICES ASSUME NEW i \in 1..Len(records), NEW j \in 1..Len(records),
                          i < j, j < Len(records), k < records[i].first
                   PROVE  records[i].second = records[j].second
        BY <2>3 DEF OneSecondBuffered
      <4>1. l < records[i].first
        BY <1>1, <1>3, <2>2
      <4> QED
        BY <3>1, <4>1 DEF OneSecondBuffered
    <3> QED
      BY <3>2
  <2>17. NothingStaysBehind'
    BY <2>15, <2>16 DEF NothingStaysBehind
  <2>18. WholeRecordsHandedOver'
    <3> SUFFICES ASSUME NEW x \in cuts'
                 PROVE  IsFirst(x + 1)' \/ (lineMode /\ x \in nls)
      BY DEF WholeRecordsHandedOver
    <3>1. CASE x \in cuts
      BY <1>4, <1>8, <3>1
    <3>2. CASE end > 0 /\ x = l + end
      <4>1. x + 1 = first
        BY <1>1, <1>2, <1>3, <3>2
      <4> QED
        BY <1>4, <1>9, <4>1
    <3> QED
      BY <2>6, <3>1, <3>2
  <2>19. OnlyLongRecordsFail'
    BY <1>11 DEF OnlyLongRecordsFail
  <2> QED
    BY <1>7, <2>10, <2>11, <2>12, <2>13, <2>14, <2>17, <2>18, <2>19 DEF StreamInv
<1> QED
  BY <1>1, <1>10, <1>11, AppendCase

LEMMA HeadStep == LogStreamAssumption /\ StreamInv /\ AppendHead => StreamInv'
<1> SUFFICES ASSUME LogStreamAssumption, StreamInv, AppendHead PROVE StreamInv'
  OBVIOUS
<1> DEFINE m == Len(buf)
<1>1. /\ m \in Nat /\ Len(out) \in Nat /\ buf = NextChars(Len(out), m)
      /\ Len(out) + m = count /\ count \in Nat /\ MaxChars \in Nat
      /\ newlines \subseteq 1..count /\ end \in Int
  BY LenProperties DEF StreamInv, TypeOK, Stretches, AppendHead, LogStreamAssumption
<1>2. /\ pc = "head" /\ records # <<>>
      /\ Len(out) + end = LastRecord.first - 1
      /\ count = LastRecord.first - 1 /\ count + 3 <= MaxChars
  BY DEF StreamInv, RecordBegun, AppendHead
<1>3. LastRecord.first \in Nat
  BY <1>2, InRecord
<1>4. /\ append(NextChars(Len(out), m), NextChars(Len(out) + m, 1), newlines, "dash")
      /\ count' = count + 1 /\ newlines' = newlines
      /\ UNCHANGED <<lineMode, needFlush, records>>
  <2>1. newlines \cup {} = newlines
    OBVIOUS
  <2> QED
    BY <1>1, <2>1 DEF AppendHead, AppendNext
<1>5. /\ 1 \in Nat \ {0} /\ end <= m /\ count <= Len(out) + m + 1
      /\ Len(out) + m + 1 <= MaxChars /\ count' = Len(out) + m + 1
      /\ newlines \subseteq 1..(Len(out) + m + 1)
      /\ count' = LastRecord.first /\ count' + 2 <= MaxChars
  <2> DEFINE l == Len(out)
             f == LastRecord.first
  <2>1. l \in Nat /\ f \in Nat /\ l + m = count /\ l + end = f - 1 /\ count = f - 1
    BY <1>1, <1>2, <1>3
  <2> HIDE DEF m, l, f
  <2>2. /\ end <= m /\ count <= l + m + 1 /\ l + m + 1 <= MaxChars
        /\ count' = l + m + 1 /\ count' = f /\ count' + 2 <= MaxChars
    BY <1>1, <1>2, <1>4, <2>1
  <2>3. newlines \subseteq 1..(l + m + 1)
    BY <1>1, <2>1
  <2> QED
    BY <2>2, <2>3 DEF l, f
<1> HIDE DEF m
<1> QED
  BY <1>1, <1>2, <1>4, <1>5, AppendStep

LEMMA DashStep == LogStreamAssumption /\ StreamInv /\ AppendDash => StreamInv'
<1> SUFFICES ASSUME LogStreamAssumption, StreamInv, AppendDash PROVE StreamInv'
  OBVIOUS
<1> DEFINE m == Len(buf)
<1>1. /\ m \in Nat /\ Len(out) \in Nat /\ buf = NextChars(Len(out), m)
      /\ Len(out) + m = count /\ count \in Nat /\ MaxChars \in Nat
      /\ newlines \subseteq 1..count /\ end \in Int
  BY LenProperties DEF StreamInv, TypeOK, Stretches, AppendDash, LogStreamAssumption
<1>2. /\ pc = "dash" /\ records # <<>>
      /\ Len(out) + end = LastRecord.first - 1
      /\ count = LastRecord.first /\ count + 2 <= MaxChars
  BY DEF StreamInv, RecordBegun, AppendDash
<1>3. LastRecord.first \in Nat
  BY <1>2, InRecord
<1>4. PICK next \in {"func", "body"} : AppendNext(1, {}, next)
  BY DEF AppendDash
<1>5. /\ append(NextChars(Len(out), m), NextChars(Len(out) + m, 1), newlines, next)
      /\ count' = count + 1 /\ newlines' = newlines
      /\ UNCHANGED <<lineMode, needFlush, records>>
  <2>1. newlines \cup {} = newlines
    OBVIOUS
  <2> QED
    BY <1>1, <1>4, <2>1 DEF AppendNext
<1>6. /\ 1 \in Nat \ {0} /\ end <= m /\ count <= Len(out) + m + 1
      /\ Len(out) + m + 1 <= MaxChars /\ count' = Len(out) + m + 1
      /\ newlines \subseteq 1..(Len(out) + m + 1) /\ count' \notin newlines
      /\ count' = LastRecord.first + 1 /\ count' + 1 <= MaxChars
      /\ count' > LastRecord.first
  <2> DEFINE l == Len(out)
             f == LastRecord.first
  <2>1. l \in Nat /\ f \in Nat /\ l + m = count /\ l + end = f - 1 /\ count = f
    BY <1>1, <1>2, <1>3
  <2> HIDE DEF m, l, f
  <2>2. /\ end <= m /\ count <= l + m + 1 /\ l + m + 1 <= MaxChars
        /\ count' = l + m + 1 /\ count' = f + 1 /\ count' + 1 <= MaxChars
        /\ count' > f
    BY <1>1, <1>2, <1>5, <2>1
  <2>3. newlines \subseteq 1..(l + m + 1) /\ count' \notin newlines
    BY <1>1, <1>5, <2>1
  <2> QED
    BY <2>2, <2>3 DEF l, f
<1> HIDE DEF m
<1> QED
  BY <1>1, <1>2, <1>5, <1>6, AppendStep

(* The dash is the last character in the buffer when it is taken back.     *)
LEMMA FuncStep == LogStreamAssumption /\ StreamInv /\ AppendFunc => StreamInv'
<1> SUFFICES ASSUME LogStreamAssumption, StreamInv, AppendFunc PROVE StreamInv'
  OBVIOUS
<1> DEFINE m == Len(buf) - 1
<1>1. /\ Len(out) \in Nat /\ Len(buf) \in Nat /\ buf = NextChars(Len(out), Len(buf))
      /\ Len(out) + Len(buf) = count /\ count \in Nat /\ MaxChars \in Nat
      /\ newlines \subseteq 1..count /\ end \in Int
  BY LenProperties DEF StreamInv, TypeOK, Stretches, AppendFunc, LogStreamAssumption
<1>2. /\ pc = "func" /\ records # <<>>
      /\ Len(out) + end = LastRecord.first - 1
      /\ count = LastRecord.first + 1 /\ count + 1 <= MaxChars
      /\ Len(buf) >= 1
  BY DEF StreamInv, RecordBegun, AppendFunc
<1>3. LastRecord.first \in Nat
  BY <1>2, InRecord
<1>4. m \in Nat /\ Front(buf) = NextChars(Len(out), m)
  <2>1. Len(buf) \in Nat \ {0}
    BY <1>1, <1>2
  <2>2. Front(NextChars(Len(out), Len(buf))) = NextChars(Len(out), Len(buf) - 1)
    BY <1>1, <2>1, FrontOfStretch
  <2> QED
    BY <1>1, <2>1, <2>2
<1>5. /\ append(NextChars(Len(out), m), NextChars(Len(out) + m, 2), newlines, "body")
      /\ count' = count + 1 /\ newlines' = newlines
      /\ UNCHANGED <<lineMode, needFlush, records>>
  <2>1. count - 1 = Len(out) + m
    BY <1>1
  <2> QED
    BY <1>4, <2>1 DEF AppendFunc
<1>6. /\ 2 \in Nat \ {0} /\ end <= m /\ count <= Len(out) + m + 2
      /\ Len(out) + m + 2 <= MaxChars /\ count' = Len(out) + m + 2
      /\ newlines \subseteq 1..(Len(out) + m + 2)
      /\ count' > LastRecord.first
  <2> DEFINE l == Len(out)
             f == LastRecord.first
  <2>1. /\ l \in Nat /\ f \in Nat /\ l + m + 1 = count
        /\ l + end = f - 1 /\ count = f + 1
    BY <1>1, <1>2, <1>3
  <2> HIDE DEF m, l, f
  <2>2. /\ end <= m /\ count <= l + m + 2 /\ l + m + 2 <= MaxChars
        /\ count' = l + m + 2 /\ count' > f
    BY <1>1, <1>2, <1>4, <1>5, <2>1
  <2>3. newlines \subseteq 1..(l + m + 2)
    BY <1>1, <1>4, <2>1
  <2> QED
    BY <2>2, <2>3 DEF l, f
<1> HIDE DEF m
<1> QED
  BY <1>2, <1>4, <1>5, <1>6, AppendStep

LEMMA InsertStep == LogStreamAssumption /\ StreamInv /\ Insert => StreamInv'
<1> SUFFICES ASSUME LogStreamAssumption, StreamInv, Insert PROVE StreamInv'
  OBVIOUS
<1> DEFINE m == Len(buf)
<1>1. /\ m \in Nat /\ Len(out) \in Nat /\ buf = NextChars(Len(out), m)
      /\ Len(out) + m = count /\ count \in Nat /\ MaxChars \in Nat
      /\ newlines \subseteq 1..count /\ end \in Int /\ MaxPiece \in Nat
  BY LenProperties DEF StreamInv, TypeOK, Stretches, Insert, LogStreamAssumption
<1>2. /\ pc = "body" /\ records # <<>>
      /\ Len(out) + end = LastRecord.first - 1 /\ count > LastRecord.first
  BY DEF StreamInv, RecordBegun, Insert
<1>3. LastRecord.first \in Nat
  BY <1>2, InRecord
<1>4. PICK n \in 1..MaxPiece :
        \E nls \in SUBSET ((count + 1)..(count + n)) : AppendNext(n, nls, "body")
  BY DEF Insert
<1>5. PICK nls \in SUBSET ((count + 1)..(count + n)) : AppendNext(n, nls, "body")
  BY <1>4
<1> DEFINE all == newlines \cup nls
<1>6. /\ append(NextChars(Len(out), m), NextChars(Len(out) + m, n), all, "body")
      /\ count' = count + n /\ newlines' = all /\ count + n <= MaxChars
      /\ UNCHANGED <<lineMode, needFlush, records>>
  BY <1>1, <1>5 DEF AppendNext
<1>7. /\ n \in Nat \ {0} /\ end <= m /\ count <= Len(out) + m + n
      /\ Len(out) + m + n <= MaxChars /\ count' = Len(out) + m + n
      /\ newlines \subseteq all /\ all \subseteq 1..(Len(out) + m + n)
      /\ count' > LastRecord.first
  BY <1>1, <1>2, <1>3, <1>6
<1> HIDE DEF m, all
<1> QED
  BY <1>1, <1>2, <1>6, <1>7, AppendStep

(* A record begins.  What waits is handed over if the record before was of *)
(* a later second; otherwise it is all of one second.                      *)
LEMMA MakeLogStep ==
    ASSUME LogStreamAssumption, StreamInv, NEW passed \in {0, 1}, makeLog(passed)
    PROVE  StreamInv'
<1> DEFINE l == Len(out)
           r == Len(records)
           new == [first |-> count + 1, second |-> Seconds + passed]
<1>1. /\ l \in Nat /\ Len(buf) \in Nat /\ l + Len(buf) = count /\ count \in Nat
      /\ out = NextChars(0, l) /\ buf = NextChars(l, Len(buf))
      /\ lineMode \in BOOLEAN /\ needFlush \in BOOLEAN /\ MaxChars \in Nat
      /\ end \in Int /\ cuts \subseteq 0..MaxChars /\ newlines \subseteq 1..count
      /\ kBufferSize \in Nat \ {0}
      /\ records \in Seq(Record) /\ r \in Nat
  BY LenProperties DEF StreamInv, TypeOK, Stretches, makeLog, LogStreamAssumption
<1>2. /\ pc \in {"idle", "body"} /\ pc' = "head" /\ count + 3 <= MaxChars
      /\ count' = count /\ newlines' = newlines /\ lineMode' = lineMode
      /\ records' = Append(records, new) /\ needFlush' = Stale(passed)
  BY DEF makeLog
<1>3. /\ \A k \in 1..r :
            /\ records[k].first \in Nat /\ records[k].second \in Nat
            /\ records[k].first <= count
      /\ Seconds \in Nat
      /\ r > 0 => Seconds = records[r].second
  <2>1. CASE records = <<>>
    BY <1>1, <2>1, EmptySeq DEF Seconds
  <2>2. CASE records # <<>>
    <3>1. pc = "body"
      BY <1>2, <2>2 DEF StreamInv, RecordBegun
    <3> QED
      BY <2>2, <3>1, InRecord DEF StreamInv, FirstsInText, Seconds, LastRecord
  <2> QED
    BY <2>1, <2>2
<1>4. new \in Record /\ new.first = count + 1 /\ new.second = Seconds + passed
  BY <1>1, <1>3 DEF Record
<1> HIDE DEF new
<1>5. /\ records' \in Seq(Record) /\ Len(records') = r + 1
      /\ records'[r + 1] = new /\ records' # <<>>
      /\ \A k \in 1..r : records'[k] = records[k]
  <2>1. /\ records' \in Seq(Record) /\ Len(records') = r + 1
        /\ records'[r + 1] = new
        /\ \A k \in 1..r : records'[k] = records[k]
    BY <1>1, <1>2, <1>4, AppendProperties
  <2> QED
    BY <1>1, <2>1, EmptySeq
<1>6. LastRecord' = new
  BY <1>5 DEF LastRecord
<1>7. /\ \A c : IsFirst(c) => IsFirst(c)'
      /\ \E k \in 1..(r + 1) : records'[k].first = count + 1
  <2>1. 1..r \subseteq 1..Len(records') /\ r + 1 \in 1..Len(records')
    BY <1>1, <1>5
  <2>2. ASSUME NEW c, IsFirst(c) PROVE IsFirst(c)'
    <3>1. PICK k \in 1..r : records[k].first = c
      BY <2>2 DEF IsFirst
    <3>2. k \in 1..Len(records') /\ records'[k].first = c
      BY <1>5, <2>1, <3>1
    <3> QED
      BY <3>2 DEF IsFirst
  <2>3. r + 1 \in 1..(r + 1) /\ records'[r + 1].first = count + 1
    BY <1>1, <1>4, <1>5
  <2> QED
    BY <2>2, <2>3
<1>8. \A x \in cuts : IsFirst(x + 1) \/ (lineMode /\ x \in newlines)
  BY <1>2 DEF StreamInv, WholeRecordsHandedOver
<1>9. /\ FirstsInText' /\ OnlyLongRecordsFail' /\ newlines' \subseteq 1..count'
  BY <1>1, <1>2, <1>3, <1>5 DEF FirstsInText, OnlyLongRecordsFail
<1>10. /\ out' = NextChars(0, Len(out')) /\ Len(out') \in Nat
       /\ out' \in Seq(1..MaxChars)
       /\ buf' = NextChars(Len(out'), Len(buf')) /\ Len(buf') \in Nat
       /\ buf' \in Seq(1..MaxChars) /\ Len(buf') < kBufferSize
       /\ Len(out') + Len(buf') = count
       /\ Len(out') >= l
       /\ needFlush => Len(out') = count
       /\ end' = Len(buf')
       /\ buf' = buf \/ buf' = <<>>
       /\ cuts' \subseteq cuts \cup {Len(out')}
       /\ cuts' # cuts => Len(out') = count
  <2>1. CASE needFlush
    <3>1. out' = NextChars(0, count)
      <4>1. SubSeq(buf, 1, Len(buf)) = buf
        BY SubSeqFull DEF StreamInv, TypeOK
      <4>2. 0 \in Nat /\ 0 + l = l
        BY <1>1
      <4>3. NextChars(0, l) \o NextChars(0 + l, Len(buf)) = NextChars(0, l + Len(buf))
        BY <1>1, <4>2, ConcatStretch
      <4> QED
        BY <1>1, <2>1, <4>1, <4>2, <4>3 DEF makeLog, HandOver, EndOfRecords
    <3>2. 0 + count <= MaxChars /\ 0 \in Nat
      BY <1>1, <1>2
    <3>3. Len(out') = count /\ out' \in Seq(1..MaxChars)
      BY <1>1, <3>1, <3>2, NextCharsSeq, StretchInText
    <3>4. /\ buf' = <<>> /\ end' = 0 /\ cuts' = cuts \cup {Len(out')}
      BY <2>1 DEF makeLog, HandOver
    <3>5. /\ Len(<<>>) = 0 /\ <<>> \in Seq(1..MaxChars) /\ <<>> = NextChars(count, 0)
      BY EmptySeq DEF NextChars
    <3> QED
      BY <1>1, <3>1, <3>3, <3>4, <3>5
  <2>2. CASE ~needFlush
    <3>1. out' = out /\ buf' = buf /\ cuts' = cuts /\ end' = Len(buf)
      BY <2>2 DEF makeLog, EndOfRecords
    <3> QED
      BY <1>1, <2>2, <3>1 DEF StreamInv, TypeOK
  <2> QED
    BY <2>1, <2>2
<1>11. TypeOK'
  <2>1. cuts' \subseteq 0..MaxChars /\ count' \in 0..MaxChars
    BY <1>1, <1>2, <1>10
  <2>2. newlines' \subseteq 1..MaxChars
    BY <1>1, <1>2
  <2>3. needFlush' \in BOOLEAN /\ end' \in Int
    BY <1>2, <1>10 DEF Stale
  <2> QED
    BY <1>1, <1>2, <1>5, <1>10, <2>1, <2>2, <2>3 DEF TypeOK
<1>12. Stretches'
  BY <1>2, <1>10 DEF Stretches
<1>13. RecordBegun'
  <2>1. /\ LastRecord'.first = count + 1 /\ records' # <<>>
        /\ Len(out') + end' = count
    BY <1>4, <1>5, <1>6, <1>10
  <2>2. (count + 1) - 1 = count
    BY <1>1
  <2> QED
    BY <1>2, <2>1, <2>2 DEF RecordBegun
<1>14. WholeRecordsHandedOver'
  <2> SUFFICES ASSUME NEW x \in cuts'
               PROVE  IsFirst(x + 1)' \/ (lineMode /\ x \in newlines)
    BY <1>2 DEF WholeRecordsHandedOver
  <2>1. CASE x \in cuts
    BY <1>7, <1>8, <2>1
  <2>2. CASE x = Len(out') /\ x \notin cuts
    <3>1. x = count
      BY <1>10, <2>2
    <3> QED
      BY <1>5, <1>7, <3>1 DEF IsFirst
  <2> QED
    BY <1>10, <2>1, <2>2
<1>15. ASSUME ~lineMode, NEW j \in 1..r, Len(out') < records[j].first
       PROVE  ~needFlush /\ records[j].second = records[r].second
  <2>1. ~needFlush /\ l < records[j].first
    BY <1>1, <1>3, <1>10, <1>15
  <2>2. SameSecond
    BY DEF StreamInv
  <2> QED
    BY <1>1, <1>15, <2>1, <2>2 DEF SameSecond, LastRecord
<1>16. SameSecond'
  <2> SUFFICES ASSUME ~lineMode, ~needFlush',
                      NEW j \in 1..r, Len(out') < records[j].first
               PROVE  records[j].second = new.second
    BY <1>1, <1>2, <1>5, <1>6 DEF SameSecond
  <2>1. passed = 0
    <3>1. records # <<>>
      BY <1>1, EmptySeq
    <3>2. ~(passed > 0)
      BY <1>2, <3>1 DEF Stale
    <3> QED
      BY <3>2
  <2> QED
    BY <1>3, <1>4, <1>15, <2>1
<1>17. NothingStaysBehind'
  <2>1. CASE lineMode
    BY <1>2, <1>10, <2>1, EmptySeq
    DEF StreamInv, NothingStaysBehind, NoLineBuffered
  <2>2. CASE ~lineMode
    <3> SUFFICES ASSUME NEW i \in 1..r, NEW k \in 1..r, i < k,
                        Len(out') < records[i].first
                 PROVE  records[i].second = records[k].second
      BY <1>1, <1>2, <1>5, <2>2 DEF NothingStaysBehind, OneSecondBuffered
    <3>1. records[i].second = records[r].second /\ ~needFlush /\ l < records[i].first
      BY <1>1, <1>3, <1>10, <1>15, <2>2
    <3>2. OneSecondBuffered
      BY <1>2, <2>2 DEF StreamInv, NothingStaysBehind
    <3>3. k < r => records[i].second = records[k].second
      BY <3>1, <3>2 DEF OneSecondBuffered
    <3> QED
      BY <1>1, <3>1, <3>3
  <2> QED
    BY <2>1, <2>2
<1> QED
  BY <1>9, <1>11, <1>12, <1>13, <1>14, <1>16, <1>17 DEF StreamInv

LEMMA ReleaseStep == LogStreamAssumption /\ StreamInv /\ Release => StreamInv'
<1> SUFFICES ASSUME LogStreamAssumption, StreamInv, Release PROVE StreamInv'
  OBVIOUS
<1> DEFINE l == Len(out)
<1>1. /\ l \in Nat /\ Len(buf) \in Nat /\ l + Len(buf) = count /\ count \in 0..MaxChars
      /\ out = NextChars(0, l) /\ buf = NextChars(l, Len(buf))
      /\ lineMode \in BOOLEAN /\ MaxChars \in Nat
      /\ cuts \subseteq 0..MaxChars /\ kBufferSize \in Nat \ {0}
  BY LenProperties DEF StreamInv, TypeOK, Stretches, Release, LogStreamAssumption
<1>2. /\ pc' = "released" /\ buf' = <<>> /\ end' = 0
      /\ UNCHANGED <<lineMode, needFlush, count, newlines, records>>
      /\ pc \in {"idle", "body"}
  BY DEF Release
<1>3. out' = NextChars(0, count)
  <2>1. SubSeq(buf, 1, Len(buf)) = buf
    BY SubSeqFull DEF StreamInv, TypeOK
  <2>2. 0 \in Nat /\ 0 + l = l
    BY <1>1
  <2>3. NextChars(0, l) \o NextChars(0 + l, Len(buf)) = NextChars(0, l + Len(buf))
    BY <1>1, <2>2, ConcatStretch
  <2> QED
    BY <1>1, <2>1, <2>2, <2>3 DEF Release, HandOver
<1>4. Len(out') = count /\ out' \in Seq(1..MaxChars)
  <2>1. 0 \in Nat /\ count \in Nat /\ 0 + count <= MaxChars
    BY <1>1
  <2> QED
    BY <1>1, <1>3, <2>1, NextCharsSeq, StretchInText
<1>5. cuts' = cuts \cup {count}
  BY <1>4 DEF Release, HandOver
<1>6. Len(<<>>) = 0 /\ <<>> \in Seq(1..MaxChars) /\ <<>> = NextChars(count, 0)
  BY EmptySeq DEF NextChars
<1>7. TypeOK'
  BY <1>1, <1>2, <1>4, <1>5, <1>6 DEF StreamInv, TypeOK
<1>8. Stretches' /\ RecordBegun'
  BY <1>1, <1>2, <1>3, <1>4, <1>6 DEF Stretches, RecordBegun
<1>9. FirstsInText' /\ newlines' \subseteq 1..count'
  BY <1>2 DEF StreamInv, FirstsInText
<1>10. \A k \in 1..Len(records) : records[k].first <= count
  <2>1. pc = "idle" => Len(records) = 0
    BY EmptySeq DEF StreamInv, RecordBegun
  <2> QED
    BY <1>2, <2>1 DEF StreamInv, FirstsInText
<1>11. \A k \in 1..Len(records) : records[k].first \in Nat
  <2>1. CASE records = <<>>
    BY <2>1, EmptySeq
  <2>2. CASE records # <<>>
    BY <2>2, InRecord
  <2> QED
    BY <2>1, <2>2
<1>12. SameSecond' /\ NothingStaysBehind'
  BY <1>1, <1>2, <1>4, <1>6, <1>10, <1>11
  DEF SameSecond, NothingStaysBehind, OneSecondBuffered, NoLineBuffered
<1>13. WholeRecordsHandedOver'
  <2>1. \A c : IsFirst(c)' <=> IsFirst(c)
    BY <1>2 DEF IsFirst
  <2> QED
    BY <1>2, <1>5, <2>1 DEF StreamInv, WholeRecordsHandedOver
<1>14. OnlyLongRecordsFail'
  BY <1>2 DEF OnlyLongRecordsFail
<1> QED
  BY <1>7, <1>8, <1>9, <1>12, <1>13, <1>14 DEF StreamInv

LEMMA StutterStep == StreamInv /\ UNCHANGED vars => StreamInv'
BY DEF vars, streamVars, StreamInv, TypeOK, Stretches, RecordBegun,
       FirstsInText, LastRecord, SameSecond, NothingStaysBehind, NoLineBuffered,
       OneSecondBuffered, WholeRecordsHandedOver, IsFirst, OnlyLongRecordsFail,
       Last

LEMMA NextStream == LogStreamAssumption /\ StreamInv /\ [Next]_vars => StreamInv'
<1> SUFFICES ASSUME LogStreamAssumption, StreamInv, [Next]_vars PROVE StreamInv'
  OBVIOUS
<1>1. CASE \E passed \in {0, 1} : makeLog(passed)
  BY <1>1, MakeLogStep
<1>2. CASE AppendHead
  BY <1>2, HeadStep
<1>3. CASE AppendDash
  BY <1>3, DashStep
<1>4. CASE AppendFunc
  BY <1>4, FuncStep
<1>5. CASE Insert
  BY <1>5, InsertStep
<1>6. CASE Release
  BY <1>6, ReleaseStep
<1>7. CASE Gone \/ UNCHANGED vars
  BY <1>7, StutterStep DEF Gone
<1> QED
  BY <1>1, <1>2, <1>3, <1>4, <1>5, <1>6, <1>7 DEF Next

THEOREM StreamInvariant == Spec => []StreamInv
<1> USE LogStreamAssumption
<1>1. Init => StreamInv
  BY InitStream
<1>2. StreamInv /\ [Next]_vars => StreamInv'
  BY NextStream
<1> QED
  BY <1>1, <1>2, PTL DEF Spec

-----------------------------------------------------------------------------
(* Type correctness: what append() and makeLog() leave in the buffer       *)
(* always fits into it.                                                    *)
THEOREM TypeCorrect == Spec => []TypeOK
<1>1. StreamInv => TypeOK
  BY DEF StreamInv
<1> QED
  BY <1>1, StreamInvariant, PTL

(* Through every overflow, line flush and flush by time, and though        *)
(* makeLog() takes three characters back, all that was appended is handed  *)
(* over or waits, in order and once.                                       *)
THEOREM AllKept == Spec => []NothingLost
<1>1. StreamInv => NothingLost
  <2> SUFFICES ASSUME StreamInv, pc # "crashed"
               PROVE  out \o buf = NextChars(0, count)
    BY DEF NothingLost
  <2>1. /\ Len(out) \in Nat /\ Len(buf) \in Nat /\ 0 \in Nat
        /\ out = NextChars(0, Len(out)) /\ buf = NextChars(0 + Len(out), Len(buf))
        /\ Len(out) + Len(buf) = count
    BY LenProperties DEF StreamInv, TypeOK, Stretches
  <2>2. NextChars(0, Len(out)) \o NextChars(0 + Len(out), Len(buf))
          = NextChars(0, Len(out) + Len(buf))
    BY <2>1, ConcatStretch
  <2> QED
    BY <2>1, <2>2
<1> QED
  BY <1>1, StreamInvariant, PTL

(* Every hand-over before the destructor's ends where a record begins or,  *)
(* in line mode, at a newline.                                             *)
THEOREM HandedOverWhole == Spec => []WholeRecordsHandedOver
<1>1. StreamInv => WholeRecordsHandedOver
  BY DEF StreamInv
<1> QED
  BY <1>1, StreamInvariant, PTL

(* What waits in the buffer is of one second, but for the record begun     *)
(* last; in line mode it is no complete line, but for an empty one.        *)
THEOREM NothingStays == Spec => []NothingStaysBehind
<1>1. StreamInv => NothingStaysBehind
  BY DEF StreamInv
<1> QED
  BY <1>1, StreamInvariant, PTL

(* append() brings the program down only for a record that does not fit    *)
(* into the buffer.                                                        *)
THEOREM OnlyLongFail == Spec => []OnlyLongRecordsFail
<1>1. StreamInv => OnlyLongRecordsFail
  BY DEF StreamInv
<1> QED
  BY <1>1, StreamInvariant, PTL
=============================================================================
