----------------------------- MODULE Serialize -----------------------------
(***************************************************************************)
(* Serialization (serialize/serialize.cpp): an object that writes values   *)
(* into a chain of nodes, and one that reads them from its string, in the  *)
(* order of writing.                                                       *)
(*                                                                         *)
(* A byte is a number below Base and the widths of the integers count      *)
(* bytes, so that an instance may have bytes of fewer than eight bits.  A  *)
(* value is of a kind (varint, fixed, ..., each unsigned or signed); a     *)
(* float is the unsigned number of its bits.                               *)
(*                                                                         *)
(* Writing outside a node has no defined outcome, and the behaviour ends.  *)
(*                                                                         *)
(* Some operators stand for slips one could make in this code and are used *)
(* nowhere in the specification (PROJECT.json, "mutants"): UnsignedHalf,   *)
(* PointerStays.                                                           *)
(***************************************************************************)
EXTENDS Integers, Sequences, FiniteSetsExt, SequencesExt

CONSTANTS
    ByteBits,       \* bits of a byte
    BaseSize,       \* _base_size, the size of a node
    LittleEndian,   \* the byte order of the machine
    Values,         \* the values written
    Blanks,         \* the bytes that are white space in a file
    MaxWrites       \* bound on the number of values written

TwoTo[k \in Nat] == IF k = 0 THEN 1 ELSE 2 * TwoTo[k - 1]

Base == TwoTo[ByteBits]
Half == TwoTo[ByteBits - 1]     \* 0x80, marks all but a varint's last byte
Bytes == 0..(Base - 1)
Size(n) == TwoTo[n * ByteBits]

Kinds == {"byte", "sbyte", "var", "svar", "fixed", "sfixed", "string"}

(* What the type of a value can hold; width is that of a string's length.  *)
IsValue(x) ==
    /\ x \in [kind : Kinds, width : Nat \ {0}, val : {x.val}]
    /\ x.kind = "byte" => x.val \in Bytes
    /\ x.kind = "sbyte" => x.val \in -Half..(Half - 1)
    /\ x.kind \in {"var", "fixed"} => x.val \in 0..(Size(x.width) - 1)
    /\ x.kind \in {"svar", "sfixed"} =>
          x.val \in -(Size(x.width) \div 2)..(Size(x.width) \div 2 - 1)
    /\ x.kind = "string" => x.val \in Seq(Bytes) /\ Len(x.val) < Size(x.width)

ASSUME SerializeAssumption ==
    /\ ByteBits \in Nat \ {0, 1}
    /\ BaseSize \in Nat \ {0}
    /\ LittleEndian \in BOOLEAN
    /\ Blanks \subseteq Bytes
    /\ MaxWrites \in Nat
    /\ \A x \in Values : IsValue(x)

Unset == -1     \* a byte of a node that was never written

VARIABLES
    se,     \* the serializer: its nodes, _cur (an offset from the first
            \* node's str), _capacity and _size; and astray, a history: bytes
            \* were stored through _cur after a node had been added
    sent,   \* history: the values written
    undefined,  \* whether a byte was stored outside a node
    buf,    \* the deserializer's _buf
    readed, \* its _readed
    given,  \* history: the values whose string is in buf
    cut,    \* history: the string came from a file and has white space
    got,    \* history: the values read from it
    aborted \* whether the assertion of read() has failed

reader == <<buf, readed, given, cut, got, aborted>>
vars == <<se, sent, undefined, reader>>

-----------------------------------------------------------------------------
(* The codings.                                                            *)

ToSigned(u, n) == IF 2 * u < Size(n) THEN u ELSE u - Size(n)

(* Negation of the smallest number: 16 bits are promoted, so that it is    *)
(* exact; at 32 and 64 bits (serialize.cpp:144, :148) C++ leaves it        *)
(* undefined, and the build (CMakeLists.txt:6, Debug, not optimised)       *)
(* computes it modulo Size(n), the only outcome it can produce.            *)
encodeZigZag(v, n) == (IF v < 0 THEN -v * 2 - 1 ELSE v * 2) % Size(n)

UnsignedHalf(u, n) == ToSigned(u \div 2, n)
decodeZigZag(u, n) == IF u % 2 = 0 THEN u \div 2 ELSE -(u \div 2) - 1

(* All but one bit of each byte, the lowest first.                         *)
VarBytes[v \in Nat] ==
    IF v < Half THEN <<v>> ELSE <<(v % Half) + Half>> \o VarBytes[v \div Half]

(* How many bytes tmp[] has room for, and how many are read at most.       *)
Groups(n) == (n * ByteBits + ByteBits - 2) \div (ByteBits - 1)

(* Where the varint of width n that begins after place p of s ends.        *)
VarEnd(s, p, n) ==
    Min({p + Groups(n)} \cup { q \in (p + 1)..Len(s) : s[q] < Half })

VarValue(b, n) ==
    LET ret[k \in 0..Len(b)] ==
            IF k = 0 THEN 0
            ELSE ret[k - 1] + (b[k] % Half) * TwoTo[(k - 1) * (ByteBits - 1)]
    IN ret[Len(b)] % Size(n)

(* The highest byte first, whatever the byte order of the writer.          *)
FixedBytes(v, n) == [k \in 1..n |-> (v \div Size(n - k)) % Base]

(* readBit32() tests the address of isLittleEndian(), not what it returns. *)
FixedValue(b) ==
    LET s == IF LittleEndian THEN b ELSE Reverse(b)
        p[k \in 0..Len(b)] == IF k = 0 THEN 0 ELSE p[k - 1] * Base + s[k]
    IN p[Len(b)]

(* The calls of write() that writing x takes, by the bytes they are given. *)
Written(x) ==
    CASE x.kind \in {"byte", "sbyte"} -> <<<<x.val % Base>>>>
      [] x.kind = "var"    -> <<VarBytes[x.val]>>
      [] x.kind = "svar"   -> <<VarBytes[encodeZigZag(x.val, x.width)]>>
      [] x.kind = "fixed"  -> <<FixedBytes(x.val, x.width)>>
      [] x.kind = "sfixed" ->
            <<FixedBytes(encodeZigZag(x.val, x.width), x.width)>>
      [] x.kind = "string" ->
            <<VarBytes[Len(x.val)]>> \o (IF x.val = <<>> THEN <<>>
                                         ELSE <<x.val>>)

(* Where a value of x's type that begins after place p of s ends: beyond s *)
(* if s is too short.                                                      *)
EndOf(x, s, p) ==
    CASE x.kind \in {"byte", "sbyte"}  -> p + 1
      [] x.kind \in {"fixed", "sfixed"} -> p + x.width
      [] x.kind \in {"var", "svar"}     -> VarEnd(s, p, x.width)
      [] x.kind = "string" ->
            LET e == VarEnd(s, p, x.width)
            IN IF e > Len(s) THEN e
               ELSE e + VarValue(SubSeq(s, p + 1, e), x.width)

(* The value there.                                                        *)
ValueOf(x, s, p) ==
    LET b == SubSeq(s, p + 1, EndOf(x, s, p))
    IN CASE x.kind = "byte"   -> b[1]
         [] x.kind = "sbyte"  -> ToSigned(b[1], 1)
         [] x.kind = "var"    -> VarValue(b, x.width)
         [] x.kind = "svar"   -> decodeZigZag(VarValue(b, x.width), x.width)
         [] x.kind = "fixed"  -> FixedValue(b)
         [] x.kind = "sfixed" -> decodeZigZag(FixedValue(b), x.width)
         [] x.kind = "string" -> SubSeq(b, VarEnd(b, 0, x.width) + 1, Len(b))

-----------------------------------------------------------------------------
(* The chain of nodes.                                                     *)

NewNode == [i \in 1..BaseSize |-> Unset]

(* memmove() of p to offset at of a node.                                  *)
Moved(node, at, p) ==
    [i \in 1..BaseSize |-> IF i - at \in DOMAIN p THEN p[i - at] ELSE node[i]]

(* How many nodes are added when remain bytes are left over.               *)
NodesFor(remain) == Max({1, (remain + BaseSize - 1) \div BaseSize})

(* How far _cur moves: in the second case by what is in the last node,     *)
(* although it does not point there.                                       *)
PointerStays(fits, len, last) == 0
Advance(fits, len, last) == IF fits THEN len ELSE last

(* write() of the bytes p.                                                 *)
write(s, p) ==
    LET fits == s.capacity > Len(p)
        here == IF fits THEN Len(p) ELSE s.capacity
        remain == Len(p) - here
        more == IF fits THEN 0 ELSE NodesFor(remain)
        last == remain - (more - 1) * BaseSize
        Part(j) == SubSeq(p, here + (j - 1) * BaseSize + 1,
                          Min({here + j * BaseSize, Len(p)}))
    IN [ nodes |-> [s.nodes EXCEPT ![1] = Moved(@, s.cur, SubSeq(p, 1, here))]
                   \o [j \in 1..more |-> Moved(NewNode, 0, Part(j))],
         cur |-> s.cur + Advance(fits, Len(p), last),
         capacity |-> IF fits THEN s.capacity - Len(p) ELSE BaseSize - last,
         size |-> s.size + Len(p),
         astray |-> s.astray \/ (here > 0 /\ Len(s.nodes) > 1) ]

(* write() of p would store outside the node _cur points into.             *)
Outside(s, p) ==
    LET here == Min({s.capacity, Len(p)})
    IN here > 0 /\ s.cur + here > BaseSize

toString(s) == SubSeq(FlattenSeq(s.nodes), 1, s.size)

(* What fromFile() returns of a file that holds s: its first word.         *)
fromFile(s) ==
    LET first == Min({ i \in DOMAIN s : s[i] \notin Blanks } \cup {Len(s) + 1})
        after == Min({ i \in first..Len(s) : s[i] \in Blanks }
                     \cup {Len(s) + 1})
    IN SubSeq(s, first, after - 1)

-----------------------------------------------------------------------------
Init ==
    /\ se = [nodes |-> <<NewNode>>, cur |-> 0, capacity |-> BaseSize,
             size |-> 0, astray |-> FALSE]
    /\ sent = <<>> /\ undefined = FALSE
    /\ buf = <<>> /\ readed = 0 /\ given = <<>> /\ got = <<>>
    /\ cut = FALSE /\ aborted = FALSE

(* writeVarUint16() and its like: one write(), two for a string that is    *)
(* not empty.                                                              *)
Write(x) ==
    /\ ~undefined /\ ~aborted
    /\ Len(sent) < MaxWrites
    /\ LET p == Written(x)
           s == write(se, p[1])
       IN /\ se' = IF Len(p) = 1 THEN s ELSE write(s, p[2])
          /\ undefined' = (Outside(se, p[1])
                              \/ (Len(p) = 2 /\ Outside(s, p[2])))
    /\ sent' = Append(sent, x)
    /\ UNCHANGED reader

(* The deserializer is constructed with, or reset to, the serializer's     *)
(* string; the constructor does not take an empty one.  To begin with it   *)
(* is as after reset().  The string may have been in a file meanwhile.     *)
Load ==
    /\ ~undefined /\ ~aborted
    /\ ~se.astray
    /\ se.size > 0
    /\ \/ buf' = toString(se) /\ cut' = FALSE
       \/ /\ buf' = fromFile(toString(se))
          /\ cut' = (Blanks \cap ToSet(toString(se)) # {})
          /\ buf' # <<>>
    /\ readed' = 0
    /\ given' = sent /\ got' = <<>>
    /\ UNCHANGED <<se, sent, undefined, aborted>>

(* reset().                                                                *)
Reset ==
    /\ ~undefined /\ ~aborted
    /\ buf # <<>>
    /\ buf' = <<>> /\ readed' = 0
    /\ given' = <<>> /\ got' = <<>> /\ cut' = FALSE
    /\ UNCHANGED <<se, sent, undefined, aborted>>

(* The next value is read, as the type that was written.                   *)
Read ==
    /\ ~undefined /\ ~aborted
    /\ Len(got) < Len(given)
    /\ LET x == given[Len(got) + 1]
       IN /\ EndOf(x, buf, readed) <= Len(buf)
          /\ readed' = EndOf(x, buf, readed)
          /\ got' = Append(got, [x EXCEPT !.val = ValueOf(x, buf, readed)])
    /\ UNCHANGED <<se, sent, undefined, buf, given, cut, aborted>>

(* assert(len + _readed <= _len) fails: for the next value, or when a value *)
(* is read although all have been.                                         *)
ReadAborts(x) ==
    /\ ~undefined /\ ~aborted
    /\ Len(got) < Len(given) => x = given[Len(got) + 1]
    /\ EndOf(x, buf, readed) > Len(buf)
    /\ aborted' = TRUE
    /\ UNCHANGED <<se, sent, undefined, buf, readed, given, cut, got>>

Over ==
    /\ undefined \/ aborted \/ Len(sent) = MaxWrites
    /\ UNCHANGED vars

Next ==
    \/ \E x \in Values : Write(x) \/ ReadAborts(x)
    \/ Load \/ Reset \/ Read
    \/ Over

Spec == Init /\ [][Next]_vars

-----------------------------------------------------------------------------
(* Properties.                                                             *)

SentBytes == FlattenSeq(FlattenSeq([k \in DOMAIN sent |-> Written(sent[k])]))

(* _size counts what was written, and _capacity is what is left of the     *)
(* nodes, however a write is cut at their borders.  Up to the first write  *)
(* that uses _cur after a node was added (serialize.cpp:123), nothing is   *)
(* stored outside a node and the string is what was written.               *)
StringUntilAstray ==
    /\ se.size = Len(SentBytes)
    /\ se.size + se.capacity = Len(se.nodes) * BaseSize
    /\ ~se.astray => ~undefined /\ toString(se) = SentBytes

(* What is read is what was written, and only who reads more than that     *)
(* fails the assertion of read(): after toString(), and after toFile() and *)
(* fromFile() when no byte is white space, at which `infile >> ret' stops  *)
(* (serialize.cpp:407).  That includes the int8 whose highest bit is set:  *)
(* the comment at serialize.cpp:303 has it need two bytes, and call it a   *)
(* bug that it gets one; one is enough.                                    *)
ReadsBack ==
    ~cut => /\ got = SubSeq(given, 1, Len(got))
            /\ aborted => got = given

(* The comment at serialize.h:82, toString() returns all that is in the    *)
(* nodes: that is what was written.                                        *)
StringIsWhatWasSent == ~undefined => toString(se) = SentBytes
=============================================================================
