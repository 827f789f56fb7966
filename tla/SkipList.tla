------------------------------ MODULE SkipList ------------------------------
(***************************************************************************)
(* The key-value store (ds/kv_skiplist.h).                                 *)
(*                                                                         *)
(* insert() and erase() hold the lock from beginning to end, so that each  *)
(* is one action, whichever thread calls it.  find() takes the lock twice, *)
(* in findPre() and to compare, and reads a link in between without it:    *)
(* one thread, the finder, calls it, and is interleaved with the others.   *)
(*                                                                         *)
(* Nodes are numbered in the order of their allocation and a freed one is  *)
(* never used again, but its links and the links to it stay as they are.   *)
(* Reading a freed node has no defined outcome, and the behaviour ends.    *)
(*                                                                         *)
(* Some operators stand for slips one could make in this code and are used *)
(* nowhere in the specification (PROJECT.json, "mutants"): RaisedTooLittle,*)
(* KeyOrAfter, HeadOnly.                                                   *)
(***************************************************************************)
EXTENDS Integers, FiniteSets, FiniteSetsExt

CONSTANTS
    Keys,       \* the keys, integers
    maxLevel,   \* _maxLevel
    MaxNodes,   \* bound on the number of nodes allocated
    MaxErases   \* bound on the number of calls of erase()

ASSUME SkipListAssumption ==
    /\ Keys \subseteq Int
    /\ maxLevel \in Nat \ {0}
    /\ MaxNodes \in Nat
    /\ MaxErases \in Nat

Head == 0       \* _head
NULL == -1
Wild == -2      \* what is found by reading a freed node

Nodes == 1..MaxNodes
Levels == 0..maxLevel

VARIABLES
    next,       \* the next array of each node and of _head
    key,        \* the key of each node
    level,      \* the level of each node
    made,       \* history: how many nodes were allocated
    freed,      \* the nodes that were deleted
    curLevel,   \* _curLevel
    counts,     \* _counts
    undefined,  \* whether a freed node has been read
    fpc,        \* where the finder is in find()
    fkey,       \* the key it looks for
    fnode,      \* the node it has got
    stored,     \* history: the keys inserted and not erased since
    erased,     \* history: the nodes that were erased by their key
    wasIn,      \* history: fkey was stored at some time during find() ...
    wasOut,     \* history: ... and was not at some time
    changed     \* history: the list changed while find() was without the
                \* lock, before it read next[0]

listVars == <<next, key, level, made, freed, curLevel, counts>>
findVars == <<fpc, fkey, fnode, wasIn, wasOut, changed>>
vars == <<listVars, undefined, findVars, stored, erased>>

NoLinks == [i \in Levels |-> NULL]

Init ==
    /\ next = [x \in {Head} \cup Nodes |-> NoLinks]
    /\ key = [x \in Nodes |-> NULL]
    /\ level = [x \in Nodes |-> 0]
    /\ made = 0 /\ freed = {}
    /\ curLevel = 0 /\ counts = 0
    /\ undefined = FALSE
    /\ fpc = "idle" /\ fkey = NULL /\ fnode = NULL
    /\ stored = {} /\ erased = {} /\ wasIn = FALSE /\ wasOut = FALSE
    /\ changed = FALSE

-----------------------------------------------------------------------------
(* The search for the predecessors of k, the same in findPre(), insert()   *)
(* and erase().                                                            *)

(* The last node before k on level i, from each node on that level.        *)
Walk(k, i) ==
    LET w[x \in {Head} \cup Nodes] ==
            LET y == next[x][i]
            IN IF y = NULL THEN x
               ELSE IF y \in freed THEN Wild
               ELSE IF key[y] < k THEN w[y] ELSE x
    IN w

HeadOnly(k) == [i \in 0..curLevel |-> Head]

(* update[]: each level goes on where the one above stopped.               *)
update(k) ==
    LET u[i \in 0..curLevel] ==
            LET x == IF i = curLevel THEN Head ELSE u[i + 1]
            IN IF x = Wild THEN Wild ELSE Walk(k, i)[x]
    IN u

(* The search reads a freed node.                                          *)
Reads(k) == update(k)[0] = Wild

Lost ==
    /\ undefined' = TRUE
    /\ UNCHANGED <<listVars, findVars, stored, erased>>

(* The node after the last one before k.                                   *)
Candidate(k) == next[update(k)[0]][0]
Hit(k) == Candidate(k) # NULL /\ key[Candidate(k)] = k

Noted ==
    /\ wasIn' = (wasIn \/ fkey \in stored')
    /\ wasOut' = (wasOut \/ fkey \notin stored')
    /\ changed' = (changed \/ fpc = "pre")

-----------------------------------------------------------------------------
(* insert(key, val).                                                       *)

RaisedTooLittle(l) == curLevel
Raised(l) == IF l > curLevel THEN l ELSE curLevel

LinkedLevels(l) == 0..(l - 1)

(* The key is new: link a node of level l, what getRandomLevel() returns.  *)
insert(k, l) ==
    /\ ~undefined /\ ~Reads(k) /\ ~Hit(k)
    /\ made < MaxNodes
    /\ LET u == [i \in Levels |-> IF i > curLevel THEN Head ELSE update(k)[i]]
           n == made + 1
       IN /\ next' = [x \in {Head} \cup Nodes |-> [i \in Levels |->
                         IF i \notin LinkedLevels(l) THEN next[x][i]
                         ELSE IF x = n THEN next[u[i]][i]
                         ELSE IF x = u[i] THEN n ELSE next[x][i]]]
          /\ key' = [key EXCEPT ![n] = k]
          /\ level' = [level EXCEPT ![n] = l]
          /\ made' = n
    /\ curLevel' = Raised(l)
    /\ counts' = counts + 1
    /\ stored' = stored \cup {k}
    /\ Noted
    /\ UNCHANGED <<freed, undefined, fpc, fkey, fnode, erased>>

(* The key exists: nothing happens.                                        *)
insertExisting(k) ==
    /\ ~undefined /\ ~Reads(k) /\ Hit(k)
    /\ UNCHANGED vars

-----------------------------------------------------------------------------
(* erase(key).                                                             *)

(* The levels from which the loop unlinks node c.                          *)
UnlinkedLevels(u, c) ==
    { i \in 0..(curLevel - 1) : \A j \in 0..i : next[u[j]][j] = c }

(* The level the last loop arrives at.                                     *)
Lowered(links) ==
    Max({ i \in 0..curLevel : i = 0 \/ links[Head][i] # NULL })

(* The candidate is deleted whether or not it has the key.  Every call     *)
(* decrements _counts.                                                     *)
erase(k) ==
    /\ ~undefined /\ ~Reads(k)
    /\ made - counts < MaxErases
    /\ LET u == update(k)
           c == Candidate(k)
           out == IF Hit(k) THEN UnlinkedLevels(u, c) ELSE {}
       IN /\ next' = [x \in {Head} \cup Nodes |-> [i \in Levels |->
                         IF i \in out /\ x = u[i] THEN next[c][i]
                         ELSE next[x][i]]]
          /\ freed' = freed \cup ({c} \ {NULL})
          /\ erased' = IF Hit(k) THEN erased \cup {c} ELSE erased
    /\ curLevel' = Lowered(next')
    /\ counts' = counts - 1
    /\ stored' = stored \ {k}
    /\ Noted
    /\ UNCHANGED <<key, level, made, undefined, fpc, fkey, fnode>>

(* insert() or erase() comes upon a freed node.                            *)
UpdateLost(k) == ~undefined /\ Reads(k) /\ Lost

-----------------------------------------------------------------------------
(* find(key).                                                              *)

(* findPre(), under the lock.                                              *)
FindPre(k) ==
    /\ ~undefined
    /\ fpc = "idle"
    /\ ~Reads(k)
    /\ fnode' = update(k)[0]
    /\ fkey' = k
    /\ fpc' = "pre"
    /\ wasIn' = (k \in stored)
    /\ wasOut' = (k \notin stored)
    /\ changed' = FALSE
    /\ UNCHANGED <<listVars, undefined, stored, erased>>

(* findPre(key)->next[0], without it.                                      *)
FindNext ==
    /\ ~undefined
    /\ fpc = "pre"
    /\ fnode \notin freed
    /\ fnode' = next[fnode][0]
    /\ fpc' = "next"
    /\ UNCHANGED <<listVars, undefined, fkey, stored, erased, wasIn, wasOut,
                   changed>>

KeyOrAfter == key[fnode] >= fkey
KeyFound == key[fnode] = fkey

(* The comparison, under the lock again, and what find() returns.          *)
FindCompare ==
    /\ ~undefined
    /\ fpc = "next"
    /\ fnode \notin freed
    /\ fpc' = IF fnode # NULL /\ KeyFound THEN "found" ELSE "missed"
    /\ UNCHANGED <<listVars, undefined, fkey, fnode, stored, erased, wasIn,
                   wasOut, changed>>

FindReturns ==
    /\ ~undefined
    /\ fpc \in {"found", "missed"}
    /\ fpc' = "idle"
    /\ fkey' = NULL /\ fnode' = NULL
    /\ wasIn' = FALSE /\ wasOut' = FALSE /\ changed' = FALSE
    /\ UNCHANGED <<listVars, undefined, stored, erased>>

(* find() comes upon a node that was freed in the meantime.                *)
FindLost ==
    /\ ~undefined
    /\ fpc \in {"pre", "next"}
    /\ fnode \in freed
    /\ Lost

(* Anything may happen from here, and nothing is said about it.            *)
Over == undefined /\ UNCHANGED vars

Next ==
    \/ \E k \in Keys : \/ \E l \in 1..maxLevel : insert(k, l)
                       \/ insertExisting(k) \/ erase(k) \/ UpdateLost(k)
                       \/ FindPre(k)
    \/ FindNext \/ FindCompare \/ FindReturns \/ FindLost
    \/ Over

Spec == Init /\ [][Next]_vars

-----------------------------------------------------------------------------
(* Properties.                                                             *)

(* The nodes that are linked on level i.                                   *)
On(i) == { next[x][i] : x \in {Head} \cup (1..made \ freed) } \ {NULL}

(* No link leads to a freed node.  erase() does break this, see below; the *)
(* properties of the structure hold as long as it has not.                 *)
Intact == ~undefined /\ \A i \in Levels : On(i) \cap freed = {}

(* The links are a skip list: a node is linked on all the levels below its *)
(* own and nowhere else, and on each level the keys ascend, so that no two *)
(* nodes link to the same one.  The search, which begins at _curLevel,     *)
(* misses nothing: the levels above are empty.  insert() raises _curLevel  *)
(* to one past the highest level in use (kv_skiplist.h:178), erase()       *)
(* lowers it to that level, which is one too little for the next erase().  *)
Shape ==
    Intact =>
        /\ \A i \in Levels : On(i) = { x \in 1..made \ freed : i < level[x] }
        /\ \A x \in 1..made \ freed : \A i \in Levels :
              next[x][i] # NULL => key[x] < key[next[x][i]]
        /\ \A i \in Levels : i > curLevel => next[Head][i] = NULL

(* What the list holds is what the calls have asked for, and a search for  *)
(* a key finds its node exactly then, whatever the levels.                 *)
Contents ==
    Intact => /\ { key[x] : x \in On(0) } = stored
              /\ \A k \in Keys : Hit(k) <=> k \in stored

(* A find() that returns a node returns one whose key was there during the *)
(* call, and one that returns none is right that the key was not, unless   *)
(* the list changed before it read next[0]: an insert() of a key in        *)
(* between makes it look at the wrong node (kv_skiplist.h:131).            *)
FindAnswersRight ==
    /\ fpc = "found" => key[fnode] = fkey /\ wasIn
    /\ fpc = "missed" /\ ~changed => wasOut

(* The comments at kv_skiplist.h:195 and :212, the node of the key is      *)
(* found and deleted: no link leads to it any more.                        *)
ErasedIsUnlinked ==
    ~undefined => \A i \in Levels : On(i) \cap erased = {}
=============================================================================
