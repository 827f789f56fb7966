--------------------------- MODULE SkipListProofs ---------------------------
(***************************************************************************)
(* Proofs about SkipList, for all keys, levels and numbers of nodes.       *)
(***************************************************************************)
EXTENDS SkipList, WellFoundedInduction, TLAPS

-----------------------------------------------------------------------------
(* The inductive invariant.                                                *)

Live == 1..made \ freed
Places == {Head} \cup Live

(* The nodes whose key is stored: an erase() that deletes the wrong node   *)
(* leaves that node's key stored, and the links to the node as they are.   *)
Present == 1..made \ erased

(* Whether node x is on level i and before every node with key k.          *)
Precedes(x, k, i) == x = Head \/ (level[x] > i /\ key[x] < k)

ListType ==
    /\ next \in [{Head} \cup Nodes -> [Levels -> {NULL} \cup Nodes]]
    /\ key \in [Nodes -> Int]
    /\ level \in [Nodes -> Nat]
    /\ made \in 0..MaxNodes
    /\ freed \subseteq 1..made
    /\ erased \subseteq freed
    /\ curLevel \in Levels
    /\ \A x \in 1..made : level[x] \in 1..maxLevel

(* A link leads to a later key, and is on a level that both ends have.     *)
Ascending ==
    \A x \in {Head} \cup Nodes : \A i \in Levels :
        next[x][i] # NULL =>
            /\ next[x][i] \in 1..made /\ level[next[x][i]] > i
            /\ x \in {Head} \cup (1..made)
            /\ Precedes(x, key[next[x][i]], i)

(* The links of a node that is not deleted do not jump over a key that is  *)
(* stored, even when they lead to a deleted node.                          *)
NoneSkipped ==
    \A x \in Places : \A z \in Present : \A i \in 0..(level[z] - 1) :
        Precedes(x, key[z], i) =>
            next[x][i] # NULL /\ key[next[x][i]] <= key[z]

OneNodeEach ==
    /\ \A x, y \in Present : key[x] = key[y] => x = y
    /\ stored = { key[x] : x \in Present }

EmptyAbove == \A i \in Levels : i > curLevel => next[Head][i] = NULL

ListInv == ListType /\ Ascending /\ NoneSkipped /\ OneNodeEach /\ EmptyAbove

(* x is the last place before k on level i, and what follows not deleted.  *)
LastBefore(x, k, i) ==
    /\ x \in Places
    /\ Precedes(x, k, i)
    /\ next[x][i] # NULL => next[x][i] \notin freed /\ key[next[x][i]] >= k

(* What the finder has seen.                                               *)
FindInv ==
    /\ fpc \in {"idle", "pre", "next", "found", "missed"}
    /\ wasIn \in BOOLEAN /\ wasOut \in BOOLEAN /\ changed \in BOOLEAN
    /\ fpc # "idle" => /\ fkey \in Int
                       /\ fkey \in stored => wasIn
                       /\ fkey \notin stored => wasOut
    /\ fpc = "pre" => /\ fnode \in {Head} \cup 1..made
                      /\ ~changed => LastBefore(fnode, fkey, 0)
    /\ fpc = "next" => /\ fnode \in {NULL} \cup 1..made
                       /\ ~changed /\ ~wasOut => fnode # NULL /\ key[fnode] = fkey
    /\ fpc = "found" => fnode \in 1..made

SkipListInv == ListInv /\ FindInv /\ FindAnswersRight

-----------------------------------------------------------------------------
(* Greatest elements.                                                      *)

LEMMA HasGreatest ==
    ASSUME NEW n \in Nat, NEW T, T \subseteq 1..n, T # {},
           NEW f, \A x \in T : f[x] \in Int
    PROVE  \E x \in T : \A y \in T : f[y] <= f[x]
<1> DEFINE Great(x, m) == x \in T /\ x <= m /\ \A y \in T : y <= m => f[y] <= f[x]
           Bad == {m \in 0..n : /\ \E x \in T : x <= m
                                /\ ~ \E x \in T : Great(x, m)}
           R == OpToRel(<, Nat)
<1> SUFFICES ASSUME Bad # {} PROVE FALSE
  <2>1. n \notin Bad
    OBVIOUS
  <2>2. \E x \in T : x <= n
    <3>1. PICK x \in T : x \in 1..n
      OBVIOUS
    <3> QED
      BY <3>1
  <2> QED
    BY <2>1, <2>2
<1>1. PICK m \in Bad : \A d \in Bad : ~ (d < m)
  <2> HIDE DEF Bad, R
  <2>1. IsWellFoundedOn(R, Nat)
    BY NatLessThanWellFounded DEF R
  <2>2. Bad \subseteq Nat
    BY DEF Bad
  <2>3. \E m \in Bad : \A d \in Bad : ~ (<<d, m>> \in R)
    BY <2>1, <2>2, WFMin
  <2> QED
    BY <2>2, <2>3 DEF OpToRel, R
<1>2. PICK x \in T : x <= m
  OBVIOUS
<1>3. m \in 1..n /\ m - 1 \in 0..n /\ m - 1 \notin Bad
  <2>1. m \in 0..n
    OBVIOUS
  <2>2. x \in 1..n
    OBVIOUS
  <2>3. m \in 1..n /\ m - 1 \in 0..n /\ m - 1 < m
    BY <1>2, <2>1, <2>2
  <2> HIDE DEF Bad
  <2> QED
    BY <1>1, <2>3
<1>4. \A y \in T : y <= m <=> y <= m - 1 \/ y = m
  BY <1>3
<1>5. CASE m \notin T
  <2>1. x <= m - 1
    BY <1>2, <1>4, <1>5
  <2>2. PICK z \in T : Great(z, m - 1)
    BY <1>3, <2>1
  <2>3. Great(z, m)
    BY <1>4, <1>5, <2>2
  <2> QED
    BY <2>3
<1>6. CASE m \in T /\ ~ \E y \in T : y <= m - 1
  <2>1. Great(m, m)
    BY <1>3, <1>4, <1>6
  <2> QED
    BY <1>6, <2>1
<1>7. CASE m \in T /\ \E y \in T : y <= m - 1
  <2>1. PICK z \in T : Great(z, m - 1)
    BY <1>3, <1>7
  <2>2. CASE f[m] <= f[z]
    <3>1. Great(z, m)
      BY <1>3, <1>4, <2>1, <2>2
    <3> QED
      BY <3>1
  <2>3. CASE ~ (f[m] <= f[z])
    <3>1. \A y \in T : y <= m - 1 => f[y] <= f[m]
      <4> SUFFICES ASSUME NEW y \in T, y <= m - 1 PROVE f[y] <= f[m]
        OBVIOUS
      <4>1. f[y] <= f[z] /\ f[y] \in Int /\ f[z] \in Int /\ f[m] \in Int
        BY <1>7, <2>1
      <4> QED
        BY <2>3, <4>1
    <3>2. Great(m, m)
      BY <1>3, <1>4, <1>7, <3>1
    <3> QED
      BY <1>7, <3>2
  <2> QED
    BY <2>2, <2>3
<1> QED
  BY <1>5, <1>6, <1>7

LEMMA MaxIsIn ==
    ASSUME NEW n \in Nat, NEW S, S \subseteq 0..n, S # {}
    PROVE  Max(S) \in S /\ \A y \in S : Max(S) >= y
<1> DEFINE T == {j \in 1..(n + 1) : j - 1 \in S}
           f == [j \in T |-> j]
<1>1. T # {}
  <2>1. PICK i \in S : TRUE
    OBVIOUS
  <2>2. i + 1 \in T
    BY <2>1
  <2> QED
    BY <2>2
<1>2. \E x \in T : \A y \in T : f[y] <= f[x]
  <2>1. n + 1 \in Nat /\ T \subseteq 1..(n + 1) /\ \A x \in T : f[x] \in Int
    OBVIOUS
  <2> HIDE DEF T, f
  <2> QED
    BY <1>1, <2>1, HasGreatest
<1>3. PICK x \in T : \A y \in T : y <= x
  BY <1>2
<1>4. \A y \in S : x - 1 >= y
  <2> TAKE y \in S
  <2>1. y + 1 \in T
    OBVIOUS
  <2> QED
    BY <1>3, <2>1
<1> QED
  BY <1>4 DEF Max

-----------------------------------------------------------------------------
(* The search.  A recursive function is the function that satisfies its    *)
(* equation, if there is one: for Walk there is, because where the walk    *)
(* from a node ends, if it does, is determined by the sets of nodes that   *)
(* it cannot leave.                                                        *)

LEMMA WalkIs ==
    ASSUME ListType, NEW k, NEW i \in Levels
    PROVE  Walk(k, i) = [x \in {Head} \cup Nodes |->
                LET y == next[x][i]
                IN IF y = NULL THEN x
                   ELSE IF y \in freed THEN Wild
                   ELSE IF key[y] < k THEN Walk(k, i)[y] ELSE x]
<1> DEFINE D == {Head} \cup Nodes
           Stop(x) == next[x][i] = NULL \/ next[x][i] \in freed
                        \/ ~ (key[next[x][i]] < k)
           Closed(C) == \A x \in C : ~Stop(x) => next[x][i] \in C
           Ends(x) == {z \in D : Stop(z) /\ \A C \in SUBSET D :
                                     Closed(C) /\ x \in C => z \in C}
           V(z) == IF next[z][i] = NULL THEN z
                   ELSE IF next[z][i] \in freed THEN Wild ELSE z
           f == [x \in D |-> V(CHOOSE z : z \in Ends(x))]
           Is(g) == g = [x \in D |->
                LET y == next[x][i]
                IN IF y = NULL THEN x
                   ELSE IF y \in freed THEN Wild
                   ELSE IF key[y] < k THEN g[y] ELSE x]
<1>1. \A x \in D : next[x][i] = NULL \/ next[x][i] \in D
  BY DEF ListType
<1>2. ASSUME NEW x \in D, Stop(x) PROVE f[x] = V(x)
  <2>1. Closed({x})
    BY <1>2
  <2>2. Ends(x) = {x}
    <3>1. \A z \in Ends(x) : z \in {x}
      <4> TAKE z \in Ends(x)
      <4>1. {x} \in SUBSET D /\ x \in {x}
        OBVIOUS
      <4> QED
        BY <2>1, <4>1
    <3>2. x \in Ends(x)
      BY <1>2
    <3> QED
      BY <3>1, <3>2
  <2>3. (CHOOSE z : z \in Ends(x)) = x
    <3> HIDE DEF Ends
    <3>1. \E z : z \in Ends(x)
      BY <2>2
    <3> QED
      BY <2>2, <3>1
  <2> HIDE DEF Ends, V
  <2> QED
    BY <2>3
<1>3. ASSUME NEW x \in D, ~Stop(x) PROVE f[x] = f[next[x][i]]
  <2> DEFINE y == next[x][i]
  <2>1. y \in D
    BY <1>1, <1>3
  <2>2. Ends(x) = Ends(y)
    <3>1. ASSUME NEW z \in Ends(y) PROVE z \in Ends(x)
      BY <1>3, <3>1
    <3>2. ASSUME NEW z \in Ends(x) PROVE z \in Ends(y)
      <4>1. z # x /\ z \in D /\ Stop(z)
        BY <1>3, <3>2
      <4> SUFFICES ASSUME NEW C \in SUBSET D, Closed(C), y \in C PROVE z \in C
        BY <4>1
      <4>2. Closed(C \cup {x}) /\ C \cup {x} \in SUBSET D
        OBVIOUS
      <4>3. z \in C \cup {x}
        <5> HIDE DEF Closed
        <5> QED
          BY <4>2
      <4> QED
        BY <4>1, <4>3
    <3> HIDE DEF Ends
    <3> QED
      BY <3>1, <3>2
  <2> HIDE DEF Ends, V, y
  <2>3. f[x] = V(CHOOSE z : z \in Ends(x)) /\ f[y] = V(CHOOSE z : z \in Ends(y))
    BY <2>1
  <2>4. f[x] = f[y]
    BY <2>2, <2>3
  <2> QED
    BY <2>4 DEF y
<1>4. Is(f)
  <2> DEFINE e(x) == LET y == next[x][i]
                IN IF y = NULL THEN x
                   ELSE IF y \in freed THEN Wild
                   ELSE IF key[y] < k THEN f[y] ELSE x
  <2>1. ASSUME NEW x \in D PROVE f[x] = e(x)
    <3> HIDE DEF f
    <3>1. CASE Stop(x)
      BY <1>2, <3>1
    <3>2. CASE ~Stop(x)
      BY <1>3, <3>2
    <3> QED
      BY <3>1, <3>2
  <2>2. f = [x \in D |-> f[x]]
    OBVIOUS
  <2> HIDE DEF f, e
  <2>3. f = [x \in D |-> e(x)]
    BY <2>1, <2>2
  <2> QED
    BY <2>3 DEF e
<1>5. Walk(k, i) = CHOOSE g : Is(g)
  BY DEF Walk
<1>6. Is(CHOOSE g : Is(g))
  <2> HIDE DEF Is
  <2> QED
    BY <1>4
<1> HIDE DEF Is
<1>7. Is(Walk(k, i))
  BY <1>5, <1>6
<1> QED
  BY <1>7 DEF Is

(* For update there is one because the levels are finitely many.           *)
LEMMA UpdateIs ==
    ASSUME SkipListAssumption, ListType, NEW k
    PROVE  update(k) = [i \in 0..curLevel |->
                LET x == IF i = curLevel THEN Head ELSE update(k)[i + 1]
                IN IF x = Wild THEN Wild ELSE Walk(k, i)[x]]
<1> DEFINE s(x, i) == IF x = Wild THEN Wild ELSE Walk(k, i)[x]
           e(g, i) == s(IF i = curLevel THEN Head ELSE g[i + 1], i)
           Sol(g, j) == g = [i \in j..curLevel |-> e(g, i)]
           Bad == {j \in 0..curLevel : ~ \E g : Sol(g, j)}
<1>1. curLevel \in Nat
  BY DEF ListType, Levels, SkipListAssumption
<1> HIDE DEF s
<1>2. Bad = {}
  <2> SUFFICES ASSUME Bad # {} PROVE FALSE
    OBVIOUS
  <2>1. PICK m \in Bad : \A j \in Bad : m >= j
    <3>1. Bad \subseteq 0..curLevel
      OBVIOUS
    <3> HIDE DEF Bad
    <3> QED
      BY <1>1, <3>1, MaxIsIn
  <2>2. CASE m = curLevel
    <3> DEFINE g == [i \in m..curLevel |-> s(Head, i)]
    <3>1. \A i \in m..curLevel : e(g, i) = s(Head, i)
      BY <1>1, <2>2
    <3> HIDE DEF e
    <3>2. Sol(g, m)
      BY <3>1
    <3> QED
      BY <3>2
  <2>3. CASE m # curLevel
    <3>1. m \in 0..(curLevel - 1) /\ m + 1 \in 0..curLevel /\ ~ (m >= m + 1)
      BY <1>1, <2>3
    <3>2. m + 1 \notin Bad
      <4> HIDE DEF Bad
      <4> QED
        BY <2>1, <3>1
    <3>3. PICK g : Sol(g, m + 1)
      BY <3>1, <3>2
    <3> DEFINE h == [i \in m..curLevel |-> IF i = m THEN s(g[m + 1], m) ELSE g[i]]
    <3>4. \A i \in (m + 1)..curLevel : g[i] = e(g, i)
      <4> HIDE DEF e
      <4> QED
        BY <3>3
    <3>5. \A i \in (m + 1)..curLevel : h[i] = g[i]
      BY <1>1, <3>1
    <3>6. \A i \in (m + 1)..curLevel : i # curLevel => h[i + 1] = g[i + 1]
      <4> TAKE i \in (m + 1)..curLevel
      <4>1. i # curLevel => i + 1 \in (m + 1)..curLevel
        BY <1>1
      <4> QED
        BY <3>5, <4>1
    <3>7. h[m] = s(g[m + 1], m) /\ h[m + 1] = g[m + 1]
      BY <1>1, <3>1, <3>5
    <3>8. \A i \in m..curLevel : h[i] = e(h, i)
      <4> TAKE i \in m..curLevel
      <4> HIDE DEF h
      <4>1. CASE i = m
        BY <2>3, <3>7, <4>1
      <4>2. CASE i # m
        <5>1. i \in (m + 1)..curLevel
          BY <1>1, <3>1, <4>2
        <5> QED
          BY <3>4, <3>5, <3>6, <5>1
      <4> QED
        BY <4>1, <4>2
    <3>9. h = [i \in m..curLevel |-> h[i]]
      OBVIOUS
    <3> HIDE DEF h, e
    <3>10. Sol(h, m)
      BY <3>8, <3>9
    <3> QED
      BY <3>10
  <2> QED
    BY <2>2, <2>3
<1>3. \E g : Sol(g, 0)
  BY <1>1, <1>2
<1>4. update(k) = CHOOSE g : Sol(g, 0)
  BY DEF update, s
<1> HIDE DEF Sol
<1>5. Sol(update(k), 0)
  BY <1>3, <1>4
<1> QED
  BY <1>5 DEF Sol, s

(* A walk stops at the last place before k, or at a deleted node.          *)
LEMMA WalkStops ==
    ASSUME SkipListAssumption, ListType, Ascending,
           NEW k \in Int, NEW i \in Levels, NEW x \in Places, Precedes(x, k, i)
    PROVE  \/ /\ Walk(k, i)[x] = Wild
              /\ \E y \in Places : next[y][i] \in freed
           \/ LastBefore(Walk(k, i)[x], k, i)
<1> DEFINE D == {Head} \cup Nodes
           Good(z) == \/ /\ Walk(k, i)[z] = Wild
                         /\ \E y \in Places : next[y][i] \in freed
                      \/ LastBefore(Walk(k, i)[z], k, i)
           Bad == {z \in Live : Precedes(z, k, i) /\ ~Good(z)}
<1>1. made \in Nat /\ Places \subseteq D /\ Live \subseteq 1..made /\ Head \notin Live
  BY DEF ListType, Places, Live, Nodes, SkipListAssumption, Head
<1>2. \A z \in Live : z \in Nodes /\ key[z] \in Int /\ level[z] \in Nat
  BY DEF ListType, Live, Nodes, SkipListAssumption
<1>3. \A z \in D : Walk(k, i)[z] =
                LET y == next[z][i]
                IN IF y = NULL THEN z
                   ELSE IF y \in freed THEN Wild
                   ELSE IF key[y] < k THEN Walk(k, i)[y] ELSE z
  <2> DEFINE w == Walk(k, i)
  <2>1. w = [z \in D |->
                LET y == next[z][i]
                IN IF y = NULL THEN z
                   ELSE IF y \in freed THEN Wild
                   ELSE IF key[y] < k THEN w[y] ELSE z]
    BY WalkIs
  <2> HIDE DEF w
  <2>2. \A z \in D : w[z] =
                LET y == next[z][i]
                IN IF y = NULL THEN z
                   ELSE IF y \in freed THEN Wild
                   ELSE IF key[y] < k THEN w[y] ELSE z
    BY <2>1
  <2> QED
    BY <2>2 DEF w
<1>4. ASSUME NEW z \in Places, Precedes(z, k, i),
             \A y \in Live : /\ Precedes(y, k, i)
                             /\ z # Head => key[z] < key[y]
                             => Good(y)
      PROVE  Good(z)
  <2> DEFINE y == next[z][i]
  <2>1. CASE y = NULL
    BY <1>1, <1>3, <1>4, <2>1 DEF LastBefore
  <2>2. CASE y # NULL /\ y \in freed
    BY <1>1, <1>3, <1>4, <2>2
  <2>3. CASE y # NULL /\ y \notin freed
    <3>1. y \in Live /\ level[y] > i /\ Precedes(z, key[y], i)
      BY <1>1, <2>3 DEF Ascending, Live
    <3>2. CASE key[y] < k
      <4>1. Good(y)
        BY <1>4, <3>1, <3>2 DEF Precedes
      <4>2. Walk(k, i)[z] = Walk(k, i)[y]
        BY <1>1, <1>3, <2>3, <3>2
      <4> QED
        BY <4>1, <4>2
    <3>3. CASE ~ (key[y] < k)
      <4>1. Walk(k, i)[z] = z
        BY <1>1, <1>3, <2>3, <3>3
      <4>2. key[y] >= k
        BY <1>2, <3>1, <3>3
      <4> QED
        BY <1>4, <2>3, <4>1, <4>2 DEF LastBefore
    <3> QED
      BY <3>2, <3>3
  <2> QED
    BY <2>1, <2>2, <2>3
<1> HIDE DEF Good
<1>5. Bad = {}
  <2> SUFFICES ASSUME Bad # {} PROVE FALSE
    OBVIOUS
  <2>1. PICK z \in Bad : \A y \in Bad : key[y] <= key[z]
    <3>1. Bad \subseteq 1..made /\ \A y \in Bad : key[y] \in Int
      BY <1>1, <1>2
    <3> HIDE DEF Bad
    <3> QED
      BY <1>1, <3>1, HasGreatest
  <2>2. \A y \in Live : Precedes(y, k, i) /\ key[z] < key[y] => Good(y)
    <3> TAKE y \in Live
    <3>1. y \in Bad => key[y] <= key[z]
      BY <2>1
    <3> QED
      BY <1>2, <3>1
  <2>3. Good(z)
    BY <1>1, <1>4, <2>2 DEF Places
  <2> QED
    BY <2>3
<1>6. \A y \in Live : Precedes(y, k, i) => Good(y)
  BY <1>5
<1> QED
  BY <1>4, <1>6 DEF Good

LEMMA UpdateStops ==
    ASSUME SkipListAssumption, ListType, Ascending, NEW k \in Int
    PROVE  /\ \A i \in 0..curLevel :
                 update(k)[i] = Wild \/ LastBefore(update(k)[i], k, i)
           /\ ~Reads(k) => \A i \in 0..curLevel : update(k)[i] # Wild
           /\ Intact => ~Reads(k)
<1> DEFINE u == update(k)
           from(i) == IF i = curLevel THEN Head ELSE u[i + 1]
           Bad == {i \in 0..curLevel : ~ (u[i] = Wild \/ LastBefore(u[i], k, i))}
<1>1. /\ curLevel \in Nat /\ 0..curLevel \subseteq Levels /\ Head \in Places
      /\ Head # Wild /\ \A i : Precedes(Head, k, i)
  BY DEF ListType, Levels, SkipListAssumption, Places, Head, Wild, Precedes
<1>2. \A i \in 0..curLevel :
        u[i] = IF from(i) = Wild THEN Wild ELSE Walk(k, i)[from(i)]
  <2>1. u = [i \in 0..curLevel |->
                LET x == IF i = curLevel THEN Head ELSE u[i + 1]
                IN IF x = Wild THEN Wild ELSE Walk(k, i)[x]]
    BY UpdateIs
  <2> HIDE DEF u
  <2> QED
    BY <2>1
<1> HIDE DEF u
<1>3. ASSUME NEW i \in 0..curLevel, NEW x, LastBefore(x, k, i + 1), i # curLevel
      PROVE  x \in Places /\ Precedes(x, k, i)
  <2>1. x # Head => level[x] \in Nat
    BY <1>3 DEF LastBefore, Places, Live, ListType, Nodes, SkipListAssumption
  <2> QED
    BY <1>3, <2>1 DEF LastBefore, Precedes
<1>4. ASSUME NEW i \in 0..curLevel, from(i) \in Places, Precedes(from(i), k, i)
      PROVE  \/ u[i] = Wild /\ \E y \in Places : next[y][i] \in freed
             \/ LastBefore(u[i], k, i)
  <2>1. from(i) # Wild /\ i \in Levels
    BY <1>1, <1>4 DEF Places, Live, Wild, Head
  <2>2. u[i] = Walk(k, i)[from(i)]
    BY <1>2, <2>1
  <2> HIDE DEF from
  <2> QED
    BY <1>4, <2>1, <2>2, WalkStops
<1>5. \A i \in 0..curLevel : i # curLevel => i + 1 \in 0..curLevel
  BY <1>1
<1>6. Bad = {}
  <2> SUFFICES ASSUME Bad # {} PROVE FALSE
    OBVIOUS
  <2>1. PICK m \in Bad : \A j \in Bad : m >= j
    <3>1. Bad \subseteq 0..curLevel
      OBVIOUS
    <3> HIDE DEF Bad
    <3> QED
      BY <1>1, <3>1, MaxIsIn
  <2>2. CASE m = curLevel
    BY <1>1, <1>4, <2>2
  <2>3. CASE m # curLevel
    <3>1. m + 1 \notin Bad
      BY <2>1
    <3>2. u[m + 1] = Wild \/ LastBefore(u[m + 1], k, m + 1)
      BY <1>5, <2>3, <3>1
    <3>3. from(m) = u[m + 1]
      BY <2>3
    <3>4. CASE u[m + 1] = Wild
      BY <1>2, <3>3, <3>4
    <3>5. CASE LastBefore(u[m + 1], k, m + 1)
      BY <1>3, <1>4, <2>3, <3>3, <3>5
    <3> QED
      BY <3>2, <3>4, <3>5
  <2> QED
    BY <2>2, <2>3
<1>7. ASSUME ~Reads(k), NEW i \in 0..curLevel, u[i] = Wild PROVE FALSE
  <2> DEFINE G == {j \in 0..i : u[j] # Wild}
  <2>1. 0 \in G
    BY <1>7 DEF Reads, u
  <2>2. i \in Nat
    OBVIOUS
  <2>3. PICK m \in G : \A j \in G : m >= j
    <3>1. G \subseteq 0..i /\ G # {}
      BY <2>1
    <3> HIDE DEF G
    <3> QED
      BY <2>2, <3>1, MaxIsIn
  <2>4. m # i /\ m \in 0..i
    BY <1>7
  <2>5. m + 1 \in 0..i /\ m \in 0..curLevel /\ m # curLevel /\ ~ (m >= m + 1)
    BY <1>1, <2>4
  <2>6. u[m + 1] = Wild
    BY <2>3, <2>5
  <2> QED
    BY <1>2, <2>5, <2>6
<1>8. ASSUME Intact, Reads(k) PROVE FALSE
  <2> DEFINE G == {j \in 0..curLevel : u[j] = Wild}
  <2>1. 0 \in G
    BY <1>1, <1>8 DEF Reads, u
  <2>2. PICK m \in G : \A j \in G : m >= j
    <3>1. G \subseteq 0..curLevel /\ G # {}
      BY <2>1
    <3> HIDE DEF G
    <3> QED
      BY <1>1, <3>1, MaxIsIn
  <2>3. from(m) \in Places /\ Precedes(from(m), k, m)
    <3>1. CASE m = curLevel
      BY <1>1, <3>1
    <3>2. CASE m # curLevel
      <4>1. m + 1 \in 0..curLevel /\ ~ (m >= m + 1)
        BY <1>1, <3>2
      <4>2. u[m + 1] # Wild
        BY <2>2, <4>1
      <4>3. LastBefore(u[m + 1], k, m + 1)
        BY <1>6, <4>1, <4>2
      <4> QED
        BY <1>3, <3>2, <4>3
    <3> QED
      BY <3>1, <3>2
  <2>4. ~ LastBefore(Wild, k, m)
    BY <1>1 DEF LastBefore, Places, Live, Wild, Head
  <2>5. \E y \in Places : next[y][m] \in freed
    <3> HIDE DEF from
    <3> QED
      BY <1>4, <2>3, <2>4
  <2>6. PICK y \in Places : next[y][m] \in freed
    BY <2>5
  <2>7. next[y][m] # NULL
    BY <2>6 DEF ListType, NULL
  <2>8. next[y][m] \in On(m)
    BY <2>7 DEF On, Places, Live
  <2> QED
    BY <1>1, <1>8, <2>6, <2>8 DEF Intact
<1> QED
  BY <1>6, <1>7, <1>8 DEF u

(* The node after the last place before k has key k exactly if k is        *)
(* stored.                                                                 *)
LEMMA HitIsStored ==
    ASSUME SkipListAssumption, ListInv, NEW k \in Int, NEW x, LastBefore(x, k, 0)
    PROVE  /\ next[x][0] # NULL => next[x][0] \in Present /\ next[x][0] \in Live
           /\ next[x][0] # NULL /\ key[next[x][0]] = k <=> k \in stored
<1> DEFINE y == next[x][0]
<1>1. /\ 0 \in Levels /\ x \in {Head} \cup Nodes /\ made \in Nat
      /\ 1..made \subseteq Nodes
  BY DEF LastBefore, Places, Live, Levels, SkipListAssumption, ListInv, ListType,
         Nodes
<1>2. ASSUME y # NULL PROVE y \in 1..made /\ y \in Live /\ y \in Present
  BY <1>1, <1>2 DEF ListInv, ListType, Ascending, LastBefore, Live, Present
<1>3. ASSUME y # NULL, key[y] = k PROVE k \in stored
  BY <1>2, <1>3 DEF ListInv, OneNodeEach
<1>4. ASSUME k \in stored PROVE y # NULL /\ key[y] = k
  <2>1. PICK z \in Present : key[z] = k
    BY <1>4 DEF ListInv, OneNodeEach
  <2>2. 0 \in 0..(level[z] - 1)
    BY <2>1 DEF Present, ListInv, ListType
  <2>3. x \in Places /\ Precedes(x, key[z], 0)
    BY <2>1 DEF LastBefore
  <2>4. y # NULL /\ key[y] <= k
    BY <2>1, <2>2, <2>3 DEF ListInv, NoneSkipped
  <2>5. key[y] >= k /\ key[y] \in Int
    BY <1>1, <1>2, <2>4 DEF LastBefore, ListInv, ListType
  <2> QED
    BY <2>4, <2>5
<1> QED
  BY <1>2, <1>3, <1>4

-----------------------------------------------------------------------------
(* What the invariant says of a list without links to deleted nodes.       *)

(* Every node whose key is stored is linked on each of its levels.         *)
LEMMA Linked ==
    ASSUME SkipListAssumption, ListInv, NEW i \in Levels, On(i) \cap freed = {},
           NEW z \in Present, i < level[z]
    PROVE  \E x \in Places : next[x][i] = z
<1> DEFINE T == {x \in Live : level[x] > i /\ key[x] < key[z]}
<1>1. /\ made \in Nat /\ 1..made \subseteq Nodes /\ i \in 0..(level[z] - 1)
      /\ Live \subseteq Present /\ Live \subseteq 1..made /\ Present \subseteq 1..made
      /\ \A x \in 1..made : key[x] \in Int /\ level[x] \in Nat
      /\ Places \subseteq {Head} \cup Nodes /\ Head \notin Nodes
  BY DEF ListInv, ListType, Nodes, Levels, SkipListAssumption, Live, Present,
         Places, Head
<1>2. \E x \in Places : /\ Precedes(x, key[z], i)
                        /\ \A y \in T : x # Head /\ key[y] <= key[x]
  <2>1. CASE T = {}
    <3>1. Head \in Places /\ Precedes(Head, key[z], i)
      BY DEF Places, Precedes
    <3> QED
      BY <2>1, <3>1
  <2>2. CASE T # {}
    <3>1. T \subseteq 1..made /\ \A y \in T : key[y] \in Int
      BY <1>1
    <3>2. \E x \in T : \A y \in T : key[y] <= key[x]
      <4> HIDE DEF T
      <4> QED
        BY <1>1, <2>2, <3>1, HasGreatest
    <3>3. PICK x \in T : \A y \in T : key[y] <= key[x]
      BY <3>2
    <3>4. x \in Places /\ x # Head /\ Precedes(x, key[z], i)
      BY <1>1 DEF Places, Precedes
    <3> QED
      BY <3>3, <3>4
  <2> QED
    BY <2>1, <2>2
<1>3. PICK x \in Places : /\ Precedes(x, key[z], i)
                         /\ \A y \in T : x # Head /\ key[y] <= key[x]
  BY <1>2
<1> DEFINE q == next[x][i]
<1>4. q # NULL /\ key[q] <= key[z]
  BY <1>1, <1>3 DEF ListInv, NoneSkipped
<1>5. q \in On(i)
  BY <1>4 DEF On, Places, Live
<1>6. q \in Live /\ level[q] > i /\ Precedes(x, key[q], i)
  BY <1>1, <1>4, <1>5 DEF ListInv, Ascending, Live
<1> HIDE DEF q, T
<1>7. /\ q \in 1..made /\ z \in 1..made /\ key[q] \in Int /\ key[z] \in Int
      /\ x # Head => x \in 1..made /\ key[x] \in Int
  BY <1>1, <1>6 DEF Places, Live, Present
<1>8. ASSUME q # z PROVE FALSE
  <2>1. key[q] # key[z]
    BY <1>1, <1>6, <1>8 DEF ListInv, OneNodeEach
  <2>2. key[q] < key[z]
    BY <1>4, <1>7, <2>1
  <2>3. q \in T
    BY <1>6, <2>2 DEF T
  <2>4. x # Head /\ key[q] <= key[x]
    BY <1>3, <2>3
  <2>5. key[x] < key[q] /\ x \in 1..made
    BY <1>6, <1>7, <2>4 DEF Precedes
  <2> QED
    BY <1>7, <2>4, <2>5
<1> QED
  BY <1>8 DEF q

LEMMA ShapeHolds ==
    ASSUME SkipListAssumption, ListInv
    PROVE  Shape
<1> SUFFICES ASSUME Intact
    PROVE /\ \A i \in Levels : On(i) = { x \in 1..made \ freed : i < level[x] }
          /\ \A x \in 1..made \ freed : \A i \in Levels :
                next[x][i] # NULL => key[x] < key[next[x][i]]
          /\ \A i \in Levels : i > curLevel => next[Head][i] = NULL
  BY DEF Shape
<1>1. /\ 1..made \subseteq Nodes /\ Live \subseteq Present /\ Head \notin Nodes
      /\ \A x \in 1..made : level[x] \in Nat
      /\ Places \subseteq {Head} \cup Nodes
  BY DEF ListInv, ListType, Nodes, SkipListAssumption, Live, Present, Head, Places
<1>2. ASSUME NEW i \in Levels
      PROVE  On(i) = { x \in 1..made \ freed : i < level[x] }
  <2>1. On(i) \cap freed = {} /\ i \in Nat
    BY DEF Intact, Levels
  <2>2. ASSUME NEW y \in On(i)
        PROVE  y \in 1..made \ freed /\ i < level[y]
    <3>1. PICK x \in Places : y = next[x][i] /\ y # NULL
      BY DEF On, Places, Live
    <3>2. y \in 1..made /\ level[y] > i
      BY <1>1, <3>1 DEF ListInv, Ascending
    <3> QED
      BY <1>1, <2>1, <2>2, <3>2
  <2>3. ASSUME NEW y \in 1..made \ freed, i < level[y]
        PROVE  y \in On(i)
    <3>1. y \in Present
      BY <1>1 DEF Live
    <3>2. PICK x \in Places : next[x][i] = y
      BY <2>1, <2>3, <3>1, Linked
    <3>3. y # NULL
      BY <1>1 DEF Nodes, NULL
    <3> QED
      BY <3>2, <3>3 DEF On, Places, Live
  <2> QED
    BY <2>2, <2>3
<1>3. ASSUME NEW x \in 1..made \ freed, NEW i \in Levels, next[x][i] # NULL
      PROVE  key[x] < key[next[x][i]]
  <2>1. Precedes(x, key[next[x][i]], i) /\ x # Head
    BY <1>1, <1>3 DEF ListInv, Ascending
  <2> QED
    BY <2>1 DEF Precedes
<1> QED
  BY <1>2, <1>3 DEF ListInv, EmptyAbove

LEMMA ContentsHold ==
    ASSUME SkipListAssumption, ListInv
    PROVE  Contents
<1> SUFFICES ASSUME Intact
             PROVE  /\ { key[x] : x \in On(0) } = stored
                    /\ \A k \in Keys : Hit(k) <=> k \in stored
  BY DEF Contents
<1>1. 0 \in Levels /\ 0 \in 0..curLevel
  BY DEF Levels, SkipListAssumption, ListInv, ListType
<1>2. On(0) \cap freed = {} /\ Live \subseteq Present
  BY <1>1 DEF Intact, Live, Present, ListInv, ListType
<1>3. On(0) = Present
  <2>1. On(0) = { x \in Live : 0 < level[x] }
    BY <1>1, ShapeHolds DEF Shape, Live
  <2>2. ASSUME NEW z \in Present PROVE z \in On(0)
    <3>1. 0 < level[z] /\ z # NULL
      BY DEF Present, ListInv, ListType, NULL
    <3>2. PICK x \in Places : next[x][0] = z
      BY <1>1, <1>2, <3>1, Linked
    <3> QED
      BY <3>1, <3>2 DEF On, Places, Live
  <2> QED
    BY <1>2, <2>1, <2>2
<1>4. ASSUME NEW k \in Keys PROVE Hit(k) <=> k \in stored
  <2>1. k \in Int
    BY DEF SkipListAssumption
  <2>2. ~Reads(k) /\ update(k)[0] # Wild
    BY <1>1, <2>1, UpdateStops DEF ListInv
  <2>3. LastBefore(update(k)[0], k, 0)
    BY <1>1, <2>1, <2>2, UpdateStops DEF ListInv
  <2> QED
    BY <2>1, <2>3, HitIsStored DEF Hit, Candidate
<1> QED
  BY <1>3, <1>4 DEF ListInv, OneNodeEach

-----------------------------------------------------------------------------
(* The invariant is inductive.                                             *)

LEMMA InitSkipList == SkipListAssumption /\ Init => SkipListInv
<1> SUFFICES ASSUME SkipListAssumption, Init PROVE SkipListInv
  OBVIOUS
<1>1. /\ made = 0 /\ freed = {} /\ erased = {} /\ stored = {} /\ curLevel = 0
      /\ \A x \in {Head} \cup Nodes : \A i \in Levels : next[x][i] = NULL
      /\ fpc = "idle" /\ wasIn = FALSE /\ wasOut = FALSE /\ changed = FALSE
  BY DEF Init, NoLinks
<1>2. ListType
  <2>1. next \in [{Head} \cup Nodes -> [Levels -> {NULL} \cup Nodes]]
    BY DEF Init, NoLinks
  <2>2. key \in [Nodes -> Int] /\ level \in [Nodes -> Nat]
    BY DEF Init, NULL
  <2> QED
    BY <1>1, <2>1, <2>2 DEF ListType, SkipListAssumption, Levels
<1>3. Present = {}
  BY <1>1 DEF Present
<1>4. ListInv
  BY <1>1, <1>2, <1>3 DEF ListInv, Ascending, NoneSkipped, OneNodeEach, EmptyAbove,
     Head
<1>5. FindInv /\ FindAnswersRight
  BY <1>1 DEF FindInv, FindAnswersRight
<1> QED
  BY <1>4, <1>5 DEF SkipListInv

(* v is the last place before k on level i, and x another one before k:    *)
(* then x is before v, and its link does not jump over v.                  *)
LEMMA BeforeLast ==
    ASSUME SkipListAssumption, ListInv, NEW k \in Int, NEW i \in Levels,
           NEW v, LastBefore(v, k, i),
           NEW x \in Places, Precedes(x, k, i), x # v
    PROVE  /\ v \in Live /\ key[v] < k
           /\ next[x][i] # NULL /\ key[next[x][i]] <= key[v]
<1>1. /\ made \in Nat /\ i \in Nat /\ 1..made \subseteq Nodes
      /\ Live \subseteq Present /\ Live \subseteq 1..made
      /\ \A y \in 1..made : key[y] \in Int /\ level[y] \in Nat
      /\ v \in Places /\ Precedes(v, k, i) /\ Places = {Head} \cup Live
      /\ Head \notin 1..made
  BY DEF ListInv, ListType, Nodes, Levels, SkipListAssumption, Live, Present,
         LastBefore, Places, Head
<1>2. ASSUME NEW z \in Live, Precedes(z, k, i), Precedes(v, key[z], i)
      PROVE  FALSE
  <2>1. z # Head /\ level[z] > i /\ key[z] < k
    BY <1>1, <1>2 DEF Precedes
  <2>2. i \in 0..(level[z] - 1)
    BY <1>1, <2>1
  <2>3. next[v][i] # NULL /\ key[next[v][i]] <= key[z]
    BY <1>1, <1>2, <2>2 DEF ListInv, NoneSkipped
  <2>4. next[v][i] \in 1..made /\ key[next[v][i]] >= k
    BY <1>1, <2>3 DEF LastBefore, ListInv, Ascending
  <2> QED
    BY <1>1, <2>1, <2>3, <2>4
<1>3. v \in Live /\ Precedes(x, key[v], i)
  <2>1. CASE x = Head
    BY <1>1, <2>1 DEF Precedes
  <2>2. CASE x # Head
    <3>1. x \in Live /\ level[x] > i /\ key[x] < k
      BY <1>1, <2>2 DEF Precedes
    <3>2. ~ Precedes(v, key[x], i)
      BY <1>2, <3>1
    <3>3. v \in Live /\ level[v] > i /\ ~ (key[v] < key[x])
      BY <1>1, <3>2 DEF Precedes
    <3>4. key[v] # key[x]
      BY <1>1, <3>1, <3>3 DEF ListInv, OneNodeEach
    <3> QED
      BY <1>1, <3>1, <3>3, <3>4 DEF Precedes
  <2> QED
    BY <2>1, <2>2
<1>4. level[v] > i /\ key[v] < k
  BY <1>1, <1>3 DEF Precedes
<1>5. i \in 0..(level[v] - 1)
  BY <1>1, <1>3, <1>4
<1> QED
  BY <1>1, <1>3, <1>4, <1>5 DEF ListInv, NoneSkipped

LEMMA InsertList ==
    ASSUME SkipListAssumption, ListInv, NEW k \in Keys, NEW l \in 1..maxLevel,
           insert(k, l)
    PROVE  ListInv'
<1> DEFINE n == made + 1
           u == [i \in Levels |-> IF i > curLevel THEN Head ELSE update(k)[i]]
<1>1. /\ k \in Int /\ made \in Nat /\ n \in Nodes /\ n \notin 1..made /\ n # Head
      /\ made < MaxNodes /\ 1..n = 1..made \cup {n} /\ 1..n \subseteq Nodes
      /\ 1..made \subseteq Nodes /\ NULL \notin 1..n /\ n # NULL
      /\ Head \notin 1..n /\ Head \notin Nodes
  BY DEF SkipListAssumption, ListInv, ListType, Nodes, Head, NULL, insert
<1>2. /\ curLevel \in Nat /\ 0..(l - 1) \subseteq Levels /\ l \in Levels /\ l \in Nat
      /\ Levels \subseteq Nat /\ 0 \in Levels /\ 0 \in 0..curLevel
      /\ \A i \in Levels : i \in 0..(l - 1) <=> i < l
      /\ \A i \in Levels : i \in 0..curLevel \/ i > curLevel
  BY DEF SkipListAssumption, ListInv, ListType, Levels
<1>3. /\ made' = n /\ freed' = freed /\ erased' = erased
      /\ key' = [key EXCEPT ![n] = k] /\ level' = [level EXCEPT ![n] = l]
      /\ next' = [x \in {Head} \cup Nodes |-> [i \in Levels |->
                         IF i \notin 0..(l - 1) THEN next[x][i]
                         ELSE IF x = n THEN next[u[i]][i]
                         ELSE IF x = u[i] THEN n ELSE next[x][i]]]
      /\ curLevel' = Raised(l) /\ stored' = stored \cup {k}
      /\ ~Reads(k) /\ ~Hit(k)
  BY DEF insert, LinkedLevels
<1>4. \A i \in 0..curLevel : LastBefore(update(k)[i], k, i)
  BY <1>1, <1>3, UpdateStops DEF ListInv
<1>5. ASSUME NEW i \in 0..(l - 1) PROVE LastBefore(u[i], k, i)
  <2>1. CASE i > curLevel
    <3>1. u[i] = Head /\ next[Head][i] = NULL
      BY <1>2, <2>1 DEF ListInv, EmptyAbove
    <3> QED
      BY <3>1 DEF LastBefore, Places, Precedes
  <2>2. CASE i \in 0..curLevel
    <3>1. u[i] = update(k)[i]
      BY <1>2, <2>2
    <3> QED
      BY <1>4, <2>2, <3>1
  <2> QED
    BY <1>2, <2>1, <2>2
<1>6. k \notin stored
  BY <1>1, <1>2, <1>3, <1>4, HitIsStored DEF Hit, Candidate
<1> HIDE DEF n, u
<1>7. /\ next \in [{Head} \cup Nodes -> [Levels -> {NULL} \cup Nodes]]
      /\ key \in [Nodes -> Int] /\ level \in [Nodes -> Nat]
      /\ freed \subseteq 1..made /\ erased \subseteq freed
      /\ \A x \in 1..made : level[x] \in 1..maxLevel /\ x # n
  BY <1>1 DEF ListInv, ListType
<1>8. /\ Live' = Live \cup {n} /\ Present' = Present \cup {n}
      /\ Places' = Places \cup {n}
      /\ Live \subseteq 1..made /\ Present \subseteq 1..made /\ Live \subseteq Present
      /\ Places = {Head} \cup Live
  BY <1>1, <1>3, <1>7 DEF Live, Present, Places
<1>9. /\ key'[n] = k /\ level'[n] = l
      /\ \A x \in 1..made : key'[x] = key[x] /\ level'[x] = level[x]
      /\ \A x \in Nodes : x # n => key'[x] = key[x] /\ level'[x] = level[x]
  BY <1>1, <1>3, <1>7
<1>10. \A x \in {Head} \cup Nodes : \A i \in Levels :
         next'[x][i] = IF i \notin 0..(l - 1) THEN next[x][i]
                       ELSE IF x = n THEN next[u[i]][i]
                       ELSE IF x = u[i] THEN n ELSE next[x][i]
  BY <1>3
<1>11. ASSUME NEW i \in 0..(l - 1)
       PROVE  /\ u[i] \in Places /\ u[i] # n /\ u[i] \in {Head} \cup Nodes
              /\ u[i] # Head => u[i] \in 1..made /\ level[u[i]] > i /\ key[u[i]] < k
  BY <1>1, <1>5, <1>8 DEF LastBefore, Precedes
<1>12. \A x \in {Head} \cup Nodes : \A i \in Levels :
         next[x][i] # NULL => /\ next[x][i] \in 1..made
                              /\ x \in {Head} \cup 1..made
  BY DEF ListInv, Ascending
<1>13. ListType'
  <2>1. next' \in [{Head} \cup Nodes -> [Levels -> {NULL} \cup Nodes]]
    <3>1. ASSUME NEW x \in {Head} \cup Nodes, NEW i \in Levels
          PROVE  (IF i \notin 0..(l - 1) THEN next[x][i]
                  ELSE IF x = n THEN next[u[i]][i]
                  ELSE IF x = u[i] THEN n ELSE next[x][i]) \in {NULL} \cup Nodes
      BY <1>1, <1>7, <1>11
    <3> QED
      BY <1>3, <3>1
  <2>2. key' \in [Nodes -> Int] /\ level' \in [Nodes -> Nat]
    BY <1>1, <1>2, <1>3, <1>7
  <2>3. curLevel' \in Levels
    BY <1>2, <1>3 DEF Raised, ListInv, ListType
  <2>4. \A x \in 1..made' : level'[x] \in 1..maxLevel
    BY <1>1, <1>3, <1>7, <1>9 DEF n
  <2>5. made' \in 0..MaxNodes /\ freed' \subseteq 1..made'
    BY <1>1, <1>3, <1>7 DEF n, SkipListAssumption
  <2> QED
    BY <1>3, <1>7, <2>1, <2>2, <2>3, <2>4, <2>5 DEF ListType
<1>14. \A x \in {Head} \cup 1..made : \A i, kk : Precedes(x, kk, i)' <=> Precedes(x, kk, i)
  BY <1>1, <1>9 DEF Precedes
<1>15. \A y \in Present : key[y] # k
  BY <1>6 DEF ListInv, OneNodeEach
<1>16. Ascending'
  <2> SUFFICES ASSUME NEW x \in {Head} \cup Nodes, NEW i \in Levels, NEW y,
                      y = next'[x][i], y # NULL
               PROVE  /\ y \in 1..made' /\ level'[y] > i
                      /\ x \in {Head} \cup (1..made')
                      /\ x = Head \/ (level'[x] > i /\ key'[x] < key'[y])
    BY DEF Ascending, Precedes
  <2>1. ASSUME y = next[x][i]
        PROVE  /\ y \in 1..made' /\ level'[y] > i
               /\ x \in {Head} \cup (1..made')
               /\ x = Head \/ (level'[x] > i /\ key'[x] < key'[y])
    <3>1. /\ y \in 1..made /\ level[y] > i /\ x \in {Head} \cup 1..made
          /\ Precedes(x, key[y], i)
      BY <2>1 DEF ListInv, Ascending
    <3> QED
      BY <1>1, <1>3, <1>9, <3>1 DEF Precedes, n
  <2>2. CASE i \in 0..(l - 1) /\ x = n
    <3> DEFINE v == u[i]
    <3>1. y = next[v][i] /\ v \in {Head} \cup Nodes /\ LastBefore(v, k, i)
      BY <1>5, <1>10, <1>11, <2>2
    <3> HIDE DEF v
    <3>2. y \in 1..made /\ level[y] > i /\ y \notin freed /\ key[y] >= k
      BY <3>1 DEF ListInv, Ascending, LastBefore
    <3>3. y \in Present
      BY <1>8, <3>2 DEF Live
    <3>4. k < key[y]
      <4>1. key[y] \in Int /\ key[y] # k
        BY <1>1, <1>7, <1>15, <3>2, <3>3
      <4> QED
        BY <1>1, <3>2, <4>1
    <3> QED
      BY <1>1, <1>2, <1>3, <1>9, <2>2, <3>2, <3>4 DEF n
  <2>3. CASE i \in 0..(l - 1) /\ x # n /\ x = u[i]
    <3>1. y = n /\ level'[y] = l /\ key'[y] = k /\ i < l
      BY <1>2, <1>9, <1>10, <2>3
    <3>2. x = Head \/ (x \in 1..made /\ level[x] > i /\ key[x] < k)
      BY <1>11, <2>3
    <3> QED
      BY <1>1, <1>3, <1>9, <3>1, <3>2 DEF n
  <2>4. CASE i \notin 0..(l - 1) \/ (x # n /\ x # u[i])
    BY <1>10, <2>1, <2>4
  <2> QED
    BY <2>2, <2>3, <2>4
<1>17. NoneSkipped'
  <2> SUFFICES ASSUME NEW x \in Places', NEW z \in Present',
                      NEW i \in 0..(level'[z] - 1),
                      x = Head \/ (level'[x] > i /\ key'[x] < key'[z])
               PROVE  next'[x][i] # NULL /\ key'[next'[x][i]] <= key'[z]
    BY DEF NoneSkipped, Precedes
  <2>1. z \in 1..n /\ i \in Levels /\ i \in Nat /\ i < level'[z]
    <3>1. z \in 1..n
      BY <1>1, <1>8 DEF n
    <3>2. level'[z] \in 1..maxLevel
      BY <1>3, <1>13, <3>1 DEF ListType
    <3> QED
      BY <3>1, <3>2 DEF Levels, SkipListAssumption
  <2>2. x \in {Head} \cup Nodes /\ (x # n => x \in Places /\ x \in {Head} \cup 1..made)
    BY <1>1, <1>8
  <2>3. z # n => /\ z \in Present /\ z \in 1..made /\ key'[z] = key[z]
                 /\ i \in 0..(level[z] - 1) /\ key[z] \in Int
    BY <1>7, <1>8, <1>9, <1>1
  <2>4. CASE x = n
    <3> DEFINE v == u[i]
    <3>1. i \in 0..(l - 1) /\ k < key'[z] /\ z # n
      BY <1>1, <1>2, <1>9, <2>1, <2>4
    <3>2. next'[x][i] = next[v][i] /\ LastBefore(v, k, i)
      BY <1>5, <1>10, <2>1, <2>2, <2>4, <3>1
    <3>3. v \in Places /\ Precedes(v, key[z], i)
      <4>1. v # Head => v \in 1..made /\ level[v] > i /\ key[v] < k
        BY <1>11, <3>1
      <4> HIDE DEF v
      <4> QED
        BY <1>1, <1>7, <2>3, <3>1, <3>2, <4>1 DEF LastBefore, Precedes
    <3> HIDE DEF v
    <3>4. next[v][i] # NULL /\ key[next[v][i]] <= key[z]
      BY <2>3, <3>1, <3>3 DEF ListInv, NoneSkipped
    <3>5. next[v][i] \in 1..made
      BY <1>1, <1>8, <1>12, <2>1, <3>3, <3>4
    <3> QED
      BY <1>9, <2>3, <3>1, <3>2, <3>4, <3>5
  <2>5. CASE x # n /\ z = n
    <3>1. i \in 0..(l - 1) /\ key'[z] = k /\ Precedes(x, k, i)
      BY <1>2, <1>9, <2>1, <2>2, <2>5 DEF Precedes
    <3>2. CASE x = u[i]
      <4>1. next'[x][i] = n
        BY <1>10, <2>1, <2>2, <2>5, <3>1, <3>2
      <4> QED
        BY <1>1, <1>9, <3>1, <4>1
    <3>3. CASE x # u[i]
      <4>1. next'[x][i] = next[x][i]
        BY <1>10, <2>1, <2>2, <2>5, <3>3
      <4> DEFINE v == u[i]
      <4>2. LastBefore(v, k, i) /\ x # v /\ x \in Places
        BY <1>5, <2>2, <2>5, <3>1, <3>3
      <4> HIDE DEF v
      <4>3. /\ v \in Live /\ key[v] < k
            /\ next[x][i] # NULL /\ key[next[x][i]] <= key[v]
        BY <1>1, <2>1, <3>1, <4>2, BeforeLast
      <4>4. next[x][i] \in 1..made /\ v \in 1..made
        BY <1>8, <1>12, <2>1, <2>2, <4>3
      <4>5. key[next[x][i]] \in Int /\ key[v] \in Int
        BY <1>1, <1>7, <4>4
      <4> QED
        BY <1>1, <1>9, <3>1, <4>1, <4>3, <4>4, <4>5
    <3> QED
      BY <3>2, <3>3
  <2>6. CASE x # n /\ z # n
    <3>1. Precedes(x, key[z], i)
      BY <1>9, <2>2, <2>3, <2>6 DEF Precedes
    <3>2. next[x][i] # NULL /\ key[next[x][i]] <= key[z]
      BY <2>2, <2>3, <2>6, <3>1 DEF ListInv, NoneSkipped
    <3>3. next[x][i] \in 1..made /\ key[next[x][i]] \in Int
      BY <1>1, <1>7, <1>12, <2>1, <2>2, <3>2
    <3>4. CASE i \in 0..(l - 1) /\ x = u[i]
      <4>1. next'[x][i] = n
        BY <1>10, <2>1, <2>2, <2>6, <3>4
      <4>2. LastBefore(x, k, i)
        BY <1>5, <3>4
      <4>3. k <= key[next[x][i]]
        BY <1>1, <3>2, <3>3, <4>2 DEF LastBefore
      <4> QED
        BY <1>1, <1>9, <2>3, <2>6, <3>2, <3>3, <4>1, <4>3
    <3>5. CASE ~ (i \in 0..(l - 1) /\ x = u[i])
      <4>1. next'[x][i] = next[x][i]
        BY <1>10, <2>1, <2>2, <2>6, <3>5
      <4> QED
        BY <1>1, <1>9, <2>3, <2>6, <3>2, <3>3, <4>1
    <3> QED
      BY <3>4, <3>5
  <2> QED
    BY <2>4, <2>5, <2>6
<1>18. OneNodeEach'
  <2>1. \A x \in Present : key'[x] = key[x]
    BY <1>8, <1>9
  <2>2. /\ \A x, y \in Present : key[x] = key[y] => x = y
        /\ stored = { key[x] : x \in Present }
    BY DEF ListInv, OneNodeEach
  <2>3. { key'[x] : x \in Present' } = { key[x] : x \in Present } \cup {k}
    BY <1>8, <1>9, <2>1
  <2>4. \A x, y \in Present' : key'[x] = key'[y] => x = y
    BY <1>8, <1>9, <1>15, <2>1, <2>2
  <2> QED
    BY <1>3, <2>2, <2>3, <2>4 DEF OneNodeEach
<1>19. EmptyAbove'
  <2> SUFFICES ASSUME NEW i \in Levels, i > Raised(l) PROVE next'[Head][i] = NULL
    BY <1>3 DEF EmptyAbove
  <2>1. i > curLevel /\ i \notin 0..(l - 1)
    BY <1>2 DEF Raised
  <2>2. next'[Head][i] = next[Head][i]
    BY <1>10, <2>1
  <2> QED
    BY <2>1, <2>2 DEF ListInv, EmptyAbove
<1> QED
  BY <1>13, <1>16, <1>17, <1>18, <1>19 DEF ListInv

(* A deleted node that had the key is unlinked level by level, with one    *)
(* that had not nothing is unlinked: its key stays among those that no     *)
(* link jumps over.                                                        *)
LEMMA EraseList ==
    ASSUME SkipListAssumption, ListInv, NEW k \in Keys, erase(k)
    PROVE  ListInv'
<1> DEFINE u == update(k)
           c == Candidate(k)
           out == IF Hit(k) THEN UnlinkedLevels(u, c) ELSE {}
<1>1. /\ k \in Int /\ made \in Nat /\ 1..made \subseteq Nodes
      /\ NULL \notin Nodes /\ Head \notin Nodes
      /\ curLevel \in Nat /\ 0 \in Levels /\ 0 \in 0..curLevel /\ Levels \subseteq Nat
      /\ 0..curLevel \subseteq Levels
      /\ \A i \in Levels : i \in 0..curLevel \/ i > curLevel
  BY DEF SkipListAssumption, ListInv, ListType, Nodes, Head, NULL, Levels
<1>2. /\ next' = [x \in {Head} \cup Nodes |-> [i \in Levels |->
                         IF i \in out /\ x = u[i] THEN next[c][i]
                         ELSE next[x][i]]]
      /\ freed' = freed \cup ({c} \ {NULL})
      /\ erased' = IF Hit(k) THEN erased \cup {c} ELSE erased
      /\ curLevel' = Lowered(next') /\ stored' = stored \ {k}
      /\ key' = key /\ level' = level /\ made' = made
      /\ ~Reads(k)
  BY DEF erase
<1>3. \A i \in 0..curLevel : LastBefore(u[i], k, i)
  BY <1>1, <1>2, UpdateStops DEF ListInv
<1>4. /\ c # NULL => c \in Present /\ c \in Live
      /\ Hit(k) <=> k \in stored
      /\ Hit(k) => c # NULL /\ key[c] = k
  BY <1>1, <1>3, HitIsStored DEF Hit, Candidate
<1>5. \A i \in out : /\ Hit(k) /\ i \in 0..curLevel /\ i \in Levels /\ i < curLevel
                     /\ next[u[i]][i] = c
  BY <1>1 DEF UnlinkedLevels
<1> HIDE DEF u, c, out
<1>6. /\ next \in [{Head} \cup Nodes -> [Levels -> {NULL} \cup Nodes]]
      /\ key \in [Nodes -> Int] /\ level \in [Nodes -> Nat]
      /\ freed \subseteq 1..made /\ erased \subseteq freed
      /\ \A x \in 1..made : level[x] \in 1..maxLevel
      /\ \A x, y \in Present : key[x] = key[y] => x = y
      /\ stored = { key[x] : x \in Present }
  BY DEF ListInv, ListType, OneNodeEach
<1>7. /\ Live' \subseteq Live /\ Present' \subseteq Present /\ Places' \subseteq Places
      /\ Hit(k) => Present' = Present \ {c}
      /\ ~Hit(k) => Present' = Present
      /\ Live \subseteq Present /\ Live \subseteq 1..made /\ Present \subseteq 1..made
      /\ Places = {Head} \cup Live
  BY <1>2, <1>6 DEF Live, Present, Places
<1>8. \A x \in {Head} \cup Nodes : \A i \in Levels :
         next'[x][i] = IF i \in out /\ x = u[i] THEN next[c][i] ELSE next[x][i]
  BY <1>2
<1>9. \A x, kk, i : Precedes(x, kk, i)' <=> Precedes(x, kk, i)
  BY <1>2 DEF Precedes
<1>10. ASSUME NEW i \in out
       PROVE  /\ c \in Live /\ c \in Nodes /\ c \in Present /\ key[c] = k
              /\ level[c] > i /\ u[i] \in Places /\ u[i] \in {Head} \cup Nodes
              /\ Precedes(u[i], k, i) /\ i \in Levels
  <2>1. LastBefore(u[i], k, i) /\ Hit(k) /\ i \in Levels /\ next[u[i]][i] = c
    BY <1>3, <1>5
  <2>2. c # NULL /\ c \in Live /\ c \in Present /\ key[c] = k
    BY <1>4, <2>1
  <2>3. u[i] \in Places /\ u[i] \in {Head} \cup Nodes /\ Precedes(u[i], k, i)
    BY <1>1, <1>7, <2>1 DEF LastBefore
  <2>4. level[c] > i
    BY <2>1, <2>2, <2>3 DEF ListInv, Ascending
  <2> QED
    BY <1>1, <1>7, <2>1, <2>2, <2>3, <2>4
<1>11. /\ Lowered(next') \in 0..curLevel
       /\ \A i \in Levels : i > Lowered(next') =>
             next'[Head][i] = NULL \/ i > curLevel
  <2> DEFINE S == { i \in 0..curLevel : i = 0 \/ next'[Head][i] # NULL }
  <2>1. Lowered(next') = Max(S)
    BY DEF Lowered
  <2>2. S \subseteq 0..curLevel /\ S # {}
    BY <1>1
  <2>3. Max(S) \in S /\ \A y \in S : Max(S) >= y
    <3> HIDE DEF S
    <3> QED
      BY <1>1, <2>2, MaxIsIn
  <2>4. \A i \in Levels : i > Max(S) => i \notin S
    BY <1>1, <2>2, <2>3
  <2> QED
    BY <1>1, <2>1, <2>2, <2>3, <2>4
<1>12. ListType'
  <2>1. next' \in [{Head} \cup Nodes -> [Levels -> {NULL} \cup Nodes]]
    <3>1. ASSUME NEW x \in {Head} \cup Nodes, NEW i \in Levels
          PROVE  (IF i \in out /\ x = u[i] THEN next[c][i] ELSE next[x][i])
                    \in {NULL} \cup Nodes
      BY <1>6, <1>10
    <3> QED
      BY <1>2, <3>1
  <2>2. freed' \subseteq 1..made /\ erased' \subseteq freed'
    BY <1>2, <1>4, <1>6, <1>7
  <2>3. curLevel' \in Levels
    BY <1>1, <1>2, <1>11
  <2>4. made' \in 0..MaxNodes
    BY <1>2 DEF ListInv, ListType
  <2> QED
    BY <1>2, <1>6, <2>1, <2>2, <2>3, <2>4 DEF ListType
<1>13. Ascending'
  <2> SUFFICES ASSUME NEW x \in {Head} \cup Nodes, NEW i \in Levels, NEW y,
                      y = next'[x][i], y # NULL
               PROVE  /\ y \in 1..made /\ level[y] > i
                      /\ x \in {Head} \cup 1..made /\ Precedes(x, key[y], i)
    BY <1>2 DEF Ascending, Precedes
  <2>1. CASE i \in out /\ x = u[i]
    <3>1. y = next[c][i] /\ c \in Nodes /\ c # Head /\ key[c] = k
      BY <1>1, <1>8, <1>10, <2>1
    <3>2. y \in 1..made /\ level[y] > i /\ Precedes(c, key[y], i)
      BY <3>1 DEF ListInv, Ascending
    <3>3. Precedes(x, k, i) /\ x \in {Head} \cup 1..made
      BY <1>7, <1>10, <2>1
    <3>4. x # Head => key[x] \in Int
      BY <1>1, <1>6, <3>3
    <3>5. key[y] \in Int /\ k < key[y]
      BY <1>1, <1>6, <3>1, <3>2 DEF Precedes
    <3>6. Precedes(x, key[y], i)
      BY <1>1, <3>3, <3>4, <3>5 DEF Precedes
    <3> QED
      BY <3>2, <3>3, <3>6
  <2>2. CASE ~ (i \in out /\ x = u[i])
    BY <1>8, <2>2 DEF ListInv, Ascending
  <2> QED
    BY <2>1, <2>2
<1>14. NoneSkipped'
  <2> SUFFICES ASSUME NEW x \in Places', NEW z \in Present',
                      NEW i \in 0..(level[z] - 1), Precedes(x, key[z], i)
               PROVE  next'[x][i] # NULL /\ key[next'[x][i]] <= key[z]
    BY <1>2, <1>9 DEF NoneSkipped
  <2>1. /\ x \in Places /\ z \in Present /\ x \in {Head} \cup Nodes
        /\ z \in Nodes /\ key[z] \in Int
    BY <1>1, <1>6, <1>7
  <2>2. i \in Levels
    <3>1. level[z] \in 1..maxLevel
      BY <1>6, <1>7
    <3> QED
      BY <3>1 DEF Levels, SkipListAssumption
  <2>3. next[x][i] # NULL /\ key[next[x][i]] <= key[z]
    BY <2>1 DEF ListInv, NoneSkipped
  <2>4. CASE i \in out /\ x = u[i]
    <3>1. /\ next'[x][i] = next[c][i] /\ next[x][i] = c /\ z # c
          /\ c \in Live /\ c \in Present /\ c \in Nodes /\ level[c] > i
      BY <1>5, <1>7, <1>8, <1>10, <2>1, <2>2, <2>4
    <3>2. key[c] \in Int /\ key[c] # key[z]
      BY <1>6, <2>1, <3>1
    <3>3. Precedes(c, key[z], i) /\ c \in Places
      BY <1>7, <2>1, <2>3, <3>1, <3>2 DEF Precedes
    <3> QED
      BY <2>1, <3>1, <3>3 DEF ListInv, NoneSkipped
  <2>5. CASE ~ (i \in out /\ x = u[i])
    BY <1>8, <2>1, <2>2, <2>3, <2>5
  <2> QED
    BY <2>4, <2>5
<1>15. OneNodeEach'
  <2>1. \A x, y \in Present' : key[x] = key[y] => x = y
    BY <1>6, <1>7
  <2>2. stored \ {k} = { key[x] : x \in Present' }
    <3>1. CASE Hit(k)
      <4>1. Present' = Present \ {c} /\ c \in Present /\ key[c] = k
        BY <1>4, <1>7, <3>1
      <4> QED
        BY <1>6, <4>1
    <3>2. CASE ~Hit(k)
      <4>1. k \notin stored /\ Present' = Present
        BY <1>4, <1>7, <3>2
      <4> QED
        BY <1>6, <4>1
    <3> QED
      BY <3>1, <3>2
  <2> QED
    BY <1>2, <2>1, <2>2 DEF OneNodeEach
<1>16. EmptyAbove'
  <2> SUFFICES ASSUME NEW i \in Levels, i > Lowered(next') PROVE next'[Head][i] = NULL
    BY <1>2 DEF EmptyAbove
  <2>1. CASE i > curLevel
    <3>1. i \notin out
      BY <1>1, <1>5, <2>1
    <3>2. next'[Head][i] = next[Head][i]
      BY <1>8, <3>1
    <3> QED
      BY <2>1, <3>2 DEF ListInv, EmptyAbove
  <2>2. CASE ~ (i > curLevel)
    BY <1>11, <2>2
  <2> QED
    BY <2>1, <2>2
<1> QED
  BY <1>12, <1>13, <1>14, <1>15, <1>16 DEF ListInv

(* The finder while others change the list.                                *)
LEMMA FinderKept ==
    ASSUME FindInv, FindAnswersRight, UNCHANGED <<fpc, fkey, fnode>>, Noted,
           1..made \subseteq 1..made', \A x \in 1..made : key'[x] = key[x]
    PROVE  FindInv' /\ FindAnswersRight'
<1>1. /\ wasIn' \in BOOLEAN /\ wasOut' \in BOOLEAN /\ changed' \in BOOLEAN
      /\ wasIn => wasIn'
      /\ wasOut => wasOut'
      /\ changed => changed'
      /\ fkey \in stored' => wasIn'
      /\ fkey \notin stored' => wasOut'
      /\ fpc = "pre" => changed'
  BY DEF Noted, FindInv
<1>2. FindInv'
  <2>1. CASE fpc = "pre"
    BY <1>1, <2>1 DEF FindInv
  <2>2. CASE fpc = "next"
    <3>1. /\ fnode \in {NULL} \cup 1..made'
          /\ ~changed' /\ ~wasOut' => fnode # NULL /\ key'[fnode] = fkey
      BY <1>1, <2>2 DEF FindInv
    <3> QED
      BY <1>1, <2>2, <3>1 DEF FindInv
  <2>3. CASE fpc \notin {"pre", "next"}
    BY <1>1, <2>3 DEF FindInv
  <2> QED
    BY <2>1, <2>2, <2>3
<1>3. FindAnswersRight'
  BY <1>1 DEF FindInv, FindAnswersRight
<1> QED
  BY <1>2, <1>3

LEMMA ListUnchanged ==
    ASSUME ListInv, UNCHANGED <<listVars, stored, erased>>
    PROVE  ListInv' /\ \A x, k, i : LastBefore(x, k, i)' <=> LastBefore(x, k, i)
<1> USE DEF listVars
<1>1. /\ Live' = Live /\ Present' = Present /\ Places' = Places
      /\ \A x, k, i : Precedes(x, k, i)' <=> Precedes(x, k, i)
  BY DEF Live, Present, Places, Precedes
<1>2. ListType' /\ Ascending' /\ EmptyAbove'
  BY DEF ListInv, ListType, Ascending, EmptyAbove, Precedes
<1>3. OneNodeEach'
  BY <1>1 DEF ListInv, OneNodeEach
<1>4. NoneSkipped'
  <2> SUFFICES ASSUME NEW x \in Places, NEW z \in Present,
                      NEW i \in 0..(level[z] - 1), Precedes(x, key[z], i)
               PROVE  next[x][i] # NULL /\ key[next[x][i]] <= key[z]
    BY <1>1 DEF NoneSkipped, Precedes
  <2> QED
    BY DEF ListInv, NoneSkipped
<1> QED
  BY <1>1, <1>2, <1>3, <1>4 DEF ListInv, LastBefore

LEMMA FindPreStep ==
    ASSUME SkipListAssumption, SkipListInv, NEW k \in Keys, FindPre(k)
    PROVE  SkipListInv'
<1>1. /\ k \in Int /\ ~Reads(k) /\ 0 \in 0..curLevel /\ ListInv
      /\ Places \subseteq {Head} \cup 1..made
  BY DEF SkipListAssumption, FindPre, SkipListInv, ListInv, ListType, Levels, Places,
         Live
<1>2. LastBefore(update(k)[0], k, 0)
  BY <1>1, UpdateStops DEF ListInv
<1>3. /\ fnode' = update(k)[0] /\ fkey' = k /\ fpc' = "pre"
      /\ wasIn' = (k \in stored) /\ wasOut' = (k \notin stored) /\ changed' = FALSE
      /\ UNCHANGED <<listVars, stored, erased>> /\ made' = made
  BY DEF FindPre, listVars
<1>4. PICK v : v = update(k)[0]
  OBVIOUS
<1>5. ListInv' /\ LastBefore(v, k, 0)'
  BY <1>1, <1>2, <1>3, <1>4, ListUnchanged
<1>6. LastBefore(fnode, fkey, 0)'
  BY <1>3, <1>4, <1>5 DEF LastBefore, Precedes
<1>7. v \in {Head} \cup 1..made
  BY <1>1, <1>2, <1>4 DEF LastBefore
<1>8. FindInv'
  <2>1. fnode' \in {Head} \cup 1..made'
    BY <1>3, <1>4, <1>7
  <2>2. wasIn' \in BOOLEAN /\ wasOut' \in BOOLEAN /\ changed' \in BOOLEAN
    <3>1. (k \in stored) \in BOOLEAN /\ (k \notin stored) \in BOOLEAN
      OBVIOUS
    <3> QED
      BY <1>3, <3>1, Zenon
  <2>3. stored' = stored /\ fkey' \in Int
    BY <1>1, <1>3
  <2>4. (fkey' \in stored' => wasIn') /\ (fkey' \notin stored' => wasOut')
    BY <1>3, <2>3, Zenon
  <2>5. fpc' = "pre"
    BY <1>3
  <2> QED
    BY <1>6, <2>1, <2>2, <2>3, <2>4, <2>5 DEF FindInv
<1>9. FindAnswersRight'
  BY <1>3 DEF FindAnswersRight
<1> QED
  BY <1>5, <1>8, <1>9 DEF SkipListInv

(* The link is read without the lock: only if nothing has changed is it    *)
(* the one to the node of the key.                                         *)
LEMMA FindNextStep ==
    ASSUME SkipListAssumption, SkipListInv, FindNext
    PROVE  SkipListInv'
<1>1. /\ fpc = "pre" /\ fpc' = "next" /\ fnode' = next[fnode][0] /\ fnode \notin freed
      /\ UNCHANGED <<listVars, fkey, stored, erased, wasIn, wasOut, changed>>
      /\ made' = made /\ key' = key
  BY DEF FindNext, listVars
<1>2. ListInv'
  BY <1>1, ListUnchanged DEF SkipListInv
<1>3. /\ fkey \in Int /\ fnode \in {Head} \cup 1..made
      /\ ~changed => LastBefore(fnode, fkey, 0)
      /\ wasIn \in BOOLEAN /\ wasOut \in BOOLEAN /\ changed \in BOOLEAN
      /\ fkey \in stored => wasIn
      /\ fkey \notin stored => wasOut
  BY <1>1 DEF SkipListInv, FindInv
<1>4. fnode' \in {NULL} \cup 1..made
  <2>1. fnode \in {Head} \cup Nodes /\ 0 \in Levels
    BY <1>3 DEF SkipListInv, ListInv, ListType, Nodes, Levels, SkipListAssumption
  <2> QED
    BY <1>1, <2>1 DEF SkipListInv, ListInv, Ascending
<1>5. ASSUME ~changed, ~wasOut PROVE fnode' # NULL /\ key[fnode'] = fkey
  <2>1. fkey \in stored /\ LastBefore(fnode, fkey, 0) /\ ListInv
    BY <1>3, <1>5 DEF SkipListInv
  <2> QED
    BY <1>1, <1>3, <2>1, HitIsStored
<1>6. FindInv'
  BY <1>1, <1>3, <1>4, <1>5 DEF FindInv
<1>7. FindAnswersRight'
  BY <1>1 DEF FindAnswersRight
<1> QED
  BY <1>2, <1>6, <1>7 DEF SkipListInv

LEMMA FindCompareStep ==
    ASSUME SkipListAssumption, SkipListInv, FindCompare
    PROVE  SkipListInv'
<1>1. /\ fpc = "next" /\ fnode \notin freed
      /\ fpc' = IF fnode # NULL /\ key[fnode] = fkey THEN "found" ELSE "missed"
      /\ UNCHANGED <<listVars, fkey, fnode, stored, erased, wasIn, wasOut, changed>>
      /\ made' = made /\ key' = key
  BY DEF FindCompare, KeyFound, listVars
<1>2. ListInv'
  BY <1>1, ListUnchanged DEF SkipListInv
<1>3. /\ fkey \in Int /\ fnode \in {NULL} \cup 1..made
      /\ ~changed /\ ~wasOut => fnode # NULL /\ key[fnode] = fkey
      /\ wasIn \in BOOLEAN /\ wasOut \in BOOLEAN /\ changed \in BOOLEAN
      /\ fkey \in stored => wasIn
      /\ fkey \notin stored => wasOut
  BY <1>1 DEF SkipListInv, FindInv
<1>4. CASE fnode # NULL /\ key[fnode] = fkey
  <2>1. fnode \in 1..made /\ fnode \in Present
    BY <1>1, <1>3, <1>4 DEF Present, SkipListInv, ListInv, ListType
  <2>2. fkey \in stored
    BY <1>4, <2>1 DEF SkipListInv, ListInv, OneNodeEach
  <2>3. fpc' = "found" /\ wasIn
    BY <1>1, <1>3, <1>4, <2>2
  <2>4. FindInv'
    BY <1>1, <1>3, <2>1, <2>3 DEF FindInv
  <2>5. FindAnswersRight'
    BY <1>1, <1>4, <2>3 DEF FindAnswersRight
  <2> QED
    BY <1>2, <2>4, <2>5 DEF SkipListInv
<1>5. CASE ~ (fnode # NULL /\ key[fnode] = fkey)
  <2>1. fpc' = "missed" /\ (~changed => wasOut)
    BY <1>1, <1>3, <1>5
  <2>2. FindInv'
    BY <1>1, <1>3, <2>1 DEF FindInv
  <2>3. FindAnswersRight'
    BY <1>1, <2>1 DEF FindAnswersRight
  <2> QED
    BY <1>2, <2>2, <2>3 DEF SkipListInv
<1> QED
  BY <1>4, <1>5

LEMMA FindReturnsStep ==
    ASSUME SkipListInv, FindReturns
    PROVE  SkipListInv'
<1>1. ListInv'
  BY ListUnchanged DEF FindReturns, SkipListInv
<1>2. FindInv' /\ FindAnswersRight'
  BY DEF FindReturns, FindInv, FindAnswersRight
<1> QED
  BY <1>1, <1>2 DEF SkipListInv

(* Nothing changes, except that the behaviour may be over.                 *)
LEMMA QuietStep ==
    ASSUME SkipListInv, UNCHANGED <<listVars, findVars, stored, erased>>
    PROVE  SkipListInv'
<1>1. ListInv' /\ (LastBefore(fnode, fkey, 0)' <=> LastBefore(fnode, fkey, 0))
  <2>1. fnode' = fnode /\ fkey' = fkey
    BY DEF findVars
  <2>2. ListInv' /\ \A x, k, i : LastBefore(x, k, i)' <=> LastBefore(x, k, i)
    BY ListUnchanged DEF SkipListInv
  <2> QED
    BY <2>1, <2>2 DEF LastBefore, Precedes
<1>2. FindInv' /\ FindAnswersRight'
  BY <1>1 DEF SkipListInv, FindInv, FindAnswersRight, findVars, listVars
<1> QED
  BY <1>1, <1>2 DEF SkipListInv

LEMMA NextSkipList == SkipListAssumption /\ SkipListInv /\ [Next]_vars => SkipListInv'
<1> SUFFICES ASSUME SkipListAssumption, SkipListInv, [Next]_vars PROVE SkipListInv'
  OBVIOUS
<1>1. ASSUME NEW k \in Keys, NEW l \in 1..maxLevel, insert(k, l) PROVE SkipListInv'
  <2>1. ListInv'
    BY <1>1, InsertList DEF SkipListInv
  <2>2. /\ UNCHANGED <<fpc, fkey, fnode>> /\ Noted /\ made' = made + 1
        /\ key' = [key EXCEPT ![made + 1] = k]
    BY <1>1 DEF insert
  <2>3. 1..made \subseteq 1..made' /\ \A x \in 1..made : key'[x] = key[x]
    BY <2>2 DEF SkipListInv, ListInv, ListType, SkipListAssumption, Nodes
  <2> QED
    BY <2>1, <2>2, <2>3, FinderKept DEF SkipListInv
<1>2. ASSUME NEW k \in Keys, erase(k) PROVE SkipListInv'
  <2>1. ListInv'
    BY <1>2, EraseList DEF SkipListInv
  <2>2. /\ UNCHANGED <<fpc, fkey, fnode>> /\ Noted /\ made' = made /\ key' = key
    BY <1>2 DEF erase
  <2> QED
    BY <2>1, <2>2, FinderKept DEF SkipListInv
<1>3. ASSUME NEW k \in Keys, insertExisting(k) \/ UpdateLost(k) PROVE SkipListInv'
  BY <1>3, QuietStep DEF insertExisting, UpdateLost, Lost, vars
<1>4. ASSUME NEW k \in Keys, FindPre(k) PROVE SkipListInv'
  BY <1>4, FindPreStep
<1>5. CASE FindNext
  BY <1>5, FindNextStep
<1>6. CASE FindCompare
  BY <1>6, FindCompareStep
<1>7. CASE FindReturns
  BY <1>7, FindReturnsStep
<1>8. CASE FindLost \/ Over \/ UNCHANGED vars
  BY <1>8, QuietStep DEF FindLost, Lost, Over, vars
<1> QED
  BY <1>1, <1>2, <1>3, <1>4, <1>5, <1>6, <1>7, <1>8 DEF Next

THEOREM SkipListInvariant == Spec => []SkipListInv
<1> USE SkipListAssumption
<1>1. Init => SkipListInv
  BY InitSkipList
<1>2. SkipListInv /\ [Next]_vars => SkipListInv'
  BY NextSkipList
<1> QED
  BY <1>1, <1>2, PTL DEF Spec

-----------------------------------------------------------------------------
(* As long as no link leads to a deleted node, the links are a skip list:  *)
(* every node on all its levels, the keys ascending, nothing above         *)
(* _curLevel.                                                              *)
THEOREM IsSkipList == Spec => []Shape
<1>1. SkipListInv => Shape
  BY SkipListAssumption, ShapeHolds DEF SkipListInv
<1> QED
  BY <1>1, SkipListInvariant, PTL

(* ... and hold the keys inserted and not erased since; a search finds     *)
(* exactly these.                                                          *)
THEOREM HoldsWhatIsStored == Spec => []Contents
<1>1. SkipListInv => Contents
  BY SkipListAssumption, ContentsHold DEF SkipListInv
<1> QED
  BY <1>1, SkipListInvariant, PTL

(* What find() answers was true at some time during the call, a miss only  *)
(* if the list did not change before it read next[0], and whatever erase() *)
(* has broken before.                                                      *)
THEOREM FindIsRight == Spec => []FindAnswersRight
<1>1. SkipListInv => FindAnswersRight
  BY DEF SkipListInv
<1> QED
  BY <1>1, SkipListInvariant, PTL
=============================================================================
