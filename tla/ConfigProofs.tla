---------------------------- MODULE ConfigProofs ----------------------------
(***************************************************************************)
(* Proofs about Config, for all threads, variables, files and values.      *)
(***************************************************************************)
EXTENDS Config, FiniteSetTheorems, SequenceTheorems, WellFoundedInduction,
        TLAPS

(* As long as no creation has had company in the registry, at most one     *)
(* thread is at it, and the name it is about to insert is still not there: *)
(* nothing a lookup has returned is replaced.                              *)
Alone ==
    /\ ~undefined
    /\ handles \subseteq registry
    /\ \A t, u \in Threads : Creating(t) /\ Creating(u) => t = u
    /\ \A t \in Threads :
          task[t].at \in {"insert", "inserting"} =>
              Found(task[t].what.name) = {}

(* What a thread goes on with after its callback is no creation.           *)
GoesOn(t) == task[t].at = "notify" => task[t].next.at \in {"idle", "load"}

RegistryInv ==
    /\ overlapped \in BOOLEAN /\ undefined \in BOOLEAN
    /\ task = [t \in Threads |-> task[t]]
    /\ \A t \in Threads : GoesOn(t)
    /\ ~overlapped => Alone

LEMMA InitRegistry == Init => RegistryInv
<1> SUFFICES ASSUME Init PROVE RegistryInv
  OBVIOUS
<1>1. overlapped \in BOOLEAN /\ undefined \in BOOLEAN /\ ~undefined
  BY DEF Init
<1>2. task = [t \in Threads |-> Idle] /\ handles = registry
  BY DEF Init
<1>3. \A t \in Threads : task[t].at = "idle"
  BY <1>2 DEF Idle
<1>4. task = [t \in Threads |-> task[t]]
  BY <1>2
<1>5. Alone
  BY <1>1, <1>2, <1>3 DEF Alone, Creating
<1> QED
  BY <1>1, <1>3, <1>4, <1>5 DEF RegistryInv, GoesOn

(* A step of thread t that goes to a state that creates nothing and leaves *)
(* the registry alone.                                                     *)
LEMMA QuietStep ==
    ASSUME RegistryInv, NEW t \in Threads, NEW s,
           task' = [task EXCEPT ![t] = s],
           s.at \notin {"again", "insert", "inserting"},
           s.at = "notify" => s.next.at \in {"idle", "load"},
           registry' = registry, handles' = handles,
           Access(t) \/ NoAccess
    PROVE  RegistryInv'
<1>0. /\ overlapped' \in BOOLEAN /\ undefined' \in BOOLEAN
      /\ overlapped => overlapped'
  BY DEF Access, NoAccess, RegistryInv
<1>1. /\ task'[t] = s /\ \A u \in Threads \ {t} : task'[u] = task[u]
      /\ task' = [u \in Threads |-> task'[u]]
  BY DEF RegistryInv
<1>2. \A u \in Threads : GoesOn(u)'
  BY <1>1 DEF RegistryInv, GoesOn
<1>3. \A u \in Threads : Creating(u)' => Creating(u) /\ u # t
  BY <1>1 DEF Creating
<1>4. ASSUME ~overlapped' PROVE Alone'
  <2>1. ~overlapped /\ Alone
    BY <1>4, <1>0 DEF RegistryInv
  <2>2. ~undefined'
    BY <1>4, <2>1 DEF Access, NoAccess, Alone, Creating
  <2>3. \A n : Found(n)' = Found(n)
    BY DEF Found
  <2> QED
    BY <1>1, <1>3, <2>1, <2>2, <2>3 DEF Alone, Creating
<1> QED
  BY <1>0, <1>1, <1>2, <1>4 DEF RegistryInv

(* A step that stores a value, converted or not.                           *)
LEMMA StoreStep ==
    ASSUME RegistryInv, NEW t \in Threads, NEW v, NEW x, NEW next,
           Store(t, v, x, next), next.at \in {"idle", "load"},
           registry' = registry, handles' = handles,
           Access(t) \/ NoAccess
    PROVE  RegistryInv'
<1> DEFINE s == IF x = object[v].value
                THEN next
                ELSE [at |-> "notify", var |-> v, next |-> next,
                      old |-> object[v].value, new |-> x]
<1>1. task' = [task EXCEPT ![t] = s]
  BY DEF Store
<1>2. /\ s.at \notin {"again", "insert", "inserting"}
      /\ s.at = "notify" => s.next.at \in {"idle", "load"}
  OBVIOUS
<1> HIDE DEF s
<1> QED
  BY <1>1, <1>2, QuietStep

LEMMA FromStringStep ==
    ASSUME RegistryInv, NEW t \in Threads, NEW v, NEW text, NEW next,
           FromString(t, v, text, next), next.at \in {"idle", "load"},
           registry' = registry, handles' = handles,
           Access(t) \/ NoAccess
    PROVE  RegistryInv'
<1>1. CASE \E x \in FromText(object[v].type, text) : Store(t, v, x, next)
  BY <1>1, StoreStep
<1>2. CASE task' = [task EXCEPT ![t] = next]
  BY <1>2, QuietStep
<1> QED
  BY <1>1, <1>2 DEF FromString

(* A step that only looks.                                                 *)
LEMMA LookStep ==
    ASSUME RegistryInv, NEW t \in Threads,
           UNCHANGED <<task, registry>>,
           \/ handles' = handles
           \/ \E w \in Wanted : handles' = handles \cup FoundAs(w.name, w.type),
           Access(t) \/ NoAccess
    PROVE  RegistryInv'
<1>1. /\ overlapped' \in BOOLEAN /\ undefined' \in BOOLEAN
      /\ overlapped => overlapped'
  BY DEF Access, NoAccess, RegistryInv
<1>2. handles \subseteq registry => handles' \subseteq registry'
  BY DEF FoundAs, Found
<1>3. ASSUME ~overlapped' PROVE Alone'
  <2>1. ~overlapped /\ Alone
    BY <1>1, <1>3 DEF RegistryInv
  <2>2. ~undefined'
    BY <1>3, <2>1 DEF Access, NoAccess, Alone, Creating
  <2>3. /\ \A u \in Threads : Creating(u)' = Creating(u)
        /\ \A n : Found(n)' = Found(n)
    BY DEF Creating, Found
  <2> QED
    BY <1>2, <2>1, <2>2, <2>3 DEF Alone
<1> QED
  BY <1>1, <1>3 DEF RegistryInv, GoesOn

(* The first step of a creation, and that it goes on: nobody else is in    *)
(* the middle of one.                                                      *)
LEMMA CreateStep ==
    ASSUME RegistryInv, NEW t \in Threads, NEW s,
           task' = [task EXCEPT ![t] = s],
           s.at \in {"again", "insert", "inserting"},
           ~overlapped /\ s.at # "again" => Found(s.what.name) = {},
           registry' = registry, handles' = handles,
           Access(t)
    PROVE  RegistryInv'
<1>0. /\ overlapped' \in BOOLEAN /\ undefined' \in BOOLEAN
      /\ overlapped => overlapped'
  BY DEF Access, RegistryInv
<1>1. /\ task'[t] = s /\ \A u \in Threads \ {t} : task'[u] = task[u]
      /\ task' = [u \in Threads |-> task'[u]]
  BY DEF RegistryInv
<1>2. \A u \in Threads : GoesOn(u)'
  BY <1>1 DEF RegistryInv, GoesOn
<1>3. ASSUME ~overlapped' PROVE Alone'
  <2>1. ~overlapped /\ Alone
    BY <1>0, <1>3 DEF RegistryInv
  <2>2. \A u \in Threads \ {t} : ~Creating(u)
    BY <1>3 DEF Access
  <2>3. ~undefined'
    BY <1>3, <2>2 DEF Access, Creating
  <2>4. \A u \in Threads : Creating(u)' => u = t
    BY <1>1, <2>2 DEF Creating
  <2>5. ASSUME NEW u \in Threads, task'[u].at \in {"insert", "inserting"}
        PROVE  Found(task[u].what.name)' = {}
    <3>1. u = t
      BY <2>4, <2>5 DEF Creating
    <3>2. task'[u] = s /\ s.at # "again"
      BY <1>1, <2>5, <3>1
    <3>3. Found(s.what.name) = {}
      BY <2>1, <3>2
    <3> QED
      BY <3>2, <3>3 DEF Found
  <2> QED
    BY <2>1, <2>3, <2>4, <2>5 DEF Alone
<1> QED
  BY <1>0, <1>1, <1>2, <1>3 DEF RegistryInv

LEMMA EndInsertStep ==
    ASSUME RegistryInv, NEW t \in Threads, EndInsert(t)
    PROVE  RegistryInv'
<1> DEFINE r == [name |-> task[t].what.name, var |-> task[t].var]
<1>1. /\ task[t].at = "inserting" /\ task' = [task EXCEPT ![t] = Idle]
      /\ registry' = (registry \ Found(r.name)) \cup {r}
      /\ handles' = handles \cup {r}
      /\ overlapped' = overlapped /\ undefined' = undefined
      /\ r.name = task[t].what.name
  BY DEF EndInsert, NoAccess
<1> HIDE DEF r
<1>2. /\ task'[t] = Idle /\ \A u \in Threads \ {t} : task'[u] = task[u]
      /\ task' = [u \in Threads |-> task'[u]]
  BY <1>1 DEF RegistryInv
<1>3. \A u \in Threads : GoesOn(u)'
  BY <1>2 DEF RegistryInv, GoesOn, Idle
<1>4. ASSUME ~overlapped PROVE Alone'
  <2>1. Alone
    BY <1>4 DEF RegistryInv
  <2>2. registry' = registry \cup {r}
    BY <1>1, <2>1 DEF Alone
  <2>3. \A u \in Threads : ~Creating(u)'
    BY <1>1, <1>2, <2>1 DEF Alone, Creating, Idle
  <2> QED
    BY <1>1, <2>1, <2>2, <2>3 DEF Alone, Creating
<1> QED
  BY <1>1, <1>2, <1>3, <1>4 DEF RegistryInv

LEMMA StepRegistry == RegistryInv /\ [Next]_vars => RegistryInv'
<1> SUFFICES ASSUME RegistryInv, [Next]_vars PROVE RegistryInv'
  OBVIOUS
<1>1. ASSUME NEW t \in Threads, NEW w \in Wanted, lookup(t, w)
      PROVE  RegistryInv'
  BY <1>1, LookStep DEF lookup
<1>2. ASSUME NEW t \in Threads, NEW w \in Wanted, lookupMissed(t, w)
      PROVE  RegistryInv'
  BY <1>2, CreateStep DEF lookupMissed
<1>3. ASSUME NEW t \in Threads, lookupAgain(t) PROVE RegistryInv'
  <2>1. CASE Known(task[t].what.name)
    BY <1>3, <2>1, QuietStep DEF lookupAgain, Idle
  <2>2. CASE ~Known(task[t].what.name)
    BY <1>3, <2>2, CreateStep DEF lookupAgain, Known
  <2> QED
    BY <2>1, <2>2
<1>4. ASSUME NEW t \in Threads, BeginInsert(t) PROVE RegistryInv'
  <2> DEFINE s == [at |-> "inserting", what |-> task[t].what,
                   var |-> Len(object) + 1]
  <2>1. /\ task[t].at = "insert" /\ task' = [task EXCEPT ![t] = s]
        /\ registry' = registry /\ handles' = handles /\ Access(t)
    BY <1>4 DEF BeginInsert
  <2>2. s.at = "inserting" /\ s.what = task[t].what
    OBVIOUS
  <2> HIDE DEF s
  <2>3. ~overlapped => Found(s.what.name) = {}
    BY <2>1, <2>2 DEF RegistryInv, Alone
  <2> QED
    BY <2>1, <2>2, <2>3, CreateStep
<1>5. ASSUME NEW t \in Threads, EndInsert(t) PROVE RegistryInv'
  BY <1>5, EndInsertStep
<1>6. ASSUME NEW t \in Threads, NEW v, toString(t, v) PROVE RegistryInv'
  BY <1>6, QuietStep DEF toString
<1>7. ASSUME NEW t \in Threads, NEW v, NEW x, setValue(t, v, x)
      PROVE  RegistryInv'
  BY <1>7, StoreStep DEF setValue, Idle
<1>8. ASSUME NEW t \in Threads, Notify(t) PROVE RegistryInv'
  <2>1. task[t].next.at \in {"idle", "load"}
    BY <1>8 DEF Notify, RegistryInv, GoesOn
  <2> QED
    BY <1>8, <2>1, QuietStep DEF Notify
<1>9. ASSUME NEW t \in Threads, fromString(t) PROVE RegistryInv'
  BY <1>9, FromStringStep DEF fromString, Idle
<1>10. ASSUME NEW t \in Threads, NEW d \in DOMAIN Docs, LoadFile(t, d)
       PROVE  RegistryInv'
  BY <1>10, QuietStep DEF LoadFile
<1>11. ASSUME NEW t \in Threads, LoadNode(t) PROVE RegistryInv'
  <2> DEFINE node == Head(task[t].rest)
             next == [at |-> "load", rest |-> Remaining(task[t].rest)]
  <2>1. next.at = "load"
    OBVIOUS
  <2>2. /\ registry' = registry /\ handles' = handles
        /\ Access(t) \/ NoAccess
    BY <1>11 DEF LoadNode
  <2>3. \/ \E r \in registry : FromString(t, r.var, node.text, next)
        \/ task' = [task EXCEPT ![t] = next]
    BY <1>11 DEF LoadNode, Found
  <2> HIDE DEF node, next
  <2> QED
    BY <2>1, <2>2, <2>3, FromStringStep, QuietStep
<1>12. ASSUME NEW t \in Threads, LoadEnds(t) PROVE RegistryInv'
  BY <1>12, QuietStep DEF LoadEnds, Idle
<1>13. CASE Over \/ UNCHANGED vars
  BY <1>13, LookStep DEF Over, vars, historyVars, RegistryInv, Alone, GoesOn,
     Creating, Found
<1> QED
  BY <1>1, <1>2, <1>3, <1>4, <1>5, <1>6, <1>7, <1>8, <1>9, <1>10, <1>11,
     <1>12, <1>13
  DEF Next

(* As long as no creation has company, a data race on the map does not     *)
(* happen and what lookups have returned stays registered.                 *)
THEOREM HandlesStable == Spec => []StableHandles
<1>1. RegistryInv => StableHandles
  BY DEF RegistryInv, Alone, StableHandles
<1> QED
  BY <1>1, InitRegistry, StepRegistry, PTL DEF Spec

-----------------------------------------------------------------------------
(* Changes.                                                                *)

IsSequenceOf(s, n) == n \in Nat /\ s = [k \in 1..n |-> s[k]]

LEMMA Appended ==
    ASSUME NEW s, NEW n, IsSequenceOf(s, n), NEW e
    PROVE  /\ IsSequenceOf(Append(s, e), n + 1)
           /\ Len(s) = n
           /\ Append(s, e)[n + 1] = e
           /\ \A k \in 1..n : Append(s, e)[k] = s[k]
<1> DEFINE S == {s[k] : k \in 1..n} \cup {e}
<1>1. s \in [1..n -> S] /\ n \in Nat
  BY DEF IsSequenceOf
<1>2. e \in S
  OBVIOUS
<1> HIDE DEF S
<1>3. s \in Seq(S) /\ Len(s) = n
  BY <1>1
<1>4. /\ Append(s, e) \in Seq(S) /\ Len(Append(s, e)) = n + 1
      /\ Append(s, e)[n + 1] = e
      /\ \A k \in 1..n : Append(s, e)[k] = s[k]
  BY <1>2, <1>3
<1>5. Append(s, e) \in [1..(n + 1) -> S]
  BY <1>4, LenProperties
<1> QED
  BY <1>1, <1>3, <1>4, <1>5 DEF IsSequenceOf

(* The changes to x or from x that were announced, or are about to be.     *)
ToldTo(v, x) == {k \in Change(v) : events[v][k].new = x}
ToldFrom(v, x) == {k \in Change(v) : events[v][k].old = x}
TellingTo(v, x) == {t \in Announcing(v) : task[t].new = x}
TellingFrom(v, x) == {t \in Announcing(v) : task[t].old = x}

IsObject(o) == o = [type |-> o.type, value |-> o.value, first |-> o.first]

Shapes ==
    /\ task = [t \in Threads |-> task[t]]
    /\ IsSequenceOf(object, Len(object))
    /\ IsSequenceOf(events, Len(object))
    /\ \A v \in 1..Len(object) :
          IsObject(object[v]) /\ IsSequenceOf(events[v], Len(events[v]))
    /\ \A h \in handles \cup registry : h.var \in 1..Len(object)
    /\ \A t \in Threads :
          task[t].at \in {"notify", "text", "inserting"} =>
              task[t].var \in 1..Len(object)

Adds(v, x) == Entered(v, x) - Left(v, x) = Balance(v, x)

ChangeInv ==
    /\ Shapes
    /\ \A t \in Threads : GoesOn(t)
    /\ \A v \in 1..Len(object) : \A x : Adds(v, x)

LEMMA CountsFinite ==
    ASSUME Shapes, NEW v \in 1..Len(object), NEW x
    PROVE  /\ IsFiniteSet(ToldTo(v, x)) /\ Cardinality(ToldTo(v, x)) \in Nat
           /\ IsFiniteSet(ToldFrom(v, x)) /\ Cardinality(ToldFrom(v, x)) \in Nat
           /\ IsFiniteSet(TellingTo(v, x))
           /\ Cardinality(TellingTo(v, x)) \in Nat
           /\ IsFiniteSet(TellingFrom(v, x))
           /\ Cardinality(TellingFrom(v, x)) \in Nat
<1>1. IsFiniteSet(1..Len(events[v]))
  BY FS_Interval DEF Shapes, IsSequenceOf
<1>2. Change(v) \subseteq 1..Len(events[v])
  BY DEF Change, Shapes, IsSequenceOf
<1>3. Announcing(v) \subseteq Threads
  BY DEF Announcing
<1>4. ToldTo(v, x) \subseteq 1..Len(events[v])
      /\ ToldFrom(v, x) \subseteq 1..Len(events[v])
  BY <1>2 DEF ToldTo, ToldFrom
<1>5. TellingTo(v, x) \subseteq Threads /\ TellingFrom(v, x) \subseteq Threads
  BY <1>3 DEF TellingTo, TellingFrom
<1> QED
  BY <1>1, <1>4, <1>5, ThreadsAssumption, FS_Subset, FS_CardinalityType

LEMMA CountsSame ==
    ASSUME NEW v, NEW x,
           object'[v] = object[v], events'[v] = events[v],
           Announcing(v)' = Announcing(v),
           \A t \in Announcing(v) : task'[t] = task[t],
           Adds(v, x)
    PROVE  Adds(v, x)'
  BY DEF Adds, Entered, Left, Balance, Change

LEMMA CountMore ==
    ASSUME NEW S, IsFiniteSet(S), NEW T, NEW e, e \notin S, NEW b \in {0, 1},
           b = 1 => T = S \cup {e}, b = 0 => T = S
    PROVE  Cardinality(T) = Cardinality(S) + b
<1>1. Cardinality(S) \in Nat
  BY FS_CardinalityType
<1>2. CASE b = 1
  BY <1>2, FS_AddElement
<1>3. CASE b = 0
  BY <1>1, <1>3
<1> QED
  BY <1>2, <1>3

LEMMA CountLess ==
    ASSUME NEW S, IsFiniteSet(S), NEW e, NEW b \in {0, 1}, e \in S <=> b = 1
    PROVE  Cardinality(S \ {e}) = Cardinality(S) - b
<1>1. Cardinality(S) \in Nat
  BY FS_CardinalityType
<1>2. CASE b = 1
  BY <1>2, FS_RemoveElement
<1>3. CASE b = 0
  <2>1. S \ {e} = S
    BY <1>3
  <2>2. Cardinality(S \ {e}) = Cardinality(S)
    BY <2>1
  <2> QED
    BY <1>1, <1>3, <2>2
<1> QED
  BY <1>2, <1>3

(* setValue() on v, by a thread that will announce it.                     *)
LEMMA CountsStored ==
    ASSUME Shapes, NEW t \in Threads, NEW v \in 1..Len(object), NEW x, NEW s,
           task[t].at # "notify", task' = [task EXCEPT ![t] = s],
           s.at = "notify", s.var = v, s.old = object[v].value, s.new = x,
           object' = [object EXCEPT ![v].value = x], events' = events,
           NEW y, Adds(v, y)
    PROVE  Adds(v, y)'
<1>1. /\ task'[t] = s /\ \A u \in Threads \ {t} : task'[u] = task[u]
  BY DEF Shapes
<1>2. /\ object'[v].value = x /\ object'[v].first = object[v].first
  BY DEF Shapes, IsSequenceOf, IsObject
<1>3. ToldTo(v, y)' = ToldTo(v, y) /\ ToldFrom(v, y)' = ToldFrom(v, y)
  BY DEF ToldTo, ToldFrom, Change
<1>4. t \notin TellingTo(v, y) /\ t \notin TellingFrom(v, y)
  BY DEF TellingTo, TellingFrom, Announcing
<1>5. TellingTo(v, y)' = IF y = x THEN TellingTo(v, y) \cup {t}
                                  ELSE TellingTo(v, y)
  BY <1>1, <1>4 DEF TellingTo, Announcing
<1>6. TellingFrom(v, y)' = IF y = object[v].value
                           THEN TellingFrom(v, y) \cup {t}
                           ELSE TellingFrom(v, y)
  BY <1>1, <1>4 DEF TellingFrom, Announcing
<1> DEFINE up == IF y = x THEN 1 ELSE 0
           down == IF y = object[v].value THEN 1 ELSE 0
<1>fin. IsFiniteSet(TellingTo(v, y)) /\ IsFiniteSet(TellingFrom(v, y))
  BY CountsFinite
<1>7. Cardinality(TellingTo(v, y)') = Cardinality(TellingTo(v, y)) + up
  BY <1>fin, <1>4, <1>5, CountMore
<1>8. Cardinality(TellingFrom(v, y)') = Cardinality(TellingFrom(v, y)) + down
  BY <1>fin, <1>4, <1>6, CountMore
<1>9. Entered(v, y)' = Entered(v, y) + up /\ Left(v, y)' = Left(v, y) + down
  <2>1. /\ Entered(v, y) = Cardinality(ToldTo(v, y))
                           + Cardinality(TellingTo(v, y))
        /\ Left(v, y) = Cardinality(ToldFrom(v, y))
                        + Cardinality(TellingFrom(v, y))
    BY DEF Entered, Left, ToldTo, ToldFrom, TellingTo, TellingFrom
  <2>2. /\ Entered(v, y)' = Cardinality(ToldTo(v, y)')
                            + Cardinality(TellingTo(v, y)')
        /\ Left(v, y)' = Cardinality(ToldFrom(v, y)')
                         + Cardinality(TellingFrom(v, y)')
    BY DEF Entered, Left, ToldTo, ToldFrom, TellingTo, TellingFrom
  <2> QED
    BY <1>3, <1>7, <1>8, <2>1, <2>2, CountsFinite
<1>10. Balance(v, y)' = Balance(v, y) + up - down
  BY <1>2 DEF Balance
<1>11. Entered(v, y) \in Nat /\ Left(v, y) \in Nat /\ Balance(v, y) \in Int
  <2>1. /\ Entered(v, y) = Cardinality(ToldTo(v, y))
                           + Cardinality(TellingTo(v, y))
        /\ Left(v, y) = Cardinality(ToldFrom(v, y))
                        + Cardinality(TellingFrom(v, y))
    BY DEF Entered, Left, ToldTo, ToldFrom, TellingTo, TellingFrom
  <2> QED
    BY <2>1, CountsFinite DEF Balance
<1> HIDE DEF up, down
<1>12. up \in Int /\ down \in Int
  BY DEF up, down
<1> QED
  BY <1>9, <1>10, <1>11, <1>12 DEF Adds

(* The callback: what was about to be announced now has been.              *)
LEMMA CountsNotified ==
    ASSUME Shapes, NEW t \in Threads, NEW v \in 1..Len(object), NEW s,
           task[t].at = "notify", task[t].var = v,
           task' = [task EXCEPT ![t] = s], s.at # "notify",
           object' = object,
           events' = [events EXCEPT
                         ![v] = Append(@, [old |-> task[t].old,
                                           new |-> task[t].new])],
           NEW y, Adds(v, y)
    PROVE  Adds(v, y)'
<1> DEFINE n == Len(events[v])
           e == [old |-> task[t].old, new |-> task[t].new]
<1>1. /\ task'[t] = s /\ \A u \in Threads \ {t} : task'[u] = task[u]
  BY DEF Shapes
<1>2. /\ n \in Nat /\ Change(v) = 1..n /\ Change(v)' = 1..(n + 1)
      /\ events'[v][n + 1] = e
      /\ \A k \in 1..n : events'[v][k] = events[v][k]
  <2>1. IsSequenceOf(events[v], n)
    BY DEF Shapes
  <2>2. events'[v] = Append(events[v], e)
    BY DEF Shapes, IsSequenceOf
  <2>3. /\ IsSequenceOf(Append(events[v], e), n + 1)
        /\ Append(events[v], e)[n + 1] = e
        /\ \A k \in 1..n : Append(events[v], e)[k] = events[v][k]
    BY <2>1, Appended
  <2>4. DOMAIN events[v] = 1..n /\ DOMAIN events'[v] = 1..(n + 1) /\ n \in Nat
    BY <2>1, <2>2, <2>3 DEF IsSequenceOf
  <2> QED
    BY <2>2, <2>3, <2>4 DEF Change
<1>3. e.old = task[t].old /\ e.new = task[t].new
  OBVIOUS
<1> HIDE DEF n, e
<1>4. /\ ToldTo(v, y)' = IF y = task[t].new THEN ToldTo(v, y) \cup {n + 1}
                                            ELSE ToldTo(v, y)
      /\ n + 1 \notin ToldTo(v, y)
  <2>1. ToldTo(v, y) = {k \in 1..n : events[v][k].new = y}
    BY <1>2 DEF ToldTo
  <2>2. ToldTo(v, y)' = {k \in 1..(n + 1) : events'[v][k].new = y}
    BY <1>2 DEF ToldTo
  <2>3. n \in Nat /\ events'[v][n + 1].new = task[t].new
    BY <1>2, <1>3
  <2>4. 1..(n + 1) = (1..n) \cup {n + 1} /\ n + 1 \notin 1..n
    BY <2>3
  <2>5. \A k \in 1..n : events'[v][k].new = events[v][k].new
    BY <1>2
  <2> QED
    BY <2>1, <2>2, <2>3, <2>4, <2>5
<1>5. /\ ToldFrom(v, y)' = IF y = task[t].old THEN ToldFrom(v, y) \cup {n + 1}
                                              ELSE ToldFrom(v, y)
      /\ n + 1 \notin ToldFrom(v, y)
  <2>1. ToldFrom(v, y) = {k \in 1..n : events[v][k].old = y}
    BY <1>2 DEF ToldFrom
  <2>2. ToldFrom(v, y)' = {k \in 1..(n + 1) : events'[v][k].old = y}
    BY <1>2 DEF ToldFrom
  <2>3. n \in Nat /\ events'[v][n + 1].old = task[t].old
    BY <1>2, <1>3
  <2>4. 1..(n + 1) = (1..n) \cup {n + 1} /\ n + 1 \notin 1..n
    BY <2>3
  <2>5. \A k \in 1..n : events'[v][k].old = events[v][k].old
    BY <1>2
  <2> QED
    BY <2>1, <2>2, <2>3, <2>4, <2>5
<1>6. /\ TellingTo(v, y)' = TellingTo(v, y) \ {t}
      /\ t \in TellingTo(v, y) <=> y = task[t].new
  BY <1>1 DEF TellingTo, Announcing
<1>7. /\ TellingFrom(v, y)' = TellingFrom(v, y) \ {t}
      /\ t \in TellingFrom(v, y) <=> y = task[t].old
  BY <1>1 DEF TellingFrom, Announcing
<1> DEFINE to == IF y = task[t].new THEN 1 ELSE 0
           from == IF y = task[t].old THEN 1 ELSE 0
<1>fin. /\ IsFiniteSet(ToldTo(v, y)) /\ IsFiniteSet(ToldFrom(v, y))
      /\ IsFiniteSet(TellingTo(v, y)) /\ IsFiniteSet(TellingFrom(v, y))
  BY CountsFinite
<1>8. /\ Cardinality(ToldTo(v, y)') = Cardinality(ToldTo(v, y)) + to
      /\ Cardinality(ToldFrom(v, y)') = Cardinality(ToldFrom(v, y)) + from
  BY <1>fin, <1>4, <1>5, CountMore
<1>9. /\ Cardinality(TellingTo(v, y)') = Cardinality(TellingTo(v, y)) - to
      /\ Cardinality(TellingFrom(v, y)') = Cardinality(TellingFrom(v, y)) - from
  BY <1>fin, <1>6, <1>7, CountLess
<1> HIDE DEF to, from
<1>10. to \in Int /\ from \in Int
  BY DEF to, from
<1>11. Entered(v, y)' = Entered(v, y) /\ Left(v, y)' = Left(v, y)
  <2>1. /\ Entered(v, y) = Cardinality(ToldTo(v, y))
                           + Cardinality(TellingTo(v, y))
        /\ Left(v, y) = Cardinality(ToldFrom(v, y))
                        + Cardinality(TellingFrom(v, y))
    BY DEF Entered, Left, ToldTo, ToldFrom, TellingTo, TellingFrom
  <2>2. /\ Entered(v, y)' = Cardinality(ToldTo(v, y)')
                            + Cardinality(TellingTo(v, y)')
        /\ Left(v, y)' = Cardinality(ToldFrom(v, y)')
                         + Cardinality(TellingFrom(v, y)')
    BY DEF Entered, Left, ToldTo, ToldFrom, TellingTo, TellingFrom
  <2> QED
    BY <1>8, <1>9, <1>10, <2>1, <2>2, CountsFinite
<1>12. Balance(v, y)' = Balance(v, y)
  BY DEF Balance
<1> QED
  BY <1>11, <1>12 DEF Adds

LEMMA InitChange == Init => ChangeInv
<1> SUFFICES ASSUME Init PROVE ChangeInv
  OBVIOUS
<1> DEFINE n == Len(Declared)
<1>1. n \in Nat /\ DOMAIN Declared = 1..n
  BY DeclaredAssumption DEF IsList
<1>2. /\ object = [v \in 1..n |-> [type |-> Declared[v].type,
                                   value |-> Declared[v].value,
                                   first |-> Declared[v].value]]
      /\ registry = {[name |-> Declared[v].name, var |-> v] : v \in 1..n}
      /\ handles = registry /\ task = [t \in Threads |-> Idle]
      /\ events = [v \in 1..n |-> <<>>]
  BY <1>1 DEF Init
<1> HIDE DEF n
<1>3. IsSequenceOf(object, n) /\ IsSequenceOf(events, n)
  BY <1>1, <1>2 DEF IsSequenceOf
<1>4. Len(object) = n
  BY <1>3, Appended
<1>5. \A t \in Threads : task[t].at = "idle"
  BY <1>2 DEF Idle
<1>6. Shapes
  <2>1. \A v \in 1..n : IsObject(object[v])
    BY <1>2 DEF IsObject
  <2>2. \A v \in 1..n : IsSequenceOf(events[v], Len(events[v]))
    BY <1>2 DEF IsSequenceOf
  <2>3. \A h \in handles \cup registry : h.var \in 1..n
    BY <1>2
  <2> QED
    BY <1>2, <1>3, <1>4, <1>5, <2>1, <2>2, <2>3 DEF Shapes
<1>7. ASSUME NEW v \in 1..n, NEW x PROVE Adds(v, x)
  <2>1. Change(v) = {} /\ Announcing(v) = {}
    BY <1>2, <1>5 DEF Change, Announcing
  <2>2. Entered(v, x) = Cardinality({}) + Cardinality({})
        /\ Left(v, x) = Cardinality({}) + Cardinality({})
    BY <2>1 DEF Entered, Left
  <2>3. Balance(v, x) = 0
    BY <1>2 DEF Balance
  <2> QED
    BY <2>2, <2>3, FS_EmptySet DEF Adds
<1> QED
  BY <1>4, <1>5, <1>6, <1>7 DEF ChangeInv, GoesOn

(* What returned or is registered is a variable that exists.               *)
Exist(hs) == \A h \in hs : h.var \in 1..Len(object)

(* A step that changes no value and announces nothing.                     *)
LEMMA QuietChange ==
    ASSUME ChangeInv, NEW t \in Threads, NEW s,
           task' = [task EXCEPT ![t] = s],
           task[t].at # "notify", s.at # "notify",
           s.at \in {"text", "inserting"} => s.var \in 1..Len(object),
           UNCHANGED <<object, events>>, Exist(handles' \cup registry')
    PROVE  ChangeInv'
<1>1. /\ task'[t] = s /\ \A u \in Threads \ {t} : task'[u] = task[u]
      /\ task' = [u \in Threads |-> task'[u]]
  BY DEF ChangeInv, Shapes
<1>2. Shapes'
  BY <1>1 DEF ChangeInv, Shapes, Exist
<1>3. ASSUME NEW v \in 1..Len(object), NEW x PROVE Adds(v, x)'
  <2>1. /\ Announcing(v)' = Announcing(v)
        /\ \A u \in Announcing(v) : task'[u] = task[u]
    BY <1>1 DEF Announcing
  <2>2. Adds(v, x)
    BY DEF ChangeInv
  <2> QED
    BY <2>1, <2>2, CountsSame
<1> QED
  BY <1>1, <1>2, <1>3 DEF ChangeInv, GoesOn

LEMMA LookChange ==
    ASSUME ChangeInv, UNCHANGED <<task, object, events>>,
           Exist(handles' \cup registry')
    PROVE  ChangeInv'
<1>1. Shapes'
  BY DEF ChangeInv, Shapes, Exist
<1>2. ASSUME NEW v \in 1..Len(object), NEW x PROVE Adds(v, x)'
  <2>1. Announcing(v)' = Announcing(v) /\ Adds(v, x)
    BY DEF Announcing, ChangeInv
  <2> QED
    BY <2>1, CountsSame
<1> QED
  BY <1>1, <1>2 DEF ChangeInv, GoesOn

LEMMA StoreChange ==
    ASSUME ChangeInv, NEW t \in Threads, NEW v \in 1..Len(object), NEW x,
           NEW next, Store(t, v, x, next), task[t].at # "notify",
           next.at \in {"idle", "load"},
           UNCHANGED <<registry, handles, events>>
    PROVE  ChangeInv'
<1> DEFINE c == [at |-> "notify", var |-> v, next |-> next,
                 old |-> object[v].value, new |-> x]
<1>1. /\ object' = [object EXCEPT ![v].value = x]
      /\ task' = [task EXCEPT ![t] = IF x = object[v].value THEN next ELSE c]
  BY DEF Store
<1>2. /\ c.at = "notify" /\ c.var = v /\ c.next = next
      /\ c.old = object[v].value /\ c.new = x
  OBVIOUS
<1> HIDE DEF c
<1>3. Exist(handles' \cup registry')
  BY DEF ChangeInv, Shapes, Exist
<1>4. CASE x = object[v].value
  <2>1. object' = object
    BY <1>1, <1>4 DEF ChangeInv, Shapes, IsSequenceOf, IsObject
  <2> QED
    BY <1>1, <1>3, <1>4, <2>1, QuietChange
<1>5. CASE x # object[v].value
  <2>1. task' = [task EXCEPT ![t] = c]
    BY <1>1, <1>5
  <2>2. /\ task'[t] = c /\ \A u \in Threads \ {t} : task'[u] = task[u]
        /\ task' = [u \in Threads |-> task'[u]]
    BY <2>1 DEF ChangeInv, Shapes
  <2>3. /\ IsSequenceOf(object', Len(object))
        /\ IsObject(object'[v])
        /\ \A w \in 1..Len(object) : w # v => object'[w] = object[w]
    BY <1>1 DEF ChangeInv, Shapes, IsSequenceOf, IsObject
  <2>4. Len(object') = Len(object)
    BY <2>3, Appended
  <2>5. Shapes'
    BY <1>2, <2>2, <2>3, <2>4 DEF ChangeInv, Shapes
  <2>6. ASSUME NEW w \in 1..Len(object), NEW y PROVE Adds(w, y)'
    <3>1. Adds(w, y)
      BY DEF ChangeInv
    <3>2. CASE w = v
      BY <1>1, <1>2, <2>1, <3>1, <3>2, CountsStored DEF ChangeInv
    <3>3. CASE w # v
      <4>1. /\ Announcing(w)' = Announcing(w)
            /\ \A u \in Announcing(w) : task'[u] = task[u]
        BY <1>2, <2>2, <3>3 DEF Announcing
      <4> QED
        BY <2>3, <3>1, <3>3, <4>1, CountsSame
    <3> QED
      BY <3>2, <3>3
  <2>7. \A u \in Threads : GoesOn(u)'
    BY <1>2, <2>2 DEF ChangeInv, GoesOn
  <2> QED
    BY <2>4, <2>5, <2>6, <2>7 DEF ChangeInv
<1> QED
  BY <1>4, <1>5

LEMMA FromStringChange ==
    ASSUME ChangeInv, NEW t \in Threads, NEW v \in 1..Len(object), NEW text,
           NEW next, FromString(t, v, text, next), task[t].at # "notify",
           next.at \in {"idle", "load"},
           UNCHANGED <<registry, handles, events>>
    PROVE  ChangeInv'
<1>1. CASE \E x \in FromText(object[v].type, text) : Store(t, v, x, next)
  BY <1>1, StoreChange
<1>2. CASE task' = [task EXCEPT ![t] = next] /\ UNCHANGED object
  <2>1. Exist(handles' \cup registry')
    BY DEF ChangeInv, Shapes, Exist
  <2> QED
    BY <1>2, <2>1, QuietChange
<1> QED
  BY <1>1, <1>2 DEF FromString

LEMMA NotifyChange ==
    ASSUME ChangeInv, NEW t \in Threads, Notify(t)
    PROVE  ChangeInv'
<1> DEFINE v == task[t].var
           e == [old |-> task[t].old, new |-> task[t].new]
           s == task[t].next
<1>1. /\ task[t].at = "notify" /\ task' = [task EXCEPT ![t] = s]
      /\ events' = [events EXCEPT ![v] = Append(@, e)]
      /\ UNCHANGED <<registry, object, handles>>
  BY DEF Notify, OldAsStored
<1>2. v \in 1..Len(object) /\ s.at \in {"idle", "load"}
  BY <1>1 DEF ChangeInv, Shapes, GoesOn
<1>3. /\ task'[t] = s /\ \A u \in Threads \ {t} : task'[u] = task[u]
      /\ task' = [u \in Threads |-> task'[u]]
  BY <1>1 DEF ChangeInv, Shapes
<1>4. task[t].var = v
  OBVIOUS
<1> HIDE DEF v, s
<1>5. ASSUME NEW w \in 1..Len(object), NEW y PROVE Adds(w, y)'
  <2>1. Adds(w, y)
    BY DEF ChangeInv
  <2>2. CASE w = v
    BY <1>1, <1>2, <1>4, <2>1, <2>2, CountsNotified DEF ChangeInv
  <2>3. CASE w # v
    <3>1. /\ Announcing(w)' = Announcing(w)
          /\ \A u \in Announcing(w) : task'[u] = task[u]
      BY <1>2, <1>3, <1>4, <2>3 DEF Announcing
    <3>2. events'[w] = events[w]
      BY <1>1, <1>2, <2>3 DEF ChangeInv, Shapes, IsSequenceOf
    <3> QED
      BY <1>1, <2>1, <3>1, <3>2, CountsSame
  <2> QED
    BY <2>2, <2>3
<1>6. Shapes'
  <2>1. events'[v] = Append(events[v], e)
        /\ \A w \in 1..Len(object) : w # v => events'[w] = events[w]
    BY <1>1, <1>2 DEF ChangeInv, Shapes, IsSequenceOf
  <2>2. IsSequenceOf(events', Len(object))
    BY <1>1 DEF ChangeInv, Shapes, IsSequenceOf
  <2>3. IsSequenceOf(events'[v], Len(events[v]) + 1)
    BY <1>2, <2>1, Appended DEF ChangeInv, Shapes
  <2>4. Len(events'[v]) = Len(events[v]) + 1
    BY <2>3, Appended
  <2>5. \A w \in 1..Len(object) : IsSequenceOf(events'[w], Len(events'[w]))
    BY <2>1, <2>3, <2>4 DEF ChangeInv, Shapes
  <2> QED
    BY <1>1, <1>2, <1>3, <2>2, <2>5 DEF ChangeInv, Shapes
<1> QED
  BY <1>1, <1>2, <1>3, <1>5, <1>6 DEF ChangeInv, GoesOn

LEMMA BeginInsertChange ==
    ASSUME ChangeInv, NEW t \in Threads, BeginInsert(t)
    PROVE  ChangeInv'
<1> DEFINE w == task[t].what
           n == Len(object)
           o == [type |-> w.type, value |-> w.value, first |-> w.value]
           s == [at |-> "inserting", what |-> w, var |-> n + 1]
<1>1. /\ task[t].at = "insert" /\ task' = [task EXCEPT ![t] = s]
      /\ object' = Append(object, o) /\ events' = Append(events, <<>>)
      /\ UNCHANGED <<registry, handles>>
  BY DEF BeginInsert
<1>2. s.at = "inserting" /\ s.var = n + 1 /\ IsObject(o) /\ o.value = o.first
  BY DEF IsObject
<1> HIDE DEF o, s
<1>3. /\ task'[t] = s /\ \A u \in Threads \ {t} : task'[u] = task[u]
      /\ task' = [u \in Threads |-> task'[u]]
  BY <1>1 DEF ChangeInv, Shapes
<1>4. n \in Nat /\ IsSequenceOf(object, n) /\ IsSequenceOf(events, n)
  BY DEF ChangeInv, Shapes, IsSequenceOf
<1> HIDE DEF n
<1>5. /\ IsSequenceOf(object', n + 1) /\ object'[n + 1] = o
      /\ \A v \in 1..n : object'[v] = object[v]
      /\ IsSequenceOf(events', n + 1) /\ events'[n + 1] = <<>>
      /\ \A v \in 1..n : events'[v] = events[v]
  BY <1>1, <1>4, Appended
<1>6. Len(object') = n + 1
  BY <1>4, <1>5, Appended
<1>7. \A v \in 1..(n + 1) : v \in 1..n \/ v = n + 1
  BY <1>4
<1>8. n + 1 \in 1..(n + 1) /\ n + 1 \notin 1..n /\ 1..n \subseteq 1..(n + 1)
  BY <1>4
<1>9. Shapes'
  <2>1. IsSequenceOf(<<>>, Len(<<>>))
    BY DEF IsSequenceOf
  <2>2. ASSUME NEW v \in 1..(n + 1)
        PROVE  IsObject(object'[v]) /\ IsSequenceOf(events'[v], Len(events'[v]))
    BY <1>2, <1>5, <1>7, <2>1 DEF ChangeInv, Shapes, n
  <2>3. \A h \in handles' \cup registry' : h.var \in 1..(n + 1)
    BY <1>1, <1>8 DEF ChangeInv, Shapes, n
  <2>4. \A u \in Threads :
           task'[u].at \in {"notify", "text", "inserting"} =>
               task'[u].var \in 1..(n + 1)
    BY <1>2, <1>3, <1>8 DEF ChangeInv, Shapes, n
  <2> QED
    BY <1>3, <1>5, <1>6, <2>2, <2>3, <2>4 DEF Shapes
<1>10. ASSUME NEW v \in 1..(n + 1), NEW x PROVE Adds(v, x)'
  <2>1. CASE v \in 1..n
    <3>1. Adds(v, x)
      BY <2>1 DEF ChangeInv, n
    <3>2. /\ Announcing(v)' = Announcing(v)
          /\ \A u \in Announcing(v) : task'[u] = task[u]
      BY <1>1, <1>2, <1>3 DEF Announcing
    <3> QED
      BY <1>5, <2>1, <3>1, <3>2, CountsSame
  <2>2. CASE v = n + 1
    <3>1. Announcing(v)' = {}
      BY <1>2, <1>3, <1>8, <2>2 DEF Announcing, ChangeInv, Shapes, n
    <3>2. Change(v)' = {}
      BY <1>5, <2>2 DEF Change
    <3>3. Entered(v, x)' = Cardinality({}) + Cardinality({})
          /\ Left(v, x)' = Cardinality({}) + Cardinality({})
      BY <3>1, <3>2 DEF Entered, Left
    <3>4. Balance(v, x)' = 0
      BY <1>2, <1>5, <2>2 DEF Balance
    <3> QED
      BY <3>3, <3>4, FS_EmptySet DEF Adds
  <2> QED
    BY <1>7, <2>1, <2>2
<1> QED
  BY <1>2, <1>3, <1>6, <1>9, <1>10 DEF ChangeInv, GoesOn

LEMMA StepChange == ChangeInv /\ [Next]_vars => ChangeInv'
<1> SUFFICES ASSUME ChangeInv, [Next]_vars PROVE ChangeInv'
  OBVIOUS
<1>0. Exist(handles \cup registry)
  BY DEF ChangeInv, Shapes, Exist
<1>1. ASSUME NEW t \in Threads, NEW w \in Wanted, lookup(t, w)
      PROVE  ChangeInv'
  <2>1. Exist(handles' \cup registry')
    BY <1>0, <1>1 DEF lookup, Exist, FoundAs, Found
  <2> QED
    BY <1>1, <2>1, LookChange DEF lookup
<1>2. ASSUME NEW t \in Threads, NEW w \in Wanted, lookupMissed(t, w)
      PROVE  ChangeInv'
  <2> DEFINE s == [at |-> "again", what |-> w]
  <2>1. /\ task' = [task EXCEPT ![t] = s] /\ task[t].at # "notify"
        /\ UNCHANGED <<registry, handles, object, events>>
    BY <1>2 DEF lookupMissed, Call
  <2>2. s.at = "again"
    BY DEF Idle
  <2> HIDE DEF s
  <2> QED
    BY <1>0, <2>1, <2>2, QuietChange
<1>3. ASSUME NEW t \in Threads, lookupAgain(t) PROVE ChangeInv'
  <2>1. CASE Known(task[t].what.name)
    <3> DEFINE s == Idle
    <3>1. /\ task' = [task EXCEPT ![t] = s] /\ task[t].at # "notify"
          /\ UNCHANGED <<registry, handles, object, events>>
      BY <1>3, <2>1 DEF lookupAgain
    <3>2. s.at = "idle"
      BY DEF Idle
    <3> HIDE DEF s
    <3> QED
      BY <1>0, <3>1, <3>2, QuietChange
  <2>2. CASE ~Known(task[t].what.name)
    <3> DEFINE s == [at |-> "insert", what |-> task[t].what]
    <3>1. /\ task' = [task EXCEPT ![t] = s] /\ task[t].at # "notify"
          /\ UNCHANGED <<registry, handles, object, events>>
      BY <1>3, <2>2 DEF lookupAgain
    <3>2. s.at = "insert"
      BY DEF Idle
    <3> HIDE DEF s
    <3> QED
      BY <1>0, <3>1, <3>2, QuietChange
  <2> QED
    BY <2>1, <2>2
<1>4. ASSUME NEW t \in Threads, BeginInsert(t) PROVE ChangeInv'
  BY <1>4, BeginInsertChange
<1>5. ASSUME NEW t \in Threads, EndInsert(t) PROVE ChangeInv'
  <2>1. task[t].var \in 1..Len(object)
    BY <1>5 DEF EndInsert, ChangeInv, Shapes
  <2>2. Exist(handles' \cup registry')
    BY <1>0, <1>5, <2>1 DEF EndInsert, Exist
  <2>3. /\ task' = [task EXCEPT ![t] = Idle] /\ task[t].at # "notify"
        /\ UNCHANGED <<object, events>>
    BY <1>5 DEF EndInsert
  <2>4. Idle.at = "idle"
    BY DEF Idle
  <2> QED
    BY <1>5, <2>2, <2>3, <2>4, QuietChange
<1>6. ASSUME NEW t \in Threads, NEW h \in handles, toString(t, h.var)
      PROVE  ChangeInv'
  <2>1. h.var \in 1..Len(object)
    BY <1>0 DEF Exist
  <2> DEFINE o == object[h.var]
             s == [at |-> "text", var |-> h.var, value |-> o.value,
                   text |-> ToText(o.type, o.value)]
  <2>2. /\ task' = [task EXCEPT ![t] = s] /\ task[t].at # "notify"
        /\ UNCHANGED <<registry, handles, object, events>>
    BY <1>6 DEF toString, Call
  <2>3. s.at = "text" /\ s.var = h.var
    OBVIOUS
  <2> HIDE DEF s
  <2> QED
    BY <1>0, <2>1, <2>2, <2>3, QuietChange
<1>7. ASSUME NEW t \in Threads, NEW h \in handles, NEW x,
             setValue(t, h.var, x)
      PROVE  ChangeInv'
  <2>1. h.var \in 1..Len(object)
    BY <1>0 DEF Exist
  <2> QED
    BY <1>7, <2>1, StoreChange DEF setValue, Call, Idle
<1>8. ASSUME NEW t \in Threads, Notify(t) PROVE ChangeInv'
  BY <1>8, NotifyChange
<1>9. ASSUME NEW t \in Threads, fromString(t) PROVE ChangeInv'
  <2>1. task[t].var \in 1..Len(object)
    BY <1>9 DEF fromString, ChangeInv, Shapes
  <2> QED
    BY <1>9, <2>1, FromStringChange DEF fromString, Idle
<1>10. ASSUME NEW t \in Threads, NEW d \in DOMAIN Docs, LoadFile(t, d)
       PROVE  ChangeInv'
  <2> DEFINE s == [at |-> "load", rest |-> Docs[d]]
  <2>1. /\ task' = [task EXCEPT ![t] = s] /\ task[t].at # "notify"
        /\ UNCHANGED <<registry, handles, object, events>>
    BY <1>10 DEF LoadFile, Call
  <2>2. s.at = "load"
    BY DEF Idle
  <2> HIDE DEF s
  <2> QED
    BY <1>0, <2>1, <2>2, QuietChange
<1>11. ASSUME NEW t \in Threads, LoadNode(t) PROVE ChangeInv'
  <2> DEFINE node == Head(task[t].rest)
             next == [at |-> "load", rest |-> Remaining(task[t].rest)]
  <2>1. next.at = "load"
    OBVIOUS
  <2>2. UNCHANGED <<registry, handles, events>> /\ task[t].at # "notify"
    BY <1>11 DEF LoadNode
  <2>3. \/ \E r \in registry : FromString(t, r.var, node.text, next)
        \/ task' = [task EXCEPT ![t] = next] /\ UNCHANGED object
    BY <1>11 DEF LoadNode, Found
  <2> HIDE DEF node, next
  <2>4. \A r \in registry : r.var \in 1..Len(object)
    BY <1>0 DEF Exist
  <2>5. CASE \E r \in registry : FromString(t, r.var, node.text, next)
    BY <2>1, <2>2, <2>4, <2>5, FromStringChange
  <2>6. CASE task' = [task EXCEPT ![t] = next] /\ UNCHANGED object
    BY <1>0, <2>1, <2>2, <2>6, QuietChange
  <2> QED
    BY <2>3, <2>5, <2>6
<1>12. ASSUME NEW t \in Threads, LoadEnds(t) PROVE ChangeInv'
  <2> DEFINE s == Idle
  <2>1. /\ task' = [task EXCEPT ![t] = s] /\ task[t].at # "notify"
        /\ UNCHANGED <<registry, handles, object, events>>
    BY <1>12 DEF LoadEnds
  <2>2. s.at = "idle"
    BY DEF Idle
  <2> HIDE DEF s
  <2> QED
    BY <1>0, <2>1, <2>2, QuietChange
<1>13. CASE Over \/ UNCHANGED vars
  BY <1>0, <1>13, LookChange DEF Over, vars, historyVars
<1> QED
  BY <1>1, <1>2, <1>3, <1>4, <1>5, <1>6, <1>7, <1>8, <1>9, <1>10, <1>11,
     <1>12, <1>13
  DEF Next

(* The callbacks tell of every change of a value once, from the value that *)
(* was there, whichever threads set it and however late they are told.     *)
THEOREM ChangesTold == Spec => []ChangesAddUp
<1>1. ChangeInv => ChangesAddUp
  <2> SUFFICES ASSUME ChangeInv, NEW v \in DOMAIN object, NEW x \in Seen(v)
               PROVE  Entered(v, x) - Left(v, x) = Balance(v, x)
    BY DEF ChangesAddUp
  <2>1. v \in 1..Len(object)
    BY DEF ChangeInv, Shapes, IsSequenceOf
  <2> QED
    BY <2>1 DEF ChangeInv, Adds
<1> QED
  BY <1>1, InitChange, StepChange, PTL DEF Spec

-----------------------------------------------------------------------------
(* Conversions.                                                            *)

LEMMA LeastNatural ==
    ASSUME NEW T, T \subseteq Nat, T # {}
    PROVE  \E k \in T : \A j \in T : k <= j
<1>1. IsWellFoundedOn(OpToRel(<, Nat), Nat)
  BY NatLessThanWellFounded
<1>2. PICK k \in T : \A j \in T : ~(<<j, k>> \in OpToRel(<, Nat))
  BY <1>1, WFMin
<1>3. \A j \in T : j \in Nat /\ k \in Nat /\ ~(j < k)
  BY <1>2 DEF OpToRel
<1> QED
  BY <1>3

LEMMA LengthOf ==
    ASSUME NEW s, NEW n \in Nat, s = [k \in 1..n |-> s[k]]
    PROVE  Len(s) = n /\ DOMAIN s = 1..n /\ IsList(s)
<1> DEFINE S == {s[k] : k \in 1..n}
<1>1. s \in [1..n -> S]
  OBVIOUS
<1> HIDE DEF S
<1>2. s \in Seq(S)
  BY <1>1
<1>3. DOMAIN s = 1..n /\ DOMAIN s = 1..Len(s) /\ Len(s) \in Nat
  BY <1>1, <1>2, LenProperties
<1>4. Len(s) = n
  BY <1>2, <1>3
<1> QED
  BY <1>3, <1>4 DEF IsList

(* An element that converts to itself.                                     *)
Plain(elem, x) == elem = "string" => x = Written(x.yaml)

LEMMA ElementText ==
    ASSUME NEW elem \in {"int", "string"}, NEW x, IsElement(elem, x)
    PROVE  /\ Converts(elem, NodeOf(elem, x)) /\ IsItem(NodeOf(elem, x))
           /\ IsElement(elem, Element(elem, NodeOf(elem, x)))
           /\ Element(elem, NodeOf(elem, x)) = x <=> Plain(elem, x)
<1>1. CASE elem = "int"
  BY <1>1 DEF IsElement, Converts, NodeOf, Number, IsNumber, IsItem, Element,
     Plain
<1>2. CASE elem = "string"
  BY <1>2 DEF IsElement, IsString, IsItem, IsNumber, Converts, NodeOf, Element,
     Plain, Written
<1> QED
  BY <1>1, <1>2

(* A list is read as the list of what each of its elements comes back as.  *)
Back(elem, x) == Element(elem, NodeOf(elem, x))

LEMMA VectorsText ==
    ASSUME NEW elem \in {"int", "string"}, NEW vec, IsList(vec),
           \A k \in 1..Len(vec) : IsElement(elem, vec[k])
    PROVE  /\ TextVector(elem, VectorText(elem, vec))
                  = {[k \in 1..Len(vec) |-> Back(elem, vec[k])]}
           /\ IsNode(VectorText(elem, vec))
<1> DEFINE n == Len(vec)
           items == [k \in DOMAIN vec |-> NodeOf(elem, vec[k])]
<1>1. n \in Nat /\ DOMAIN vec = 1..n /\ vec = [k \in 1..n |-> vec[k]]
  BY DEF IsList
<1>2. Len(items) = n /\ DOMAIN items = 1..n /\ IsList(items)
  <2>1. items = [k \in 1..n |-> items[k]]
    BY <1>1
  <2> HIDE DEF items, n
  <2> QED
    BY <1>1, <2>1, LengthOf
<1>3. \A k \in 1..n : items[k] = NodeOf(elem, vec[k])
  BY <1>1
<1>4. VectorText(elem, vec) = [items |-> items]
  BY DEF VectorText
<1>5. \A k \in 1..n : IsElement(elem, vec[k])
  OBVIOUS
<1> HIDE DEF n, items
<1>6. \A k \in 1..n : Converts(elem, items[k]) /\ IsItem(items[k])
  BY <1>3, <1>5, ElementText
<1>7. AllConvert(elem, items)
  BY <1>2, <1>6 DEF AllConvert
<1>8. Elements(elem, items) = [k \in 1..n |-> Back(elem, vec[k])]
  BY <1>2, <1>3 DEF Elements, Back
<1>9. /\ IsSequence([items |-> items]) /\ [items |-> items].items = items
      /\ ~IsMap([items |-> items]) /\ ~IsNumber([items |-> items])
  BY DEF IsSequence, IsMap, IsNumber
<1>10. IsNode([items |-> items])
  BY <1>2, <1>6, <1>9 DEF IsNode, IsItem
<1>11. TextVector(elem, [items |-> items]) = {Elements(elem, items)}
  BY <1>7, <1>9 DEF TextVector
<1> QED
  BY <1>4, <1>8, <1>10, <1>11 DEF n

(* A vector comes back exactly if each of its elements does.               *)
LEMMA ListsBack ==
    ASSUME NEW elem \in {"int", "string"}, NEW vec, IsList(vec),
           \A k \in 1..Len(vec) : IsElement(elem, vec[k])
    PROVE  TextVector(elem, VectorText(elem, vec)) = {vec} <=>
               \A x \in Range(vec) : Back(elem, x) = x
<1> DEFINE n == Len(vec)
           back == [k \in 1..n |-> Back(elem, vec[k])]
<1>1. TextVector(elem, VectorText(elem, vec)) = {back}
  BY VectorsText
<1>2. n \in Nat /\ DOMAIN vec = 1..n /\ vec = [k \in 1..n |-> vec[k]]
  BY DEF IsList
<1>3. \A k \in 1..n : back[k] = Back(elem, vec[k])
  OBVIOUS
<1>4. back = [k \in 1..n |-> back[k]]
  OBVIOUS
<1> HIDE DEF back, n
<1>5. back = vec <=> \A k \in 1..n : back[k] = vec[k]
  BY <1>2, <1>4
<1>6. Range(vec) = {vec[k] : k \in 1..n}
  BY <1>2 DEF Range
<1> QED
  BY <1>1, <1>3, <1>5, <1>6

LEMMA SetAsSeq ==
    ASSUME NEW S, IsFiniteSet(S)
    PROVE  LET s == SetToSeq(S)
               n == Cardinality(S)
           IN /\ n \in Nat
              /\ s = [k \in 1..n |-> s[k]]
              /\ \A k \in 1..n : s[k] \in S
              /\ \A j, k \in 1..n : s[j] = s[k] => j = k
              /\ \A x \in S : \E k \in 1..n : s[k] = x
<1> DEFINE s == SetToSeq(S)
           n == Cardinality(S)
<1>1. n \in Nat /\ ExistsBijection(1..n, S)
  BY FS_CardinalityType
<1>2. \E f \in [1..n -> S] : IsInjective(f)
  BY <1>1 DEF ExistsBijection, Bijection, Injection, IsInjective
<1>3. s \in [1..n -> S] /\ IsInjective(s)
  BY <1>2 DEF SetToSeq
<1> HIDE DEF s
<1>4. s \in Injection(1..n, S)
  BY <1>3 DEF Injection, IsInjective
<1>5. IsFiniteSet(1..n) /\ Cardinality(1..n) = n
  BY <1>1, FS_Interval
<1>6. s \in Surjection(1..n, S)
  BY <1>4, <1>5, FS_Injection
<1>7. \A x \in S : \E k \in 1..n : s[k] = x
  BY <1>6 DEF Surjection
<1>8. \A j, k \in 1..n : s[j] = s[k] => j = k
  BY <1>3 DEF IsInjective
<1> QED
  BY <1>1, <1>3, <1>7, <1>8 DEF s

(* The elements of a set come back as some set of elements; it is the same *)
(* exactly if each does: if one did not, nothing that comes back is it.    *)
LEMMA SetsText ==
    ASSUME NEW elem \in {"int", "string"}, NEW st, IsFiniteSet(st),
           \A x \in st : IsElement(elem, x)
    PROVE  /\ TextSet(elem, SetText(elem, st)) = {{Back(elem, x) : x \in st}}
           /\ IsNode(SetText(elem, st))
<1> DEFINE s == SetToSeq(st)
           n == Cardinality(st)
           back == [k \in 1..n |-> Back(elem, s[k])]
<1>1. /\ n \in Nat /\ s = [k \in 1..n |-> s[k]]
      /\ \A k \in 1..n : s[k] \in st
      /\ \A x \in st : \E k \in 1..n : s[k] = x
  BY SetAsSeq
<1> HIDE DEF s, n
<1>2. IsList(s) /\ Len(s) = n
  BY <1>1, LengthOf
<1>3. \A k \in 1..Len(s) : IsElement(elem, s[k])
  BY <1>1, <1>2
<1>4. /\ TextVector(elem, VectorText(elem, s)) = {back}
      /\ IsNode(VectorText(elem, s))
  BY <1>2, <1>3, VectorsText
<1>5. Range(back) = {back[k] : k \in 1..n}
  BY DEF Range
<1>6. Range(back) = {Back(elem, x) : x \in st}
  BY <1>1, <1>5
<1> HIDE DEF back
<1>7. SetText(elem, st) = VectorText(elem, s)
  BY DEF SetText, s
<1> QED
  BY <1>4, <1>6, <1>7 DEF TextSet

LEMMA BackTwice ==
    ASSUME NEW elem \in {"int", "string"}, NEW x, IsElement(elem, x)
    PROVE  Back(elem, Back(elem, x)) = Back(elem, x)
<1>1. CASE elem = "int"
  BY <1>1 DEF Back, NodeOf, Number, Element
<1>2. CASE elem = "string"
  BY <1>2 DEF Back, NodeOf, Element, Written
<1> QED
  BY <1>1, <1>2

LEMMA SetsBack ==
    ASSUME NEW elem \in {"int", "string"}, NEW st, IsFiniteSet(st),
           \A x \in st : IsElement(elem, x)
    PROVE  TextSet(elem, SetText(elem, st)) = {st} <=>
               \A x \in st : Back(elem, x) = x
<1>1. TextSet(elem, SetText(elem, st)) = {{Back(elem, x) : x \in st}}
  BY SetsText
<1>2. ASSUME \A x \in st : Back(elem, x) = x
      PROVE  {Back(elem, x) : x \in st} = st
  BY <1>2
<1>3. ASSUME {Back(elem, x) : x \in st} = st, NEW x \in st
      PROVE  Back(elem, x) = x
  <2>1. PICK y \in st : x = Back(elem, y)
    BY <1>3
  <2> QED
    BY <2>1, BackTwice
<1> QED
  BY <1>1, <1>2, <1>3

LEMMA MapsText ==
    ASSUME NEW elem \in {"int", "string"}, NEW mp, IsFiniteSet(DOMAIN mp),
           \A key \in DOMAIN mp : IsElement(elem, mp[key])
    PROVE  /\ TextMap(elem, MapText(elem, mp))
                  = {[key \in DOMAIN mp |-> Back(elem, mp[key])]}
           /\ IsNode(MapText(elem, mp))
<1>1. CASE DOMAIN mp = {}
  <2>1. ~IsMap(Null) /\ ~IsSequence(Null) /\ ~IsNumber(Null)
    BY DEF IsMap, IsSequence, IsNumber, Null
  <2>2. [key \in DOMAIN mp |-> Back(elem, mp[key])] = [key \in {} |-> 0]
    BY <1>1
  <2> QED
    BY <1>1, <2>1, <2>2 DEF MapText, TextMap, IsNode, IsItem
<1>2. CASE DOMAIN mp # {}
  <2> DEFINE keys == SetToSeq(DOMAIN mp)
             n == Cardinality(DOMAIN mp)
             node == MapText(elem, mp)
             pairs == node.pairs
             At(key) == CHOOSE k \in DOMAIN pairs :
                           /\ pairs[k].key = key
                           /\ \A j \in 1..(k - 1) : pairs[j].key # key
  <2>1. /\ n \in Nat
        /\ keys = [k \in 1..n |-> keys[k]]
        /\ \A k \in 1..n : keys[k] \in DOMAIN mp
        /\ \A j, k \in 1..n : keys[j] = keys[k] => j = k
        /\ \A x \in DOMAIN mp : \E k \in 1..n : keys[k] = x
    BY SetAsSeq
  <2>2. node = [pairs |-> [k \in DOMAIN keys |->
                   [key |-> keys[k], node |-> NodeOf(elem, mp[keys[k]])]]]
    BY <1>2 DEF MapText
  <2> HIDE DEF keys, n, node
  <2>3. /\ DOMAIN pairs = 1..n /\ IsList(pairs)
        /\ \A k \in 1..n : pairs[k].key = keys[k]
                           /\ pairs[k].node = NodeOf(elem, mp[keys[k]])
    <3>1. pairs = [k \in 1..n |->
                     [key |-> keys[k], node |-> NodeOf(elem, mp[keys[k]])]]
      BY <2>1, <2>2
    <3> HIDE DEF pairs
    <3>2. pairs = [k \in 1..n |-> pairs[k]]
      BY <3>1
    <3> QED
      BY <2>1, <3>1, <3>2, LengthOf
  <2>4. {pairs[k].key : k \in DOMAIN pairs} = DOMAIN mp
    <3> HIDE DEF pairs
    <3>1. \A k \in DOMAIN pairs : pairs[k].key \in DOMAIN mp
      BY <2>1, <2>3
    <3>2. \A x \in DOMAIN mp : \E k \in DOMAIN pairs : pairs[k].key = x
      BY <2>1, <2>3
    <3> QED
      BY <3>1, <3>2
  <2>5. \A k \in DOMAIN pairs :
           Converts(elem, pairs[k].node) /\ IsItem(pairs[k].node)
    <3> HIDE DEF pairs
    <3>1. \A k \in 1..n : IsElement(elem, mp[keys[k]])
      BY <2>1
    <3> QED
      BY <2>3, <3>1, ElementText
  <2>6. ASSUME NEW key \in DOMAIN mp
        PROVE  Element(elem, pairs[At(key)].node) = Back(elem, mp[key])
    <3>1. PICK k \in 1..n : keys[k] = key
      BY <2>1
    <3>2. /\ k \in DOMAIN pairs /\ pairs[k].key = key
          /\ \A j \in 1..(k - 1) : pairs[j].key # key
      BY <2>1, <2>3, <3>1
    <3>3. At(key) \in DOMAIN pairs /\ pairs[At(key)].key = key
      BY <3>2
    <3>4. At(key) = k
      <4> HIDE DEF At
      <4> QED
        BY <2>1, <2>3, <3>1, <3>3
    <3> HIDE DEF At
    <3> QED
      BY <2>3, <3>1, <3>4 DEF Back
  <2>7. [key \in DOMAIN mp |-> Element(elem, pairs[At(key)].node)]
            = [key \in DOMAIN mp |-> Back(elem, mp[key])]
    <3> HIDE DEF At
    <3> QED
      BY <2>6
  <2>8. IsMap(node) /\ ~IsSequence(node) /\ ~IsNumber(node)
    BY <2>2 DEF IsMap, IsSequence, IsNumber
  <2>9. TextMap(elem, node) =
            {[key \in {pairs[k].key : k \in DOMAIN pairs} |->
                 Element(elem, pairs[At(key)].node)]}
    BY <2>5, <2>8 DEF TextMap
  <2>10. IsNode(node)
    BY <2>3, <2>5, <2>8 DEF IsNode, IsItem
  <2> HIDE DEF pairs, At
  <2>11. TextMap(elem, node) = {[key \in DOMAIN mp |-> Back(elem, mp[key])]}
    BY <2>4, <2>7, <2>9
  <2> QED
    BY <2>10, <2>11 DEF node
<1> QED
  BY <1>1, <1>2

LEMMA MapsBack ==
    ASSUME NEW elem \in {"int", "string"}, NEW mp, IsFiniteSet(DOMAIN mp),
           mp = [key \in DOMAIN mp |-> mp[key]],
           \A key \in DOMAIN mp : IsElement(elem, mp[key])
    PROVE  TextMap(elem, MapText(elem, mp)) = {mp} <=>
               \A x \in Range(mp) : Back(elem, x) = x
<1> DEFINE back == [key \in DOMAIN mp |-> Back(elem, mp[key])]
<1>1. TextMap(elem, MapText(elem, mp)) = {back}
  BY MapsText
<1>2. \A key \in DOMAIN mp : back[key] = Back(elem, mp[key])
  OBVIOUS
<1>3. back = [key \in DOMAIN mp |-> back[key]]
  OBVIOUS
<1> HIDE DEF back
<1>4. back = mp <=> \A key \in DOMAIN mp : back[key] = mp[key]
  BY <1>3
<1> QED
  BY <1>1, <1>2, <1>4 DEF Range

LEMMA TypesOf ==
    ASSUME NEW type \in Types
    PROVE  \/ type.of = "scalar" /\ type.elem = "int"
           \/ /\ type.of \in {"vector", "set", "map"}
              /\ type.elem \in {"int", "string"}
  BY DEF Types, Scalar, Containers

(* The parts of a value, all of which are strings or none is.              *)
Parts(type, value) ==
    IF type.of = "scalar" THEN {}
    ELSE IF type.of = "set" THEN value ELSE Range(value)

LEMMA PartsAreElements ==
    ASSUME NEW type \in Types, NEW value, IsValue(type, value)
    PROVE  /\ \A x \in Parts(type, value) : IsElement(type.elem, x)
           /\ type.elem = "string" => Strings(type, value) = Parts(type, value)
           /\ type.elem # "string" => Strings(type, value) = {}
<1>1. \/ type.of = "scalar" /\ type.elem = "int"
      \/ /\ type.of \in {"vector", "set", "map"}
         /\ type.elem \in {"int", "string"}
  BY TypesOf
<1>2. ASSUME NEW x \in Parts(type, value) PROVE IsElement(type.elem, x)
  <2>1. CASE type.of = "vector"
    <3>1. /\ \A k \in 1..Len(value) : IsElement(type.elem, value[k])
          /\ DOMAIN value = 1..Len(value)
      BY <2>1 DEF IsValue, IsList
    <3> QED
      BY <1>2, <2>1, <3>1 DEF Parts, Range
  <2>2. CASE type.of = "set"
    BY <1>2, <2>2 DEF Parts, IsValue
  <2>3. CASE type.of = "map"
    BY <1>2, <2>3 DEF Parts, IsValue, Range
  <2> QED
    BY <1>1, <1>2, <2>1, <2>2, <2>3 DEF Parts
<1> QED
  BY <1>1, <1>2 DEF Parts, Strings

(* What ToText makes of a value without strings that do not load.          *)
TextOf(type, value) ==
    CASE type.of = "scalar" -> Number(value)
      [] type.of = "vector" -> VectorText(type.elem, value)
      [] type.of = "set"    -> SetText(type.elem, value)
      [] type.of = "map"    -> MapText(type.elem, value)

LEMMA TextIsNode ==
    ASSUME NEW type \in Types, NEW value, IsValue(type, value)
    PROVE  IsNode(ToText(type, value))
<1>1. IsNode(Null)
  BY DEF IsNode, IsItem, IsNumber, IsSequence, IsMap, Null
<1>2. IsNode(TextOf(type, value))
  <2>1. CASE type.of = "scalar"
    BY <2>1 DEF IsValue, TextOf, IsNode, IsItem, IsNumber, IsSequence, IsMap,
       Number
  <2>2. CASE type.of = "vector"
    BY <2>2, TypesOf, VectorsText DEF IsValue, TextOf
  <2>3. CASE type.of = "set"
    BY <2>3, TypesOf, SetsText DEF IsValue, TextOf
  <2>4. CASE type.of = "map"
    BY <2>4, TypesOf, MapsText DEF IsValue, TextOf
  <2> QED
    BY <2>1, <2>2, <2>3, <2>4, TypesOf
<1> QED
  BY <1>1, <1>2 DEF ToText, TextOf

LEMMA TextOfBack ==
    ASSUME NEW type \in Types, NEW value, IsValue(type, value)
    PROVE  FromText(type, TextOf(type, value)) = {value} <=>
               \A x \in Parts(type, value) : Back(type.elem, x) = x
<1>1. CASE type.of = "scalar"
  BY <1>1 DEF IsValue, FromText, TextOf, TextInt, IsNumber, Number, Parts
<1>2. CASE type.of = "vector"
  BY <1>2, TypesOf, ListsBack DEF IsValue, FromText, TextOf, Parts
<1>3. CASE type.of = "set"
  BY <1>3, TypesOf, SetsBack DEF IsValue, FromText, TextOf, Parts
<1>4. CASE type.of = "map"
  BY <1>4, TypesOf, MapsBack DEF IsValue, FromText, TextOf, Parts
<1> QED
  BY <1>1, <1>2, <1>3, <1>4, TypesOf

(* The text of a value with a string that does not load makes an empty     *)
(* container, which has no strings.                                        *)
LEMMA NullIsEmpty ==
    ASSUME NEW type \in Types, NEW value, IsValue(type, value),
           FromText(type, Null) = {value}
    PROVE  Strings(type, value) = {}
<1>1. /\ ~IsSequence(Null) /\ ~IsMap(Null) /\ ~IsNumber(Null)
  BY DEF IsSequence, IsMap, IsNumber, Null
<1>2. Range(<<>>) = {} /\ Range([key \in {} |-> 0]) = {}
  BY DEF Range
<1>3. TextVector(type.elem, Null) = {<<>>}
  BY <1>1 DEF TextVector
<1>4. CASE type.of = "scalar"
  BY <1>4, TypesOf DEF Strings
<1>5. CASE type.of = "vector"
  <2>1. value = <<>>
    BY <1>3, <1>5 DEF FromText
  <2> QED
    BY <1>2, <1>5, <2>1 DEF Strings
<1>6. CASE type.of = "set"
  <2>1. TextSet(type.elem, Null) = {Range(<<>>)}
    BY <1>3 DEF TextSet
  <2>2. value = {}
    BY <1>2, <1>6, <2>1 DEF FromText
  <2> QED
    BY <1>6, <2>2 DEF Strings
<1>7. CASE type.of = "map"
  <2>1. TextMap(type.elem, Null) = {[key \in {} |-> 0]}
    BY <1>1 DEF TextMap
  <2>2. value = [key \in {} |-> 0]
    BY <1>7, <2>1 DEF FromText
  <2> QED
    BY <1>2, <1>7, <2>2 DEF Strings
<1> QED
  BY <1>4, <1>5, <1>6, <1>7, TypesOf

(* A value comes back from its text exactly if its strings are plain.      *)
LEMMA TextOfValue ==
    ASSUME NEW type \in Types, NEW value, IsValue(type, value)
    PROVE  FromText(type, ToText(type, value)) = {value} <=>
               \A s \in Strings(type, value) : Loads(s) /\ s = Written(s.yaml)
<1>1. CASE \E s \in Strings(type, value) : ~Loads(s)
  <2>1. ToText(type, value) = Null
    BY <1>1 DEF ToText
  <2> QED
    BY <1>1, <2>1, NullIsEmpty
<1>2. CASE ~\E s \in Strings(type, value) : ~Loads(s)
  <2>1. ToText(type, value) = TextOf(type, value)
    BY <1>2 DEF ToText, TextOf
  <2>2. FromText(type, ToText(type, value)) = {value} <=>
            \A x \in Parts(type, value) : Back(type.elem, x) = x
    BY <2>1, TextOfBack
  <2>3. ASSUME NEW x \in Parts(type, value)
        PROVE  Back(type.elem, x) = x <=>
                   (type.elem = "string" => x = Written(x.yaml))
    <3>1. IsElement(type.elem, x) /\ type.elem \in {"int", "string"}
      BY PartsAreElements, TypesOf
    <3> QED
      BY <3>1, ElementText DEF Back, Plain
  <2>4. CASE type.elem = "string"
    BY <1>2, <2>2, <2>3, <2>4, PartsAreElements
  <2>5. CASE type.elem # "string"
    BY <2>2, <2>3, <2>5, PartsAreElements
  <2> QED
    BY <2>4, <2>5
<1> QED
  BY <1>1, <1>2

(* What a node converts to is a value of the type.                         *)
LEMMA ElementConverts ==
    ASSUME NEW elem \in {"int", "string"}, NEW node, IsItem(node),
           Converts(elem, node)
    PROVE  IsElement(elem, Element(elem, node))
<1>1. CASE elem = "int"
  BY <1>1 DEF Converts, IsItem, IsElement, Element
<1>2. CASE elem = "string"
  BY <1>2 DEF IsElement, IsString, Element, Written
<1> QED
  BY <1>1, <1>2

LEMMA ListOf ==
    ASSUME NEW elem, NEW n \in Nat, NEW s, s = [k \in 1..n |-> s[k]],
           \A k \in 1..n : IsElement(elem, s[k])
    PROVE  IsList(s) /\ \A k \in 1..Len(s) : IsElement(elem, s[k])
  BY LengthOf

LEMMA VectorsConvert ==
    ASSUME NEW elem \in {"int", "string"}, NEW node, IsNode(node),
           NEW x \in TextVector(elem, node)
    PROVE  IsList(x) /\ \A k \in 1..Len(x) : IsElement(elem, x[k])
<1>1. CASE IsSequence(node)
  <2> DEFINE n == Len(node.items)
  <2>1. /\ AllConvert(elem, node.items) /\ x = Elements(elem, node.items)
    BY <1>1 DEF TextVector
  <2>2. n \in Nat /\ \A k \in 1..n : IsItem(node.items[k])
    BY <1>1 DEF IsNode, IsList
  <2>3. x = [k \in 1..n |-> Element(elem, node.items[k])]
    BY <2>1 DEF Elements
  <2>4. \A k \in 1..n : Converts(elem, node.items[k])
    BY <1>1, <2>1 DEF AllConvert, IsNode, IsList
  <2> HIDE DEF n
  <2>5. x = [k \in 1..n |-> x[k]] /\ \A k \in 1..n : IsElement(elem, x[k])
    BY <2>2, <2>3, <2>4, ElementConverts
  <2> QED
    BY <2>2, <2>5, ListOf
<1>2. CASE ~IsSequence(node) /\ IsMap(node) /\ node.pairs # <<>>
  <2> DEFINE n == Len(node.pairs)
  <2>1. elem = "string" /\ x = [k \in 1..n |-> Empty]
    BY <1>2 DEF TextVector
  <2>2. n \in Nat
    BY <1>2 DEF IsNode, IsList
  <2>3. IsElement(elem, Empty)
    BY <2>1 DEF IsElement, IsString, IsItem, IsNumber, Empty, Null
  <2> HIDE DEF n
  <2>4. x = [k \in 1..n |-> x[k]] /\ \A k \in 1..n : IsElement(elem, x[k])
    BY <2>1, <2>3
  <2> QED
    BY <2>2, <2>4, ListOf
<1>3. CASE ~IsSequence(node) /\ ~(IsMap(node) /\ node.pairs # <<>>)
  <2>1. x = <<>>
    BY <1>3 DEF TextVector
  <2>2. <<>> = [k \in 1..0 |-> <<>>[k]]
    OBVIOUS
  <2>3. IsList(<<>>) /\ Len(<<>>) = 0
    BY <2>2, LengthOf
  <2> QED
    BY <2>1, <2>3
<1> QED
  BY <1>1, <1>2, <1>3

LEMMA SetsConvert ==
    ASSUME NEW elem \in {"int", "string"}, NEW node, IsNode(node),
           NEW x \in TextSet(elem, node)
    PROVE  IsFiniteSet(x) /\ \A y \in x : IsElement(elem, y)
<1>1. PICK s \in TextVector(elem, node) : x = Range(s)
  BY DEF TextSet
<1>2. IsList(s) /\ \A k \in 1..Len(s) : IsElement(elem, s[k])
  BY VectorsConvert
<1>3. DOMAIN s = 1..Len(s) /\ Len(s) \in Nat
  BY <1>2 DEF IsList
<1>4. IsFiniteSet(1..Len(s))
  BY <1>3, FS_Interval
<1>5. s \in Surjection(1..Len(s), x)
  BY <1>1, <1>2, <1>3 DEF Surjection, Range, IsList
<1> QED
  BY <1>1, <1>2, <1>3, <1>4, <1>5, FS_Surjection DEF Range

LEMMA MapsConvert ==
    ASSUME NEW elem \in {"int", "string"}, NEW node, IsNode(node),
           NEW x \in TextMap(elem, node)
    PROVE  /\ IsFiniteSet(DOMAIN x)
           /\ x = [key \in DOMAIN x |-> x[key]]
           /\ \A key \in DOMAIN x : IsElement(elem, x[key])
<1>1. CASE IsMap(node)
  <2> DEFINE pairs == node.pairs
             n == Len(pairs)
             keys == {pairs[k].key : k \in DOMAIN pairs}
             At(key) == CHOOSE k \in DOMAIN pairs :
                           /\ pairs[k].key = key
                           /\ \A j \in 1..(k - 1) : pairs[j].key # key
  <2>1. /\ n \in Nat /\ DOMAIN pairs = 1..n
        /\ \A k \in 1..n : IsItem(pairs[k].node)
    BY <1>1 DEF IsNode, IsList
  <2>2. /\ \A k \in DOMAIN pairs : Converts(elem, pairs[k].node)
        /\ x = [key \in keys |-> Element(elem, pairs[At(key)].node)]
    BY <1>1 DEF TextMap
  <2>3. \A k \in 1..n : IsElement(elem, Element(elem, pairs[k].node))
    <3> HIDE DEF pairs, n
    <3> QED
      BY <2>1, <2>2, ElementConverts
  <2>4. ASSUME NEW key \in keys PROVE At(key) \in 1..n
    <3> DEFINE T == {k \in 1..n : pairs[k].key = key}
    <3>1. T \subseteq Nat /\ T # {}
      BY <2>1
    <3>2. PICK k \in T : \A j \in T : k <= j
      <4> HIDE DEF T
      <4> QED
        BY <3>1, LeastNatural
    <3>3. \A j \in 1..(k - 1) : pairs[j].key # key
      BY <2>1, <3>2
    <3>4. k \in DOMAIN pairs /\ pairs[k].key = key
      BY <2>1, <3>2
    <3> QED
      BY <2>1, <3>3, <3>4
  <2>5. IsFiniteSet(keys)
    <3>1. IsFiniteSet(1..n)
      BY <2>1, FS_Interval
    <3>2. [k \in 1..n |-> pairs[k].key] \in Surjection(1..n, keys)
      BY <2>1 DEF Surjection
    <3> QED
      BY <3>1, <3>2, FS_Surjection
  <2> HIDE DEF At, keys, n, pairs
  <2>6. DOMAIN x = keys /\ \A key \in keys : IsElement(elem, x[key])
    BY <2>2, <2>3, <2>4
  <2> QED
    BY <2>2, <2>5, <2>6
<1>2. CASE x = [key \in {} |-> 0]
  BY <1>2, FS_EmptySet
<1> QED
  BY <1>1, <1>2 DEF TextMap

LEMMA NodeConverts ==
    ASSUME NEW type \in Types, NEW node, IsNode(node),
           NEW x \in FromText(type, node)
    PROVE  IsValue(type, x)
<1>1. CASE type.of = "scalar"
  BY <1>1 DEF IsValue, FromText, TextInt, IsNode, IsItem, IsNumber
<1>2. CASE type.of = "vector"
  BY <1>2, TypesOf, VectorsConvert DEF IsValue, FromText
<1>3. CASE type.of = "set"
  BY <1>3, TypesOf, SetsConvert DEF IsValue, FromText
<1>4. CASE type.of = "map"
  BY <1>4, TypesOf, MapsConvert DEF IsValue, FromText
<1> QED
  BY <1>1, <1>2, <1>3, <1>4, TypesOf

-----------------------------------------------------------------------------
(* Types.                                                                  *)

(* What thread goes on with, whose task is c, after the callback.          *)
After(c) == IF c.at = "notify" THEN c.next ELSE c

Nodes == UNION {{Docs[d][k] : k \in DOMAIN Docs[d]} : d \in DOMAIN Docs}

TypedTask(c, obj) ==
    /\ c.at \in {"again", "insert", "inserting"} => IsTyped(c.what)
    /\ After(c).at = "load" => After(c).rest \in Seq(Nodes)
    /\ c.at = "text" =>
          /\ IsValue(obj[c.var].type, c.value)
          /\ c.text = ToText(obj[c.var].type, c.value)

TypedInv ==
    /\ \A v \in 1..Len(object) : IsTyped(object[v])
    /\ \A t \in Threads : TypedTask(task[t], object)

LEMMA DocsAreLists ==
    ASSUME NEW d \in DOMAIN Docs
    PROVE  /\ Docs[d] \in Seq(Nodes) /\ Len(Docs[d]) \in Nat
           /\ DOMAIN Docs[d] = 1..Len(Docs[d])
<1>1. Len(Docs[d]) \in Nat /\ Docs[d] = [k \in 1..Len(Docs[d]) |-> Docs[d][k]]
  BY DocsAssumption DEF IsList
<1>2. \A k \in 1..Len(Docs[d]) : Docs[d][k] \in Nodes
  BY <1>1 DEF Nodes
<1>3. Docs[d] \in [1..Len(Docs[d]) -> Nodes]
  BY <1>1, <1>2
<1> QED
  BY <1>1, <1>3, SeqDef

LEMMA NodesAreNodes == \A node \in Nodes : IsNode(node.text)
  BY DocsAssumption DEF Nodes

(* A step of thread t after which the values still have the same types.    *)
LEMMA TypedStep ==
    ASSUME ChangeInv, TypedInv, NEW t \in Threads, NEW s,
           task' = [task EXCEPT ![t] = s], TypedTask(s, object'),
           \A v \in 1..Len(object) : object'[v].type = object[v].type,
           \A v \in 1..Len(object') : IsTyped(object'[v])
    PROVE  TypedInv'
<1>1. task'[t] = s /\ \A u \in Threads \ {t} : task'[u] = task[u]
  BY DEF ChangeInv, Shapes
<1>2. ASSUME NEW u \in Threads PROVE TypedTask(task'[u], object')
  <2>1. CASE u = t
    BY <1>1, <2>1
  <2>2. CASE u # t
    <3>1. TypedTask(task[u], object) /\ task'[u] = task[u]
      BY <1>1, <2>2 DEF TypedInv
    <3>2. task[u].at = "text" => task[u].var \in 1..Len(object)
      BY DEF ChangeInv, Shapes
    <3> QED
      BY <3>1, <3>2 DEF TypedTask
  <2> QED
    BY <2>1, <2>2
<1> QED
  BY <1>2 DEF TypedInv

LEMMA SameTyped ==
    ASSUME ChangeInv, TypedInv, NEW t \in Threads, NEW s,
           task' = [task EXCEPT ![t] = s], TypedTask(s, object),
           object' = object
    PROVE  TypedInv'
  BY TypedStep DEF TypedInv

LEMMA IdleTyped == \A obj : TypedTask(Idle, obj)
  BY DEF TypedTask, After, Idle

LEMMA LoadTyped ==
    ASSUME NEW rest \in Seq(Nodes), NEW obj
    PROVE  TypedTask([at |-> "load", rest |-> rest], obj)
  BY DEF TypedTask, After

LEMMA StoreTyped ==
    ASSUME ChangeInv, TypedInv, NEW t \in Threads, NEW v \in 1..Len(object),
           NEW x, IsValue(object[v].type, x), NEW next,
           Store(t, v, x, next), next.at \in {"idle", "load"},
           TypedTask(next, object)
    PROVE  TypedInv'
<1> DEFINE c == [at |-> "notify", var |-> v, next |-> next,
                 old |-> object[v].value, new |-> x]
           s == IF x = object[v].value THEN next ELSE c
<1>1. /\ object' = [object EXCEPT ![v].value = x]
      /\ task' = [task EXCEPT ![t] = s]
  BY DEF Store
<1>2. c.at = "notify" /\ c.next = next
  OBVIOUS
<1> HIDE DEF c
<1>3. TypedTask(s, object')
  BY <1>2 DEF TypedTask, After
<1> HIDE DEF s
<1>4. IsSequenceOf(object, Len(object))
      /\ \A w \in 1..Len(object) : IsObject(object[w])
  BY DEF ChangeInv, Shapes
<1>5. /\ IsSequenceOf(object', Len(object))
      /\ \A w \in 1..Len(object) : w # v => object'[w] = object[w]
      /\ object'[v].type = object[v].type /\ object'[v].value = x
  <2>1. IsSequenceOf(object', Len(object))
    BY <1>1, <1>4 DEF IsSequenceOf
  <2>2. \A w \in 1..Len(object) : w # v => object'[w] = object[w]
    BY <1>1, <1>4 DEF IsSequenceOf
  <2>3. object'[v] = [object[v] EXCEPT !.value = x]
    BY <1>1, <1>4 DEF IsSequenceOf
  <2>4. object'[v].type = object[v].type /\ object'[v].value = x
    BY <1>4, <2>3 DEF IsObject
  <2> QED
    BY <2>1, <2>2, <2>4
<1>6. Len(object') = Len(object)
  BY <1>5, Appended
<1>7. \A w \in 1..Len(object') : IsTyped(object'[w])
  BY <1>5, <1>6 DEF TypedInv, IsTyped
<1>8. \A w \in 1..Len(object) : object'[w].type = object[w].type
  BY <1>5
<1> QED
  BY <1>1, <1>3, <1>7, <1>8, TypedStep

LEMMA FromStringTyped ==
    ASSUME ChangeInv, TypedInv, NEW t \in Threads, NEW v \in 1..Len(object),
           NEW text, NEW next, FromString(t, v, text, next),
           \A x \in FromText(object[v].type, text) : IsValue(object[v].type, x),
           next.at \in {"idle", "load"}, TypedTask(next, object)
    PROVE  TypedInv'
<1>1. CASE \E x \in FromText(object[v].type, text) : Store(t, v, x, next)
  BY <1>1, StoreTyped
<1>2. CASE task' = [task EXCEPT ![t] = next] /\ UNCHANGED object
  BY <1>2, SameTyped
<1> QED
  BY <1>1, <1>2 DEF FromString

LEMMA BeginInsertTyped ==
    ASSUME ChangeInv, TypedInv, NEW t \in Threads, BeginInsert(t)
    PROVE  TypedInv'
<1> DEFINE w == task[t].what
           n == Len(object)
           o == [type |-> w.type, value |-> w.value, first |-> w.value]
           s == [at |-> "inserting", what |-> w, var |-> n + 1]
<1>1. /\ task[t].at = "insert" /\ task' = [task EXCEPT ![t] = s]
      /\ object' = Append(object, o)
  BY DEF BeginInsert
<1>2. IsTyped(w)
  BY <1>1 DEF TypedInv, TypedTask
<1>3. IsTyped(o)
  BY <1>2 DEF IsTyped
<1>4. TypedTask(s, object')
  BY <1>2 DEF TypedTask, After
<1>5. n \in Nat /\ IsSequenceOf(object, n)
  BY DEF ChangeInv, Shapes, IsSequenceOf
<1> HIDE DEF o, s, n
<1>6. /\ IsSequenceOf(object', n + 1) /\ object'[n + 1] = o
      /\ \A v \in 1..n : object'[v] = object[v]
  BY <1>1, <1>5, Appended
<1>7. Len(object') = n + 1
  BY <1>5, <1>6, Appended
<1>8. \A v \in 1..(n + 1) : v \in 1..n \/ v = n + 1
  BY <1>5
<1>9. \A v \in 1..Len(object') : IsTyped(object'[v])
  BY <1>3, <1>6, <1>7, <1>8 DEF TypedInv, n
<1>10. \A v \in 1..Len(object) : object'[v].type = object[v].type
  BY <1>6 DEF n
<1> QED
  BY <1>1, <1>4, <1>9, <1>10, TypedStep

LEMMA InitTyped == Init => TypedInv
<1> SUFFICES ASSUME Init PROVE TypedInv
  OBVIOUS
<1> DEFINE n == Len(Declared)
<1>1. n \in Nat /\ DOMAIN Declared = 1..n
  BY DeclaredAssumption DEF IsList
<1>2. /\ object = [v \in 1..n |-> [type |-> Declared[v].type,
                                   value |-> Declared[v].value,
                                   first |-> Declared[v].value]]
      /\ task = [t \in Threads |-> Idle]
  BY <1>1 DEF Init
<1> HIDE DEF n
<1>3. object = [v \in 1..n |-> object[v]]
  BY <1>2
<1>4. Len(object) = n
  BY <1>1, <1>3, LengthOf
<1>5. \A v \in 1..n : IsTyped(Declared[v])
  BY <1>1, DeclaredAssumption
<1>6. \A v \in 1..n : IsTyped(object[v])
  BY <1>2, <1>5 DEF IsTyped
<1> QED
  BY <1>2, <1>4, <1>6, IdleTyped DEF TypedInv

LEMMA StepTyped == ChangeInv /\ TypedInv /\ [Next]_vars => TypedInv'
<1> SUFFICES ASSUME ChangeInv, TypedInv, [Next]_vars PROVE TypedInv'
  OBVIOUS
<1>0. Exist(handles \cup registry)
  BY DEF ChangeInv, Shapes, Exist
<1>1. ASSUME NEW t \in Threads, NEW w \in Wanted, lookup(t, w)
      PROVE  TypedInv'
  BY <1>1 DEF lookup, TypedInv
<1>2. ASSUME NEW t \in Threads, NEW w \in Wanted, lookupMissed(t, w)
      PROVE  TypedInv'
  <2> DEFINE s == [at |-> "again", what |-> w]
  <2>1. task' = [task EXCEPT ![t] = s] /\ object' = object
    BY <1>2 DEF lookupMissed
  <2>2. TypedTask(s, object)
    BY ValuesAssumption DEF TypedTask, After
  <2> HIDE DEF s
  <2> QED
    BY <2>1, <2>2, SameTyped
<1>3. ASSUME NEW t \in Threads, lookupAgain(t) PROVE TypedInv'
  <2>1. task[t].at = "again" /\ object' = object
    BY <1>3 DEF lookupAgain
  <2>2. IsTyped(task[t].what)
    BY <2>1 DEF TypedInv, TypedTask
  <2>3. CASE Known(task[t].what.name)
    BY <1>3, <2>1, <2>3, IdleTyped, SameTyped DEF lookupAgain
  <2>4. CASE ~Known(task[t].what.name)
    <3> DEFINE s == [at |-> "insert", what |-> task[t].what]
    <3>1. task' = [task EXCEPT ![t] = s]
      BY <1>3, <2>4 DEF lookupAgain
    <3>2. TypedTask(s, object)
      BY <2>2 DEF TypedTask, After
    <3> HIDE DEF s
    <3> QED
      BY <2>1, <3>1, <3>2, SameTyped
  <2> QED
    BY <2>3, <2>4
<1>4. ASSUME NEW t \in Threads, BeginInsert(t) PROVE TypedInv'
  BY <1>4, BeginInsertTyped
<1>5. ASSUME NEW t \in Threads, EndInsert(t) PROVE TypedInv'
  BY <1>5, IdleTyped, SameTyped DEF EndInsert
<1>6. ASSUME NEW t \in Threads, NEW h \in handles, toString(t, h.var)
      PROVE  TypedInv'
  <2> DEFINE o == object[h.var]
             s == [at |-> "text", var |-> h.var, value |-> o.value,
                   text |-> ToText(o.type, o.value)]
  <2>1. task' = [task EXCEPT ![t] = s] /\ object' = object
    BY <1>6 DEF toString
  <2>2. IsTyped(o)
    BY <1>0 DEF Exist, TypedInv
  <2>3. TypedTask(s, object)
    BY <2>2 DEF TypedTask, After, IsTyped
  <2> HIDE DEF s
  <2> QED
    BY <2>1, <2>3, SameTyped
<1>7. ASSUME NEW t \in Threads, NEW h \in handles,
             NEW x \in Settings[object[h.var].type], setValue(t, h.var, x)
      PROVE  TypedInv'
  <2>1. h.var \in 1..Len(object)
    BY <1>0 DEF Exist
  <2>2. IsValue(object[h.var].type, x)
    BY <2>1, ValuesAssumption DEF TypedInv, IsTyped
  <2>3. Store(t, h.var, x, Idle) /\ Idle.at = "idle"
    BY <1>7 DEF setValue, Idle
  <2> QED
    BY <2>1, <2>2, <2>3, IdleTyped, StoreTyped
<1>8. ASSUME NEW t \in Threads, Notify(t) PROVE TypedInv'
  <2>1. /\ task[t].at = "notify" /\ task' = [task EXCEPT ![t] = task[t].next]
        /\ object' = object
    BY <1>8 DEF Notify
  <2>2. task[t].next.at \in {"idle", "load"}
    BY <2>1 DEF ChangeInv, GoesOn
  <2>3. TypedTask(task[t].next, object)
    BY <2>1, <2>2 DEF TypedInv, TypedTask, After
  <2> QED
    BY <2>1, <2>3, SameTyped
<1>9. ASSUME NEW t \in Threads, fromString(t) PROVE TypedInv'
  <2> DEFINE v == task[t].var
  <2>1. task[t].at = "text" /\ FromString(t, v, task[t].text, Idle)
    BY <1>9 DEF fromString
  <2>2. v \in 1..Len(object)
    BY <2>1 DEF ChangeInv, Shapes
  <2>3. /\ IsValue(object[v].type, task[t].value)
        /\ task[t].text = ToText(object[v].type, task[t].value)
        /\ object[v].type \in Types
    BY <2>1, <2>2 DEF TypedInv, TypedTask, IsTyped
  <2>4. \A x \in FromText(object[v].type, task[t].text) :
           IsValue(object[v].type, x)
    BY <2>3, TextIsNode, NodeConverts
  <2>5. Idle.at = "idle"
    BY DEF Idle
  <2> QED
    BY <2>1, <2>2, <2>3, <2>4, <2>5, IdleTyped, FromStringTyped
<1>10. ASSUME NEW t \in Threads, NEW d \in DOMAIN Docs, LoadFile(t, d)
       PROVE  TypedInv'
  <2>1. /\ task' = [task EXCEPT ![t] = [at |-> "load", rest |-> Docs[d]]]
        /\ object' = object
    BY <1>10 DEF LoadFile
  <2> QED
    BY <2>1, DocsAreLists, LoadTyped, SameTyped
<1>11. ASSUME NEW t \in Threads, LoadNode(t) PROVE TypedInv'
  <2> DEFINE rest == task[t].rest
             node == Head(rest)
             next == [at |-> "load", rest |-> Tail(rest)]
  <2>1. task[t].at = "load" /\ rest # <<>>
    BY <1>11 DEF LoadNode
  <2>2. rest \in Seq(Nodes)
    BY <2>1 DEF TypedInv, TypedTask, After
  <2>3. node \in Nodes /\ Tail(rest) \in Seq(Nodes)
    BY <2>1, <2>2, HeadTailProperties
  <2>4. \/ \E r \in registry : FromString(t, r.var, node.text, next)
        \/ task' = [task EXCEPT ![t] = next] /\ UNCHANGED object
    BY <1>11 DEF LoadNode, Found, Remaining
  <2>5. TypedTask(next, object)
    BY <2>3, LoadTyped
  <2>6. next.at = "load"
    OBVIOUS
  <2> HIDE DEF node, next
  <2>7. ASSUME NEW r \in registry, FromString(t, r.var, node.text, next)
        PROVE  TypedInv'
    <3>1. r.var \in 1..Len(object)
      BY <1>0 DEF Exist
    <3>2. \A x \in FromText(object[r.var].type, node.text) :
             IsValue(object[r.var].type, x)
      BY <2>3, <3>1, NodesAreNodes, NodeConverts DEF TypedInv, IsTyped
    <3> QED
      BY <2>5, <2>6, <2>7, <3>1, <3>2, FromStringTyped
  <2>8. CASE task' = [task EXCEPT ![t] = next] /\ UNCHANGED object
    BY <2>5, <2>8, SameTyped
  <2> QED
    BY <2>4, <2>7, <2>8
<1>12. ASSUME NEW t \in Threads, LoadEnds(t) PROVE TypedInv'
  BY <1>12, IdleTyped, SameTyped DEF LoadEnds
<1>13. CASE Over \/ UNCHANGED vars
  BY <1>13 DEF Over, vars, historyVars, TypedInv
<1> QED
  BY <1>1, <1>2, <1>3, <1>4, <1>5, <1>6, <1>7, <1>8, <1>9, <1>10, <1>11,
     <1>12, <1>13
  DEF Next

(* The text that toString() makes of an int or a container of ints         *)
(* converts to that value, and of a container of strings exactly if each   *)
(* is spelled as YAML writes it, whatever happens to the variable          *)
(* meanwhile.                                                              *)
THEOREM TextsKeepValues == Spec => []TextKeepsValue
<1>1. ChangeInv /\ TypedInv => TextKeepsValue
  <2> SUFFICES ASSUME ChangeInv, TypedInv, NEW t \in Threads,
                      task[t].at = "text"
               PROVE  LET type == object[task[t].var].type
                      IN FromText(type, task[t].text) = {task[t].value} <=>
                             \A s \in Strings(type, task[t].value) :
                                 Loads(s) /\ s = Written(s.yaml)
    BY DEF TextKeepsValue
  <2>1. task[t].var \in 1..Len(object)
    BY DEF ChangeInv, Shapes
  <2> QED
    BY <2>1, TextOfValue DEF TypedInv, TypedTask, IsTyped
<1> QED
  BY <1>1, InitChange, StepChange, InitTyped, StepTyped, PTL DEF Spec

-----------------------------------------------------------------------------
(* Loads.                                                                  *)

DistinctVars ==
    /\ \A r, s \in registry : r.name = s.name \/ r.var = s.var => r = s
    /\ \A t \in Threads : task[t].at = "inserting" =>
          \A r \in registry : r.var # task[t].var
    /\ \A t, u \in Threads :
          /\ task[t].at = "inserting" /\ task[u].at = "inserting"
          /\ task[t].var = task[u].var
          => t = u

(* The kth is the last of the first i nodes that has a value for r.        *)
LastGiven(nodes, r, k, i) ==
    /\ k \in ValuesOf(r, nodes) /\ k <= i
    /\ \A j \in ValuesOf(r, nodes) : j <= i => j <= k

(* The first i nodes have taken effect.  Whoever is about to register a    *)
(* variable began before any of them was looked up.                        *)
Loaded(nodes, i) ==
    /\ \A r \in registry : r.name # <<>> =>
          \A k \in DOMAIN nodes : LastGiven(nodes, r, k, i) =>
              object[r.var].value
                  \in FromText(object[r.var].type, nodes[k].text)
    /\ ~undefined /\ (\E t \in Threads : task[t].at = "inserting") =>
          \A k \in 1..i : nodes[k].name = <<>>

LoadGoesOn(t, d) ==
    /\ solo = [by |-> t, doc |-> d, done |-> FALSE]
    /\ After(task[t]).at = "load"
    /\ \E i \in 0..Len(Docs[d]) :
          /\ After(task[t]).rest = SubSeq(Docs[d], i + 1, Len(Docs[d]))
          /\ Loaded(Docs[d], i)

LoadIsOver(t, d) ==
    /\ solo = [by |-> t, doc |-> d, done |-> TRUE]
    /\ After(task[t]).at # "load"
    /\ Loaded(Docs[d], Len(Docs[d]))

SoloInv ==
    \/ solo = NoLoad
    \/ \E t \in Threads, d \in DOMAIN Docs :
          LoadGoesOn(t, d) \/ LoadIsOver(t, d)

LoadInv == DistinctVars /\ SoloInv

(* Which registered variables there are and what they are stays.           *)
LEMMA LoadedKept ==
    ASSUME NEW nodes, NEW i, Loaded(nodes, i),
           registry' = registry, ~undefined' => ~undefined,
           \A r \in registry : object'[r.var] = object[r.var],
           \A u \in Threads :
              task'[u].at = "inserting" => task[u].at = "inserting"
    PROVE  Loaded(nodes, i)'
<1>1. \A r \in registry : ValuesOf(r, nodes)' = ValuesOf(r, nodes)
  BY DEF ValuesOf
<1>2. \A r \in registry : \A k :
         LastGiven(nodes, r, k, i)' <=> LastGiven(nodes, r, k, i)
  BY <1>1 DEF LastGiven
<1> QED
  BY <1>2 DEF Loaded

(* A step that neither stores nor registers anything, of a thread that     *)
(* does not load or goes on with its load as before.                       *)
LEMMA QuietLoad ==
    ASSUME ChangeInv, LoadInv, NEW t \in Threads, NEW s,
           task' = [task EXCEPT ![t] = s], s.at # "inserting",
           \/ After(s) = After(task[t])
           \/ After(s).at # "load" /\ After(task[t]).at # "load"
           \/ solo' = NoLoad
           \/ "by" \notin DOMAIN solo \/ solo.by # t,
           UNCHANGED <<registry, object>>, ~undefined,
           solo' = solo \/ solo' = NoLoad
    PROVE  LoadInv'
<1>1. /\ task'[t] = s /\ \A u \in Threads \ {t} : task'[u] = task[u]
  BY DEF ChangeInv, Shapes
<1>2. \A u \in Threads : task'[u].at = "inserting" =>
         task[u].at = "inserting" /\ task'[u].var = task[u].var
  BY <1>1
<1>3. DistinctVars'
  BY <1>2 DEF LoadInv, DistinctVars
<1>4. CASE solo' = NoLoad
  BY <1>3, <1>4 DEF LoadInv, SoloInv, NoLoad
<1>5. ASSUME solo' = solo, solo # NoLoad PROVE SoloInv'
  <2>1. PICK u \in Threads, d \in DOMAIN Docs :
           LoadGoesOn(u, d) \/ LoadIsOver(u, d)
    BY <1>5 DEF LoadInv, SoloInv
  <2>2. "by" \in DOMAIN solo /\ solo.by = u
    BY <2>1 DEF LoadGoesOn, LoadIsOver
  <2>3. \/ After(task'[u]) = After(task[u])
        \/ After(task'[u]).at # "load" /\ After(task[u]).at # "load"
    BY <1>1, <1>5, <2>2
  <2>4. \A i : Loaded(Docs[d], i) => Loaded(Docs[d], i)'
    BY <1>2, LoadedKept
  <2> QED
    BY <1>5, <2>1, <2>3, <2>4 DEF SoloInv, LoadGoesOn, LoadIsOver
<1> QED
  BY <1>3, <1>4, <1>5 DEF LoadInv

LEMMA LookLoad ==
    ASSUME LoadInv, UNCHANGED <<task, registry, object, solo>>,
           ~undefined' => ~undefined
    PROVE  LoadInv'
<1>1. \A nodes, i : Loaded(nodes, i) => Loaded(nodes, i)'
  BY LoadedKept
<1> QED
  BY <1>1 DEF LoadInv, DistinctVars, SoloInv, LoadGoesOn, LoadIsOver

(* Whatever is stored by a step that ends the last load.                   *)
LEMMA StoreLoad ==
    ASSUME ChangeInv, LoadInv, NEW t \in Threads, NEW s,
           task' = [task EXCEPT ![t] = s], s.at # "inserting",
           registry' = registry, solo' = NoLoad
    PROVE  LoadInv'
<1>1. /\ task'[t] = s /\ \A u \in Threads \ {t} : task'[u] = task[u]
  BY DEF ChangeInv, Shapes
<1>2. \A u \in Threads : task'[u].at = "inserting" =>
         task[u].at = "inserting" /\ task'[u].var = task[u].var
  BY <1>1
<1> QED
  BY <1>2 DEF LoadInv, DistinctVars, SoloInv, NoLoad

LEMMA FromStringStores ==
    ASSUME NEW t, NEW v, NEW text, NEW next, FromString(t, v, text, next),
           next.at # "inserting"
    PROVE  \E s : task' = [task EXCEPT ![t] = s] /\ s.at # "inserting"
<1>1. ASSUME NEW x, Store(t, v, x, next)
      PROVE  \E s : task' = [task EXCEPT ![t] = s] /\ s.at # "inserting"
  <2> DEFINE c == [at |-> "notify", var |-> v, next |-> next,
                   old |-> object[v].value, new |-> x]
  <2>1. c.at = "notify"
    OBVIOUS
  <2>2. task' = [task EXCEPT ![t] = IF x = object[v].value THEN next ELSE c]
    BY <1>1 DEF Store
  <2> HIDE DEF c
  <2> QED
    BY <2>1, <2>2
<1> QED
  BY <1>1 DEF FromString

LEMMA BeginInsertLoad ==
    ASSUME ChangeInv, LoadInv, NEW t \in Threads, BeginInsert(t)
    PROVE  LoadInv'
<1> DEFINE n == Len(object)
           s == [at |-> "inserting", what |-> task[t].what, var |-> n + 1]
<1>1. /\ task' = [task EXCEPT ![t] = s]
      /\ registry' = registry /\ solo' = NoLoad
  BY DEF BeginInsert
<1>2. s.at = "inserting" /\ s.var = n + 1
  OBVIOUS
<1>3. n \in Nat /\ n + 1 \notin 1..n
  BY DEF ChangeInv, Shapes, IsSequenceOf
<1> HIDE DEF s
<1>4. /\ task'[t] = s /\ \A u \in Threads \ {t} : task'[u] = task[u]
  BY <1>1 DEF ChangeInv, Shapes
<1>5. /\ \A r \in registry : r.var # n + 1
      /\ \A u \in Threads : task[u].at = "inserting" => task[u].var # n + 1
  BY <1>3 DEF ChangeInv, Shapes
<1> HIDE DEF n
<1>6. DistinctVars'
  <2>1. \A r, q \in registry' : r.name = q.name \/ r.var = q.var => r = q
    BY <1>1 DEF LoadInv, DistinctVars
  <2>2. \A u \in Threads : task'[u].at = "inserting" =>
           \A r \in registry' : r.var # task'[u].var
    BY <1>1, <1>2, <1>4, <1>5 DEF LoadInv, DistinctVars
  <2>3. \A u, w \in Threads :
           /\ task'[u].at = "inserting" /\ task'[w].at = "inserting"
           /\ task'[u].var = task'[w].var
           => u = w
    BY <1>2, <1>4, <1>5 DEF LoadInv, DistinctVars
  <2> QED
    BY <2>1, <2>2, <2>3 DEF DistinctVars
<1> QED
  BY <1>1, <1>6 DEF LoadInv, SoloInv, NoLoad

(* A variable registered during a load: the load has looked up none yet.   *)
LEMMA EndInsertLoad ==
    ASSUME ChangeInv, LoadInv, NEW t \in Threads, EndInsert(t)
    PROVE  LoadInv'
<1> DEFINE q == [name |-> task[t].what.name, var |-> task[t].var]
<1>1. /\ task[t].at = "inserting" /\ task' = [task EXCEPT ![t] = Idle]
      /\ registry' = (registry \ Found(q.name)) \cup {q}
      /\ UNCHANGED <<object, solo>> /\ ~undefined
      /\ q.var = task[t].var
  BY DEF EndInsert
<1> HIDE DEF q
<1>2. /\ task'[t] = Idle /\ \A u \in Threads \ {t} : task'[u] = task[u]
  BY <1>1 DEF ChangeInv, Shapes
<1>3. Idle.at = "idle"
  BY DEF Idle
<1>4. \A u \in Threads : task'[u].at = "inserting" =>
         u # t /\ task[u].at = "inserting" /\ task'[u].var = task[u].var
  BY <1>2, <1>3
<1>5. DistinctVars'
  <2>1. \A r \in registry' : r = q \/ (r \in registry /\ r.name # q.name)
    BY <1>1 DEF Found
  <2>2. \A r, s \in registry' : r.name = s.name \/ r.var = s.var => r = s
    BY <1>1, <2>1 DEF LoadInv, DistinctVars
  <2>3. \A u \in Threads : task'[u].at = "inserting" =>
           \A r \in registry' : r.var # task'[u].var
    BY <1>1, <1>4, <2>1 DEF LoadInv, DistinctVars
  <2>4. \A u, w \in Threads :
           /\ task'[u].at = "inserting" /\ task'[w].at = "inserting"
           /\ task'[u].var = task'[w].var
           => u = w
    BY <1>4 DEF LoadInv, DistinctVars
  <2> QED
    BY <2>2, <2>3, <2>4 DEF DistinctVars
<1>6. ASSUME NEW d \in DOMAIN Docs, NEW i \in 0..Len(Docs[d]),
             Loaded(Docs[d], i)
      PROVE  Loaded(Docs[d], i)'
  <2> DEFINE nodes == Docs[d]
  <2>1. \A k \in 1..i : nodes[k].name = <<>>
    BY <1>1, <1>6 DEF Loaded
  <2>2. ASSUME NEW r \in registry', r.name # <<>>, NEW k \in DOMAIN nodes,
               LastGiven(nodes, r, k, i)'
        PROVE  FALSE
    <3>1. k \in DOMAIN nodes /\ k <= i /\ nodes[k].name = r.name
      BY <2>2 DEF LastGiven, ValuesOf
    <3>2. k \in 1..i
      BY <3>1, DocsAreLists
    <3> QED
      BY <2>1, <2>2, <3>1, <3>2
  <2> QED
    BY <2>1, <2>2 DEF Loaded
<1>7. ASSUME NEW u \in Threads
      PROVE  \/ After(task'[u]) = After(task[u])
             \/ After(task'[u]).at # "load" /\ After(task[u]).at # "load"
  BY <1>1, <1>2, <1>3 DEF After
<1>8. SoloInv'
  <2>1. CASE solo = NoLoad
    BY <1>1, <2>1 DEF SoloInv, NoLoad
  <2>2. CASE solo # NoLoad
    <3>1. PICK u \in Threads, d \in DOMAIN Docs :
             LoadGoesOn(u, d) \/ LoadIsOver(u, d)
      BY <2>2 DEF LoadInv, SoloInv
    <3>2. Len(Docs[d]) \in 0..Len(Docs[d])
      BY DocsAreLists
    <3> QED
      BY <1>1, <1>6, <1>7, <3>1, <3>2 DEF SoloInv, LoadGoesOn, LoadIsOver
  <2> QED
    BY <2>1, <2>2
<1> QED
  BY <1>5, <1>8 DEF LoadInv

LEMMA LoadFileLoad ==
    ASSUME ChangeInv, LoadInv, NEW t \in Threads, NEW d \in DOMAIN Docs,
           LoadFile(t, d)
    PROVE  LoadInv'
<1> DEFINE n == Len(Docs[d])
           s == [at |-> "load", rest |-> Docs[d]]
<1>1. /\ task' = [task EXCEPT ![t] = s]
      /\ solo' = [by |-> t, doc |-> d, done |-> FALSE]
      /\ UNCHANGED <<registry, object>>
  BY DEF LoadFile
<1>2. s.at = "load" /\ s.rest = Docs[d]
  OBVIOUS
<1> HIDE DEF s
<1>3. /\ task'[t] = s /\ \A u \in Threads \ {t} : task'[u] = task[u]
  BY <1>1 DEF ChangeInv, Shapes
<1>4. \A u \in Threads : task'[u].at = "inserting" =>
         task[u].at = "inserting" /\ task'[u].var = task[u].var
  BY <1>2, <1>3
<1>5. DistinctVars'
  BY <1>1, <1>4 DEF LoadInv, DistinctVars
<1>6. Docs[d] \in Seq(Nodes) /\ n \in Nat /\ DOMAIN Docs[d] = 1..n
  BY DocsAreLists
<1>7. s.rest = SubSeq(Docs[d], 0 + 1, n)
  BY <1>2, <1>6
<1>8. Loaded(Docs[d], 0)'
  <2>1. \A r, k : ~LastGiven(Docs[d], r, k, 0)'
    BY <1>6 DEF LastGiven, ValuesOf
  <2> QED
    BY <2>1 DEF Loaded
<1>9. After(task'[t]) = s
  BY <1>2, <1>3 DEF After
<1>10. LoadGoesOn(t, d)'
  <2>1. 0 \in 0..n
    BY <1>6
  <2> QED
    BY <1>1, <1>2, <1>7, <1>8, <1>9, <2>1 DEF LoadGoesOn
<1> QED
  BY <1>5, <1>10 DEF LoadInv, SoloInv

LEMMA RestOf ==
    ASSUME NEW S, NEW s \in Seq(S), NEW i \in 0..Len(s),
           SubSeq(s, i + 1, Len(s)) # <<>>
    PROVE  /\ i + 1 \in 1..Len(s)
           /\ Head(SubSeq(s, i + 1, Len(s))) = s[i + 1]
           /\ Tail(SubSeq(s, i + 1, Len(s))) = SubSeq(s, (i + 1) + 1, Len(s))
<1> DEFINE n == Len(s)
           r == SubSeq(s, i + 1, n)
           q == SubSeq(s, (i + 1) + 1, n)
<1>1. n \in Nat /\ i \in Nat /\ i <= n
  OBVIOUS
<1>2. r = <<>> \/ i + 1 <= n
  BY <1>1
<1>3. i + 1 \in 1..n
  BY <1>1, <1>2
<1>4. /\ r \in Seq(S) /\ Len(r) = n - i
      /\ \A k \in 1..(n - i) : r[k] = s[i + k]
  BY <1>1, <1>3
<1>5. Head(r) = s[i + 1]
  BY <1>1, <1>3, <1>4
<1>6. /\ Tail(r) \in Seq(S) /\ Len(Tail(r)) = n - (i + 1)
      /\ \A k \in 1..(n - (i + 1)) : Tail(r)[k] = r[k + 1]
  BY <1>1, <1>3, <1>4, HeadTailProperties
<1>7. /\ q \in Seq(S) /\ Len(q) = n - (i + 1)
      /\ \A k \in 1..(n - (i + 1)) : q[k] = s[(i + 1) + k]
  BY <1>1, <1>3, SubSeqProperties
<1> HIDE DEF r, q, n
<1>8. ASSUME NEW k \in 1..(n - (i + 1)) PROVE Tail(r)[k] = q[k]
  <2>1. k + 1 \in 1..(n - i) /\ (i + 1) + k = i + (k + 1)
    BY <1>1, <1>3
  <2> QED
    BY <1>4, <1>6, <1>7, <2>1
<1>9. Tail(r) = q
  BY <1>6, <1>7, <1>8, SeqEqual
<1> QED
  BY <1>3, <1>5, <1>9 DEF r, q, n

(* A node takes effect: it is converted and stored in the variable of its  *)
(* name, or there is none, or it cannot be converted.                      *)
LEMMA NodeLoaded ==
    ASSUME ChangeInv, DistinctVars, NEW d \in DOMAIN Docs,
           NEW i \in 0..(Len(Docs[d]) - 1), Loaded(Docs[d], i),
           NEW next, NEW t \in Threads, ~undefined, registry' = registry,
           LET node == Docs[d][i + 1]
               found == IF node.name = <<>> THEN {} ELSE Found(node.name)
           IN /\ \/ \E r \in found : FromString(t, r.var, node.text, next)
                 \/ found = {} /\ UNCHANGED object
              /\ IF node.name = <<>> THEN NoAccess ELSE Access(t),
           \A u \in Threads : task'[u].at = "inserting" =>
              u # t /\ task[u].at = "inserting"
    PROVE  Loaded(Docs[d], i + 1)'
<1> DEFINE nodes == Docs[d]
           node == nodes[i + 1]
           Value(r) == FromText(object[r.var].type, node.text)
<1>1. /\ i \in Nat /\ DOMAIN nodes = 1..Len(nodes) /\ Len(nodes) \in Nat
      /\ i + 1 \in 1..Len(nodes)
  BY DocsAreLists
<1>2. /\ IsSequenceOf(object, Len(object))
      /\ \A v \in 1..Len(object) : IsObject(object[v])
      /\ \A r \in registry : r.var \in 1..Len(object)
  BY DEF ChangeInv, Shapes
<1>3. \/ /\ UNCHANGED object
         /\ \A r \in registry : r.name # <<>> /\ r.name = node.name =>
               Value(r) = {}
      \/ \E q \in registry : \E x \in Value(q) :
            /\ q.name = node.name
            /\ object' = [object EXCEPT ![q.var].value = x]
  <2>1. CASE node.name = <<>>
    BY <2>1
  <2>2. CASE node.name # <<>> /\ Found(node.name) = {} /\ UNCHANGED object
    BY <2>2 DEF Found
  <2>3. CASE /\ node.name # <<>>
             /\ \E q \in Found(node.name) : FromString(t, q.var, node.text, next)
    <3>1. PICK q \in Found(node.name) : FromString(t, q.var, node.text, next)
      BY <2>3
    <3>2. q \in registry /\ q.name = node.name
      BY <3>1 DEF Found
    <3>3. \A r \in registry : r.name = node.name => r = q
      BY <3>2 DEF DistinctVars
    <3>4. \/ \E x \in Value(q) : object' = [object EXCEPT ![q.var].value = x]
          \/ Value(q) = {} /\ UNCHANGED object
      BY <3>1 DEF FromString, Store
    <3> QED
      BY <3>2, <3>3, <3>4
  <2> QED
    BY <2>1, <2>2, <2>3
<1> HIDE DEF Value
<1>4. ASSUME NEW r \in registry
      PROVE  /\ object'[r.var].type = object[r.var].type
             /\ object'[r.var].value = object[r.var].value
                \/ (r.name = node.name /\ object'[r.var].value \in Value(r))
  <2>1. CASE UNCHANGED object
    BY <2>1
  <2>2. ASSUME NEW q \in registry, NEW x \in Value(q), q.name = node.name,
               object' = [object EXCEPT ![q.var].value = x]
        PROVE  /\ object'[r.var].type = object[r.var].type
               /\ object'[r.var].value = object[r.var].value
                  \/ (r.name = node.name /\ object'[r.var].value \in Value(r))
    <3>1. CASE r.var = q.var
      <4>1. r = q
        BY <3>1 DEF DistinctVars
      <4>2. object'[r.var] = [object[r.var] EXCEPT !.value = x]
        BY <1>2, <2>2, <4>1 DEF IsSequenceOf
      <4>3. object'[r.var].type = object[r.var].type /\ object'[r.var].value = x
        BY <1>2, <4>2 DEF IsObject
      <4> QED
        BY <2>2, <4>1, <4>3
    <3>2. CASE r.var # q.var
      BY <1>2, <2>2, <3>2 DEF IsSequenceOf
    <3> QED
      BY <3>1, <3>2
  <2> QED
    BY <1>3, <2>1, <2>2
<1>5. \A r \in registry : ValuesOf(r, nodes)' = ValuesOf(r, nodes)
  BY <1>4 DEF ValuesOf
<1>6. ASSUME NEW r \in registry, r.name # <<>>, NEW k \in DOMAIN nodes,
             LastGiven(nodes, r, k, i + 1)'
      PROVE  object'[r.var].value \in FromText(object[r.var].type, nodes[k].text)
  <2>1. /\ k \in ValuesOf(r, nodes) /\ k <= i + 1
        /\ \A j \in ValuesOf(r, nodes) : j <= i + 1 => j <= k
    BY <1>5, <1>6 DEF LastGiven
  <2>2. CASE i + 1 \in ValuesOf(r, nodes)
    <3>1. k = i + 1
      BY <1>1, <2>1, <2>2
    <3>2. node.name = r.name /\ Value(r) # {}
      BY <2>2 DEF ValuesOf, Value
    <3>3. PICK q \in registry : \E x \in Value(q) :
             /\ q.name = node.name
             /\ object' = [object EXCEPT ![q.var].value = x]
      BY <1>3, <1>6, <3>2
    <3>x. PICK x \in Value(q) :
             object' = [object EXCEPT ![q.var].value = x]
      BY <3>3
    <3>4. r = q
      BY <3>2, <3>3 DEF DistinctVars
    <3>5. object'[r.var].value = x
      BY <1>2, <3>x, <3>4 DEF IsSequenceOf, IsObject
    <3> QED
      BY <3>1, <3>x, <3>4, <3>5 DEF Value
  <2>3. CASE i + 1 \notin ValuesOf(r, nodes)
    <3>1. k <= i
      BY <1>1, <2>1, <2>3
    <3>2. LastGiven(nodes, r, k, i)
      <4>1. \A j \in ValuesOf(r, nodes) : j \in Nat
        BY <1>1 DEF ValuesOf
      <4>2. \A j \in ValuesOf(r, nodes) : j <= i => j <= k
        BY <1>1, <2>1, <4>1
      <4> QED
        BY <2>1, <3>1, <4>2 DEF LastGiven
    <3>3. object[r.var].value \in FromText(object[r.var].type, nodes[k].text)
      BY <1>6, <3>2 DEF Loaded
    <3>4. ~(r.name = node.name /\ object'[r.var].value \in Value(r))
      BY <1>1, <2>3 DEF ValuesOf, Value
    <3> QED
      BY <1>4, <3>3, <3>4
  <2> QED
    BY <2>2, <2>3
<1>7. ASSUME ~undefined', NEW u \in Threads, task'[u].at = "inserting",
             NEW k \in 1..(i + 1)
      PROVE  nodes[k].name = <<>>
  <2>1. node.name = <<>>
    BY <1>7 DEF Access
  <2>2. \A j \in 1..i : nodes[j].name = <<>>
    BY <1>7 DEF Loaded
  <2>3. k \in 1..i \/ k = i + 1
    BY <1>1
  <2> QED
    BY <2>1, <2>2, <2>3
<1>8. ASSUME NEW r \in registry'
      PROVE  object'[r.var].type = object[r.var].type /\ r \in registry
  BY <1>4
<1> HIDE DEF node
<1> QED
  BY <1>6, <1>7, <1>8 DEF Loaded

LEMMA LoadNodeLoad ==
    ASSUME ChangeInv, LoadInv, NEW t \in Threads, LoadNode(t)
    PROVE  LoadInv'
<1> DEFINE rest == task[t].rest
           node == Head(rest)
           next == [at |-> "load", rest |-> Tail(rest)]
           found == IF node.name = <<>> THEN {} ELSE Found(node.name)
<1>1. /\ task[t].at = "load" /\ rest # <<>> /\ ~undefined
      /\ \/ \E r \in found : FromString(t, r.var, node.text, next)
         \/ found = {} /\ task' = [task EXCEPT ![t] = next] /\ UNCHANGED object
      /\ IF node.name = <<>> THEN NoAccess ELSE Access(t)
      /\ solo' = IF "by" \in DOMAIN solo /\ solo.by = t THEN solo ELSE NoLoad
      /\ registry' = registry
  BY DEF LoadNode, Remaining
<1>2. next.at = "load" /\ next.rest = Tail(rest)
  OBVIOUS
<1> HIDE DEF next
<1>3. \E s : /\ task' = [task EXCEPT ![t] = s]
             /\ s.at # "inserting" /\ After(s) = next
  <2>1. ASSUME NEW v, NEW x, Store(t, v, x, next)
        PROVE  \E s : /\ task' = [task EXCEPT ![t] = s]
                      /\ s.at # "inserting" /\ After(s) = next
    <3> DEFINE c == [at |-> "notify", var |-> v, next |-> next,
                     old |-> object[v].value, new |-> x]
    <3>1. c.at = "notify" /\ After(c) = next /\ After(next) = next
      BY <1>2 DEF After
    <3>2. task' = [task EXCEPT ![t] = IF x = object[v].value THEN next ELSE c]
      BY <2>1 DEF Store
    <3> HIDE DEF c
    <3> QED
      BY <1>2, <3>1, <3>2
  <2>2. After(next) = next
    BY <1>2 DEF After
  <2>3. \/ \E v, x : Store(t, v, x, next)
        \/ task' = [task EXCEPT ![t] = next]
    BY <1>1 DEF FromString
  <2> QED
    BY <1>2, <2>1, <2>2, <2>3
<1>4. PICK s : /\ task' = [task EXCEPT ![t] = s]
               /\ s.at # "inserting" /\ After(s) = next
  BY <1>3
<1>5. CASE ~("by" \in DOMAIN solo /\ solo.by = t)
  BY <1>1, <1>4, <1>5, StoreLoad
<1>6. CASE "by" \in DOMAIN solo /\ solo.by = t
  <2>1. solo # NoLoad /\ solo' = solo
    BY <1>1, <1>6 DEF NoLoad
  <2>2. PICK u \in Threads, d \in DOMAIN Docs :
           LoadGoesOn(u, d) \/ LoadIsOver(u, d)
    BY <2>1 DEF LoadInv, SoloInv
  <2>3. u = t
    BY <1>6, <2>2 DEF LoadGoesOn, LoadIsOver
  <2>4. After(task[t]) = task[t]
    BY <1>1 DEF After
  <2>5. LoadGoesOn(t, d)
    BY <1>1, <2>2, <2>3, <2>4 DEF LoadIsOver
  <2> DEFINE n == Len(Docs[d])
  <2>6. PICK i \in 0..n :
           rest = SubSeq(Docs[d], i + 1, n) /\ Loaded(Docs[d], i)
    BY <2>4, <2>5 DEF LoadGoesOn
  <2>7. Docs[d] \in Seq(Nodes) /\ n \in Nat
    BY DocsAreLists
  <2>8. /\ i + 1 \in 1..n /\ i \in 0..(n - 1)
        /\ node = Docs[d][i + 1]
        /\ Tail(rest) = SubSeq(Docs[d], (i + 1) + 1, n)
    BY <1>1, <2>6, <2>7, RestOf
  <2>9. /\ task'[t] = s /\ \A w \in Threads \ {t} : task'[w] = task[w]
    BY <1>4 DEF ChangeInv, Shapes
  <2>10. \A w \in Threads : task'[w].at = "inserting" =>
            /\ w # t /\ task[w].at = "inserting"
            /\ task'[w].var = task[w].var
    BY <1>4, <2>9
  <2>11. DistinctVars'
    BY <1>1, <2>10 DEF LoadInv, DistinctVars
  <2>12. Loaded(Docs[d], i + 1)'
    <3>1. \/ \E r \in found : FromString(t, r.var, node.text, next)
          \/ found = {} /\ UNCHANGED object
      BY <1>1
    <3> HIDE DEF node
    <3> QED
      BY <1>1, <2>6, <2>8, <2>10, <3>1, NodeLoaded DEF LoadInv
  <2>13. After(task'[t]) = next
    BY <1>4, <2>9
  <2>14. LoadGoesOn(t, d)'
    <3>1. solo' = [by |-> t, doc |-> d, done |-> FALSE]
      BY <2>1, <2>5 DEF LoadGoesOn
    <3>2. i + 1 \in 0..n
      BY <2>7, <2>8
    <3> QED
      BY <1>2, <2>8, <2>12, <2>13, <3>1, <3>2 DEF LoadGoesOn
  <2> QED
    BY <2>11, <2>14 DEF LoadInv, SoloInv
<1> QED
  BY <1>5, <1>6

LEMMA GreatestIsMax ==
    ASSUME NEW n \in Nat, NEW T, T \subseteq 1..n, T # {}
    PROVE  Max(T) \in T /\ \A j \in T : j <= Max(T)
<1> DEFINE D == {n - j : j \in T}
<1>1. D \subseteq Nat /\ D # {}
  OBVIOUS
<1>2. PICK m \in D : \A j \in D : m <= j
  <2> HIDE DEF D
  <2> QED
    BY <1>1, LeastNatural
<1>3. PICK x \in T : m = n - x
  BY <1>2
<1>4. \A j \in T : n - j \in D /\ j \in Int
  OBVIOUS
<1>5. \A j \in T : x >= j
  BY <1>2, <1>3, <1>4
<1>6. Max(T) \in T /\ \A j \in T : Max(T) >= j
  BY <1>5 DEF Max
<1> QED
  BY <1>4, <1>6

LEMMA DoneSet ==
    ASSUME NEW r, NEW t, NEW d, r = [by |-> t, doc |-> d, done |-> FALSE],
           NEW s, s = [r EXCEPT !.done = TRUE]
    PROVE  s = [by |-> t, doc |-> d, done |-> TRUE]
<1>1. PICK a : a = FALSE
  OBVIOUS
<1>2. PICK b : b = TRUE
  OBVIOUS
<1>3. s = [r EXCEPT !.done = b] /\ r = [by |-> t, doc |-> d, done |-> a]
  BY <1>1, <1>2, Zenon
<1>4. [r EXCEPT !.done = b] = [by |-> t, doc |-> d, done |-> b]
  BY <1>3
<1> QED
  BY <1>2, <1>3, <1>4, Zenon

LEMMA LoadEndsLoad ==
    ASSUME ChangeInv, LoadInv, NEW t \in Threads, LoadEnds(t)
    PROVE  LoadInv'
<1>1. /\ task[t].at = "load" /\ task[t].rest = <<>> /\ ~undefined
      /\ task' = [task EXCEPT ![t] = Idle]
      /\ solo' = IF "by" \in DOMAIN solo /\ solo.by = t
                 THEN [solo EXCEPT !.done = TRUE] ELSE solo
      /\ UNCHANGED <<registry, object>>
  BY DEF LoadEnds
<1>2. Idle.at = "idle" /\ After(Idle) = Idle
  BY DEF Idle, After
<1>3. CASE ~("by" \in DOMAIN solo /\ solo.by = t)
  BY <1>1, <1>2, <1>3, QuietLoad
<1>4. CASE "by" \in DOMAIN solo /\ solo.by = t
  <2>1. solo # NoLoad
    BY <1>4 DEF NoLoad
  <2>2. PICK u \in Threads, d \in DOMAIN Docs :
           LoadGoesOn(u, d) \/ LoadIsOver(u, d)
    BY <2>1 DEF LoadInv, SoloInv
  <2>3. After(task[t]) = task[t]
    BY <1>1 DEF After
  <2>4. u = t
    BY <1>4, <2>2 DEF LoadGoesOn, LoadIsOver
  <2>5. LoadGoesOn(t, d)
    BY <1>1, <2>2, <2>3, <2>4 DEF LoadIsOver
  <2> DEFINE n == Len(Docs[d])
  <2>6. PICK i \in 0..n :
           task[t].rest = SubSeq(Docs[d], i + 1, n) /\ Loaded(Docs[d], i)
    BY <2>3, <2>5 DEF LoadGoesOn
  <2>7. i = n
    <3>1. Docs[d] \in Seq(Nodes) /\ n \in Nat
      BY DocsAreLists
    <3>2. i < n => Len(SubSeq(Docs[d], i + 1, n)) = n - i
      BY <3>1
    <3>3. SubSeq(Docs[d], i + 1, n) = <<>>
      BY <1>1, <2>6
    <3>4. i < n => Len(<<>>) = n - i
      BY <3>2, <3>3
    <3> HIDE DEF n
    <3> QED
      BY <2>6, <3>1, <3>4
  <2>8. /\ task'[t] = Idle /\ \A w \in Threads \ {t} : task'[w] = task[w]
    BY <1>1 DEF ChangeInv, Shapes
  <2>9. \A w \in Threads : task'[w].at = "inserting" =>
           task[w].at = "inserting" /\ task'[w].var = task[w].var
    BY <1>2, <2>8
  <2>10. DistinctVars'
    BY <1>1, <2>9 DEF LoadInv, DistinctVars
  <2>11. Loaded(Docs[d], n)'
    BY <1>1, <2>6, <2>7, <2>9, LoadedKept
  <2>12. solo' = [by |-> t, doc |-> d, done |-> TRUE]
    <3>1. solo = [by |-> t, doc |-> d, done |-> FALSE]
      BY <2>5 DEF LoadGoesOn
    <3>2. solo' = [solo EXCEPT !.done = TRUE]
      BY <1>1, <1>4
    <3> QED
      BY <3>1, <3>2, DoneSet
  <2>13. After(task'[t]).at # "load"
    BY <1>2, <2>8
  <2>14. LoadIsOver(t, d)'
    BY <2>11, <2>12, <2>13 DEF LoadIsOver
  <2> QED
    BY <2>10, <2>14 DEF LoadInv, SoloInv
<1> QED
  BY <1>3, <1>4

LEMMA InitLoad == Init => LoadInv
<1> SUFFICES ASSUME Init PROVE LoadInv
  OBVIOUS
<1> DEFINE n == Len(Declared)
<1>1. n \in Nat /\ DOMAIN Declared = 1..n
  BY DeclaredAssumption DEF IsList
<1>2. /\ registry = {[name |-> Declared[v].name, var |-> v] : v \in 1..n}
      /\ task = [t \in Threads |-> Idle] /\ solo = NoLoad
  BY <1>1 DEF Init
<1>3. ASSUME NEW r \in registry, NEW s \in registry,
             r.name = s.name \/ r.var = s.var
      PROVE  r = s
  <2>1. PICK v \in 1..n : r = [name |-> Declared[v].name, var |-> v]
    BY <1>2
  <2>2. PICK w \in 1..n : s = [name |-> Declared[w].name, var |-> w]
    BY <1>2
  <2>3. v = w
    BY <1>1, <1>3, <2>1, <2>2, DeclaredAssumption
  <2> QED
    BY <2>1, <2>2, <2>3
<1>4. \A t \in Threads : task[t].at = "idle"
  BY <1>2 DEF Idle
<1> QED
  BY <1>2, <1>3, <1>4 DEF LoadInv, DistinctVars, SoloInv

LEMMA StepLoad == ChangeInv /\ LoadInv /\ [Next]_vars => LoadInv'
<1> SUFFICES ASSUME ChangeInv, LoadInv, [Next]_vars PROVE LoadInv'
  OBVIOUS
<1>0. Idle.at = "idle" /\ After(Idle) = Idle
  BY DEF Idle, After
<1>1. ASSUME NEW t \in Threads, NEW w \in Wanted, lookup(t, w)
      PROVE  LoadInv'
  BY <1>1, LookLoad DEF lookup, Call
<1>2. ASSUME NEW t \in Threads, NEW w \in Wanted, lookupMissed(t, w)
      PROVE  LoadInv'
  <2> DEFINE s == [at |-> "again", what |-> w]
  <2>1. /\ task' = [task EXCEPT ![t] = s] /\ task[t].at = "idle"
        /\ UNCHANGED <<registry, object, solo>> /\ ~undefined
    BY <1>2 DEF lookupMissed, Call
  <2>2. s.at = "again" /\ After(s).at # "load" /\ After(task[t]).at # "load"
    BY <2>1 DEF After
  <2> HIDE DEF s
  <2> QED
    BY <2>1, <2>2, QuietLoad
<1>3. ASSUME NEW t \in Threads, lookupAgain(t) PROVE LoadInv'
  <2>1. /\ task[t].at = "again" /\ ~undefined
        /\ UNCHANGED <<registry, object, solo>>
    BY <1>3 DEF lookupAgain
  <2>2. After(task[t]).at # "load"
    BY <2>1 DEF After
  <2>3. CASE Known(task[t].what.name)
    BY <1>0, <1>3, <2>1, <2>2, <2>3, QuietLoad DEF lookupAgain
  <2>4. CASE ~Known(task[t].what.name)
    <3> DEFINE s == [at |-> "insert", what |-> task[t].what]
    <3>1. task' = [task EXCEPT ![t] = s]
      BY <1>3, <2>4 DEF lookupAgain
    <3>2. s.at = "insert" /\ After(s).at # "load"
      BY DEF After
    <3> HIDE DEF s
    <3> QED
      BY <2>1, <2>2, <3>1, <3>2, QuietLoad
  <2> QED
    BY <2>3, <2>4
<1>4. ASSUME NEW t \in Threads, BeginInsert(t) PROVE LoadInv'
  BY <1>4, BeginInsertLoad
<1>5. ASSUME NEW t \in Threads, EndInsert(t) PROVE LoadInv'
  BY <1>5, EndInsertLoad
<1>6. ASSUME NEW t \in Threads, NEW h \in handles, toString(t, h.var)
      PROVE  LoadInv'
  <2> DEFINE o == object[h.var]
             s == [at |-> "text", var |-> h.var, value |-> o.value,
                   text |-> ToText(o.type, o.value)]
  <2>1. /\ task' = [task EXCEPT ![t] = s] /\ task[t].at = "idle"
        /\ UNCHANGED <<registry, object, solo>> /\ ~undefined
    BY <1>6 DEF toString, Call
  <2>2. s.at = "text" /\ After(s).at # "load" /\ After(task[t]).at # "load"
    BY <2>1 DEF After
  <2> HIDE DEF s
  <2> QED
    BY <2>1, <2>2, QuietLoad
<1>7. ASSUME NEW t \in Threads, NEW v, NEW x, setValue(t, v, x)
      PROVE  LoadInv'
  <2> DEFINE c == [at |-> "notify", var |-> v, next |-> Idle,
                   old |-> object[v].value, new |-> x]
  <2>1. /\ task' = [task EXCEPT
                       ![t] = IF x = object[v].value THEN Idle ELSE c]
        /\ registry' = registry /\ solo' = NoLoad
    BY <1>7 DEF setValue, Store
  <2>2. c.at = "notify"
    OBVIOUS
  <2> HIDE DEF c
  <2> QED
    BY <1>0, <2>1, <2>2, StoreLoad
<1>8. ASSUME NEW t \in Threads, Notify(t) PROVE LoadInv'
  <2>1. /\ task[t].at = "notify" /\ task' = [task EXCEPT ![t] = task[t].next]
        /\ UNCHANGED <<registry, object, solo>> /\ ~undefined
    BY <1>8 DEF Notify
  <2>2. task[t].next.at \in {"idle", "load"}
    BY <2>1 DEF ChangeInv, GoesOn
  <2>3. After(task[t].next) = After(task[t])
    BY <2>1, <2>2 DEF After
  <2> QED
    BY <2>1, <2>2, <2>3, QuietLoad
<1>9. ASSUME NEW t \in Threads, fromString(t) PROVE LoadInv'
  <2>1. /\ FromString(t, task[t].var, task[t].text, Idle)
        /\ registry' = registry /\ solo' = NoLoad
    BY <1>9 DEF fromString
  <2>2. \E s : task' = [task EXCEPT ![t] = s] /\ s.at # "inserting"
    BY <1>0, <2>1, FromStringStores
  <2> QED
    BY <2>1, <2>2, StoreLoad
<1>10. ASSUME NEW t \in Threads, NEW d \in DOMAIN Docs, LoadFile(t, d)
       PROVE  LoadInv'
  BY <1>10, LoadFileLoad
<1>11. ASSUME NEW t \in Threads, LoadNode(t) PROVE LoadInv'
  BY <1>11, LoadNodeLoad
<1>12. ASSUME NEW t \in Threads, LoadEnds(t) PROVE LoadInv'
  BY <1>12, LoadEndsLoad
<1>13. CASE Over \/ UNCHANGED vars
  BY <1>13, LookLoad DEF Over, vars, historyVars
<1> QED
  BY <1>1, <1>2, <1>3, <1>4, <1>5, <1>6, <1>7, <1>8, <1>9, <1>10, <1>11,
     <1>12, <1>13
  DEF Next

(* The file has taken effect when a load is over and nobody has interfered *)
(* before or since, whatever nodes could not be converted and whoever had  *)
(* begun to register a variable.                                           *)
THEOREM LoadsTakeEffect == Spec => []LoadTakesEffect
<1>1. LoadInv => LoadTakesEffect
  <2> SUFFICES ASSUME LoadInv, solo.done, NEW r \in registry,
                      ValuesOf(r, Docs[solo.doc]) # {}, r.name # <<>>
               PROVE  LET last == Max(ValuesOf(r, Docs[solo.doc]))
                      IN  object[r.var].value \in
                              FromText(object[r.var].type,
                                       Docs[solo.doc][last].text)
    BY DEF LoadTakesEffect
  <2>1. solo # NoLoad
    BY DEF NoLoad
  <2>2. PICK t \in Threads, d \in DOMAIN Docs : LoadIsOver(t, d)
    BY <2>1 DEF LoadInv, SoloInv, LoadGoesOn
  <2> DEFINE nodes == Docs[d]
             at == ValuesOf(r, nodes)
             n == Len(nodes)
  <2>3. solo.doc = d /\ Loaded(nodes, n)
    BY <2>2 DEF LoadIsOver
  <2>4. n \in Nat /\ DOMAIN nodes = 1..n /\ at \subseteq 1..n
    BY DocsAreLists DEF ValuesOf
  <2>5. at # {}
    BY <2>3
  <2> HIDE DEF at, n
  <2>6. Max(at) \in at /\ \A j \in at : j <= Max(at)
    BY <2>4, <2>5, GreatestIsMax
  <2>7. LastGiven(nodes, r, Max(at), n)
    BY <2>4, <2>6 DEF LastGiven, at
  <2> QED
    BY <2>3, <2>4, <2>6, <2>7 DEF Loaded, at
<1> QED
  BY <1>1, InitChange, StepChange, InitLoad, StepLoad, PTL DEF Spec
=============================================================================
