------------------------------ MODULE Config ------------------------------
(***************************************************************************)
(* Configuration (config/config.h, config/config.cpp): the registry of     *)
(* ConfigVars, which threads look up, create and set, directly, from a     *)
(* text or from a YAML file, and the callbacks that announce changes.      *)
(*                                                                         *)
(* The registry has no lock.  Insertion into the map is therefore two      *)
(* steps, and an access of another thread in between is a data race:       *)
(* `undefined'.  A ConfigVar has one: the comparison and the assignment of *)
(* setValue() are one step, the callback after the unlock another.         *)
(*                                                                         *)
(* A name is the sequence of its parts between the dots.  A text is the    *)
(* YAML node it stands for: a record with a number, items, pairs of key    *)
(* and node, or none of them (null, or a scalar that is no number).  A     *)
(* file is the list of its nodes that listAllNodes() makes (ConfigNodes).  *)
(*                                                                         *)
(* A variable is an int, or a vector, set or map of ints or of strings.    *)
(* A string is a pair: the YAML node it loads as, and how it spells it;    *)
(* Written is the way YAML's << does.  Other scalar types, containers of   *)
(* containers and unordered_map of strings are left out.                   *)
(*                                                                         *)
(* Some operators stand for slips one could make in this code and are used *)
(* nowhere in the specification (PROJECT.json, "mutants"): OldAsRead,      *)
(* NeverKnown, StopsHere, ButFirst.                                        *)
(***************************************************************************)
EXTENDS Integers, Sequences, FiniteSets, FiniteSetsExt, SequencesExt

CONSTANTS
    Threads,
    Declared,   \* the ConfigVars of static initialisation
    Wanted,     \* names and types given to lookup(), with a default value
    Docs,       \* YAML files, as lists of nodes
    Settings,   \* for each type, the values given to setValue()
    MaxCalls    \* bound on the calls

ASSUME ThreadsAssumption == IsFiniteSet(Threads)

IsList(s) == Len(s) \in Nat /\ s = [k \in 1..Len(s) |-> s[k]]

(* The types.                                                              *)
Scalar == [of |-> "scalar", elem |-> "int"]
Containers == [of : {"vector", "set", "map"}, elem : {"int", "string"}]
Types == {Scalar} \cup Containers

IsNumber(node) == "number" \in DOMAIN node
IsItem(node) == IsNumber(node) => node.number \in Int

IsString(s) == s = [yaml |-> s.yaml, spelling |-> s.spelling] /\ IsItem(s.yaml)
IsElement(elem, x) == IF elem = "string" THEN IsString(x) ELSE x \in Int

(* A value of the C++ type.                                                *)
IsValue(type, value) ==
    CASE type.of = "scalar" -> value \in Int
      [] type.of = "vector" -> /\ IsList(value)
                               /\ \A k \in 1..Len(value) :
                                     IsElement(type.elem, value[k])
      [] type.of = "set"    -> /\ IsFiniteSet(value)
                               /\ \A x \in value : IsElement(type.elem, x)
      [] type.of = "map"    -> /\ IsFiniteSet(DOMAIN value)
                               /\ value = [key \in DOMAIN value |-> value[key]]
                               /\ \A key \in DOMAIN value :
                                     IsElement(type.elem, value[key])

IsTyped(v) == v.type \in Types /\ IsValue(v.type, v.value)

(* A name looked up in static initialisation is declared there once.       *)
ASSUME DeclaredAssumption ==
    /\ IsList(Declared)
    /\ \A v, w \in DOMAIN Declared :
          Declared[v].name = Declared[w].name => v = w
    /\ \A v \in DOMAIN Declared : IsTyped(Declared[v])

ASSUME ValuesAssumption ==
    /\ \A w \in Wanted : IsTyped(w)
    /\ \A type \in Types : \A x \in Settings[type] : IsValue(type, x)

IsSequence(node) == "items" \in DOMAIN node
IsMap(node) == "pairs" \in DOMAIN node

IsNode(node) ==
    /\ IsItem(node)
    /\ IsSequence(node) =>
          /\ IsList(node.items)
          /\ \A k \in DOMAIN node.items : IsItem(node.items[k])
    /\ IsMap(node) =>
          /\ IsList(node.pairs)
          /\ \A k \in DOMAIN node.pairs : IsItem(node.pairs[k].node)

ASSUME DocsAssumption ==
    \A d \in DOMAIN Docs :
        /\ IsList(Docs[d])
        /\ \A k \in DOMAIN Docs[d] : IsNode(Docs[d][k].text)

VARIABLES
    registry,   \* getConfigVars(): the object of each name
    object,     \* the ConfigVars, in the order of their construction
    task,       \* what each thread is doing
    calls,      \* history: how many calls there were
    handles,    \* history: what lookups returned
    events,     \* history: the changes each object's callback was told
    solo,       \* history: the last load, while nobody else interferes
    overlapped, \* history: a creation had company in the registry
    undefined   \* a data race on the map

historyVars == <<calls, handles, events, solo, overlapped>>
vars == <<registry, object, task, historyVars, undefined>>

Idle == [at |-> "idle"]
NoLoad == [done |-> FALSE]

Init ==
    /\ object = [v \in DOMAIN Declared |->
                    [type |-> Declared[v].type, value |-> Declared[v].value,
                     first |-> Declared[v].value]]
    /\ registry = {[name |-> Declared[v].name, var |-> v] :
                      v \in DOMAIN Declared}
    /\ task = [t \in Threads |-> Idle]
    /\ calls = 0
    /\ handles = registry
    /\ events = [v \in DOMAIN Declared |-> <<>>]
    /\ solo = NoLoad
    /\ overlapped = FALSE
    /\ undefined = FALSE

-----------------------------------------------------------------------------
(* Conversions.  FromText(type, node) is the set of the value, or empty    *)
(* when the conversion throws.                                             *)

Number(n) == [number |-> n]
Null == [null |-> TRUE]

(* How << writes a node: a string that loads as this node again.           *)
Written(node) == [yaml |-> node, spelling |-> "yaml"]
Empty == [yaml |-> Null, spelling |-> "empty"]

(* YAML::Load(s) gives a node, or throws.                                  *)
Loads(s) == "error" \notin DOMAIN s.yaml

(* An element of what << writes of its node: boost::lexical_cast<int> of   *)
(* it, or itself.                                                          *)
Converts(elem, node) == elem = "string" \/ IsNumber(node)
Element(elem, node) == IF elem = "string" THEN Written(node) ELSE node.number
AllConvert(elem, nodes) == \A k \in DOMAIN nodes : Converts(elem, nodes[k])

(* The node an element loads as: its text is itself if it is a string.     *)
NodeOf(elem, x) == IF elem = "string" THEN x.yaml ELSE Number(x)

TextInt(node) == IF IsNumber(node) THEN {node.number} ELSE {}

(* The loops over node[i].                                                 *)
ButFirst(elem, items) ==
    [k \in 1..(Len(items) - 1) |-> Element(elem, items[k + 1])]
Elements(elem, items) == [k \in 1..Len(items) |-> Element(elem, items[k])]

(* A node that is not a sequence has no elements to be read by index, so   *)
(* that a scalar or null makes an empty container.  A map has as many as   *)
(* it has pairs; none of them is found by its index, as no key here is a   *)
(* number, and << writes nothing of what is not there.                     *)
TextVector(elem, node) ==
    IF IsSequence(node)
    THEN IF AllConvert(elem, node.items)
         THEN {Elements(elem, node.items)}
         ELSE {}
    ELSE IF IsMap(node) /\ node.pairs # <<>>
    THEN IF elem = "string" THEN {[k \in 1..Len(node.pairs) |-> Empty]} ELSE {}
    ELSE {<<>>}

VectorText(elem, vec) == [items |-> [k \in DOMAIN vec |-> NodeOf(elem, vec[k])]]

(* The order in which a set is written is lost when it is read.            *)
TextSet(elem, node) == {Range(elements) : elements \in TextVector(elem, node)}
SetText(elem, st) == VectorText(elem, SetToSeq(st))

(* A map is read by iteration, which the keys of a sequence do not         *)
(* survive; of two pairs with one key the first stays.                     *)
TextMap(elem, node) ==
    IF IsMap(node)
    THEN LET keys == {node.pairs[k].key : k \in DOMAIN node.pairs}
             At(key) == CHOOSE k \in DOMAIN node.pairs :
                           /\ node.pairs[k].key = key
                           /\ \A j \in 1..(k - 1) : node.pairs[j].key # key
         IN IF \A k \in DOMAIN node.pairs : Converts(elem, node.pairs[k].node)
            THEN {[key \in keys |-> Element(elem, node.pairs[At(key)].node)]}
            ELSE {}
    ELSE IF IsSequence(node) /\ node.items # <<>>
    THEN {}
    ELSE {[key \in {} |-> 0]}

(* An empty map has no pair to make the node a map: it stays null.         *)
MapText(elem, mp) ==
    IF DOMAIN mp = {}
    THEN Null
    ELSE LET keys == SetToSeq(DOMAIN mp)
         IN [pairs |-> [k \in DOMAIN keys |->
                           [key |-> keys[k],
                            node |-> NodeOf(elem, mp[keys[k]])]]]

FromText(type, node) ==
    CASE type.of = "scalar" -> TextInt(node)
      [] type.of = "vector" -> TextVector(type.elem, node)
      [] type.of = "set"    -> TextSet(type.elem, node)
      [] type.of = "map"    -> TextMap(type.elem, node)

(* The strings in a value.                                                 *)
Strings(type, value) ==
    IF type.elem # "string" THEN {}
    ELSE IF type.of = "set" THEN value ELSE Range(value)

(* An exception of the conversion makes the text empty, which is null.     *)
ToText(type, value) ==
    IF \E s \in Strings(type, value) : ~Loads(s)
    THEN Null
    ELSE CASE type.of = "scalar" -> Number(value)
           [] type.of = "vector" -> VectorText(type.elem, value)
           [] type.of = "set"    -> SetText(type.elem, value)
           [] type.of = "map"    -> MapText(type.elem, value)

-----------------------------------------------------------------------------
(* Accesses to the registry.                                               *)

Creating(t) == task[t].at \in {"again", "insert", "inserting"}

(* Thread t looks into the map.                                            *)
Access(t) ==
    /\ undefined' = \E u \in Threads \ {t} : task[u].at = "inserting"
    /\ overlapped' = (overlapped \/ \E u \in Threads \ {t} : Creating(u))

NoAccess == UNCHANGED <<undefined, overlapped>>

Found(name) == {r \in registry : r.name = name}

NeverKnown(name) == FALSE
Known(name) == Found(name) # {}
FoundAs(name, type) == {r \in Found(name) : object[r.var].type = type}

Call(t) ==
    /\ ~undefined
    /\ task[t].at = "idle"
    /\ calls < MaxCalls
    /\ calls' = calls + 1

(* lookup(name), and lookup(name, val) when it finds the name and type.    *)
lookup(t, w) ==
    /\ Call(t)
    /\ FoundAs(w.name, w.type) # {}
    /\ handles' = handles \cup FoundAs(w.name, w.type)
    /\ Access(t)
    /\ UNCHANGED <<registry, object, task, events, solo>>

(* lookup(name, val) when it does not, and has to find out why.            *)
lookupMissed(t, w) ==
    /\ Call(t)
    /\ FoundAs(w.name, w.type) = {}
    /\ task' = [task EXCEPT ![t] = [at |-> "again", what |-> w]]
    /\ Access(t)
    /\ UNCHANGED <<registry, object, handles, events, solo>>

(* The second search: the type was wrong, or the name is new.              *)
lookupAgain(t) ==
    /\ ~undefined
    /\ task[t].at = "again"
    /\ task' = [task EXCEPT
                   ![t] = IF Known(task[t].what.name)
                          THEN Idle
                          ELSE [at |-> "insert", what |-> task[t].what]]
    /\ Access(t)
    /\ UNCHANGED <<registry, object, calls, handles, events, solo>>

(* new ConfigVar<T>, and the insertion into the map begins.                *)
BeginInsert(t) ==
    LET w == task[t].what
    IN
    /\ ~undefined
    /\ task[t].at = "insert"
    /\ object' = Append(object, [type |-> w.type, value |-> w.value,
                                 first |-> w.value])
    /\ events' = Append(events, <<>>)
    /\ task' = [task EXCEPT ![t] = [at |-> "inserting", what |-> w,
                                    var |-> Len(object) + 1]]
    /\ solo' = NoLoad
    /\ Access(t)
    /\ UNCHANGED <<registry, calls, handles>>

(* It ends: _configVars[name] = sp, whatever was there.                    *)
EndInsert(t) ==
    LET r == [name |-> task[t].what.name, var |-> task[t].var]
    IN
    /\ ~undefined
    /\ task[t].at = "inserting"
    /\ registry' = (registry \ Found(r.name)) \cup {r}
    /\ handles' = handles \cup {r}
    /\ task' = [task EXCEPT ![t] = Idle]
    /\ UNCHANGED <<object, calls, events, solo>>
    /\ NoAccess

-----------------------------------------------------------------------------
(* Values.                                                                 *)

(* The locked part of setValue(x) on object v; thread t goes on with next  *)
(* when nothing is left to announce.                                       *)
Store(t, v, x, next) ==
    /\ object' = [object EXCEPT ![v].value = x]
    /\ task' = [task EXCEPT
                   ![t] = IF x = object[v].value
                          THEN next
                          ELSE [at |-> "notify", var |-> v, next |-> next,
                                old |-> object[v].value, new |-> x]]

setValue(t, v, x) ==
    /\ Call(t)
    /\ Store(t, v, x, Idle)
    /\ solo' = NoLoad
    /\ UNCHANGED <<registry, handles, events>>
    /\ NoAccess

(* _cb(oldVal, v), after the unlock.  If it throws, setValue() does, and   *)
(* fromString() returns false: either way the value stays.                 *)
OldAsRead(c) == object[c.var].value
OldAsStored(c) == c.old

Notify(t) ==
    LET c == task[t]
    IN
    /\ ~undefined
    /\ c.at = "notify"
    /\ events' = [events EXCEPT
                     ![c.var] = Append(@, [old |-> OldAsStored(c),
                                           new |-> c.new])]
    /\ task' = [task EXCEPT ![t] = c.next]
    /\ UNCHANGED <<registry, object, calls, handles, solo>>
    /\ NoAccess

(* toString() of object v, by a thread that keeps the text.                *)
toString(t, v) ==
    /\ Call(t)
    /\ task' = [task EXCEPT
                   ![t] = [at |-> "text", var |-> v,
                           value |-> object[v].value,
                           text |-> ToText(object[v].type, object[v].value)]]
    /\ UNCHANGED <<registry, object, handles, events, solo>>
    /\ NoAccess

(* fromString() on object v: an exception of the conversion is caught.     *)
FromString(t, v, text, next) ==
    LET converted == FromText(object[v].type, text)
    IN \/ \E x \in converted : Store(t, v, x, next)
       \/ /\ converted = {}
          /\ task' = [task EXCEPT ![t] = next]
          /\ UNCHANGED object

(* ... of the text kept.                                                   *)
fromString(t) ==
    /\ ~undefined
    /\ task[t].at = "text"
    /\ FromString(t, task[t].var, task[t].text, Idle)
    /\ solo' = NoLoad
    /\ UNCHANGED <<registry, calls, handles, events>>
    /\ NoAccess

-----------------------------------------------------------------------------
(* loadFromYaml().  LoadFile() of a file that does not parse throws before *)
(* anything is done.                                                       *)

LoadFile(t, d) ==
    /\ Call(t)
    /\ task' = [task EXCEPT ![t] = [at |-> "load", rest |-> Docs[d]]]
    /\ solo' = [by |-> t, doc |-> d, done |-> FALSE]
    /\ UNCHANGED <<registry, object, handles, events>>
    /\ NoAccess

StopsHere(nodes) == <<>>
Remaining(nodes) == Tail(nodes)

(* The next node: find() copies the whole map to look into it.             *)
LoadNode(t) ==
    LET node == Head(task[t].rest)
        next == [at |-> "load", rest |-> Remaining(task[t].rest)]
        found == IF node.name = <<>> THEN {} ELSE Found(node.name)
    IN
    /\ ~undefined
    /\ task[t].at = "load"
    /\ task[t].rest # <<>>
    /\ \/ \E r \in found : FromString(t, r.var, node.text, next)
       \/ /\ found = {}
          /\ task' = [task EXCEPT ![t] = next]
          /\ UNCHANGED object
    /\ IF node.name = <<>> THEN NoAccess ELSE Access(t)
    /\ solo' = IF "by" \in DOMAIN solo /\ solo.by = t THEN solo ELSE NoLoad
    /\ UNCHANGED <<registry, calls, handles, events>>

LoadEnds(t) ==
    /\ ~undefined
    /\ task[t].at = "load"
    /\ task[t].rest = <<>>
    /\ task' = [task EXCEPT ![t] = Idle]
    /\ solo' = IF "by" \in DOMAIN solo /\ solo.by = t
               THEN [solo EXCEPT !.done = TRUE]
               ELSE solo
    /\ UNCHANGED <<registry, object, calls, handles, events>>
    /\ NoAccess

(* A data race has happened, or the bound is reached.                      *)
Over ==
    /\ undefined \/ (calls = MaxCalls /\ \A t \in Threads : task[t] = Idle)
    /\ UNCHANGED vars

Next ==
    \/ \E t \in Threads :
          \/ \E w \in Wanted : lookup(t, w) \/ lookupMissed(t, w)
          \/ lookupAgain(t) \/ BeginInsert(t) \/ EndInsert(t)
          \/ \E h \in handles :
                \/ toString(t, h.var)
                \/ \E x \in Settings[object[h.var].type] :
                      setValue(t, h.var, x)
          \/ Notify(t) \/ fromString(t)
          \/ \E d \in DOMAIN Docs : LoadFile(t, d)
          \/ LoadNode(t) \/ LoadEnds(t)
    \/ Over

Spec == Init /\ [][Next]_vars

-----------------------------------------------------------------------------
(* Properties.                                                             *)

(* A pointer a lookup returned is the one the registry has for the name,   *)
(* for good, and no data race happens on the map, as long as nobody        *)
(* creates a ConfigVar while another thread is in the registry.  The       *)
(* comment at config.h:384 asks for more: that all are created in static   *)
(* initialisation.                                                         *)
StableHandles ==
    undefined \/ ~(handles \subseteq registry) => overlapped

(* The changes of an object that were announced, and those that are about  *)
(* to be, lead from its first value to the present one: none is missing,   *)
(* none is told twice or from a value that was not there, in whatever      *)
(* order the callbacks of two setters come after the unlock                *)
(* (config.h:308-316).                                                     *)
Change(v) == {k \in DOMAIN events[v] : TRUE}
Announcing(v) ==
    {t \in Threads : task[t].at = "notify" /\ task[t].var = v}
Entered(v, x) == Cardinality({k \in Change(v) : events[v][k].new = x})
                 + Cardinality({t \in Announcing(v) : task[t].new = x})
Left(v, x) == Cardinality({k \in Change(v) : events[v][k].old = x})
              + Cardinality({t \in Announcing(v) : task[t].old = x})
Balance(v, x) == (IF x = object[v].value THEN 1 ELSE 0)
                 - (IF x = object[v].first THEN 1 ELSE 0)
Seen(v) ==
    {object[v].value, object[v].first}
        \cup {events[v][k].new : k \in Change(v)}
        \cup {events[v][k].old : k \in Change(v)}
        \cup {task[t].new : t \in Announcing(v)}
        \cup {task[t].old : t \in Announcing(v)}
ChangesAddUp ==
    \A v \in DOMAIN object : \A x \in Seen(v) :
        Entered(v, x) - Left(v, x) = Balance(v, x)

(* When a load is over and nobody has set or created anything meanwhile or *)
(* since, every registered variable that has a name has the last value the *)
(* file gives it under that name, as a scalar, a sequence or a map,        *)
(* whichever other nodes could not be converted (config.cpp:65-75).        *)
ValuesOf(r, nodes) ==
    {k \in DOMAIN nodes : /\ nodes[k].name = r.name
                          /\ FromText(object[r.var].type, nodes[k].text) # {}}
LoadTakesEffect ==
    solo.done => \A r \in registry :
        LET nodes == Docs[solo.doc]
            at == ValuesOf(r, nodes)
        IN at # {} /\ r.name # <<>> => object[r.var].value \in
               FromText(object[r.var].type, nodes[Max(at)].text)

(* fromString() takes back what toString() gave, the value for which the   *)
(* text was made (config.h:62-216), be the container empty or not, exactly *)
(* if each of its strings is spelled as YAML writes the node it loads as:  *)
(* ints come back always, "" comes back as "~", what does not load makes   *)
(* the container come back empty.                                          *)
TextKeepsValue ==
    \A t \in Threads :
        task[t].at = "text" =>
            LET type == object[task[t].var].type
            IN FromText(type, task[t].text) = {task[t].value} <=>
                   \A s \in Strings(type, task[t].value) :
                       Loads(s) /\ s = Written(s.yaml)
=============================================================================
