------------------------------ MODULE MQProofs ------------------------------
(***************************************************************************)
(* Proofs about MQ, for every set of pullers and every number of items.    *)
(***************************************************************************)
EXTENDS MQ, SequenceTheorems, TLAPS

(* All items that were pulled or are queued, oldest first.                 *)
History == taken \o q

Increasing(s) == \A j, k \in 1..Len(s) : j < k => s[j] < s[k]

(* The inductive invariant: beside the order, that no item is younger than *)
(* the last push, which is what makes the next one the youngest.           *)
Inv ==
    /\ TypeOK
    /\ Increasing(History)
    /\ \A k \in 1..Len(History) : History[k] <= pushed
    /\ NoSleepOnItems
    /\ Accounted

LEMMA InitInv == Init => Inv
<1> SUFFICES ASSUME Init PROVE Inv
  OBVIOUS
<1>1. TypeOK
  BY MaxItemsAssumption DEF Init, TypeOK
<1>2. History = <<>> /\ Len(<<>>) = 0 /\ Len(taken) = 0 /\ Len(q) = 0
  BY DEF Init, History
<1>3. Accounted
  BY <1>2 DEF Init, Accounted, Items
<1> QED
  BY <1>1, <1>2, <1>3 DEF Init, Inv, Increasing, NoSleepOnItems

LEMMA StepTypeOK == TypeOK /\ [Next]_vars => TypeOK'
<1> SUFFICES ASSUME TypeOK, [Next]_vars PROVE TypeOK'
  OBVIOUS
<1> USE DEF TypeOK
<1>1. CASE push
  <2>1. pushed + 1 \in 1..MaxItems /\ pushed + 1 \in 0..MaxItems
    BY <1>1, MaxItemsAssumption DEF push
  <2>2. Append(q, pushed + 1) \in Seq(1..MaxItems)
    BY <2>1
  <2>3. WakeupAll \in [Pullers -> {"away", "pulling", "waiting"}]
    BY DEF WakeupAll
  <2> QED
    BY <1>1, <2>1, <2>2, <2>3 DEF push, BackAdded
<1>2. CASE clear
  <2>1. Items(q) \subseteq 1..MaxItems
    <3>1. \A k \in 1..Len(q) : q[k] \in 1..MaxItems
      BY ElementOfSeq
    <3> QED
      BY <3>1 DEF Items
  <2>2. <<>> \in Seq(1..MaxItems)
    OBVIOUS
  <2> QED
    BY <1>2, <2>1, <2>2 DEF clear
<1>3. ASSUME NEW p \in Pullers, pull(p) \/ pullWait(p) \/ SpuriousWakeup(p)
      PROVE  TypeOK'
  BY <1>3 DEF pull, pullWait, SpuriousWakeup
<1>4. ASSUME NEW p \in Pullers, pullTake(p) PROVE TypeOK'
  <2>1. Head(q) \in 1..MaxItems /\ Tail(q) \in Seq(1..MaxItems)
    BY <1>4, HeadTailProperties DEF pullTake
  <2>2. Append(taken, Head(q)) \in Seq(1..MaxItems)
    BY <2>1
  <2> QED
    BY <1>4, <2>1, <2>2 DEF pullTake, Popped
<1>5. CASE UNCHANGED vars
  BY <1>5 DEF vars
<1> QED
  BY <1>1, <1>2, <1>3, <1>4, <1>5 DEF Next

(* What each kind of step does to the history: push() adds the next item   *)
(* at its end, pull() leaves it alone, clear() cuts it.                    *)
LEMMA HistoryPush ==
    ASSUME TypeOK, push
    PROVE  /\ History \in Seq(1..MaxItems)
           /\ History' = Append(History, pushed + 1)
  BY MaxItemsAssumption DEF TypeOK, push, BackAdded, History

LEMMA HistoryTake ==
    ASSUME TypeOK, NEW p \in Pullers, pullTake(p)
    PROVE  History' = History
<1>1. /\ taken \in Seq(1..MaxItems) /\ q \in Seq(1..MaxItems) /\ q # <<>>
      /\ taken' = Append(taken, Head(q)) /\ q' = Tail(q)
  BY DEF TypeOK, pullTake, Popped
<1>2. Append(taken, Head(q)) \o Tail(q) = taken \o q
  BY <1>1
<1> QED
  BY <1>1, <1>2 DEF History

LEMMA HistoryClear ==
    ASSUME TypeOK, clear
    PROVE  /\ History \in Seq(1..MaxItems) /\ History' \in Seq(1..MaxItems)
           /\ Len(History') <= Len(History)
           /\ \A k \in 1..Len(History') : History'[k] = History[k]
  BY DEF TypeOK, clear, History

(* What is in a sequence after an element was added at its end ...         *)
LEMMA ItemsAppend ==
    ASSUME NEW S, NEW s \in Seq(S), NEW x \in S
    PROVE  Items(Append(s, x)) = Items(s) \cup {x}
<1> DEFINE t == Append(s, x)
<1>1. /\ Len(t) = Len(s) + 1 /\ t[Len(s) + 1] = x
      /\ \A k \in 1..Len(s) : t[k] = s[k]
      /\ Len(s) \in Nat
  BY AppendProperties
<1> HIDE DEF t
<1>2. ASSUME NEW y \in Items(t) PROVE y \in Items(s) \cup {x}
  <2>1. PICK k \in 1..Len(t) : y = t[k]
    BY <1>2 DEF Items
  <2>2. k \in 1..Len(s) \/ k = Len(s) + 1
    BY <1>1
  <2> QED
    BY <1>1, <2>1, <2>2 DEF Items
<1>3. ASSUME NEW y \in Items(s) PROVE y \in Items(t)
  <2>1. PICK k \in 1..Len(s) : y = s[k]
    BY <1>3 DEF Items
  <2>2. k \in 1..Len(t) /\ t[k] = y
    BY <1>1, <2>1
  <2> QED
    BY <2>2 DEF Items
<1>4. x \in Items(t)
  <2>1. Len(s) + 1 \in 1..Len(t)
    BY <1>1
  <2> QED
    BY <1>1, <2>1 DEF Items
<1> QED
  BY <1>2, <1>3, <1>4 DEF t

(* ... and before its first element was taken away.                        *)
LEMMA ItemsTail ==
    ASSUME NEW S, NEW s \in Seq(S), s # <<>>
    PROVE  Items(s) = {Head(s)} \cup Items(Tail(s))
<1> DEFINE t == Tail(s)
<1>1. /\ Len(s) \in Nat /\ Len(s) >= 1 /\ Len(t) = Len(s) - 1
      /\ \A k \in 1..Len(t) : t[k] = s[k + 1]
      /\ Head(s) = s[1]
  BY HeadTailProperties
<1> HIDE DEF t
<1>2. ASSUME NEW y \in Items(s) PROVE y \in {Head(s)} \cup Items(t)
  <2>1. PICK k \in 1..Len(s) : y = s[k]
    BY <1>2 DEF Items
  <2>2. CASE k = 1
    BY <1>1, <2>1, <2>2
  <2>3. CASE k # 1
    <3>1. k - 1 \in 1..Len(t) /\ (k - 1) + 1 = k
      BY <1>1, <2>3
    <3>2. t[k - 1] = y
      BY <1>1, <2>1, <3>1
    <3> QED
      BY <3>1, <3>2 DEF Items
  <2> QED
    BY <2>2, <2>3
<1>3. ASSUME NEW y \in Items(t) PROVE y \in Items(s)
  <2>1. PICK k \in 1..Len(t) : y = t[k]
    BY <1>3 DEF Items
  <2>2. k + 1 \in 1..Len(s) /\ s[k + 1] = y
    BY <1>1, <2>1
  <2> QED
    BY <2>2 DEF Items
<1>4. Head(s) \in Items(s)
  <2>1. 1 \in 1..Len(s)
    BY <1>1
  <2> QED
    BY <1>1, <2>1 DEF Items
<1> QED
  BY <1>2, <1>3, <1>4 DEF t

LEMMA StepInv == Inv /\ [Next]_vars => Inv'
<1> SUFFICES ASSUME Inv, [Next]_vars PROVE Inv'
  OBVIOUS
<1>1. TypeOK /\ TypeOK'
  BY StepTypeOK DEF Inv
<1>2. CASE push
  <2>1. /\ History \in Seq(1..MaxItems)
        /\ History' = Append(History, pushed + 1)
    BY <1>1, <1>2, HistoryPush
  <2>2. pushed' = pushed + 1 /\ pushed \in Nat
    BY <1>1, <1>2, MaxItemsAssumption DEF push, TypeOK
  <2>3. /\ Len(History') = Len(History) + 1
        /\ History'[Len(History) + 1] = pushed + 1
        /\ \A k \in 1..Len(History) : History'[k] = History[k]
        /\ Len(History) \in Nat
    BY <2>1, AppendProperties
  <2>4. \A k \in 1..Len(History) : History[k] \in Nat /\ History[k] <= pushed
    BY <2>1, MaxItemsAssumption, ElementOfSeq DEF Inv
  <2>5. Increasing(History)'
    <3> SUFFICES ASSUME NEW j \in 1..Len(History'), NEW k \in 1..Len(History'),
                        j < k
                 PROVE  History'[j] < History'[k]
      BY DEF Increasing
    <3>1. j \in 1..Len(History)
      BY <2>3
    <3>2. CASE k \in 1..Len(History)
      BY <2>3, <3>1, <3>2 DEF Inv, Increasing
    <3>3. CASE k = Len(History) + 1
      BY <2>2, <2>3, <2>4, <3>1, <3>3
    <3> QED
      BY <2>3, <3>2, <3>3
  <2>6. \A k \in 1..Len(History') : History'[k] <= pushed'
    <3> SUFFICES ASSUME NEW k \in 1..Len(History') PROVE History'[k] <= pushed'
      OBVIOUS
    <3>1. CASE k \in 1..Len(History)
      BY <2>2, <2>3, <2>4, <3>1
    <3>2. CASE k = Len(History) + 1
      BY <2>2, <2>3, <3>2
    <3> QED
      BY <2>3, <3>1, <3>2
  <2>7. NoSleepOnItems'
    BY <1>1, <1>2 DEF push, WakeupAll, NoSleepOnItems, TypeOK
  <2>8. Accounted'
    <3>1. Items(q') = Items(q) \cup {pushed + 1}
      <4>1. PICK x \in 1..MaxItems : x = pushed + 1
        BY <1>1, <1>2, <2>2, MaxItemsAssumption DEF push, TypeOK
      <4>2. q \in Seq(1..MaxItems) /\ q' = Append(q, x)
        BY <1>1, <1>2, <4>1 DEF push, BackAdded, TypeOK
      <4>3. Items(q') = Items(q) \cup {x}
        <5>1. ASSUME NEW S, q \in Seq(S), x \in S
              PROVE  Items(q') = Items(q) \cup {x}
          BY <4>2, <5>1, ItemsAppend
        <5> QED
          BY <4>2, <5>1
      <4> QED
        BY <4>1, <4>3
    <3>2. 1..pushed' = 1..pushed \cup {pushed + 1}
      BY <2>2
    <3>3. Items(taken') = Items(taken) /\ dropped' = dropped
      BY <1>2 DEF push
    <3> QED
      BY <3>1, <3>2, <3>3 DEF Accounted, Inv
  <2> QED
    BY <1>1, <2>5, <2>6, <2>7, <2>8 DEF Inv
<1>3. CASE clear
  <2>1. /\ History \in Seq(1..MaxItems) /\ History' \in Seq(1..MaxItems)
        /\ Len(History') <= Len(History)
        /\ \A k \in 1..Len(History') : History'[k] = History[k]
    BY <1>1, <1>3, HistoryClear
  <2>2. /\ pushed' = pushed /\ pc' = pc /\ q' = <<>> /\ taken' = taken
        /\ dropped' = dropped \cup Items(q)
    BY <1>3 DEF clear
  <2>3. \A k \in 1..Len(History') : k \in 1..Len(History)
    BY <2>1
  <2>4. Increasing(History)' /\ \A k \in 1..Len(History') : History'[k] <= pushed'
    BY <2>1, <2>2, <2>3 DEF Inv, Increasing
  <2>5. NoSleepOnItems'
    BY <2>2 DEF NoSleepOnItems
  <2>6. Accounted'
    <3>1. Items(q') = {}
      BY <2>2 DEF Items
    <3> QED
      BY <2>2, <3>1 DEF Accounted, Inv, Items
  <2> QED
    BY <1>1, <2>4, <2>5, <2>6 DEF Inv
<1>4. ASSUME NEW p \in Pullers, pull(p) \/ pullWait(p) \/ SpuriousWakeup(p)
      PROVE  Inv'
  <2>1. UNCHANGED <<q, pushed, taken, dropped>>
    BY <1>4 DEF pull, pullWait, SpuriousWakeup
  <2>2. NoSleepOnItems'
    BY <1>1, <1>4
    DEF pull, pullWait, MustWait, SpuriousWakeup, NoSleepOnItems, Inv, TypeOK
  <2> QED
    BY <1>1, <2>1, <2>2 DEF Inv, History, Increasing, Accounted, Items
<1>5. ASSUME NEW p \in Pullers, pullTake(p) PROVE Inv'
  <2>1. History' = History /\ pushed' = pushed /\ dropped' = dropped
    BY <1>1, <1>5, HistoryTake DEF pullTake
  <2>2. NoSleepOnItems'
    BY <1>1, <1>5 DEF pullTake, NoSleepOnItems, Inv, TypeOK
  <2>3. Accounted'
    <3>1. /\ taken \in Seq(1..MaxItems) /\ q \in Seq(1..MaxItems) /\ q # <<>>
          /\ taken' = Append(taken, Head(q)) /\ q' = Tail(q)
      BY <1>1, <1>5 DEF pullTake, Popped, TypeOK
    <3>2. Head(q) \in 1..MaxItems
      BY <3>1, HeadTailProperties
    <3>3. Items(taken') = Items(taken) \cup {Head(q)}
      BY <3>1, <3>2, ItemsAppend
    <3>4. Items(q) = {Head(q)} \cup Items(q')
      BY <3>1, ItemsTail
    <3> QED
      BY <2>1, <3>3, <3>4 DEF Accounted, Inv
  <2> QED
    BY <1>1, <2>1, <2>2, <2>3 DEF Inv, Increasing
<1>6. CASE UNCHANGED vars
  BY <1>1, <1>6 DEF vars, Inv, History, Increasing, NoSleepOnItems, Accounted,
                    Items
<1> QED
  BY <1>2, <1>3, <1>4, <1>5, <1>6 DEF Next

LEMMA InvHolds == Spec => []Inv
  BY InitInv, StepInv, PTL DEF Spec

(* The queue's state keeps its shape: in particular nothing but items that  *)
(* were pushed is queued or handed out.                                    *)
THEOREM TypeCorrect == Spec => []TypeOK
<1>1. Inv => TypeOK
  BY DEF Inv
<1> QED
  BY <1>1, InvHolds, PTL

(* The queue is first in, first out, and gives no item to two pullers.     *)
THEOREM QueueInOrder == Spec => []InOrder
<1>1. Inv => InOrder
  BY DEF Inv, InOrder, History, Increasing
<1> QED
  BY <1>1, InvHolds, PTL

(* No item is lost between push(), pull() and clear().                     *)
THEOREM NothingLost == Spec => []Accounted
<1>1. Inv => Accounted
  BY DEF Inv
<1> QED
  BY <1>1, InvHolds, PTL

(* No wakeup is lost: a puller sleeps only while the queue is empty.       *)
THEOREM NoLostWakeup == Spec => []NoSleepOnItems
<1>1. Inv => NoSleepOnItems
  BY DEF Inv
<1> QED
  BY <1>1, InvHolds, PTL
=============================================================================
