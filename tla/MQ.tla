--------------------------------- MODULE MQ ---------------------------------
(***************************************************************************)
(* The blocking message queue MQ<T> (itc/mq.h): a std::queue, a mutex and  *)
(* a condition variable.  Any thread pushes or clears; the threads in      *)
(* Pullers call pull().  A critical section runs without interruption, so  *)
(* it is one action; pull() has two of them, before and after a wait.      *)
(*                                                                         *)
(* An item is its position in the order of the pushes.  NoWakeup,          *)
(* FrontAdded, PreviousAdded, TwoPopped and MustWaitAlways stand for slips *)
(* in this code (PROJECT.json, "mutants") and are not part of the          *)
(* specification.                                                          *)
(***************************************************************************)
EXTENDS Naturals, Sequences

CONSTANTS
    Pullers,    \* the threads that pull
    MaxItems    \* bound on the number of pushes

ASSUME MaxItemsAssumption == MaxItems \in Nat

VARIABLES
    q,          \* q, the queue
    pc,         \* where each puller is: "away", in pull() before its lock
                \* ("pulling"), or queued on the condition variable
    pushed,     \* history: how many items were pushed
    taken,      \* history: the items pulled, in the order they left q
    dropped     \* history: the items clear() removed

vars == <<q, pc, pushed, taken, dropped>>

TypeOK ==
    /\ q \in Seq(1..MaxItems)
    /\ pc \in [Pullers -> {"away", "pulling", "waiting"}]
    /\ pushed \in 0..MaxItems
    /\ taken \in Seq(1..MaxItems)
    /\ dropped \subseteq 1..MaxItems

Init ==
    /\ q = <<>>
    /\ pc = [p \in Pullers |-> "away"]
    /\ pushed = 0
    /\ taken = <<>>
    /\ dropped = {}

Items(s) == { s[k] : k \in 1..Len(s) }

(* _cond.wakeupAll(): everybody who waits competes for the mutex again.    *)
NoWakeup == pc
WakeupAll == [p \in Pullers |-> IF pc[p] = "waiting" THEN "pulling" ELSE pc[p]]

FrontAdded(x) == <<x>> \o q
PreviousAdded(x) == Append(q, x - 1)
BackAdded(x) == Append(q, x)

push ==
    /\ pushed < MaxItems
    /\ q' = BackAdded(pushed + 1)
    /\ pc' = WakeupAll
    /\ pushed' = pushed + 1
    /\ UNCHANGED <<taken, dropped>>

(* A thread calls pull().                                                  *)
pull(p) ==
    /\ pc[p] = "away"
    /\ pc' = [pc EXCEPT ![p] = "pulling"]
    /\ UNCHANGED <<q, pushed, taken, dropped>>

MustWaitAlways == TRUE
MustWait == q = <<>>

(* while (q.empty()) _cond.wait(): the wait queues the thread and releases *)
(* the mutex in one go.                                                    *)
pullWait(p) ==
    /\ pc[p] = "pulling"
    /\ MustWait
    /\ pc' = [pc EXCEPT ![p] = "waiting"]
    /\ UNCHANGED <<q, pushed, taken, dropped>>

(* A wait may end though nobody signalled.                                 *)
SpuriousWakeup(p) ==
    /\ pc[p] = "waiting"
    /\ pc' = [pc EXCEPT ![p] = "pulling"]
    /\ UNCHANGED <<q, pushed, taken, dropped>>

TwoPopped == SubSeq(q, 3, Len(q))
Popped == Tail(q)

pullTake(p) ==
    /\ pc[p] = "pulling"
    /\ q # <<>>
    /\ taken' = Append(taken, Head(q))
    /\ q' = Popped
    /\ pc' = [pc EXCEPT ![p] = "away"]
    /\ UNCHANGED <<pushed, dropped>>

clear ==
    /\ q' = <<>>
    /\ dropped' = dropped \cup Items(q)
    /\ UNCHANGED <<pc, pushed, taken>>

Next ==
    \/ push
    \/ clear
    \/ \E p \in Pullers :
          pull(p) \/ pullWait(p) \/ pullTake(p) \/ SpuriousWakeup(p)

Spec == Init /\ [][Next]_vars

(* A thread inside pull() gets the mutex in the end, and every puller, as  *)
(* in mqTest.cpp and ThreadPool, calls pull() again and again.  No push,   *)
(* no clear and no spurious wakeup has to happen.                          *)
Fairness ==
    \A p \in Pullers : WF_vars(pull(p) \/ pullWait(p) \/ pullTake(p))

FairSpec == Spec /\ Fairness

-----------------------------------------------------------------------------
(* Properties.                                                             *)

(* First in, first out: items leave in the order of the pushes, never one  *)
(* twice, and whatever is still queued is newer than all that left.        *)
InOrder ==
    LET all == taken \o q
    IN \A j \in 1..Len(all) : \A k \in 1..Len(all) : j < k => all[j] < all[k]

(* Nothing gets lost: a pushed item is queued, was pulled or was cleared.  *)
Accounted == 1..pushed = Items(taken) \cup Items(q) \cup dropped

(* No puller sleeps on the condition variable while the queue has an item  *)
(* for it: push() signals inside its critical section and wakes everybody, *)
(* and a puller tests and waits in one critical section.                   *)
NoSleepOnItems == \A p \in Pullers : pc[p] = "waiting" => q = <<>>

(* A pushed item is pulled in the end, unless clear() removes it.          *)
EventuallyTaken ==
    \A n \in 1..MaxItems :
        (pushed >= n) ~> (n \in Items(taken) \cup dropped)
=============================================================================
