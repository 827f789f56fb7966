----------------------------- MODULE DurableLog -----------------------------
(***************************************************************************)
(* What the logging back end promises to the rest of the program, with     *)
(* none of its buffers: lines are accepted in an order, the disk always    *)
(* holds exactly the first lines of that order, and closing the log waits  *)
(* until every line accepted before the close was decided is on disk.      *)
(*                                                                         *)
(* A line is its position in the order of acceptance.  AsyncLogging is     *)
(* shown to implement this module.                                         *)
(***************************************************************************)
EXTENDS Naturals, Sequences

VARIABLES
    accepted,   \* how many lines the log has taken so far
    disk,       \* the lines that have reached the file, in file order
    promised,   \* how many lines the pending or past close must not lose
    stage       \* "open", "closing" or "closed"

vars == <<accepted, disk, promised, stage>>

(* The first n lines in the order of acceptance.                           *)
FirstLines(n) == [k \in 1..n |-> k]

TypeOK ==
    /\ accepted \in Nat
    /\ disk \in Seq(Nat)
    /\ promised \in Nat
    /\ stage \in {"open", "closing", "closed"}

Init ==
    /\ accepted = 0
    /\ disk = FirstLines(0)
    /\ promised = 0
    /\ stage = "open"

(* A front end hands one line over; lines may still come in while the log  *)
(* is closing, but no close promises anything about those.                 *)
Accept ==
    /\ stage # "closed"
    /\ accepted' = accepted + 1
    /\ UNCHANGED <<disk, promised, stage>>

(* More of the accepted lines reach the disk: never a gap, never a line    *)
(* twice, never two lines in the other order.                              *)
Harden ==
    /\ \E n \in Len(disk)..accepted : disk' = FirstLines(n)
    /\ UNCHANGED <<accepted, promised, stage>>

(* The owner asks for the log to be closed, or asks again: all that has    *)
(* been accepted by now has to survive.                                    *)
Promise ==
    /\ stage # "closed"
    /\ promised' = accepted
    /\ stage' = "closing"
    /\ UNCHANGED <<accepted, disk>>

(* The close returns only when the promised lines are on disk.             *)
Close ==
    /\ stage = "closing"
    /\ promised <= Len(disk)
    /\ stage' = "closed"
    /\ UNCHANGED <<accepted, disk, promised>>

Next == Accept \/ Harden \/ Promise \/ Close

Spec == Init /\ [][Next]_vars
=============================================================================
