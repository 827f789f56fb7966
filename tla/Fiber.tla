------------------------------- MODULE Fiber -------------------------------
(***************************************************************************)
(* Fibers of one thread (cct/fiber.h, cct/fiber.cpp): statuses, the        *)
(* current and the main fiber, the saved contexts, and the references that *)
(* decide when a fiber and its stack are freed.                            *)
(*                                                                         *)
(* The thread executes on one stack at a time: its own, called Main like   *)
(* the fiber made for it, or that of a child.  A saved context is the      *)
(* stack it goes back to and where: at the entry of MainFunc(), in the     *)
(* middle of user code, or behind the end of FiberExit().  It is stale     *)
(* once its stack has gone on: resuming it would return into frames that   *)
(* are gone.                                                               *)
(*                                                                         *)
(* User code may call every public member anywhere, on any fiber it has a  *)
(* handle of, the main one included; `misuse' keeps the rules it has       *)
(* broken, and `outcome' how that ended.  Fibers are referred to by the    *)
(* user's handles, by t_curFiber and t_threadFiber, and by the variable    *)
(* `cur' of MainFunc(), on the fiber's own stack.                          *)
(*                                                                         *)
(* Some operators stand for slips one could make in this code and are used *)
(* nowhere in the specification (PROJECT.json, "mutants"): StaysCurrent,   *)
(* KeepsNoReference, UnlessFree.                                           *)
(***************************************************************************)
CONSTANTS
    Fibers,     \* children
    Main,       \* the main fiber, and the thread's own stack
    None        \* nullptr

ASSUME FiberAssumption ==
    Main \notin Fibers /\ None \notin Fibers \cup {Main}

VARIABLES
    life,           \* whether a Fiber object exists
    status,         \* _status
    handles,        \* the fibers the user has a Fiber::ptr to
    inMainFunc,     \* the fibers that `cur' of their MainFunc() refers to
    curFiber,       \* t_curFiber
    threadFiber,    \* t_threadFiber
    ctx,            \* _ctx, after the last save
    on,             \* the stack the thread executes on
    outcome,        \* "fine", or how the thread ended
    misuse          \* history: the rules broken so far

objectVars == <<life, status>>
referenceVars == <<handles, inMainFunc, curFiber, threadFiber>>
fiberVars == <<objectVars, referenceVars, ctx, on, outcome, misuse>>

All == Fibers \cup {Main}

Status == {"FREE", "INIT", "RUNNABLE", "RUNNING", "SLEEPING", "EXCEPT"}
Context == [stack : All, point : {"entry", "user", "exit", "stale"}]

(* What fiber.h, and the way fiberTest.cpp uses it, ask of the user.       *)
Rules ==
    {"nested",              \* swapIn() from the main fiber only (:6, :38)
     "noMainFiber",         \* GetThis() before the first switch
     "droppedRunning",      \* a handle is kept while its fiber runs
     "droppedUnstarted",    \* and until it has run
     "finishedAgain",       \* no swapIn() of a fiber that has ended
     "mainEntered",         \* nor of the main fiber, which is left FREE (:38)
     "mainYields",          \* nor its swapOut() or yieldSleeping()
     "yieldsOther",         \* these are called on GetThis()
     "otherException",      \* callbacks throw std::exceptions
     "internal"}            \* SetThis() and FiberExit() are fiber.cpp's

TypeOK ==
    /\ life \in [All -> {"unborn", "alive", "destroyed"}]
    /\ status \in [All -> Status]
    /\ handles \subseteq All /\ inMainFunc \subseteq Fibers
    /\ curFiber \in All \cup {None}
    /\ threadFiber \in {Main, None}
    /\ ctx \in [All -> Context]
    /\ on \in All
    /\ outcome \in {"fine", "undefined", "aborted", "ended"}
    /\ misuse \subseteq Rules

FiberInit ==
    /\ life = [f \in All |-> "unborn"]
    /\ status = [f \in All |-> "FREE"]
    /\ handles = {} /\ inMainFunc = {}
    /\ curFiber = None /\ threadFiber = None
    /\ ctx = [f \in All |-> [stack |-> f, point |-> "entry"]]
    /\ on = Main
    /\ outcome = "fine"
    /\ misuse = {}

-----------------------------------------------------------------------------
(* References.                                                             *)

(* The fibers that lose their last reference when those left are refs:     *)
(* ~Fiber() frees their stacks.                                            *)
Unreferenced(refs) == {f \in All : life[f] = "alive" /\ f \notin refs}

Destroy(gone) ==
    life' = [f \in All |-> IF f \in gone THEN "destroyed" ELSE life[f]]

(* The assertion of ~Fiber().                                              *)
UnlessFree(f, s) == s[f] # "FREE"
Refused(f, s) == s[f] \notin {"FREE", "EXCEPT"}
RefusesToDie ==
    \E f \in All :
        life[f] = "alive" /\ life'[f] = "destroyed" /\ Refused(f, status')

-----------------------------------------------------------------------------
(* swapcontext(&save->_ctx, &load->_ctx).                                  *)

Saved(save, point) ==
    [ctx EXCEPT ![save] = [stack |-> on, point |-> point]]

(* All contexts of stack s are stale when s goes on.                       *)
GoneOn(contexts, s) ==
    [f \in All |-> IF contexts[f].stack = s
                   THEN [contexts[f] EXCEPT !.point = "stale"]
                   ELSE contexts[f]]

KeepsNoReference(load) == {}
EntersMainFunc(load) == {load}

(* The thread fails; ms are the references of MainFunc() at that point.    *)
Fails(how, ms) ==
    outcome' = how /\ inMainFunc' = ms /\ UNCHANGED <<ctx, on>>

(* A switch, after the references and the status have changed.  One to the *)
(* entry of the main fiber runs MainFunc() without a callback, on a stack  *)
(* nothing else is on, and its FiberExit() switches to itself and fails.   *)
Switch(save, point, load, ms) ==
    LET saved == Saved(save, point)
        target == saved[load]
    IN IF RefusesToDie
       THEN Fails("aborted", ms)
       ELSE IF \/ threadFiber = None
               \/ life'[save] = "destroyed"
               \/ target.point = "stale"
               \/ life'[target.stack] = "destroyed"
       THEN Fails("undefined", ms)
       ELSE IF target.point = "exit" \/ (target.point = "entry" /\ load = Main)
       THEN Fails("aborted", ms)
       ELSE /\ on' = target.stack
            /\ ctx' = GoneOn(saved, target.stack)
            /\ inMainFunc' = IF target.point = "entry"
                             THEN ms \cup EntersMainFunc(load)
                             ELSE ms
            /\ UNCHANGED outcome

-----------------------------------------------------------------------------
(* What user code does, on whichever stack it is.                          *)

(* GetThis(), which makes the main fiber of a thread that has none, and    *)
(* whose result is kept or not.  One used on the spot, by                  *)
(* GetThis()->swapOut(), is a handle dropped later: while its fiber is     *)
(* suspended it lies on the fiber's own stack, beside `cur'.               *)
GetThis ==
    /\ outcome = "fine"
    /\ threadFiber' = Main
    /\ IF threadFiber = None
       THEN curFiber' = Main /\ life' = [life EXCEPT ![Main] = "alive"]
       ELSE UNCHANGED <<curFiber, life>>
    /\ handles' \in {handles, handles \cup ({curFiber'} \ {None})}
    /\ UNCHANGED <<status, inMainFunc, ctx, on, outcome, misuse>>

(* Fiber(cb, stackSize).                                                   *)
NewFiber(f) ==
    /\ outcome = "fine"
    /\ life[f] = "unborn"
    /\ life' = [life EXCEPT ![f] = "alive"]
    /\ status' = [status EXCEPT ![f] = "INIT"]
    /\ handles' = handles \cup {f}
    /\ UNCHANGED <<inMainFunc, curFiber, threadFiber, ctx, on, outcome,
                   misuse>>

Breaks(rule, when) == IF when THEN {rule} ELSE {}

(* The user's last Fiber::ptr to f goes away.                              *)
Drop(f) ==
    /\ outcome = "fine"
    /\ f \in handles
    /\ handles' = handles \ {f}
    /\ misuse' = misuse \cup Breaks("droppedRunning", f # Main /\ on = f)
                      \cup Breaks("droppedUnstarted", status[f] = "INIT")
    /\ Destroy(Unreferenced(handles' \cup inMainFunc
                                     \cup {curFiber, threadFiber}))
    /\ UNCHANGED <<status, inMainFunc, curFiber, threadFiber, ctx, on>>
    /\ outcome' = IF RefusesToDie THEN "aborted" ELSE outcome

(* f->swapIn(): the context is always saved as the main fiber's.           *)
swapIn(f) ==
    /\ outcome = "fine"
    /\ f \in handles
    /\ misuse' = misuse \cup Breaks("noMainFiber", threadFiber = None)
                      \cup Breaks("nested", on # Main)
                      \cup Breaks("mainEntered", f = Main)
                      \cup Breaks("finishedAgain", f # Main /\
                                     status[f] \in {"FREE", "EXCEPT"})
    /\ curFiber' = f
    /\ status' = [status EXCEPT ![f] = "RUNNING"]
    /\ Destroy(Unreferenced(handles \cup inMainFunc \cup {f, threadFiber}))
    /\ Switch(Main, "user", f, inMainFunc)
    /\ UNCHANGED <<handles, threadFiber>>

StaysCurrent == curFiber
BackToMain == threadFiber

(* f->swapOut() and f->yieldSleeping(): whatever stack the thread is on is *)
(* saved as f's.                                                           *)
Yield(f, s) ==
    /\ outcome = "fine"
    /\ f \in handles
    /\ misuse' = misuse \cup Breaks("noMainFiber", threadFiber = None)
                      \cup Breaks("mainYields", f = Main)
                      \cup Breaks("yieldsOther", f # curFiber)
    /\ curFiber' = BackToMain
    /\ status' = [status EXCEPT ![f] = s]
    /\ Destroy(Unreferenced(handles \cup inMainFunc
                                    \cup {BackToMain, threadFiber}))
    /\ Switch(f, "user", Main, inMainFunc)
    /\ UNCHANGED <<handles, threadFiber>>

swapOut(f) == Yield(f, "RUNNABLE")
yieldSleeping(f) == Yield(f, "SLEEPING")

(* FiberExit(sp) for the pointer sp to f: it is reset, leaving the handles *)
(* hs and the references ms, then t_curFiber, and only then is the context *)
(* saved.                                                                  *)
FiberExit(f, hs, ms) ==
    /\ outcome = "fine"
    /\ handles' = hs
    /\ curFiber' = BackToMain
    /\ Destroy(Unreferenced(hs \cup ms \cup {BackToMain, threadFiber}))
    /\ Switch(f, "exit", Main, ms)
    /\ UNCHANGED threadFiber

(* The end of MainFunc() on stack f, with status s.                        *)
End(f, s) ==
    /\ on = f
    /\ status' = [status EXCEPT ![f] = s]
    /\ FiberExit(f, handles, inMainFunc \ {f})
    /\ UNCHANGED misuse

Return(f) == End(f, "FREE")
Throw(f) == End(f, "EXCEPT")

(* What is not a std::exception is not caught: std::terminate().           *)
ThrowOther(f) ==
    /\ outcome = "fine"
    /\ on = f
    /\ outcome' = "aborted"
    /\ misuse' = misuse \cup {"otherException"}
    /\ UNCHANGED <<objectVars, referenceVars, ctx, on>>

(* The two public members that are meant for fiber.cpp itself.  Other      *)
(* handles of f may be left, and SetThis() takes nullptr as well.          *)
UserFiberExit(f) ==
    /\ f \in handles
    /\ misuse' = misuse \cup {"internal"}
    /\ UNCHANGED status
    /\ \E hs \in {handles, handles \ {f}} : FiberExit(f, hs, inMainFunc)

SetThis(f) ==
    /\ outcome = "fine"
    /\ f \in handles \cup {None}
    /\ misuse' = misuse \cup {"internal"}
    /\ curFiber' = f
    /\ Destroy(Unreferenced(handles \cup inMainFunc \cup {f, threadFiber}))
    /\ UNCHANGED <<status, handles, inMainFunc, threadFiber, ctx, on>>
    /\ outcome' = IF RefusesToDie THEN "aborted" ELSE outcome

(* The thread function returns: t_threadFiber and t_curFiber go away, and  *)
(* with them the main fiber, unless the user still has a handle of it.     *)
ThreadExits ==
    /\ outcome = "fine"
    /\ on = Main
    /\ curFiber' = None /\ threadFiber' = None
    /\ Destroy(Unreferenced(handles \cup inMainFunc))
    /\ UNCHANGED <<status, handles, inMainFunc, ctx, on, misuse>>
    /\ outcome' = IF RefusesToDie THEN "aborted" ELSE "ended"

Over == outcome # "fine" /\ UNCHANGED fiberVars

FiberNext ==
    \/ GetThis
    \/ \E f \in All :
          \/ Drop(f) \/ swapIn(f) \/ swapOut(f) \/ yieldSleeping(f)
          \/ UserFiberExit(f) \/ SetThis(f)
    \/ \E f \in Fibers :
          \/ NewFiber(f) \/ Return(f) \/ Throw(f) \/ ThrowOther(f)
    \/ SetThis(None)
    \/ ThreadExits
    \/ Over

FiberSpec == FiberInit /\ [][FiberNext]_fiberVars

-----------------------------------------------------------------------------
(* Properties.                                                             *)

(* Fibers are entered from the main fiber only, and leave themselves.      *)
Asymmetric == misuse \cap {"nested", "yieldsOther", "internal"} = {}

(* While that is so (fiber.h:6, :38), GetThis() is the fiber whose stack   *)
(* the thread is on, that child and no other is RUNNING, and its way back  *)
(* is to the thread's own stack.                                           *)
CurrentRuns ==
    outcome = "fine" /\ threadFiber = Main /\ Asymmetric =>
        /\ curFiber = on
        /\ \A f \in Fibers : status[f] = "RUNNING" <=> f = on
        /\ on # Main => ctx[Main] = [stack |-> Main, point |-> "user"]

(* The stack the thread is on exists, and so do all it can go back to,     *)
(* whatever the user does short of a failure: a fiber's own reference      *)
(* outlives its callback, unless the user's is dropped on the fiber's      *)
(* stack (fiber.cpp:71, :113-117).  Without that, ~Fiber() is not even     *)
(* called for one of them, to fail its assertion.                          *)
NeverOnFreedStack ==
    (\/ outcome = "fine"
     \/ outcome = "aborted" /\ Asymmetric /\ "droppedRunning" \notin misuse)
    =>
    \A f \in Fibers :
        on = f \/ (\E x \in All : ctx[x] = [stack |-> f, point |-> "user"])
            => life[f] = "alive"

(* A thread fails for one of these reasons only, whatever members of Fiber *)
(* it calls and on which fibers.  Nothing undefined happens to a user who  *)
(* switches from the main fiber, after GetThis() has made it, lets each    *)
(* fiber yield itself, and keeps the handle of a fiber that runs.  The     *)
(* assertions of ~Fiber() and FiberExit() (fiber.cpp:48, :118) fail only   *)
(* if he drops a fiber before it has run, enters the main fiber or yields  *)
(* from it, which is taken to stay FREE (fiber.h:38), lets a fiber yield   *)
(* another one, or enters a fiber that has ended.                          *)
OnlyMisuseFails ==
    /\ outcome = "undefined" =>
          misuse \cap {"nested", "noMainFiber", "droppedRunning",
                       "yieldsOther", "internal"} # {}
    /\ outcome = "aborted" =>
          misuse \cap {"droppedUnstarted", "finishedAgain", "mainEntered",
                       "mainYields", "yieldsOther", "otherException",
                       "internal"} # {}

(* A fiber left in the middle of its callback without a handle can never   *)
(* be freed: its stack refers to it, and nobody can switch to it any more. *)
(* This is what fiberTest.cpp:23 asks about.                               *)
Stranded(f) ==
    /\ life[f] = "alive" /\ f \notin handles
    /\ on # f /\ ctx[f].point = "user"
    /\ Asymmetric
StrandedStays ==
    [][\A f \in Fibers :
          Stranded(f) /\ Asymmetric' =>
              Stranded(f)' /\ f \in inMainFunc']_fiberVars
=============================================================================
