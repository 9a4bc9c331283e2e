---------------------------- MODULE EventThread ----------------------------
(***************************************************************************)
(* classes CEvent and CThread (gaiathread.cpp) together: one event, and    *)
(* threads whose ThreadMain waits for it.  An owner starts and joins the   *)
(* threads; setters call Set and Reset.  CEvent's methods run under mutex_ *)
(* and are single steps, but for the block in Wait and the notification of *)
(* Set, which comes after the unlock.                                      *)
(***************************************************************************)
EXTENDS Integers, FiniteSets

CONSTANTS
    Thread,     \* the CThread objects
    Setter,     \* threads that call Set and Reset
    MaxCalls    \* bound: how many calls of Set and Reset there are

ASSUME EventAssumption == IsFiniteSet(Thread) /\ MaxCalls \in Nat

VARIABLES
    m_bManual, m_bSet,      \* CEvent
    waiting,                \* the threads blocked in cv_.wait
    pc,                     \* where a thread is in ThreadMain
    m_bRunning, opc,        \* CThread, and where its owner is with it
    spc,                    \* where a setter is
    calls,                  \* Sets and Resets so far
    effective, seen         \* history: Sets that found the event unset; a Wait has
                            \* returned since the last of them

vars == <<m_bManual, m_bSet, waiting, pc, m_bRunning, opc, spc, calls, effective, seen>>

Init ==
    /\ m_bManual \in BOOLEAN /\ m_bSet \in BOOLEAN
    /\ waiting = {} /\ pc = [t \in Thread |-> "none"]
    /\ m_bRunning = [t \in Thread |-> FALSE] /\ opc = [t \in Thread |-> "new"]
    /\ spc = [s \in Setter |-> "idle"]
    /\ calls = 0
    /\ effective = IF m_bSet THEN 1 ELSE 0
    /\ seen = FALSE

event  == <<m_bManual, m_bSet, effective, seen>>
owner  == <<m_bRunning, opc>>
setter == <<spc, calls>>

-----------------------------------------------------------------------------
(* CThread *)

\* The thread runs before m_bRunning is set.
Start(t) ==
    /\ opc[t] = "new"
    /\ pc' = [pc EXCEPT ![t] = "call"]
    /\ opc' = [opc EXCEPT ![t] = "created"]
    /\ UNCHANGED <<event, waiting, m_bRunning, setter>>

SetRunning(t) ==
    /\ opc[t] = "created"
    /\ m_bRunning' = [m_bRunning EXCEPT ![t] = TRUE]
    /\ opc' = [opc EXCEPT ![t] = "started"]
    /\ UNCHANGED <<event, waiting, pc, setter>>

WaitThen(t, l) ==
    /\ opc[t] = "started"
    /\ opc' = [opc EXCEPT ![t] = IF m_bRunning[t] THEN l ELSE "waited"]
    /\ m_bRunning' = [m_bRunning EXCEPT ![t] = FALSE]
    /\ UNCHANGED <<event, waiting, pc, setter>>

\* Mutants: Wait only clears the flag, or detaches
WaitWithoutJoin(t) == WaitThen(t, "waited")
WaitDetaching(t) == WaitThen(t, "detached")

\* CThread::Wait: the flag is cleared, then join blocks
WaitThread(t) == WaitThen(t, "join")

Join(t) ==
    /\ opc[t] = "join" /\ pc[t] = "done"
    /\ opc' = [opc EXCEPT ![t] = "waited"]
    /\ UNCHANGED <<event, waiting, pc, m_bRunning, setter>>

-----------------------------------------------------------------------------
(* CEvent::Wait, called by ThreadMain *)

WaitEnds(t, set) ==
    /\ pc[t] \in {"call", "blocked"} /\ t \notin waiting
    /\ IF m_bSet
       THEN /\ pc' = [pc EXCEPT ![t] = "done"] /\ m_bSet' = set /\ seen' = TRUE
            /\ UNCHANGED waiting
       ELSE /\ pc' = [pc EXCEPT ![t] = "blocked"]
            /\ waiting' = waiting \cup {t} /\ UNCHANGED <<m_bSet, seen>>
    /\ UNCHANGED <<m_bManual, effective, owner, setter>>

\* Mutant: no event resets itself
WaitNeverResets(t) == WaitEnds(t, TRUE)

\* The predicate holds, or the thread blocks (again)
Wait(t) == WaitEnds(t, m_bManual)

SpuriousWakeup(t) ==
    /\ t \in waiting
    /\ waiting' = waiting \ {t}
    /\ UNCHANGED <<event, pc, owner, setter>>

-----------------------------------------------------------------------------
(* CEvent::Set and Reset *)

\* A set event is left alone, and nobody is notified.
Set(s) ==
    /\ spc[s] = "idle" /\ calls < MaxCalls
    /\ calls' = calls + 1
    /\ IF m_bSet
       THEN UNCHANGED <<m_bSet, spc, effective, seen>>
       ELSE /\ m_bSet' = TRUE /\ effective' = effective + 1 /\ seen' = FALSE
            /\ spc' = [spc EXCEPT ![s] = "notify"]
    /\ UNCHANGED <<m_bManual, waiting, pc, owner>>

\* Mutant: the notification is forgotten
NotifyNobody(s) ==
    /\ spc[s] = "notify"
    /\ spc' = [spc EXCEPT ![s] = "idle"]
    /\ UNCHANGED <<event, waiting, pc, owner, calls>>

NotifyOne(s) ==
    /\ spc[s] = "notify"
    /\ IF waiting = {} THEN UNCHANGED waiting
       ELSE \E t \in waiting : waiting' = waiting \ {t}
    /\ spc' = [spc EXCEPT ![s] = "idle"]
    /\ UNCHANGED <<event, pc, owner, calls>>

Reset(s) ==
    /\ spc[s] = "idle" /\ calls < MaxCalls
    /\ calls' = calls + 1 /\ m_bSet' = FALSE
    /\ UNCHANGED <<m_bManual, effective, seen, waiting, pc, owner, spc>>

-----------------------------------------------------------------------------
Next ==
    \/ \E t \in Thread : \/ Start(t) \/ SetRunning(t) \/ WaitThread(t) \/ Join(t)
                        \/ Wait(t) \/ SpuriousWakeup(t)
    \/ \E s \in Setter : Set(s) \/ NotifyOne(s) \/ Reset(s)

Spec == Init /\ [][Next]_vars

-----------------------------------------------------------------------------
(* Properties *)

Done == {t \in Thread : pc[t] = "done"}

\* The type of every variable.
TypeOK ==
    /\ {m_bManual, m_bSet, seen} \subseteq BOOLEAN
    /\ waiting \subseteq Thread
    /\ pc \in [Thread -> {"none", "call", "blocked", "done"}]
    /\ m_bRunning \in [Thread -> BOOLEAN]
    /\ opc \in [Thread -> {"new", "created", "started", "join", "waited"}]
    /\ spc \in [Setter -> {"idle", "notify"}]
    /\ calls \in 0 .. MaxCalls /\ effective \in 0 .. MaxCalls + 1

\* An event without manual reset lets one Wait return for each time it was
\* set, however its waiters, latecomers and the notification after the unlock
\* race for it.
OnePerSet ==
    ~m_bManual => Cardinality(Done) + (IF m_bSet THEN 1 ELSE 0) <= effective

\* When CThread::Wait has returned, ThreadMain has, and the destructor's
\* assert(!m_bRunning) holds.
JoinMeansDone == \A t \in Thread : opc[t] = "waited" => t \in Done /\ ~m_bRunning[t]

\* No Set goes unnoticed: while threads sleep on a set event, a notification is
\* under way, or a woken thread is about to look at the event, or it is a manual
\* one and a Wait has returned since it was set.  (Of the sleepers of a manual
\* event notify_one wakes a single one: once that one is through, the others
\* sleep on although the event stays set.)
SetIsSeen ==
    m_bSet /\ waiting # {} =>
        \/ \E s \in Setter : spc[s] = "notify"
        \/ \E t \in Thread : pc[t] = "blocked" /\ t \notin waiting
        \/ m_bManual /\ seen
=============================================================================
