------------------------ MODULE EventThreadProofs ------------------------
(***************************************************************************)
(* Theorems about EventThread, for any threads, setters and number of      *)
(* calls.                                                                  *)
(***************************************************************************)
EXTENDS EventThread, FiniteSetTheorems, TLAPS

\* Who sleeps is in Wait, a thread not started is nowhere, and m_bRunning says
\* whether the owner still has to join.
ControlInv ==
    /\ \A t \in waiting : pc[t] = "blocked"
    /\ \A t \in Thread : /\ opc[t] = "new" => pc[t] = "none"
                         /\ opc[t] = "started" <=> m_bRunning[t]
                         /\ opc[t] = "waited" => pc[t] = "done"

\* Every effective Set is a call, but for an event constructed set.
CountInv == effective <= calls + 1

\* The invariants hold when the event and the threads are constructed.
LEMMA InitHolds == Init => TypeOK /\ ControlInv /\ CountInv /\ OnePerSet /\ SetIsSeen
<1> SUFFICES ASSUME Init PROVE TypeOK /\ ControlInv /\ CountInv /\ OnePerSet /\ SetIsSeen
  OBVIOUS
<1>1. effective = (IF m_bSet THEN 1 ELSE 0) /\ calls = 0 /\ MaxCalls \in Nat
  BY EventAssumption DEF Init
<1>2. effective \in 0 .. MaxCalls + 1 /\ calls \in 0 .. MaxCalls /\ CountInv
  BY <1>1 DEF CountInv
<1>3. TypeOK
  BY <1>2 DEF Init, TypeOK
<1>4. ControlInv /\ SetIsSeen
  BY DEF Init, ControlInv, SetIsSeen
<1>5. OnePerSet
  <2>1. Done = {}
    BY DEF Init, Done
  <2>2. Cardinality(Done) = 0
    BY <2>1, FS_EmptySet
  <2>. QED BY <1>1, <2>2 DEF OnePerSet
<1>. QED BY <1>2, <1>3, <1>4, <1>5

\* The types
LEMMA TypeStep ==
    ASSUME TypeOK, CountInv, [Next]_vars
    PROVE  TypeOK' /\ CountInv'
<1> USE DEF event, owner, setter
<1>0. /\ MaxCalls \in Nat /\ calls \in Nat /\ effective \in Nat /\ calls <= MaxCalls
      /\ effective <= calls + 1
  BY EventAssumption DEF TypeOK, CountInv
<1>1. ASSUME NEW t \in Thread, Start(t) \/ SetRunning(t) \/ WaitThread(t) \/ Join(t)
      PROVE  TypeOK' /\ CountInv'
  BY <1>1 DEF Start, SetRunning, WaitThread, WaitThen, Join, TypeOK, CountInv
<1>2. ASSUME NEW t \in Thread, Wait(t) \/ SpuriousWakeup(t) PROVE TypeOK' /\ CountInv'
  BY <1>2 DEF Wait, WaitEnds, SpuriousWakeup, TypeOK, CountInv
<1>3. ASSUME NEW s \in Setter, Set(s) \/ Reset(s) PROVE TypeOK' /\ CountInv'
  <2>1. /\ calls' = calls + 1 /\ calls < MaxCalls
        /\ effective' = effective \/ effective' = effective + 1
    BY <1>3 DEF Set, Reset
  <2>2. calls' \in 0 .. MaxCalls /\ effective' \in 0 .. MaxCalls + 1 /\ CountInv'
    BY <1>0, <2>1 DEF CountInv
  <2>. QED BY <1>3, <2>2 DEF Set, Reset, TypeOK
<1>4. ASSUME NEW s \in Setter, NotifyOne(s) PROVE TypeOK' /\ CountInv'
  BY <1>4 DEF NotifyOne, TypeOK, CountInv
<1>5. CASE UNCHANGED vars
  BY <1>5 DEF vars, TypeOK, CountInv
<1>. QED BY <1>1, <1>2, <1>3, <1>4, <1>5 DEF Next

\* Where the threads and their owner are
LEMMA ControlStep ==
    ASSUME TypeOK, ControlInv, [Next]_vars
    PROVE  ControlInv'
<1> USE DEF event, owner, setter
<1>1. ASSUME NEW t \in Thread, Start(t) PROVE ControlInv'
  BY <1>1 DEF Start, TypeOK, ControlInv
<1>2. ASSUME NEW t \in Thread, SetRunning(t) PROVE ControlInv'
  BY <1>2 DEF SetRunning, TypeOK, ControlInv
<1>3. ASSUME NEW t \in Thread, WaitThread(t) PROVE ControlInv'
  BY <1>3 DEF WaitThread, WaitThen, TypeOK, ControlInv
<1>4. ASSUME NEW t \in Thread, Join(t) PROVE ControlInv'
  BY <1>4 DEF Join, TypeOK, ControlInv
<1>5. ASSUME NEW t \in Thread, Wait(t) PROVE ControlInv'
  BY <1>5 DEF Wait, WaitEnds, TypeOK, ControlInv
<1>6. ASSUME NEW t \in Thread, SpuriousWakeup(t) PROVE ControlInv'
  BY <1>6 DEF SpuriousWakeup, TypeOK, ControlInv
<1>7. ASSUME NEW s \in Setter, Set(s) \/ NotifyOne(s) \/ Reset(s) PROVE ControlInv'
  BY <1>7 DEF Set, NotifyOne, Reset, TypeOK, ControlInv
<1>8. CASE UNCHANGED vars
  BY <1>8 DEF vars, ControlInv
<1>. QED BY <1>1, <1>2, <1>3, <1>4, <1>5, <1>6, <1>7, <1>8 DEF Next

\* The threads that are done are finitely many.
LEMMA DoneFinite == IsFiniteSet(Done) /\ Cardinality(Done) \in Nat
<1>1. Done \subseteq Thread
  BY DEF Done
<1>2. IsFiniteSet(Done)
  BY <1>1, EventAssumption, FS_Subset
<1>. QED BY <1>2, FS_CardinalityType

\* One Wait returns for each effective Set.
LEMMA OnePerSetStep ==
    ASSUME TypeOK, ControlInv, OnePerSet, [Next]_vars
    PROVE  OnePerSet'
<1> USE DEF event, owner, setter
<1>0. effective \in Nat
  BY EventAssumption DEF TypeOK
<1>1. ASSUME m_bManual' = m_bManual, Done' = Done, effective' = effective, m_bSet' => m_bSet
      PROVE  OnePerSet'
  <2> SUFFICES ASSUME ~m_bManual
               PROVE  Cardinality(Done) + (IF m_bSet' THEN 1 ELSE 0) <= effective
    BY <1>1 DEF OnePerSet
  <2> DEFINE c == Cardinality(Done)
  <2>1. c \in Nat /\ c + (IF m_bSet THEN 1 ELSE 0) <= effective
    BY DoneFinite DEF OnePerSet
  <2> HIDE DEF c
  <2>2. c + (IF m_bSet' THEN 1 ELSE 0) <= effective
    BY <1>0, <1>1, <2>1
  <2>. QED BY <2>2 DEF c
<1>2. ASSUME NEW t \in Thread, Start(t) \/ SetRunning(t) \/ WaitThread(t) \/ Join(t)
      PROVE  OnePerSet'
  <2>1. Done' = Done
    BY <1>2 DEF Start, SetRunning, WaitThread, WaitThen, Join, Done, TypeOK, ControlInv
  <2>2. UNCHANGED <<m_bManual, m_bSet, effective>>
    BY <1>2 DEF Start, SetRunning, WaitThread, WaitThen, Join
  <2>. QED BY <1>1, <2>1, <2>2
<1>3. ASSUME NEW t \in Thread, Wait(t) PROVE OnePerSet'
  <2>1. m_bManual' = m_bManual /\ effective' = effective
    BY <1>3 DEF Wait, WaitEnds
  <2>2. CASE m_bSet
    <3> SUFFICES ASSUME ~m_bManual
                 PROVE  Cardinality(Done') + (IF m_bSet' THEN 1 ELSE 0) <= effective
      BY <2>1 DEF OnePerSet
    <3>1. pc' = [pc EXCEPT ![t] = "done"] /\ pc[t] # "done" /\ m_bSet' = m_bManual
      BY <1>3, <2>2 DEF Wait, WaitEnds
    <3>2. Done' = Done \cup {t} /\ t \notin Done
      BY <3>1 DEF Done, TypeOK
    <3> DEFINE c == Cardinality(Done)
    <3>3. Cardinality(Done') = c + 1 /\ c \in Nat
      BY <3>2, DoneFinite, FS_AddElement
    <3>4. c + 1 <= effective
      BY <2>2 DEF OnePerSet
    <3>5. ~m_bSet'
      BY <3>1
    <3> HIDE DEF c
    <3>. QED BY <1>0, <3>3, <3>4, <3>5
  <2>3. CASE ~m_bSet
    <3>1. Done' = Done /\ m_bSet' = m_bSet
      BY <1>3, <2>3 DEF Wait, WaitEnds, Done, TypeOK
    <3>. QED BY <1>1, <2>1, <3>1
  <2>. QED BY <2>2, <2>3
<1>4. ASSUME NEW t \in Thread, SpuriousWakeup(t) PROVE OnePerSet'
  BY <1>1, <1>4 DEF SpuriousWakeup, Done
<1>5. ASSUME NEW s \in Setter, Set(s) PROVE OnePerSet'
  <2>1. m_bManual' = m_bManual /\ Done' = Done
    BY <1>5 DEF Set, Done
  <2>2. CASE m_bSet
    BY <1>1, <1>5, <2>1, <2>2 DEF Set
  <2>3. CASE ~m_bSet
    <3> SUFFICES ASSUME ~m_bManual
                 PROVE  Cardinality(Done) + (IF m_bSet' THEN 1 ELSE 0) <= effective'
      BY <2>1 DEF OnePerSet
    <3> DEFINE c == Cardinality(Done)
    <3>1. c \in Nat /\ c + 0 <= effective
      BY <2>3, DoneFinite DEF OnePerSet
    <3>2. effective' = effective + 1
      BY <1>5, <2>3 DEF Set
    <3> HIDE DEF c
    <3>3. c + (IF m_bSet' THEN 1 ELSE 0) <= effective'
      BY <1>0, <3>1, <3>2
    <3>. QED BY <3>3 DEF c
  <2>. QED BY <2>2, <2>3
<1>6. ASSUME NEW s \in Setter, NotifyOne(s) \/ Reset(s) PROVE OnePerSet'
  BY <1>1, <1>6 DEF NotifyOne, Reset, Done
<1>7. CASE UNCHANGED vars
  BY <1>1, <1>7 DEF vars, Done
<1>. QED BY <1>2, <1>3, <1>4, <1>5, <1>6, <1>7 DEF Next

\* A set event is noticed.
LEMMA SetIsSeenStep ==
    ASSUME TypeOK, ControlInv, SetIsSeen, [Next]_vars
    PROVE  SetIsSeen'
<1> USE DEF event, owner, setter
<1>1. ASSUME NEW t \in Thread, Start(t) PROVE SetIsSeen'
  BY <1>1 DEF Start, TypeOK, ControlInv, SetIsSeen
<1>2. ASSUME NEW t \in Thread, SetRunning(t) \/ WaitThread(t) \/ Join(t) PROVE SetIsSeen'
  BY <1>2 DEF SetRunning, WaitThread, WaitThen, Join, SetIsSeen
<1>3. ASSUME NEW t \in Thread, Wait(t) PROVE SetIsSeen'
  <2>1. CASE ~m_bSet
    BY <1>3, <2>1 DEF Wait, WaitEnds, SetIsSeen
  <2>2. CASE m_bSet /\ ~m_bManual
    BY <1>3, <2>2 DEF Wait, WaitEnds, SetIsSeen
  <2>3. CASE m_bSet /\ m_bManual
    <3>1. seen' /\ m_bManual'
      BY <1>3, <2>3 DEF Wait, WaitEnds
    <3>. QED BY <3>1 DEF SetIsSeen
  <2>. QED BY <2>1, <2>2, <2>3
<1>4. ASSUME NEW t \in Thread, SpuriousWakeup(t) PROVE SetIsSeen'
  BY <1>4 DEF SpuriousWakeup, TypeOK, ControlInv, SetIsSeen
<1>5. ASSUME NEW s \in Setter, Set(s) PROVE SetIsSeen'
  <2>1. CASE m_bSet
    BY <1>5, <2>1 DEF Set, SetIsSeen
  <2>2. CASE ~m_bSet
    BY <1>5, <2>2 DEF Set, SetIsSeen, TypeOK
  <2>. QED BY <2>1, <2>2
<1>6. ASSUME NEW s \in Setter, NotifyOne(s) PROVE SetIsSeen'
  <2>1. CASE waiting = {}
    BY <1>6, <2>1 DEF NotifyOne, SetIsSeen
  <2>2. CASE waiting # {}
    <3>1. PICK t \in waiting : waiting' = waiting \ {t}
      BY <1>6, <2>2 DEF NotifyOne
    <3>2. t \in Thread /\ pc'[t] = "blocked" /\ t \notin waiting'
      BY <1>6, <3>1 DEF NotifyOne, TypeOK, ControlInv
    <3>. QED BY <3>2 DEF SetIsSeen
  <2>. QED BY <2>1, <2>2
<1>7. ASSUME NEW s \in Setter, Reset(s) PROVE SetIsSeen'
  BY <1>7 DEF Reset, SetIsSeen
<1>8. CASE UNCHANGED vars
  BY <1>8 DEF vars, SetIsSeen
<1>. QED BY <1>1, <1>2, <1>3, <1>4, <1>5, <1>6, <1>7, <1>8 DEF Next

\* The types hold together with the control state.
LEMMA ControlHolds == Spec => [](TypeOK /\ CountInv /\ ControlInv)
<1>1. TypeOK /\ CountInv /\ ControlInv /\ [Next]_vars => (TypeOK /\ CountInv /\ ControlInv)'
  BY TypeStep, ControlStep
<1>. QED BY <1>1, InitHolds, PTL DEF Spec

\* The type invariant, with Sets counted by the calls
THEOREM EventTypes == Spec => []TypeOK
BY ControlHolds, PTL

\* However many threads wait or come late: each time the event is set, at most
\* one Wait of an event without manual reset returns.
THEOREM OneWaitPerSet == Spec => []OnePerSet
<1>1. OnePerSet /\ TypeOK /\ ControlInv /\ [Next]_vars => OnePerSet'
  BY OnePerSetStep
<1>. QED BY <1>1, InitHolds, ControlHolds, PTL DEF Spec

\* The owner's Wait returns after ThreadMain has, with m_bRunning cleared.
THEOREM JoinedThreadsAreDone == Spec => []JoinMeansDone
<1>1. TypeOK /\ ControlInv => JoinMeansDone
  BY DEF TypeOK, ControlInv, JoinMeansDone, Done
<1>. QED BY <1>1, ControlHolds, PTL

\* However Sets, Resets and Waits interleave: while threads sleep on a set event
\* a notification or a woken thread is under way, wherever a Set is between its
\* unlock and its notify_one, or this Set of a manual event has let a thread
\* through.
THEOREM NoSetUnseen == Spec => []SetIsSeen
<1>1. SetIsSeen /\ TypeOK /\ ControlInv /\ [Next]_vars => SetIsSeen'
  BY SetIsSeenStep
<1>. QED BY <1>1, InitHolds, ControlHolds, PTL DEF Spec
=============================================================================
