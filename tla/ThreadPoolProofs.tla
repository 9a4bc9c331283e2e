------------------------- MODULE ThreadPoolProofs -------------------------
(***************************************************************************)
(* Theorems about ThreadPool, for any workers, clients and tasks.          *)
(***************************************************************************)
EXTENDS ThreadPool, TLAPS

\* A worker that took a task after shutdown began goes back to the loop, reads
\* the flag and leaves.
LateInv == \A w \in Worker :
    \/ late[w] = 0
    \/ late[w] = 1 /\ m_shutdown /\ wpc[w] \in {"run", "loop", "exit"}

\* The history of the queue: what the provers need to know of sequences when
\* dequeue moves the front from m_queue to started, and when enqueue appends.
LEMMA MoveFront ==
    ASSUME NEW S, NEW s \in Seq(S), NEW q \in Seq(S), q # <<>>
    PROVE  /\ Append(s, Head(q)) \o Tail(q) = s \o q
           /\ Append(s, Head(q)) \in Seq(S) /\ Tail(q) \in Seq(S)
OBVIOUS

\* See MoveFront.
LEMMA AppendBack ==
    ASSUME NEW S, NEW s \in Seq(S), NEW q \in Seq(S), NEW e \in S
    PROVE  /\ s \o Append(q, e) = Append(s \o q, e)
           /\ Append(q, e) \in Seq(S)
OBVIOUS

\* The invariants hold when the pool is constructed.
LEMMA InitHolds == Init => TypeOK /\ FifoOnce /\ LateInv
<1>1. \A S : <<>> \in Seq(S)
  OBVIOUS
<1>2. <<>> \o <<>> = <<>>
  OBVIOUS
<1>3. Init => TypeOK
  <2> SUFFICES ASSUME Init PROVE TypeOK
    OBVIOUS
  <2>1. m_queue \in Seq(Task) /\ submitted \in Seq(Task) /\ started \in Seq(Task)
    BY <1>1 DEF Init
  <2>2. late \in [Worker -> Nat] /\ waiting \subseteq Worker /\ holder \subseteq Worker
    BY DEF Init
  <2>. QED BY <2>1, <2>2 DEF Init, TypeOK
<1>4. Init => FifoOnce /\ LateInv
  BY <1>2 DEF Init, FifoOnce, LateInv
<1>. QED BY <1>3, <1>4

\* The worker's dequeue preserves the invariants, whatever the other workers do.
LEMMA TakeHolds ==
    ASSUME TypeOK, FifoOnce, LateInv, NEW w \in Worker, Take(w)
    PROVE  TypeOK' /\ FifoOnce' /\ LateInv'
<1> USE DEF Take, TakeOr, Move, caller
<1>1. CASE m_queue = <<>>
  BY <1>1 DEF TypeOK, FifoOnce, LateInv
<1>2. CASE m_queue # <<>>
  <2>1. /\ m_queue' = Tail(m_queue) /\ started' = Append(started, Head(m_queue))
        /\ submitted' = submitted
    BY <1>2
  <2>2. /\ started' \o m_queue' = started \o m_queue
        /\ started' \in Seq(Task) /\ m_queue' \in Seq(Task)
    <3> HIDE DEF Take, TakeOr
    <3>1. started \in Seq(Task) /\ m_queue \in Seq(Task)
      BY DEF TypeOK
    <3>. QED BY <1>2, <2>1, <3>1, MoveFront
  <2>3. FifoOnce'
    BY <2>1, <2>2 DEF FifoOnce
  <2>4. late' = [late EXCEPT ![w] = IF m_shutdown THEN @ + 1 ELSE @] /\ late[w] = 0
    BY <1>2 DEF LateInv
  <2>5. late'[w] = (IF m_shutdown THEN 1 ELSE 0) /\ late' \in [Worker -> Nat]
    BY <2>4 DEF TypeOK
  <2>6. TypeOK'
    BY <1>2, <2>1, <2>2, <2>5 DEF TypeOK
  <2>7. LateInv'
    BY <1>2, <2>4, <2>5 DEF TypeOK, LateInv
  <2>. QED BY <2>3, <2>6, <2>7
<1>. QED BY <1>1, <1>2

\* Every step of the pool and of its users preserves the invariants.
LEMMA StepHolds ==
    TypeOK /\ FifoOnce /\ LateInv /\ [Next]_vars => TypeOK' /\ FifoOnce' /\ LateInv'
<1> SUFFICES ASSUME TypeOK, FifoOnce, LateInv, [Next]_vars
             PROVE  TypeOK' /\ FifoOnce' /\ LateInv'
  OBVIOUS
<1> USE DEF TypeOK, FifoOnce, LateInv, Move, caller, history
<1>1. ASSUME NEW w \in Worker, Loop(w) \/ Lock(w) \/ Wait(w) \/ Wake(w) \/ Run(w) \/ SpuriousWakeup(w)
      PROVE  TypeOK' /\ FifoOnce' /\ LateInv'
  <2>1. CASE Loop(w)
    BY <2>1 DEF Loop
  <2>2. CASE Lock(w)
    BY <2>2 DEF Lock
  <2>3. CASE Wait(w)
    BY <2>3 DEF Wait
  <2>4. CASE Wake(w)
    BY <2>4 DEF Wake
  <2>5. CASE Run(w)
    BY <2>5 DEF Run, RunThen
  <2>6. CASE SpuriousWakeup(w)
    BY <2>6 DEF SpuriousWakeup
  <2>. QED BY <1>1, <2>1, <2>2, <2>3, <2>4, <2>5, <2>6
<1>2. ASSUME NEW w \in Worker, Take(w) PROVE TypeOK' /\ FifoOnce' /\ LateInv'
  BY <1>2, TakeHolds
<1>3. ASSUME NEW c \in Client, NotifyOne(c) PROVE TypeOK' /\ FifoOnce' /\ LateInv'
  BY <1>3 DEF NotifyOne
<1>4. ASSUME NEW c \in Client, NEW t \in Task, Enqueue(c, t)
      PROVE  TypeOK' /\ FifoOnce' /\ LateInv'
  <2>1. m_queue' = Append(m_queue, t) /\ submitted' = Append(submitted, t)
    BY <1>4 DEF Enqueue
  <2>2. /\ started \o m_queue' = Append(started \o m_queue, t)
        /\ m_queue' \in Seq(Task) /\ submitted' \in Seq(Task)
    BY <2>1, AppendBack
  <2>3. FifoOnce'
    BY <1>4, <2>1, <2>2 DEF Enqueue
  <2>4. TypeOK' /\ LateInv'
    BY <1>4, <2>2 DEF Enqueue
  <2>. QED BY <2>3, <2>4
<1>5. CASE SetShutdown \/ NotifyAll \/ JoinAll
  <2>1. CASE SetShutdown
    BY <2>1 DEF SetShutdown
  <2>2. CASE NotifyAll
    BY <2>2 DEF NotifyAll
  <2>3. CASE JoinAll
    BY <2>3 DEF JoinAll
  <2>. QED BY <1>5, <2>1, <2>2, <2>3
<1>6. CASE UNCHANGED vars
  BY <1>6 DEF vars
<1>. QED BY <1>1, <1>2, <1>3, <1>4, <1>5, <1>6 DEF Next, WorkerStep

\* The type invariant: only workers hold m_conditional_mutex and sleep, and
\* the queue and its history hold tasks only.
THEOREM PoolTypes == Spec => []TypeOK
<1>. QED BY InitHolds, StepHolds, PTL DEF Spec

\* However many workers race for the queue, tasks are dequeued in the order of
\* submit, each of them once.
THEOREM PoolFifo == Spec => []FifoOnce
<1>. QED BY InitHolds, StepHolds, PTL DEF Spec

\* After shutdown has set m_shutdown no worker starts more than one task, with
\* any number of workers and of tasks still queued.
THEOREM PoolStopsSoon == Spec => []ShutdownSoon
<1>1. LateInv => ShutdownSoon
  <2>1. LateInv => \A w \in Worker : late[w] = 0 \/ late[w] = 1
    BY Zenon DEF LateInv
  <2>2. 0 <= 1 /\ 1 <= 1
    OBVIOUS
  <2>. QED BY <2>1, <2>2, Zenon DEF ShutdownSoon
<1>. QED BY <1>1, InitHolds, StepHolds, PTL DEF Spec
=============================================================================
