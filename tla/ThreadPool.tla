---------------------------- MODULE ThreadPool ----------------------------
(***************************************************************************)
(* class ThreadPool (ThreadPool.h) over SafeQueue (SafeQueue.h).  The      *)
(* queue has a mutex of its own, so one of its operations is one step; a   *)
(* worker holds m_conditional_mutex from Lock to Wait or Take.             *)
(***************************************************************************)
EXTENDS Integers, Sequences

CONSTANTS
    Worker,     \* m_threads
    Client,     \* threads that call submit
    Task,       \* the tasks they submit, each once
    MayShutDown \* whether another thread calls shutdown

ASSUME PoolAssumption == MayShutDown \in BOOLEAN

VARIABLES
    wpc,                    \* where a worker is
    waiting,                \* the workers blocked in m_conditional_lock.wait
    holder,                 \* the worker that holds m_conditional_mutex, or none
    m_queue, m_shutdown,
    cpc, spc,               \* where a client is in submit; the caller of shutdown
    submitted, started,     \* history: the tasks enqueued and dequeued, in order
    late                    \* history: tasks started after m_shutdown was set

caller  == <<cpc, spc>>
history == <<submitted, started, late>>
vars    == <<wpc, waiting, holder, m_queue, m_shutdown, caller, history>>

Init ==
    /\ wpc = [w \in Worker |-> "loop"]
    /\ waiting = {} /\ holder = {}
    /\ m_queue = <<>> /\ m_shutdown = FALSE
    /\ cpc = [c \in Client |-> "idle"] /\ spc = "idle"
    /\ submitted = <<>> /\ started = <<>> /\ late = [w \in Worker |-> 0]

Move(w, l) == wpc' = [wpc EXCEPT ![w] = l]

-----------------------------------------------------------------------------
(* ThreadWorker::operator() *)

\* while (!m_shutdown), read without the mutex
Loop(w) ==
    /\ wpc[w] = "loop"
    /\ Move(w, IF m_shutdown THEN "exit" ELSE "lock")
    /\ UNCHANGED <<waiting, holder, m_queue, m_shutdown, caller, history>>

\* The mutex is taken and m_queue.empty() evaluated
Lock(w) ==
    /\ wpc[w] = "lock" /\ holder = {}
    /\ holder' = {w}
    /\ Move(w, IF m_queue = <<>> THEN "wait" ELSE "take")
    /\ UNCHANGED <<waiting, m_queue, m_shutdown, caller, history>>

\* wait releases the mutex and blocks in one step
Wait(w) ==
    /\ wpc[w] = "wait"
    /\ waiting' = waiting \cup {w}
    /\ holder' = {}
    /\ Move(w, "blocked")
    /\ UNCHANGED <<m_queue, m_shutdown, caller, history>>

\* wait takes the mutex again and returns; there is no second look at the flag
Wake(w) ==
    /\ wpc[w] = "blocked" /\ w \notin waiting /\ holder = {}
    /\ holder' = {w}
    /\ Move(w, "take")
    /\ UNCHANGED <<waiting, m_queue, m_shutdown, caller, history>>

TakeOr(w, other, rest) ==
    /\ wpc[w] = "take"
    /\ holder' = {}
    /\ IF m_queue = <<>>
       THEN Move(w, other) /\ UNCHANGED <<m_queue, started, late>>
       ELSE /\ m_queue' = rest
            /\ started' = Append(started, Head(m_queue))
            /\ late' = [late EXCEPT ![w] = IF m_shutdown THEN @ + 1 ELSE @]
            /\ Move(w, "run")
    /\ UNCHANGED <<waiting, m_shutdown, caller, submitted>>

\* Mutants: a worker that finds nothing leaves; the task stays in the queue
TakeOrExit(w) == TakeOr(w, "exit", Tail(m_queue))
TakeWithoutPop(w) == TakeOr(w, "loop", m_queue)

\* Mutant: dequeue's result is not looked at
TakeUnchecked(w) ==
    /\ wpc[w] = "take"
    /\ holder' = {}
    /\ m_queue' = IF m_queue = <<>> THEN m_queue ELSE Tail(m_queue)
    /\ started' = Append(started, IF m_queue = <<>> THEN "empty function" ELSE Head(m_queue))
    /\ Move(w, "run")
    /\ UNCHANGED <<waiting, m_shutdown, caller, submitted, late>>

\* dequeue, after which the mutex is released
Take(w) == TakeOr(w, "loop", Tail(m_queue))

RunThen(w, l) ==
    /\ wpc[w] = "run"
    /\ Move(w, l)
    /\ UNCHANGED <<waiting, holder, m_queue, m_shutdown, caller, history>>

\* Mutant: m_shutdown is not read again after a task
RunAgain(w) == RunThen(w, "lock")

\* func()
Run(w) == RunThen(w, "loop")

-----------------------------------------------------------------------------
(* submit: enqueue, then notify_one, both without m_conditional_mutex *)

Enqueue(c, t) ==
    /\ cpc[c] = "idle"
    /\ \A i \in DOMAIN submitted : submitted[i] # t
    /\ m_queue' = Append(m_queue, t)
    /\ submitted' = Append(submitted, t)
    /\ cpc' = [cpc EXCEPT ![c] = "notify"]
    /\ UNCHANGED <<wpc, waiting, holder, m_shutdown, spc, started, late>>

NotifyOne(c) ==
    /\ cpc[c] = "notify"
    /\ IF waiting = {} THEN UNCHANGED waiting
       ELSE \E w \in waiting : waiting' = waiting \ {w}
    /\ cpc' = [cpc EXCEPT ![c] = "idle"]
    /\ UNCHANGED <<wpc, holder, m_queue, m_shutdown, spc, history>>

-----------------------------------------------------------------------------
(* shutdown: the flag, notify_all, then join *)

SetShutdown ==
    /\ MayShutDown
    /\ spc = "idle" /\ holder = {}
    /\ m_shutdown' = TRUE /\ spc' = "notify"
    /\ UNCHANGED <<wpc, waiting, holder, m_queue, cpc, history>>

NotifyAll ==
    /\ spc = "notify"
    /\ waiting' = {} /\ spc' = "join"
    /\ UNCHANGED <<wpc, holder, m_queue, m_shutdown, cpc, history>>

JoinAll ==
    /\ spc = "join"
    /\ \A w \in Worker : wpc[w] = "exit"
    /\ spc' = "returned"
    /\ UNCHANGED <<wpc, waiting, holder, m_queue, m_shutdown, cpc, history>>

\* A condition variable may let wait return without a notification.
SpuriousWakeup(w) ==
    /\ w \in waiting
    /\ waiting' = waiting \ {w}
    /\ UNCHANGED <<wpc, holder, m_queue, m_shutdown, caller, history>>

-----------------------------------------------------------------------------
WorkerStep(w) == Loop(w) \/ Lock(w) \/ Wait(w) \/ Wake(w) \/ Take(w) \/ Run(w)

Next ==
    \/ \E w \in Worker : WorkerStep(w) \/ SpuriousWakeup(w)
    \/ \E c \in Client : NotifyOne(c) \/ \E t \in Task : Enqueue(c, t)
    \/ SetShutdown \/ NotifyAll \/ JoinAll

Spec == Init /\ [][Next]_vars

\* Threads run, and a worker that asks for the mutex gets it in the end.
\* Nobody has to call submit or shutdown, and nobody may count on a spurious
\* wakeup.
FairSpec ==
    /\ Spec
    /\ \A w \in Worker : WF_vars(WorkerStep(w)) /\ SF_vars(Lock(w) \/ Wake(w))
    /\ \A c \in Client : WF_vars(NotifyOne(c))
    /\ WF_vars(NotifyAll) /\ WF_vars(JoinAll)

-----------------------------------------------------------------------------
(* Properties *)

\* The type of every variable.
TypeOK ==
    /\ wpc \in [Worker -> {"loop", "lock", "wait", "blocked", "take", "run", "exit"}]
    /\ waiting \subseteq Worker /\ holder \subseteq Worker
    /\ m_queue \in Seq(Task) /\ submitted \in Seq(Task) /\ started \in Seq(Task)
    /\ m_shutdown \in BOOLEAN
    /\ cpc \in [Client -> {"idle", "notify"}]
    /\ spc \in {"idle", "notify", "join", "returned"}
    /\ late \in [Worker -> Nat]

\* Tasks are taken in the order they were submitted, each of them once,
\* whatever the workers' race for the queue after a notify_one.
FifoOnce == submitted = started \o m_queue

\* A worker starts at most one task once m_shutdown is set: the loop reads the
\* flag before every task, but outside the mutex.
ShutdownSoon == \A w \in Worker : late[w] <= 1

Queued(t) == \E i \in DOMAIN m_queue : m_queue[i] = t
Started(t) == \E i \in DOMAIN started : started[i] = t

\* submit: "Submit a function to be executed asynchronously by the pool".
\* Under FairSpec every task is started, unless shutdown comes first.  A
\* notification is lost when no worker is blocked yet; of several workers one
\* still looks at the queue later, a single worker (the default) may not.
EveryTaskRuns == \A t \in Task : Queued(t) ~> (Started(t) \/ m_shutdown)
=============================================================================
