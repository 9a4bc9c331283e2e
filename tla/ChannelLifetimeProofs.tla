----------------------- MODULE ChannelLifetimeProofs -----------------------
(***************************************************************************)
(* Theorems about ChannelLifetime, for any number of packets, broken       *)
(* streams and retries.  LifeInv says, for every place the application's   *)
(* thread can be, which clients exist and where the queue is.              *)
(***************************************************************************)
EXTENDS ChannelLifetime, TLAPS

Retrying == {"destroy", "create", "restore"}

\* The members that are never assigned again, and the clients that exist
Pointers ==
    /\ m_use_redis => m_rcv_client = Wild
    /\ live \subseteq {m_client, m_rcv_client}
    /\ m_client \in live /\ m_rcv_client \in live => m_client # m_rcv_client
    /\ pc \in Calls \cup Retrying \cup {"idle"} => born >= (IF m_use_redis THEN 1 ELSE 2)

Receiver == m_use_redis \/ m_rcv_client \in live
Serving == m_client \in live /\ Receiver

\* Which clients exist at each place of the code
Places ==
    /\ pc = "new" => live = {} /\ m_client = Wild /\ m_rcv_client = Wild /\ told = "nothing"
    /\ pc = "restore" => Serving
    /\ pc \in Calls \cup {"idle"} =>
          /\ Usable => Serving
          /\ told = "connect" => m_client = nullptr /\ live = {}
          /\ told = "finished" => m_client = nullptr /\ Receiver
    /\ pc = "destroy" => m_client = nullptr /\ Receiver
    /\ pc = "create" => m_client = nullptr /\ live = {}
    /\ pc = "gone" => live = {}
    /\ pc \in Retrying => Usable

\* The client's version, stream and queue
Version ==
    /\ m_use_rpc_version \in {not_inited, server}
    /\ m_use_rpc_version = not_inited => stream = "none"
    /\ m_use_rpc_version # v2 => notack = 0
    /\ m_client \in live /\ m_use_rpc_version = v1 /\ stream = "none" => Replaced

\* The queue is in one place: with the client, or with the retry.
Queue ==
    /\ pc \in Retrying =>
          /\ notack = 0
          /\ continue_status.ver = server /\ continue_status.op \in Calls
          /\ server # v2 => continue_status.notack = 0
    /\ pc \notin Retrying => continue_status = None \/ pc \in {"crash", "badcall"}
    /\ pc = "new" => notack = 0
    /\ pc = "restore" => Replaced

\* Calls that returned normally though their last try failed
Exhausted == exhausted["send"] + exhausted["recv"] + exhausted["flush"]

\* What the call in progress has used up: its failed tries, and the stream whose
\* end the next one, or the one being repeated, is about
Failing == tries + (IF stream = "dead" \/ pc \in Retrying THEN 1 ELSE 0)

\* Each try that failed has cost a break of its own.
TriesInv ==
    /\ MaxRetry * Exhausted + Failing <= breaks
    /\ pc \in Retrying => stream = "none"

LifeInv == TypeOK /\ Pointers /\ Places /\ Version /\ Queue /\ NoDanglingUse /\ NoQuietDrop

-----------------------------------------------------------------------------
\* A channel that is not constructed yet satisfies the invariant.
LEMMA InitInv == Init => LifeInv
BY LifetimeAssumption DEF Init, LifeInv, TypeOK, Pointers, Places, Version, Queue,
   NoDanglingUse, NoQuietDrop, Calls, Retrying, None, Wild, nullptr, not_inited, v1, v2,
   Replaced, Serving, Receiver, Usable

\* The invariant speaks of the variables only.
LEMMA StutterInv == LifeInv /\ UNCHANGED vars => LifeInv'
BY DEF LifeInv, TypeOK, Pointers, Places, Version, Queue, NoDanglingUse, NoQuietDrop,
   vars, setup, control, objects, client, packets, Replaced, Serving, Receiver, Usable

\* new RpcClient, in the constructor and in a retry
LEMMA CreateChannelInv ==
    ASSUME LifeInv, NEW next, CreateChannel(next),
           (pc = "new" /\ next = "idle") \/ (pc = "create" /\ next = "restore")
    PROVE  LifeInv'
<1> USE DEF Retrying, Wild, nullptr, not_inited, v1, v2
<1>1. /\ born \in Nat /\ live = {} /\ told \in {"nothing", "failed"}
      /\ pc = "create" => born >= (IF m_use_redis THEN 1 ELSE 2)
  BY DEF LifeInv, TypeOK, Places, Pointers, Usable
<1>2. /\ m_client' = born + 1 /\ m_client' \in live' /\ live' \subseteq 1 .. born'
      /\ live' \subseteq {m_client', m_rcv_client'} /\ born' > born
      /\ m_use_redis \/ (m_rcv_client' = born + 2 /\ m_rcv_client' \in live' /\ born' = born + 2)
      /\ m_use_redis => UNCHANGED m_rcv_client /\ born' = born + 1
      /\ m_use_redis' = m_use_redis
  BY <1>1 DEF CreateChannel, setup
<1>3. TypeOK'
  BY <1>1, <1>2 DEF CreateChannel, LifeInv, TypeOK, setup, packets, Goto
<1>4. Pointers'
  BY <1>1, <1>2 DEF CreateChannel, LifeInv, Pointers, setup, Goto
<1>5. Places'
  BY <1>1, <1>2 DEF CreateChannel, LifeInv, Places, Goto, Serving, Receiver, Usable, Calls
<1>6. Version' /\ Queue'
  BY <1>1, <1>2 DEF CreateChannel, LifeInv, TypeOK, Version, Queue, setup, Goto, Replaced, Calls
<1>7. NoDanglingUse' /\ NoQuietDrop'
  BY <1>1 DEF CreateChannel, LifeInv, TypeOK, Queue, Version, NoDanglingUse, NoQuietDrop, Goto,
     packets, None, Usable, Places, setup
<1>. QED BY <1>3, <1>4, <1>5, <1>6, <1>7 DEF LifeInv

\* create_channel, in the constructor and in a retry
LEMMA CreateInv ==
    ASSUME LifeInv, Construct \/ ConstructFails \/ RetryCreate \/ RetryCreateFails
    PROVE  LifeInv'
<1> USE LifetimeAssumption DEF LifeInv, TypeOK, Pointers, Places, Version, Queue,
        NoDanglingUse, NoQuietDrop, Calls, Retrying, None, Wild, nullptr, not_inited,
        v1, v2, Replaced, Serving, Receiver, Usable, setup, objects, client, packets, Goto, Leave
<1>1. CASE Construct
  BY <1>1, CreateChannelInv DEF Construct
<1>2. CASE ConstructFails
  BY <1>2 DEF ConstructFails
<1>3. CASE RetryCreate
  BY <1>3, CreateChannelInv DEF RetryCreate
<1>4. CASE RetryCreateFails
  BY <1>4 DEF RetryCreateFails
<1>. QED BY <1>1, <1>2, <1>3, <1>4

\* Send, recv and flush as far as they do not retry
LEMMA CallInv ==
    ASSUME LifeInv,
           \/ (\E op \in Calls : Call(op)) \/ InitSender \/ SendOk \/ CallCrashes
           \/ RecvReturns \/ FlushReturns
    PROVE  LifeInv'
<1> USE LifetimeAssumption DEF LifeInv, TypeOK, Pointers, Places, Version, Queue,
        NoDanglingUse, NoQuietDrop, Calls, Retrying, None, Wild, nullptr, not_inited,
        v1, v2, Replaced, Serving, Receiver, Usable, setup, objects, client, packets, control,
        Goto, Leave
<1>1. ASSUME NEW op \in Calls, Call(op) PROVE LifeInv'
  BY <1>1 DEF Call
<1>2. CASE InitSender
  BY <1>2 DEF InitSender
<1>3. CASE SendOk
  BY <1>3 DEF SendOk
<1>4. CASE CallCrashes
  BY <1>4 DEF CallCrashes, Crash, Used
<1>5. CASE RecvReturns
  BY <1>5 DEF RecvReturns
<1>6. CASE FlushReturns
  BY <1>6 DEF FlushReturns
<1>. QED BY <1>1, <1>2, <1>3, <1>4, <1>5, <1>6

\* A crash at one of the two known sequences that end in one
LEMMA CrashInv ==
    ASSUME LifeInv, pc = "idle", pc' = "crash",
           UNCHANGED <<told, tries, objects, client, continue_status, packets, setup, breaks>>,
           (server = v1 /\ Replaced) \/ (~m_use_redis /\ told = "connect")
    PROVE  LifeInv'
BY DEF LifeInv, TypeOK, Pointers, Places, Version, Queue, NoDanglingUse, NoQuietDrop, Calls,
   Retrying, setup, objects, client, packets, Replaced, Serving, Receiver, Usable

\* destroy_channel, in a retry and in the destructor; client_finish
LEMMA DestroyInv ==
    ASSUME LifeInv, RetryDestroy \/ Destruct \/ ClientFinish
    PROVE  LifeInv'
<1> USE LifetimeAssumption DEF LifeInv, Retrying, None, Wild, nullptr, not_inited, v1, v2, setup,
        packets, Goto, Crash, Leave, objects, client
<1>0. /\ live \subseteq 1 .. born /\ born \in Nat /\ nullptr \notin live /\ Wild \notin live
      /\ live \subseteq Freed
  BY DEF TypeOK, Pointers, Freed
<1>1. CASE RetryDestroy
  <2>1. m_client = nullptr /\ Receiver /\ Usable
    BY <1>1 DEF RetryDestroy, Places, Calls
  <2>2. Destroyable
    BY <2>1 DEF Destroyable, Receiver
  <2>3. /\ pc = "destroy" /\ pc' = "create" /\ live' = {} /\ m_client' = nullptr
        /\ stream' = "none" /\ notack' = 0
        /\ UNCHANGED <<m_rcv_client, born, m_use_rpc_version, continue_status, packets,
                        told, tries, setup, breaks>>
    BY <1>0, <1>1, <2>2 DEF RetryDestroy, DestroyChannel
  <2>4. TypeOK'
    BY <2>3 DEF TypeOK
  <2>5. Pointers' /\ Places' /\ Version'
    BY <2>1, <2>3 DEF Pointers, Places, Calls, Version, TypeOK, Usable, Serving, Receiver, Replaced
  <2>6. Queue' /\ NoDanglingUse' /\ NoQuietDrop'
    BY <2>3 DEF Queue, NoDanglingUse, NoQuietDrop, TypeOK, Replaced, Usable
  <2>. QED BY <2>4, <2>5, <2>6
<1>2. CASE Destruct
  <2>1. CASE Destroyable
    <3>1. /\ pc = "idle" /\ pc' = "gone" /\ live' = {} /\ m_client' = nullptr
          /\ stream' = "none" /\ notack' = 0
          /\ UNCHANGED <<m_rcv_client, born, m_use_rpc_version, continue_status, packets,
                          told, tries, setup, breaks>>
      BY <1>0, <1>2, <2>1 DEF Destruct, DestroyChannel
    <3>2. TypeOK'
      BY <3>1 DEF TypeOK
    <3>3. Pointers' /\ Places' /\ Version'
      BY <3>1 DEF Pointers, Places, Calls, Version, TypeOK, Usable, Serving, Receiver, Replaced
    <3>4. Queue' /\ NoDanglingUse' /\ NoQuietDrop'
      BY <3>1 DEF Queue, NoDanglingUse, NoQuietDrop, TypeOK, Replaced
    <3>. QED BY <3>2, <3>3, <3>4
  <2>2. CASE ~Destroyable
    <3>1. /\ pc = "idle" /\ pc' = "crash"
          /\ UNCHANGED <<told, tries, objects, client, continue_status, packets, setup, breaks>>
      BY <1>2, <2>2 DEF Destruct, DestroyChannel
    <3>2. (server = v1 /\ Replaced) \/ (~m_use_redis /\ told = "connect")
      BY <3>1, <2>2 DEF Destroyable, Places, Usable, Serving, Receiver, CanFinish, Version, TypeOK
    <3>. QED BY <3>1, <3>2, CrashInv
  <2>. QED BY <2>1, <2>2
<1>3. CASE ClientFinish
  <2>1. CASE m_client = nullptr
    <3>1. UNCHANGED vars
      BY <1>3, <2>1 DEF ClientFinish, vars, control
    <3>. QED BY <3>1, StutterInv
  <2>2. ASSUME m_client # nullptr PROVE pc = "idle" /\ Usable /\ Serving
    BY <1>3, <2>2 DEF ClientFinish, Places, TypeOK, Usable, Calls
  <2>3. CASE m_client # nullptr /\ CanFinish
    <3>1. /\ pc = "idle" /\ pc' = "idle" /\ told' = "finished" /\ tries' = 0
          /\ live' = live \ {m_client} /\ m_client' = nullptr
          /\ stream' = "none" /\ notack' = 0 /\ Serving
          /\ UNCHANGED <<m_rcv_client, born, m_use_rpc_version, continue_status, packets,
                          setup, breaks>>
      BY <1>3, <2>2, <2>3 DEF ClientFinish, Serving
    <3>2. Receiver' /\ live' \subseteq {m_rcv_client} /\ live' \subseteq 1 .. born
      BY <1>0, <2>3, <3>1 DEF Receiver, Serving, Pointers
    <3>3. TypeOK'
      BY <3>1, <3>2 DEF TypeOK
    <3>4. Pointers' /\ Places' /\ Version'
      BY <3>1, <3>2, <1>0 DEF Pointers, Places, Calls, Version, TypeOK, Usable, Replaced
    <3>5. Queue' /\ NoDanglingUse' /\ NoQuietDrop'
      BY <3>1 DEF Queue, NoDanglingUse, NoQuietDrop, TypeOK, Replaced, Usable
    <3>. QED BY <3>3, <3>4, <3>5
  <2>4. CASE m_client # nullptr /\ ~CanFinish
    <3>1. /\ pc = "idle" /\ pc' = "crash"
          /\ UNCHANGED <<told, tries, objects, client, continue_status, packets, setup, breaks>>
      BY <1>3, <2>4 DEF ClientFinish
    <3>2. server = v1 /\ Replaced
      BY <2>2, <2>4 DEF Serving, CanFinish, Version, TypeOK
    <3>. QED BY <3>1, <3>2, CrashInv
  <2>. QED BY <2>1, <2>3, <2>4
<1>. QED BY <1>1, <1>2, <1>3

\* The steps of a retry that move the queue, and the thread and the network
LEMMA RetryInv ==
    ASSUME LifeInv,
           FinishClient \/ (\E ok \in BOOLEAN : SetContinueStatus(ok)) \/ Ack \/ Break
    PROVE  LifeInv'
<1> USE LifetimeAssumption DEF LifeInv, TypeOK, Pointers, Places, Version, Queue,
        NoDanglingUse, NoQuietDrop, Calls, Retrying, None, Wild, nullptr, not_inited,
        v1, v2, Replaced, Serving, Receiver, Usable, setup, objects, client, packets, control,
        Goto, Leave
<1>1. CASE FinishClient
  BY <1>1 DEF FinishClient, NeedsRetry, GetContinueStatus
<1>2. ASSUME NEW ok \in BOOLEAN, SetContinueStatus(ok) PROVE LifeInv'
  <2>1. CASE tries + 1 < MaxRetry
    BY <1>2, <2>1 DEF SetContinueStatus, NextTry, TryAgain
  <2>2. CASE ~(tries + 1 < MaxRetry)
    <3>1. RetriesEnd(ok) /\ continue_status.op \in Calls /\ pc = "restore"
      BY <1>2, <2>2 DEF SetContinueStatus, NextTry
    <3>2. Pointers' /\ Places' /\ Version' /\ Queue' /\ NoDanglingUse'
      BY <1>2, <3>1 DEF SetContinueStatus, RetriesEnd
    <3>3. exhausted' \in [Calls -> Nat] /\ accepted' \in Nat
          /\ accepted' - exhausted'["send"] = accepted - exhausted["send"]
      BY <3>1 DEF RetriesEnd
    <3>4. TypeOK'
      BY <1>2, <3>1, <3>3 DEF SetContinueStatus, RetriesEnd
    <3>5. NoQuietDrop'
      BY <1>2, <3>1, <3>3 DEF SetContinueStatus, RetriesEnd
    <3>. QED BY <3>2, <3>4, <3>5
  <2>. QED BY <2>1, <2>2
<1>3. CASE Ack
  BY <1>3 DEF Ack
<1>4. CASE Break
  BY <1>4 DEF Break
<1>. QED BY <1>1, <1>2, <1>3, <1>4

\* Every step preserves the invariant.
LEMMA NextInv == LifeInv /\ [Next]_vars => LifeInv'
BY CreateInv, CallInv, DestroyInv, RetryInv, StutterInv DEF Next, Ended

-----------------------------------------------------------------------------
\* One more exhausted call weighs MaxRetry breaks.
LEMMA OneMore ==
    ASSUME NEW n \in Nat
    PROVE  MaxRetry * n \in Nat /\ MaxRetry * (n + 1) = MaxRetry * n + MaxRetry
BY LifetimeAssumption

\* The counts are natural numbers.
LEMMA CountTypes ==
    ASSUME TypeOK
    PROVE  Exhausted \in Nat /\ tries \in Nat /\ breaks \in Nat /\ MaxRetry \in Nat \ {0}
BY LifetimeAssumption DEF TypeOK, Exhausted, Calls

\* No step but the end of a try makes the tries of a call more, and a stream
\* that breaks is one break.
LEMMA TriesKept ==
    ASSUME TypeOK, TypeOK', TriesInv, UNCHANGED exhausted,
           tries' \in {0, tries}, pc' \in Retrying => stream' = "none",
           \/ breaks' = breaks /\ (stream' = "dead" \/ pc' \in Retrying
                                   => stream = "dead" \/ pc \in Retrying)
           \/ breaks' = breaks + 1
    PROVE  TriesInv'
<1> DEFINE w == MaxRetry * Exhausted
<1>1. w \in Nat /\ w' = w /\ tries \in Nat /\ breaks \in Nat /\ w + Failing <= breaks
  BY CountTypes, OneMore DEF TriesInv, Exhausted
<1> HIDE DEF w
<1>2. w + Failing' <= breaks'
  BY <1>1 DEF Failing
<1>. QED BY <1>1, <1>2 DEF TriesInv, w

\* The end of a try, in which the stream is a new one: it counts as a failed
\* try, or all of them as an exhausted call.
LEMMA TriesSpent ==
    ASSUME LifeInv, TypeOK', TriesInv, NEW ok \in BOOLEAN, SetContinueStatus(ok)
    PROVE  TriesInv'
<1> DEFINE w == MaxRetry * Exhausted
           w1 == MaxRetry * Exhausted'
<1>0. TypeOK
  BY DEF LifeInv
<1>1. /\ w \in Nat /\ tries \in Nat /\ breaks \in Nat /\ MaxRetry \in Nat \ {0}
      /\ Exhausted \in Nat /\ w + tries + 1 <= breaks
  <2>1. w \in Nat /\ w + Failing <= breaks /\ pc \in Retrying
    BY <1>0, CountTypes, OneMore DEF TriesInv, SetContinueStatus, Retrying
  <2>. QED BY <1>0, <2>1, CountTypes DEF Failing
<1>2. /\ continue_status.op \in Calls /\ stream = "none"
      /\ \/ breaks' = breaks /\ stream' # "dead"
         \/ breaks' = breaks + 1
  BY DEF SetContinueStatus, LifeInv, Queue, TriesInv, Retrying
<1>3. pc' \notin Retrying
  BY <1>2 DEF SetContinueStatus, NextTry, TryAgain, RetriesEnd, Leave, Calls, Retrying
<1>4. CASE tries + 1 < MaxRetry
  <2>1. tries' = tries + 1 /\ w1 = w
    BY <1>4 DEF SetContinueStatus, NextTry, TryAgain, Exhausted
  <2> HIDE DEF w, w1
  <2>2. w1 + Failing' <= breaks'
    BY <1>1, <1>2, <1>3, <2>1 DEF Failing
  <2>. QED BY <1>3, <2>2 DEF TriesInv, w1
<1>5. CASE ~(tries + 1 < MaxRetry)
  <2>1. tries' = 0 /\ MaxRetry = tries + 1
    BY <1>0, <1>1, <1>5 DEF SetContinueStatus, NextTry, RetriesEnd, Leave, TypeOK
  <2>2. Exhausted' \in {Exhausted, Exhausted + 1}
    BY <1>0, <1>2, <1>5 DEF SetContinueStatus, NextTry, RetriesEnd, Exhausted, TypeOK, Calls
  <2>3. w1 \in {w, w + MaxRetry}
    BY <1>1, <2>2, OneMore
  <2> HIDE DEF w, w1
  <2>4. w1 + Failing' <= breaks'
    BY <1>1, <1>2, <1>3, <2>1, <2>3 DEF Failing
  <2>. QED BY <1>3, <2>4 DEF TriesInv, w1
<1>. QED BY <1>4, <1>5

\* Every step keeps the account of tries and breaks.
LEMMA TriesStep ==
    ASSUME LifeInv, LifeInv', TriesInv, [Next]_vars
    PROVE  TriesInv'
<1> USE DEF Retrying, Calls, setup, control, objects, client, packets
<1>0. TypeOK /\ TypeOK'
  BY DEF LifeInv
<1>1. ASSUME NEW ok \in BOOLEAN, SetContinueStatus(ok) PROVE TriesInv'
  BY <1>0, <1>1, TriesSpent
<1>2. CASE Construct \/ ConstructFails \/ RetryCreate \/ RetryCreateFails
  BY <1>0, <1>2, TriesKept DEF Construct, ConstructFails, RetryCreate, RetryCreateFails,
     CreateChannel, Goto, Leave, TriesInv
<1>3. CASE (\E op \in Calls : Call(op)) \/ InitSender \/ SendOk \/ CallCrashes
  BY <1>0, <1>3, TriesKept DEF Call, InitSender, SendOk, CallCrashes, Crash, Goto, Leave, TriesInv
<1>4. CASE RecvReturns \/ FlushReturns
  BY <1>0, <1>4, TriesKept DEF RecvReturns, FlushReturns, Leave, TriesInv
<1>5. CASE FinishClient
  BY <1>0, <1>5, TriesKept DEF FinishClient, NeedsRetry, Goto, TriesInv
<1>6. CASE RetryDestroy \/ Destruct
  BY <1>0, <1>6, TriesKept DEF RetryDestroy, Destruct, DestroyChannel, Crash, Goto, TriesInv
<1>7. CASE ClientFinish
  BY <1>0, <1>7, TriesKept DEF ClientFinish, Crash, Goto, Leave, TriesInv
<1>8. CASE Ack \/ Break
  BY <1>0, <1>8, TriesKept DEF Ack, Break, TriesInv
<1>9. CASE UNCHANGED vars \/ Ended
  BY <1>0, <1>9, TriesKept DEF vars, Ended, TriesInv
<1>. QED BY <1>1, <1>2, <1>3, <1>4, <1>5, <1>6, <1>7, <1>8, <1>9 DEF Next

\* LifeInv is an invariant of every channel.
THEOREM LifeInvariant == Spec => []LifeInv
BY InitInv, NextInv, PTL DEF Spec

\* The variables of a channel keep their types: the retry loops stay within
\* MaxRetry, and no pointer leaves the clients created so far.
THEOREM LifetimeTypes == Spec => []TypeOK
<1>1. LifeInv => TypeOK
  BY DEF LifeInv
<1>. QED BY LifeInvariant, <1>1, PTL

\* No pointer is used after what it points to is deleted, but for the three known
\* sequences, however often calls fail, retry or throw.
THEOREM PointersSafe == Spec => []NoDanglingUse
<1>1. LifeInv => NoDanglingUse
  BY DEF LifeInv
<1>. QED BY LifeInvariant, <1>1, PTL

\* Every client can be deleted, and is when the channel is gone.
THEOREM ClientsOwned == Spec => []NoOrphan
<1>1. LifeInv => NoOrphan
  BY DEF LifeInv, Pointers, Places, NoOrphan
<1>. QED BY LifeInvariant, <1>1, PTL

\* Only a call whose loop was used up returns as if a failed try had not failed,
\* and each such call stands for MaxRetry broken streams of its own.
THEOREM ReturnsAreTrue == Spec => []OnlyAfterAllTries
<1>1. Init => TriesInv
  <2> SUFFICES ASSUME Init PROVE TriesInv
    OBVIOUS
  <2>1. Exhausted = 0
    BY DEF Init, Exhausted, Calls
  <2>. QED BY <2>1, LifetimeAssumption DEF Init, TriesInv, Failing, Retrying
<1>2. LifeInv /\ LifeInv' /\ TriesInv /\ [Next]_vars => TriesInv'
  BY TriesStep
<1>3. LifeInv /\ TriesInv => OnlyAfterAllTries
  <2> SUFFICES ASSUME TypeOK, TriesInv PROVE OnlyAfterAllTries
    BY DEF LifeInv
  <2> DEFINE w == MaxRetry * Exhausted
  <2>1. w \in Nat /\ tries \in Nat /\ breaks \in Nat /\ w + Failing <= breaks
    BY CountTypes, OneMore DEF TriesInv
  <2> HIDE DEF w
  <2>2. w <= breaks
    BY <2>1 DEF Failing
  <2>. QED BY <2>2 DEF w, OnlyAfterAllTries, Exhausted
<1>. QED BY <1>1, <1>2, <1>3, LifeInvariant, PTL DEF Spec

\* With a version 2 server no packet of a send that returned normally is dropped
\* while the application counts on the channel, but the one packet of each send
\* whose loop was used up.
THEOREM PacketsKept == Spec => []NoQuietDrop
<1>1. LifeInv => NoQuietDrop
  BY DEF LifeInv
<1>. QED BY LifeInvariant, <1>1, PTL
=============================================================================
