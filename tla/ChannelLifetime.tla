-------------------------- MODULE ChannelLifetime --------------------------
(***************************************************************************)
(* The objects behind one channel (channel.cpp): which RpcClient objects   *)
(* exist, what m_client and m_rcv_client point to, and what becomes of the *)
(* unacknowledged packets, from the constructor over any number of calls,  *)
(* retries, exceptions and client_finish to the destructor.  Both ways to  *)
(* receive are here: redis, and pull, where a second client asks the local *)
(* server.                                                                 *)
(*                                                                         *)
(* RpcChannel has the packets, the threads and the redis lists; here they  *)
(* are a count of packets and the state of one stream.                     *)
(***************************************************************************)
EXTENDS Integers

CONSTANTS
    MaxSend,    \* bound: packets the application sends
    MaxBreaks,  \* bound: streams that break
    MaxRetry    \* the 120 of the retry loops

ASSUME LifetimeAssumption ==
    MaxSend \in Nat /\ MaxBreaks \in Nat /\ MaxRetry \in Nat \ {0}

VARIABLES
    m_use_redis, server,        \* how the channel was set up, and with whom
    pc, told, tries,            \* the application's thread
    m_client, m_rcv_client, live, born, \* pointers, and the objects there are
    m_use_rpc_version, stream, notack,  \* the members of *m_client
    continue_status,            \* the local variable of the retry loops
    breaks,
    accepted, acked,            \* history: packets send took, and acknowledged ones
    exhausted                   \* history: calls whose last try failed and that
                                \* returned as if it had not

setup    == <<m_use_redis, server>>
control  == <<pc, told, tries>>
objects  == <<m_client, m_rcv_client, live, born>>
client   == <<m_use_rpc_version, stream, notack>>
packets  == <<accepted, acked, exhausted>>
vars     == <<setup, control, objects, client, continue_status, breaks, packets>>

nullptr    == 0
Wild       == -1            \* a pointer that has not been assigned
not_inited == -1
v1         == 1
v2         == 2
Calls      == {"send", "recv", "flush"}
None       == [ver |-> not_inited, notack |-> 0, op |-> "none"]

Init ==
    /\ m_use_redis \in BOOLEAN /\ server \in {v1, v2}
    /\ pc = "new" /\ told = "nothing" /\ tries = 0
    /\ m_client = Wild /\ m_rcv_client = Wild /\ live = {} /\ born = 0
    /\ m_use_rpc_version = not_inited /\ stream = "none" /\ notack = 0
    /\ continue_status = None /\ breaks = 0
    /\ accepted = 0 /\ acked = 0 /\ exhausted = [op \in Calls |-> 0]

Goto(l) == pc' = l /\ UNCHANGED <<told, tries>>

\* create_channel has not thrown and client_finish was not called.
Usable == told \notin {"connect", "finished"}

\* The call ends: what the application is told is nothing, that the call failed
\* (an exception, or false from flush) or that create_channel did.
Leave(what) == pc' = "idle" /\ tries' = 0 /\ told' = IF Usable THEN what ELSE told

\* An access through a null, deleted or unassigned pointer: by one of the
\* application's calls ("badcall"), or by the channel itself ("crash")
Crash(where) == Goto(where) /\ UNCHANGED <<objects, client, continue_status, packets>>

-----------------------------------------------------------------------------
(* create_channel and destroy_channel *)

\* new RpcClient: no version, no stream, an empty queue
CreateChannel(next) ==
    /\ m_client' = born + 1
    /\ IF m_use_redis THEN /\ born' = born + 1 /\ live' = live \cup {born + 1}
                           /\ UNCHANGED m_rcv_client
       ELSE /\ born' = born + 2 /\ live' = live \cup {born + 1, born + 2}
            /\ m_rcv_client' = born + 2
    /\ m_use_rpc_version' = not_inited /\ stream' = "none" /\ notack' = 0
    /\ Goto(next)
    /\ UNCHANGED <<setup, continue_status, breaks, packets>>

Construct == pc = "new" /\ CreateChannel("idle")

\* The exception leaves the constructor, and there is no channel.
ConstructFails ==
    /\ pc = "new" /\ Goto("gone")
    /\ UNCHANGED <<setup, objects, client, continue_status, breaks, packets>>

\* A client that never sent has nothing to finish; one of version 1 without
\* a stream finishes through a null m_sender.
CanFinish == ~(m_use_rpc_version = v1 /\ stream = "none")

\* Mutant: m_client is not tested
DestroyableUntested == (m_use_redis \/ m_rcv_client \in live) /\ m_client \in live /\ CanFinish

\* What destroy_channel goes through before it frees the two clients
Destroyable ==
    /\ m_use_redis \/ m_rcv_client \in live
    /\ m_client = nullptr \/ (m_client \in live /\ CanFinish)

\* Mutant: the receiving client is not deleted
FreedKeepingReceiver == {m_client}

\* m_client is set to null, m_rcv_client is left as it is.
Freed == IF m_use_redis THEN {m_client} ELSE {m_client, m_rcv_client}

DestroyChannel(next) ==
    IF Destroyable
    THEN /\ live' = live \ Freed
         /\ m_client' = nullptr
         /\ stream' = "none" /\ notack' = 0
         /\ Goto(next)
         /\ UNCHANGED <<m_rcv_client, born, m_use_rpc_version, continue_status, packets>>
    ELSE Crash("crash")

-----------------------------------------------------------------------------
(* The application's calls *)

\* The application may go on after an exception.
Call(op) ==
    /\ pc = "idle"
    /\ op = "send" => accepted < MaxSend
    /\ Goto(op)
    /\ UNCHANGED <<setup, objects, client, continue_status, breaks, packets>>

\* Send, at its first packet: get_version and the stream, or an exception
InitSender ==
    /\ pc = "send" /\ m_client \in live /\ m_use_rpc_version = not_inited
    /\ \/ /\ m_use_rpc_version' = server /\ stream' = "open"
          /\ UNCHANGED <<notack, control>>
       \/ Leave("failed") /\ UNCHANGED client
    /\ UNCHANGED <<setup, objects, continue_status, breaks, packets>>

\* The packet is written; before version 2 it is neither kept nor acknowledged.
SendOk ==
    /\ pc = "send" /\ m_client \in live /\ stream = "open"
    /\ accepted' = accepted + 1
    /\ notack' = IF m_use_rpc_version = v2 THEN notack + 1 ELSE 0
    /\ Leave("nothing")
    /\ UNCHANGED <<setup, objects, m_use_rpc_version, stream, continue_status, breaks,
                   acked, exhausted>>

\* The client a call goes to
Used == IF pc = "recv" /\ ~m_use_redis THEN m_rcv_client ELSE m_client

\* There is no such client, or its m_sender is null
CallCrashes ==
    /\ pc \in Calls
    /\ Used \notin live \/ (pc = "send" /\ m_use_rpc_version = v1 /\ stream = "none")
    /\ Crash("badcall")
    /\ UNCHANGED <<setup, breaks>>

\* recv has the next message, or throws: redis timed out or a packet is
\* missing; pull answered that there is none, or failed
RecvReturns ==
    /\ pc = "recv" /\ Used \in live
    /\ Leave("nothing") \/ Leave("failed")
    /\ UNCHANGED <<setup, objects, client, continue_status, breaks, packets>>

\* flush returns true, or false when max_msec is over
FlushReturns ==
    /\ pc = "flush" /\ m_client \in live
    /\ IF notack = 0 THEN Leave("nothing") ELSE Leave("failed")
    /\ UNCHANGED <<setup, objects, client, continue_status, breaks, packets>>

-----------------------------------------------------------------------------
(* The retry of send, recv and flush *)

\* Send returned false, or Recv and wait_flush asked for a resend.  In pull
\* mode recv has no retry.
NeedsRetry ==
    /\ stream = "dead"
    /\ pc = "send" \/ (notack > 0 /\ (pc = "flush" \/ (pc = "recv" /\ m_use_redis)))

\* Mutant: the queue is deleted with the client
SaveNothing == [ver |-> m_use_rpc_version, notack |-> 0, op |-> pc]

\* get_continue_status: the queue moves to the local variable
GetContinueStatus == [ver |-> m_use_rpc_version, notack |-> notack, op |-> pc]

\* finish, get_continue_status, delete, m_client = nullptr
FinishClient ==
    /\ pc \in Calls /\ m_client \in live /\ NeedsRetry
    /\ continue_status' = GetContinueStatus
    /\ live' = live \ {m_client} /\ m_client' = nullptr
    /\ stream' = "none" /\ notack' = 0
    /\ Goto("destroy")
    /\ UNCHANGED <<setup, m_rcv_client, born, m_use_rpc_version, breaks, packets>>

RetryDestroy == pc = "destroy" /\ DestroyChannel("create") /\ UNCHANGED <<setup, breaks>>
RetryCreate  == pc = "create" /\ CreateChannel("restore")

\* create_channel throws: the local variable and its queue are gone
RetryCreateFails ==
    /\ pc = "create" /\ Leave("connect")
    /\ continue_status' = None
    /\ UNCHANGED <<setup, objects, client, breaks, packets>>

\* The loop ends with the result of the resend in the place of the call's own:
\* send and recv go by it and flush returns true, so a call may return normally
\* whose every try failed.
RetriesEnd(ok) ==
    LET op == continue_status.op IN
    IF ok \/ op = "flush"
    THEN /\ Leave("nothing")
         /\ exhausted' = [exhausted EXCEPT ![op] = @ + 1]
         /\ accepted' = IF op = "send" THEN accepted + 1 ELSE accepted
    ELSE Leave("failed") /\ UNCHANGED <<accepted, exhausted>>

TryAgain ==
    /\ pc' = continue_status.op /\ tries' = tries + 1
    /\ UNCHANGED <<told, accepted, exhausted>>

\* Mutants: one iteration too many; a resend that succeeds ends the loop
NextTryOnceMore(ok) == IF tries < MaxRetry THEN TryAgain ELSE RetriesEnd(ok)
NextTryUnlessResent(ok) ==
    IF ~ok /\ tries + 1 < MaxRetry THEN TryAgain ELSE RetriesEnd(ok)

NextTry(ok) == IF tries + 1 < MaxRetry THEN TryAgain ELSE RetriesEnd(ok)

\* set_continue_status, and the end of the iteration: ret is its result
SetContinueStatus(ok) ==
    /\ pc = "restore"
    /\ m_use_rpc_version' = continue_status.ver /\ notack' = continue_status.notack
    /\ IF continue_status.ver = v2
       THEN /\ ok \/ (notack' > 0 /\ breaks < MaxBreaks)
            /\ stream' = IF ok THEN "open" ELSE "dead"
            /\ breaks' = IF ok THEN breaks ELSE breaks + 1
       ELSE ok /\ UNCHANGED <<stream, breaks>>
    /\ continue_status' = None
    /\ NextTry(ok)
    /\ UNCHANGED <<setup, objects, acked>>

-----------------------------------------------------------------------------
(* The end, and what happens meanwhile *)

\* client_finish, which tests m_client
ClientFinish ==
    /\ pc = "idle"
    /\ IF m_client = nullptr
       THEN UNCHANGED <<control, objects, client, continue_status, packets>>
       ELSE IF m_client \in live /\ CanFinish
       THEN /\ live' = live \ {m_client} /\ m_client' = nullptr
            /\ stream' = "none" /\ notack' = 0
            /\ Leave("finished")
            /\ UNCHANGED <<m_rcv_client, born, m_use_rpc_version, continue_status, packets>>
       ELSE Crash("crash")
    /\ UNCHANGED <<setup, breaks>>

\* ~channel has waited: for the queue, a broken stream or ten seconds
Destruct == pc = "idle" /\ DestroyChannel("gone") /\ UNCHANGED <<setup, breaks>>

\* The thread of *m_client removes what is acknowledged.
Ack ==
    /\ m_client \in live /\ notack > 0 /\ stream # "none"
    /\ notack' = notack - 1 /\ acked' = acked + 1
    /\ UNCHANGED <<setup, control, objects, m_use_rpc_version, stream,
                   continue_status, breaks, accepted, exhausted>>

Break ==
    /\ stream = "open" /\ breaks < MaxBreaks
    /\ stream' = "dead" /\ breaks' = breaks + 1
    /\ UNCHANGED <<setup, control, objects, m_use_rpc_version, notack,
                   continue_status, packets>>

Ended == pc \in {"gone", "crash", "badcall"} /\ UNCHANGED vars

Next ==
    \/ Construct \/ ConstructFails \/ (\E op \in Calls : Call(op))
    \/ InitSender \/ SendOk \/ CallCrashes \/ RecvReturns \/ FlushReturns
    \/ FinishClient \/ RetryDestroy \/ RetryCreate \/ RetryCreateFails
    \/ (\E ok \in BOOLEAN : SetContinueStatus(ok))
    \/ ClientFinish \/ Destruct \/ Ack \/ Break \/ Ended

Spec == Init /\ [][Next]_vars

-----------------------------------------------------------------------------
(* Properties *)

\* The type of every variable.
TypeOK ==
    /\ m_use_redis \in BOOLEAN /\ server \in {v1, v2}
    /\ pc \in Calls \cup {"new", "idle", "destroy", "create", "restore", "gone", "crash",
                       "badcall"}
    /\ told \in {"nothing", "failed", "connect", "finished"}
    /\ tries \in 0 .. MaxRetry - 1
    /\ born \in Nat /\ live \subseteq 1 .. born
    /\ m_client \in {nullptr, Wild} \cup (1 .. born)
    /\ m_rcv_client \in {Wild} \cup (1 .. born)
    /\ m_use_rpc_version \in {not_inited, v1, v2}
    /\ stream \in {"none", "open", "dead"}
    /\ breaks \in 0 .. MaxBreaks
    /\ notack \in Nat /\ accepted \in Nat /\ acked \in Nat
    /\ exhausted \in [Calls -> Nat]
    /\ continue_status \in [ver : {not_inited, v1, v2}, notack : Nat, op : Calls \cup {"none"}]

\* The client the constructor created was replaced by a retry.
Replaced == born > (IF m_use_redis THEN 1 ELSE 2)

\* No pointer is used before it is assigned or after what it points to is
\* deleted: not by a call that retries or comes after an exception, not by a
\* second client_finish, and not by the destructor, whichever of them failed
\* before.  Three sequences are known to do so.  With a version 1 server
\* set_continue_status opens no stream.  In pull mode a reconnect that fails
\* leaves m_rcv_client pointing to what destroy_channel deleted, and the
\* destructor deletes it again.  And when connecting failed or client_finish was
\* called, a further send, recv or flush does not test m_client.
NoDanglingUse ==
    /\ pc = "crash" => (server = v1 /\ Replaced) \/ (~m_use_redis /\ told = "connect")
    /\ pc = "badcall" => (server = v1 /\ Replaced) \/ ~Usable

\* Every client, with its connection and its thread, can still be reached and
\* deleted, and none is left when the channel is gone.
NoOrphan ==
    /\ live \subseteq {m_client, m_rcv_client}
    /\ pc = "gone" => live = {}

\* A call that returns normally has done what it says, unless MaxRetry streams
\* broke under it one after the other: only a loop that is used up takes the
\* result of the resend for that of Send, Recv or wait_flush (channel.cpp:147,
\* :200 and :318), and each of its tries has cost a break of its own.
OnlyAfterAllTries ==
    MaxRetry * (exhausted["send"] + exhausted["recv"] + exhausted["flush"]) <= breaks

\* With a version 2 server each packet of a send that returned normally is
\* acknowledged, queued or in the hands of a retry, however often clients are
\* replaced, except for one packet of each send whose loop was used up.  It
\* holds until the application itself ends the channel or is told by an exception
\* that connecting failed.  (Version 1 keeps nothing and has no acknowledgement.)
NoQuietDrop ==
    server = v2 /\ Usable /\ pc \notin {"gone", "crash", "badcall"}
    => accepted = acked + notack + continue_status.notack + exhausted["send"]
=============================================================================
