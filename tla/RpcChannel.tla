---------------------------- MODULE RpcChannel ----------------------------
(***************************************************************************)
(* Two parties exchange messages through class channel (channel.cpp) and   *)
(* class RpcClient (grpc_client.cpp), in redis mode.  Party p writes       *)
(* packets to a gRPC stream served by the server next to Peer[p]; that     *)
(* server pushes every packet to the redis list Peer[p] pops from and,     *)
(* from protocol version 2, acknowledges it.  RpcClient keeps what is not  *)
(* acknowledged in m_notack_queue; when the stream breaks, channel closes  *)
(* the client, opens a new one and resends the queue.                      *)
(*                                                                         *)
(* A party has two threads: the caller's, at pc[p], and the one            *)
(* init_sender starts, at tpc[p].  The server and redis are not in this    *)
(* repository: "Server and network" states what the client relies on.      *)
(***************************************************************************)
EXTENDS Integers, SequencesExt

CONSTANTS
    Party, Peer,    \* the two ends of the channel
    Msg,            \* what the application sends
    NoMsg,          \* an empty string: no data
    Garbled,        \* a body with its packet number still in front
    Script,         \* the calls each application makes, in order
    ServerVersion,  \* get_version of the server next to p (0: unimplemented)
    Window,         \* flow control: what a stream holds in each direction
    ClusterMode,    \* CPP_REDIS_CLUSTER_MODE, "" when it is not set
    ThreeFactors,   \* CPP_REDIS_USE_THREE_FACTORS is set
    MaxRetry,       \* the 120 of the retry loops of channel.cpp
    MaxBreaks,      \* bound: how often the streams of a party may break
    MayTimeOut,     \* m_redis_timeout and max_msec are finite
    ConnectMayFail, \* WaitForConnected and get_version may give up
    RedisMayLose    \* brpop may fail after redis has removed the element

ASSUME PeerAssumption ==
    /\ Peer \in [Party -> Party]
    /\ \A p \in Party : Peer[p] # p /\ Peer[Peer[p]] = p

ASSUME MsgAssumption == NoMsg \notin Msg /\ Garbled \notin Msg

ASSUME ScriptAssumption ==
    /\ Script \in [Party -> Seq({"send", "recv", "flush"})]
    /\ ServerVersion \in [Party -> Nat]

ASSUME BoundAssumption ==
    /\ MaxRetry \in Nat \ {0, 1} /\ MaxBreaks \in Nat /\ Window \in Nat \ {0}
    /\ {MayTimeOut, ConnectMayFail, RedisMayLose, ThreeFactors} \subseteq BOOLEAN

VARIABLES
    pc, at, tries, ret, content,                        \* the caller's thread
    m_use_rpc_version, m_use_redis_data_version,        \* RpcClient
    m_seq, m_recv_idx, m_notack_queue, resent,
    tpc, resp,                                          \* its thread
    stream, cur, srv, up, down, redis, marked, breaks,  \* gRPC and redis
    sent, got       \* history: the arguments of send, the results of recv

call    == <<pc, at, tries, ret>>
version == <<m_use_rpc_version, m_use_redis_data_version>>
client  == <<version, m_seq, m_recv_idx, m_notack_queue, resent>>
thread  == <<tpc, resp>>
link    == <<stream, cur, srv>>
list    == <<redis, marked>>
net     == <<link, up, down, list, breaks>>
history == <<sent, got>>
vars    == <<call, content, client, thread, net, history>>

\* The enums ServiceVersion and RedisDataVersion; RecvThreadStatus follows
\* from where the thread is.
not_inited == -1
v1         == 1
v2         == 2
m_recv_thread_status(p) ==
    CASE tpc[p] \in {"none", "new"} -> "not_inited"
      [] tpc[p] \in {"read", "acked", "pop"} -> "started"
      [] tpc[p] = "done" -> "finished"

Packet == [seq : Nat, body : Msg]

\* A redis list holds packets and the command -1 of the server; its first
\* element starts with data_version_magic_string.
Disconnected == -1
Element == [seq : Nat \cup {Disconnected}, body : Msg \cup {NoMsg}, magic : BOOLEAN]

Stream == 1 .. (MaxBreaks + 1)              \* the streams of one party

Op(p) == IF at[p] <= Len(Script[p]) THEN Script[p][at[p]] ELSE "close"

Each(x) == [p \in Party |-> x]

\* Both ends constructed their channel.
Init ==
    /\ pc = Each("idle") /\ at = Each(1) /\ tries = Each(0)
    /\ ret = Each("ok") /\ content = Each(NoMsg)
    /\ m_use_rpc_version = Each(not_inited)
    /\ m_use_redis_data_version = Each(not_inited)
    /\ m_seq = Each(0) /\ m_recv_idx = Each(-1)
    /\ m_notack_queue = Each(<<>>) /\ resent = Each(0)
    /\ tpc = Each("none") /\ resp = Each(0)
    /\ stream = Each("none") /\ cur = Each(0) /\ srv = Each({})
    /\ up = Each([k \in Stream |-> <<>>]) /\ down = Each(<<>>)
    /\ redis = Each(<<>>) /\ marked = Each(FALSE) /\ breaks = Each(0)
    /\ sent = Each(<<>>) /\ got = Each(<<>>)

-----------------------------------------------------------------------------
(* How a call of the application goes on, returns or throws *)

Goto(p, l) ==
    /\ pc' = [pc EXCEPT ![p] = l]
    /\ UNCHANGED <<at, tries, ret>>

Leave(p, next, r) ==
    /\ pc' = [pc EXCEPT ![p] = "idle"]
    /\ at' = [at EXCEPT ![p] = next]
    /\ tries' = [tries EXCEPT ![p] = 0]
    /\ ret' = [ret EXCEPT ![p] = r]

Return(p, r) == Leave(p, at[p] + 1, r)

\* The exception leaves the application's function: only ~channel follows.
Throw(p) == Leave(p, Len(Script[p]) + 1, "throw")

\* The end of an iteration of a retry loop, whose ret is now what
\* set_continue_status returned.  After the last one send and recv go by
\* that ret and flush returns true; recv hands out the string it was given.
NextTry(p, ok) ==
    IF tries[p] + 1 < MaxRetry
    THEN /\ tries' = [tries EXCEPT ![p] = @ + 1]
         /\ pc' = [pc EXCEPT ![p] = Op(p)]
         /\ UNCHANGED <<at, ret, got>>
    ELSE IF ok \/ Op(p) = "flush"
    THEN /\ Return(p, "ok")
         /\ got' = IF Op(p) = "recv" THEN [got EXCEPT ![p] = Append(@, NoMsg)] ELSE got
    ELSE Throw(p) /\ UNCHANGED got

SendCall(p) ==
    /\ pc[p] = "idle" /\ Op(p) = "send"
    /\ \E m \in Msg :
          /\ content' = [content EXCEPT ![p] = m]
          /\ sent' = [sent EXCEPT ![p] = Append(@, m)]
    /\ Goto(p, "send")
    /\ UNCHANGED <<client, thread, net, got>>

\* recv, flush or the destructor
OtherCall(p) ==
    /\ pc[p] = "idle" /\ Op(p) # "send"
    /\ Goto(p, Op(p))
    /\ UNCHANGED <<content, client, thread, net, history>>

-----------------------------------------------------------------------------
(* RpcClient::Send *)

\* push_v2 and the thread that reads its acknowledgements, or push
OpenStream(p, ver) ==
    /\ stream' = [stream EXCEPT ![p] = "open"]
    /\ cur' = [cur EXCEPT ![p] = @ + 1]
    /\ srv' = [srv EXCEPT ![p] = @ \cup {cur[p] + 1}]
    /\ down' = [down EXCEPT ![p] = <<>>]
    /\ tpc' = [tpc EXCEPT ![p] = IF ver = v2 THEN "new" ELSE "none"]
    /\ UNCHANGED <<up, list, breaks, resp>>

RpcVersion(p) == IF ServerVersion[Peer[p]] >= v2 THEN v2 ELSE v1

InitSender(p) ==
    /\ pc[p] = "send" /\ m_use_rpc_version[p] = not_inited
    /\ m_use_rpc_version' = [m_use_rpc_version EXCEPT ![p] = RpcVersion(p)]
    /\ OpenStream(p, RpcVersion(p))
    /\ UNCHANGED <<call, content, m_use_redis_data_version, m_seq, m_recv_idx,
                   m_notack_queue, resent, history>>

InitRpcVersionFails(p) ==
    /\ ConnectMayFail
    /\ pc[p] = "send" /\ m_use_rpc_version[p] = not_inited
    /\ Throw(p)
    /\ UNCHANGED <<content, client, thread, net, history>>

\* Write blocks while the stream's window is full.
Room(p) == Len(up[p][cur[p]]) < Window
Write(p, packet) == up' = [up EXCEPT ![p][cur[p]] = Append(@, packet)]

\* Write succeeded: the packet is numbered but not yet in m_notack_queue
SendWrite(p) ==
    /\ pc[p] = "send" /\ m_use_rpc_version[p] = v2
    /\ m_recv_thread_status(p) # "finished" /\ stream[p] = "open" /\ Room(p)
    /\ Write(p, [seq |-> m_seq[p], body |-> content[p]])
    /\ m_seq' = [m_seq EXCEPT ![p] = @ + 1]
    /\ Goto(p, "wrote")
    /\ UNCHANGED <<content, version, m_recv_idx, m_notack_queue, resent, thread,
                   link, down, list, breaks, history>>

SendEnqueue(p) ==
    /\ pc[p] = "wrote"
    /\ m_notack_queue' = [m_notack_queue EXCEPT ![p] =
                            Append(@, [seq |-> m_seq[p] - 1, body |-> content[p]])]
    /\ content' = [content EXCEPT ![p] = NoMsg]
    /\ Return(p, "ok")
    /\ UNCHANGED <<version, m_seq, m_recv_idx, resent, thread, net, history>>

\* Mutant: a Write that succeeded is retried as well
SendWriteV1Again(p) ==
    /\ pc[p] = "send" /\ m_use_rpc_version[p] = v1 /\ stream[p] = "open" /\ Room(p)
    /\ Write(p, [seq |-> 0, body |-> content[p]])
    /\ \/ content' = [content EXCEPT ![p] = NoMsg] /\ Return(p, "ok")
       \/ UNCHANGED <<call, content>>
    /\ UNCHANGED <<client, thread, link, down, list, breaks, history>>

\* The old protocol: no number, no acknowledgement
SendWriteV1(p) ==
    /\ pc[p] = "send" /\ m_use_rpc_version[p] = v1 /\ stream[p] = "open" /\ Room(p)
    /\ Write(p, [seq |-> 0, body |-> content[p]])
    /\ content' = [content EXCEPT ![p] = NoMsg]
    /\ Return(p, "ok")
    /\ UNCHANGED <<client, thread, link, down, list, breaks, history>>

\* m_sender is null: set_continue_status opened no stream
SendNullSender(p) ==
    /\ pc[p] = "send" /\ m_use_rpc_version[p] = v1 /\ stream[p] = "none"
    /\ Goto(p, "segv")
    /\ UNCHANGED <<content, client, thread, net, history>>

\* Mutant: content is not swapped back
SendFailsLosingContent(p) ==
    /\ pc[p] = "send" /\ m_use_rpc_version[p] # not_inited
    /\ m_recv_thread_status(p) = "finished" \/ stream[p] = "dead"
    /\ content' = [content EXCEPT ![p] = NoMsg]
    /\ Goto(p, "finish")
    /\ UNCHANGED <<client, thread, net, history>>

\* Either "return false": content is what it was, and channel reconnects
SendFails(p) ==
    /\ pc[p] = "send" /\ m_use_rpc_version[p] # not_inited
    /\ m_recv_thread_status(p) = "finished" \/ stream[p] = "dead"
    /\ Goto(p, "finish")
    /\ UNCHANGED <<content, client, thread, net, history>>

-----------------------------------------------------------------------------
(* RpcClient::Recv *)

\* What the constructor of RedisClient connects to.  "sentinel" alone is not
\* enough: without the three factors it is a single server.
RedisKind ==
    CASE ClusterMode = "cluster" -> "cluster"
      [] ClusterMode = "sentinel" /\ ThreeFactors -> "sentinel"
      [] OTHER -> "single"

\* brpop blocks for a second.  The sentinel connection gives up after 100 ms,
\* so there it throws where the others return no element.
brpop_returns_empty == RedisKind # "sentinel"

\* Mutant: the magic string is not recognised
DataVersionWithoutMagic(p) ==
    IF m_use_redis_data_version[p] # not_inited THEN m_use_redis_data_version[p] ELSE v1

\* The first element popped tells the format of all of them.
DataVersion(p) ==
    IF m_use_redis_data_version[p] # not_inited THEN m_use_redis_data_version[p]
    ELSE IF Head(redis[p]).magic THEN v2 ELSE v1

\* The content handed out: format 1 takes the element as it is
Decoded(p, e) ==
    IF DataVersion(p) = v1 /\ ServerVersion[p] >= v2 THEN Garbled ELSE e.body

\* brpop removes the first element
Pop(p) ==
    /\ pc[p] = "recv" /\ redis[p] # <<>>
    /\ redis' = [redis EXCEPT ![p] = Tail(@)]
    /\ m_use_redis_data_version' = [m_use_redis_data_version EXCEPT ![p] = DataVersion(p)]
    /\ UNCHANGED <<content, m_use_rpc_version, m_seq, m_notack_queue, resent,
                   thread, link, up, down, marked, breaks, sent>>

\* Mutants: a repeated packet, or one after a gap, is handed out
RecvDeliverIf(p, InSequence(_)) ==
    LET e == Head(redis[p]) IN
        /\ Pop(p)
        /\ DataVersion(p) = v2 => e.seq # Disconnected /\ InSequence(e.seq)
        /\ m_recv_idx' = [m_recv_idx EXCEPT ![p] =
                            IF DataVersion(p) = v2 THEN e.seq ELSE @]
        /\ got' = [got EXCEPT ![p] = Append(@, Decoded(p, e))]
        /\ Return(p, "ok")
RecvDeliverRepeated(p) == RecvDeliverIf(p, LAMBDA s : s <= m_recv_idx[p] + 1)
RecvDeliverAfterGap(p) == RecvDeliverIf(p, LAMBDA s : s >= m_recv_idx[p] + 1)

RecvDeliver(p) ==
    LET e == Head(redis[p]) IN
        /\ Pop(p)
        /\ DataVersion(p) = v2 => e.seq # Disconnected /\ e.seq = m_recv_idx[p] + 1
        /\ m_recv_idx' = [m_recv_idx EXCEPT ![p] =
                            IF DataVersion(p) = v2 THEN e.seq ELSE @]
        /\ got' = [got EXCEPT ![p] = Append(@, Decoded(p, e))]
        /\ Return(p, "ok")

\* A command or a repeated packet: wait for the next one
RecvIgnore(p) ==
    LET e == Head(redis[p]) IN
        /\ Pop(p)
        /\ DataVersion(p) = v2
        /\ e.seq = Disconnected \/ e.seq < m_recv_idx[p] + 1
        /\ UNCHANGED <<call, m_recv_idx, got>>

\* A packet is missing: return false without need_resend
RecvGap(p) ==
    LET e == Head(redis[p]) IN
        /\ Pop(p)
        /\ DataVersion(p) = v2
        /\ e.seq > m_recv_idx[p] + 1
        /\ Throw(p)
        /\ UNCHANGED <<m_recv_idx, got>>

\* Mutant: Recv goes on polling
RecvNeverResends(p) ==
    /\ pc[p] = "recv" /\ redis[p] = <<>>
    /\ m_recv_thread_status(p) = "finished" /\ m_notack_queue[p] # <<>>
    /\ UNCHANGED vars

\* Nothing to pop, and what we sent may be lost: the peer may wait for it.
\* A brpop that throws is followed by a sleep and the next brpop instead.
RecvNeedsResend(p) ==
    /\ pc[p] = "recv" /\ redis[p] = <<>> /\ brpop_returns_empty
    /\ m_recv_thread_status(p) = "finished" /\ m_notack_queue[p] # <<>>
    /\ Goto(p, "finish")
    /\ UNCHANGED <<content, client, thread, net, history>>

\* brpop throws Error after redis removed an element: sleep and poll again
RedisLoses(p) ==
    /\ RedisMayLose
    /\ pc[p] = "recv" /\ redis[p] # <<>>
    /\ redis' = [redis EXCEPT ![p] = Tail(@)]
    /\ UNCHANGED <<call, content, client, thread, link, up, down, marked, breaks, history>>

RecvTimesOut(p) ==
    /\ MayTimeOut
    /\ pc[p] = "recv" /\ redis[p] = <<>>
    /\ Throw(p)
    /\ UNCHANGED <<content, client, thread, net, history>>

-----------------------------------------------------------------------------
(* RpcClient::wait_flush, called by channel::flush and by ~channel *)

\* The thread has ended, or GetState is no longer GRPC_CHANNEL_READY
Broken(p) == m_recv_thread_status(p) = "finished" \/ stream[p] = "dead"

\* Mutant: the end of the thread is taken for the end of the queue
FlushReturnsWhenBroken(p, r) ==
    /\ pc[p] = "flush"
    /\ IF m_notack_queue[p] = <<>> \/ Broken(p) THEN r = "ok" ELSE MayTimeOut /\ r = "false"
    /\ Return(p, r)
    /\ UNCHANGED <<content, client, thread, net, history>>

FlushReturns(p, r) ==
    /\ pc[p] = "flush"
    /\ IF m_notack_queue[p] = <<>> THEN r = "ok" ELSE MayTimeOut /\ r = "false"
    /\ Return(p, r)
    /\ UNCHANGED <<content, client, thread, net, history>>

FlushNeedsResend(p) ==
    /\ pc[p] = "flush" /\ m_notack_queue[p] # <<>>
    /\ Broken(p)
    /\ Goto(p, "finish")
    /\ UNCHANGED <<content, client, thread, net, history>>

\* ~channel goes on to destroy_channel whatever wait_flush returns
CloseFlushed(p) ==
    /\ pc[p] = "close"
    /\ m_notack_queue[p] = <<>> \/ Broken(p) \/ MayTimeOut
    /\ Goto(p, "finish")
    /\ UNCHANGED <<content, client, thread, net, history>>

-----------------------------------------------------------------------------
(* RpcClient::finish, then the end of ~channel or a new client *)

AfterFinish(p) == IF Op(p) = "close" THEN "closed" ELSE "reconnect"

\* WritesDone and Finish return when the server has read everything, and at
\* once when the stream is dead.
StreamEnds(p) ==
    /\ stream[p] = "dead" \/ (stream[p] = "open" /\ up[p][cur[p]] = <<>>)
    /\ stream' = [stream EXCEPT ![p] = "dead"]
    /\ UNCHANGED <<content, client, cur, srv, up, down, list, breaks, history>>

\* Nothing was sent, or the old protocol, which has no thread
FinishNoThread(p) ==
    /\ pc[p] = "finish"
    /\ \/ m_use_rpc_version[p] = v1 /\ StreamEnds(p)
       \/ m_use_rpc_version[p] = not_inited /\ UNCHANGED <<content, client, net, history>>
    /\ Goto(p, AfterFinish(p))
    /\ UNCHANGED thread

FinishV2(p) ==
    /\ pc[p] = "finish" /\ m_use_rpc_version[p] = v2
    /\ m_recv_thread_status(p) # "not_inited"
    /\ StreamEnds(p)
    /\ Goto(p, "join")
    /\ UNCHANGED thread

\* The thread exists but has not run yet, so it is not joined, and deleting
\* the client destroys a joinable std::thread: std::terminate.
FinishWithoutJoin(p) ==
    /\ pc[p] = "finish" /\ m_use_rpc_version[p] = v2
    /\ m_recv_thread_status(p) = "not_inited"
    /\ StreamEnds(p)
    /\ Goto(p, "terminated")
    /\ tpc' = [tpc EXCEPT ![p] = "none"] /\ UNCHANGED resp

Join(p) ==
    /\ pc[p] = "join" /\ tpc[p] = "done"
    /\ tpc' = [tpc EXCEPT ![p] = "none"]
    /\ Goto(p, AfterFinish(p))
    /\ UNCHANGED <<content, client, resp, net, history>>

\* Mutants: the queue is not saved, or its front not resent
ReconnectLosingQueue(p) ==
    /\ pc[p] = "reconnect" /\ m_use_rpc_version[p] = v2
    /\ OpenStream(p, v2)
    /\ resent' = [resent EXCEPT ![p] = 0]
    /\ m_notack_queue' = [m_notack_queue EXCEPT ![p] = <<>>]
    /\ Goto(p, "resend")
    /\ UNCHANGED <<content, version, m_seq, m_recv_idx, history>>
ReconnectSkippingFront(p) ==
    /\ pc[p] = "reconnect" /\ m_use_rpc_version[p] = v2
    /\ OpenStream(p, v2)
    /\ resent' = [resent EXCEPT ![p] = IF m_notack_queue[p] = <<>> THEN 0 ELSE 1]
    /\ Goto(p, "resend")
    /\ UNCHANGED <<content, version, m_seq, m_recv_idx, m_notack_queue, history>>

\* get_continue_status, delete, create_channel, and set_continue_status up
\* to its loop, which holds m_mtx
Reconnect(p) ==
    /\ pc[p] = "reconnect" /\ m_use_rpc_version[p] = v2
    /\ OpenStream(p, v2)
    /\ resent' = [resent EXCEPT ![p] = 0]
    /\ Goto(p, "resend")
    /\ UNCHANGED <<content, version, m_seq, m_recv_idx, m_notack_queue, history>>

\* Before version 2 the continue status is the versions only.
ReconnectV1(p) ==
    /\ pc[p] = "reconnect" /\ m_use_rpc_version[p] = v1
    /\ stream' = [stream EXCEPT ![p] = "none"]
    /\ m_recv_idx' = [m_recv_idx EXCEPT ![p] = -1]
    /\ NextTry(p, TRUE)
    /\ UNCHANGED <<content, version, m_seq, m_notack_queue, resent, thread,
                   cur, srv, up, down, list, breaks, sent>>

\* create_channel throws with m_client null
ReconnectFails(p) ==
    /\ ConnectMayFail
    /\ pc[p] = "reconnect"
    /\ pc' = [pc EXCEPT ![p] = "noclient"]
    /\ ret' = [ret EXCEPT ![p] = "throw"]
    /\ UNCHANGED <<at, tries, content, client, thread, net, history>>

ResendWrite(p) ==
    /\ pc[p] = "resend" /\ resent[p] < Len(m_notack_queue[p])
    /\ stream[p] = "open" /\ Room(p)
    /\ Write(p, m_notack_queue[p][resent[p] + 1])
    /\ resent' = [resent EXCEPT ![p] = @ + 1]
    /\ UNCHANGED <<call, content, version, m_seq, m_recv_idx, m_notack_queue,
                   thread, link, down, list, breaks, history>>

\* set_continue_status returns: a Write failed, or all is written
ResendReturns(p, ok) ==
    /\ pc[p] = "resend"
    /\ IF ok THEN resent[p] = Len(m_notack_queue[p])
             ELSE resent[p] < Len(m_notack_queue[p]) /\ stream[p] = "dead"
    /\ NextTry(p, ok)
    /\ UNCHANGED <<content, client, thread, net, sent>>

-----------------------------------------------------------------------------
(* The acknowledgement thread.  m_mtx is held for long only by the resend  *)
(* loop, so "the mutex is free" is pc[p] # "resend".                       *)

ThreadStart(p) ==
    /\ tpc[p] = "new"
    /\ tpc' = [tpc EXCEPT ![p] = "read"]
    /\ UNCHANGED <<call, content, client, resp, net, history>>

ReadAck(p) ==
    /\ tpc[p] = "read" /\ down[p] # <<>>
    /\ resp' = [resp EXCEPT ![p] = Head(down[p])]
    /\ down' = [down EXCEPT ![p] = Tail(@)]
    /\ tpc' = [tpc EXCEPT ![p] = "acked"]
    /\ UNCHANGED <<call, content, client, link, up, list, breaks, history>>

\* m_cv.wait returns; the mutex is released before the queue is used
WaitNotEmpty(p) ==
    /\ tpc[p] = "acked" /\ pc[p] # "resend"
    /\ m_notack_queue[p] # <<>>
    /\ tpc' = [tpc EXCEPT ![p] = "pop"]
    /\ UNCHANGED <<call, content, client, resp, net, history>>

\* Mutant: what is acknowledged stays in the queue
PopNothing(p) ==
    /\ tpc[p] = "pop" /\ pc[p] # "resend"
    /\ tpc' = [tpc EXCEPT ![p] = "read"]
    /\ UNCHANGED <<call, content, client, resp, net, history>>
\* Mutant: one acknowledgement empties the queue
PopAll(p) ==
    /\ tpc[p] = "pop" /\ pc[p] # "resend"
    /\ m_notack_queue' = [m_notack_queue EXCEPT ![p] = <<>>]
    /\ tpc' = [tpc EXCEPT ![p] = "read"]
    /\ UNCHANGED <<call, content, version, m_seq, m_recv_idx, resent, resp, net, history>>

\* The number acknowledged is not compared with the packet removed.
PopFront(p) ==
    /\ tpc[p] = "pop" /\ pc[p] # "resend"
    /\ m_notack_queue' = [m_notack_queue EXCEPT ![p] = Tail(@)]
    /\ tpc' = [tpc EXCEPT ![p] = "read"]
    /\ UNCHANGED <<call, content, version, m_seq, m_recv_idx, resent, resp, net, history>>

\* Read returns false
ReadEnd(p) ==
    /\ tpc[p] = "read" /\ pc[p] # "resend"
    /\ down[p] = <<>> /\ stream[p] = "dead"
    /\ tpc' = [tpc EXCEPT ![p] = "done"]
    /\ UNCHANGED <<call, content, client, resp, net, history>>

-----------------------------------------------------------------------------
(* Server and network *)

Push(q, s, m) ==
    /\ redis' = [redis EXCEPT ![q] =
                   Append(@, [seq |-> s, body |-> m,
                              magic |-> ~marked[q] /\ ServerVersion[q] >= v2])]
    /\ marked' = [marked EXCEPT ![q] = TRUE]

\* The handler of stream k pushes a packet to redis and acknowledges it.
\* It goes on doing so when the client has given the stream up, and waits
\* while the window for acknowledgements is full.
ServerPush(p, k) ==
    LET packet == Head(up[p][k]) IN
        /\ k \in srv[p] /\ up[p][k] # <<>>
        /\ k = cur[p] /\ stream[p] = "open" => Len(down[p]) < Window
        /\ Push(Peer[p], packet.seq, packet.body)
        /\ up' = [up EXCEPT ![p][k] = Tail(@)]
        /\ down' = IF k = cur[p] /\ stream[p] = "open" /\ m_use_rpc_version[p] = v2
                   THEN [down EXCEPT ![p] = Append(@, packet.seq)]
                   ELSE down
        /\ UNCHANGED <<call, content, client, thread, link, breaks, history>>

\* The handler ends; from version 2 it tells the receiver
ServerEnd(p, k) ==
    /\ k \in srv[p] /\ up[p][k] = <<>>
    /\ k # cur[p] \/ stream[p] # "open"
    /\ srv' = [srv EXCEPT ![p] = @ \ {k}]
    /\ IF RpcVersion(p) = v2 THEN Push(Peer[p], Disconnected, NoMsg) ELSE UNCHANGED list
    /\ UNCHANGED <<call, content, client, thread, stream, cur, up, down, breaks, history>>

\* The connection breaks; what has not arrived is lost, in both directions
Break(p) ==
    /\ stream[p] = "open" /\ breaks[p] < MaxBreaks
    /\ breaks' = [breaks EXCEPT ![p] = @ + 1]
    /\ stream' = [stream EXCEPT ![p] = "dead"]
    /\ \E i \in 0 .. Len(up[p][cur[p]]), j \in 0 .. Len(down[p]) :
          /\ up' = [up EXCEPT ![p][cur[p]] = SubSeq(@, 1, i)]
          /\ down' = [down EXCEPT ![p] = SubSeq(@, 1, j)]
    /\ UNCHANGED <<call, content, client, thread, cur, srv, list, history>>

-----------------------------------------------------------------------------
Caller(p) ==
    \/ OtherCall(p) \/ SendCall(p) \/ InitSender(p) \/ SendWrite(p)
    \/ SendEnqueue(p) \/ SendWriteV1(p) \/ SendNullSender(p) \/ SendFails(p)
    \/ RecvDeliver(p) \/ RecvIgnore(p) \/ RecvGap(p) \/ RecvNeedsResend(p)
    \/ FlushReturns(p, "ok") \/ FlushNeedsResend(p) \/ CloseFlushed(p)
    \/ FinishNoThread(p) \/ FinishV2(p) \/ FinishWithoutJoin(p) \/ Join(p)
    \/ Reconnect(p) \/ ReconnectV1(p) \/ ResendWrite(p)
    \/ \E ok \in BOOLEAN : ResendReturns(p, ok)

RecvThread(p) ==
    ThreadStart(p) \/ ReadAck(p) \/ WaitNotEmpty(p) \/ PopFront(p) \/ ReadEnd(p)

Server(p) == \E k \in Stream : ServerPush(p, k) \/ ServerEnd(p, k)

Fault(p) ==
    \/ Break(p) \/ InitRpcVersionFails(p) \/ ReconnectFails(p)
    \/ RedisLoses(p) \/ RecvTimesOut(p) \/ FlushReturns(p, "false")

\* Both sides are done, or a recv waits for a peer that is gone
Gone == {"closed", "noclient", "terminated", "segv"}
Stopped ==
    /\ \A p \in Party :
          \/ pc[p] \in Gone
          \/ pc[p] = "recv" /\ redis[p] = <<>> /\ pc[Peer[p]] \in Gone
    /\ UNCHANGED vars

Next == \/ \E p \in Party : Caller(p) \/ RecvThread(p) \/ Server(p) \/ Fault(p)
        \/ Stopped

Spec == Init /\ [][Next]_vars

\* Threads and the server run; faults and timeouts need not happen.
FairSpec ==
    /\ Spec
    /\ \A p \in Party : /\ WF_vars(Caller(p)) /\ WF_vars(RecvThread(p))
                        /\ WF_vars(Server(p))

-----------------------------------------------------------------------------
(* Properties *)

\* The type of every variable.
TypeOK ==
    /\ pc \in [Party -> {"idle", "send", "wrote", "recv", "flush", "close",
                         "finish", "join", "reconnect", "resend"} \cup Gone]
    /\ at \in [Party -> Nat \ {0}]
    /\ tries \in [Party -> 0 .. MaxRetry - 1]
    /\ ret \in [Party -> {"ok", "false", "throw"}]
    /\ content \in [Party -> Msg \cup {NoMsg}]
    /\ m_use_rpc_version \in [Party -> {not_inited, v1, v2}]
    /\ m_use_redis_data_version \in [Party -> {not_inited, v1, v2}]
    /\ m_seq \in [Party -> Nat]
    /\ m_recv_idx \in [Party -> Nat \cup {-1}]
    /\ m_notack_queue \in [Party -> Seq(Packet)]
    /\ resent \in [Party -> Nat]
    /\ tpc \in [Party -> {"none", "new", "read", "acked", "pop", "done"}]
    /\ resp \in [Party -> Nat]
    /\ stream \in [Party -> {"none", "open", "dead"}]
    /\ cur \in [Party -> 0 .. MaxBreaks + 1]
    /\ srv \in [Party -> SUBSET Stream]
    /\ up \in [Party -> [Stream -> Seq(Packet)]]
    /\ down \in [Party -> Seq(Nat)]
    /\ redis \in [Party -> Seq(Element)]
    /\ marked \in [Party -> BOOLEAN]
    /\ breaks \in [Party -> 0 .. MaxBreaks]
    /\ sent \in [Party -> Seq(Msg)]
    /\ got \in [Party -> Seq(Msg \cup {NoMsg, Garbled})]

\* What recv has returned is what the peer passed to send, in that order,
\* each message once, however often streams broke and packets were resent
\* (the tests' assert(recv_str == rand_str)).
InOrder == \A p \in Party : IsPrefix(got[Peer[p]], sent[p])

\* Whatever redis loses: once the numbered format is known, recv throws rather
\* than skip a packet (idx > m_recv_idx + 1 returns false).
NoSilentLoss ==
    \A p \in Party :
        m_use_redis_data_version[p] = v2 => IsPrefix(got[p], sent[Peer[p]])

\* s is t with some elements left out.
LeavesOut(s, t) ==
    \E f \in [DOMAIN s -> DOMAIN t] :
        \A i \in DOMAIN s : s[i] = t[f[i]] /\ \A j \in 1 .. i - 1 : f[j] < f[i]

\* A list without numbers may lose messages without notice, to a broken stream
\* or to redis, but what recv returns is in order and has nothing twice: a Write
\* that failed and is retried has not been delivered.
PlainInOrder ==
    \A p \in Party : ServerVersion[p] < v2 => LeavesOut(got[p], sent[Peer[p]])

\* The acknowledgement the thread is about to apply is the one of the packet
\* pop_front removes, although the code does not compare the two (the
\* assertion commented out after front()).
AckMatchesFront ==
    \A p \in Party : tpc[p] = "pop" =>
        m_notack_queue[p] # <<>> /\ Head(m_notack_queue[p]).seq = resp[p]

\* The numbers of the packets that reached p's redis list
Reached(p) == (0 .. m_recv_idx[p]) \cup {redis[p][i].seq : i \in DOMAIN redis[p]}

\* Every packet written and no longer kept for resending has reached the
\* peer's list: a broken stream never loses a packet the client has dropped.
NothingLost ==
    \A p \in Party : \A s \in 0 .. m_seq[p] - 1 :
        \/ s \in Reached(Peer[p])
        \/ \E i \in DOMAIN m_notack_queue[p] : m_notack_queue[p][i].seq = s
        \/ pc[p] = "wrote" /\ s = m_seq[p] - 1

\* recv never meets a packet whose predecessor has not been delivered, which
\* it would report as an error: streams given up still feed the list, but
\* none of them is ever ahead.
NoGap ==
    \A p \in Party :
        pc[p] = "recv" /\ redis[p] # <<>> => Head(redis[p]).seq <= m_recv_idx[p] + 1

\* The thread that finish joins never waits on m_cv for a packet that will
\* not be enqueued.
JoinEnds ==
    \A p \in Party : pc[p] = "join" =>
        /\ tpc[p] \in {"read", "acked", "pop", "done"}
        /\ tpc[p] \in {"acked", "pop"} => m_notack_queue[p] # <<>>

\* The resend holds m_mtx, which the thread needs before it reads the next
\* acknowledgement, while Write may have to wait for the server and the server
\* for the thread.  The three never wait for each other: what is not
\* acknowledged was once written to a stream with the same windows, so it
\* fits into them again.
ResendNeverStuck ==
    \A p \in Party :
        pc[p] = "resend" /\ stream[p] = "open" /\ resent[p] < Len(m_notack_queue[p])
        => Room(p) \/ Len(down[p]) < Window \/ tpc[p] \in {"new", "read"}

\* When flush has returned true, everything sent before is in the peer's list
\* or was received.
FlushDelivers ==
    \A p \in Party :
        (/\ pc[p] = "idle" /\ at[p] \in 2 .. Len(Script[p]) + 1
         /\ Script[p][at[p] - 1] = "flush" /\ ret[p] = "ok"
         /\ RpcVersion(p) = v2)
        => 0 .. Len(sent[p]) - 1 \subseteq Reached(Peer[p])

Fifo == INSTANCE ReliableFifo WITH sent <- sent, got <- got
\* The channel is a reliable FIFO queue in each direction.
IsFifo == Fifo!Spec

\* A client is never destroyed with its thread unjoined.
NeverTerminates == \A p \in Party : pc[p] # "terminated"

\* Under FairSpec: when connections can be re-established and calls wait, all
\* calls of both applications return; only std::terminate can prevent it.
AllCallsReturn ==
    <>(\/ \A p \in Party : pc[p] = "closed" /\ ret[p] = "ok"
       \/ \E p \in Party : pc[p] = "terminated")
=============================================================================
