------------------------- MODULE RpcChannelProofs -------------------------
(***************************************************************************)
(* Theorems about RpcChannel, for any parties, messages, scripts, server   *)
(* versions and bounds.                                                    *)
(***************************************************************************)
EXTENDS RpcChannel, SequenceTheorems, TLAPS

-----------------------------------------------------------------------------
(* The control state: where the caller is in its call, which stream it     *)
(* uses, and what the acknowledgement thread may do.                       *)

\* The call in progress is the one of the script.
CallInv(p) ==
    /\ pc[p] \in {"send", "recv", "flush", "close"} => Op(p) = pc[p]
    /\ pc[p] = "wrote" => Op(p) = "send" /\ m_seq[p] > 0
    /\ pc[p] \in {"reconnect", "resend"} => Op(p) # "close"
    /\ Op(p) = "send" /\ pc[p] # "idle" => content[p] \in Msg \/ pc[p] \in Gone

\* Every stream but the last was given up after a break.
StreamInv(p) ==
    /\ m_use_rpc_version[p] = not_inited =>
          cur[p] = 0 /\ stream[p] = "none" /\ tpc[p] = "none"
    /\ m_use_rpc_version[p] = v1 => tpc[p] = "none"
    /\ stream[p] = "open" => 1 <= cur[p] /\ cur[p] <= breaks[p] + 1
    /\ stream[p] = "dead" => 1 <= cur[p] /\ (cur[p] <= breaks[p] \/ Op(p) = "close")
    /\ pc[p] \in {"finish", "join", "reconnect"} /\ Op(p) # "close" => stream[p] = "dead"
    /\ tpc[p] = "done" => stream[p] = "dead"

\* There is a packet to remove when the thread removes one.
PopInv(p) == tpc[p] = "pop" => m_notack_queue[p] # <<>>

ControlInv == \A p \in Party : CallInv(p) /\ StreamInv(p) /\ PopInv(p)
-----------------------------------------------------------------------------
(* Types *)

\* TypeOK by groups of variables
CallType ==
    /\ pc \in [Party -> {"idle", "send", "wrote", "recv", "flush", "close",
                         "finish", "join", "reconnect", "resend"} \cup Gone]
    /\ at \in [Party -> Nat \ {0}]
    /\ tries \in [Party -> 0 .. MaxRetry - 1]
    /\ ret \in [Party -> {"ok", "false", "throw"}]
ClientType ==
    /\ m_use_rpc_version \in [Party -> {not_inited, v1, v2}]
    /\ m_use_redis_data_version \in [Party -> {not_inited, v1, v2}]
    /\ m_seq \in [Party -> Nat]
    /\ m_recv_idx \in [Party -> Nat \cup {-1}]
    /\ m_notack_queue \in [Party -> Seq(Packet)]
    /\ resent \in [Party -> Nat]
ThreadType ==
    /\ tpc \in [Party -> {"none", "new", "read", "acked", "pop", "done"}]
    /\ resp \in [Party -> Nat]
LinkType ==
    /\ stream \in [Party -> {"none", "open", "dead"}]
    /\ cur \in [Party -> 0 .. MaxBreaks + 1]
    /\ srv \in [Party -> SUBSET Stream]
    /\ breaks \in [Party -> 0 .. MaxBreaks]
QueueType ==
    /\ up \in [Party -> [Stream -> Seq(Packet)]]
    /\ down \in [Party -> Seq(Nat)]
ListType ==
    /\ redis \in [Party -> Seq(Element)]
    /\ marked \in [Party -> BOOLEAN]
HistoryType ==
    /\ content \in [Party -> Msg \cup {NoMsg}]
    /\ sent \in [Party -> Seq(Msg)]
    /\ got \in [Party -> Seq(Msg \cup {NoMsg, Garbled})]

\* TypeOK is the conjunction of these parts.
LEMMA TypeParts ==
    TypeOK <=> /\ CallType /\ ClientType /\ ThreadType /\ LinkType
               /\ QueueType /\ ListType /\ HistoryType
BY DEF TypeOK, CallType, ClientType, ThreadType, LinkType, QueueType, ListType,
       HistoryType

\* The same of the state after a step
LEMMA TypePartsNext ==
    TypeOK' <=> /\ CallType' /\ ClientType' /\ ThreadType' /\ LinkType'
                /\ QueueType' /\ ListType' /\ HistoryType'
BY DEF TypeOK, CallType, ClientType, ThreadType, LinkType, QueueType, ListType,
       HistoryType

\* The application calls send, recv or flush, and at last the destructor.
LEMMA OpType ==
    ASSUME CallType, NEW p \in Party
    PROVE  Op(p) \in {"send", "recv", "flush", "close"}
BY ScriptAssumption DEF CallType, Op

\* A call that returns or throws leaves well-typed control state.
LEMMA LeaveType ==
    ASSUME CallType, NEW p \in Party, NEW next \in Nat \ {0},
           NEW r \in {"ok", "false", "throw"}, Leave(p, next, r)
    PROVE  CallType'
BY BoundAssumption DEF Leave, CallType

\* send, recv or flush returns.
LEMMA ReturnType ==
    ASSUME CallType, NEW p \in Party, NEW r \in {"ok", "false", "throw"}, Return(p, r)
    PROVE  CallType'
<1>1. at[p] + 1 \in Nat \ {0}
  BY DEF CallType
<1>. QED BY <1>1, LeaveType DEF Return

\* send, recv or flush throws.
LEMMA ThrowType ==
    ASSUME CallType, NEW p \in Party, Throw(p)
    PROVE  CallType'
<1>1. Len(Script[p]) + 1 \in Nat \ {0}
  BY ScriptAssumption
<1>. QED BY <1>1, LeaveType DEF Throw

\* The caller moves to another place of its code.
LEMMA GotoType ==
    ASSUME CallType, NEW p \in Party,
           NEW l \in {"idle", "send", "wrote", "recv", "flush", "close", "finish",
                      "join", "reconnect", "resend", "closed", "noclient",
                      "terminated", "segv"},
           Goto(p, l)
    PROVE  CallType'
BY DEF Goto, CallType, Gone

\* The end of an iteration of a retry loop of channel.cpp.
LEMMA NextTryType ==
    ASSUME CallType, HistoryType, NEW p \in Party, NEW ok \in BOOLEAN,
           NextTry(p, ok), UNCHANGED <<content, sent>>
    PROVE  CallType' /\ HistoryType'
<1>1. CASE tries[p] + 1 < MaxRetry
  <2>1. tries[p] + 1 \in 0 .. MaxRetry - 1
    BY <1>1, BoundAssumption DEF CallType
  <2>2. CallType'
    BY <1>1, <2>1, OpType DEF NextTry, CallType
  <2>. QED BY <1>1, <2>2 DEF NextTry, HistoryType
<1>2. CASE ~(tries[p] + 1 < MaxRetry) /\ (ok \/ Op(p) = "flush")
  <2>1. CallType'
    BY <1>2, ReturnType DEF NextTry
  <2>2. Append(got[p], NoMsg) \in Seq(Msg \cup {NoMsg, Garbled})
    BY DEF HistoryType
  <2>3. HistoryType'
    BY <1>2, <2>2 DEF NextTry, HistoryType
  <2>. QED BY <2>1, <2>3
<1>3. CASE ~(tries[p] + 1 < MaxRetry) /\ ~(ok \/ Op(p) = "flush")
  <2>1. CallType'
    BY <1>3, ThrowType DEF NextTry
  <2>. QED BY <1>3, <2>1 DEF NextTry, HistoryType
<1>. QED BY <1>1, <1>2, <1>3

\* Opening a stream after a break, or the first one, stays within the bound.
LEMMA OpenStreamType ==
    ASSUME ThreadType, LinkType, QueueType, ListType, NEW p \in Party, NEW ver,
           cur[p] <= breaks[p], OpenStream(p, ver)
    PROVE  ThreadType' /\ LinkType' /\ QueueType' /\ ListType'
<1>1. cur[p] + 1 \in Stream /\ cur[p] + 1 \in 0 .. MaxBreaks + 1
  BY BoundAssumption DEF LinkType, Stream
<1>2. LinkType'
  <2>1. srv[p] \cup {cur[p] + 1} \in SUBSET Stream
    BY <1>1 DEF LinkType
  <2>. QED BY <1>1, <2>1 DEF OpenStream, LinkType
<1>3. ThreadType'
  BY DEF OpenStream, ThreadType
<1>4. QueueType' /\ ListType'
  <2>1. <<>> \in Seq(Nat)
    OBVIOUS
  <2>. QED BY <2>1 DEF OpenStream, QueueType, ListType, list
<1>. QED BY <1>2, <1>3, <1>4

\* stream->Write appends a packet to the current stream.
LEMMA WriteType ==
    ASSUME LinkType, QueueType, NEW p \in Party, NEW packet \in Packet,
           cur[p] >= 1, Write(p, packet), UNCHANGED down
    PROVE  QueueType'
<1>1. cur[p] \in Stream
  BY BoundAssumption DEF LinkType, Stream
<1>2. up[p][cur[p]] \in Seq(Packet) /\ up[p] \in [Stream -> Seq(Packet)]
  BY <1>1 DEF QueueType
<1>3. Append(up[p][cur[p]], packet) \in Seq(Packet)
  BY <1>2
<1>. QED BY <1>1, <1>2, <1>3 DEF Write, QueueType

\* The server pushes to the list of q.
LEMMA PushType ==
    ASSUME ListType, NEW q \in Party, NEW s \in Nat \cup {Disconnected},
           NEW m \in Msg \cup {NoMsg}, Push(q, s, m)
    PROVE  ListType'
<1> DEFINE e == [seq |-> s, body |-> m, magic |-> ~marked[q] /\ ServerVersion[q] >= v2]
<1>1. e \in Element
  BY DEF Element
<1>2. redis[q] \in Seq(Element)
  BY DEF ListType
<1>3. Append(redis[q], e) \in Seq(Element)
  BY <1>1, <1>2
<1> HIDE DEF e
<1>4. redis' = [redis EXCEPT ![q] = Append(@, e)] /\ marked' = [marked EXCEPT ![q] = TRUE]
  BY DEF Push, e
<1>. QED BY <1>3, <1>4 DEF ListType

\* What pop and front return.
LEMMA TailType ==
    ASSUME NEW S, NEW s \in Seq(S), s # <<>>
    PROVE  Tail(s) \in Seq(S) /\ Head(s) \in S
OBVIOUS

\* The parts of TypeOK a step leaves alone
LEMMA UnchangedType ==
    /\ CallType /\ UNCHANGED call => CallType'
    /\ ClientType /\ UNCHANGED client => ClientType'
    /\ ThreadType /\ UNCHANGED thread => ThreadType'
    /\ LinkType /\ UNCHANGED <<link, breaks>> => LinkType'
    /\ QueueType /\ UNCHANGED <<up, down>> => QueueType'
    /\ ListType /\ UNCHANGED list => ListType'
    /\ HistoryType /\ UNCHANGED <<content, history>> => HistoryType'
BY DEF CallType, ClientType, ThreadType, LinkType, QueueType, ListType, HistoryType,
       call, client, version, thread, link, list, history

\* Steps that only move the caller
LEMMA MoveType ==
    ASSUME TypeOK, CallType', UNCHANGED <<content, client, thread, net, history>>
    PROVE  TypeOK'
BY TypeParts, TypePartsNext, UnchangedType DEF net

\* The steps of RpcClient::Send preserve the types.
LEMMA SendType ==
    ASSUME TypeOK, ControlInv, NEW p \in Party,
           \/ SendCall(p) \/ InitSender(p) \/ SendWrite(p) \/ SendEnqueue(p)
           \/ SendWriteV1(p) \/ SendNullSender(p) \/ SendFails(p)
           \/ InitRpcVersionFails(p)
    PROVE  TypeOK'
<1> USE TypeParts, TypePartsNext
<1>1. CASE SendCall(p)
  <2>1. PICK m \in Msg : /\ content' = [content EXCEPT ![p] = m]
                         /\ sent' = [sent EXCEPT ![p] = Append(@, m)]
    BY <1>1 DEF SendCall
  <2>2. Append(sent[p], m) \in Seq(Msg)
    BY DEF HistoryType
  <2>3. HistoryType'
    BY <1>1, <2>1, <2>2 DEF SendCall, HistoryType
  <2>4. CallType'
    BY <1>1, GotoType DEF SendCall
  <2>. QED BY <1>1, <2>3, <2>4, UnchangedType DEF SendCall, net
<1>2. CASE InitSender(p)
  <2>1. cur[p] <= breaks[p]
    BY <1>2 DEF InitSender, ControlInv, StreamInv, LinkType
  <2>2. ThreadType' /\ LinkType' /\ QueueType' /\ ListType'
    BY <1>2, <2>1, OpenStreamType DEF InitSender
  <2>3. ClientType'
    BY <1>2 DEF InitSender, ClientType, RpcVersion
  <2>. QED BY <1>2, <2>2, <2>3, UnchangedType DEF InitSender
<1>3. CASE SendWrite(p)
  <2>1. [seq |-> m_seq[p], body |-> content[p]] \in Packet
    <3>1. content[p] \in Msg
      BY <1>3 DEF SendWrite, ControlInv, CallInv, Gone
    <3>. QED BY <3>1 DEF ClientType, Packet
  <2>2. cur[p] >= 1
    BY <1>3 DEF SendWrite, ControlInv, StreamInv, LinkType
  <2>3. QueueType'
    BY <1>3, <2>1, <2>2, WriteType DEF SendWrite
  <2>4. ClientType'
    BY <1>3 DEF SendWrite, ClientType, version
  <2>5. CallType'
    BY <1>3, GotoType DEF SendWrite
  <2>. QED BY <1>3, <2>3, <2>4, <2>5, UnchangedType DEF SendWrite
<1>4. CASE SendEnqueue(p)
  <2>1. [seq |-> m_seq[p] - 1, body |-> content[p]] \in Packet
    <3>1. content[p] \in Msg /\ m_seq[p] > 0
      BY <1>4 DEF SendEnqueue, ControlInv, CallInv, Gone
    <3>. QED BY <3>1 DEF ClientType, Packet
  <2>2. Append(m_notack_queue[p], [seq |-> m_seq[p] - 1, body |-> content[p]]) \in Seq(Packet)
    BY <2>1 DEF ClientType
  <2>3. ClientType'
    BY <1>4, <2>2 DEF SendEnqueue, ClientType, version
  <2>4. HistoryType'
    BY <1>4 DEF SendEnqueue, HistoryType, history
  <2>5. CallType'
    BY <1>4, ReturnType DEF SendEnqueue
  <2>. QED BY <1>4, <2>3, <2>4, <2>5, UnchangedType DEF SendEnqueue, net
<1>5. CASE SendWriteV1(p)
  <2>1. [seq |-> 0, body |-> content[p]] \in Packet
    BY <1>5 DEF SendWriteV1, ControlInv, CallInv, Gone, Packet
  <2>2. cur[p] >= 1
    BY <1>5 DEF SendWriteV1, ControlInv, StreamInv, LinkType
  <2>3. QueueType'
    BY <1>5, <2>1, <2>2, WriteType DEF SendWriteV1
  <2>4. HistoryType'
    BY <1>5 DEF SendWriteV1, HistoryType, history
  <2>5. CallType'
    BY <1>5, ReturnType DEF SendWriteV1
  <2>. QED BY <1>5, <2>3, <2>4, <2>5, UnchangedType DEF SendWriteV1
<1>6. CASE SendNullSender(p)
  BY <1>6, GotoType, MoveType DEF SendNullSender
<1>7. CASE SendFails(p)
  BY <1>7, GotoType, MoveType DEF SendFails
<1>8. CASE InitRpcVersionFails(p)
  BY <1>8, ThrowType, MoveType DEF InitRpcVersionFails
<1>. QED BY <1>1, <1>2, <1>3, <1>4, <1>5, <1>6, <1>7, <1>8

\* The common part of the steps that pop an element (brpop).
LEMMA PopType ==
    ASSUME TypeOK, NEW p \in Party, Pop(p)
    PROVE  /\ Head(redis[p]) \in Element
           /\ DataVersion(p) \in {v1, v2}
           /\ ThreadType' /\ LinkType' /\ QueueType' /\ ListType'
           /\ m_use_redis_data_version' \in [Party -> {not_inited, v1, v2}]
<1> USE TypeParts, TypePartsNext
<1>1. Tail(redis[p]) \in Seq(Element) /\ Head(redis[p]) \in Element
  BY TailType DEF Pop, ListType
<1>2. DataVersion(p) \in {v1, v2}
  BY DEF ClientType, DataVersion
<1>3. ListType'
  BY <1>1 DEF Pop, ListType
<1>4. m_use_redis_data_version' \in [Party -> {not_inited, v1, v2}]
  BY <1>2 DEF Pop, ClientType
<1>. QED BY <1>1, <1>2, <1>3, <1>4, UnchangedType DEF Pop

\* The steps of RpcClient::Recv preserve the types.
LEMMA RecvType ==
    ASSUME TypeOK, ControlInv, NEW p \in Party,
           \/ RecvDeliver(p) \/ RecvIgnore(p) \/ RecvGap(p) \/ RecvNeedsResend(p)
           \/ RedisLoses(p) \/ RecvTimesOut(p)
    PROVE  TypeOK'
<1> USE TypeParts, TypePartsNext
<1>1. CASE RecvDeliver(p)
  <2> DEFINE e == Head(redis[p])
  <2>1. Pop(p)
    BY <1>1 DEF RecvDeliver
  <2>2. e \in Element /\ DataVersion(p) \in {v1, v2}
    BY <2>1, PopType
  <2>3. ClientType'
    <3>1. DataVersion(p) = v2 => e.seq \in Nat
      BY <1>1, <2>2 DEF RecvDeliver, Element
    <3>2. m_recv_idx' \in [Party -> Nat \cup {-1}]
      BY <1>1, <3>1 DEF RecvDeliver, ClientType
    <3>. QED BY <2>1, <3>2, PopType DEF Pop, ClientType
  <2>4. HistoryType'
    <3>1. Decoded(p, e) \in Msg \cup {NoMsg, Garbled}
      BY <2>2 DEF Decoded, Element
    <3>2. Append(got[p], Decoded(p, e)) \in Seq(Msg \cup {NoMsg, Garbled})
      BY <3>1 DEF HistoryType
    <3>3. got' = [got EXCEPT ![p] = Append(@, Decoded(p, e))]
      BY <1>1 DEF RecvDeliver
    <3>. QED BY <2>1, <3>2, <3>3 DEF Pop, HistoryType
  <2>5. CallType'
    BY <1>1, ReturnType DEF RecvDeliver
  <2>. QED BY <2>1, <2>3, <2>4, <2>5, PopType
<1>2. CASE RecvIgnore(p)
  <2>1. Pop(p) /\ UNCHANGED <<call, m_recv_idx, got>>
    BY <1>2 DEF RecvIgnore
  <2>2. ClientType' /\ HistoryType'
    BY <2>1, PopType DEF Pop, ClientType, HistoryType
  <2>. QED BY <2>1, <2>2, PopType, UnchangedType
<1>3. CASE RecvGap(p)
  <2>1. Pop(p) /\ Throw(p) /\ UNCHANGED <<m_recv_idx, got>>
    BY <1>3 DEF RecvGap
  <2>2. ClientType' /\ HistoryType'
    BY <2>1, PopType DEF Pop, ClientType, HistoryType
  <2>. QED BY <2>1, <2>2, PopType, ThrowType
<1>4. CASE RecvNeedsResend(p)
  BY <1>4, GotoType, MoveType DEF RecvNeedsResend
<1>5. CASE RedisLoses(p)
  <2>1. Tail(redis[p]) \in Seq(Element)
    BY <1>5, TailType DEF RedisLoses, ListType
  <2>2. ListType'
    BY <1>5, <2>1 DEF RedisLoses, ListType
  <2>. QED BY <1>5, <2>2, UnchangedType DEF RedisLoses
<1>6. CASE RecvTimesOut(p)
  BY <1>6, ThrowType, MoveType DEF RecvTimesOut
<1>. QED BY <1>1, <1>2, <1>3, <1>4, <1>5, <1>6

\* The steps of wait_flush and finish preserve the types.
LEMMA FinishType ==
    ASSUME TypeOK, ControlInv, NEW p \in Party,
           \/ OtherCall(p) \/ (\E r \in {"ok", "false"} : FlushReturns(p, r))
           \/ FlushNeedsResend(p) \/ CloseFlushed(p) \/ FinishNoThread(p)
           \/ FinishV2(p) \/ FinishWithoutJoin(p) \/ Join(p)
    PROVE  TypeOK'
<1> USE TypeParts, TypePartsNext
<1>1. CASE OtherCall(p)
  BY <1>1, OpType, GotoType, MoveType DEF OtherCall
<1>2. ASSUME NEW r \in {"ok", "false"}, FlushReturns(p, r) PROVE TypeOK'
  BY <1>2, ReturnType, MoveType DEF FlushReturns
<1>3. CASE FlushNeedsResend(p)
  BY <1>3, GotoType, MoveType DEF FlushNeedsResend
<1>4. CASE CloseFlushed(p)
  BY <1>4, GotoType, MoveType DEF CloseFlushed
<1>5. ASSUME StreamEnds(p) PROVE /\ ClientType' /\ LinkType' /\ QueueType'
                                 /\ ListType' /\ HistoryType'
  <2>1. LinkType'
    BY <1>5 DEF StreamEnds, LinkType
  <2>. QED BY <1>5, <2>1, UnchangedType DEF StreamEnds
<1>6. CASE FinishNoThread(p)
  <2>1. CallType'
    BY <1>6, GotoType DEF FinishNoThread, AfterFinish
  <2>2. CASE StreamEnds(p)
    BY <1>5, <1>6, <2>1, <2>2, UnchangedType DEF FinishNoThread
  <2>3. CASE UNCHANGED <<content, client, net, history>>
    BY <1>6, <2>1, <2>3, UnchangedType DEF FinishNoThread, net
  <2>. QED BY <1>6, <2>2, <2>3 DEF FinishNoThread
<1>7. CASE FinishV2(p)
  BY <1>5, <1>7, GotoType, UnchangedType DEF FinishV2
<1>8. CASE FinishWithoutJoin(p)
  <2>1. ThreadType'
    BY <1>8 DEF FinishWithoutJoin, ThreadType
  <2>. QED BY <1>5, <1>8, <2>1, GotoType DEF FinishWithoutJoin
<1>9. CASE Join(p)
  <2>1. ThreadType'
    BY <1>9 DEF Join, ThreadType
  <2>2. CallType'
    BY <1>9, GotoType DEF Join, AfterFinish
  <2>. QED BY <1>9, <2>1, <2>2, UnchangedType DEF Join, net
<1>. QED BY <1>1, <1>2, <1>3, <1>4, <1>6, <1>7, <1>8, <1>9

\* The steps of reconnecting and resending preserve the types.
LEMMA ReconnectType ==
    ASSUME TypeOK, ControlInv, NEW p \in Party,
           \/ Reconnect(p) \/ ReconnectV1(p) \/ ReconnectFails(p) \/ ResendWrite(p)
           \/ \E ok \in BOOLEAN : ResendReturns(p, ok)
    PROVE  TypeOK'
<1> USE TypeParts, TypePartsNext
<1>1. CASE Reconnect(p)
  <2>1. cur[p] <= breaks[p]
    BY <1>1 DEF Reconnect, ControlInv, CallInv, StreamInv
  <2>2. ThreadType' /\ LinkType' /\ QueueType' /\ ListType'
    BY <1>1, <2>1, OpenStreamType DEF Reconnect
  <2>3. ClientType'
    BY <1>1 DEF Reconnect, ClientType, version
  <2>4. CallType'
    BY <1>1, GotoType DEF Reconnect
  <2>. QED BY <1>1, <2>2, <2>3, <2>4, UnchangedType DEF Reconnect
<1>2. CASE ReconnectV1(p)
  <2>1. CallType' /\ HistoryType'
    BY <1>2, NextTryType DEF ReconnectV1
  <2>2. LinkType' /\ ClientType'
    BY <1>2 DEF ReconnectV1, LinkType, ClientType, version
  <2>. QED BY <1>2, <2>1, <2>2, UnchangedType DEF ReconnectV1
<1>3. CASE ReconnectFails(p)
  <2>1. CallType'
    BY <1>3 DEF ReconnectFails, CallType, Gone
  <2>. QED BY <1>3, <2>1, MoveType DEF ReconnectFails
<1>4. CASE ResendWrite(p)
  <2>1. m_notack_queue[p][resent[p] + 1] \in Packet
    BY <1>4 DEF ResendWrite, ClientType
  <2>2. cur[p] >= 1
    BY <1>4 DEF ResendWrite, ControlInv, StreamInv, LinkType
  <2>3. QueueType'
    BY <1>4, <2>1, <2>2, WriteType DEF ResendWrite
  <2>4. ClientType'
    BY <1>4 DEF ResendWrite, ClientType, version
  <2>. QED BY <1>4, <2>3, <2>4, UnchangedType DEF ResendWrite
<1>5. ASSUME NEW ok \in BOOLEAN, ResendReturns(p, ok) PROVE TypeOK'
  <2>1. CallType' /\ HistoryType'
    BY <1>5, NextTryType DEF ResendReturns
  <2>. QED BY <1>5, <2>1, UnchangedType DEF ResendReturns, net
<1>. QED BY <1>1, <1>2, <1>3, <1>4, <1>5

\* The steps of the acknowledgement thread preserve the types.
LEMMA RecvThreadType ==
    ASSUME TypeOK, ControlInv, NEW p \in Party, RecvThread(p)
    PROVE  TypeOK'
<1> USE TypeParts, TypePartsNext
<1>1. CASE ThreadStart(p) \/ WaitNotEmpty(p) \/ ReadEnd(p)
  <2>1. ThreadType'
    BY <1>1 DEF ThreadStart, WaitNotEmpty, ReadEnd, ThreadType
  <2>. QED BY <1>1, <2>1, UnchangedType DEF ThreadStart, WaitNotEmpty, ReadEnd, net
<1>2. CASE ReadAck(p)
  <2>1. Tail(down[p]) \in Seq(Nat) /\ Head(down[p]) \in Nat
    BY <1>2, TailType DEF ReadAck, QueueType
  <2>2. ThreadType' /\ QueueType'
    BY <1>2, <2>1 DEF ReadAck, ThreadType, QueueType
  <2>. QED BY <1>2, <2>2, UnchangedType DEF ReadAck
<1>3. CASE PopFront(p)
  <2>1. Tail(m_notack_queue[p]) \in Seq(Packet)
    BY <1>3, TailType DEF PopFront, ClientType, ControlInv, PopInv
  <2>2. ThreadType' /\ ClientType'
    BY <1>3, <2>1 DEF PopFront, ThreadType, ClientType, version
  <2>. QED BY <1>3, <2>2, UnchangedType DEF PopFront, net
<1>. QED BY <1>1, <1>2, <1>3 DEF RecvThread

\* The steps of the server and the network preserve the types.
LEMMA NetType ==
    ASSUME TypeOK, ControlInv, NEW p \in Party,
           Break(p) \/ \E k \in Stream : ServerPush(p, k) \/ ServerEnd(p, k)
    PROVE  TypeOK'
<1> USE TypeParts, TypePartsNext
<1>0. Peer[p] \in Party
  BY PeerAssumption
<1>1. ASSUME NEW k \in Stream, ServerPush(p, k) PROVE TypeOK'
  <2> DEFINE packet == Head(up[p][k])
  <2>1. up[p] \in [Stream -> Seq(Packet)] /\ up[p][k] \in Seq(Packet)
    BY DEF QueueType
  <2>2. packet \in Packet /\ Tail(up[p][k]) \in Seq(Packet)
    BY <1>1, <2>1, TailType DEF ServerPush
  <2>3. packet.seq \in Nat /\ packet.body \in Msg
    BY <2>2 DEF Packet
  <2>4. ListType'
    BY <1>0, <1>1, <2>3, PushType DEF ServerPush
  <2>5. Append(down[p], packet.seq) \in Seq(Nat)
    BY <2>3 DEF QueueType
  <2>6. QueueType'
    <3>1. up' \in [Party -> [Stream -> Seq(Packet)]]
      BY <1>1, <2>1, <2>2 DEF ServerPush, QueueType
    <3>2. down' \in [Party -> Seq(Nat)]
      BY <1>1, <2>5 DEF ServerPush, QueueType
    <3>. QED BY <3>1, <3>2 DEF QueueType
  <2>. QED BY <1>1, <2>4, <2>6, UnchangedType DEF ServerPush
<1>2. ASSUME NEW k \in Stream, ServerEnd(p, k) PROVE TypeOK'
  <2>1. ListType'
    BY <1>0, <1>2, PushType, UnchangedType DEF ServerEnd
  <2>2. LinkType'
    BY <1>2 DEF ServerEnd, LinkType
  <2>. QED BY <1>2, <2>1, <2>2, UnchangedType DEF ServerEnd
<1>3. CASE Break(p)
  <2>1. PICK i \in 0 .. Len(up[p][cur[p]]), j \in 0 .. Len(down[p]) :
            /\ up' = [up EXCEPT ![p][cur[p]] = SubSeq(@, 1, i)]
            /\ down' = [down EXCEPT ![p] = SubSeq(@, 1, j)]
    BY <1>3 DEF Break
  <2>2. cur[p] \in Stream
    BY <1>3, BoundAssumption DEF Break, ControlInv, StreamInv, LinkType, Stream
  <2>3. up[p] \in [Stream -> Seq(Packet)] /\ up[p][cur[p]] \in Seq(Packet)
    BY <2>2 DEF QueueType
  <2>4. SubSeq(up[p][cur[p]], 1, i) \in Seq(Packet)
    BY <2>3
  <2>5. SubSeq(down[p], 1, j) \in Seq(Nat)
    BY DEF QueueType
  <2>6. QueueType'
    <3>1. up \in [Party -> [Stream -> Seq(Packet)]] /\ down \in [Party -> Seq(Nat)]
      BY DEF QueueType
    <3>2. up' \in [Party -> [Stream -> Seq(Packet)]]
      <4> DEFINE u == SubSeq(up[p][cur[p]], 1, i)
      <4>1. up' = [up EXCEPT ![p][cur[p]] = u] /\ u \in Seq(Packet)
        BY <2>1, <2>4
      <4> HIDE DEF u
      <4>. QED BY <2>2, <3>1, <4>1
    <3>3. down' \in [Party -> Seq(Nat)]
      <4> DEFINE d == SubSeq(down[p], 1, j)
      <4>1. down' = [down EXCEPT ![p] = d] /\ d \in Seq(Nat)
        BY <2>1, <2>5
      <4> HIDE DEF d
      <4>. QED BY <3>1, <4>1
    <3>. QED BY <3>2, <3>3 DEF QueueType
  <2>7. LinkType'
    <3>1. /\ breaks' = [breaks EXCEPT ![p] = breaks[p] + 1] /\ breaks[p] < MaxBreaks
          /\ stream' = [stream EXCEPT ![p] = "dead"] /\ UNCHANGED <<cur, srv>>
      BY <1>3 DEF Break
    <3>2. breaks[p] \in 0 .. MaxBreaks /\ MaxBreaks \in Nat
      BY BoundAssumption DEF LinkType
    <3>3. breaks[p] + 1 \in 0 .. MaxBreaks
      BY <3>1, <3>2
    <3>. QED BY <3>1, <3>3 DEF LinkType
  <2>. QED BY <1>3, <2>6, <2>7, UnchangedType DEF Break
<1>. QED BY <1>1, <1>2, <1>3

-----------------------------------------------------------------------------
(* The control invariant *)

\* The call in progress changes only with at.
LEMMA OpSame ==
    ASSUME NEW p \in Party, at'[p] = at[p]
    PROVE  Op(p)' = Op(p)
BY DEF Op

\* m_recv_thread_status by the place of the thread.
LEMMA StatusType ==
    ASSUME ThreadType, NEW p \in Party
    PROVE  /\ m_recv_thread_status(p) = "finished" <=> tpc[p] = "done"
           /\ m_recv_thread_status(p) = "not_inited" <=> tpc[p] \in {"none", "new"}
BY DEF ThreadType, m_recv_thread_status

\* The end of a retry loop's iteration: another one, or the call is over.
LEMMA NextTryEffect ==
    ASSUME CallType, NEW p \in Party, NEW ok \in BOOLEAN, NextTry(p, ok)
    PROVE  /\ \/ pc'[p] = Op(p) /\ at'[p] = at[p]
              \/ pc'[p] = "idle"
           /\ \A q \in Party : q # p => pc'[q] = pc[q] /\ at'[q] = at[q]
<1>1. CASE tries[p] + 1 < MaxRetry
  BY <1>1 DEF NextTry, CallType
<1>2. CASE ~(tries[p] + 1 < MaxRetry) /\ (ok \/ Op(p) = "flush")
  BY <1>2 DEF NextTry, Return, Leave, CallType
<1>3. CASE ~(tries[p] + 1 < MaxRetry) /\ ~(ok \/ Op(p) = "flush")
  BY <1>3 DEF NextTry, Throw, Leave, CallType
<1>. QED BY <1>1, <1>2, <1>3

ControlAt(p) == CallInv(p) /\ StreamInv(p) /\ PopInv(p)

\* What a step of another party leaves alone
ControlState(q) ==
    <<pc[q], at[q], content[q], m_use_rpc_version[q], m_seq[q], m_notack_queue[q],
      tpc[q], stream[q], cur[q], breaks[q]>>

OthersUnchanged(p) == \A q \in Party : q # p => UNCHANGED ControlState(q)

\* A step that leaves the control state of q alone preserves its invariant.
LEMMA ControlStutters ==
    ASSUME ControlInv, NEW q \in Party, UNCHANGED ControlState(q)
    PROVE  ControlAt(q)'
<1>1. CallInv(q)'
  BY DEF ControlState, ControlInv, CallInv, Op, Gone
<1>2. StreamInv(q)' /\ PopInv(q)'
  BY DEF ControlState, ControlInv, StreamInv, PopInv, Op
<1>. QED BY <1>1, <1>2 DEF ControlAt

\* A step of p has to be checked for p only.
LEMMA ControlFrame ==
    ASSUME ControlInv, NEW p \in Party, OthersUnchanged(p), ControlAt(p)'
    PROVE  ControlInv'
BY ControlStutters DEF OthersUnchanged, ControlInv, ControlAt

\* The steps of RpcClient::Send preserve the control invariant.
LEMMA SendControl ==
    ASSUME TypeOK, ControlInv, NEW p \in Party,
           \/ SendCall(p) \/ InitSender(p) \/ SendWrite(p) \/ SendEnqueue(p)
           \/ SendWriteV1(p) \/ SendNullSender(p) \/ SendFails(p)
           \/ InitRpcVersionFails(p)
    PROVE  ControlInv'
<1> USE TypeParts
<1> USE DEF OthersUnchanged, ControlState, call, client, version, thread, net,
            link, list, history
<1>1. CASE SendCall(p)
  <2>1. OthersUnchanged(p)
    BY <1>1 DEF SendCall, Goto, CallType, HistoryType
  <2>2. ControlAt(p)'
    BY <1>1, OpType, OpSame, StatusType DEF SendCall, Goto, CallType,
       ClientType, ThreadType, LinkType, HistoryType, ControlInv, ControlAt,
       CallInv, StreamInv, PopInv, Gone, not_inited, v1, v2
  <2>. QED BY <2>1, <2>2, ControlFrame
<1>2. CASE InitSender(p)
  <2>1. OthersUnchanged(p)
    BY <1>2 DEF InitSender, OpenStream, RpcVersion, ClientType, ThreadType,
       LinkType
  <2>2. CallInv(p)'
    BY <1>2, OpType, OpSame DEF InitSender, OpenStream, RpcVersion, CallType,
       ClientType, HistoryType, ControlInv, CallInv, StreamInv, Gone
  <2>3. StreamInv(p)'
    BY <1>2, OpType, OpSame DEF InitSender, OpenStream, RpcVersion, CallType,
       ClientType, ThreadType, LinkType, ControlInv, CallInv, StreamInv,
       not_inited, v1, v2
  <2>4. PopInv(p)'
    BY <1>2 DEF InitSender, OpenStream, RpcVersion, ClientType, ThreadType,
       ControlInv, PopInv
  <2>. QED BY <2>1, <2>2, <2>3, <2>4, ControlFrame DEF ControlAt
<1>3. CASE SendWrite(p)
  <2>1. OthersUnchanged(p)
    BY <1>3 DEF SendWrite, Goto, Write, CallType, ClientType
  <2>2. CallInv(p)'
    <3>1. m_seq'[p] = m_seq[p] + 1 /\ m_seq[p] \in Nat
      BY <1>3 DEF SendWrite, ClientType
    <3>2. m_seq'[p] > 0
      BY <3>1
    <3>. QED BY <1>3, <3>2, OpSame DEF SendWrite, Goto, CallType, ControlInv, CallInv, Gone
  <2>3. StreamInv(p)'
    BY <1>3, OpType, OpSame DEF SendWrite, Goto, Write, CallType, ClientType,
       ThreadType, LinkType, ControlInv, CallInv, StreamInv, not_inited, v1,
       v2
  <2>4. PopInv(p)'
    BY <1>3 DEF SendWrite, Goto, Write, ClientType, ThreadType, ControlInv,
       PopInv
  <2>. QED BY <2>1, <2>2, <2>3, <2>4, ControlFrame DEF ControlAt
<1>4. CASE SendEnqueue(p)
  <2>1. OthersUnchanged(p)
    BY <1>4 DEF SendEnqueue, Return, Leave, CallType, ClientType, HistoryType
  <2>2. CallInv(p)'
    BY <1>4, OpType, OpSame DEF SendEnqueue, Return, Leave, CallType,
       ClientType, HistoryType, ControlInv, CallInv, StreamInv, Gone
  <2>3. StreamInv(p)'
    BY <1>4, OpType, OpSame DEF SendEnqueue, Return, Leave, CallType,
       ClientType, ThreadType, LinkType, ControlInv, CallInv, StreamInv,
       not_inited, v1, v2
  <2>4. PopInv(p)'
    <3> DEFINE packet == [seq |-> m_seq[p] - 1, body |-> content[p]]
    <3>1. m_notack_queue'[p] = Append(m_notack_queue[p], packet)
      BY <1>4 DEF SendEnqueue, ClientType
    <3>2. content[p] \in Msg /\ m_seq[p] > 0
      BY <1>4 DEF SendEnqueue, ControlInv, CallInv, Gone
    <3>3. packet \in Packet
      BY <3>2 DEF ClientType, Packet
    <3>4. m_notack_queue[p] \in Seq(Packet)
      BY DEF ClientType
    <3> HIDE DEF packet
    <3>5. Append(m_notack_queue[p], packet) # <<>>
      BY <3>3, <3>4
    <3>. QED BY <3>1, <3>5 DEF PopInv
  <2>. QED BY <2>1, <2>2, <2>3, <2>4, ControlFrame DEF ControlAt
<1>5. CASE SendWriteV1(p)
  <2>1. OthersUnchanged(p)
    BY <1>5 DEF SendWriteV1, Return, Leave, Write, CallType, HistoryType
  <2>2. ControlAt(p)'
    BY <1>5, OpType, OpSame, StatusType DEF SendWriteV1, Return, Leave, Write,
       CallType, ClientType, ThreadType, LinkType, HistoryType, ControlInv,
       ControlAt, CallInv, StreamInv, PopInv, Gone, not_inited, v1, v2
  <2>. QED BY <2>1, <2>2, ControlFrame
<1>6. CASE SendNullSender(p)
  <2>1. OthersUnchanged(p)
    BY <1>6 DEF SendNullSender, Goto, CallType
  <2>2. ControlAt(p)'
    BY <1>6, OpType, OpSame, StatusType DEF SendNullSender, Goto, CallType,
       ClientType, ThreadType, LinkType, HistoryType, ControlInv, ControlAt,
       CallInv, StreamInv, PopInv, Gone, not_inited, v1, v2
  <2>. QED BY <2>1, <2>2, ControlFrame
<1>7. CASE SendFails(p)
  <2>1. OthersUnchanged(p)
    BY <1>7 DEF SendFails, Goto, CallType
  <2>2. ControlAt(p)'
    BY <1>7, OpType, OpSame, StatusType DEF SendFails, Goto, CallType,
       ClientType, ThreadType, LinkType, HistoryType, ControlInv, ControlAt,
       CallInv, StreamInv, PopInv, Gone, not_inited, v1, v2
  <2>. QED BY <2>1, <2>2, ControlFrame
<1>8. CASE InitRpcVersionFails(p)
  <2>1. OthersUnchanged(p)
    BY <1>8 DEF InitRpcVersionFails, Throw, Leave, CallType
  <2>2. ControlAt(p)'
    BY <1>8, OpType, OpSame, StatusType DEF InitRpcVersionFails, Throw, Leave,
       CallType, ClientType, ThreadType, LinkType, HistoryType, ControlInv,
       ControlAt, CallInv, StreamInv, PopInv, Gone, not_inited, v1, v2
  <2>. QED BY <2>1, <2>2, ControlFrame
<1>. QED BY <1>1, <1>2, <1>3, <1>4, <1>5, <1>6, <1>7, <1>8

\* The steps of RpcClient::Recv preserve the control invariant.
LEMMA RecvControl ==
    ASSUME TypeOK, ControlInv, NEW p \in Party,
           \/ RecvDeliver(p) \/ RecvIgnore(p) \/ RecvGap(p)
           \/ RecvNeedsResend(p) \/ RedisLoses(p) \/ RecvTimesOut(p)
    PROVE  ControlInv'
<1> USE TypeParts
<1> USE DEF OthersUnchanged, ControlState, call, client, version, thread, net,
            link, list, history
<1>1. CASE RecvDeliver(p)
  <2>1. OthersUnchanged(p)
    BY <1>1 DEF RecvDeliver, Return, Leave, Pop, DataVersion, Decoded,
       CallType
  <2>2. ControlAt(p)'
    BY <1>1, OpType, OpSame, StatusType DEF RecvDeliver, Return, Leave, Pop,
       DataVersion, Decoded, CallType, ClientType, ThreadType, LinkType,
       HistoryType, ControlInv, ControlAt, CallInv, StreamInv, PopInv, Gone,
       not_inited, v1, v2
  <2>. QED BY <2>1, <2>2, ControlFrame
<1>2. CASE RecvIgnore(p)
  <2>1. OthersUnchanged(p)
    BY <1>2 DEF RecvIgnore, Pop, DataVersion
  <2>2. ControlAt(p)'
    BY <1>2, OpType, OpSame, StatusType DEF RecvIgnore, Pop, DataVersion,
       CallType, ClientType, ThreadType, LinkType, HistoryType, ControlInv,
       ControlAt, CallInv, StreamInv, PopInv, Gone, not_inited, v1, v2
  <2>. QED BY <2>1, <2>2, ControlFrame
<1>3. CASE RecvGap(p)
  <2>1. OthersUnchanged(p)
    BY <1>3 DEF RecvGap, Throw, Leave, Pop, DataVersion, CallType
  <2>2. ControlAt(p)'
    BY <1>3, OpType, OpSame, StatusType DEF RecvGap, Throw, Leave, Pop,
       DataVersion, CallType, ClientType, ThreadType, LinkType, HistoryType,
       ControlInv, ControlAt, CallInv, StreamInv, PopInv, Gone, not_inited,
       v1, v2
  <2>. QED BY <2>1, <2>2, ControlFrame
<1>4. CASE RecvNeedsResend(p)
  <2>1. OthersUnchanged(p)
    BY <1>4 DEF RecvNeedsResend, Goto, CallType
  <2>2. ControlAt(p)'
    BY <1>4, OpType, OpSame, StatusType DEF RecvNeedsResend, Goto, CallType,
       ClientType, ThreadType, LinkType, HistoryType, ControlInv, ControlAt,
       CallInv, StreamInv, PopInv, Gone, not_inited, v1, v2
  <2>. QED BY <2>1, <2>2, ControlFrame
<1>5. CASE RedisLoses(p)
  <2>1. OthersUnchanged(p)
    BY <1>5 DEF RedisLoses
  <2>2. ControlAt(p)'
    BY <1>5, OpType, OpSame, StatusType DEF RedisLoses, CallType, ClientType,
       ThreadType, LinkType, HistoryType, ControlInv, ControlAt, CallInv,
       StreamInv, PopInv, Gone, not_inited, v1, v2
  <2>. QED BY <2>1, <2>2, ControlFrame
<1>6. CASE RecvTimesOut(p)
  <2>1. OthersUnchanged(p)
    BY <1>6 DEF RecvTimesOut, Throw, Leave, CallType
  <2>2. ControlAt(p)'
    BY <1>6, OpType, OpSame, StatusType DEF RecvTimesOut, Throw, Leave,
       CallType, ClientType, ThreadType, LinkType, HistoryType, ControlInv,
       ControlAt, CallInv, StreamInv, PopInv, Gone, not_inited, v1, v2
  <2>. QED BY <2>1, <2>2, ControlFrame
<1>. QED BY <1>1, <1>2, <1>3, <1>4, <1>5, <1>6

\* The steps of wait_flush and finish preserve the control invariant.
LEMMA FinishControl ==
    ASSUME TypeOK, ControlInv, NEW p \in Party,
           \/ OtherCall(p) \/ (\E r \in {"ok", "false"} : FlushReturns(p, r))
           \/ FlushNeedsResend(p) \/ CloseFlushed(p) \/ FinishNoThread(p)
           \/ FinishV2(p) \/ FinishWithoutJoin(p) \/ Join(p)
    PROVE  ControlInv'
<1> USE TypeParts
<1> USE DEF OthersUnchanged, ControlState, call, client, version, thread, net,
            link, list, history
<1>1. CASE OtherCall(p)
  <2>1. OthersUnchanged(p)
    BY <1>1 DEF OtherCall, Goto, CallType
  <2>2. ControlAt(p)'
    BY <1>1, OpType, OpSame, StatusType DEF OtherCall, Goto, CallType,
       ClientType, ThreadType, LinkType, HistoryType, ControlInv, ControlAt,
       CallInv, StreamInv, PopInv, Gone, not_inited, v1, v2
  <2>. QED BY <2>1, <2>2, ControlFrame
<1>2. ASSUME NEW r \in {"ok", "false"}, FlushReturns(p, r) PROVE ControlInv'
  <2>1. OthersUnchanged(p)
    BY <1>2 DEF FlushReturns, Return, Leave, CallType
  <2>2. ControlAt(p)'
    BY <1>2, OpType, OpSame, StatusType DEF FlushReturns, Return, Leave,
       CallType, ClientType, ThreadType, LinkType, HistoryType, ControlInv,
       ControlAt, CallInv, StreamInv, PopInv, Gone, not_inited, v1, v2
  <2>. QED BY <2>1, <2>2, ControlFrame
<1>3. CASE FlushNeedsResend(p)
  <2>1. OthersUnchanged(p)
    BY <1>3 DEF FlushNeedsResend, Goto, CallType
  <2>2. ControlAt(p)'
    BY <1>3, OpType, OpSame, StatusType DEF FlushNeedsResend, Goto, CallType,
       ClientType, ThreadType, LinkType, HistoryType, ControlInv, ControlAt,
       CallInv, StreamInv, PopInv, Gone, not_inited, v1, v2, Broken
  <2>. QED BY <2>1, <2>2, ControlFrame
<1>4. CASE CloseFlushed(p)
  <2>1. OthersUnchanged(p)
    BY <1>4 DEF CloseFlushed, Goto, CallType
  <2>2. ControlAt(p)'
    BY <1>4, OpType, OpSame, StatusType DEF CloseFlushed, Goto, CallType,
       ClientType, ThreadType, LinkType, HistoryType, ControlInv, ControlAt,
       CallInv, StreamInv, PopInv, Gone, not_inited, v1, v2, Broken
  <2>. QED BY <2>1, <2>2, ControlFrame
<1>5. CASE FinishNoThread(p)
  <2>1. OthersUnchanged(p)
    BY <1>5 DEF FinishNoThread, Goto, StreamEnds, AfterFinish, CallType,
       LinkType
  <2>2. ControlAt(p)'
    BY <1>5, OpType, OpSame, StatusType DEF FinishNoThread, Goto, StreamEnds,
       AfterFinish, CallType, ClientType, ThreadType, LinkType, HistoryType,
       ControlInv, ControlAt, CallInv, StreamInv, PopInv, Gone, not_inited,
       v1, v2
  <2>. QED BY <2>1, <2>2, ControlFrame
<1>6. CASE FinishV2(p)
  <2>1. OthersUnchanged(p)
    BY <1>6 DEF FinishV2, Goto, StreamEnds, CallType, LinkType
  <2>2. ControlAt(p)'
    BY <1>6, OpType, OpSame, StatusType DEF FinishV2, Goto, StreamEnds,
       CallType, ClientType, ThreadType, LinkType, HistoryType, ControlInv,
       ControlAt, CallInv, StreamInv, PopInv, Gone, not_inited, v1, v2
  <2>. QED BY <2>1, <2>2, ControlFrame
<1>7. CASE FinishWithoutJoin(p)
  <2>1. OthersUnchanged(p)
    BY <1>7 DEF FinishWithoutJoin, Goto, StreamEnds, CallType, LinkType,
       ThreadType
  <2>2. ControlAt(p)'
    BY <1>7, OpType, OpSame, StatusType DEF FinishWithoutJoin, Goto,
       StreamEnds, CallType, ClientType, ThreadType, LinkType, HistoryType,
       ControlInv, ControlAt, CallInv, StreamInv, PopInv, Gone, not_inited,
       v1, v2
  <2>. QED BY <2>1, <2>2, ControlFrame
<1>8. CASE Join(p)
  <2>1. OthersUnchanged(p)
    BY <1>8 DEF Join, Goto, AfterFinish, CallType, ThreadType
  <2>2. ControlAt(p)'
    BY <1>8, OpType, OpSame, StatusType DEF Join, Goto, AfterFinish, CallType,
       ClientType, ThreadType, LinkType, HistoryType, ControlInv, ControlAt,
       CallInv, StreamInv, PopInv, Gone, not_inited, v1, v2
  <2>. QED BY <2>1, <2>2, ControlFrame
<1>. QED BY <1>1, <1>2, <1>3, <1>4, <1>5, <1>6, <1>7, <1>8

\* Reconnecting and resending preserve the control invariant.
LEMMA ReconnectControl ==
    ASSUME TypeOK, ControlInv, NEW p \in Party,
           \/ Reconnect(p) \/ ReconnectV1(p) \/ ReconnectFails(p)
           \/ ResendWrite(p) \/ (\E ok \in BOOLEAN : ResendReturns(p, ok))
    PROVE  ControlInv'
<1> USE TypeParts
<1> USE DEF OthersUnchanged, ControlState, call, client, version, thread, net,
            link, list, history
<1>1. CASE Reconnect(p)
  <2>1. OthersUnchanged(p)
    BY <1>1 DEF Reconnect, Goto, OpenStream, RpcVersion, CallType, ThreadType,
       LinkType
  <2>2. CallInv(p)'
    BY <1>1, OpType, OpSame DEF Reconnect, Goto, OpenStream, RpcVersion,
       CallType, ClientType, HistoryType, ControlInv, CallInv, StreamInv, Gone
  <2>3. StreamInv(p)'
    BY <1>1, OpType, OpSame DEF Reconnect, Goto, OpenStream, RpcVersion,
       CallType, ClientType, ThreadType, LinkType, ControlInv, CallInv,
       StreamInv, not_inited, v1, v2
  <2>4. PopInv(p)'
    BY <1>1 DEF Reconnect, Goto, OpenStream, RpcVersion, ClientType,
       ThreadType, ControlInv, PopInv
  <2>. QED BY <2>1, <2>2, <2>3, <2>4, ControlFrame DEF ControlAt
<1>2. CASE ReconnectV1(p)
  <2>1. /\ \/ pc'[p] = Op(p) /\ at'[p] = at[p]
           \/ pc'[p] = "idle"
        /\ \A q \in Party : q # p => pc'[q] = pc[q] /\ at'[q] = at[q]
    BY <1>2, NextTryEffect DEF ReconnectV1
  <2>2. OthersUnchanged(p)
    BY <1>2, <2>1 DEF ReconnectV1, LinkType
  <2>3. CallInv(p)'
    <3>1. Op(p) # "close" /\ (Op(p) = "send" => content[p] \in Msg)
      BY <1>2 DEF ReconnectV1, ControlInv, CallInv, Gone
    <3>. QED BY <1>2, <2>1, <3>1, OpType, OpSame DEF ReconnectV1, CallInv
  <2>4. StreamInv(p)'
    BY <1>2, <2>1, OpType, OpSame DEF ReconnectV1, CallType, ClientType,
       ThreadType, LinkType, ControlInv, CallInv, StreamInv, not_inited, v1,
       v2
  <2>5. PopInv(p)'
    BY <1>2, <2>1 DEF ReconnectV1, ClientType, ThreadType, ControlInv, PopInv
  <2>. QED BY <2>2, <2>3, <2>4, <2>5, ControlFrame DEF ControlAt
<1>3. CASE ReconnectFails(p)
  <2>1. OthersUnchanged(p)
    BY <1>3 DEF ReconnectFails, CallType
  <2>2. ControlAt(p)'
    BY <1>3, OpType, OpSame, StatusType DEF ReconnectFails, CallType,
       ClientType, ThreadType, LinkType, HistoryType, ControlInv, ControlAt,
       CallInv, StreamInv, PopInv, Gone, not_inited, v1, v2
  <2>. QED BY <2>1, <2>2, ControlFrame
<1>4. CASE ResendWrite(p)
  <2>1. OthersUnchanged(p)
    BY <1>4 DEF ResendWrite, Write
  <2>2. ControlAt(p)'
    BY <1>4, OpType, OpSame, StatusType DEF ResendWrite, Write, CallType,
       ClientType, ThreadType, LinkType, HistoryType, ControlInv, ControlAt,
       CallInv, StreamInv, PopInv, Gone, not_inited, v1, v2
  <2>. QED BY <2>1, <2>2, ControlFrame
<1>5. ASSUME NEW ok \in BOOLEAN, ResendReturns(p, ok) PROVE ControlInv'
  <2>1. /\ \/ pc'[p] = Op(p) /\ at'[p] = at[p]
           \/ pc'[p] = "idle"
        /\ \A q \in Party : q # p => pc'[q] = pc[q] /\ at'[q] = at[q]
    BY <1>5, NextTryEffect DEF ResendReturns
  <2>2. OthersUnchanged(p)
    BY <1>5, <2>1 DEF ResendReturns
  <2>3. CallInv(p)'
    BY <1>5, <2>1, OpType, OpSame DEF ResendReturns, CallType, ClientType,
       HistoryType, ControlInv, CallInv, StreamInv, Gone
  <2>4. StreamInv(p)'
    BY <1>5, <2>1, OpType, OpSame DEF ResendReturns, CallType, ClientType,
       ThreadType, LinkType, ControlInv, CallInv, StreamInv, not_inited, v1,
       v2
  <2>5. PopInv(p)'
    BY <1>5, <2>1 DEF ResendReturns, ClientType, ThreadType, ControlInv,
       PopInv
  <2>. QED BY <2>2, <2>3, <2>4, <2>5, ControlFrame DEF ControlAt
<1>. QED BY <1>1, <1>2, <1>3, <1>4, <1>5

\* The acknowledgement thread preserves the control invariant.
LEMMA RecvThreadControl ==
    ASSUME TypeOK, ControlInv, NEW p \in Party,
           \/ ThreadStart(p) \/ ReadAck(p) \/ WaitNotEmpty(p) \/ PopFront(p)
           \/ ReadEnd(p)
    PROVE  ControlInv'
<1> USE TypeParts
<1> USE DEF OthersUnchanged, ControlState, call, client, version, thread, net,
            link, list, history
<1>1. CASE ThreadStart(p)
  <2>1. OthersUnchanged(p)
    BY <1>1 DEF ThreadStart, ThreadType
  <2>2. ControlAt(p)'
    BY <1>1, OpType, OpSame, StatusType DEF ThreadStart, CallType, ClientType,
       ThreadType, LinkType, HistoryType, ControlInv, ControlAt, CallInv,
       StreamInv, PopInv, Gone, not_inited, v1, v2
  <2>. QED BY <2>1, <2>2, ControlFrame
<1>2. CASE ReadAck(p)
  <2>1. OthersUnchanged(p)
    BY <1>2 DEF ReadAck, ThreadType
  <2>2. ControlAt(p)'
    BY <1>2, OpType, OpSame, StatusType DEF ReadAck, CallType, ClientType,
       ThreadType, LinkType, HistoryType, ControlInv, ControlAt, CallInv,
       StreamInv, PopInv, Gone, not_inited, v1, v2
  <2>. QED BY <2>1, <2>2, ControlFrame
<1>3. CASE WaitNotEmpty(p)
  <2>1. OthersUnchanged(p)
    BY <1>3 DEF WaitNotEmpty, ThreadType
  <2>2. ControlAt(p)'
    BY <1>3, OpType, OpSame, StatusType DEF WaitNotEmpty, CallType,
       ClientType, ThreadType, LinkType, HistoryType, ControlInv, ControlAt,
       CallInv, StreamInv, PopInv, Gone, not_inited, v1, v2
  <2>. QED BY <2>1, <2>2, ControlFrame
<1>4. CASE PopFront(p)
  <2>1. OthersUnchanged(p)
    BY <1>4 DEF PopFront, ThreadType, ClientType
  <2>2. ControlAt(p)'
    BY <1>4, OpType, OpSame, StatusType DEF PopFront, CallType, ClientType,
       ThreadType, LinkType, HistoryType, ControlInv, ControlAt, CallInv,
       StreamInv, PopInv, Gone, not_inited, v1, v2
  <2>. QED BY <2>1, <2>2, ControlFrame
<1>5. CASE ReadEnd(p)
  <2>1. OthersUnchanged(p)
    BY <1>5 DEF ReadEnd, ThreadType
  <2>2. ControlAt(p)'
    BY <1>5, OpType, OpSame, StatusType DEF ReadEnd, CallType, ClientType,
       ThreadType, LinkType, HistoryType, ControlInv, ControlAt, CallInv,
       StreamInv, PopInv, Gone, not_inited, v1, v2
  <2>. QED BY <2>1, <2>2, ControlFrame
<1>. QED BY <1>1, <1>2, <1>3, <1>4, <1>5

\* The server and the network preserve the control invariant.
LEMMA NetControl ==
    ASSUME TypeOK, ControlInv, NEW p \in Party,
           \/ Break(p) \/ (\E k \in Stream : ServerPush(p, k))
           \/ (\E k \in Stream : ServerEnd(p, k))
    PROVE  ControlInv'
<1> USE TypeParts
<1> USE DEF OthersUnchanged, ControlState, call, client, version, thread, net,
            link, list, history
<1>1. CASE Break(p)
  <2>1. OthersUnchanged(p)
    BY <1>1 DEF Break, LinkType
  <2>2. CallInv(p)' /\ PopInv(p)'
    BY <1>1, OpSame DEF Break, ControlInv, CallInv, PopInv, Gone
  <2>3. StreamInv(p)'
    BY <1>1, OpSame DEF Break, LinkType, ControlInv, StreamInv, not_inited, v1, v2
  <2>. QED BY <2>1, <2>2, <2>3, ControlFrame DEF ControlAt
<1>2. ASSUME NEW k \in Stream, ServerPush(p, k) PROVE ControlInv'
  BY <1>2, ControlStutters DEF ServerPush, ControlInv, ControlAt
<1>3. ASSUME NEW k \in Stream, ServerEnd(p, k) PROVE ControlInv'
  BY <1>3, ControlStutters DEF ServerEnd, ControlInv, ControlAt
<1>. QED BY <1>1, <1>2, <1>3

\* Both invariants hold when the channels are constructed.
LEMMA InitHolds == Init => TypeOK /\ ControlInv
<1> SUFFICES ASSUME Init PROVE TypeOK /\ ControlInv
  OBVIOUS
<1>1. TypeOK
  <2>1. 0 \in 0 .. MaxRetry - 1 /\ 0 \in 0 .. MaxBreaks + 1 /\ 0 \in 0 .. MaxBreaks
    BY BoundAssumption
  <2>2. \A S : <<>> \in Seq(S)
    OBVIOUS
  <2>3. CallType /\ ClientType /\ ThreadType
    BY <2>1, <2>2 DEF Init, Each, CallType, ClientType, ThreadType, not_inited
  <2>4. LinkType /\ ListType /\ HistoryType
    BY <2>1, <2>2 DEF Init, Each, LinkType, ListType, HistoryType
  <2>5. QueueType
    BY <2>2 DEF Init, Each, QueueType
  <2>. QED BY <2>3, <2>4, <2>5, TypeParts
<1>2. ControlInv
  BY DEF Init, Each, ControlInv, CallInv, StreamInv, PopInv
<1>. QED BY <1>1, <1>2

\* Every step preserves both, which need each other: a stream is opened within
\* the bound because the one before broke, and pop_front finds a packet
\* because the thread saw one.
LEMMA StepHolds == TypeOK /\ ControlInv /\ [Next]_vars => TypeOK' /\ ControlInv'
<1> SUFFICES ASSUME TypeOK, ControlInv, [Next]_vars PROVE TypeOK' /\ ControlInv'
  OBVIOUS
<1>1. ASSUME NEW p \in Party, Caller(p) \/ RecvThread(p) \/ Server(p) \/ Fault(p)
      PROVE  TypeOK' /\ ControlInv'
  <2>1. TypeOK'
    BY <1>1, SendType, RecvType, FinishType, ReconnectType, RecvThreadType, NetType
       DEF Caller, Server, Fault
  <2>2. ControlInv'
    BY <1>1, SendControl, RecvControl, FinishControl, ReconnectControl,
       RecvThreadControl, NetControl DEF Caller, RecvThread, Server, Fault
  <2>. QED BY <2>1, <2>2
<1>2. CASE UNCHANGED vars
  <2>1. UNCHANGED <<call, content, client, thread, net, history>>
    BY <1>2 DEF vars
  <2>2. CallType'
    BY <2>1, TypeParts, UnchangedType
  <2>3. TypeOK'
    BY <2>1, <2>2, MoveType
  <2>4. \A q \in Party : UNCHANGED ControlState(q)
    BY <2>1 DEF ControlState, call, client, version, thread, net, link
  <2>. QED BY <2>3, <2>4, ControlStutters DEF ControlInv, ControlAt
<1>. QED BY <1>1, <1>2 DEF Next, Stopped

\* The type invariant holds for any parties, scripts and bounds: in particular
\* content is always there when a Send is retried, no stream is opened beyond
\* the breaks, and the queue is never popped when it is empty.
THEOREM TypeCorrect == Spec => []TypeOK
<1>1. Init => TypeOK /\ ControlInv
  BY InitHolds
<1>2. TypeOK /\ ControlInv /\ [Next]_vars => TypeOK' /\ ControlInv'
  BY StepHolds
<1>. QED BY <1>1, <1>2, PTL DEF Spec

=============================================================================
