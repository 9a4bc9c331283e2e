------------------------- MODULE RpcDeliveryProofs -------------------------
(***************************************************************************)
(* Theorems about what RpcChannel delivers: nothing is lost between a      *)
(* party's Send and its peer's redis list, nothing is ahead in the list,   *)
(* and what recv returns is what was sent.  p is the sender, Peer[p] the   *)
(* receiver.                                                               *)
(***************************************************************************)
EXTENDS RpcAckProofs

\* Both servers know protocol version 2: every packet has a number.
NumberedServers == \A p \in Party : ServerVersion[p] >= v2

\* No resend ends the last iteration of a retry loop of channel.cpp.
TriesLeft == \A p \in Party : pc[p] = "resend" => tries[p] + 1 < MaxRetry

\* A party's streams break less often than one call retries.
EnoughTries == MaxBreaks < MaxRetry

-----------------------------------------------------------------------------
(* The invariant of the numbers *)

\* The numbers before each one of x are in R or earlier in x.
Preceded(x, R) ==
    \A i \in DOMAIN x : \A s \in 0 .. x[i].seq - 1 :
        s \in R \/ \E j \in 1 .. i - 1 : x[j].seq = s

\* What is acknowledged has reached the list; no stream, the ones given up
\* included, is ahead of the list, and the list is not ahead of recv.
OrderAt(p) ==
    /\ 0 .. Acked(p) - 1 \subseteq Reached(Peer[p])
    /\ \A k \in Stream : Preceded(up[p][k], Reached(Peer[p]))
    /\ Preceded(redis[Peer[p]], 0 .. m_recv_idx[Peer[p]])

OrderInv == \A p \in Party : OrderAt(p)

\* The numbered protocol is the one in use.
ProtocolInv == \A p \in Party : m_use_rpc_version[p] # v1

\* The first element of the list tells its format.
FormatAt(p) ==
    /\ m_use_redis_data_version[p] # v1
    /\ m_use_redis_data_version[p] = not_inited =>
          /\ marked[p] <=> redis[p] # <<>>
          /\ redis[p] # <<>> => Head(redis[p]).magic

FormatInv == \A p \in Party : FormatAt(p)

-----------------------------------------------------------------------------
(* The invariant of the contents *)

\* send has been called and has not written its message yet.
Pending(p) == Op(p) = "send" /\ pc[p] \notin {"idle", "wrote"}

\* The message of the next number is the one being sent.
SentAt(p) ==
    /\ Pending(p) => Len(sent[p]) = m_seq[p] + 1 /\ content[p] = sent[p][m_seq[p] + 1]
    /\ pc[p] = "wrote" => content[p] = sent[p][m_seq[p]]
    /\ ~Pending(p) /\ ret[p] # "throw" => Len(sent[p]) = m_seq[p]
    /\ ret[p] = "throw" => Op(p) = "close" \/ pc[p] = "noclient"
    /\ m_seq[p] <= Len(sent[p])

\* A number stands for the message sent under it.
Carries(x, messages) ==
    \A i \in DOMAIN x : x[i].seq # Disconnected =>
        x[i].seq + 1 \in DOMAIN messages /\ x[i].body = messages[x[i].seq + 1]

BodyAt(p) ==
    /\ Carries(m_notack_queue[p], sent[p])
    /\ \A k \in Stream : Carries(up[p][k], sent[p])
    /\ Carries(redis[Peer[p]], sent[p])

\* What recv has returned is the beginning of what was sent, up to m_recv_idx.
GotAt(p) ==
    m_use_redis_data_version[Peer[p]] # v1 =>
        /\ Len(got[Peer[p]]) = m_recv_idx[Peer[p]] + 1
        /\ Len(got[Peer[p]]) <= Len(sent[p])
        /\ \A i \in DOMAIN got[Peer[p]] : got[Peer[p]][i] = sent[p][i]

\* Nothing is left in the queue when flush has returned true.
FlushedAt(p) ==
    /\ pc[p] = "idle" /\ at[p] \in 2 .. Len(Script[p]) + 1
    /\ Script[p][at[p] - 1] = "flush" /\ ret[p] = "ok"
    => m_notack_queue[p] = <<>>

CallsInv   == \A p \in Party : SentAt(p) /\ FlushedAt(p)
BodyInv    == \A p \in Party : BodyAt(p)
GotInv     == \A p \in Party : GotAt(p)
ContentInv == CallsInv /\ BodyInv /\ GotInv

-----------------------------------------------------------------------------
(* Numbers in front of other numbers *)

\* More numbers to go by
LEMMA PrecededMore ==
    ASSUME NEW x, NEW R, NEW S, Preceded(x, R), R \cap Nat \subseteq S
    PROVE  Preceded(x, S)
<1> SUFFICES ASSUME NEW i \in DOMAIN x, NEW s \in 0 .. x[i].seq - 1,
                    ~ \E j \in 1 .. i - 1 : x[j].seq = s
             PROVE  s \in S
  BY DEF Preceded
<1>1. s \in R
  BY DEF Preceded
<1>2. s \in Nat
  OBVIOUS
<1>. QED BY <1>1, <1>2

\* One more element at the end
LEMMA PrecededAppend ==
    ASSUME NEW T, NEW x \in Seq(T), NEW e \in T, NEW R, Preceded(x, R),
           \A s \in 0 .. e.seq - 1 : s \in R \/ \E j \in DOMAIN x : x[j].seq = s
    PROVE  Preceded(Append(x, e), R)
<1> DEFINE y == Append(x, e)
<1>1. /\ DOMAIN y = 1 .. Len(x) + 1 /\ DOMAIN x = 1 .. Len(x) /\ Len(x) \in Nat
      /\ \A i \in 1 .. Len(x) : y[i] = x[i]
      /\ y[Len(x) + 1] = e
  BY AppendFacts
<1> HIDE DEF y
<1>2. ASSUME NEW i \in DOMAIN y, NEW s \in 0 .. y[i].seq - 1
      PROVE  s \in R \/ \E j \in 1 .. i - 1 : y[j].seq = s
  <2>1. CASE i \in 1 .. Len(x)
    <3>1. y[i] = x[i] /\ i \in DOMAIN x
      BY <1>1, <2>1
    <3>2. s \in R \/ \E j \in 1 .. i - 1 : x[j].seq = s
      BY <3>1 DEF Preceded
    <3>3. \A j \in 1 .. i - 1 : j \in 1 .. Len(x)
      BY <1>1, <2>1
    <3>. QED BY <1>1, <3>2, <3>3
  <2>2. CASE i = Len(x) + 1
    <3>1. s \in R \/ \E j \in DOMAIN x : x[j].seq = s
      BY <1>1, <2>2
    <3>2. \A j \in DOMAIN x : j \in 1 .. i - 1 /\ y[j] = x[j]
      BY <1>1, <2>2
    <3>. QED BY <3>1, <3>2
  <2>. QED BY <1>1, <2>1, <2>2
<1>. QED BY <1>2 DEF Preceded, y

\* The first element is taken away and counted elsewhere.
LEMMA PrecededTail ==
    ASSUME NEW T, NEW x \in Seq(T), x # <<>>, NEW R, NEW S, Preceded(x, R),
           R \cap Nat \subseteq S, Head(x).seq \in Nat => Head(x).seq \in S
    PROVE  Preceded(Tail(x), S)
<1> DEFINE y == Tail(x)
<1>1. /\ DOMAIN y = 1 .. Len(x) - 1 /\ DOMAIN x = 1 .. Len(x) /\ Len(x) \in Nat \ {0}
      /\ \A i \in 1 .. Len(x) - 1 : y[i] = x[i + 1]
      /\ Head(x) = x[1]
  BY TailFacts
<1> HIDE DEF y
<1>2. ASSUME NEW i \in DOMAIN y, NEW s \in 0 .. y[i].seq - 1
      PROVE  s \in S \/ \E j \in 1 .. i - 1 : y[j].seq = s
  <2>1. i \in 1 .. Len(x) - 1 /\ i + 1 \in DOMAIN x /\ y[i] = x[i + 1]
    BY <1>1
  <2>2. s \in R \/ \E j \in 1 .. (i + 1) - 1 : x[j].seq = s
    BY <2>1 DEF Preceded
  <2>3. s \in Nat
    OBVIOUS
  <2>4. ASSUME NEW j \in 1 .. (i + 1) - 1, x[j].seq = s
        PROVE  s \in S \/ \E n \in 1 .. i - 1 : y[n].seq = s
    <3>1. CASE j = 1
      BY <1>1, <2>3, <2>4, <3>1
    <3>2. CASE j # 1
      <4>1. j - 1 \in 1 .. i - 1 /\ j - 1 \in 1 .. Len(x) - 1 /\ (j - 1) + 1 = j
        BY <1>1, <2>1, <3>2
      <4>2. y[j - 1] = x[j]
        BY <1>1, <4>1
      <4>. QED BY <2>4, <4>1, <4>2
    <3>. QED BY <3>1, <3>2
  <2>. QED BY <2>2, <2>3, <2>4
<1>. QED BY <1>2 DEF Preceded, y

\* The end is lost.
LEMMA PrecededPrefix ==
    ASSUME NEW T, NEW x \in Seq(T), NEW n \in 0 .. Len(x), NEW R, Preceded(x, R)
    PROVE  Preceded(SubSeq(x, 1, n), R)
<1> DEFINE y == SubSeq(x, 1, n)
<1>1. /\ DOMAIN y = 1 .. n /\ DOMAIN x = 1 .. Len(x) /\ Len(x) \in Nat /\ n \in Nat /\ n <= Len(x)
      /\ \A i \in 1 .. n : y[i] = x[i]
  BY PrefixFacts, AppendFacts
<1> HIDE DEF y
<1>2. ASSUME NEW i \in DOMAIN y, NEW s \in 0 .. y[i].seq - 1
      PROVE  s \in R \/ \E j \in 1 .. i - 1 : y[j].seq = s
  <2>1. i \in 1 .. n /\ y[i] = x[i] /\ i \in DOMAIN x
    BY <1>1
  <2>2. s \in R \/ \E j \in 1 .. i - 1 : x[j].seq = s
    BY <2>1 DEF Preceded
  <2>3. \A j \in 1 .. i - 1 : j \in 1 .. n
    BY <1>1, <2>1
  <2>. QED BY <1>1, <2>2, <2>3
<1>. QED BY <1>2 DEF Preceded, y

-----------------------------------------------------------------------------
(* Which steps move packets *)

\* The receivers of two senders are different.
LEMMA OnePeer ==
    ASSUME NEW p \in Party
    PROVE  /\ Peer[p] \in Party /\ Peer[p] # p /\ Peer[Peer[p]] = p
           /\ \A q \in Party : q # p => Peer[q] # Peer[p]
BY PeerAssumption

\* Steps that neither write to a stream nor touch a list
LEMMA QuietSteps ==
    ASSUME NEW p \in Party,
           \/ OtherCall(p) \/ SendCall(p) \/ InitSender(p) \/ SendEnqueue(p)
           \/ SendNullSender(p) \/ SendFails(p) \/ RecvNeedsResend(p)
           \/ (\E r \in {"ok", "false"} : FlushReturns(p, r))
           \/ FlushNeedsResend(p) \/ CloseFlushed(p) \/ FinishNoThread(p) \/ FinishV2(p)
           \/ FinishWithoutJoin(p) \/ Join(p) \/ Reconnect(p)
           \/ (\E ok \in BOOLEAN : ResendReturns(p, ok))
           \/ RecvThread(p) \/ InitRpcVersionFails(p) \/ ReconnectFails(p) \/ RecvTimesOut(p)
    PROVE  UNCHANGED <<up, redis, marked, m_recv_idx, m_use_redis_data_version>>
<1> USE DEF client, version, net, list
<1>1. CASE OtherCall(p) \/ SendCall(p) \/ InitSender(p) \/ SendEnqueue(p)
           \/ SendNullSender(p) \/ SendFails(p) \/ RecvNeedsResend(p)
  BY <1>1 DEF OtherCall, SendCall, InitSender, OpenStream, SendEnqueue, SendNullSender,
              SendFails, RecvNeedsResend
<1>2. CASE (\E r \in {"ok", "false"} : FlushReturns(p, r))
           \/ FlushNeedsResend(p) \/ CloseFlushed(p) \/ FinishNoThread(p) \/ FinishV2(p)
           \/ FinishWithoutJoin(p) \/ Join(p)
  BY <1>2 DEF FlushReturns, FlushNeedsResend, CloseFlushed, FinishNoThread, FinishV2,
              FinishWithoutJoin, Join, StreamEnds
<1>3. CASE Reconnect(p) \/ (\E ok \in BOOLEAN : ResendReturns(p, ok))
           \/ InitRpcVersionFails(p) \/ ReconnectFails(p) \/ RecvTimesOut(p)
  BY <1>3 DEF Reconnect, OpenStream, ResendReturns, InitRpcVersionFails, ReconnectFails,
              RecvTimesOut
<1>4. CASE RecvThread(p)
  BY <1>4 DEF RecvThread, ThreadStart, ReadAck, WaitNotEmpty, PopFront, ReadEnd
<1>. QED BY <1>1, <1>2, <1>3, <1>4

\* A party changes its protocol version only with its first Send.
LEMMA VersionSteps ==
    ASSUME NEW p \in Party, Caller(p) \/ RecvThread(p) \/ Server(p) \/ Fault(p), ~InitSender(p)
    PROVE  m_use_rpc_version' = m_use_rpc_version
<1> USE DEF client, version
<1>1. CASE Caller(p)
  BY <1>1 DEF Caller, OtherCall, SendCall, SendWrite, SendEnqueue, SendWriteV1, SendNullSender,
     SendFails, RecvDeliver, RecvIgnore, RecvGap, Pop, RecvNeedsResend, FlushReturns,
     FlushNeedsResend, CloseFlushed, FinishNoThread, FinishV2, FinishWithoutJoin, StreamEnds,
     Join, Reconnect, ReconnectV1, ResendWrite, ResendReturns
<1>2. CASE RecvThread(p)
  BY <1>2 DEF RecvThread, ThreadStart, ReadAck, WaitNotEmpty, PopFront, ReadEnd
<1>3. CASE Server(p) \/ Fault(p)
  BY <1>3 DEF Server, Fault, ServerPush, ServerEnd, Break, InitRpcVersionFails,
     ReconnectFails, RedisLoses, RecvTimesOut, FlushReturns
<1>. QED BY <1>1, <1>2, <1>3

\* With version 2 on both sides no client falls back to the old protocol.
LEMMA ProtocolStep ==
    ASSUME NumberedServers, TypeOK, ProtocolInv, [Next]_vars
    PROVE  ProtocolInv'
<1>1. ASSUME NEW p \in Party, InitSender(p) PROVE ProtocolInv'
  <2>1. RpcVersion(p) = v2
    BY OnePeer DEF NumberedServers, RpcVersion
  <2>. QED BY <1>1, <2>1 DEF InitSender, ProtocolInv, TypeOK, v1, v2
<1>2. ASSUME NEW p \in Party, Caller(p) \/ RecvThread(p) \/ Server(p) \/ Fault(p), ~InitSender(p)
      PROVE  ProtocolInv'
  BY <1>2, VersionSteps DEF ProtocolInv
<1>3. CASE UNCHANGED vars
  BY <1>3 DEF vars, client, version, ProtocolInv
<1>. QED BY <1>1, <1>2, <1>3 DEF Next, Stopped

-----------------------------------------------------------------------------
(* Steps and the invariant of the numbers *)

\* What every other party's acknowledgements make of a step of p
LEMMA KeepsAll ==
    ASSUME TypeOK, AckInv, NEW p \in Party, Keeps(p)
    PROVE  \A q \in Party : Acked(q)' <= Acked(q)
<1>1. \A q \in Party : q # p => Acked(q)' = Acked(q)
  BY AckStutters DEF Keeps, AckInv
<1>2. \A q \in Party : Acked(q) \in Int
  BY PartyTypes
<1>. QED BY <1>1, <1>2 DEF Keeps

\* The numbers of the other parties are left alone altogether.
LEMMA CalmAll ==
    ASSUME TypeOK, AckInv, \A q \in Party : UNCHANGED AckState(q)
    PROVE  \A q \in Party : Acked(q)' <= Acked(q)
<1>1. \A q \in Party : Acked(q)' = Acked(q)
  BY AckStutters DEF AckInv
<1>2. \A q \in Party : Acked(q) \in Int
  BY PartyTypes
<1>. QED BY <1>1, <1>2

\* Acked is a number after a step, too.
LEMMA AckedNext ==
    ASSUME TypeOK', NEW p \in Party
    PROVE  Acked(p)' \in Int
<1>1. m_seq'[p] \in Nat /\ m_notack_queue'[p] \in Seq(Packet) /\ down'[p] \in Seq(Nat)
  BY DEF TypeOK
<1>2. Len(m_notack_queue'[p]) \in Nat /\ Len(down'[p]) \in Nat
  BY <1>1
<1>3. Open(p)' \in Nat /\ Taken(p)' \in Nat
  BY <1>2 DEF Open, Taken
<1>4. First(p)' \in Int
  BY <1>1, <1>3 DEF First
<1>. QED BY <1>2, <1>3, <1>4 DEF Acked

\* A step that acknowledges nothing new, while the list of the receiver
\* forgets no number and stays in order
LEMMA OrderKept ==
    ASSUME TypeOK, TypeOK', NEW p \in Party, OrderAt(p), Acked(p)' <= Acked(p),
           \A k \in Stream : Preceded(up'[p][k], Reached(Peer[p])),
           Reached(Peer[p]) \cap Nat \subseteq Reached(Peer[p])',
           Preceded(redis'[Peer[p]], 0 .. m_recv_idx'[Peer[p]])
    PROVE  OrderAt(p)'
<1>1. 0 .. Acked(p)' - 1 \subseteq Reached(Peer[p])'
  <2>1. 0 .. Acked(p)' - 1 \subseteq 0 .. Acked(p) - 1
    <3>1. Acked(p) \in Int /\ Acked(p)' \in Int
      BY PartyTypes, AckedNext
    <3>. QED BY <3>1
  <2>2. 0 .. Acked(p) - 1 \subseteq Reached(Peer[p])
    BY DEF OrderAt
  <2>3. 0 .. Acked(p) - 1 \subseteq Nat
    OBVIOUS
  <2>. QED BY <2>1, <2>2, <2>3
<1>2. \A k \in Stream : Preceded(up'[p][k], Reached(Peer[p])')
  BY PrecededMore
<1>. QED BY <1>1, <1>2 DEF OrderAt

\* Steps that move no packet
LEMMA QuietOrder ==
    ASSUME TypeOK, TypeOK', OrderInv, UNCHANGED <<up, redis, m_recv_idx>>,
           \A q \in Party : Acked(q)' <= Acked(q)
    PROVE  OrderInv'
<1> SUFFICES ASSUME NEW p \in Party PROVE OrderAt(p)'
  BY DEF OrderInv
<1>1. OrderAt(p)
  BY DEF OrderInv
<1>2. Reached(Peer[p])' = Reached(Peer[p])
  BY DEF Reached
<1>3. \A k \in Stream : Preceded(up'[p][k], Reached(Peer[p]))
  BY <1>1 DEF OrderAt
<1>4. Preceded(redis'[Peer[p]], 0 .. m_recv_idx'[Peer[p]])
  BY <1>1 DEF OrderAt
<1>. QED BY <1>1, <1>2, <1>3, <1>4, OrderKept

\* Write: every number before the one written is acknowledged or in front of
\* it in the same stream.
LEMMA WriteOrder ==
    ASSUME TypeOK, TypeOK', ControlInv, AckInv, OrderInv, NEW p \in Party, NEW packet \in Packet,
           stream[p] = "open", m_use_rpc_version[p] = v2, Room(p), Write(p, packet),
           packet.seq = Written(p), UNCHANGED <<redis, m_recv_idx>>,
           \A q \in Party : Acked(q)' <= Acked(q)
    PROVE  OrderInv'
<1> SUFFICES ASSUME NEW r \in Party PROVE OrderAt(r)'
  BY DEF OrderInv
<1>1. OrderAt(r) /\ OrderAt(p)
  BY DEF OrderInv
<1>2. Reached(Peer[r])' = Reached(Peer[r])
  BY DEF Reached
<1>3. \A k \in Stream : Preceded(up'[r][k], Reached(Peer[r]))
  <2>1. CASE r # p
    BY <1>1, <2>1, WriteEffect DEF OrderAt
  <2>2. CASE r = p
    <3> SUFFICES ASSUME NEW k \in Stream PROVE Preceded(up'[p][k], Reached(Peer[p]))
      BY <2>2
    <3>1. CASE k # cur[p]
      BY <1>1, <3>1, WriteEffect DEF OrderAt
    <3>2. CASE k = cur[p]
      <4> DEFINE u == up[p][cur[p]]
      <4>1. u \in Seq(Packet) /\ up'[p][cur[p]] = Append(u, packet) /\ cur[p] \in Stream
        BY CurrentStream, WriteEffect
      <4>2. /\ Acked(p) + Len(u) = Written(p) /\ \A i \in DOMAIN u : u[i].seq = Acked(p) + i - 1
            /\ Acked(p) \in Int /\ Len(u) \in Nat /\ DOMAIN u = 1 .. Len(u)
        <5>1. Acked(p) + Len(u) = Written(p) /\ \A i \in DOMAIN u : u[i].seq = Acked(p) + i - 1
          BY DEF AckInv, AckAt, UpInv
        <5>2. Len(u) \in Nat /\ DOMAIN u = 1 .. Len(u)
          BY <4>1
        <5>. QED BY <5>1, <5>2, PartyTypes
      <4>3. Preceded(u, Reached(Peer[p])) /\ 0 .. Acked(p) - 1 \subseteq Reached(Peer[p])
        BY <1>1, <4>1 DEF OrderAt
      <4> HIDE DEF u
      <4>4. \A s \in 0 .. packet.seq - 1 : s \in Reached(Peer[p]) \/ \E j \in DOMAIN u : u[j].seq = s
        <5> SUFFICES ASSUME NEW s \in 0 .. packet.seq - 1, s \notin Reached(Peer[p])
                     PROVE  \E j \in DOMAIN u : u[j].seq = s
          OBVIOUS
        <5>1. s \in Nat /\ s < Acked(p) + Len(u)
          BY <4>2
        <5>2. ~(s < Acked(p))
          BY <4>2, <4>3, <5>1
        <5>3. s - Acked(p) + 1 \in DOMAIN u
          BY <4>2, <5>1, <5>2
        <5>4. u[s - Acked(p) + 1].seq = Acked(p) + (s - Acked(p) + 1) - 1
          BY <4>2, <5>3
        <5>5. u[s - Acked(p) + 1].seq = s
          BY <4>2, <5>1, <5>4
        <5>. QED BY <5>3, <5>5
      <4>. QED BY <3>2, <4>1, <4>3, <4>4, PrecededAppend
    <3>. QED BY <3>1, <3>2
  <2>. QED BY <2>1, <2>2
<1>4. Preceded(redis'[Peer[r]], 0 .. m_recv_idx'[Peer[r]])
  BY <1>1 DEF OrderAt
<1>. QED BY <1>1, <1>2, <1>3, <1>4, OrderKept

\* A break cuts a stream short.
LEMMA BreakOrder ==
    ASSUME TypeOK, TypeOK', ControlInv, AckInv, OrderInv, NEW p \in Party, Break(p)
    PROVE  OrderInv'
<1> SUFFICES ASSUME NEW r \in Party PROVE OrderAt(r)'
  BY DEF OrderInv
<1>1. OrderAt(r) /\ UNCHANGED <<redis, m_recv_idx>> /\ stream[p] = "open"
  BY DEF OrderInv, Break, client, list
<1>2. Reached(Peer[r])' = Reached(Peer[r])
  BY <1>1 DEF Reached
<1>3. \A k \in Stream : Preceded(up'[r][k], Reached(Peer[r]))
  <2>1. PICK i \in 0 .. Len(up[p][cur[p]]) : up' = [up EXCEPT ![p][cur[p]] = SubSeq(@, 1, i)]
    BY DEF Break
  <2>2. up \in [Party -> [Stream -> Seq(Packet)]] /\ cur[p] \in Stream
    BY <1>1, CurrentStream DEF TypeOK
  <2>3. CASE r # p
    BY <1>1, <2>1, <2>2, <2>3 DEF OrderAt
  <2>4. CASE r = p
    <3> SUFFICES ASSUME NEW k \in Stream PROVE Preceded(up'[p][k], Reached(Peer[p]))
      BY <2>4
    <3>1. CASE k # cur[p]
      BY <1>1, <2>1, <2>2, <2>4, <3>1 DEF OrderAt
    <3>2. CASE k = cur[p]
      <4>1. up'[p][k] = SubSeq(up[p][k], 1, i) /\ up[p][k] \in Seq(Packet)
        BY <2>1, <2>2, <3>2
      <4>2. Preceded(up[p][k], Reached(Peer[p]))
        BY <1>1, <2>4 DEF OrderAt
      <4>3. i \in 0 .. Len(up[p][k])
        BY <2>1, <3>2
      <4>. QED BY <4>1, <4>2, <4>3, PrecededPrefix
    <3>. QED BY <3>1, <3>2
  <2>. QED BY <2>3, <2>4
<1>4. Preceded(redis'[Peer[r]], 0 .. m_recv_idx'[Peer[r]])
  BY <1>1 DEF OrderAt
<1>5. Acked(r)' <= Acked(r)
  BY BreakAck, KeepsAll
<1>. QED BY <1>1, <1>2, <1>3, <1>4, <1>5, OrderKept

\* The element the server pushes to the list of q
Pushed(q, s, m) == [seq |-> s, body |-> m, magic |-> ~marked[q] /\ ServerVersion[q] >= v2]

\* A push adds one element at the end of one list.
LEMMA PushEffect ==
    ASSUME TypeOK, NEW q \in Party, NEW s \in Nat \cup {Disconnected},
           NEW m \in Msg \cup {NoMsg}, Push(q, s, m)
    PROVE  /\ Pushed(q, s, m) \in Element /\ redis[q] \in Seq(Element)
           /\ redis'[q] = Append(redis[q], Pushed(q, s, m))
           /\ Pushed(q, s, m).seq = s /\ Pushed(q, s, m).body = m
           /\ marked'[q]
           /\ \A r \in Party : r # q => redis'[r] = redis[r] /\ marked'[r] = marked[r]
<1>1. redis \in [Party -> Seq(Element)] /\ marked \in [Party -> BOOLEAN]
  BY DEF TypeOK
<1>2. /\ redis' = [redis EXCEPT ![q] = Append(@, Pushed(q, s, m))]
      /\ marked' = [marked EXCEPT ![q] = TRUE]
  BY DEF Push, Pushed
<1>3. Pushed(q, s, m) \in Element
  BY DEF Pushed, Element
<1>4. Pushed(q, s, m).seq = s /\ Pushed(q, s, m).body = m
  BY DEF Pushed
<1>. QED BY <1>1, <1>2, <1>3, <1>4

\* The number pushed has reached the list, and none is forgotten.
LEMMA PushReached ==
    ASSUME TypeOK, NEW q \in Party, NEW s \in Nat \cup {Disconnected},
           NEW m \in Msg \cup {NoMsg}, Push(q, s, m), UNCHANGED m_recv_idx
    PROVE  /\ Reached(q) \subseteq Reached(q)' /\ s \in Reached(q)'
           /\ \A r \in Party : r # q => Reached(r)' = Reached(r)
<1> DEFINE x == redis[q]
           e == Pushed(q, s, m)
<1>1. /\ x \in Seq(Element) /\ e \in Element /\ redis'[q] = Append(x, e) /\ e.seq = s
      /\ \A r \in Party : r # q => redis'[r] = redis[r]
  <2>1. /\ Pushed(q, s, m) \in Element /\ redis[q] \in Seq(Element)
        /\ redis'[q] = Append(redis[q], Pushed(q, s, m))
    BY PushEffect
  <2>2. /\ Pushed(q, s, m).seq = s
        /\ \A r \in Party : r # q => redis'[r] = redis[r]
    BY PushEffect
  <2>. QED BY <2>1, <2>2
<1>2. /\ DOMAIN x = 1 .. Len(x) /\ DOMAIN Append(x, e) = 1 .. Len(x) + 1 /\ Len(x) \in Nat
      /\ \A i \in 1 .. Len(x) : Append(x, e)[i] = x[i]
      /\ Append(x, e)[Len(x) + 1] = e
  BY <1>1, AppendFacts
<1> HIDE DEF e
<1>3. Reached(q) = 0 .. m_recv_idx[q] \cup {x[i].seq : i \in DOMAIN x}
  BY DEF Reached
<1>4. Reached(q)' = 0 .. m_recv_idx[q] \cup {Append(x, e)[i].seq : i \in DOMAIN Append(x, e)}
  BY <1>1 DEF Reached
<1> HIDE DEF x
<1>5. Reached(q) \subseteq Reached(q)'
  <2>1. \A i \in DOMAIN x : i \in DOMAIN Append(x, e) /\ x[i].seq = Append(x, e)[i].seq
    BY <1>2
  <2>. QED BY <1>3, <1>4, <2>1
<1>6. s \in Reached(q)'
  <2>1. Len(x) + 1 \in DOMAIN Append(x, e) /\ Append(x, e)[Len(x) + 1].seq = s
    BY <1>1, <1>2
  <2>. QED BY <1>4, <2>1
<1>7. \A r \in Party : r # q => Reached(r)' = Reached(r)
  BY <1>1 DEF Reached
<1>. QED BY <1>5, <1>6, <1>7

\* The handler of a stream pushes its first packet: it is the next number of
\* the list, or one the list has had.
LEMMA ServerPushOrder ==
    ASSUME TypeOK, TypeOK', ControlInv, AckInv, OrderInv, NEW p \in Party, NEW k \in Stream,
           ServerPush(p, k)
    PROVE  OrderInv'
<1> DEFINE u == up[p][k]
           q == Peer[p]
<1>1. /\ q \in Party /\ q # p /\ \A r \in Party : r # p => Peer[r] # q
  BY OnePeer
<1>2. /\ u # <<>> /\ Push(q, Head(u).seq, Head(u).body) /\ UNCHANGED m_recv_idx
      /\ up' = [up EXCEPT ![p][k] = Tail(@)]
  BY DEF ServerPush, client
<1>3. up \in [Party -> [Stream -> Seq(Packet)]] /\ u \in Seq(Packet)
  <2>1. up \in [Party -> [Stream -> Seq(Packet)]]
    BY DEF TypeOK
  <2>. QED BY <2>1
<1>4. Head(u) \in Packet /\ Head(u) = u[1] /\ 1 \in DOMAIN u
  BY <1>2, <1>3, TailFacts
<1>5. Head(u).seq \in Nat /\ Head(u).body \in Msg
  BY <1>4 DEF Packet
<1>6. /\ up'[p][k] = Tail(u) /\ \A j \in Stream : j # k => up'[p][j] = up[p][j]
      /\ \A r \in Party : r # p => up'[r] = up[r]
  BY <1>2, <1>3
<1>7. /\ Reached(q) \subseteq Reached(q)' /\ Head(u).seq \in Reached(q)'
      /\ \A r \in Party : r # q => Reached(r)' = Reached(r)
  BY <1>1, <1>2, <1>5, PushReached
<1>8. ASSUME NEW r \in Party, r # p PROVE OrderAt(r)'
  <2>1. OrderAt(r) /\ Peer[r] # q /\ Peer[r] \in Party
    BY <1>1, <1>8, OnePeer DEF OrderInv
  <2>2. redis'[Peer[r]] = redis[Peer[r]] /\ Reached(Peer[r])' = Reached(Peer[r])
    BY <1>1, <1>2, <1>5, <1>7, <2>1, PushEffect
  <2>3. Acked(r)' <= Acked(r)
    <3>1. UNCHANGED AckState(r)
      BY <1>8, ServerPushAck DEF Keeps
    <3>2. Acked(r)' = Acked(r) /\ Acked(r) \in Int
      BY <3>1, AckStutters, PartyTypes DEF AckInv
    <3>. QED BY <3>2
  <2>4. \A j \in Stream : Preceded(up'[r][j], Reached(Peer[r]))
    BY <1>6, <1>8, <2>1 DEF OrderAt
  <2>5. Preceded(redis'[Peer[r]], 0 .. m_recv_idx'[Peer[r]])
    BY <1>2, <2>1, <2>2 DEF OrderAt
  <2>. QED BY <2>1, <2>2, <2>3, <2>4, <2>5, OrderKept
<1>9. OrderAt(p)'
  <2>1. /\ 0 .. Acked(p) - 1 \subseteq Reached(q) /\ Preceded(redis[q], 0 .. m_recv_idx[q])
        /\ \A j \in Stream : Preceded(up[p][j], Reached(q))
    BY DEF OrderInv, OrderAt
  <2>2. 0 .. Acked(p)' - 1 \subseteq Reached(q)'
    <3>0. Acked(p) \in Int /\ Acked(p)' \in Int
      BY PartyTypes, AckedNext
    <3>1. CASE Acked(p)' <= Acked(p)
      <4>1. 0 .. Acked(p)' - 1 \subseteq 0 .. Acked(p) - 1
        BY <3>0, <3>1
      <4>. QED BY <1>7, <2>1, <4>1
    <3>2. CASE Acked(p)' = Acked(p) + 1 /\ Head(u).seq = Acked(p)
      <4>1. \A s \in 0 .. Acked(p)' - 1 : s \in 0 .. Acked(p) - 1 \/ s = Head(u).seq
        BY <3>0, <3>2
      <4>. QED BY <1>7, <2>1, <4>1
    <3>. QED BY <3>1, <3>2, ServerPushAck DEF Keeps
  <2>3. \A j \in Stream : Preceded(up'[p][j], Reached(q)')
    <3> SUFFICES ASSUME NEW j \in Stream PROVE Preceded(up'[p][j], Reached(q)')
      OBVIOUS
    <3>1. CASE j # k
      BY <1>6, <1>7, <2>1, <3>1, PrecededMore
    <3>2. CASE j = k
      <4>1. Preceded(u, Reached(q))
        BY <2>1
      <4> HIDE DEF u, q
      <4>2. Preceded(Tail(u), Reached(q)')
        BY <1>2, <1>3, <1>7, <4>1, PrecededTail
      <4>. QED BY <1>6, <3>2, <4>2
    <3>. QED BY <3>1, <3>2
  <2>4. Preceded(redis'[q], 0 .. m_recv_idx'[q])
    <3> DEFINE e == Pushed(q, Head(u).seq, Head(u).body)
    <3>1. /\ redis[q] \in Seq(Element) /\ e \in Element /\ redis'[q] = Append(redis[q], e)
          /\ e.seq = Head(u).seq
      BY <1>1, <1>2, <1>5, PushEffect
    <3>2. \A s \in 0 .. e.seq - 1 : s \in 0 .. m_recv_idx[q] \/ \E j \in DOMAIN redis[q] : redis[q][j].seq = s
      <4> SUFFICES ASSUME NEW s \in 0 .. Head(u).seq - 1
                   PROVE  s \in 0 .. m_recv_idx[q] \/ \E j \in DOMAIN redis[q] : redis[q][j].seq = s
        BY <3>1
      <4>1. Preceded(u, Reached(q))
        BY <2>1
      <4>2. s \in Reached(q) \/ \E j \in 1 .. 1 - 1 : u[j].seq = s
        BY <1>4, <4>1 DEF Preceded
      <4>3. s \in Reached(q)
        BY <4>2
      <4>. QED BY <4>3 DEF Reached
    <3> HIDE DEF e
    <3>3. Preceded(Append(redis[q], e), 0 .. m_recv_idx[q])
      BY <2>1, <3>1, <3>2, PrecededAppend
    <3>. QED BY <1>2, <3>1, <3>3
  <2>. QED BY <2>2, <2>3, <2>4 DEF OrderAt
<1>. QED BY <1>8, <1>9 DEF OrderInv

\* The command with which the server tells the receiver that a stream ended
LEMMA NoticeEffect ==
    ASSUME TypeOK, NEW q \in Party, Push(q, Disconnected, NoMsg)
    PROVE  /\ redis[q] \in Seq(Element) /\ Pushed(q, Disconnected, NoMsg) \in Element
           /\ redis'[q] = Append(redis[q], Pushed(q, Disconnected, NoMsg))
           /\ Pushed(q, Disconnected, NoMsg).seq = Disconnected
           /\ \A r \in Party : r # q => redis'[r] = redis[r]
<1>1. Disconnected \in Nat \cup {Disconnected} /\ NoMsg \in Msg \cup {NoMsg}
  OBVIOUS
<1>2. ASSUME NEW s \in Nat \cup {Disconnected}, NEW m \in Msg \cup {NoMsg}, Push(q, s, m)
      PROVE  /\ redis[q] \in Seq(Element) /\ Pushed(q, s, m) \in Element
             /\ redis'[q] = Append(redis[q], Pushed(q, s, m)) /\ Pushed(q, s, m).seq = s
             /\ \A r \in Party : r # q => redis'[r] = redis[r]
  BY <1>2, PushEffect
<1>. QED BY <1>1, <1>2

\* The end of a handler pushes the command without a number.
LEMMA ServerEndOrder ==
    ASSUME TypeOK, TypeOK', ControlInv, AckInv, OrderInv, NEW p \in Party, NEW k \in Stream,
           ServerEnd(p, k)
    PROVE  OrderInv'
<1> DEFINE q == Peer[p]
<1>1. /\ q \in Party /\ q # p /\ \A r \in Party : r # p => Peer[r] # q
  BY OnePeer
<1>2. \A r \in Party : Acked(r)' <= Acked(r)
  BY CalmSteps, CalmAll
<1>3. UNCHANGED <<m_recv_idx, up>>
  BY DEF ServerEnd, client
<1>4. CASE UNCHANGED redis
  BY <1>2, <1>3, <1>4, QuietOrder
<1>5. CASE Push(q, Disconnected, NoMsg)
  <2> DEFINE e == Pushed(q, Disconnected, NoMsg)
  <2>1. /\ redis[q] \in Seq(Element) /\ e \in Element /\ redis'[q] = Append(redis[q], e)
        /\ e.seq = Disconnected /\ \A r \in Party : r # q => redis'[r] = redis[r]
    BY <1>1, <1>5, NoticeEffect
  <2>2. /\ Reached(q) \subseteq Reached(q)' /\ \A r \in Party : r # q => Reached(r)' = Reached(r)
    BY <1>1, <1>3, <1>5, PushReached
  <2> SUFFICES ASSUME NEW r \in Party PROVE OrderAt(r)'
    BY DEF OrderInv
  <2>3. OrderAt(r) /\ Peer[r] \in Party
    BY OnePeer DEF OrderInv
  <2>4. \A j \in Stream : Preceded(up'[r][j], Reached(Peer[r]))
    BY <1>3, <2>3 DEF OrderAt
  <2>5. Reached(Peer[r]) \subseteq Reached(Peer[r])'
    BY <2>2, <2>3
  <2>6. Preceded(redis'[Peer[r]], 0 .. m_recv_idx'[Peer[r]])
    <3>1. CASE r # p
      BY <1>1, <1>3, <2>1, <2>3, <3>1 DEF OrderAt
    <3>2. CASE r = p
      <4>1. Preceded(redis[q], 0 .. m_recv_idx[q])
        BY <2>3, <3>2 DEF OrderAt
      <4>2. 0 .. e.seq - 1 = {}
        BY <2>1 DEF Disconnected
      <4> HIDE DEF e
      <4>3. Preceded(Append(redis[q], e), 0 .. m_recv_idx[q])
        BY <2>1, <4>1, <4>2, PrecededAppend
      <4>. QED BY <1>3, <2>1, <3>2, <4>3
    <3>. QED BY <3>1, <3>2
  <2>. QED BY <1>2, <2>3, <2>4, <2>5, <2>6, OrderKept
<1>. QED BY <1>4, <1>5 DEF ServerEnd, list

\* brpop takes the first element of one list.
LEMMA PopEffect ==
    ASSUME TypeOK, NEW p \in Party, Pop(p)
    PROVE  /\ redis[p] # <<>> /\ redis[p] \in Seq(Element) /\ redis'[p] = Tail(redis[p])
           /\ m_use_redis_data_version'[p] = DataVersion(p)
           /\ UNCHANGED <<up, marked>>
           /\ \A q \in Party : q # p => redis'[q] = redis[q]
                  /\ m_use_redis_data_version'[q] = m_use_redis_data_version[q]
BY DEF Pop, TypeOK

\* With the format of the list known, recv meets no gap, and forgets no number.
LEMMA PopOrder ==
    ASSUME TypeOK, TypeOK', ControlInv, AckInv, OrderInv, FormatInv, NEW p \in Party,
           RecvDeliver(p) \/ RecvIgnore(p) \/ RecvGap(p)
    PROVE  OrderInv' /\ DataVersion(p) = v2 /\ Head(redis[p]).seq <= m_recv_idx[p] + 1
<1> DEFINE x == redis[p]
           e == Head(x)
           n == m_recv_idx[p]
           o == Peer[p]
<1>1. Pop(p)
  BY DEF RecvDeliver, RecvIgnore, RecvGap
<1>2. x # <<>> /\ x \in Seq(Element) /\ e \in Element /\ e = x[1] /\ DOMAIN x = 1 .. Len(x) /\ 1 \in DOMAIN x
  BY <1>1, PopEffect, TailFacts
<1>3. DataVersion(p) = v2
  <2>1. FormatAt(p)
    BY DEF FormatInv
  <2>2. m_use_redis_data_version[p] \in {not_inited, v1, v2}
    BY DEF TypeOK
  <2>. QED BY <1>2, <2>1, <2>2 DEF FormatAt, DataVersion
<1>4. e.seq \in Nat \cup {Disconnected} /\ n \in Nat \cup {-1}
  BY <1>2 DEF Element, TypeOK
<1>5. o \in Party /\ Peer[o] = p /\ \A r \in Party : r # o => Peer[r] # p
  BY PeerAssumption
<1>6. OrderAt(o) /\ Preceded(x, 0 .. n)
  BY <1>5 DEF OrderInv, OrderAt
<1>7. e.seq <= n + 1
  <2>1. \A s \in 0 .. e.seq - 1 : s \in 0 .. n \/ \E j \in 1 .. 1 - 1 : x[j].seq = s
    BY <1>2, <1>6 DEF Preceded
  <2>2. \A s \in 0 .. e.seq - 1 : s \in 0 .. n
    BY <2>1
  <2> HIDE DEF e, n
  <2>3. CASE e.seq \in Nat \ {0}
    <3>1. e.seq - 1 \in 0 .. e.seq - 1
      BY <2>3
    <3>2. e.seq - 1 \in 0 .. n
      BY <2>2, <3>1
    <3>. QED BY <1>4, <2>3, <3>2
  <2>4. CASE e.seq = 0 \/ e.seq = -1
    BY <1>4, <2>4
  <2>. QED BY <1>4, <2>3, <2>4 DEF Disconnected
<1>8. /\ \A q \in Party : q # p => m_recv_idx'[q] = m_recv_idx[q]
      /\ m_recv_idx'[p] \in Nat \cup {-1} /\ n <= m_recv_idx'[p]
      /\ e.seq \in Nat => e.seq <= m_recv_idx'[p]
  <2>1. CASE RecvDeliver(p)
    <3>1. m_recv_idx' = [m_recv_idx EXCEPT ![p] = e.seq] /\ e.seq = n + 1 /\ e.seq \in Nat
      BY <1>3, <1>4, <2>1 DEF RecvDeliver
    <3>2. m_recv_idx'[p] = e.seq /\ \A q \in Party : q # p => m_recv_idx'[q] = m_recv_idx[q]
      BY <3>1 DEF TypeOK
    <3> HIDE DEF e, n
    <3>. QED BY <1>4, <3>1, <3>2
  <2>2. CASE RecvIgnore(p)
    <3>1. m_recv_idx' = m_recv_idx /\ (e.seq = Disconnected \/ e.seq < n + 1) /\ n = m_recv_idx[p]
      BY <2>2 DEF RecvIgnore
    <3>2. \A q \in Party : q # p => m_recv_idx'[q] = m_recv_idx[q]
      BY <3>1
    <3>3. m_recv_idx'[p] = n
      BY <3>1
    <3> HIDE DEF e, n
    <3>. QED BY <1>4, <3>1, <3>2, <3>3 DEF Disconnected
  <2>3. CASE RecvGap(p)
    <3>1. e.seq > n + 1
      BY <2>3 DEF RecvGap
    <3> HIDE DEF e, n
    <3>. QED BY <1>4, <1>7, <3>1 DEF Disconnected
  <2>. QED BY <2>1, <2>2, <2>3
<1>9. Reached(p) \cap Nat \subseteq Reached(p)'
  <2>1. /\ redis'[p] = Tail(x) /\ DOMAIN Tail(x) = 1 .. Len(x) - 1 /\ Len(x) \in Nat
        /\ \A i \in 1 .. Len(x) - 1 : Tail(x)[i] = x[i + 1]
    BY <1>1, <1>2, PopEffect, TailFacts
  <2>2. Reached(p)' = 0 .. m_recv_idx'[p] \cup {Tail(x)[i].seq : i \in DOMAIN Tail(x)}
    BY <2>1 DEF Reached
  <2>3. Reached(p) = 0 .. n \cup {x[i].seq : i \in DOMAIN x}
    BY DEF Reached
  <2> HIDE DEF x, e, n
  <2>4. \A s \in 0 .. n : s \in 0 .. m_recv_idx'[p]
    BY <1>4, <1>8
  <2>5. ASSUME NEW i \in DOMAIN x, x[i].seq \in Nat PROVE x[i].seq \in Reached(p)'
    <3>1. CASE i = 1
      <4>1. x[i].seq \in 0 .. m_recv_idx'[p]
        BY <1>2, <1>8, <2>5, <3>1
      <4>. QED BY <2>2, <4>1
    <3>2. CASE i # 1
      <4>1. i - 1 \in 1 .. Len(x) - 1 /\ (i - 1) + 1 = i
        BY <1>2, <2>1, <3>2
      <4>2. i - 1 \in DOMAIN Tail(x) /\ Tail(x)[i - 1].seq = x[i].seq
        BY <2>1, <4>1
      <4>. QED BY <2>2, <4>2
    <3>. QED BY <3>1, <3>2
  <2>. QED BY <2>2, <2>3, <2>4, <2>5
<1>10. Preceded(redis'[p], 0 .. m_recv_idx'[p])
  <2>1. redis'[p] = Tail(x)
    BY <1>1, PopEffect
  <2> HIDE DEF x, e, n
  <2>2. 0 .. n \cap Nat \subseteq 0 .. m_recv_idx'[p]
    BY <1>4, <1>8
  <2>3. Head(x).seq \in Nat => Head(x).seq \in 0 .. m_recv_idx'[p]
    BY <1>4, <1>8 DEF e
  <2>4. Preceded(Tail(x), 0 .. m_recv_idx'[p])
    BY <1>2, <1>6, <2>2, <2>3, PrecededTail
  <2>. QED BY <2>1, <2>4
<1>11. \A r \in Party : Acked(r)' <= Acked(r)
  BY CalmSteps, CalmAll
<1>12. up' = up
  BY <1>1, PopEffect
<1>13. ASSUME NEW r \in Party PROVE OrderAt(r)'
  <2>1. OrderAt(r) /\ Peer[r] \in Party
    BY OnePeer DEF OrderInv
  <2>2. \A k \in Stream : Preceded(up'[r][k], Reached(Peer[r]))
    BY <1>12, <2>1 DEF OrderAt
  <2>3. CASE Peer[r] = p
    BY <1>9, <1>10, <1>11, <2>1, <2>2, <2>3, OrderKept
  <2>4. CASE Peer[r] # p
    <3>1. redis'[Peer[r]] = redis[Peer[r]] /\ m_recv_idx'[Peer[r]] = m_recv_idx[Peer[r]]
      BY <1>1, <1>8, <2>1, <2>4, PopEffect
    <3>2. Reached(Peer[r])' = Reached(Peer[r])
      BY <3>1 DEF Reached
    <3>3. Preceded(redis'[Peer[r]], 0 .. m_recv_idx'[Peer[r]])
      BY <2>1, <3>1 DEF OrderAt
    <3>. QED BY <1>11, <2>1, <2>2, <3>2, <3>3, OrderKept
  <2>. QED BY <2>3, <2>4
<1>. QED BY <1>3, <1>7, <1>13 DEF OrderInv

-----------------------------------------------------------------------------
(* The format of the list *)

\* The first element of a list is pushed with the magic string.
LEMMA PushFormat ==
    ASSUME NumberedServers, TypeOK, FormatInv, NEW q \in Party, NEW s \in Nat \cup {Disconnected},
           NEW m \in Msg \cup {NoMsg}, Push(q, s, m), UNCHANGED m_use_redis_data_version
    PROVE  FormatInv'
<1> DEFINE x == redis[q]
           e == Pushed(q, s, m)
<1>1. /\ x \in Seq(Element) /\ e \in Element /\ redis'[q] = Append(x, e) /\ marked'[q]
      /\ \A r \in Party : r # q => redis'[r] = redis[r] /\ marked'[r] = marked[r]
  BY PushEffect
<1>2. \A r \in Party : r # q => FormatAt(r)'
  BY <1>1 DEF FormatInv, FormatAt
<1>3. ~marked[q] => e.magic
  BY DEF Pushed, NumberedServers
<1>4. FormatAt(q)
  BY DEF FormatInv
<1>5. Append(x, e) # <<>> /\ Head(Append(x, e)) = IF x = <<>> THEN e ELSE Head(x)
  <2> HIDE DEF x, e
  <2>1. Append(x, e) # <<>> /\ Head(Append(x, e)) = Append(x, e)[1]
    BY <1>1
  <2>2. CASE x = <<>>
    BY <1>1, <2>1, <2>2
  <2>3. CASE x # <<>>
    <3>1. Len(x) \in Nat \ {0} /\ Head(x) = x[1]
      BY <1>1, <2>3, TailFacts
    <3>2. Append(x, e)[1] = x[1]
      BY <1>1, <3>1, AppendFacts
    <3>. QED BY <2>1, <2>3, <3>1, <3>2
  <2>. QED BY <2>2, <2>3
<1>6. FormatAt(q)'
  BY <1>1, <1>3, <1>4, <1>5 DEF FormatAt
<1>. QED BY <1>2, <1>6 DEF FormatInv

\* recv takes the first element and knows the format from then on.
LEMMA PopFormat ==
    ASSUME TypeOK, FormatInv, NEW p \in Party, Pop(p), DataVersion(p) = v2
    PROVE  FormatInv'
BY PopEffect DEF FormatInv, FormatAt, not_inited, v1, v2

-----------------------------------------------------------------------------
(* Nothing is lost, nothing is ahead *)

\* Together with the types, the acknowledgements and the protocol in use
NumbersInv == TypeOK /\ ControlInv /\ AckInv /\ ProtocolInv /\ FormatInv /\ OrderInv

\* A list in order has the next number at its front.
LEMMA OrderInit == Init => ProtocolInv /\ FormatInv /\ OrderInv
<1> SUFFICES ASSUME Init PROVE ProtocolInv /\ FormatInv /\ OrderInv
  OBVIOUS
<1>1. ProtocolInv /\ FormatInv
  BY DEF Init, Each, ProtocolInv, FormatInv, FormatAt, not_inited, v1
<1>2. ASSUME NEW p \in Party PROVE OrderAt(p)
  <2>1. /\ pc[p] = "idle" /\ tpc[p] = "none" /\ m_seq[p] = 0 /\ m_notack_queue[p] = <<>>
        /\ down[p] = <<>> /\ redis[Peer[p]] = <<>> /\ \A k \in Stream : up[p][k] = <<>>
    BY OnePeer DEF Init, Each
  <2>2. Len(m_notack_queue[p]) = 0 /\ Len(down[p]) = 0
    BY <2>1
  <2>3. Open(p) = 0 /\ Taken(p) = 0
    BY <2>1, <2>2 DEF Open, Taken
  <2>4. First(p) = 0
    BY <2>1, <2>3 DEF First
  <2>5. Acked(p) = 0
    BY <2>2, <2>3, <2>4 DEF Acked
  <2>6. 0 .. Acked(p) - 1 = {}
    BY <2>5
  <2>. QED BY <2>1, <2>6 DEF OrderAt, Preceded
<1>. QED BY <1>1, <1>2 DEF OrderInv

\* The steps of the caller
LEMMA CallerOrder ==
    ASSUME ~RedisMayLose, NumberedServers, NumbersInv, TypeOK', NEW p \in Party,
           Caller(p)
    PROVE  FormatInv' /\ OrderInv'
<1> USE DEF NumbersInv
<1> DEFINE Calm == \/ OtherCall(p) \/ SendCall(p) \/ SendNullSender(p) \/ SendFails(p)
                   \/ RecvNeedsResend(p) \/ FlushReturns(p, "ok") \/ FlushNeedsResend(p)
                   \/ CloseFlushed(p)
           Keeping == \/ InitSender(p) \/ SendEnqueue(p) \/ FinishNoThread(p) \/ FinishV2(p)
                      \/ FinishWithoutJoin(p) \/ Join(p) \/ Reconnect(p)
                      \/ \E ok \in BOOLEAN : ResendReturns(p, ok)
<1>1. CASE Calm \/ Keeping
  <2>1. UNCHANGED <<up, redis, marked, m_recv_idx, m_use_redis_data_version>>
    BY <1>1, QuietSteps
  <2>2. \A q \in Party : Acked(q)' <= Acked(q)
    <3>1. CASE Calm
      <4>1. \A q \in Party : UNCHANGED AckState(q)
        BY <3>1, CalmSteps
      <4>. QED BY <4>1, CalmAll
    <3>2. CASE Keeping
      <4>1. Keeps(p)
        BY <3>2, OpenAck, SendEnqueueAck, FinishAck
      <4>. QED BY <4>1, KeepsAll
    <3>. QED BY <1>1, <3>1, <3>2
  <2>3. FormatInv'
    BY <2>1 DEF FormatInv, FormatAt
  <2>. QED BY <2>1, <2>2, <2>3, QuietOrder
<1>2. CASE SendWrite(p)
  <2> DEFINE packet == [seq |-> m_seq[p], body |-> content[p]]
  <2>1. content[p] \in Msg /\ m_seq[p] \in Nat /\ pc[p] = "send"
    BY <1>2, PartyTypes DEF SendWrite, ControlInv, CallInv, Gone
  <2>2. packet \in Packet /\ packet.seq = m_seq[p] /\ Written(p) = m_seq[p]
    BY <2>1 DEF Packet, Written
  <2>3. /\ Write(p, packet) /\ Room(p) /\ stream[p] = "open" /\ m_use_rpc_version[p] = v2
        /\ UNCHANGED <<redis, marked, m_recv_idx, m_use_redis_data_version>>
    BY <1>2 DEF SendWrite, list, version
  <2> HIDE DEF packet
  <2>4. \A q \in Party : Acked(q)' <= Acked(q)
    BY <1>2, SendWriteAck, KeepsAll
  <2>5. FormatInv'
    BY <2>3 DEF FormatInv, FormatAt
  <2>. QED BY <2>2, <2>3, <2>4, <2>5, WriteOrder
<1>3. CASE ResendWrite(p)
  <2> DEFINE packet == m_notack_queue[p][resent[p] + 1]
  <2>1. resent[p] + 1 \in DOMAIN m_notack_queue[p] /\ pc[p] = "resend"
    BY <1>3, PartyTypes DEF ResendWrite
  <2>2. packet \in Packet /\ packet.seq = First(p) + resent[p]
    BY <2>1, PartyTypes DEF AckInv, AckAt, NumberInv
  <2>3. /\ Write(p, packet) /\ Room(p) /\ stream[p] = "open" /\ m_use_rpc_version[p] = v2
        /\ UNCHANGED <<redis, marked, m_recv_idx, m_use_redis_data_version>>
    BY <1>3 DEF ResendWrite, list, version, AckInv, AckAt, FreshInv
  <2>4. Written(p) = First(p) + resent[p]
    BY <2>1 DEF Written
  <2> HIDE DEF packet
  <2>5. \A q \in Party : Acked(q)' <= Acked(q)
    BY <1>3, ResendWriteAck, KeepsAll
  <2>6. FormatInv'
    BY <2>3 DEF FormatInv, FormatAt
  <2>. QED BY <2>2, <2>3, <2>4, <2>5, <2>6, WriteOrder
<1>4. CASE RecvDeliver(p) \/ RecvIgnore(p) \/ RecvGap(p)
  <2>1. Pop(p)
    BY <1>4 DEF RecvDeliver, RecvIgnore, RecvGap
  <2>2. OrderInv' /\ DataVersion(p) = v2
    BY <1>4, PopOrder
  <2>. QED BY <2>1, <2>2, PopFormat
<1>5. CASE SendWriteV1(p) \/ ReconnectV1(p)
  BY <1>5 DEF SendWriteV1, ReconnectV1, ProtocolInv
<1>. QED BY <1>1, <1>2, <1>3, <1>4, <1>5 DEF Caller

\* The steps of everybody else
LEMMA OthersOrder ==
    ASSUME ~RedisMayLose, NumberedServers, NumbersInv, TypeOK', NEW p \in Party,
           RecvThread(p) \/ Server(p) \/ Fault(p)
    PROVE  FormatInv' /\ OrderInv'
<1> USE DEF NumbersInv
<1>1. CASE RecvThread(p)
  <2>1. UNCHANGED <<up, redis, marked, m_recv_idx, m_use_redis_data_version>>
    BY <1>1, QuietSteps
  <2>2. Keeps(p)
    BY <1>1, ThreadMovesAck, ReadAckAck, PopFrontAck DEF RecvThread
  <2>3. FormatInv'
    BY <2>1 DEF FormatInv, FormatAt
  <2>. QED BY <2>1, <2>2, <2>3, KeepsAll, QuietOrder
<1>2. ASSUME NEW k \in Stream, ServerPush(p, k) PROVE FormatInv' /\ OrderInv'
  <2>1. up[p][k] \in Seq(Packet) /\ up[p][k] # <<>>
    BY <1>2, PartyTypes DEF ServerPush
  <2>2. Head(up[p][k]) \in Packet
    BY <2>1, TailFacts
  <2>3. Head(up[p][k]).seq \in Nat /\ Head(up[p][k]).body \in Msg
    BY <2>2 DEF Packet
  <2>4. /\ Push(Peer[p], Head(up[p][k]).seq, Head(up[p][k]).body)
        /\ UNCHANGED m_use_redis_data_version
    BY <1>2 DEF ServerPush, client, version
  <2>5. FormatInv'
    BY <2>3, <2>4, OnePeer, PushFormat
  <2>. QED BY <1>2, <2>5, ServerPushOrder
<1>3. ASSUME NEW k \in Stream, ServerEnd(p, k) PROVE FormatInv' /\ OrderInv'
  <2>1. UNCHANGED m_use_redis_data_version
    BY <1>3 DEF ServerEnd, client, version
  <2>2. CASE Push(Peer[p], Disconnected, NoMsg)
    <3>1. Disconnected \in Nat \cup {Disconnected} /\ NoMsg \in Msg \cup {NoMsg}
      OBVIOUS
    <3>. QED BY <1>3, <2>1, <2>2, <3>1, OnePeer, PushFormat, ServerEndOrder
  <2>3. CASE UNCHANGED list
    <3>1. FormatInv'
      BY <2>1, <2>3 DEF list, FormatInv, FormatAt
    <3>. QED BY <1>3, <3>1, ServerEndOrder
  <2>. QED BY <1>3, <2>2, <2>3 DEF ServerEnd
<1>4. CASE Break(p)
  <2>1. UNCHANGED <<redis, marked, m_use_redis_data_version>>
    BY <1>4 DEF Break, client, version, list
  <2>2. FormatInv'
    BY <2>1 DEF FormatInv, FormatAt
  <2>. QED BY <1>4, <2>2, BreakOrder
<1>5. CASE InitRpcVersionFails(p) \/ ReconnectFails(p) \/ RecvTimesOut(p) \/ FlushReturns(p, "false")
  <2>1. UNCHANGED <<up, redis, marked, m_recv_idx, m_use_redis_data_version>>
    BY <1>5, QuietSteps
  <2>2. \A q \in Party : UNCHANGED AckState(q)
    BY <1>5, CalmSteps
  <2>3. FormatInv'
    BY <2>1 DEF FormatInv, FormatAt
  <2>. QED BY <2>1, <2>2, <2>3, CalmAll, QuietOrder
<1>. QED BY <1>1, <1>2, <1>3, <1>4, <1>5 DEF Server, Fault, RedisLoses

\* Every step preserves the invariant of the numbers.
LEMMA NumbersStep ==
    ASSUME ~RedisMayLose, NumberedServers
    PROVE  NumbersInv /\ [Next]_vars => NumbersInv'
<1> SUFFICES ASSUME NumbersInv, [Next]_vars PROVE NumbersInv'
  OBVIOUS
<1>1. TypeOK' /\ ControlInv' /\ AckInv' /\ ProtocolInv'
  BY StepHolds, AckStep, ProtocolStep DEF NumbersInv
<1>2. FormatInv' /\ OrderInv'
  <2>1. ASSUME NEW p \in Party, Caller(p) \/ RecvThread(p) \/ Server(p) \/ Fault(p)
        PROVE  FormatInv' /\ OrderInv'
    BY <1>1, <2>1, CallerOrder, OthersOrder
  <2>2. CASE UNCHANGED vars
    <3>1. /\ UNCHANGED <<up, redis, marked, m_recv_idx, m_use_redis_data_version>>
          /\ \A q \in Party : UNCHANGED AckState(q)
      BY <2>2 DEF vars, call, client, version, thread, net, link, list, AckState, Phase
    <3>2. FormatInv'
      BY <3>1 DEF NumbersInv, FormatInv, FormatAt
    <3>. QED BY <1>1, <3>1, <3>2, CalmAll, QuietOrder DEF NumbersInv
  <2>. QED BY <2>1, <2>2 DEF Next, Stopped
<1>. QED BY <1>1, <1>2 DEF NumbersInv

\* The invariant of the numbers holds.
LEMMA NumbersHold ==
    ASSUME ~RedisMayLose, NumberedServers
    PROVE  Spec => []NumbersInv
<1>1. Init => NumbersInv
  BY InitHolds, AckInit, OrderInit DEF NumbersInv
<1>2. NumbersInv /\ [Next]_vars => NumbersInv'
  BY NumbersStep
<1>. QED BY <1>1, <1>2, PTL DEF Spec

\* What the queue no longer holds has reached the peer's list.
LEMMA LostNothing == NumbersInv => NothingLost
<1> SUFFICES ASSUME NumbersInv, NEW p \in Party, NEW s \in 0 .. m_seq[p] - 1,
                    s \notin Reached(Peer[p]), ~(pc[p] = "wrote" /\ s = m_seq[p] - 1)
             PROVE  \E i \in DOMAIN m_notack_queue[p] : m_notack_queue[p][i].seq = s
  BY DEF NothingLost
<1> DEFINE x == m_notack_queue[p]
<1>1. /\ x \in Seq(Packet) /\ m_seq[p] \in Nat /\ Open(p) \in Nat /\ Acked(p) \in Int
      /\ First(p) \in Int /\ Taken(p) \in Nat
  BY PartyTypes DEF NumbersInv
<1>2. /\ \A i \in DOMAIN x : x[i].seq = First(p) + i - 1
      /\ 0 .. Acked(p) - 1 \subseteq Reached(Peer[p])
  BY DEF NumbersInv, AckInv, AckAt, NumberInv, OrderInv, OrderAt
<1>3. First(p) <= Acked(p)
  <2> DEFINE d == Len(down[p])
  <2>1. Acked(p) = First(p) + Taken(p) + d /\ d \in Nat
    BY PartyTypes DEF Acked, NumbersInv
  <2> HIDE DEF d
  <2>. QED BY <1>1, <2>1
<1>4. First(p) = m_seq[p] - Open(p) /\ Open(p) = IF pc[p] = "wrote" THEN Len(x) + 1 ELSE Len(x)
  BY DEF First, Open
<1>5. DOMAIN x = 1 .. Len(x) /\ Len(x) \in Nat
  BY <1>1
<1> HIDE DEF x
<1>6. s \in Nat /\ s < m_seq[p] /\ ~(s < First(p))
  BY <1>1, <1>2, <1>3
<1>7. s - First(p) + 1 \in DOMAIN x
  <2>1. s - First(p) + 1 \in Int /\ 1 <= s - First(p) + 1
    BY <1>1, <1>6
  <2>2. CASE pc[p] = "wrote"
    <3>1. s < m_seq[p] - 1 /\ First(p) = m_seq[p] - (Len(x) + 1)
      BY <1>1, <1>4, <1>6, <2>2
    <3>2. s - First(p) + 1 <= Len(x)
      BY <1>1, <1>5, <1>6, <3>1
    <3>. QED BY <1>5, <2>1, <3>2
  <2>3. CASE pc[p] # "wrote"
    <3>1. First(p) = m_seq[p] - Len(x)
      BY <1>4, <2>3
    <3>2. s - First(p) + 1 <= Len(x)
      BY <1>1, <1>5, <1>6, <3>1
    <3>. QED BY <1>5, <2>1, <3>2
  <2>. QED BY <2>2, <2>3
<1>8. x[s - First(p) + 1].seq = First(p) + (s - First(p) + 1) - 1
  BY <1>2, <1>7
<1>9. x[s - First(p) + 1].seq = s
  BY <1>1, <1>6, <1>8
<1>. QED BY <1>7, <1>9 DEF x

\* Between servers of version 2 a packet leaves the queue only when it is in
\* the peer's list, for any scripts and windows, however often streams break
\* and calls fail.
THEOREM NeverLost ==
    ASSUME ~RedisMayLose, NumberedServers
    PROVE  Spec => []NothingLost
<1>1. NumbersInv => NothingLost
  BY LostNothing
<1>. QED BY <1>1, NumbersHold, PTL

\* recv never meets a packet from the future: neither a stream that was given
\* up nor a resend overtakes.
THEOREM NeverAhead ==
    ASSUME ~RedisMayLose, NumberedServers
    PROVE  Spec => []NoGap
<1>1. ASSUME NumbersInv PROVE NoGap
  <2> SUFFICES ASSUME NEW p \in Party, redis[p] # <<>>
               PROVE  Head(redis[p]).seq <= m_recv_idx[p] + 1
    BY DEF NoGap
  <2> DEFINE x == redis[p]
             n == m_recv_idx[p]
             e == Head(redis[p])
  <2>1. x \in Seq(Element) /\ n \in Nat \cup {-1}
    BY <1>1 DEF NumbersInv, TypeOK
  <2>2. e \in Element /\ e = x[1] /\ 1 \in DOMAIN x
    BY <2>1, TailFacts
  <2>3. e.seq \in Nat \cup {-1}
    BY <2>2 DEF Element, Disconnected
  <2>4. Preceded(x, 0 .. n)
    <3>1. OrderAt(Peer[p]) /\ Peer[Peer[p]] = p
      BY <1>1, OnePeer DEF NumbersInv, OrderInv
    <3>. QED BY <3>1 DEF OrderAt
  <2>5. \A s \in 0 .. e.seq - 1 : s \in 0 .. n \/ \E j \in 1 .. 1 - 1 : x[j].seq = s
    BY <2>2, <2>4 DEF Preceded
  <2>6. \A s \in 0 .. e.seq - 1 : s \in 0 .. n
    BY <2>5
  <2> HIDE DEF e, n
  <2>7. e.seq \in Nat \ {0} => e.seq - 1 \in 0 .. n
    BY <2>6
  <2>8. e.seq <= n + 1
    BY <2>1, <2>3, <2>7
  <2>. QED BY <2>8 DEF e, n
<1>. QED BY <1>1, NumbersHold, PTL

-----------------------------------------------------------------------------
(* Retries *)

\* Every retry has its own stream.
TriesAt(p) ==
    /\ cur[p] = 0 => tries[p] = 0
    /\ cur[p] # 0 => tries[p] + 1 <= cur[p]
    /\ pc[p] = "resend" => tries[p] + 2 <= cur[p]

TriesInv == \A p \in Party : TriesAt(p)

\* So the streams bound the retries.
LEMMA StreamsLast ==
    ASSUME EnoughTries, TypeOK, TriesInv
    PROVE  TriesLeft
<1> SUFFICES ASSUME NEW p \in Party, pc[p] = "resend" PROVE tries[p] + 1 < MaxRetry
  BY DEF TriesLeft
<1>1. tries[p] + 2 <= cur[p]
  BY DEF TriesInv, TriesAt
<1>2. tries[p] \in 0 .. MaxRetry - 1 /\ cur[p] \in 0 .. MaxBreaks + 1
  BY DEF TypeOK
<1>3. MaxBreaks \in Nat /\ MaxRetry \in Nat /\ MaxBreaks < MaxRetry
  BY BoundAssumption DEF EnoughTries
<1>. QED BY <1>1, <1>2, <1>3

\* While retries are left, the call goes on after a resend.
LEMMA NextTryGoesOn ==
    ASSUME TriesLeft, NEW p \in Party, NEW ok \in BOOLEAN, ResendReturns(p, ok)
    PROVE  /\ tries' = [tries EXCEPT ![p] = @ + 1]
           /\ pc' = [pc EXCEPT ![p] = Op(p)] /\ UNCHANGED <<at, ret, got>>
<1>1. tries[p] + 1 < MaxRetry
  BY DEF TriesLeft, ResendReturns
<1>. QED BY <1>1 DEF ResendReturns, NextTry

\* Steps that open no stream and end no iteration of a retry loop
LEMMA TriesFrame ==
    ASSUME TypeOK, TriesInv,
           \A q \in Party : /\ tries'[q] = tries[q] \/ tries'[q] = 0
                            /\ cur'[q] = cur[q] /\ (pc'[q] = "resend" => pc[q] = "resend")
                            /\ pc'[q] = "resend" => tries'[q] = tries[q]
    PROVE  TriesInv'
<1> SUFFICES ASSUME NEW q \in Party PROVE TriesAt(q)'
  BY DEF TriesInv
<1>1. TriesAt(q) /\ tries[q] \in Nat /\ cur[q] \in Nat
  <2>1. tries[q] \in 0 .. MaxRetry - 1 /\ cur[q] \in 0 .. MaxBreaks + 1
    BY DEF TypeOK
  <2>. QED BY <2>1 DEF TriesInv
<1>2. CASE tries'[q] = tries[q]
  BY <1>1, <1>2 DEF TriesAt
<1>3. CASE tries'[q] = 0
  BY <1>1, <1>3 DEF TriesAt
<1>. QED BY <1>2, <1>3

\* A call that returns starts the count again.
LEMMA LeaveTries ==
    ASSUME TypeOK, TriesInv, NEW p \in Party, NEW next, NEW r, Leave(p, next, r), UNCHANGED cur
    PROVE  TriesInv'
<1>1. \A q \in Party : /\ tries'[q] = tries[q] \/ tries'[q] = 0
                       /\ cur'[q] = cur[q] /\ (pc'[q] = "resend" => pc[q] = "resend")
                       /\ pc'[q] = "resend" => tries'[q] = tries[q]
  BY DEF Leave, TypeOK
<1>. QED BY <1>1, TriesFrame

\* The caller goes on to anything but a resend.
LEMMA GotoTries ==
    ASSUME TypeOK, TriesInv, NEW p \in Party, NEW l, l # "resend", Goto(p, l), UNCHANGED cur
    PROVE  TriesInv'
<1>1. \A q \in Party : /\ tries'[q] = tries[q] \/ tries'[q] = 0
                       /\ cur'[q] = cur[q] /\ (pc'[q] = "resend" => pc[q] = "resend")
                       /\ pc'[q] = "resend" => tries'[q] = tries[q]
  BY DEF Goto, TypeOK
<1>. QED BY <1>1, TriesFrame

\* Every retry has its own stream, so the breaks bound the retries.
LEMMA TriesStep ==
    ASSUME EnoughTries, TypeOK, ControlInv, ProtocolInv, TriesInv, [Next]_vars
    PROVE  TriesInv'
<1> USE DEF call, client, version, thread, net, link, list, history
<1>0. \A p \in Party : Op(p) \in {"send", "recv", "flush", "close"}
  BY TypeParts, OpType
<1>1. ASSUME NEW p \in Party,
             \/ OtherCall(p) \/ SendCall(p) \/ SendWrite(p) \/ SendNullSender(p) \/ SendFails(p)
             \/ RecvNeedsResend(p) \/ FlushNeedsResend(p) \/ CloseFlushed(p)
             \/ FinishNoThread(p) \/ FinishV2(p) \/ FinishWithoutJoin(p) \/ Join(p)
      PROVE  TriesInv'
  <2>1. PICK l \in {"send", "recv", "flush", "close", "wrote", "segv", "finish", "join",
                    "terminated", "closed", "reconnect"} : Goto(p, l) /\ UNCHANGED cur
    <3>1. CASE OtherCall(p) \/ SendCall(p) \/ SendWrite(p) \/ SendNullSender(p) \/ SendFails(p)
      BY <1>0, <3>1 DEF OtherCall, SendCall, SendWrite, SendNullSender, SendFails
    <3>2. CASE RecvNeedsResend(p) \/ FlushNeedsResend(p) \/ CloseFlushed(p)
      BY <3>2 DEF RecvNeedsResend, FlushNeedsResend, CloseFlushed
    <3>3. CASE FinishNoThread(p) \/ FinishV2(p) \/ FinishWithoutJoin(p) \/ Join(p)
      BY <3>3 DEF FinishNoThread, FinishV2, FinishWithoutJoin, Join, StreamEnds, AfterFinish
    <3>. QED BY <1>1, <3>1, <3>2, <3>3
  <2>. QED BY <2>1, GotoTries
<1>2. ASSUME NEW p \in Party,
             \/ SendEnqueue(p) \/ SendWriteV1(p) \/ RecvDeliver(p) \/ RecvGap(p)
             \/ (\E r \in {"ok", "false"} : FlushReturns(p, r))
             \/ InitRpcVersionFails(p) \/ RecvTimesOut(p)
      PROVE  TriesInv'
  <2>1. \E next, r : Leave(p, next, r) /\ UNCHANGED cur
    <3>1. CASE SendEnqueue(p) \/ SendWriteV1(p) \/ RecvDeliver(p)
               \/ (\E r \in {"ok", "false"} : FlushReturns(p, r))
      BY <3>1 DEF SendEnqueue, SendWriteV1, RecvDeliver, Pop, FlushReturns, Return
    <3>2. CASE RecvGap(p) \/ InitRpcVersionFails(p) \/ RecvTimesOut(p)
      BY <3>2 DEF RecvGap, Pop, InitRpcVersionFails, RecvTimesOut, Throw
    <3>. QED BY <1>2, <3>1, <3>2
  <2>. QED BY <2>1, LeaveTries
<1>3. ASSUME NEW p \in Party,
             \/ RecvIgnore(p) \/ RedisLoses(p) \/ ResendWrite(p) \/ RecvThread(p) \/ Server(p)
             \/ Break(p)
      PROVE  TriesInv'
  <2>1. UNCHANGED <<pc, tries, cur>>
    <3>1. CASE RecvIgnore(p) \/ RedisLoses(p) \/ ResendWrite(p)
      BY <3>1 DEF RecvIgnore, Pop, RedisLoses, ResendWrite
    <3>2. CASE RecvThread(p)
      BY <3>2 DEF RecvThread, ThreadStart, ReadAck, WaitNotEmpty, PopFront, ReadEnd
    <3>3. CASE Server(p) \/ Break(p)
      BY <3>3 DEF Server, ServerPush, ServerEnd, Break
    <3>. QED BY <1>3, <3>1, <3>2, <3>3
  <2>. QED BY <2>1, TriesFrame
<1>4. ASSUME NEW p \in Party, ReconnectFails(p) PROVE TriesInv'
  <2>1. \A q \in Party : /\ tries'[q] = tries[q] \/ tries'[q] = 0
                         /\ cur'[q] = cur[q] /\ (pc'[q] = "resend" => pc[q] = "resend")
                         /\ pc'[q] = "resend" => tries'[q] = tries[q]
    BY <1>4 DEF ReconnectFails, TypeOK
  <2>. QED BY <2>1, TriesFrame
<1>5. ASSUME NEW p \in Party, ReconnectV1(p) PROVE TriesInv'
  BY <1>5 DEF ReconnectV1, ProtocolInv
<1>6. ASSUME NEW p \in Party, InitSender(p) \/ Reconnect(p) PROVE TriesInv'
  <2>1. /\ cur'[p] = cur[p] + 1 /\ tries' = tries
        /\ \A q \in Party : q # p => cur'[q] = cur[q] /\ pc'[q] = pc[q]
    <3>1. CallType /\ LinkType
      BY TypeParts
    <3>2. CASE InitSender(p)
      BY <3>1, <3>2 DEF InitSender, OpenStream, LinkType
    <3>3. CASE Reconnect(p)
      BY <3>1, <3>3 DEF Reconnect, OpenStream, Goto, LinkType, CallType
    <3>. QED BY <1>6, <3>2, <3>3
  <2>2. \A q \in Party : q # p => TriesAt(q)'
    BY <2>1 DEF TriesInv, TriesAt
  <2>3. TriesAt(p) /\ tries[p] \in Nat /\ cur[p] \in Nat
    <3>1. tries[p] \in 0 .. MaxRetry - 1 /\ cur[p] \in 0 .. MaxBreaks + 1
      BY DEF TypeOK
    <3>. QED BY <3>1 DEF TriesInv
  <2>4. CASE InitSender(p)
    <3>1. cur[p] = 0 /\ pc'[p] # "resend"
      BY <2>4 DEF InitSender, ControlInv, StreamInv
    <3>2. TriesAt(p)'
      BY <2>1, <2>3, <3>1 DEF TriesAt
    <3>. QED BY <2>2, <3>2 DEF TriesInv
  <2>5. CASE Reconnect(p)
    <3>1. cur[p] >= 1
      BY <2>5 DEF Reconnect, ControlInv, CallInv, StreamInv
    <3>2. TriesAt(p)'
      BY <2>1, <2>3, <3>1 DEF TriesAt
    <3>. QED BY <2>2, <3>2 DEF TriesInv
  <2>. QED BY <1>6, <2>4, <2>5
<1>7. ASSUME NEW p \in Party, NEW ok \in BOOLEAN, ResendReturns(p, ok) PROVE TriesInv'
  <2>1. /\ tries'[p] = tries[p] + 1 /\ pc'[p] = Op(p) /\ cur' = cur /\ pc[p] = "resend"
        /\ \A q \in Party : q # p => tries'[q] = tries[q] /\ pc'[q] = pc[q]
    <3>1. CallType
      BY TypeParts
    <3>2. pc[p] = "resend" /\ cur' = cur
      BY <1>7 DEF ResendReturns
    <3>3. tries' = [tries EXCEPT ![p] = @ + 1] /\ pc' = [pc EXCEPT ![p] = Op(p)]
      BY <1>7, StreamsLast, NextTryGoesOn
    <3>. QED BY <3>1, <3>2, <3>3 DEF CallType
  <2>2. \A q \in Party : q # p => TriesAt(q)'
    BY <2>1 DEF TriesInv, TriesAt
  <2>3. TriesAt(p) /\ tries[p] \in Nat /\ cur[p] \in Nat
    <3>1. tries[p] \in 0 .. MaxRetry - 1 /\ cur[p] \in 0 .. MaxBreaks + 1
      BY DEF TypeOK
    <3>. QED BY <3>1 DEF TriesInv
  <2>4. TriesAt(p)'
    BY <1>0, <2>1, <2>3 DEF TriesAt
  <2>. QED BY <2>2, <2>4 DEF TriesInv
<1>8. CASE UNCHANGED vars
  BY <1>8, TriesFrame DEF vars
<1>9. ASSUME NEW p \in Party, Caller(p) \/ RecvThread(p) \/ Server(p) \/ Fault(p) PROVE TriesInv'
  BY <1>1, <1>2, <1>3, <1>4, <1>5, <1>6, <1>7, <1>9 DEF Caller, Fault
<1>. QED BY <1>8, <1>9 DEF Next, Stopped

\* The retries last: a party whose streams break fewer than MaxRetry times (120
\* in the code) never leaves a retry loop of channel.cpp by its end, since every
\* iteration that resends has opened a stream of its own.
THEOREM RetriesLast ==
    ASSUME EnoughTries, NumberedServers
    PROVE  Spec => []TriesLeft
<1> DEFINE Inv == TypeOK /\ ControlInv /\ ProtocolInv /\ TriesInv
<1>1. Init => Inv
  <2> SUFFICES ASSUME Init PROVE TriesInv
    BY InitHolds, OrderInit
  <2>. QED BY DEF Init, Each, TriesInv, TriesAt
<1>2. Inv /\ [Next]_vars => Inv'
  BY StepHolds, ProtocolStep, TriesStep
<1>3. Inv => TriesLeft
  BY StreamsLast
<1>. QED BY <1>1, <1>2, <1>3, PTL DEF Spec

-----------------------------------------------------------------------------
(* Calls: the message being sent is the one of the next number *)

\* What SentAt(q) and FlushedAt(q) depend on
CallState(q) ==
    <<pc[q], at[q], ret[q], content[q], m_seq[q], sent[q], m_notack_queue[q]>>

OthersCall(p) == \A q \in Party : q # p => UNCHANGED CallState(q)

\* A step of p has to be checked for p only.
LEMMA CallsFrame ==
    ASSUME CallsInv, NEW p \in Party, OthersCall(p), SentAt(p)', FlushedAt(p)'
    PROVE  CallsInv'
<1> SUFFICES ASSUME NEW q \in Party, q # p PROVE SentAt(q)' /\ FlushedAt(q)'
  BY DEF CallsInv
<1>1. UNCHANGED CallState(q)
  BY DEF OthersCall
<1>2. Op(q)' = Op(q)
  BY <1>1, OpSame DEF CallState
<1>3. SentAt(q)'
  BY <1>1, <1>2 DEF CallsInv, CallState, SentAt, Pending
<1>4. FlushedAt(q)'
  BY <1>1 DEF CallsInv, CallState, FlushedAt
<1>. QED BY <1>3, <1>4

\* A call goes on: it neither starts nor returns.
GoesOn(p) ==
    /\ pc[p] \notin {"idle", "wrote", "noclient"} /\ pc'[p] \notin {"idle", "wrote"}
    /\ at'[p] = at[p] /\ content'[p] = content[p] /\ m_seq'[p] = m_seq[p] /\ sent'[p] = sent[p]
    /\ ret'[p] = ret[p] \/ (pc'[p] = "noclient" /\ ret'[p] = "throw")

\* Then the message it sends stays the same.
LEMMA GoesOnCalls ==
    ASSUME CallsInv, NEW p \in Party, OthersCall(p), GoesOn(p)
    PROVE  CallsInv'
<1>1. Op(p)' = Op(p)
  BY OpSame DEF GoesOn
<1>2. SentAt(p)'
  BY <1>1 DEF CallsInv, SentAt, Pending, GoesOn
<1>3. FlushedAt(p)'
  BY DEF FlushedAt, GoesOn
<1>. QED BY <1>2, <1>3, CallsFrame

\* recv or flush returns; flush returns true with an empty queue only.
LEMMA ReturnCalls ==
    ASSUME TypeOK, ControlInv, CallsInv, NEW p \in Party, NEW r \in {"ok", "false"},
           pc[p] \in {"recv", "flush"}, Return(p, r), UNCHANGED <<content, m_seq, m_notack_queue, sent>>,
           pc[p] = "flush" /\ r = "ok" => m_notack_queue[p] = <<>>
    PROVE  CallsInv'
<1>0. CallType
  BY TypeParts
<1>1. /\ pc'[p] = "idle" /\ at'[p] = at[p] + 1 /\ ret'[p] = r
      /\ \A q \in Party : q # p => pc'[q] = pc[q] /\ at'[q] = at[q] /\ ret'[q] = ret[q]
  BY <1>0 DEF Return, Leave, CallType
<1>2. Op(p) = pc[p] /\ at[p] \in Nat \ {0}
  BY <1>0 DEF ControlInv, CallInv, CallType
<1>3. OthersCall(p)
  BY <1>1 DEF OthersCall, CallState
<1>4. SentAt(p)'
  BY <1>1, <1>2 DEF CallsInv, SentAt, Pending
<1>5. Script[p][at[p]] = pc[p]
  BY <1>2 DEF Op
<1>6. FlushedAt(p)'
  <2>1. at'[p] - 1 = at[p]
    BY <1>1, <1>2
  <2>. QED BY <1>1, <1>5, <2>1 DEF FlushedAt
<1>. QED BY <1>3, <1>4, <1>6, CallsFrame

\* A call throws.
LEMMA ThrowCalls ==
    ASSUME TypeOK, CallsInv, NEW p \in Party, Throw(p),
           UNCHANGED <<content, m_seq, m_notack_queue, sent>>
    PROVE  CallsInv'
<1>0. CallType
  BY TypeParts
<1>1. /\ pc'[p] = "idle" /\ at'[p] = Len(Script[p]) + 1 /\ ret'[p] = "throw"
      /\ \A q \in Party : q # p => pc'[q] = pc[q] /\ at'[q] = at[q] /\ ret'[q] = ret[q]
  BY <1>0 DEF Throw, Leave, CallType
<1>2. Len(Script[p]) \in Nat
  BY ScriptAssumption
<1>3. OthersCall(p)
  BY <1>1 DEF OthersCall, CallState
<1>4. Op(p)' = "close"
  BY <1>1, <1>2 DEF Op
<1>5. SentAt(p)'
  BY <1>1, <1>4 DEF CallsInv, SentAt, Pending
<1>6. FlushedAt(p)'
  BY <1>1 DEF FlushedAt
<1>. QED BY <1>3, <1>5, <1>6, CallsFrame

\* The steps by which a call goes on
LEMMA GoingOn ==
    ASSUME TriesLeft, TypeOK, ControlInv, NEW p \in Party,
           \/ InitSender(p) \/ SendNullSender(p) \/ SendFails(p) \/ RecvIgnore(p) \/ RecvNeedsResend(p)
           \/ RedisLoses(p) \/ FlushNeedsResend(p) \/ CloseFlushed(p) \/ FinishNoThread(p)
           \/ FinishV2(p) \/ FinishWithoutJoin(p) \/ Join(p) \/ Reconnect(p) \/ ReconnectFails(p)
           \/ ResendWrite(p) \/ (\E ok \in BOOLEAN : ResendReturns(p, ok))
    PROVE  OthersCall(p) /\ GoesOn(p) /\ UNCHANGED <<sent, got>>
<1> USE DEF call, client, version, thread, net, link, list, history, OthersCall, CallState, GoesOn,
            CallType
<1>0. CallType
  BY TypeParts
<1>1. CASE InitSender(p) \/ RecvIgnore(p) \/ RedisLoses(p) \/ ResendWrite(p)
  BY <1>0, <1>1 DEF InitSender, RecvIgnore, Pop, RedisLoses, ResendWrite
<1>2. CASE SendNullSender(p) \/ SendFails(p) \/ RecvNeedsResend(p) \/ FlushNeedsResend(p) \/ CloseFlushed(p)
  BY <1>0, <1>2 DEF SendNullSender, SendFails, RecvNeedsResend, FlushNeedsResend, CloseFlushed, Goto
<1>3. CASE FinishNoThread(p) \/ FinishV2(p) \/ FinishWithoutJoin(p) \/ Join(p)
  <2>1. AfterFinish(p) \in {"closed", "reconnect"}
    BY DEF AfterFinish
  <2>. QED BY <1>0, <1>3, <2>1 DEF FinishNoThread, FinishV2, FinishWithoutJoin, StreamEnds, Join, Goto
<1>4. CASE Reconnect(p)
  BY <1>0, <1>4 DEF Reconnect, Goto
<1>5. CASE ReconnectFails(p)
  BY <1>0, <1>5 DEF ReconnectFails
<1>6. CASE \E ok \in BOOLEAN : ResendReturns(p, ok)
  <2>1. PICK ok \in BOOLEAN : ResendReturns(p, ok)
    BY <1>6
  <2>2. pc' = [pc EXCEPT ![p] = Op(p)] /\ UNCHANGED <<at, ret, got>>
    BY <2>1, NextTryGoesOn
  <2>3. Op(p) \in {"send", "recv", "flush", "close"}
    BY <1>0, OpType
  <2>. QED BY <1>0, <2>1, <2>2, <2>3 DEF ResendReturns
<1>. QED BY <1>1, <1>2, <1>3, <1>4, <1>5, <1>6

\* Steps of the acknowledgement thread, the server and the network
LEMMA OutsideCalls ==
    ASSUME TypeOK, ControlInv, CallsInv, NEW p \in Party, RecvThread(p) \/ Server(p) \/ Break(p)
    PROVE  CallsInv' /\ UNCHANGED <<sent, got>>
<1> USE DEF call, client, version, thread, net, link, list, history
<1>1. UNCHANGED <<pc, at, ret, content, m_seq, sent, got>>
  <2>1. CASE RecvThread(p)
    BY <2>1 DEF RecvThread, ThreadStart, ReadAck, WaitNotEmpty, PopFront, ReadEnd
  <2>2. CASE Server(p) \/ Break(p)
    BY <2>2 DEF Server, ServerPush, ServerEnd, Break
  <2>. QED BY <2>1, <2>2
<1>2. ASSUME NEW q \in Party PROVE SentAt(q)'
  <2>1. Op(q)' = Op(q)
    BY <1>1, OpSame
  <2>. QED BY <1>1, <2>1 DEF CallsInv, SentAt, Pending
<1>3. ASSUME NEW q \in Party PROVE FlushedAt(q)'
  <2>1. CASE PopFront(p)
    <3>1. m_notack_queue[p] # <<>> /\ (q # p => m_notack_queue'[q] = m_notack_queue[q])
      <4>1. ClientType
        BY TypeParts
      <4>. QED BY <2>1, <4>1 DEF PopFront, ControlInv, PopInv, ClientType
    <3>2. FlushedAt(p) /\ FlushedAt(q)
      BY DEF CallsInv
    <3>. QED BY <1>1, <3>1, <3>2 DEF FlushedAt
  <2>2. CASE ~PopFront(p)
    <3>1. UNCHANGED m_notack_queue
      <4>1. CASE RecvThread(p)
        BY <2>2, <4>1 DEF RecvThread, ThreadStart, ReadAck, WaitNotEmpty, ReadEnd
      <4>2. CASE Server(p) \/ Break(p)
        BY <4>2 DEF Server, ServerPush, ServerEnd, Break
      <4>. QED BY <4>1, <4>2
    <3>. QED BY <1>1, <3>1 DEF CallsInv, FlushedAt
  <2>. QED BY <2>1, <2>2
<1>. QED BY <1>1, <1>2, <1>3 DEF CallsInv

\* send starts, writes and returns; another call starts.
LEMMA SendCalls ==
    ASSUME TypeOK, ControlInv, CallsInv, NEW p \in Party,
           SendCall(p) \/ OtherCall(p) \/ SendWrite(p) \/ SendEnqueue(p)
    PROVE  CallsInv'
<1> USE DEF call, client, version, thread, net, link, list, history, OthersCall, CallState
<1>0. CallType /\ ClientType /\ HistoryType
  BY TypeParts
<1>1. SentAt(p) /\ FlushedAt(p) /\ CallInv(p)
  BY DEF CallsInv, ControlInv
<1>2. /\ Op(p) \in {"send", "recv", "flush", "close"} /\ at[p] \in Nat \ {0}
      /\ m_seq[p] \in Nat /\ sent[p] \in Seq(Msg)
  BY <1>0, OpType DEF CallType, ClientType, HistoryType
<1>3. Len(sent[p]) \in Nat
  BY <1>2
<1>4. CASE SendCall(p)
  <2>1. PICK m \in Msg : /\ content' = [content EXCEPT ![p] = m]
                         /\ sent' = [sent EXCEPT ![p] = Append(@, m)]
    BY <1>4 DEF SendCall
  <2>2. /\ OthersCall(p) /\ pc[p] = "idle" /\ pc'[p] = "send" /\ Op(p) = "send"
        /\ at'[p] = at[p] /\ ret'[p] = ret[p] /\ content'[p] = m /\ m_seq'[p] = m_seq[p]
        /\ sent'[p] = Append(sent[p], m)
    BY <1>0, <1>4, <2>1 DEF SendCall, Goto, CallType, HistoryType
  <2>3. Op(p)' = "send"
    BY <2>2, OpSame
  <2>4. Len(sent[p]) = m_seq[p] /\ ret[p] # "throw"
    BY <1>1, <2>2 DEF SentAt, Pending
  <2>5. Len(sent'[p]) = m_seq'[p] + 1 /\ content'[p] = sent'[p][m_seq'[p] + 1]
    BY <1>2, <2>2, <2>4, AppendFacts
  <2>6. SentAt(p)'
    BY <1>2, <2>2, <2>3, <2>4, <2>5 DEF SentAt, Pending
  <2>7. FlushedAt(p)'
    BY <2>2 DEF FlushedAt
  <2>. QED BY <2>2, <2>6, <2>7, CallsFrame
<1>5. CASE OtherCall(p)
  <2>1. /\ OthersCall(p) /\ pc[p] = "idle" /\ pc'[p] = Op(p) /\ Op(p) # "send"
        /\ at'[p] = at[p] /\ ret'[p] = ret[p] /\ UNCHANGED <<content, m_seq, sent>>
    BY <1>0, <1>5 DEF OtherCall, Goto, CallType
  <2>2. Op(p)' = Op(p)
    BY <2>1, OpSame
  <2>3. SentAt(p)'
    BY <1>1, <1>2, <2>1, <2>2 DEF SentAt, Pending
  <2>4. FlushedAt(p)'
    BY <1>2, <2>1 DEF FlushedAt
  <2>. QED BY <2>1, <2>3, <2>4, CallsFrame
<1>6. CASE SendWrite(p)
  <2>1. /\ OthersCall(p) /\ pc[p] = "send" /\ pc'[p] = "wrote" /\ m_seq'[p] = m_seq[p] + 1
        /\ at'[p] = at[p] /\ ret'[p] = ret[p] /\ UNCHANGED <<content, sent>>
    BY <1>0, <1>6 DEF SendWrite, Goto, CallType, ClientType
  <2>2. Op(p) = "send" /\ Op(p)' = "send"
    BY <1>1, <2>1, OpSame DEF CallInv
  <2>3. Len(sent[p]) = m_seq[p] + 1 /\ content[p] = sent[p][m_seq[p] + 1] /\ ret[p] # "throw"
    BY <1>1, <2>1, <2>2 DEF SentAt, Pending
  <2>4. SentAt(p)'
    BY <1>2, <1>3, <2>1, <2>2, <2>3 DEF SentAt, Pending
  <2>5. FlushedAt(p)'
    BY <2>1 DEF FlushedAt
  <2>. QED BY <2>1, <2>4, <2>5, CallsFrame
<1>7. CASE SendEnqueue(p)
  <2>1. /\ OthersCall(p) /\ pc[p] = "wrote" /\ pc'[p] = "idle" /\ at'[p] = at[p] + 1
        /\ ret'[p] = "ok" /\ UNCHANGED <<m_seq, sent>>
    BY <1>0, <1>7 DEF SendEnqueue, Return, Leave, CallType, ClientType, HistoryType
  <2>2. Op(p) = "send" /\ at'[p] - 1 = at[p]
    BY <1>1, <1>2, <2>1 DEF CallInv
  <2>3. SentAt(p)'
    BY <1>1, <1>2, <2>1, <2>2 DEF SentAt, Pending
  <2>4. FlushedAt(p)'
    BY <2>1, <2>2 DEF FlushedAt, Op
  <2>. QED BY <2>1, <2>3, <2>4, CallsFrame
<1>. QED BY <1>4, <1>5, <1>6, <1>7

\* Every step preserves what is known of the calls.
LEMMA CallsStep ==
    ASSUME TriesLeft, TypeOK, ControlInv, ProtocolInv, CallsInv, [Next]_vars
    PROVE  CallsInv'
<1> USE DEF call, client, version, thread, net, link, list, history
<1>1. ASSUME NEW p \in Party, RecvDeliver(p) \/ (\E r \in {"ok", "false"} : FlushReturns(p, r))
      PROVE  CallsInv'
  <2>1. CASE RecvDeliver(p)
    BY <2>1, ReturnCalls DEF RecvDeliver, Pop
  <2>2. ASSUME NEW r \in {"ok", "false"}, FlushReturns(p, r) PROVE CallsInv'
    BY <2>2, ReturnCalls DEF FlushReturns
  <2>. QED BY <1>1, <2>1, <2>2
<1>2. ASSUME NEW p \in Party, RecvGap(p) \/ InitRpcVersionFails(p) \/ RecvTimesOut(p)
      PROVE  CallsInv'
  BY <1>2, ThrowCalls DEF RecvGap, Pop, InitRpcVersionFails, RecvTimesOut
<1>3. ASSUME NEW p \in Party, SendWriteV1(p) \/ ReconnectV1(p) PROVE CallsInv'
  BY <1>3 DEF SendWriteV1, ReconnectV1, ProtocolInv
<1>4. ASSUME NEW p \in Party, Caller(p) \/ RecvThread(p) \/ Server(p) \/ Fault(p) PROVE CallsInv'
  BY <1>1, <1>2, <1>3, <1>4, GoingOn, GoesOnCalls, OutsideCalls, SendCalls DEF Caller, Fault
<1>5. CASE UNCHANGED vars
  <2>1. \A p \in Party : UNCHANGED CallState(p)
    BY <1>5 DEF vars, CallState
  <2>2. ASSUME NEW p \in Party PROVE SentAt(p)' /\ FlushedAt(p)'
    <3>1. Op(p)' = Op(p)
      BY <2>1, OpSame DEF CallState
    <3>. QED BY <2>1, <3>1 DEF CallsInv, CallState, SentAt, Pending, FlushedAt
  <2>. QED BY <2>2 DEF CallsInv
<1>. QED BY <1>4, <1>5 DEF Next, Stopped

-----------------------------------------------------------------------------
(* Contents: a number stands for one message everywhere *)

\* One more packet at the end
LEMMA CarriesAppend ==
    ASSUME NEW T, NEW x \in Seq(T), NEW e \in T, NEW messages, Carries(x, messages),
           e.seq # Disconnected => e.seq + 1 \in DOMAIN messages /\ e.body = messages[e.seq + 1]
    PROVE  Carries(Append(x, e), messages)
<1> DEFINE y == Append(x, e)
<1>1. /\ DOMAIN y = 1 .. Len(x) + 1 /\ DOMAIN x = 1 .. Len(x) /\ Len(x) \in Nat
      /\ \A i \in 1 .. Len(x) : y[i] = x[i]
      /\ y[Len(x) + 1] = e
  BY AppendFacts
<1> HIDE DEF y
<1>2. \A i \in DOMAIN y : i \in DOMAIN x \/ i = Len(x) + 1
  BY <1>1
<1>3. Carries(y, messages)
  BY <1>1, <1>2 DEF Carries
<1>. QED BY <1>3 DEF y

\* The first one is taken away.
LEMMA CarriesTail ==
    ASSUME NEW T, NEW x \in Seq(T), x # <<>>, NEW messages, Carries(x, messages)
    PROVE  Carries(Tail(x), messages)
<1> DEFINE y == Tail(x)
<1>1. /\ DOMAIN y = 1 .. Len(x) - 1 /\ DOMAIN x = 1 .. Len(x) /\ Len(x) \in Nat \ {0}
      /\ \A i \in 1 .. Len(x) - 1 : y[i] = x[i + 1]
  BY TailFacts
<1> HIDE DEF y
<1>2. \A i \in DOMAIN y : i + 1 \in DOMAIN x /\ y[i] = x[i + 1]
  BY <1>1
<1>3. Carries(y, messages)
  BY <1>2 DEF Carries
<1>. QED BY <1>3 DEF y

\* The end is lost.
LEMMA CarriesPrefix ==
    ASSUME NEW T, NEW x \in Seq(T), NEW n \in 0 .. Len(x), NEW messages, Carries(x, messages)
    PROVE  Carries(SubSeq(x, 1, n), messages)
<1> DEFINE y == SubSeq(x, 1, n)
<1>1. /\ DOMAIN y = 1 .. n /\ DOMAIN x = 1 .. Len(x) /\ Len(x) \in Nat /\ n \in Nat /\ n <= Len(x)
      /\ \A i \in 1 .. n : y[i] = x[i]
  BY PrefixFacts, AppendFacts
<1> HIDE DEF y
<1>2. \A i \in DOMAIN y : i \in DOMAIN x /\ y[i] = x[i]
  BY <1>1
<1>3. Carries(y, messages)
  BY <1>2 DEF Carries
<1>. QED BY <1>3 DEF y

\* One more message is sent.
LEMMA CarriesMore ==
    ASSUME NEW x, NEW messages \in Seq(Msg), NEW m \in Msg, Carries(x, messages)
    PROVE  Carries(x, Append(messages, m))
<1> DEFINE more == Append(messages, m)
<1>1. \A n \in DOMAIN messages : n \in DOMAIN more /\ more[n] = messages[n]
  BY AppendFacts
<1> HIDE DEF more
<1>2. Carries(x, more)
  BY <1>1 DEF Carries
<1>. QED BY <1>2 DEF more

\* Send numbers its message and keeps it; pop_front drops one.
LEMMA QueueBodies ==
    ASSUME TypeOK, ControlInv, CallsInv, BodyInv, NEW p \in Party,
           SendCall(p) \/ SendEnqueue(p) \/ PopFront(p)
    PROVE  BodyInv'
<1>0. UNCHANGED <<up, redis>>
  BY QuietSteps DEF RecvThread
<1>1. /\ m_notack_queue \in [Party -> Seq(Packet)] /\ sent \in [Party -> Seq(Msg)]
      /\ m_seq[p] \in Nat
  BY DEF TypeOK
<1>2. CASE SendCall(p)
  <2>1. PICK m \in Msg : sent' = [sent EXCEPT ![p] = Append(@, m)]
    BY <1>2 DEF SendCall
  <2>2. UNCHANGED m_notack_queue
    BY <1>2 DEF SendCall, client
  <2>3. BodyAt(p)'
    BY <1>0, <1>1, <2>1, <2>2, CarriesMore DEF BodyInv, BodyAt
  <2>4. \A q \in Party : q # p => BodyAt(q)'
    BY <1>0, <1>1, <2>1, <2>2 DEF BodyInv, BodyAt
  <2>. QED BY <2>3, <2>4 DEF BodyInv
<1>3. CASE SendEnqueue(p)
  <2> DEFINE e == [seq |-> m_seq[p] - 1, body |-> content[p]]
  <2>1. /\ m_notack_queue' = [m_notack_queue EXCEPT ![p] = Append(@, e)]
        /\ UNCHANGED sent /\ pc[p] = "wrote"
    BY <1>3 DEF SendEnqueue, history
  <2>2. /\ m_seq[p] > 0 /\ content[p] \in Msg /\ content[p] = sent[p][m_seq[p]]
        /\ m_seq[p] <= Len(sent[p])
    BY <2>1 DEF ControlInv, CallInv, Gone, CallsInv, SentAt
  <2>3. e.seq + 1 = m_seq[p] /\ m_seq[p] \in DOMAIN sent[p] /\ e \in Packet
    BY <1>1, <2>2 DEF Packet
  <2>4. e.body = sent[p][e.seq + 1]
    BY <2>2, <2>3
  <2> HIDE DEF e
  <2>5. BodyAt(p)'
    BY <1>0, <1>1, <2>1, <2>3, <2>4, CarriesAppend DEF BodyInv, BodyAt
  <2>6. \A q \in Party : q # p => BodyAt(q)'
    BY <1>0, <1>1, <2>1 DEF BodyInv, BodyAt
  <2>. QED BY <2>5, <2>6 DEF BodyInv
<1>4. CASE PopFront(p)
  <2>1. /\ m_notack_queue' = [m_notack_queue EXCEPT ![p] = Tail(@)] /\ UNCHANGED sent
        /\ m_notack_queue[p] # <<>>
    BY <1>4 DEF PopFront, history, ControlInv, PopInv
  <2>2. BodyAt(p)'
    BY <1>0, <1>1, <2>1, CarriesTail DEF BodyInv, BodyAt
  <2>3. \A q \in Party : q # p => BodyAt(q)'
    BY <1>0, <1>1, <2>1 DEF BodyInv, BodyAt
  <2>. QED BY <2>2, <2>3 DEF BodyInv
<1>. QED BY <1>2, <1>3, <1>4

\* What is written to a stream is the message of its number.
LEMMA WriteBodies ==
    ASSUME TypeOK, ControlInv, AckInv, CallsInv, BodyInv, NEW p \in Party,
           SendWrite(p) \/ ResendWrite(p)
    PROVE  BodyInv'
<1>0. UNCHANGED <<redis, m_notack_queue, sent>>
  BY DEF SendWrite, ResendWrite, list, history
<1>1. sent[p] \in Seq(Msg) /\ m_seq[p] \in Nat
  BY DEF TypeOK
<1>2. ASSUME NEW e \in Packet, stream[p] = "open", Room(p), Write(p, e),
             e.seq + 1 \in DOMAIN sent[p], e.body = sent[p][e.seq + 1]
      PROVE  BodyInv'
  <2>1. /\ up'[p][cur[p]] = Append(up[p][cur[p]], e)
        /\ \A k \in Stream : k # cur[p] => up'[p][k] = up[p][k]
        /\ \A q \in Party : q # p => up'[q] = up[q]
    BY <1>2, WriteEffect
  <2>2. cur[p] \in Stream /\ up[p][cur[p]] \in Seq(Packet)
    BY <1>2, CurrentStream
  <2>3. Carries(Append(up[p][cur[p]], e), sent[p])
    BY <1>2, <2>2, CarriesAppend DEF BodyInv, BodyAt
  <2>4. BodyAt(p)'
    BY <1>0, <2>1, <2>3 DEF BodyInv, BodyAt
  <2>5. \A q \in Party : q # p => BodyAt(q)'
    BY <1>0, <2>1 DEF BodyInv, BodyAt
  <2>. QED BY <2>4, <2>5 DEF BodyInv
<1>3. CASE SendWrite(p)
  <2> DEFINE e == [seq |-> m_seq[p], body |-> content[p]]
  <2>1. stream[p] = "open" /\ Room(p) /\ Write(p, e) /\ pc[p] = "send"
    BY <1>3 DEF SendWrite
  <2>2. Op(p) = "send" /\ content[p] \in Msg
    BY <2>1 DEF ControlInv, CallInv, Gone
  <2>3. Len(sent[p]) = m_seq[p] + 1 /\ content[p] = sent[p][m_seq[p] + 1]
    BY <2>1, <2>2 DEF CallsInv, SentAt, Pending
  <2>4. e \in Packet /\ e.seq = m_seq[p] /\ e.body = content[p]
    BY <1>1, <2>2 DEF Packet
  <2>5. m_seq[p] + 1 \in DOMAIN sent[p]
    BY <1>1, <2>3
  <2> HIDE DEF e
  <2>. QED BY <1>2, <2>1, <2>3, <2>4, <2>5
<1>4. CASE ResendWrite(p)
  <2> DEFINE e == m_notack_queue[p][resent[p] + 1]
  <2>1. /\ stream[p] = "open" /\ Room(p) /\ Write(p, e)
        /\ resent[p] + 1 \in DOMAIN m_notack_queue[p]
    BY <1>4, PartyTypes DEF ResendWrite
  <2>2. e \in Packet
    BY <2>1, PartyTypes
  <2>3. e.seq # Disconnected
    BY <2>2 DEF Packet, Disconnected
  <2>4. e.seq + 1 \in DOMAIN sent[p] /\ e.body = sent[p][e.seq + 1]
    BY <2>1, <2>3 DEF BodyInv, BodyAt, Carries
  <2> HIDE DEF e
  <2>. QED BY <1>2, <2>1, <2>2, <2>4
<1>. QED BY <1>3, <1>4

\* The server, a break and redis move packets or lose them.
LEMMA NetBodies ==
    ASSUME TypeOK, ControlInv, BodyInv, NEW p \in Party,
           Server(p) \/ Break(p) \/ Pop(p) \/ RedisLoses(p)
    PROVE  BodyInv'
<1> USE DEF client, net, list, history
<1>0. UNCHANGED <<m_notack_queue, sent>>
  BY DEF Server, ServerPush, ServerEnd, Break, Pop, RedisLoses
<1>1. ASSUME NEW k \in Stream, ServerPush(p, k) PROVE BodyInv'
  <2> DEFINE u == up[p][k]
             e == Head(u)
             f == Pushed(Peer[p], e.seq, e.body)
  <2>1. up \in [Party -> [Stream -> Seq(Packet)]] /\ u \in Seq(Packet) /\ u # <<>>
    BY <1>1 DEF ServerPush, TypeOK
  <2>2. e \in Packet /\ e = u[1] /\ 1 \in DOMAIN u
    BY <2>1, TailFacts
  <2>3. e.seq \in Nat /\ e.body \in Msg /\ e.seq # Disconnected
    BY <2>2 DEF Packet, Disconnected
  <2>4. e.seq + 1 \in DOMAIN sent[p] /\ e.body = sent[p][e.seq + 1]
    BY <2>2, <2>3 DEF BodyInv, BodyAt, Carries
  <2>5. Push(Peer[p], e.seq, e.body) /\ up' = [up EXCEPT ![p][k] = Tail(@)]
    BY <1>1 DEF ServerPush
  <2>6. /\ f \in Element /\ redis[Peer[p]] \in Seq(Element)
        /\ redis'[Peer[p]] = Append(redis[Peer[p]], f) /\ f.seq = e.seq /\ f.body = e.body
        /\ \A r \in Party : r # Peer[p] => redis'[r] = redis[r]
    BY <2>3, <2>5, OnePeer, PushEffect
  <2>7. /\ up'[p][k] = Tail(u) /\ \A j \in Stream : j # k => up'[p][j] = up[p][j]
        /\ \A q \in Party : q # p => up'[q] = up[q]
    BY <2>1, <2>5
  <2> HIDE DEF f, e
  <2>8. Carries(redis'[Peer[p]], sent[p])
    BY <2>4, <2>6, CarriesAppend DEF BodyInv, BodyAt
  <2>9. Carries(Tail(u), sent[p])
    BY <2>1, CarriesTail DEF BodyInv, BodyAt
  <2>10. BodyAt(p)'
    BY <1>0, <2>7, <2>8, <2>9 DEF BodyInv, BodyAt
  <2>11. \A q \in Party : q # p => BodyAt(q)'
    BY <1>0, <2>6, <2>7, OnePeer DEF BodyInv, BodyAt
  <2>. QED BY <2>10, <2>11 DEF BodyInv
<1>2. ASSUME NEW k \in Stream, ServerEnd(p, k) PROVE BodyInv'
  <2> DEFINE f == Pushed(Peer[p], Disconnected, NoMsg)
  <2>1. UNCHANGED up
    BY <1>2 DEF ServerEnd
  <2>2. CASE Push(Peer[p], Disconnected, NoMsg)
    <3>2. /\ f \in Element /\ redis[Peer[p]] \in Seq(Element)
          /\ redis'[Peer[p]] = Append(redis[Peer[p]], f) /\ f.seq = Disconnected
          /\ \A r \in Party : r # Peer[p] => redis'[r] = redis[r]
      BY <2>2, OnePeer, NoticeEffect
    <3> HIDE DEF f
    <3>3. Carries(redis'[Peer[p]], sent[p])
      BY <3>2, CarriesAppend DEF BodyInv, BodyAt
    <3>4. BodyAt(p)'
      BY <1>0, <2>1, <3>3 DEF BodyInv, BodyAt
    <3>5. \A q \in Party : q # p => BodyAt(q)'
      BY <1>0, <2>1, <3>2, OnePeer DEF BodyInv, BodyAt
    <3>. QED BY <3>4, <3>5 DEF BodyInv
  <2>3. CASE UNCHANGED list
    BY <1>0, <2>1, <2>3 DEF BodyInv, BodyAt
  <2>. QED BY <1>2, <2>2, <2>3 DEF ServerEnd
<1>3. CASE Break(p)
  <2>1. cur[p] \in Stream /\ up[p][cur[p]] \in Seq(Packet) /\ UNCHANGED redis
    BY <1>3, CurrentStream DEF Break
  <2>2. PICK i \in 0 .. Len(up[p][cur[p]]) : up' = [up EXCEPT ![p][cur[p]] = SubSeq(@, 1, i)]
    BY <1>3 DEF Break
  <2>3. /\ up'[p][cur[p]] = SubSeq(up[p][cur[p]], 1, i)
        /\ \A j \in Stream : j # cur[p] => up'[p][j] = up[p][j]
        /\ \A q \in Party : q # p => up'[q] = up[q]
    BY <2>1, <2>2 DEF TypeOK
  <2>4. Carries(SubSeq(up[p][cur[p]], 1, i), sent[p])
    BY <2>1, CarriesPrefix DEF BodyInv, BodyAt
  <2>5. BodyAt(p)'
    BY <1>0, <2>1, <2>3, <2>4 DEF BodyInv, BodyAt
  <2>6. \A q \in Party : q # p => BodyAt(q)'
    BY <1>0, <2>1, <2>3 DEF BodyInv, BodyAt
  <2>. QED BY <2>5, <2>6 DEF BodyInv
<1>4. CASE Pop(p) \/ RedisLoses(p)
  <2>1. /\ redis' = [redis EXCEPT ![p] = Tail(@)] /\ redis[p] # <<>> /\ UNCHANGED up
        /\ redis \in [Party -> Seq(Element)]
    BY <1>4 DEF Pop, RedisLoses, TypeOK
  <2>2. Peer[p] \in Party /\ Peer[Peer[p]] = p
    BY OnePeer
  <2>3. Carries(Tail(redis[p]), sent[Peer[p]])
    BY <2>1, <2>2, CarriesTail DEF BodyInv, BodyAt
  <2>4. BodyAt(Peer[p])'
    BY <1>0, <2>1, <2>2, <2>3 DEF BodyInv, BodyAt
  <2>5. \A q \in Party : q # Peer[p] => BodyAt(q)'
    <3>1. \A q \in Party : q # Peer[p] => Peer[q] # p /\ Peer[q] \in Party
      BY PeerAssumption
    <3>. QED BY <1>0, <2>1, <3>1 DEF BodyInv, BodyAt
  <2>. QED BY <2>4, <2>5 DEF BodyInv
<1>. QED BY <1>1, <1>2, <1>3, <1>4 DEF Server

\* Every step preserves what the numbers stand for.
LEMMA BodyStep ==
    ASSUME TypeOK, ControlInv, AckInv, ProtocolInv, CallsInv, BodyInv, [Next]_vars
    PROVE  BodyInv'
<1> USE DEF client, version, thread, net, list, history
<1>1. ASSUME UNCHANGED <<m_notack_queue, sent, up, redis>> PROVE BodyInv'
  BY <1>1 DEF BodyInv, BodyAt
<1>2. ASSUME NEW p \in Party,
             \/ OtherCall(p) \/ InitSender(p)
             \/ SendNullSender(p) \/ SendFails(p) \/ RecvNeedsResend(p)
             \/ (\E r \in {"ok", "false"} : FlushReturns(p, r))
             \/ FlushNeedsResend(p) \/ CloseFlushed(p) \/ FinishNoThread(p) \/ FinishV2(p)
             \/ FinishWithoutJoin(p) \/ Join(p) \/ Reconnect(p)
             \/ (\E ok \in BOOLEAN : ResendReturns(p, ok))
             \/ InitRpcVersionFails(p) \/ ReconnectFails(p) \/ RecvTimesOut(p)
      PROVE  BodyInv'
  <2>1. UNCHANGED <<up, redis>>
    BY <1>2, QuietSteps
  <2>2. CASE OtherCall(p) \/ InitSender(p) \/ SendNullSender(p) \/ SendFails(p)
             \/ RecvNeedsResend(p) \/ (\E r \in {"ok", "false"} : FlushReturns(p, r))
    BY <1>1, <2>1, <2>2 DEF OtherCall, InitSender, SendNullSender, SendFails, RecvNeedsResend,
                            FlushReturns
  <2>3. CASE FlushNeedsResend(p) \/ CloseFlushed(p) \/ FinishNoThread(p) \/ FinishV2(p)
             \/ FinishWithoutJoin(p) \/ Join(p)
    BY <1>1, <2>1, <2>3 DEF FlushNeedsResend, CloseFlushed, FinishNoThread, FinishV2,
                            FinishWithoutJoin, Join, StreamEnds
  <2>4. CASE Reconnect(p) \/ (\E ok \in BOOLEAN : ResendReturns(p, ok))
             \/ InitRpcVersionFails(p) \/ ReconnectFails(p) \/ RecvTimesOut(p)
    BY <1>1, <2>1, <2>4 DEF Reconnect, ResendReturns, InitRpcVersionFails, ReconnectFails,
                            RecvTimesOut
  <2>. QED BY <1>2, <2>2, <2>3, <2>4
<1>3. ASSUME NEW p \in Party, RecvThread(p) PROVE BodyInv'
  <2>1. CASE PopFront(p)
    BY <2>1, QueueBodies
  <2>2. CASE ThreadStart(p) \/ ReadAck(p) \/ WaitNotEmpty(p) \/ ReadEnd(p)
    BY <1>1, <2>2 DEF ThreadStart, ReadAck, WaitNotEmpty, ReadEnd
  <2>. QED BY <1>3, <2>1, <2>2 DEF RecvThread
<1>4. ASSUME NEW p \in Party, RecvDeliver(p) \/ RecvIgnore(p) \/ RecvGap(p) PROVE BodyInv'
  <2>1. Pop(p)
    BY <1>4 DEF RecvDeliver, RecvIgnore, RecvGap
  <2>. QED BY <2>1, NetBodies
<1>5. ASSUME NEW p \in Party, SendWriteV1(p) \/ ReconnectV1(p) PROVE BodyInv'
  BY <1>5 DEF SendWriteV1, ReconnectV1, ProtocolInv
<1>6. ASSUME NEW p \in Party, Caller(p) \/ RecvThread(p) \/ Server(p) \/ Fault(p) PROVE BodyInv'
  BY <1>2, <1>3, <1>4, <1>5, <1>6, QueueBodies, WriteBodies, NetBodies DEF Caller, Fault
<1>7. CASE UNCHANGED vars
  BY <1>1, <1>7 DEF vars
<1>. QED BY <1>6, <1>7 DEF Next, Stopped

-----------------------------------------------------------------------------
(* What recv returns *)

\* In the numbered format recv returns the first message it has not returned.
LEMMA DeliverEffect ==
    ASSUME TypeOK, BodyInv, GotInv, NEW p \in Party, RecvDeliver(p), DataVersion(p) = v2
    PROVE  /\ Len(got[p]) < Len(sent[Peer[p]])
           /\ got' = [got EXCEPT ![p] = Append(@, sent[Peer[p]][Len(got[p]) + 1])]
           /\ m_recv_idx' = [m_recv_idx EXCEPT ![p] = @ + 1]
           /\ UNCHANGED sent
<1> DEFINE x == redis[p]
           e == Head(x)
           n == m_recv_idx[p]
           o == Peer[p]
<1>1. o \in Party /\ Peer[o] = p
  BY OnePeer
<1>2. x \in Seq(Element) /\ x # <<>> /\ n \in Nat \cup {-1} /\ sent[o] \in Seq(Msg)
  BY <1>1 DEF RecvDeliver, Pop, TypeOK
<1>3. e \in Element /\ e = x[1] /\ 1 \in DOMAIN x
  BY <1>2, TailFacts
<1>4. /\ e.seq # Disconnected /\ e.seq = n + 1
      /\ m_recv_idx' = [m_recv_idx EXCEPT ![p] = e.seq]
      /\ got' = [got EXCEPT ![p] = Append(@, Decoded(p, e))] /\ UNCHANGED sent
  BY DEF RecvDeliver, Pop
<1>5. e.seq + 1 \in DOMAIN sent[o] /\ e.body = sent[o][e.seq + 1]
  BY <1>1, <1>3, <1>4 DEF BodyInv, BodyAt, Carries
<1>6. m_use_redis_data_version[p] # v1
  BY DEF DataVersion, v1, v2, not_inited
<1>7. Len(got[p]) = n + 1
  BY <1>1, <1>6 DEF GotInv, GotAt
<1>8. Decoded(p, e) = e.body
  BY DEF Decoded, v1, v2
<1> HIDE DEF x, e, n, o
<1>9. Len(got[p]) < Len(sent[o])
  BY <1>2, <1>4, <1>5, <1>7
<1>10. got' = [got EXCEPT ![p] = Append(@, sent[o][Len(got[p]) + 1])]
  BY <1>4, <1>5, <1>7, <1>8
<1>11. m_recv_idx' = [m_recv_idx EXCEPT ![p] = n + 1]
  BY <1>4
<1>. QED BY <1>4, <1>9, <1>10, <1>11 DEF o, n

\* What recv has returned changes with RecvDeliver only, what was sent with
\* SendCall only.
LEMMA HistorySteps ==
    ASSUME TriesLeft, TypeOK, ControlInv, ProtocolInv, CallsInv, NEW p \in Party,
           Caller(p) \/ RecvThread(p) \/ Server(p) \/ Fault(p), ~RecvDeliver(p), ~SendCall(p)
    PROVE  UNCHANGED <<sent, got>>
<1>1. CASE OtherCall(p) \/ SendWrite(p) \/ SendEnqueue(p) \/ RecvGap(p)
           \/ (\E r \in {"ok", "false"} : FlushReturns(p, r))
           \/ InitRpcVersionFails(p) \/ RecvTimesOut(p)
  BY <1>1 DEF OtherCall, SendWrite, SendEnqueue, RecvGap, Pop, FlushReturns, InitRpcVersionFails,
              RecvTimesOut, history
<1>2. CASE SendWriteV1(p) \/ ReconnectV1(p)
  BY <1>2 DEF SendWriteV1, ReconnectV1, ProtocolInv
<1>. QED BY <1>1, <1>2, GoingOn, OutsideCalls DEF Caller, Fault

\* Steps that pop no element leave recv's count and the format alone.
LEMMA CountSteps ==
    ASSUME ProtocolInv, NEW p \in Party, Caller(p) \/ RecvThread(p) \/ Server(p) \/ Fault(p),
           ~RecvDeliver(p), ~RecvIgnore(p), ~RecvGap(p)
    PROVE  UNCHANGED <<m_recv_idx, m_use_redis_data_version>>
<1>1. CASE SendWrite(p) \/ ResendWrite(p) \/ Server(p) \/ Break(p) \/ RedisLoses(p)
  BY <1>1 DEF SendWrite, ResendWrite, Server, ServerPush, ServerEnd, Break, RedisLoses, client, version
<1>2. CASE SendWriteV1(p) \/ ReconnectV1(p)
  BY <1>2 DEF SendWriteV1, ReconnectV1, ProtocolInv
<1>. QED BY <1>1, <1>2, QuietSteps DEF Caller, Fault

\* Every step preserves what is known of the messages received.
LEMMA GotStep ==
    ASSUME TriesLeft, TypeOK, ControlInv, ProtocolInv, ContentInv, [Next]_vars
    PROVE  GotInv'
<1> USE DEF ContentInv
<1>1. ASSUME UNCHANGED <<sent, got, m_recv_idx, m_use_redis_data_version>> PROVE GotInv'
  BY <1>1 DEF GotInv, GotAt
<1>2. ASSUME NEW p \in Party, SendCall(p) PROVE GotInv'
  <2>1. PICK m \in Msg : sent' = [sent EXCEPT ![p] = Append(@, m)]
    BY <1>2 DEF SendCall
  <2>2. UNCHANGED <<got, m_recv_idx, m_use_redis_data_version>>
    BY <1>2 DEF SendCall, client, version
  <2>3. /\ sent'[p] = Append(sent[p], m) /\ sent[p] \in Seq(Msg)
        /\ \A q \in Party : q # p => sent'[q] = sent[q]
    BY <2>1 DEF TypeOK
  <2>4. \A q \in Party : q # p => GotAt(q)'
    BY <2>2, <2>3 DEF GotInv, GotAt
  <2>5. GotAt(p)'
    <3> SUFFICES ASSUME m_use_redis_data_version[Peer[p]] # v1
                 PROVE  /\ Len(got[Peer[p]]) <= Len(sent'[p])
                        /\ \A i \in DOMAIN got[Peer[p]] : got[Peer[p]][i] = sent'[p][i]
      BY <2>2 DEF GotInv, GotAt
    <3> DEFINE g == got[Peer[p]]
    <3>1. /\ Len(g) <= Len(sent[p]) /\ \A i \in DOMAIN g : g[i] = sent[p][i]
      BY DEF GotInv, GotAt
    <3>2. DOMAIN g = 1 .. Len(g) /\ Len(g) \in Nat
      <4>1. g \in Seq(Msg \cup {NoMsg, Garbled})
        BY OnePeer DEF TypeOK
      <4>. QED BY <4>1
    <3>3. /\ Len(sent'[p]) = Len(sent[p]) + 1 /\ Len(sent[p]) \in Nat
          /\ \A i \in 1 .. Len(sent[p]) : sent'[p][i] = sent[p][i]
      BY <2>3, AppendFacts
    <3> HIDE DEF g
    <3>4. Len(g) <= Len(sent'[p])
      BY <3>1, <3>2, <3>3
    <3>5. \A i \in DOMAIN g : i \in 1 .. Len(sent[p])
      BY <3>1, <3>2, <3>3
    <3>. QED BY <3>1, <3>3, <3>4, <3>5 DEF g
  <2>. QED BY <2>4, <2>5 DEF GotInv
<1>3. ASSUME NEW p \in Party, RecvIgnore(p) \/ RecvGap(p) PROVE GotInv'
  <2>1. Pop(p) /\ DataVersion(p) = v2 /\ UNCHANGED <<m_recv_idx, got, sent>>
    BY <1>3 DEF RecvIgnore, RecvGap, Pop
  <2>2. m_use_redis_data_version[p] # v1
    BY <2>1 DEF DataVersion, v1, v2, not_inited
  <2>3. \A q \in Party : q # p => m_use_redis_data_version'[q] = m_use_redis_data_version[q]
    BY <2>1, PopEffect
  <2>. QED BY <2>1, <2>2, <2>3, OnePeer DEF GotInv, GotAt
<1>4. ASSUME NEW p \in Party, RecvDeliver(p) PROVE GotInv'
  <2> DEFINE o == Peer[p]
  <2>0. o \in Party /\ Peer[o] = p /\ \A q \in Party : q # o => Peer[q] \in Party /\ Peer[q] # p
    BY PeerAssumption
  <2>1. Pop(p) /\ UNCHANGED sent
    BY <1>4 DEF RecvDeliver, Pop
  <2>2. /\ m_use_redis_data_version'[p] = DataVersion(p)
        /\ \A q \in Party : q # p => m_use_redis_data_version'[q] = m_use_redis_data_version[q]
    BY <2>1, PopEffect
  <2>3. ASSUME NEW q \in Party, q # p PROVE got'[q] = got[q] /\ m_recv_idx'[q] = m_recv_idx[q]
    BY <1>4, <2>3 DEF RecvDeliver, TypeOK
  <2>4. \A q \in Party : q # o => GotAt(q)'
    BY <2>0, <2>1, <2>2, <2>3 DEF GotInv, GotAt
  <2>5. CASE DataVersion(p) = v1
    BY <2>0, <2>2, <2>4, <2>5 DEF GotInv, GotAt
  <2>6. CASE DataVersion(p) = v2
    <3> DEFINE g == got[p]
    <3>1. /\ Len(g) < Len(sent[o]) /\ got'[p] = Append(g, sent[o][Len(g) + 1])
          /\ m_recv_idx'[p] = m_recv_idx[p] + 1
      BY <1>4, <2>6, DeliverEffect DEF TypeOK
    <3>2. m_use_redis_data_version[p] # v1
      BY <2>6 DEF DataVersion, v1, v2, not_inited
    <3>3. /\ Len(g) = m_recv_idx[p] + 1 /\ \A i \in DOMAIN g : g[i] = sent[o][i]
      BY <2>0, <3>2 DEF GotInv, GotAt
    <3>4. /\ g \in Seq(Msg \cup {NoMsg, Garbled}) /\ sent[o] \in Seq(Msg)
          /\ Len(g) \in Nat /\ Len(sent[o]) \in Nat
      <4>1. g \in Seq(Msg \cup {NoMsg, Garbled}) /\ sent[o] \in Seq(Msg)
        BY <2>0 DEF TypeOK
      <4>. QED BY <4>1
    <3>5. sent[o][Len(g) + 1] \in Msg \cup {NoMsg, Garbled}
      BY <3>1, <3>4
    <3>6. /\ Len(got'[p]) = Len(g) + 1 /\ DOMAIN got'[p] = 1 .. Len(g) + 1
          /\ \A i \in 1 .. Len(g) : got'[p][i] = g[i]
          /\ got'[p][Len(g) + 1] = sent[o][Len(g) + 1] /\ DOMAIN g = 1 .. Len(g)
      BY <3>1, <3>4, <3>5, AppendFacts
    <3> HIDE DEF g
    <3>7. \A i \in DOMAIN got'[p] : got'[p][i] = sent[o][i]
      <4>1. \A i \in DOMAIN got'[p] : i \in DOMAIN g \/ i = Len(g) + 1
        BY <3>4, <3>6
      <4>. QED BY <3>3, <3>6, <4>1
    <3>8. Len(got'[p]) = m_recv_idx'[p] + 1 /\ Len(got'[p]) <= Len(sent[o])
      BY <3>1, <3>3, <3>4, <3>6
    <3>9. GotAt(o)'
      BY <2>0, <2>1, <3>7, <3>8 DEF GotAt
    <3>. QED BY <2>4, <3>9 DEF GotInv
  <2>7. DataVersion(p) \in {v1, v2}
    <3>1. m_use_redis_data_version[p] \in {not_inited, v1, v2}
      BY DEF TypeOK
    <3>. QED BY <3>1 DEF DataVersion
  <2>. QED BY <2>5, <2>6, <2>7
<1>5. ASSUME NEW p \in Party, Caller(p) \/ RecvThread(p) \/ Server(p) \/ Fault(p) PROVE GotInv'
  BY <1>1, <1>2, <1>3, <1>4, <1>5, HistorySteps, CountSteps
<1>6. CASE UNCHANGED vars
  BY <1>1, <1>6 DEF vars, client, version, history
<1>. QED BY <1>5, <1>6 DEF Next, Stopped

-----------------------------------------------------------------------------
(* The channel delivers *)

\* Whatever redis loses
DeliveryInv == TypeOK /\ ControlInv /\ AckInv /\ ProtocolInv /\ ContentInv

\* Nothing has been sent or received.
LEMMA ContentInit == Init => ContentInv
<1> SUFFICES ASSUME Init PROVE ContentInv
  OBVIOUS
<1>1. ASSUME NEW p \in Party PROVE SentAt(p) /\ FlushedAt(p)
  <2>1. /\ pc[p] = "idle" /\ at[p] = 1 /\ ret[p] = "ok" /\ m_seq[p] = 0 /\ sent[p] = <<>>
        /\ m_notack_queue[p] = <<>>
    BY DEF Init, Each
  <2>2. Len(sent[p]) = 0
    BY <2>1
  <2>. QED BY <2>1, <2>2 DEF SentAt, FlushedAt, Pending
<1>2. ASSUME NEW p \in Party PROVE BodyAt(p) /\ GotAt(p)
  <2>1. /\ m_notack_queue[p] = <<>> /\ redis[Peer[p]] = <<>> /\ \A k \in Stream : up[p][k] = <<>>
        /\ got[Peer[p]] = <<>> /\ sent[p] = <<>> /\ m_recv_idx[Peer[p]] = -1
    BY OnePeer DEF Init, Each
  <2>2. Len(got[Peer[p]]) = 0 /\ Len(sent[p]) = 0 /\ DOMAIN got[Peer[p]] = {}
    BY <2>1
  <2>. QED BY <2>1, <2>2 DEF BodyAt, Carries, GotAt
<1>. QED BY <1>1, <1>2 DEF ContentInv, CallsInv, BodyInv, GotInv

\* The invariant of the contents holds.
LEMMA DeliveryHolds ==
    ASSUME NumberedServers
    PROVE  Spec /\ []TriesLeft => []DeliveryInv
<1>1. Init => DeliveryInv
  BY InitHolds, AckInit, OrderInit, ContentInit DEF DeliveryInv
<1>2. DeliveryInv /\ TriesLeft /\ [Next]_vars => DeliveryInv'
  <2> SUFFICES ASSUME DeliveryInv, TriesLeft, [Next]_vars PROVE DeliveryInv'
    OBVIOUS
  <2>1. TypeOK' /\ ControlInv' /\ AckInv' /\ ProtocolInv'
    BY StepHolds, AckStep, ProtocolStep DEF DeliveryInv
  <2>2. CallsInv' /\ BodyInv' /\ GotInv'
    BY CallsStep, BodyStep, GotStep DEF DeliveryInv, ContentInv
  <2>. QED BY <2>1, <2>2 DEF DeliveryInv, ContentInv
<1>. QED BY <1>1, <1>2, PTL DEF Spec

\* What recv has returned in the numbered format is the beginning of what the
\* peer has sent.
LEMMA GotPrefix ==
    ASSUME TypeOK, GotInv, NEW p \in Party, m_use_redis_data_version[p] # v1
    PROVE  IsPrefix(got[p], sent[Peer[p]])
<1> DEFINE g == got[p]
           s == sent[Peer[p]]
           n == Len(g)
<1>1. Peer[p] \in Party /\ Peer[Peer[p]] = p
  BY OnePeer
<1>2. g \in Seq(Msg \cup {NoMsg, Garbled}) /\ s \in Seq(Msg)
  BY <1>1 DEF TypeOK
<1>3. n <= Len(s) /\ \A i \in DOMAIN g : g[i] = s[i]
  BY <1>1 DEF GotInv, GotAt
<1> HIDE DEF g, s
<1>4. n \in Nat /\ Len(s) \in Nat /\ DOMAIN g = 1 .. n
  BY <1>2
<1> HIDE DEF n
<1>5. n \in 0 .. Len(g) /\ n \in 0 .. Len(s)
  BY <1>3, <1>4 DEF n
<1>6. /\ SubSeq(g, 1, n) \in Seq(Msg \cup {NoMsg, Garbled}) /\ Len(SubSeq(g, 1, n)) = n
      /\ \A i \in 1 .. n : SubSeq(g, 1, n)[i] = g[i]
  BY <1>2, <1>5, PrefixFacts
<1>7. /\ SubSeq(s, 1, n) \in Seq(Msg) /\ Len(SubSeq(s, 1, n)) = n
      /\ \A i \in 1 .. n : SubSeq(s, 1, n)[i] = s[i]
  BY <1>2, <1>5, PrefixFacts
<1>8. SubSeq(g, 1, n) = SubSeq(s, 1, n)
  BY <1>3, <1>4, <1>6, <1>7
<1>. QED BY <1>3, <1>8 DEF IsPrefix, g, s, n

\* Whatever redis loses and however often streams break: recv returns the
\* peer's messages from the first one on, in order and without a hole, as long
\* as the format of the list was recognised.  Retries must not run out: the
\* last iteration of recv's loop returns a string nobody sent.
THEOREM NeverSilentlyLost ==
    ASSUME NumberedServers
    PROVE  Spec /\ []TriesLeft => []NoSilentLoss
<1>1. ASSUME DeliveryInv PROVE NoSilentLoss
  BY <1>1, GotPrefix DEF NoSilentLoss, DeliveryInv, ContentInv, v1, v2
<1>. QED BY <1>1, DeliveryHolds, PTL

\* Where redis loses nothing, what recv has returned is the beginning of what
\* the peer has sent.
THEOREM DeliveredInOrder ==
    ASSUME ~RedisMayLose, NumberedServers
    PROVE  Spec /\ []TriesLeft => []InOrder
<1>1. ASSUME NumbersInv, DeliveryInv PROVE InOrder
  <2> SUFFICES ASSUME NEW p \in Party PROVE IsPrefix(got[Peer[p]], sent[p])
    BY DEF InOrder
  <2>1. Peer[p] \in Party /\ Peer[Peer[p]] = p
    BY OnePeer
  <2>2. m_use_redis_data_version[Peer[p]] # v1
    BY <1>1, <2>1 DEF NumbersInv, FormatInv, FormatAt
  <2>3. IsPrefix(got[Peer[p]], sent[Peer[Peer[p]]])
    BY <1>1, <2>1, <2>2, GotPrefix DEF DeliveryInv, ContentInv
  <2>. QED BY <2>1, <2>3
<1>. QED BY <1>1, NumbersHold, DeliveryHolds, PTL

\* When flush has returned true, all that was sent before has reached the
\* peer's list: the queue is empty, and nothing leaves it too early.
THEOREM FlushMeansDelivered ==
    ASSUME ~RedisMayLose, NumberedServers
    PROVE  Spec /\ []TriesLeft => []FlushDelivers
<1>1. ASSUME NumbersInv, DeliveryInv PROVE FlushDelivers
  <2> SUFFICES ASSUME NEW p \in Party,
                      pc[p] = "idle", at[p] \in 2 .. Len(Script[p]) + 1,
                      Script[p][at[p] - 1] = "flush", ret[p] = "ok",
                      NEW s \in 0 .. Len(sent[p]) - 1
               PROVE  s \in Reached(Peer[p])
    BY DEF FlushDelivers
  <2>1. SentAt(p) /\ FlushedAt(p)
    BY <1>1 DEF DeliveryInv, ContentInv, CallsInv
  <2>2. m_notack_queue[p] = <<>> /\ Len(sent[p]) = m_seq[p]
    BY <2>1 DEF FlushedAt, SentAt, Pending
  <2>3. s \in 0 .. m_seq[p] - 1 /\ DOMAIN m_notack_queue[p] = {}
    BY <2>2
  <2>4. NothingLost
    BY <1>1, LostNothing
  <2>. QED BY <2>3, <2>4 DEF NothingLost
<1>. QED BY <1>1, NumbersHold, DeliveryHolds, PTL

\* The channel implements the reliable FIFO: send is Fifo!Send, the delivery
\* of a packet Fifo!Recv, and every other step of the clients, their threads,
\* the servers and the network is invisible.
THEOREM Refinement ==
    ASSUME ~RedisMayLose, NumberedServers
    PROVE  Spec /\ []TriesLeft => IsFifo
<1>1. Init => Fifo!Init
  BY DEF Init, Fifo!Init, Each
<1>2. ASSUME NumbersInv, DeliveryInv, TriesLeft, [Next]_vars PROVE [Fifo!Next]_<<sent, got>>
  <2> USE DEF NumbersInv, DeliveryInv, ContentInv
  <2>1. ASSUME NEW p \in Party, SendCall(p) PROVE Fifo!Send(p)
    BY <2>1 DEF SendCall, Fifo!Send
  <2>2. ASSUME NEW p \in Party, RecvDeliver(p) PROVE Fifo!Recv(p)
    <3>1. DataVersion(p) = v2
      <4>1. FormatAt(p) /\ redis[p] # <<>> /\ m_use_redis_data_version[p] \in {not_inited, v1, v2}
        BY <1>2, <2>2 DEF FormatInv, RecvDeliver, Pop, TypeOK
      <4>. QED BY <4>1 DEF FormatAt, DataVersion
    <3>2. /\ Len(got[p]) < Len(sent[Peer[p]])
          /\ got' = [got EXCEPT ![p] = Append(@, sent[Peer[p]][Len(got[p]) + 1])]
          /\ UNCHANGED sent
      BY <1>2, <2>2, <3>1, DeliverEffect
    <3>. QED BY <3>2 DEF Fifo!Recv
  <2>3. ASSUME NEW p \in Party, Caller(p) \/ RecvThread(p) \/ Server(p) \/ Fault(p)
        PROVE  [Fifo!Next]_<<sent, got>>
    <3>1. CASE SendCall(p) \/ RecvDeliver(p)
      BY <2>1, <2>2, <3>1 DEF Fifo!Next
    <3>2. CASE ~SendCall(p) /\ ~RecvDeliver(p)
      BY <1>2, <2>3, <3>2, HistorySteps
    <3>. QED BY <3>1, <3>2
  <2>4. CASE UNCHANGED vars
    BY <2>4 DEF vars, history
  <2>. QED BY <1>2, <2>3, <2>4 DEF Next, Stopped
<1>. QED BY <1>1, <1>2, NumbersHold, DeliveryHolds, PTL DEF Spec, IsFifo, Fifo!Spec

\* In particular when a party's streams break fewer than MaxRetry times.
THEOREM DeliversWithFewBreaks ==
    ASSUME ~RedisMayLose, NumberedServers, EnoughTries
    PROVE  Spec => []InOrder /\ []FlushDelivers /\ IsFifo
BY RetriesLast, DeliveredInOrder, FlushMeansDelivered, Refinement, PTL
=============================================================================
