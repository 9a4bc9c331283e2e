--------------------------- MODULE RpcAckProofs ---------------------------
(***************************************************************************)
(* Theorems about the acknowledgements of RpcChannel, for any parties,     *)
(* scripts, server versions, windows and bounds, whatever breaks or is     *)
(* lost.  PopFront does not look at the number that is acknowledged:       *)
(* AckInv says why it need not.  What is queued, acknowledged and under    *)
(* way on the current stream are consecutive numbers.                      *)
(***************************************************************************)
EXTENDS RpcChannelProofs

-----------------------------------------------------------------------------
(* The numbers of the packets of p *)

\* How many packets wait to be acknowledged, the one between m_seq++ and
\* emplace_back included, and how many acknowledgements the thread holds
Open(p)  == IF pc[p] = "wrote" THEN Len(m_notack_queue[p]) + 1 ELSE Len(m_notack_queue[p])
Taken(p) == IF tpc[p] \in {"acked", "pop"} THEN 1 ELSE 0

\* The lowest number not removed from the queue, and the lowest one the server
\* has not acknowledged as far as the client can still hear
First(p) == m_seq[p] - Open(p)
Acked(p) == First(p) + Taken(p) + Len(down[p])

\* What has been written to the current stream
Written(p) == IF pc[p] = "resend" THEN First(p) + resent[p] ELSE m_seq[p]

-----------------------------------------------------------------------------
(* The invariant *)

\* The queue, the acknowledgement in the thread's hands and those under way
NumberInv(p) ==
    /\ First(p) >= 0 /\ Acked(p) <= m_seq[p]
    /\ \A i \in DOMAIN m_notack_queue[p] : m_notack_queue[p][i].seq = First(p) + i - 1
    /\ Taken(p) = 1 => resp[p] = First(p)
    /\ \A i \in DOMAIN down[p] : down[p][i] = First(p) + Taken(p) + i - 1

\* What the server has not read of an open stream goes on where the
\* acknowledgements end, up to what was written last.
UpInv(p) ==
    stream[p] = "open" /\ m_use_rpc_version[p] = v2 =>
        /\ tpc[p] \in {"new", "read", "acked", "pop"}
        /\ Acked(p) + Len(up[p][cur[p]]) = Written(p)
        /\ \A i \in DOMAIN up[p][cur[p]] : up[p][cur[p]][i].seq = Acked(p) + i - 1

\* Streams not opened yet, clients that send nothing, and the join of a thread
FreshInv(p) ==
    /\ \A k \in Stream : k > cur[p] => up[p][k] = <<>>
    /\ m_use_rpc_version[p] # v2 =>
          m_seq[p] = 0 /\ m_notack_queue[p] = <<>> /\ down[p] = <<>> /\ tpc[p] = "none"
    /\ pc[p] = "resend" => m_use_rpc_version[p] = v2 /\ resent[p] <= Len(m_notack_queue[p])
    /\ pc[p] = "join" => tpc[p] \notin {"none", "new"}

\* What the two windows and the thread hold bounds what is not acknowledged.
WindowInv(p) ==
    /\ \A k \in Stream : Len(up[p][k]) <= Window
    /\ Len(down[p]) <= Window
    /\ Open(p) <= 2 * Window + 1

AckAt(p) == NumberInv(p) /\ UpInv(p) /\ FreshInv(p) /\ WindowInv(p)
AckInv == \A p \in Party : AckAt(p)

\* What the types say of one party
LEMMA PartyTypes ==
    ASSUME TypeOK, NEW p \in Party
    PROVE  /\ m_seq[p] \in Nat /\ resent[p] \in Nat /\ resp[p] \in Nat
           /\ m_notack_queue[p] \in Seq(Packet) /\ down[p] \in Seq(Nat)
           /\ Len(m_notack_queue[p]) \in Nat /\ Len(down[p]) \in Nat
           /\ Open(p) \in Nat /\ Taken(p) \in 0 .. 1 /\ cur[p] \in 0 .. MaxBreaks + 1
           /\ up[p] \in [Stream -> Seq(Packet)]
           /\ First(p) \in Int /\ Acked(p) \in Int /\ Written(p) \in Int
<1>1. /\ m_seq[p] \in Nat /\ resent[p] \in Nat /\ resp[p] \in Nat
      /\ m_notack_queue[p] \in Seq(Packet) /\ down[p] \in Seq(Nat)
      /\ up[p] \in [Stream -> Seq(Packet)] /\ cur[p] \in 0 .. MaxBreaks + 1
  BY DEF TypeOK
<1>2. Len(m_notack_queue[p]) \in Nat /\ Len(down[p]) \in Nat
  BY <1>1
<1>3. Open(p) \in Nat /\ Taken(p) \in 0 .. 1
  BY <1>2 DEF Open, Taken
<1>4. First(p) \in Int
  BY <1>1, <1>3 DEF First
<1>5. Acked(p) \in Int
  BY <1>2, <1>3, <1>4 DEF Acked
<1>6. Written(p) \in Int
  BY <1>1, <1>4 DEF Written
<1>. QED BY <1>1, <1>2, <1>3, <1>4, <1>5, <1>6

\* The numbers among them
LEMMA PartyNumbers ==
    ASSUME TypeOK, NEW p \in Party
    PROVE  /\ m_seq[p] \in Nat /\ Open(p) \in Nat /\ Taken(p) \in Nat /\ Len(down[p]) \in Nat
           /\ First(p) \in Int
<1>1. m_seq[p] \in Nat /\ Open(p) \in Nat /\ Len(down[p]) \in Nat /\ First(p) \in Int
  BY PartyTypes
<1>2. Taken(p) \in 0 .. 1
  BY PartyTypes
<1>3. Taken(p) \in Nat
  BY <1>2
<1>. QED BY <1>1, <1>3

-----------------------------------------------------------------------------
(* Steps that leave the numbers alone *)

Phase(p) == IF pc[p] \in {"wrote", "resend", "join"} THEN pc[p] ELSE "other"

\* What AckAt(p) depends on
AckState(p) ==
    <<m_use_rpc_version[p], m_seq[p], m_notack_queue[p], resent[p], tpc[p], resp[p],
      stream[p], cur[p], up[p], down[p], Phase(p)>>

\* A step of p acknowledges nothing the server has not, and no other party's
\* numbers change.
Keeps(p) ==
    /\ Acked(p)' <= Acked(p)
    /\ \A q \in Party : q # p => UNCHANGED AckState(q)

\* A step that leaves the acknowledgement state of p alone preserves AckAt(p).
LEMMA AckStutters ==
    ASSUME NEW p \in Party, AckAt(p), UNCHANGED AckState(p)
    PROVE  AckAt(p)' /\ Acked(p)' = Acked(p)
<1>1. /\ pc'[p] = "wrote" <=> pc[p] = "wrote"
      /\ pc'[p] = "resend" <=> pc[p] = "resend"
      /\ pc'[p] = "join" <=> pc[p] = "join"
  BY DEF AckState, Phase
<1>2. First(p)' = First(p) /\ Taken(p)' = Taken(p) /\ Open(p)' = Open(p)
  BY <1>1 DEF AckState, First, Open, Taken
<1>3. Acked(p)' = Acked(p) /\ Written(p)' = Written(p)
  BY <1>1, <1>2 DEF AckState, Acked, Written
<1>4. NumberInv(p)'
  BY <1>2, <1>3 DEF AckAt, AckState, NumberInv
<1>5. UpInv(p)'
  BY <1>3 DEF AckAt, AckState, UpInv
<1>6. FreshInv(p)' /\ WindowInv(p)'
  BY <1>1, <1>2 DEF AckAt, AckState, FreshInv, WindowInv
<1>. QED BY <1>3, <1>4, <1>5, <1>6 DEF AckAt

\* A step of p has to be checked for p only.
LEMMA AckFrame ==
    ASSUME AckInv, NEW p \in Party, AckAt(p)',
           \A q \in Party : q # p => UNCHANGED AckState(q)
    PROVE  AckInv'
BY AckStutters DEF AckInv

\* Many steps of p leave Acked(p) as it is.
LEMMA KeepFrame ==
    ASSUME TypeOK, AckInv, NEW p \in Party, AckAt(p)', Acked(p)' = Acked(p),
           \A q \in Party : q # p => UNCHANGED AckState(q)
    PROVE  AckInv' /\ Keeps(p)
<1>1. Acked(p) \in Int
  BY PartyTypes
<1>. QED BY <1>1, AckFrame DEF Keeps

\* The caller's steps that write nothing, and the end of a handler: calls,
\* failures, everything recv does with the list, flush.
LEMMA CalmSteps ==
    ASSUME TypeOK, ControlInv, AckInv, NEW p \in Party,
           \/ SendCall(p) \/ OtherCall(p) \/ SendNullSender(p) \/ SendFails(p)
           \/ InitRpcVersionFails(p) \/ RecvDeliver(p) \/ RecvIgnore(p) \/ RecvGap(p)
           \/ RecvNeedsResend(p) \/ RedisLoses(p) \/ RecvTimesOut(p)
           \/ (\E r \in {"ok", "false"} : FlushReturns(p, r))
           \/ FlushNeedsResend(p) \/ CloseFlushed(p) \/ ReconnectFails(p)
           \/ (\E k \in Stream : ServerEnd(p, k))
    PROVE  \A q \in Party : UNCHANGED AckState(q)
<1> USE DEF AckState, Phase, call, client, version, thread, net, link, list, history, CallType
<1>0. CallType
  BY TypeParts
<1>1. CASE SendCall(p) \/ SendNullSender(p) \/ SendFails(p)
  BY <1>0, <1>1 DEF SendCall, SendNullSender, SendFails, Goto
<1>2. CASE OtherCall(p)
  <2>1. Op(p) \in {"send", "recv", "flush", "close"}
    BY <1>0, OpType
  <2>. QED BY <1>0, <1>2, <2>1 DEF OtherCall, Goto
<1>3. CASE InitRpcVersionFails(p) \/ RecvTimesOut(p)
  BY <1>0, <1>3 DEF InitRpcVersionFails, RecvTimesOut, Throw, Leave
<1>4. CASE RecvDeliver(p) \/ RecvGap(p)
  BY <1>0, <1>4 DEF RecvDeliver, RecvGap, Pop, Throw, Return, Leave
<1>5. CASE RecvIgnore(p) \/ RedisLoses(p)
  BY <1>0, <1>5 DEF RecvIgnore, RedisLoses, Pop
<1>6. CASE RecvNeedsResend(p) \/ FlushNeedsResend(p) \/ CloseFlushed(p)
  BY <1>0, <1>6 DEF RecvNeedsResend, FlushNeedsResend, CloseFlushed, Goto
<1>7. CASE \E r \in {"ok", "false"} : FlushReturns(p, r)
  BY <1>0, <1>7 DEF FlushReturns, Return, Leave
<1>8. CASE ReconnectFails(p)
  BY <1>0, <1>8 DEF ReconnectFails
<1>9. CASE \E k \in Stream : ServerEnd(p, k)
  BY <1>0, <1>9 DEF ServerEnd
<1>. QED BY <1>1, <1>2, <1>3, <1>4, <1>5, <1>6, <1>7, <1>8, <1>9

\* So they preserve the invariant.
LEMMA CalmAck ==
    ASSUME AckInv, \A q \in Party : UNCHANGED AckState(q)
    PROVE  AckInv'
BY AckStutters DEF AckInv

-----------------------------------------------------------------------------
(* Sequences: what the provers have to be told *)

\* emplace_back, Write and an acknowledgement from the server
LEMMA AppendFacts ==
    ASSUME NEW S, NEW s \in Seq(S), NEW e \in S
    PROVE  /\ Append(s, e) \in Seq(S) /\ Len(Append(s, e)) = Len(s) + 1
           /\ \A i \in 1 .. Len(s) : Append(s, e)[i] = s[i]
           /\ Append(s, e)[Len(s) + 1] = e
           /\ DOMAIN Append(s, e) = 1 .. Len(s) + 1 /\ DOMAIN s = 1 .. Len(s)
           /\ Append(s, e) # <<>> /\ Len(s) \in Nat
OBVIOUS

\* pop_front, Read, and the server's handler
LEMMA TailFacts ==
    ASSUME NEW S, NEW s \in Seq(S), s # <<>>
    PROVE  /\ Tail(s) \in Seq(S) /\ Len(Tail(s)) = Len(s) - 1 /\ Head(s) = s[1]
           /\ \A i \in 1 .. Len(s) - 1 : Tail(s)[i] = s[i + 1]
           /\ DOMAIN Tail(s) = 1 .. Len(s) - 1 /\ DOMAIN s = 1 .. Len(s)
           /\ Len(s) \in Nat \ {0} /\ s[1] \in S
OBVIOUS

\* What is left of a stream that broke
LEMMA PrefixFacts ==
    ASSUME NEW S, NEW s \in Seq(S), NEW n \in 0 .. Len(s)
    PROVE  /\ SubSeq(s, 1, n) \in Seq(S) /\ Len(SubSeq(s, 1, n)) = n
           /\ \A i \in 1 .. n : SubSeq(s, 1, n)[i] = s[i]
           /\ DOMAIN SubSeq(s, 1, n) = 1 .. n
OBVIOUS

\* The current stream is one of the streams.
LEMMA CurrentStream ==
    ASSUME TypeOK, ControlInv, NEW p \in Party, stream[p] = "open" \/ stream[p] = "dead"
    PROVE  cur[p] \in Stream /\ up[p][cur[p]] \in Seq(Packet)
<1>1. cur[p] \in 0 .. MaxBreaks + 1 /\ cur[p] >= 1
  BY PartyTypes, BoundAssumption DEF ControlInv, StreamInv, TypeOK
<1>2. cur[p] \in Stream
  BY <1>1, BoundAssumption DEF Stream
<1>. QED BY <1>2, PartyTypes

-----------------------------------------------------------------------------
(* The caller *)

\* The first Send opens a stream, and a retry opens the next one.
LEMMA OpenAck ==
    ASSUME TypeOK, ControlInv, AckInv, NEW p \in Party, InitSender(p) \/ Reconnect(p)
    PROVE  AckInv' /\ Keeps(p)
<1> USE DEF call, client, version, thread, net, link, list, history
<1>1. TypeOK'
  BY SendType, ReconnectType
<1>2. /\ stream'[p] = "open" /\ cur'[p] = cur[p] + 1 /\ down'[p] = <<>>
      /\ up' = up /\ m_seq' = m_seq /\ m_notack_queue' = m_notack_queue
      /\ \A q \in Party : q # p => UNCHANGED AckState(q)
  <2>1. CASE InitSender(p)
    BY <2>1 DEF InitSender, OpenStream, AckState, Phase, TypeOK
  <2>2. CASE Reconnect(p)
    BY <2>2 DEF Reconnect, OpenStream, Goto, AckState, Phase, TypeOK
  <2>. QED BY <2>1, <2>2
<1>3. pc'[p] # "wrote" /\ pc[p] # "wrote" /\ pc'[p] # "join"
  BY DEF InitSender, Reconnect, Goto, TypeOK
<1>4. /\ tpc'[p] = IF m_use_rpc_version'[p] = v2 THEN "new" ELSE "none"
      /\ m_use_rpc_version[p] # not_inited => m_use_rpc_version'[p] = v2
      /\ m_use_rpc_version'[p] = v2 \/ m_use_rpc_version[p] # v2
  BY DEF InitSender, Reconnect, OpenStream, RpcVersion, TypeOK, not_inited, v1, v2
<1>5. Open(p)' = Open(p) /\ First(p)' = First(p) /\ Taken(p)' = 0 /\ Len(down'[p]) = 0
  BY <1>2, <1>3, <1>4 DEF Open, First, Taken
<1>6. /\ Acked(p)' = First(p) /\ First(p) \in Int /\ First(p) >= 0 /\ Open(p) \in Nat
      /\ First(p) <= m_seq[p] /\ First(p) = m_seq[p] - Len(m_notack_queue[p])
  <2>1. First(p) \in Int /\ m_seq[p] \in Nat /\ Open(p) \in Nat
    BY PartyTypes
  <2>2. First(p) >= 0 /\ First(p) <= m_seq[p]
    BY <2>1 DEF AckInv, AckAt, NumberInv, First
  <2>. QED BY <1>3, <1>5, <2>1, <2>2 DEF Acked, First, Open
<1>7. NumberInv(p)'
  BY <1>2, <1>5, <1>6 DEF AckInv, AckAt, NumberInv
<1>8. up'[p][cur'[p]] = <<>>
  <2>1. cur[p] + 1 \in Stream
    <3>1. cur'[p] \in 0 .. MaxBreaks + 1
      BY <1>1 DEF TypeOK
    <3>. QED BY <1>2, <3>1, PartyTypes, BoundAssumption DEF Stream
  <2>. QED BY <1>2, <2>1, PartyTypes DEF AckInv, AckAt, FreshInv
<1>9. Written(p)' = First(p)
  <2>1. CASE InitSender(p)
    <3>1. m_seq[p] = 0 /\ m_notack_queue[p] = <<>> /\ pc'[p] = "send"
      BY <2>1 DEF InitSender, AckInv, AckAt, FreshInv, not_inited, v2
    <3>2. Len(m_notack_queue[p]) = 0
      BY <3>1
    <3>3. Written(p)' = m_seq'[p]
      BY <3>1 DEF Written
    <3>. QED BY <1>2, <1>6, <3>1, <3>2, <3>3
  <2>2. CASE Reconnect(p)
    <3>1. pc'[p] = "resend" /\ resent'[p] = 0
      BY <2>2 DEF Reconnect, Goto, TypeOK
    <3>. QED BY <1>5, <1>6, <3>1 DEF Written
  <2>. QED BY <2>1, <2>2
<1>10. UpInv(p)'
  BY <1>4, <1>6, <1>8, <1>9 DEF UpInv
<1>11. FreshInv(p)'
  <2>1. \A k \in Stream : k > cur'[p] => up'[p][k] = <<>>
    <3>1. cur[p] \in Nat
      BY PartyTypes
    <3>2. \A k \in Stream : k > cur'[p] => k > cur[p]
      BY <1>2, <3>1 DEF Stream
    <3>. QED BY <1>2, <3>2 DEF AckInv, AckAt, FreshInv
  <2>2. pc'[p] = "resend" => m_use_rpc_version'[p] = v2 /\ resent'[p] = 0
    BY DEF InitSender, Reconnect, Goto, TypeOK
  <2>3. Len(m_notack_queue[p]) >= 0
    BY PartyTypes
  <2>. QED BY <1>2, <1>3, <1>4, <2>1, <2>2, <2>3 DEF AckInv, AckAt, FreshInv
<1>12. WindowInv(p)'
  BY <1>2, <1>5, BoundAssumption DEF AckInv, AckAt, WindowInv
<1>13. Acked(p)' <= Acked(p)
  <2> DEFINE d == Len(down[p])
  <2>1. Acked(p) = First(p) + Taken(p) + d
    BY DEF Acked
  <2>2. Taken(p) \in Nat /\ d \in Nat /\ First(p) \in Int /\ Acked(p)' = First(p)
    BY <1>6, PartyTypes
  <2> HIDE DEF d
  <2>. QED BY <2>1, <2>2
<1>. QED BY <1>2, <1>7, <1>10, <1>11, <1>12, <1>13, AckFrame DEF AckAt, Keeps

\* Write appends to the current stream and to no other.
LEMMA WriteEffect ==
    ASSUME TypeOK, ControlInv, AckInv, NEW p \in Party, NEW packet \in Packet,
           stream[p] = "open", Room(p), Write(p, packet)
    PROVE  /\ up'[p][cur[p]] = Append(up[p][cur[p]], packet)
           /\ \A k \in Stream : k # cur[p] => up'[p][k] = up[p][k]
           /\ \A q \in Party : q # p => up'[q] = up[q]
           /\ \A k \in Stream : k > cur[p] => up'[p][k] = <<>>
           /\ \A k \in Stream : Len(up'[p][k]) <= Window
<1>1. cur[p] \in Stream /\ up[p][cur[p]] \in Seq(Packet) /\ up[p] \in [Stream -> Seq(Packet)]
  BY CurrentStream, PartyTypes
<1>2. /\ up'[p][cur[p]] = Append(up[p][cur[p]], packet)
      /\ \A k \in Stream : k # cur[p] => up'[p][k] = up[p][k]
      /\ \A q \in Party : q # p => up'[q] = up[q]
  BY <1>1 DEF Write, TypeOK
<1>3. \A k \in Stream : k > cur[p] => up'[p][k] = <<>>
  <2>1. \A k \in Stream : k > cur[p] => k # cur[p]
    BY <1>1 DEF Stream
  <2>. QED BY <1>2, <2>1 DEF AckInv, AckAt, FreshInv
<1>4. Len(up'[p][cur[p]]) <= Window
  <2>1. Len(up'[p][cur[p]]) = Len(up[p][cur[p]]) + 1 /\ Len(up[p][cur[p]]) \in Nat
    BY <1>1, <1>2, AppendFacts
  <2>. QED BY <2>1, BoundAssumption DEF Room
<1>5. \A k \in Stream : k # cur[p] => Len(up'[p][k]) <= Window
  BY <1>2 DEF AckInv, AckAt, WindowInv
<1>. QED BY <1>2, <1>3, <1>4, <1>5

\* The invariants of an open stream after a Write of the next number
LEMMA WriteUp ==
    ASSUME TypeOK, ControlInv, AckInv, NEW p \in Party, NEW packet \in Packet,
           stream[p] = "open", m_use_rpc_version[p] = v2, Room(p), Write(p, packet),
           packet.seq = Written(p), Written(p)' = Written(p) + 1, Acked(p)' = Acked(p),
           UNCHANGED <<stream, m_use_rpc_version, tpc, cur>>
    PROVE  UpInv(p)'
<1> DEFINE u == up[p][cur[p]]
<1>1. u \in Seq(Packet) /\ up'[p][cur[p]] = Append(u, packet) /\ Acked(p) \in Int
  BY CurrentStream, WriteEffect, PartyTypes
<1>2. /\ tpc[p] \in {"new", "read", "acked", "pop"} /\ Acked(p) + Len(u) = Written(p)
      /\ \A i \in DOMAIN u : u[i].seq = Acked(p) + i - 1
  BY DEF AckInv, AckAt, UpInv
<1> HIDE DEF u
<1>3. Acked(p) + Len(Append(u, packet)) = Written(p) + 1
  BY <1>1, <1>2, AppendFacts
<1>4. \A i \in DOMAIN Append(u, packet) : Append(u, packet)[i].seq = Acked(p) + i - 1
  <2>1. /\ DOMAIN Append(u, packet) = 1 .. Len(u) + 1 /\ DOMAIN u = 1 .. Len(u)
        /\ \A i \in 1 .. Len(u) : Append(u, packet)[i] = u[i]
        /\ Append(u, packet)[Len(u) + 1] = packet /\ Len(u) \in Nat
    BY <1>1, AppendFacts
  <2>2. \A i \in 1 .. Len(u) : Append(u, packet)[i].seq = Acked(p) + i - 1
    BY <1>2, <2>1
  <2>3. Append(u, packet)[Len(u) + 1].seq = Acked(p) + (Len(u) + 1) - 1
    BY <1>1, <1>2, <2>1
  <2>. QED BY <2>1, <2>2, <2>3
<1>. QED BY <1>1, <1>2, <1>3, <1>4 DEF UpInv

\* Send writes the packet with the next number.
LEMMA SendWriteAck ==
    ASSUME TypeOK, ControlInv, AckInv, NEW p \in Party, SendWrite(p)
    PROVE  AckInv' /\ Keeps(p)
<1> USE DEF call, client, version, thread, net, link, list, history
<1> DEFINE packet == [seq |-> m_seq[p], body |-> content[p]]
<1>1. /\ packet \in Packet /\ packet.seq = m_seq[p]
  <2>1. content[p] \in Msg
    BY DEF SendWrite, ControlInv, CallInv, Gone
  <2>. QED BY <2>1, PartyTypes DEF Packet
<1>2. Write(p, packet) /\ Room(p) /\ stream[p] = "open" /\ m_use_rpc_version[p] = v2
  BY DEF SendWrite
<1> HIDE DEF packet
<1>3. /\ pc[p] = "send" /\ pc'[p] = "wrote" /\ m_seq'[p] = m_seq[p] + 1
      /\ UNCHANGED <<m_notack_queue, resent, tpc, resp, stream, cur, down, m_use_rpc_version>>
      /\ \A q \in Party : q # p => pc'[q] = pc[q] /\ m_seq'[q] = m_seq[q]
  BY DEF SendWrite, Goto, TypeOK
<1>4. \A q \in Party : q # p => UNCHANGED AckState(q)
  BY <1>1, <1>2, <1>3, WriteEffect DEF AckState, Phase
<1>5. /\ Open(p)' = Open(p) + 1 /\ First(p)' = First(p) /\ Taken(p)' = Taken(p)
      /\ Acked(p)' = Acked(p) /\ Written(p) = m_seq[p] /\ Written(p)' = m_seq[p] + 1
  <2>1. Open(p)' = Open(p) + 1 /\ Taken(p)' = Taken(p)
    BY <1>3, PartyTypes DEF Open, Taken
  <2>2. First(p)' = First(p)
    BY <1>3, <2>1, PartyTypes DEF First
  <2>. QED BY <1>3, <2>1, <2>2 DEF Acked, Written
<1>6. NumberInv(p)'
  BY <1>3, <1>5, PartyTypes DEF AckInv, AckAt, NumberInv
<1>7. UpInv(p)'
  BY <1>1, <1>2, <1>3, <1>5, WriteUp
<1>8. FreshInv(p)'
  BY <1>1, <1>2, <1>3, WriteEffect DEF AckInv, AckAt, FreshInv
<1>9. WindowInv(p)'
  <2>1. Len(up[p][cur[p]]) \in Nat /\ Len(up[p][cur[p]]) < Window
    BY <1>2, CurrentStream, AppendFacts DEF Room
  <2>2. Open(p) = Taken(p) + Len(down[p]) + Len(up[p][cur[p]])
    <3> DEFINE u == Len(up[p][cur[p]])
               d == Len(down[p])
    <3>1. Acked(p) + u = m_seq[p]
      BY <1>2, <1>5 DEF AckInv, AckAt, UpInv
    <3>2. Acked(p) = First(p) + Taken(p) + d /\ First(p) = m_seq[p] - Open(p)
      BY DEF Acked, First
    <3>3. m_seq[p] \in Nat /\ Open(p) \in Nat /\ Taken(p) \in Nat /\ d \in Nat /\ u \in Nat
      <4>1. m_seq[p] \in Nat /\ Open(p) \in Nat /\ Taken(p) \in Nat /\ d \in Nat
        BY PartyNumbers
      <4>. QED BY <2>1, <4>1
    <3> HIDE DEF u, d
    <3>4. Open(p) = Taken(p) + d + u
      BY <3>1, <3>2, <3>3
    <3>. QED BY <3>4 DEF u, d
  <2>3. Len(down[p]) <= Window
    BY DEF AckInv, AckAt, WindowInv
  <2>4. Open(p) + 1 <= 2 * Window + 1
    <3>1. Taken(p) \in 0 .. 1 /\ Len(down[p]) \in Nat /\ Window \in Nat
      BY PartyTypes, BoundAssumption
    <3>. QED BY <2>1, <2>2, <2>3, <3>1
  <2>. QED BY <1>1, <1>2, <1>3, <1>5, <2>3, <2>4, WriteEffect DEF WindowInv
<1>. QED BY <1>4, <1>5, <1>6, <1>7, <1>8, <1>9, KeepFrame DEF AckAt

\* set_continue_status writes the next packet of the queue again.
LEMMA ResendWriteAck ==
    ASSUME TypeOK, ControlInv, AckInv, NEW p \in Party, ResendWrite(p)
    PROVE  AckInv' /\ Keeps(p)
<1> USE DEF call, client, version, thread, net, link, list, history
<1> DEFINE packet == m_notack_queue[p][resent[p] + 1]
<1>1. resent[p] + 1 \in DOMAIN m_notack_queue[p] /\ resent[p] < Len(m_notack_queue[p])
  BY PartyTypes DEF ResendWrite
<1>2. /\ packet \in Packet /\ packet.seq = First(p) + resent[p]
  BY <1>1, PartyTypes DEF AckInv, AckAt, NumberInv
<1>3. Write(p, packet) /\ Room(p) /\ stream[p] = "open" /\ m_use_rpc_version[p] = v2
  BY DEF ResendWrite, AckInv, AckAt, FreshInv
<1> HIDE DEF packet
<1>4. /\ pc[p] = "resend" /\ resent'[p] = resent[p] + 1
      /\ UNCHANGED <<pc, m_seq, m_notack_queue, tpc, resp, stream, cur, down, m_use_rpc_version>>
      /\ \A q \in Party : q # p => resent'[q] = resent[q]
  BY DEF ResendWrite, TypeOK
<1>5. \A q \in Party : q # p => UNCHANGED AckState(q)
  BY <1>2, <1>3, <1>4, WriteEffect DEF AckState, Phase
<1>6. /\ Open(p)' = Open(p) /\ First(p)' = First(p) /\ Taken(p)' = Taken(p)
      /\ Acked(p)' = Acked(p) /\ Written(p) = First(p) + resent[p]
      /\ Written(p)' = Written(p) + 1
  <2>1. /\ Open(p)' = Open(p) /\ First(p)' = First(p) /\ Taken(p)' = Taken(p)
        /\ Acked(p)' = Acked(p)
    BY <1>4 DEF Open, First, Taken, Acked
  <2>2. Written(p) = First(p) + resent[p] /\ Written(p)' = First(p)' + resent'[p]
    BY <1>4 DEF Written
  <2>. QED BY <1>4, <2>1, <2>2, PartyTypes
<1>7. NumberInv(p)'
  BY <1>4, <1>6 DEF AckInv, AckAt, NumberInv
<1>8. UpInv(p)'
  BY <1>2, <1>3, <1>4, <1>6, WriteUp
<1>9. FreshInv(p)'
  <2>1. resent'[p] <= Len(m_notack_queue[p])
    BY <1>1, <1>4, PartyTypes
  <2>. QED BY <1>2, <1>3, <1>4, <2>1, WriteEffect DEF AckInv, AckAt, FreshInv
<1>10. WindowInv(p)'
  BY <1>2, <1>3, <1>4, <1>6, WriteEffect DEF AckInv, AckAt, WindowInv
<1>. QED BY <1>5, <1>6, <1>7, <1>8, <1>9, <1>10, KeepFrame DEF AckAt

\* The old protocol has no numbers.
LEMMA SendWriteV1Ack ==
    ASSUME TypeOK, ControlInv, AckInv, NEW p \in Party, SendWriteV1(p)
    PROVE  AckInv' /\ Keeps(p)
<1> USE DEF call, client, version, thread, net, link, list, history
<1> DEFINE packet == [seq |-> 0, body |-> content[p]]
<1>1. packet \in Packet
  BY DEF SendWriteV1, ControlInv, CallInv, Gone, Packet
<1>2. Write(p, packet) /\ Room(p) /\ stream[p] = "open" /\ m_use_rpc_version[p] = v1
  BY DEF SendWriteV1
<1> HIDE DEF packet
<1>3. /\ pc[p] = "send" /\ pc'[p] = "idle"
      /\ UNCHANGED <<m_seq, m_notack_queue, resent, tpc, resp, stream, cur, down, m_use_rpc_version>>
      /\ \A q \in Party : q # p => pc'[q] = pc[q]
  BY DEF SendWriteV1, Return, Leave, TypeOK
<1>4. \A q \in Party : q # p => UNCHANGED AckState(q)
  BY <1>1, <1>2, <1>3, WriteEffect DEF AckState, Phase
<1>5. /\ Open(p)' = Open(p) /\ First(p)' = First(p) /\ Taken(p)' = Taken(p)
      /\ Acked(p)' = Acked(p)
  BY <1>3 DEF Open, First, Taken, Acked
<1>6. NumberInv(p)'
  BY <1>3, <1>5 DEF AckInv, AckAt, NumberInv
<1>7. UpInv(p)'
  BY <1>2, <1>3 DEF UpInv, v1, v2
<1>8. FreshInv(p)' /\ WindowInv(p)'
  BY <1>1, <1>2, <1>3, <1>5, WriteEffect DEF AckInv, AckAt, FreshInv, WindowInv
<1>. QED BY <1>4, <1>5, <1>6, <1>7, <1>8, KeepFrame DEF AckAt

\* emplace_back: the number was counted when the packet was written.
LEMMA SendEnqueueAck ==
    ASSUME TypeOK, ControlInv, AckInv, NEW p \in Party, SendEnqueue(p)
    PROVE  AckInv' /\ Keeps(p)
<1> USE DEF call, client, version, thread, net, link, list, history
<1> DEFINE packet == [seq |-> m_seq[p] - 1, body |-> content[p]]
           q0 == m_notack_queue[p]
<1>1. packet \in Packet /\ packet.seq = m_seq[p] - 1
  <2>1. content[p] \in Msg /\ m_seq[p] > 0
    BY DEF SendEnqueue, ControlInv, CallInv, Gone
  <2>. QED BY <2>1, PartyTypes DEF Packet
<1>2. /\ m_notack_queue'[p] = Append(q0, packet) /\ pc[p] = "wrote" /\ pc'[p] = "idle"
      /\ UNCHANGED <<m_seq, resent, tpc, resp, stream, cur, up, down, m_use_rpc_version>>
      /\ \A q \in Party : q # p => pc'[q] = pc[q] /\ m_notack_queue'[q] = m_notack_queue[q]
  BY DEF SendEnqueue, Return, Leave, TypeOK
<1>3. q0 \in Seq(Packet)
  BY PartyTypes
<1>4. Open(p) = Len(q0) + 1
  BY <1>2 DEF Open
<1> HIDE DEF packet, q0
<1>5. \A q \in Party : q # p => UNCHANGED AckState(q)
  BY <1>2 DEF AckState, Phase
<1>6. Len(m_notack_queue'[p]) = Len(q0) + 1
  BY <1>1, <1>2, <1>3, AppendFacts
<1>7. /\ Open(p)' = Open(p) /\ First(p)' = First(p) /\ Taken(p)' = Taken(p)
      /\ Acked(p)' = Acked(p) /\ Written(p)' = Written(p)
  <2>1. Open(p)' = Open(p) /\ Taken(p)' = Taken(p)
    BY <1>2, <1>4, <1>6 DEF Open, Taken
  <2>. QED BY <1>2, <2>1 DEF First, Acked, Written
<1>8. NumberInv(p)'
  <2>1. First(p) = m_seq[p] - (Len(q0) + 1)
    BY <1>4 DEF First
  <2>2. \A i \in DOMAIN m_notack_queue'[p] : m_notack_queue'[p][i].seq = First(p) + i - 1
    <3>1. /\ DOMAIN m_notack_queue'[p] = 1 .. Len(q0) + 1 /\ DOMAIN q0 = 1 .. Len(q0)
          /\ \A i \in 1 .. Len(q0) : m_notack_queue'[p][i] = q0[i]
          /\ m_notack_queue'[p][Len(q0) + 1] = packet /\ Len(q0) \in Nat
      BY <1>1, <1>2, <1>3, AppendFacts
    <3>2. \A i \in 1 .. Len(q0) : m_notack_queue'[p][i].seq = First(p) + i - 1
      BY <3>1 DEF AckInv, AckAt, NumberInv, q0
    <3>3. m_notack_queue'[p][Len(q0) + 1].seq = First(p) + (Len(q0) + 1) - 1
      BY <1>1, <2>1, <3>1, PartyTypes
    <3>. QED BY <3>1, <3>2, <3>3
  <2>. QED BY <1>2, <1>7, <2>2 DEF AckInv, AckAt, NumberInv
<1>9. UpInv(p)'
  BY <1>2, <1>7 DEF AckInv, AckAt, UpInv
<1>10. FreshInv(p)'
  <2>1. m_seq[p] # 0
    BY <1>2, PartyTypes DEF ControlInv, CallInv
  <2>. QED BY <1>2, <2>1 DEF AckInv, AckAt, FreshInv
<1>11. WindowInv(p)'
  BY <1>2, <1>7 DEF AckInv, AckAt, WindowInv
<1>. QED BY <1>5, <1>7, <1>8, <1>9, <1>10, <1>11, KeepFrame DEF AckAt

\* finish ends the stream and joins the thread; a resend that is over goes
\* back to the call.
LEMMA FinishAck ==
    ASSUME TypeOK, ControlInv, AckInv, NEW p \in Party,
           \/ FinishNoThread(p) \/ FinishV2(p) \/ FinishWithoutJoin(p) \/ Join(p)
           \/ ReconnectV1(p) \/ (\E ok \in BOOLEAN : ResendReturns(p, ok))
    PROVE  AckInv' /\ Keeps(p)
<1> USE DEF call, client, version, thread, net, link, list, history
<1>1. /\ UNCHANGED <<m_seq, m_notack_queue, resent, resp, cur, up, down, m_use_rpc_version>>
      /\ \A q \in Party : q # p => pc'[q] = pc[q] /\ stream'[q] = stream[q] /\ tpc'[q] = tpc[q]
      /\ pc[p] # "wrote" /\ pc'[p] \notin {"wrote", "resend"}
      /\ stream'[p] = stream[p] \/ stream'[p] # "open"
      /\ tpc'[p] = tpc[p] \/ (tpc[p] \in {"none", "new", "done"} /\ tpc'[p] = "none")
  <2>0. /\ CallType /\ LinkType /\ ThreadType /\ AfterFinish(p) \in {"closed", "reconnect"}
        /\ m_recv_thread_status(p) = "not_inited" => tpc[p] \in {"none", "new"}
    BY TypeParts, StatusType DEF AfterFinish
  <2>1. CASE FinishNoThread(p)
    BY <2>0, <2>1 DEF FinishNoThread, StreamEnds, Goto, CallType, LinkType
  <2>3. CASE FinishV2(p)
    BY <2>0, <2>3 DEF FinishV2, StreamEnds, Goto, CallType, LinkType
  <2>4. CASE FinishWithoutJoin(p)
    BY <2>0, <2>4 DEF FinishWithoutJoin, StreamEnds, Goto, CallType, LinkType, ThreadType
  <2>5. CASE Join(p)
    BY <2>0, <2>5 DEF Join, Goto, CallType, ThreadType
  <2>2. CASE ReconnectV1(p) \/ (\E ok \in BOOLEAN : ResendReturns(p, ok))
    <3>1. PICK ok \in BOOLEAN : NextTry(p, ok)
      BY <2>2 DEF ReconnectV1, ResendReturns
    <3>2. CallType /\ Op(p) \in {"send", "recv", "flush", "close"}
      BY TypeParts, OpType
    <3>3. pc'[p] \in {"send", "recv", "flush", "close", "idle"}
      BY <3>1, <3>2, NextTryEffect
    <3>4. \A q \in Party : q # p => pc'[q] = pc[q]
      BY <3>1, <3>2, NextTryEffect
    <3>5. /\ UNCHANGED <<m_seq, m_notack_queue, resent, resp, cur, up, down,
                          m_use_rpc_version, tpc>>
          /\ pc[p] # "wrote"
      BY <2>2 DEF ReconnectV1, ResendReturns
    <3>6. stream' = stream \/ stream' = [stream EXCEPT ![p] = "none"]
      BY <2>2 DEF ReconnectV1, ResendReturns
    <3>7. stream \in [Party -> {"none", "open", "dead"}]
      BY DEF TypeOK
    <3>. QED BY <3>3, <3>4, <3>5, <3>6, <3>7
  <2>. QED BY <2>1, <2>2, <2>3, <2>4, <2>5
<1>2. \A q \in Party : q # p => UNCHANGED AckState(q)
  BY <1>1 DEF AckState, Phase
<1>3. /\ Open(p)' = Open(p) /\ First(p)' = First(p) /\ Taken(p)' = Taken(p)
      /\ Acked(p)' = Acked(p) /\ Written(p)' = m_seq[p]
  <2>1. Open(p)' = Open(p) /\ Taken(p)' = Taken(p)
    BY <1>1 DEF Open, Taken
  <2>. QED BY <1>1, <2>1 DEF First, Acked, Written
<1>4. stream'[p] = "open" =>
          /\ stream[p] = "open" /\ tpc'[p] = tpc[p]
          /\ m_use_rpc_version[p] = v2 => Written(p) = m_seq[p]
  <2>1. CASE FinishNoThread(p) \/ FinishV2(p) \/ FinishWithoutJoin(p) \/ Join(p)
    BY <2>1, TypeParts
       DEF FinishNoThread, FinishV2, FinishWithoutJoin, Join, StreamEnds, TypeOK, ControlInv, StreamInv
  <2>2. CASE ReconnectV1(p)
    BY <2>2 DEF ReconnectV1, TypeOK
  <2>3. ASSUME NEW ok \in BOOLEAN, ResendReturns(p, ok), stream'[p] = "open"
        PROVE  /\ stream[p] = "open" /\ tpc'[p] = tpc[p]
               /\ Written(p) = m_seq[p]
    <3>1. /\ stream[p] = "open" /\ tpc'[p] = tpc[p] /\ pc[p] = "resend"
          /\ resent[p] = Len(m_notack_queue[p])
      BY <2>3 DEF ResendReturns
    <3>2. Written(p) = m_seq[p] - Len(m_notack_queue[p]) + Len(m_notack_queue[p])
      BY <3>1 DEF Written, First, Open
    <3>3. m_seq[p] \in Nat /\ Len(m_notack_queue[p]) \in Nat
      BY PartyTypes
    <3>. QED BY <3>1, <3>2, <3>3
  <2>. QED BY <2>1, <2>2, <2>3
<1>5. NumberInv(p)' /\ WindowInv(p)'
  BY <1>1, <1>3 DEF AckInv, AckAt, NumberInv, WindowInv
<1>6. UpInv(p)'
  BY <1>1, <1>3, <1>4 DEF AckInv, AckAt, UpInv
<1>7. pc'[p] = "join" => tpc'[p] \notin {"none", "new"}
  <2>1. CASE FinishNoThread(p) \/ FinishV2(p) \/ FinishWithoutJoin(p) \/ Join(p)
    BY <2>1, StatusType, TypeParts
       DEF FinishNoThread, FinishV2, FinishWithoutJoin, Join, StreamEnds, AfterFinish, Goto, TypeOK
  <2>2. CASE ReconnectV1(p) \/ (\E ok \in BOOLEAN : ResendReturns(p, ok))
    BY <2>2, NextTryEffect, TypeParts, OpType DEF ReconnectV1, ResendReturns
  <2>. QED BY <2>1, <2>2
<1>8. FreshInv(p)'
  BY <1>1, <1>7 DEF AckInv, AckAt, FreshInv
<1>. QED BY <1>2, <1>3, <1>5, <1>6, <1>8, KeepFrame DEF AckAt

-----------------------------------------------------------------------------
(* The acknowledgement thread *)

\* The thread starts, waits for the queue or ends: it keeps its
\* acknowledgement.
LEMMA ThreadMovesAck ==
    ASSUME TypeOK, ControlInv, AckInv, NEW p \in Party,
           ThreadStart(p) \/ WaitNotEmpty(p) \/ ReadEnd(p)
    PROVE  AckInv' /\ Keeps(p)
<1> USE DEF call, client, version, thread, net, link, list, history
<1>1. /\ UNCHANGED <<pc, m_seq, m_notack_queue, resent, resp, stream, cur, up, down,
                     m_use_rpc_version>>
      /\ \A q \in Party : q # p => tpc'[q] = tpc[q]
      /\ tpc[p] \in {"acked", "pop"} <=> tpc'[p] \in {"acked", "pop"}
      /\ tpc[p] # "none" /\ tpc'[p] \notin {"none", "new"}
      /\ stream[p] # "dead" => tpc'[p] \in {"read", "acked", "pop"}
  <2>1. ThreadType
    BY TypeParts
  <2>. QED BY <2>1 DEF ThreadStart, WaitNotEmpty, ReadEnd, ThreadType
<1>2. \A q \in Party : q # p => UNCHANGED AckState(q)
  BY <1>1 DEF AckState, Phase
<1>3. /\ Open(p)' = Open(p) /\ First(p)' = First(p) /\ Taken(p)' = Taken(p)
      /\ Acked(p)' = Acked(p) /\ Written(p)' = Written(p)
  <2>1. Open(p)' = Open(p) /\ Taken(p)' = Taken(p)
    BY <1>1 DEF Open, Taken
  <2>. QED BY <1>1, <2>1 DEF First, Acked, Written
<1>4. NumberInv(p)' /\ WindowInv(p)'
  BY <1>1, <1>3 DEF AckInv, AckAt, NumberInv, WindowInv
<1>5. UpInv(p)' /\ FreshInv(p)'
  BY <1>1, <1>3 DEF AckInv, AckAt, UpInv, FreshInv
<1>. QED BY <1>2, <1>3, <1>4, <1>5, KeepFrame DEF AckAt

\* Read hands the thread the next acknowledgement.
LEMMA ReadAckAck ==
    ASSUME TypeOK, ControlInv, AckInv, NEW p \in Party, ReadAck(p)
    PROVE  AckInv' /\ Keeps(p)
<1> USE DEF call, client, version, thread, net, link, list, history
<1> DEFINE d == down[p]
<1>1. /\ UNCHANGED <<pc, m_seq, m_notack_queue, resent, stream, cur, up, m_use_rpc_version>>
      /\ \A q \in Party : q # p => tpc'[q] = tpc[q] /\ resp'[q] = resp[q] /\ down'[q] = down[q]
      /\ tpc[p] = "read" /\ tpc'[p] = "acked" /\ d # <<>>
      /\ down'[p] = Tail(d) /\ resp'[p] = Head(d)
  <2>1. ThreadType /\ QueueType
    BY TypeParts
  <2>. QED BY <2>1 DEF ReadAck, ThreadType, QueueType
<1>2. /\ d \in Seq(Nat) /\ Len(d) \in Nat \ {0} /\ Len(Tail(d)) = Len(d) - 1
      /\ DOMAIN d = 1 .. Len(d) /\ DOMAIN Tail(d) = 1 .. Len(d) - 1 /\ Head(d) = d[1]
      /\ \A i \in 1 .. Len(d) - 1 : Tail(d)[i] = d[i + 1]
  BY <1>1, PartyTypes, TailFacts
<1>3. \A q \in Party : q # p => UNCHANGED AckState(q)
  BY <1>1 DEF AckState, Phase
<1>4. Open(p)' = Open(p) /\ First(p)' = First(p) /\ Taken(p) = 0 /\ Taken(p)' = 1
  BY <1>1 DEF Open, First, Taken
<1>5. Acked(p)' = Acked(p) /\ Written(p)' = Written(p)
  <2>1. Acked(p) = First(p) + 0 + Len(d) /\ Acked(p)' = First(p) + 1 + Len(Tail(d))
    BY <1>1, <1>4 DEF Acked
  <2>2. Written(p)' = Written(p)
    BY <1>1, <1>4 DEF Written
  <2>. QED BY <1>2, <2>1, <2>2, PartyTypes
<1>6. \A i \in 1 .. Len(d) : d[i] = First(p) + 0 + i - 1
  BY <1>2, <1>4 DEF AckInv, AckAt, NumberInv
<1> HIDE DEF d
<1>7. NumberInv(p)'
  <2>1. First(p) \in Int
    BY PartyTypes
  <2>2. d[1] = First(p)
    BY <1>2, <1>6, <2>1
  <2>3. \A i \in DOMAIN Tail(d) : Tail(d)[i] = First(p) + 1 + i - 1
    BY <1>2, <1>6, <2>1
  <2>. QED BY <1>1, <1>2, <1>4, <1>5, <2>2, <2>3 DEF AckInv, AckAt, NumberInv
<1>8. UpInv(p)'
  BY <1>1, <1>5 DEF AckInv, AckAt, UpInv
<1>9. FreshInv(p)'
  BY <1>1 DEF AckInv, AckAt, FreshInv
<1>10. WindowInv(p)'
  <2>1. Len(d) <= Window
    BY DEF AckInv, AckAt, WindowInv, d
  <2>2. Len(down'[p]) <= Window
    BY <1>1, <1>2, <2>1, BoundAssumption
  <2>. QED BY <1>1, <1>4, <2>2 DEF AckInv, AckAt, WindowInv
<1>. QED BY <1>3, <1>5, <1>7, <1>8, <1>9, <1>10, KeepFrame DEF AckAt

\* pop_front removes the packet the acknowledgement in hand is for.
LEMMA PopFrontAck ==
    ASSUME TypeOK, ControlInv, AckInv, NEW p \in Party, PopFront(p)
    PROVE  AckInv' /\ Keeps(p)
<1> USE DEF call, client, version, thread, net, link, list, history
<1> DEFINE q0 == m_notack_queue[p]
<1>1. /\ UNCHANGED <<pc, m_seq, resent, resp, stream, cur, up, down, m_use_rpc_version>>
      /\ \A q \in Party : q # p => tpc'[q] = tpc[q] /\ m_notack_queue'[q] = m_notack_queue[q]
      /\ tpc[p] = "pop" /\ tpc'[p] = "read" /\ pc[p] # "resend"
      /\ m_notack_queue'[p] = Tail(q0)
  <2>1. ThreadType /\ ClientType
    BY TypeParts
  <2>. QED BY <2>1 DEF PopFront, ThreadType, ClientType
<1>2. /\ q0 \in Seq(Packet) /\ Len(q0) \in Nat \ {0} /\ Len(Tail(q0)) = Len(q0) - 1
      /\ DOMAIN q0 = 1 .. Len(q0) /\ DOMAIN Tail(q0) = 1 .. Len(q0) - 1
      /\ \A i \in 1 .. Len(q0) - 1 : Tail(q0)[i] = q0[i + 1]
  <2>1. q0 \in Seq(Packet) /\ q0 # <<>>
    BY <1>1, PartyTypes DEF ControlInv, PopInv
  <2>. QED BY <2>1, TailFacts
<1>3. \A q \in Party : q # p => UNCHANGED AckState(q)
  BY <1>1 DEF AckState, Phase
<1>4. \A i \in 1 .. Len(q0) : q0[i].seq = First(p) + i - 1
  BY <1>2 DEF AckInv, AckAt, NumberInv
<1>5. /\ Open(p) = IF pc[p] = "wrote" THEN Len(q0) + 1 ELSE Len(q0)
      /\ Open(p)' = IF pc[p] = "wrote" THEN Len(Tail(q0)) + 1 ELSE Len(Tail(q0))
      /\ Taken(p) = 1 /\ Taken(p)' = 0
  BY <1>1 DEF Open, Taken
<1> HIDE DEF q0
<1>6. Open(p)' = Open(p) - 1
  BY <1>2, <1>5
<1>7. First(p)' = First(p) + 1
  <2>1. First(p) = m_seq[p] - Open(p) /\ First(p)' = m_seq[p] - (Open(p) - 1)
    BY <1>1, <1>6 DEF First
  <2>. QED BY <2>1, PartyTypes
<1>8. Acked(p)' = Acked(p) /\ Written(p)' = Written(p)
  <2>1. /\ Acked(p) = First(p) + 1 + Len(down[p]) /\ Written(p) = m_seq[p]
        /\ Acked(p)' = (First(p) + 1) + 0 + Len(down[p]) /\ Written(p)' = m_seq[p]
    BY <1>1, <1>5, <1>7 DEF Acked, Written
  <2>. QED BY <2>1, PartyTypes
<1>9. NumberInv(p)'
  <2>1. First(p) \in Int
    BY PartyTypes
  <2>2. \A i \in DOMAIN Tail(q0) : Tail(q0)[i].seq = (First(p) + 1) + i - 1
    BY <1>2, <1>4, <2>1
  <2>3. First(p) + 1 >= 0 /\ Acked(p) <= m_seq[p]
    BY <2>1 DEF AckInv, AckAt, NumberInv
  <2>4. \A i \in DOMAIN down[p] : down[p][i] = (First(p) + 1) + 0 + i - 1
    <3>1. DOMAIN down[p] \subseteq Nat
      BY PartyTypes
    <3>2. \A i \in DOMAIN down[p] : down[p][i] = First(p) + 1 + i - 1
      BY <1>5 DEF AckInv, AckAt, NumberInv
    <3>. QED BY <2>1, <3>1, <3>2
  <2>. QED BY <1>1, <1>5, <1>7, <1>8, <2>2, <2>3, <2>4 DEF NumberInv
<1>10. UpInv(p)'
  BY <1>1, <1>8 DEF AckInv, AckAt, UpInv
<1>11. FreshInv(p)'
  BY <1>1 DEF AckInv, AckAt, FreshInv
<1>12. WindowInv(p)'
  <2>1. Open(p)' <= 2 * Window + 1
    <3>1. Open(p) <= 2 * Window + 1 /\ Open(p) \in Nat /\ Window \in Nat
      BY PartyTypes, BoundAssumption DEF AckInv, AckAt, WindowInv
    <3>. QED BY <1>6, <3>1
  <2>. QED BY <1>1, <2>1 DEF AckInv, AckAt, WindowInv
<1>. QED BY <1>3, <1>8, <1>9, <1>10, <1>11, <1>12, KeepFrame DEF AckAt

-----------------------------------------------------------------------------
(* The server and the network *)

\* The handler moves the first packet of a stream to the list and, when the
\* client can still hear it, acknowledges it.
LEMMA ServerPushAck ==
    ASSUME TypeOK, ControlInv, AckInv, NEW p \in Party, NEW k \in Stream, ServerPush(p, k)
    PROVE  /\ AckInv'
           /\ \/ Keeps(p)
              \/ /\ Acked(p)' = Acked(p) + 1 /\ Head(up[p][k]).seq = Acked(p)
                 /\ \A q \in Party : q # p => UNCHANGED AckState(q)
<1> USE DEF call, client, version, thread, net, link, list, history
<1> DEFINE u == up[p][k]
           heard == k = cur[p] /\ stream[p] = "open" /\ m_use_rpc_version[p] = v2
<1>1. /\ UNCHANGED <<pc, m_seq, m_notack_queue, resent, tpc, resp, stream, cur, m_use_rpc_version>>
      /\ u # <<>> /\ (k = cur[p] /\ stream[p] = "open" => Len(down[p]) < Window)
      /\ down' = IF heard THEN [down EXCEPT ![p] = Append(@, Head(u).seq)] ELSE down
      /\ up' = [up EXCEPT ![p][k] = Tail(@)]
  BY DEF ServerPush
<1>2. up \in [Party -> [Stream -> Seq(Packet)]] /\ down \in [Party -> Seq(Nat)]
  BY DEF TypeOK
<1>3. /\ \A q \in Party : q # p => up'[q] = up[q]
      /\ \A j \in Stream : j # k => up'[p][j] = up[p][j]
      /\ up'[p][k] = Tail(u)
  BY <1>1, <1>2
<1>4. /\ \A q \in Party : q # p => down'[q] = down[q]
      /\ down'[p] = IF heard THEN Append(down[p], Head(u).seq) ELSE down[p]
  BY <1>1, <1>2
<1>5. /\ u \in Seq(Packet) /\ Len(u) \in Nat \ {0} /\ Len(Tail(u)) = Len(u) - 1
      /\ DOMAIN u = 1 .. Len(u) /\ DOMAIN Tail(u) = 1 .. Len(u) - 1 /\ Head(u) = u[1]
      /\ \A i \in 1 .. Len(u) - 1 : Tail(u)[i] = u[i + 1]
      /\ Head(u).seq \in Nat
  <2>1. u \in Seq(Packet)
    BY <1>2
  <2>2. Head(u) \in Packet
    BY <1>1, <2>1, TailFacts
  <2>. QED BY <1>1, <2>1, <2>2, TailFacts DEF Packet
<1>6. \A q \in Party : q # p => UNCHANGED AckState(q)
  BY <1>1, <1>3, <1>4 DEF AckState, Phase
<1>7. Open(p)' = Open(p) /\ First(p)' = First(p) /\ Taken(p)' = Taken(p) /\ Written(p)' = Written(p)
  BY <1>1 DEF Open, First, Taken, Written
<1>8. \A j \in Stream : Len(up'[p][j]) <= Window /\ (j > cur[p] => up'[p][j] = <<>>)
  <2>1. Len(u) <= Window /\ ~(k > cur[p])
    BY <1>1 DEF AckInv, AckAt, WindowInv, FreshInv
  <2>2. Len(up'[p][k]) <= Window
    BY <1>3, <1>5, <2>1, BoundAssumption
  <2>. QED BY <1>3, <2>1, <2>2 DEF AckInv, AckAt, WindowInv, FreshInv
<1>9. FreshInv(p)'
  BY <1>1, <1>4, <1>8 DEF AckInv, AckAt, FreshInv
<1>10. CASE heard
  <2> DEFINE d == down[p]
  <2>1. /\ Acked(p) + Len(u) = Written(p) /\ tpc[p] \in {"new", "read", "acked", "pop"}
        /\ \A i \in DOMAIN u : u[i].seq = Acked(p) + i - 1
    BY <1>10 DEF AckInv, AckAt, UpInv
  <2>2. Acked(p) \in Int /\ First(p) \in Int /\ Taken(p) \in Nat /\ Written(p) \in Int
    BY PartyTypes
  <2>3. Head(u).seq = Acked(p)
    <3>1. 1 \in DOMAIN u /\ Head(u) = u[1]
      BY <1>5
    <3>2. u[1].seq = Acked(p) + 1 - 1
      BY <2>1, <3>1
    <3>. QED BY <2>2, <3>1, <3>2
  <2>4. /\ d \in Seq(Nat) /\ down'[p] = Append(d, Head(u).seq)
        /\ DOMAIN Append(d, Head(u).seq) = 1 .. Len(d) + 1 /\ DOMAIN d = 1 .. Len(d)
        /\ Len(Append(d, Head(u).seq)) = Len(d) + 1
        /\ \A i \in 1 .. Len(d) : Append(d, Head(u).seq)[i] = d[i]
        /\ Append(d, Head(u).seq)[Len(d) + 1] = Head(u).seq /\ Len(d) \in Nat
    BY <1>2, <1>4, <1>5, <1>10, AppendFacts
  <2>5. Acked(p) = First(p) + Taken(p) + Len(d) /\ Acked(p)' = First(p) + Taken(p) + Len(down'[p])
    BY <1>7 DEF Acked
  <2>6. /\ \A i \in DOMAIN d : d[i] = First(p) + Taken(p) + i - 1
        /\ Len(d) < Window /\ Open(p) <= 2 * Window + 1
    BY <1>1, <1>10 DEF AckInv, AckAt, NumberInv, WindowInv
  <2> HIDE DEF d, u
  <2>7. Acked(p)' = Acked(p) + 1
    BY <2>2, <2>4, <2>5
  <2>8. \A i \in DOMAIN down'[p] : down'[p][i] = First(p) + Taken(p) + i - 1
    <3>1. Append(d, Head(u).seq)[Len(d) + 1] = First(p) + Taken(p) + (Len(d) + 1) - 1
      BY <2>2, <2>3, <2>4, <2>5
    <3>2. \A i \in 1 .. Len(d) + 1 : Append(d, Head(u).seq)[i] = First(p) + Taken(p) + i - 1
      BY <2>4, <2>6, <3>1
    <3>. QED BY <2>4, <3>2
  <2>9. Acked(p)' <= m_seq[p]
    <3>1. Written(p) <= m_seq[p]
      <4>1. CASE pc[p] # "resend"
        BY <4>1, PartyTypes DEF Written
      <4>2. CASE pc[p] = "resend"
        <5>1. Open(p) = Len(m_notack_queue[p]) /\ resent[p] <= Len(m_notack_queue[p])
          BY <4>2 DEF Open, AckInv, AckAt, FreshInv
        <5>2. Written(p) = First(p) + resent[p] /\ First(p) = m_seq[p] - Open(p)
          BY <4>2 DEF Written, First
        <5>. QED BY <5>1, <5>2, PartyTypes
      <4>. QED BY <4>1, <4>2
    <3>. QED BY <1>5, <2>1, <2>2, <2>7, <3>1, PartyTypes
  <2>10. NumberInv(p)'
    BY <1>1, <1>7, <2>8, <2>9 DEF AckInv, AckAt, NumberInv
  <2>11. UpInv(p)'
    <3>1. (Acked(p) + 1) + Len(Tail(u)) = Written(p)
      BY <1>5, <2>1, <2>2
    <3>2. \A i \in DOMAIN Tail(u) : Tail(u)[i].seq = (Acked(p) + 1) + i - 1
      <4> TAKE i \in DOMAIN Tail(u)
      <4>1. i \in Nat /\ i + 1 \in DOMAIN u /\ Tail(u)[i] = u[i + 1]
        BY <1>5
      <4>2. u[i + 1].seq = Acked(p) + (i + 1) - 1
        BY <2>1, <4>1
      <4>. QED BY <2>2, <4>1, <4>2
    <3>3. up'[p][cur'[p]] = Tail(u)
      BY <1>1, <1>3, <1>10
    <3>. QED BY <1>1, <1>7, <2>1, <2>7, <3>1, <3>2, <3>3 DEF UpInv
  <2>12. WindowInv(p)'
    <3>1. Len(down'[p]) <= Window
      BY <2>4, <2>6, BoundAssumption
    <3>. QED BY <1>7, <1>8, <2>6, <3>1 DEF WindowInv
  <2>. QED BY <1>6, <1>9, <2>3, <2>7, <2>10, <2>11, <2>12, AckFrame DEF AckAt, u
<1>11. CASE ~heard
  <2>1. down' = down /\ Acked(p)' = Acked(p)
    BY <1>1, <1>7, <1>11 DEF Acked
  <2>2. NumberInv(p)'
    BY <1>1, <1>7, <2>1 DEF AckInv, AckAt, NumberInv
  <2>3. UpInv(p)'
    <3> SUFFICES ASSUME stream[p] = "open", m_use_rpc_version[p] = v2
                 PROVE  UpInv(p)'
      BY <1>1 DEF UpInv
    <3>1. cur[p] \in Stream /\ cur[p] # k
      BY <1>11, CurrentStream
    <3>2. up'[p][cur[p]] = up[p][cur[p]]
      BY <1>3, <3>1
    <3>3. UNCHANGED <<stream, m_use_rpc_version, tpc, cur>>
      BY <1>1
    <3>. QED BY <1>7, <2>1, <3>2, <3>3 DEF AckInv, AckAt, UpInv
  <2>4. WindowInv(p)'
    BY <1>7, <1>8, <2>1 DEF AckInv, AckAt, WindowInv
  <2>. QED BY <1>6, <1>9, <2>1, <2>2, <2>3, <2>4, KeepFrame DEF AckAt
<1>. QED BY <1>10, <1>11

\* A break loses the end of what is under way, in both directions: the
\* acknowledgements that arrive are still those of the front of the queue.
LEMMA BreakAck ==
    ASSUME TypeOK, ControlInv, AckInv, NEW p \in Party, Break(p)
    PROVE  AckInv' /\ Keeps(p)
<1> USE DEF call, client, version, thread, net, link, list, history
<1> DEFINE u == up[p][cur[p]]
           d == down[p]
<1>1. PICK i \in 0 .. Len(u), j \in 0 .. Len(d) :
          /\ up' = [up EXCEPT ![p][cur[p]] = SubSeq(@, 1, i)]
          /\ down' = [down EXCEPT ![p] = SubSeq(@, 1, j)]
  BY DEF Break
<1>2. /\ UNCHANGED <<pc, m_seq, m_notack_queue, resent, tpc, resp, cur, m_use_rpc_version>>
      /\ stream[p] = "open" /\ stream' = [stream EXCEPT ![p] = "dead"]
  BY DEF Break
<1>3. /\ up \in [Party -> [Stream -> Seq(Packet)]] /\ down \in [Party -> Seq(Nat)]
      /\ stream \in [Party -> {"none", "open", "dead"}]
  BY DEF TypeOK
<1>4. cur[p] \in Stream /\ u \in Seq(Packet) /\ d \in Seq(Nat)
  BY <1>2, <1>3, CurrentStream
<1>5. /\ \A q \in Party : q # p => up'[q] = up[q] /\ down'[q] = down[q] /\ stream'[q] = stream[q]
      /\ \A k \in Stream : k # cur[p] => up'[p][k] = up[p][k]
      /\ up'[p][cur[p]] = SubSeq(u, 1, i) /\ down'[p] = SubSeq(d, 1, j) /\ stream'[p] = "dead"
  BY <1>1, <1>2, <1>3, <1>4
<1>6. Len(SubSeq(u, 1, i)) = i /\ i <= Len(u) /\ Len(u) \in Nat /\ i \in Nat
  BY <1>4, PrefixFacts, AppendFacts
<1>7. /\ Len(SubSeq(d, 1, j)) = j /\ j <= Len(d) /\ Len(d) \in Nat /\ j \in Nat
      /\ DOMAIN SubSeq(d, 1, j) = 1 .. j /\ DOMAIN d = 1 .. Len(d)
      /\ \A n \in 1 .. j : SubSeq(d, 1, j)[n] = d[n]
  BY <1>4, PrefixFacts, AppendFacts
<1>8. \A q \in Party : q # p => UNCHANGED AckState(q)
  BY <1>2, <1>5 DEF AckState, Phase
<1>9. Open(p)' = Open(p) /\ First(p)' = First(p) /\ Taken(p)' = Taken(p)
  BY <1>2 DEF Open, First, Taken
<1>10. NumberInv(p)' /\ Acked(p)' <= Acked(p)
  <2>1. Acked(p)' <= m_seq[p] /\ Acked(p)' <= Acked(p)
    <3>1. /\ Acked(p)' = First(p) + Taken(p) + j /\ Acked(p) = First(p) + Taken(p) + Len(d)
          /\ Acked(p) <= m_seq[p]
      BY <1>5, <1>7, <1>9 DEF Acked, AckInv, AckAt, NumberInv
    <3>2. /\ Len(d) \in Nat /\ j \in Nat /\ j <= Len(d) /\ First(p) \in Int /\ Taken(p) \in Nat
          /\ m_seq[p] \in Nat
      <4>1. First(p) \in Int /\ Taken(p) \in Nat /\ m_seq[p] \in Nat
        BY PartyNumbers
      <4>. QED BY <1>7, <4>1
    <3> HIDE DEF d
    <3>. QED BY <3>1, <3>2
  <2>2. \A n \in DOMAIN down'[p] : down'[p][n] = First(p) + Taken(p) + n - 1
    BY <1>5, <1>7 DEF AckInv, AckAt, NumberInv
  <2>. QED BY <1>2, <1>9, <2>1, <2>2 DEF AckInv, AckAt, NumberInv
<1>11. UpInv(p)'
  BY <1>5 DEF UpInv
<1>12. FreshInv(p)'
  <2>1. \A k \in Stream : k > cur[p] => k # cur[p]
    BY <1>4 DEF Stream
  <2>2. \A k \in Stream : k > cur[p] => up'[p][k] = <<>>
    BY <1>5, <2>1 DEF AckInv, AckAt, FreshInv
  <2>3. down[p] = <<>> => down'[p] = <<>>
    BY <1>4, <1>5, <1>7
  <2>. QED BY <1>2, <2>2, <2>3 DEF AckInv, AckAt, FreshInv
<1>13. WindowInv(p)'
  <2>1. Len(u) <= Window /\ Len(d) <= Window
    BY <1>4 DEF AckInv, AckAt, WindowInv
  <2>2. Len(up'[p][cur[p]]) <= Window /\ Len(down'[p]) <= Window
    BY <1>5, <1>6, <1>7, <2>1, BoundAssumption
  <2>. QED BY <1>5, <1>9, <2>2 DEF AckInv, AckAt, WindowInv
<1>. QED BY <1>8, <1>9, <1>10, <1>11, <1>12, <1>13, AckFrame DEF AckAt, Keeps

-----------------------------------------------------------------------------
(* The theorems *)

\* Nothing is numbered when the channels are constructed.
LEMMA AckInit == Init => AckInv
<1> SUFFICES ASSUME Init, NEW p \in Party PROVE AckAt(p)
  BY DEF AckInv
<1>1. /\ pc[p] = "idle" /\ tpc[p] = "none" /\ m_seq[p] = 0 /\ m_notack_queue[p] = <<>>
      /\ down[p] = <<>> /\ stream[p] = "none" /\ \A k \in Stream : up[p][k] = <<>>
  BY DEF Init, Each
<1>2. Open(p) = 0 /\ Taken(p) = 0 /\ First(p) = 0 /\ Acked(p) = 0
  <2>1. Len(m_notack_queue[p]) = 0 /\ Len(down[p]) = 0
    BY <1>1
  <2>2. Open(p) = 0 /\ Taken(p) = 0
    BY <1>1, <2>1 DEF Open, Taken
  <2>3. First(p) = 0
    BY <1>1, <2>2 DEF First
  <2>. QED BY <2>1, <2>2, <2>3 DEF Acked
<1>. QED BY <1>1, <1>2, BoundAssumption DEF AckAt, NumberInv, UpInv, FreshInv, WindowInv

\* Every step preserves AckInv.
LEMMA AckStep == TypeOK /\ ControlInv /\ AckInv /\ [Next]_vars => AckInv'
<1> SUFFICES ASSUME TypeOK, ControlInv, AckInv, [Next]_vars PROVE AckInv'
  OBVIOUS
<1>1. ASSUME NEW p \in Party, Caller(p) PROVE AckInv'
  BY <1>1, CalmSteps, CalmAck, OpenAck, SendWriteAck, SendEnqueueAck, SendWriteV1Ack, FinishAck,
     ResendWriteAck DEF Caller
<1>2. ASSUME NEW p \in Party, RecvThread(p) PROVE AckInv'
  BY <1>2, ThreadMovesAck, ReadAckAck, PopFrontAck DEF RecvThread
<1>3. ASSUME NEW p \in Party, Server(p) \/ Fault(p) PROVE AckInv'
  BY <1>3, CalmSteps, CalmAck, ServerPushAck, BreakAck DEF Server, Fault
<1>4. CASE UNCHANGED vars
  <2>1. \A q \in Party : UNCHANGED AckState(q)
    BY <1>4 DEF vars, AckState, Phase, call, client, version, thread, net, link
  <2>. QED BY <2>1, CalmAck
<1>. QED BY <1>1, <1>2, <1>3, <1>4 DEF Next, Stopped

\* The three invariants of the channel hold together.
LEMMA AckHolds == Spec => [](TypeOK /\ ControlInv /\ AckInv)
<1>1. Init => TypeOK /\ ControlInv /\ AckInv
  BY InitHolds, AckInit
<1>2. TypeOK /\ ControlInv /\ AckInv /\ [Next]_vars => TypeOK' /\ ControlInv' /\ AckInv'
  BY StepHolds, AckStep
<1>. QED BY <1>1, <1>2, PTL DEF Spec

\* PopFront removes the packet whose acknowledgement the thread has read,
\* although RpcClient's thread does not compare them: for any scripts, windows
\* and server versions, and however often streams break.
THEOREM AcksMatch == Spec => []AckMatchesFront
<1>1. ASSUME TypeOK, ControlInv, AckInv PROVE AckMatchesFront
  <2> SUFFICES ASSUME NEW p \in Party, tpc[p] = "pop"
               PROVE  m_notack_queue[p] # <<>> /\ Head(m_notack_queue[p]).seq = resp[p]
    BY DEF AckMatchesFront
  <2>1. m_notack_queue[p] \in Seq(Packet) /\ m_notack_queue[p] # <<>>
    BY <1>1, PartyTypes DEF ControlInv, PopInv
  <2>2. 1 \in DOMAIN m_notack_queue[p] /\ Head(m_notack_queue[p]) = m_notack_queue[p][1]
    BY <2>1, TailFacts
  <2>3. m_notack_queue[p][1].seq = First(p) + 1 - 1 /\ resp[p] = First(p) /\ First(p) \in Int
    BY <1>1, <2>2, PartyTypes DEF AckInv, AckAt, NumberInv, Taken
  <2>. QED BY <2>1, <2>2, <2>3
<1>. QED BY <1>1, AckHolds, PTL

\* finish joins a thread that runs, and one that holds an acknowledgement has
\* a packet to remove: m_cv.wait in it returns.
THEOREM JoinReturns == Spec => []JoinEnds
<1>1. ASSUME TypeOK, ControlInv, AckInv PROVE JoinEnds
  <2> SUFFICES ASSUME NEW p \in Party, pc[p] = "join"
               PROVE  /\ tpc[p] \in {"read", "acked", "pop", "done"}
                      /\ tpc[p] \in {"acked", "pop"} => m_notack_queue[p] # <<>>
    BY DEF JoinEnds
  <2>1. tpc[p] \in {"read", "acked", "pop", "done"}
    BY <1>1 DEF TypeOK, AckInv, AckAt, FreshInv
  <2>2. ASSUME tpc[p] \in {"acked", "pop"} PROVE m_notack_queue[p] # <<>>
    <3>1. Taken(p) = 1 /\ Open(p) = Len(m_notack_queue[p])
      BY <2>2 DEF Taken, Open
    <3>2. Acked(p) = First(p) + 1 + Len(down[p]) /\ First(p) = m_seq[p] - Open(p)
          /\ Acked(p) <= m_seq[p]
      BY <1>1, <3>1 DEF Acked, First, AckInv, AckAt, NumberInv
    <3>3. Len(m_notack_queue[p]) # 0
      BY <1>1, <3>1, <3>2, PartyTypes
    <3>. QED BY <3>3
  <2>. QED BY <2>1, <2>2
<1>. QED BY <1>1, AckHolds, PTL

\* The resend loop, which holds m_mtx, never waits for a server that waits for
\* the thread that waits for m_mtx: with the thread holding one
\* acknowledgement and both windows full, everything is written already.
THEOREM ResendGoesOn == Spec => []ResendNeverStuck
<1>1. ASSUME TypeOK, ControlInv, AckInv PROVE ResendNeverStuck
  <2> SUFFICES ASSUME NEW p \in Party, pc[p] = "resend", stream[p] = "open",
                      resent[p] < Len(m_notack_queue[p]),
                      ~Room(p), ~(Len(down[p]) < Window), tpc[p] \notin {"new", "read"}
               PROVE  FALSE
    BY DEF ResendNeverStuck
  <2> DEFINE u == Len(up[p][cur[p]])
             d == Len(down[p])
             n == Len(m_notack_queue[p])
  <2>1. /\ u \in Nat /\ d \in Nat /\ n \in Nat /\ First(p) \in Int /\ Window \in Nat
        /\ resent[p] \in Nat
    BY <1>1, PartyTypes, CurrentStream, AppendFacts, BoundAssumption
  <2>2. ~(u < Window) /\ ~(d < Window)
    BY DEF Room
  <2>3. /\ m_use_rpc_version[p] = v2 /\ tpc[p] \in {"acked", "pop"}
        /\ Acked(p) + u = Written(p) /\ Open(p) <= 2 * Window + 1
    BY <1>1 DEF AckInv, AckAt, FreshInv, UpInv, WindowInv
  <2>4. /\ Open(p) = n /\ Acked(p) = First(p) + 1 + d /\ Written(p) = First(p) + resent[p]
    BY <2>3 DEF Open, Acked, Taken, Written
  <2>5. resent[p] < n
    OBVIOUS
  <2> HIDE DEF u, d, n
  <2>. QED BY <2>1, <2>2, <2>3, <2>4, <2>5
<1>. QED BY <1>1, AckHolds, PTL
=============================================================================
