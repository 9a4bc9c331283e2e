---------------------------- MODULE MemChannel ----------------------------
(***************************************************************************)
(* One direction of class MemChannel (memchannel.cpp): a sender and a      *)
(* receiver in two processes share a SharedMemoryView, a ring of buf_size  *)
(* bytes with the free-running counters in and out.  A message is its      *)
(* length, in Header bytes, and its body, in chunks of at most m_buf_size  *)
(* bytes (nothing verifies that both ends use the same).  With enable_cv   *)
(* an access happens under the mutex and is one step; without, both sides  *)
(* spin on the counters and copy concurrently.                             *)
(***************************************************************************)
EXTENDS Integers, SequencesExt

CONSTANTS
    buf_size,       \* of the view; a power of two in the code
    Modulus,        \* 2^32: the range of in and out; buf_size, an int, is at most 2^30
    Base,           \* 256: the values of a byte
    Header,         \* 4: sizeof(body_len)
    Chunk,          \* m_buf_size at the end that attaches, a power of two too
    Message,        \* what the sender may send
    MaxMessages     \* bound: how many messages are sent

Byte == 0 .. Base - 1

ASSUME RingAssumption ==
    /\ {buf_size, Base, Header} \subseteq Nat \ {0}
    /\ Modulus \in Nat /\ Modulus % buf_size = 0 /\ Modulus > 2 * buf_size
    /\ Header <= buf_size /\ \A c \in Chunk : c \in 1 .. buf_size /\ buf_size % c = 0
    /\ Message \subseteq Seq(Byte) /\ MaxMessages \in Nat

VARIABLES
    enable_cv, m_buf_size,  \* set by the constructors, for good
    buffer, in, out,    \* the view
    waiting,            \* the sides blocked in pthread_cond_wait
    wpc, wbuf, wrest,   \* sender: argument of write, bytes after it
    rpc, rlen, rbuf,    \* receiver: argument and result of read
    need, body,         \* recv: bytes still to read (of the header: -1), read so far
    sent, received      \* history: arguments of send, results of recv

view     == <<buffer, in, out>>
sender   == <<wpc, wbuf, wrest, sent>>
receiver == <<rpc, rlen, rbuf, need, body, received>>
fixed    == <<enable_cv, m_buf_size>>
vars     == <<fixed, view, waiting, sender, receiver>>

Cell == 0 .. buf_size - 1

Limit == Base ^ Header   \* 2^32: the range of body_len

\* uint32_t body_len as bytes, and back
Encode(n) == [i \in 1 .. Header |-> (n \div (Base ^ (i - 1))) % Base]
Decode(s) == CHOOSE n \in 0 .. Limit - 1 : Encode(n) = s

\* Powers are numbers, and different body_len differ in a byte: facts of
\* arithmetic the provers lack, which TLC evaluates
ASSUME CodecAssumption ==
    /\ \A i \in 0 .. Header : Base ^ i \in Nat \ {0}
    /\ \A m, n \in 0 .. Limit - 1 : Encode(m) = Encode(n) => m = n

Smaller(m, n) == IF m <= n THEN m ELSE n

\* body_len keeps the low bits of nbytes
BodyLen(m) == Len(m) % Limit
Body(m) == SubSeq(m, 1, BodyLen(m))

\* pos, an int, counts the bytes of a body: a body has less than 2 GiB
ASSUME BodyAssumption == \A m \in Message : 2 * BodyLen(m) < Limit

Used == (in - out) % Modulus

\* Mutants: one byte too many, one too few
can_put_more(size) == (Used + size) % Modulus <= buf_size + 1
can_put_less(size) == (Used + size) % Modulus < buf_size

can_put(size) == (Used + size) % Modulus <= buf_size
can_get(size) == Used >= size

Init ==
    /\ enable_cv \in BOOLEAN
    /\ m_buf_size \in [{"sender", "receiver"} -> Chunk \cup {buf_size}]
    /\ buf_size \in {m_buf_size["sender"], m_buf_size["receiver"]}   \* the creator
    /\ buffer = [c \in Cell |-> 0] /\ in = 0 /\ out = 0
    /\ waiting = {}
    /\ wpc = "idle" /\ wbuf = <<>> /\ wrest = <<>>
    /\ rpc = "idle" /\ rlen = 0 /\ rbuf = <<>> /\ need = 0 /\ body = <<>>
    /\ sent = <<>> /\ received = <<>>

-----------------------------------------------------------------------------
(* put and get: two copies, the second from or to the start of the buffer, *)
(* then the counter                                                        *)

\* How many bytes put and get move, and how many of them before the wrap
PutLen == Smaller(Len(wbuf), (buf_size - in + out) % Modulus)
GetLen == Smaller(rlen, Used)
Unwrapped(len, counter) == Smaller(len, buf_size - (counter % buf_size))

Copied(to, first, s) ==
    [c \in Cell |-> IF c \in first .. first + Len(s) - 1 THEN s[c - first + 1] ELSE to[c]]

PutFirst == Copied(buffer, in % buf_size, SubSeq(wbuf, 1, Unwrapped(PutLen, in)))
PutSecond(to) == Copied(to, 0, SubSeq(wbuf, Unwrapped(PutLen, in) + 1, PutLen))

GetFirst == [i \in 1 .. Unwrapped(GetLen, out) |-> buffer[(out % buf_size) + i - 1]]
GetSecond == [i \in 1 .. GetLen - Unwrapped(GetLen, out) |-> buffer[i - 1]]

-----------------------------------------------------------------------------
(* send *)

\* The next call of write in send, or its end
NextWrite(rest) ==
    IF rest = <<>>
    THEN wpc' = "idle" /\ UNCHANGED <<wbuf, wrest, sent>>
    ELSE /\ wpc' = "write" /\ UNCHANGED sent
         /\ wbuf' = SubSeq(rest, 1, Smaller(m_buf_size["sender"], Len(rest)))
         /\ wrest' = SubSeq(rest, Smaller(m_buf_size["sender"], Len(rest)) + 1, Len(rest))

\* Mutant: the loop counts nbytes
SendWhole ==
    /\ wpc = "idle" /\ Len(sent) < MaxMessages
    /\ \E m \in Message :
          wbuf' = Encode(BodyLen(m)) /\ wrest' = m /\ sent' = Append(sent, m)
    /\ wpc' = "write"
    /\ UNCHANGED <<fixed, view, waiting, receiver>>

Send ==
    /\ wpc = "idle" /\ Len(sent) < MaxMessages
    /\ \E m \in Message :
          wbuf' = Encode(BodyLen(m)) /\ wrest' = Body(m) /\ sent' = Append(sent, m)
    /\ wpc' = "write"
    /\ UNCHANGED <<fixed, view, waiting, receiver>>

\* write under the mutex: wait, or put and unlock
WriteCv ==
    /\ enable_cv /\ wpc = "write" /\ "sender" \notin waiting
    /\ IF can_put(Len(wbuf))
       THEN /\ buffer' = PutSecond(PutFirst) /\ in' = (in + PutLen) % Modulus
            /\ wpc' = "signal" /\ UNCHANGED waiting
       ELSE waiting' = waiting \cup {"sender"} /\ UNCHANGED <<buffer, in, wpc>>
    /\ UNCHANGED <<fixed, out, wbuf, wrest, sent, receiver>>

Signal == IF waiting = {} THEN UNCHANGED waiting
          ELSE \E s \in waiting : waiting' = waiting \ {s}

\* Mutant: only readers signal
WriteWithoutSignal ==
    /\ wpc = "signal"
    /\ NextWrite(wrest)
    /\ UNCHANGED <<fixed, view, waiting, receiver>>

\* pthread_cond_signal after the unlock
WriteSignal ==
    /\ wpc = "signal"
    /\ Signal
    /\ NextWrite(wrest)
    /\ UNCHANGED <<fixed, view, receiver>>

\* write without the mutex
WriteSpin ==
    /\ ~enable_cv /\ wpc = "write" /\ can_put(Len(wbuf))
    /\ buffer' = PutFirst
    /\ wpc' = "second"
    /\ UNCHANGED <<fixed, in, out, waiting, wbuf, wrest, sent, receiver>>

WriteSecond ==
    /\ wpc = "second"
    /\ buffer' = PutSecond(buffer)
    /\ wpc' = "publish"
    /\ UNCHANGED <<fixed, in, out, waiting, wbuf, wrest, sent, receiver>>

WritePublish ==
    /\ wpc = "publish"
    /\ in' = (in + PutLen) % Modulus
    /\ NextWrite(wrest)
    /\ UNCHANGED <<fixed, buffer, out, waiting, receiver>>

-----------------------------------------------------------------------------
(* recv *)

ReadNext(s, chunk) ==
    LET all  == IF need < 0 THEN <<>> ELSE body \o s
        left == IF need < 0 THEN Decode(s) ELSE need - Len(s)
    IN IF left = 0
       THEN /\ rpc' = "idle" /\ received' = Append(received, all)
            /\ need' = 0 /\ body' = <<>> /\ rlen' = 0 /\ rbuf' = <<>>
       ELSE /\ rpc' = "read" /\ UNCHANGED received
            /\ need' = left /\ body' = all
            /\ rlen' = Smaller(chunk, left) /\ rbuf' = <<>>

\* Mutant: the chunks of the other end are twice the ring
NextReadWide(s) == ReadNext(s, 2 * buf_size)

\* read returned s: the next call of read in recv, or its end
NextRead(s) == ReadNext(s, m_buf_size["receiver"])

Recv ==
    /\ rpc = "idle" /\ Len(received) < MaxMessages
    /\ rpc' = "read" /\ rlen' = Header /\ need' = -1
    /\ UNCHANGED <<fixed, view, waiting, sender, rbuf, body, received>>

ReadCv ==
    /\ enable_cv /\ rpc = "read" /\ "receiver" \notin waiting
    /\ IF can_get(rlen)
       THEN /\ rbuf' = GetFirst \o GetSecond /\ out' = (out + GetLen) % Modulus
            /\ rpc' = "signal" /\ UNCHANGED waiting
       ELSE waiting' = waiting \cup {"receiver"} /\ UNCHANGED <<rbuf, out, rpc>>
    /\ UNCHANGED <<fixed, buffer, in, rlen, need, body, received, sender>>

ReadSignal ==
    /\ rpc = "signal"
    /\ Signal
    /\ NextRead(rbuf)
    /\ UNCHANGED <<fixed, view, sender>>

ReadSpin ==
    /\ ~enable_cv /\ rpc = "read" /\ can_get(rlen)
    /\ rbuf' = GetFirst
    /\ rpc' = "second"
    /\ UNCHANGED <<fixed, view, waiting, rlen, need, body, received, sender>>

ReadSecond ==
    /\ rpc = "second"
    /\ rbuf' = rbuf \o GetSecond
    /\ rpc' = "publish"
    /\ UNCHANGED <<fixed, view, waiting, rlen, need, body, received, sender>>

ReadPublish ==
    /\ rpc = "publish"
    /\ out' = (out + GetLen) % Modulus
    /\ NextRead(rbuf)
    /\ UNCHANGED <<fixed, buffer, in, waiting, sender>>

-----------------------------------------------------------------------------
SenderStep == Send \/ WriteCv \/ WriteSignal \/ WriteSpin \/ WriteSecond \/ WritePublish
ReceiverStep == Recv \/ ReadCv \/ ReadSignal \/ ReadSpin \/ ReadSecond \/ ReadPublish

SpuriousWakeup == \E s \in waiting : waiting' = waiting \ {s} /\ UNCHANGED <<fixed, view, sender, receiver>>

Done ==
    /\ wpc = "idle" /\ Len(sent) = MaxMessages
    /\ rpc = "idle" /\ Len(received) = MaxMessages
    /\ UNCHANGED vars

Next == SenderStep \/ ReceiverStep \/ SpuriousWakeup \/ Done

\* Both processes run.
Spec == Init /\ [][Next]_vars /\ WF_vars(SenderStep) /\ WF_vars(ReceiverStep)

-----------------------------------------------------------------------------
(* Properties *)

\* One direction of the queue: one end only sends, the other only receives
At(side, messages) == [p \in {"sender", "receiver"} |-> IF p = side THEN messages ELSE <<>>]

Bodies == [i \in 1 .. Len(sent) |-> Body(sent[i])]

Fifo == INSTANCE ReliableFifo WITH
    Party <- {"sender", "receiver"},
    Peer  <- [p \in {"sender", "receiver"} |-> IF p = "sender" THEN "receiver" ELSE "sender"],
    Msg   <- {Body(m) : m \in Message},
    sent  <- At("sender", Bodies),
    got   <- At("receiver", received)

\* send and recv implement a FIFO queue: every recv returns the oldest message
\* not received yet, at the one step that ends it, over a ring of bytes, in
\* chunks of two sizes and with copies that overlap.
IsFifo == Fifo!Spec

\* The type of every variable.
TypeOK ==
    /\ enable_cv \in BOOLEAN
    /\ m_buf_size \in [{"sender", "receiver"} -> Chunk \cup {buf_size}]
    /\ buffer \in [Cell -> Byte] /\ {in, out} \subseteq 0 .. Modulus - 1
    /\ waiting \subseteq {"sender", "receiver"}
    /\ wpc \in {"idle", "write", "signal", "second", "publish"}
    /\ wbuf \in Seq(Byte) /\ wrest \in Seq(Byte)
    /\ rpc \in {"idle", "read", "signal", "second", "publish"}
    /\ rlen \in 0 .. buf_size /\ rbuf \in Seq(Byte)
    /\ need \in -1 .. Limit - 1 /\ body \in Seq(Byte)
    /\ sent \in Seq(Message) /\ received \in Seq(Seq(Byte))

\* recv returns the messages of send, in order, although counters wrap and, in
\* spin mode, one side copies while the other one does: whole when shorter than
\* 2 GiB; from 4 GiB on only the remainder modulo 4 GiB arrives, and those behind
\* it are not affected.  (BodyAssumption leaves out remainders of 2 GiB and more.)
RecvInOrder ==
    /\ Len(received) <= Len(sent)
    /\ \A i \in 1 .. Len(received) :
          /\ received[i] = Body(sent[i])
          /\ Len(sent[i]) < Limit => received[i] = sent[i]

\* recv(buf, length) asserts that the length in the header is the one it is
\* given, the message's; send has cut it when the message has 4 GiB or more, and
\* BodyAssumption leaves out those between 2 and 4 GiB.
LengthAsserted ==
    LET m == sent[Len(received) + 1]
    IN rpc \in {"signal", "publish"} /\ need = -1
          => Len(received) < Len(sent) /\ (Len(m) < Limit => Decode(rbuf) = Len(m))

\* put and get cut len to the room and to the bytes there are, and write and
\* read do not learn of it: this never happens, before the copies or, in spin
\* mode, while the other side moves its counter during them.
NothingCut ==
    /\ wpc \in {"second", "publish"} \/ (wpc = "write" /\ can_put(Len(wbuf)))
       => PutLen = Len(wbuf)
    /\ rpc \in {"second", "publish"} \/ (rpc = "read" /\ can_get(rlen))
       => GetLen = rlen

\* The two sides never wait for each other: a reader that lacks bytes leaves
\* the sender room for its next chunk.
NeverStuck ==
    ~(wpc = "write" /\ ~can_put(Len(wbuf)) /\ rpc = "read" /\ ~can_get(rlen))

\* Every message is received: no signal on the one condition variable is lost.
AllReceived == <>(Len(received) = MaxMessages)
=============================================================================
