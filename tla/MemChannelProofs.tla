------------------------- MODULE MemChannelProofs -------------------------
(***************************************************************************)
(* Proofs about MemChannel for every size of the ring, of the counters, of *)
(* the header and of the chunks, and for every set of messages.            *)
(*                                                                         *)
(* in and out are remainders: the proofs work with the positions w and r   *)
(* they are remainders of, in a stream str of all bytes ever sent, where   *)
(* off[n] is the end of message n.                                         *)
(***************************************************************************)
EXTENDS MemChannel, SequenceTheorems, TLAPS

\* The bytes of s are those of the stream from position p; the cells of b hold
\* the stream from position lo to before position hi
Bytes(s, str, p) == \A i \in 1 .. Len(s) : s[i] = str[p + i - 1]
Holds(b, str, lo, hi) == \A i \in lo .. hi - 1 : b[i % buf_size] = str[i]

\* The stream is the messages sent, each after its header
Frame(n, str, off) ==
    /\ off[n] = off[n - 1] + Header + BodyLen(sent[n])
    /\ Bytes(Encode(BodyLen(sent[n])), str, off[n - 1])
    /\ Bytes(Body(sent[n]), str, off[n - 1] + Header)

Framed(str, off) ==
    /\ off[0] = 0
    /\ \A n \in 1 .. Len(sent) : Frame(n, str, off)
    /\ \A j, k \in 0 .. Len(sent) : j <= k => off[j] <= off[k]

Positions(w, r, off) ==
    /\ in = w % Modulus /\ out = r % Modulus
    /\ r <= w /\ w <= r + buf_size /\ w <= off[Len(sent)]

\* Position p is in the body of the last message, a number of chunks after its
\* header
WriteAligned(p, off) ==
    \E k \in Nat : p = off[Len(sent) - 1] + Header + m_buf_size["sender"] * k

\* write has been called for the bytes from position w
Writing(w, str, off) ==
    /\ Len(sent) > 0 /\ Len(wbuf) \in 1 .. buf_size
    /\ w + Len(wbuf) + Len(wrest) = off[Len(sent)]
    /\ Bytes(wbuf, str, w) /\ Bytes(wrest, str, w + Len(wbuf))
    /\ \/ w = off[Len(sent) - 1] /\ Len(wbuf) = Header
       \/ /\ WriteAligned(w, off)
          /\ Len(wbuf) = Smaller(m_buf_size["sender"], off[Len(sent)] - w)

\* What is left to write begins at position p
LeftToWrite(p, str, off) ==
    /\ Len(sent) > 0 /\ p + Len(wrest) = off[Len(sent)]
    /\ Bytes(wrest, str, p)
    /\ wrest = <<>> \/ WriteAligned(p, off)

WriterAt(w, r, str, off) ==
    /\ wpc = "idle" => w = off[Len(sent)]
    /\ wpc \in {"write", "second", "publish"} => Writing(w, str, off)
    /\ wpc \in {"second", "publish"} => w + Len(wbuf) <= r + buf_size
    /\ wpc = "signal" => LeftToWrite(w, str, off)

\* Where the bytes end that are in the cells: put has copied before it moves in
Stored(w) ==
    IF wpc = "second" THEN w + Unwrapped(Len(wbuf), w)
    ELSE IF wpc = "publish" THEN w + Len(wbuf) ELSE w

\* read has been called for the bytes from position p, of the header or of the
\* body of the oldest message not received
ReadingHeader(p, off) ==
    /\ need = -1 /\ rlen = Header /\ body = <<>>
    /\ p = off[Len(received)]

ReadingBody(p, str, off) ==
    /\ need > 0 /\ Len(received) < Len(sent)
    /\ Len(body) + need = BodyLen(sent[Len(received) + 1])
    /\ p = off[Len(received)] + Header + Len(body)
    /\ Bytes(body, str, off[Len(received)] + Header)
    /\ rlen = Smaller(m_buf_size["receiver"], need)
    /\ \E k \in Nat : Len(body) = m_buf_size["receiver"] * k

\* The bytes from position p are read as far as rpc says
ReadSoFar(p, w, str) ==
    /\ Bytes(rbuf, str, p)
    /\ rpc = "read" => rbuf = <<>>
    /\ rpc = "second" => Len(rbuf) = Unwrapped(rlen, p)
    /\ rpc \in {"publish", "signal"} => Len(rbuf) = rlen
    /\ rpc \in {"second", "publish", "signal"} => p + rlen <= w

\* recv has returned the bodies of the messages sent, in order
BodiesInOrder ==
    /\ Len(received) <= Len(sent)
    /\ \A i \in 1 .. Len(received) : received[i] = Body(sent[i])

ReadFrom(r) == IF rpc = "signal" THEN r - rlen ELSE r

Reading(p, w, str, off) ==
    /\ ReadingHeader(p, off) \/ ReadingBody(p, str, off)
    /\ ReadSoFar(p, w, str)

ReaderAt(w, r, str, off) ==
    /\ rpc = "idle" => r = off[Len(received)] /\ rbuf = <<>> /\ body = <<>>
    /\ rpc # "idle" => Reading(ReadFrom(r), w, str, off)

RingAt(w, r, str, off) ==
    /\ Positions(w, r, off)
    /\ Framed(str, off)
    /\ WriterAt(w, r, str, off)
    /\ Holds(buffer, str, r, Stored(w))
    /\ ReaderAt(w, r, str, off)
    /\ BodiesInOrder

RingInv ==
    \E w, r \in Nat, str \in [Nat -> Byte], off \in [Nat -> Nat] : RingAt(w, r, str, off)

-----------------------------------------------------------------------------
(* Remainders *)

\* A remainder is below what it is taken by, and is the number less a multiple.
LEMMA ModType ==
    ASSUME NEW x \in Int, NEW m \in Nat \ {0}
    PROVE  x % m \in 0 .. m - 1 /\ x \div m \in Int /\ x = m * (x \div m) + (x % m)
<1>1. x % m \in 0 .. m - 1
  OBVIOUS
<1>2. x \div m \in Int
  OBVIOUS
<1>3. x = m * (x \div m) + (x % m)
  BY SMTT(30)
<1>. QED BY <1>1, <1>2, <1>3

\* A number m * q + d with d from 0 to below m has the remainder d.
LEMMA ModIs ==
    ASSUME NEW m \in Nat \ {0}, NEW q \in Int, NEW d \in 0 .. m - 1, NEW x \in Int,
           x = m * q + d
    PROVE  x % m = d
BY SMTT(30)

\* Multiplication distributes, on the terms below.
LEMMA Distribute ==
    ASSUME NEW m \in Int, NEW a \in Int, NEW b \in Int
    PROVE  m * (a + b) = m * a + m * b /\ m * (a - b) = m * a - m * b
OBVIOUS

\* Numbers with the same remainder that are less than m apart are equal.
LEMMA ModEqual ==
    ASSUME NEW m \in Nat \ {0}, NEW x \in Int, NEW y \in Int, x <= y, y - x < m,
           x % m = y % m
    PROVE  x = y
<1> DEFINE a == x \div m
           b == y \div m
           d == x % m
           e == b - a
<1>1. a \in Int /\ b \in Int /\ d \in Int /\ x = m * a + d /\ y = m * b + d
  BY ModType
<1>2. m * (b - a) = m * b - m * a
  BY <1>1, Distribute
<1> HIDE DEF a, b, d
<1>3. e \in Int /\ m * e = y - x
  BY <1>1, <1>2
<1> HIDE DEF e
<1>4. e >= 1 => m * e >= m
  BY <1>3, SMTT(30)
<1>5. e <= 0 => m * e <= 0
  BY <1>3, SMTT(30)
<1>. QED BY <1>3, <1>4, <1>5

\* A sum modulo m needs a term only modulo m.
LEMMA ModSum ==
    ASSUME NEW m \in Nat \ {0}, NEW x \in Int, NEW k \in Int
    PROVE  ((x % m) + k) % m = (x + k) % m
<1> DEFINE a == x \div m
           d == x % m
           b == (d + k) \div m
           e == (d + k) % m
<1>1. a \in Int /\ d \in Int /\ x = m * a + d
  BY ModType
<1>2. b \in Int /\ e \in 0 .. m - 1 /\ d + k = m * b + e
  BY <1>1, ModType
<1>3. m * (a + b) = m * a + m * b
  BY <1>1, <1>2, Distribute
<1> HIDE DEF a, d, b, e
<1>4. x + k = m * (a + b) + e
  BY <1>1, <1>2, <1>3
<1> DEFINE p == a + b
           z == x + k
<1>5. p \in Int /\ z \in Int /\ z = m * p + e
  BY <1>1, <1>2, <1>4
<1> HIDE DEF p, z
<1>6. z % m = e
  BY <1>2, <1>5, ModIs
<1>. QED BY <1>6 DEF e, d, z

\* A difference modulo m of two remainders: the one of the numbers.
LEMMA ModDiff ==
    ASSUME NEW m \in Nat \ {0}, NEW x \in Int, NEW y \in Int, NEW k \in Int,
           x + k - y \in 0 .. m - 1
    PROVE  ((x % m) + k - (y % m)) % m = x + k - y
<1> DEFINE a == x \div m
           d == x % m
           b == y \div m
           e == y % m
<1>1. a \in Int /\ d \in Int /\ x = m * a + d
  BY ModType
<1>2. b \in Int /\ e \in Int /\ y = m * b + e
  BY ModType
<1>3. m * (b - a) = m * b - m * a
  BY <1>1, <1>2, Distribute
<1> HIDE DEF a, d, b, e
<1>4. d + k - e = m * (b - a) + (x + k - y)
  BY <1>1, <1>2, <1>3
<1> DEFINE p == b - a
           z == d + k - e
           f == x + k - y
<1>5. p \in Int /\ z \in Int /\ f \in 0 .. m - 1 /\ z = m * p + f
  BY <1>1, <1>2, <1>4
<1> HIDE DEF p, z, f
<1>6. z % m = f
  BY <1>5, ModIs
<1>. QED BY <1>6 DEF e, d, z, f

\* The remainder by a divisor survives taking a remainder by the multiple.
LEMMA ModMod ==
    ASSUME NEW m \in Nat \ {0}, NEW c \in Nat \ {0}, m % c = 0, NEW x \in Int
    PROVE  (x % m) % c = x % c
<1> DEFINE a == x \div m
           d == x % m
           q == m \div c
           b == d \div c
           e == d % c
<1>1. a \in Int /\ d \in Int /\ x = m * a + d
  BY ModType
<1>2. q \in Int /\ m = c * q
  BY ModType
<1>3. b \in Int /\ e \in 0 .. c - 1 /\ d = c * b + e
  BY <1>1, ModType
<1> HIDE DEF a, d, q, b, e
<1>4. m * a = c * (q * a) /\ q * a \in Int
  BY <1>1, <1>2, SMTT(30)
<1>5. c * (q * a + b) = c * (q * a) + c * b
  BY <1>3, <1>4, Distribute
<1> DEFINE p == q * a + b
<1>6. x = c * p + e /\ p \in Int
  BY <1>1, <1>3, <1>4, <1>5
<1> HIDE DEF p
<1>7. x % c = e
  BY <1>3, <1>6, ModIs
<1>. QED BY <1>7 DEF e, d

-----------------------------------------------------------------------------
(* The ring *)

\* What is assumed of the sizes, one fact per constant.
LEMMA Sizes ==
    /\ buf_size \in Nat \ {0} /\ Base \in Nat \ {0} /\ Header \in 1 .. buf_size
    /\ Modulus \in Nat \ {0} /\ Modulus % buf_size = 0 /\ Modulus > 2 * buf_size
    /\ MaxMessages \in Nat /\ Message \subseteq Seq(Byte)
BY RingAssumption

\* m_buf_size is positive and divides the size of the ring.
LEMMA ChunkFacts ==
    ASSUME NEW c \in Chunk \cup {buf_size}
    PROVE  c \in 1 .. buf_size /\ buf_size % c = 0
<1>1. buf_size \in Nat \ {0}
  BY Sizes
<1>2. CASE c = buf_size
  <2>1. buf_size % buf_size = 0
    BY <1>1, SMTT(30)
  <2>. QED BY <1>1, <1>2, <2>1
<1>3. CASE c \in Chunk
  BY <1>3, RingAssumption
<1>. QED BY <1>2, <1>3

\* The values of a header: from 0 to below Limit.
LEMMA LimitType == Limit \in Nat \ {0}
<1>1. Header \in 0 .. Header
  BY Sizes
<1>. QED BY <1>1, CodecAssumption DEF Limit

\* The counters' difference is the number of bytes in the ring.
LEMMA UsedIs ==
    ASSUME NEW w \in Nat, NEW r \in Nat, in = w % Modulus, out = r % Modulus,
           r <= w, w <= r + buf_size
    PROVE  Used = w - r
<1>1. w \in Int /\ r \in Int /\ 0 \in Int /\ Modulus \in Nat \ {0} /\ w + 0 - r \in 0 .. Modulus - 1
  BY Sizes
<1>2. ((w % Modulus) + 0 - (r % Modulus)) % Modulus = w + 0 - r
  BY <1>1, ModDiff
<1>3. (w % Modulus) + 0 - (r % Modulus) = in - out
  BY Sizes, ModType
<1>. QED BY <1>2, <1>3 DEF Used

\* can_put is true when the bytes fit, although it computes modulo 2^32.
LEMMA CanPutIs ==
    ASSUME NEW w \in Nat, NEW r \in Nat, in = w % Modulus, out = r % Modulus,
           r <= w, w <= r + buf_size, NEW size \in 0 .. buf_size
    PROVE  can_put(size) <=> w + size <= r + buf_size
<1>1. Used = w - r
  BY UsedIs
<1> DEFINE u == w - r + size
<1>2. u \in 0 .. Modulus - 1
  BY Sizes
<1> HIDE DEF u
<1>3. u % Modulus = u
  BY <1>2, Sizes
<1>4. (Used + size) % Modulus = u
  BY <1>1, <1>3 DEF u
<1>. QED BY <1>4, Sizes DEF can_put, u

\* can_get is true when there are as many bytes.
LEMMA CanGetIs ==
    ASSUME NEW w \in Nat, NEW r \in Nat, in = w % Modulus, out = r % Modulus,
           r <= w, w <= r + buf_size, NEW size \in Int
    PROVE  can_get(size) <=> r + size <= w
<1>1. Used = w - r
  BY UsedIs
<1>. QED BY <1>1 DEF can_get

\* put moves all bytes of its argument when they fit.
LEMMA PutLenIs ==
    ASSUME NEW w \in Nat, NEW r \in Nat, in = w % Modulus, out = r % Modulus,
           r <= w, w <= r + buf_size, Len(wbuf) \in Nat, w + Len(wbuf) <= r + buf_size
    PROVE  PutLen = Len(wbuf)
<1>1. /\ w \in Int /\ r \in Int /\ buf_size \in Int /\ Modulus \in Nat \ {0}
      /\ r + buf_size - w \in 0 .. Modulus - 1
  BY Sizes
<1>2. ((r % Modulus) + buf_size - (w % Modulus)) % Modulus = r + buf_size - w
  BY <1>1, ModDiff
<1>3. (r % Modulus) + buf_size - (w % Modulus) = buf_size - in + out
  BY Sizes, ModType
<1>4. (buf_size - in + out) % Modulus = r + buf_size - w
  BY <1>2, <1>3
<1>. QED BY <1>4, Sizes DEF PutLen, Smaller

\* get moves as many bytes as it was asked for when they are there.
LEMMA GetLenIs ==
    ASSUME NEW w \in Nat, NEW r \in Nat, in = w % Modulus, out = r % Modulus,
           r <= w, w <= r + buf_size, rlen \in Nat, r + rlen <= w
    PROVE  GetLen = rlen
<1>1. Used = w - r
  BY UsedIs
<1>. QED BY <1>1 DEF GetLen, Smaller

\* A counter's cell is the one of its position: 2^32 is a multiple of the ring.
LEMMA CellOf ==
    ASSUME NEW w \in Nat
    PROVE  /\ (w % Modulus) % buf_size = w % buf_size
           /\ \A len : Unwrapped(len, w % Modulus) = Unwrapped(len, w)
<1>1. w \in Int /\ Modulus \in Nat \ {0} /\ buf_size \in Nat \ {0} /\ Modulus % buf_size = 0
  BY Sizes
<1>2. (w % Modulus) % buf_size = w % buf_size
  BY <1>1, ModMod
<1>. QED BY <1>2 DEF Unwrapped

\* The cells before and after the wrap, for bytes from position p.
LEMMA CellsFrom ==
    ASSUME NEW p \in Nat, NEW len \in 0 .. buf_size
    PROVE  /\ Unwrapped(len, p) \in 0 .. len
           /\ p % buf_size \in Cell
           /\ (p % buf_size) + Unwrapped(len, p) <= buf_size
           /\ \A i \in 0 .. Unwrapped(len, p) - 1 : (p + i) % buf_size = (p % buf_size) + i
           /\ \A i \in Unwrapped(len, p) .. len - 1 :
                 /\ Unwrapped(len, p) = buf_size - (p % buf_size)
                 /\ (p + i) % buf_size = i - Unwrapped(len, p)
<1> DEFINE q == p \div buf_size
           d == p % buf_size
           u == Unwrapped(len, p)
<1>1. q \in Int /\ d \in 0 .. buf_size - 1 /\ p = buf_size * q + d
  BY Sizes, ModType
<1>2. u = IF len <= buf_size - d THEN len ELSE buf_size - d
  BY DEF Unwrapped, Smaller
<1> HIDE DEF q, d, u
<1>3. u \in 0 .. len /\ d + u <= buf_size
  BY <1>1, <1>2, Sizes
<1>4. ASSUME NEW i \in 0 .. u - 1
      PROVE  (p + i) % buf_size = d + i
  <2> DEFINE z == p + i
             e == d + i
  <2>1. z \in Int /\ e \in 0 .. buf_size - 1 /\ z = buf_size * q + e
    BY <1>1, <1>3, Sizes
  <2> HIDE DEF z, e
  <2>2. z % buf_size = e
    BY <1>1, <2>1, Sizes, ModIs
  <2>. QED BY <2>2 DEF z, e
<1>5. ASSUME NEW i \in u .. len - 1
      PROVE  u = buf_size - d /\ (p + i) % buf_size = i - u
  <2> DEFINE z == p + i
             e == i - u
             f == q + 1
  <2>1. u = buf_size - d
    BY <1>1, <1>2, Sizes
  <2>2. buf_size * (q + 1) = buf_size * q + buf_size * 1
    BY <1>1, Sizes, Distribute
  <2>3. z \in Int /\ e \in 0 .. buf_size - 1 /\ z = buf_size * f + e /\ f \in Int
    BY <1>1, <1>3, <2>1, <2>2, Sizes
  <2> HIDE DEF z, e, f
  <2>4. z % buf_size = e
    BY <2>3, Sizes, ModIs
  <2>. QED BY <2>1, <2>4 DEF z, e
<1>6. d \in Cell
  BY <1>1 DEF Cell
<1>7. /\ u \in 0 .. len /\ d \in Cell /\ d + u <= buf_size
      /\ \A i \in 0 .. u - 1 : (p + i) % buf_size = d + i
      /\ \A i \in u .. len - 1 : u = buf_size - d /\ (p + i) % buf_size = i - u
  BY <1>3, <1>4, <1>5, <1>6
<1>. QED BY <1>7 DEF d, u

\* A part of a byte sequence.
LEMMA SliceFacts ==
    ASSUME NEW s \in Seq(Byte), NEW m \in 1 .. Len(s) + 1, NEW n \in m - 1 .. Len(s)
    PROVE  /\ SubSeq(s, m, n) \in Seq(Byte) /\ Len(SubSeq(s, m, n)) = n - m + 1
           /\ \A i \in 1 .. n - m + 1 : SubSeq(s, m, n)[i] = s[m + i - 1]
OBVIOUS

\* Two cells at most buf_size apart in the stream are the same only if they are
\* the same position.
LEMMA CellApart ==
    ASSUME NEW i \in Nat, NEW j \in Nat, i < j, j < i + buf_size
    PROVE  i % buf_size # j % buf_size
<1>1. i \in Int /\ j \in Int /\ buf_size \in Nat \ {0} /\ i <= j /\ j - i < buf_size /\ i # j
  BY Sizes
<1>. QED BY <1>1, ModEqual

\* What a copy leaves in every cell.
LEMMA CopiedFacts ==
    ASSUME NEW to \in [Cell -> Byte], NEW first \in Int, NEW s \in Seq(Byte)
    PROVE  /\ Copied(to, first, s) \in [Cell -> Byte]
           /\ \A c \in Cell : c \in first .. first + Len(s) - 1
                              => Copied(to, first, s)[c] = s[c - first + 1]
           /\ \A c \in Cell : c \notin first .. first + Len(s) - 1
                              => Copied(to, first, s)[c] = to[c]
<1> DEFINE n == Len(s)
<1>1. n \in Nat /\ \A i \in 1 .. n : s[i] \in Byte
  OBVIOUS
<1> HIDE DEF n
<1>2. Cell \subseteq Int
  BY Sizes DEF Cell
<1>3. ASSUME NEW c \in Cell, c \in first .. first + n - 1
      PROVE  s[c - first + 1] \in Byte
  <2>1. c - first + 1 \in 1 .. n
    BY <1>1, <1>2, <1>3
  <2>. QED BY <1>1, <2>1
<1>4. Copied(to, first, s)
      = [c \in Cell |-> IF c \in first .. first + n - 1 THEN s[c - first + 1] ELSE to[c]]
  BY DEF Copied, n
<1>5. Copied(to, first, s) \in [Cell -> Byte]
  BY <1>3, <1>4
<1>. QED BY <1>4, <1>5 DEF n

\* A copy of stream bytes from position p to cells that begin at p's, before
\* the wrap: bytes from position r on stay, if the copy fits behind them.
LEMMA CopyHolds ==
    ASSUME NEW to \in [Cell -> Byte], NEW str \in [Nat -> Byte], NEW r \in Nat, NEW p \in Nat,
           r <= p, Holds(to, str, r, p), NEW s \in Seq(Byte), Bytes(s, str, p),
           p + Len(s) <= r + buf_size, NEW first \in Int,
           \A i \in 0 .. Len(s) - 1 : (p + i) % buf_size = first + i
    PROVE  Holds(Copied(to, first, s), str, r, p + Len(s))
<1> DEFINE n == Len(s)
           b == Copied(to, first, s)
<1>1. n \in Nat
  OBVIOUS
<1>2. /\ \A c \in Cell : c \in first .. first + n - 1 => b[c] = s[c - first + 1]
      /\ \A c \in Cell : c \notin first .. first + n - 1 => b[c] = to[c]
  BY CopiedFacts
<1>3. /\ \A i \in 1 .. n : s[i] = str[p + i - 1]
      /\ \A i \in 0 .. n - 1 : (p + i) % buf_size = first + i
      /\ p + n <= r + buf_size
  BY DEF Bytes
<1>4. \A i \in r .. p - 1 : to[i % buf_size] = str[i]
  BY DEF Holds
<1> HIDE DEF n, b
<1>5. SUFFICES ASSUME NEW i \in r .. p + n - 1
               PROVE  b[i % buf_size] = str[i]
  BY DEF Holds, n, b
<1>6. i \in Nat /\ i % buf_size \in Cell
  BY <1>1, <1>5, Sizes, ModType DEF Cell
<1>7. CASE i >= p
  <2> DEFINE k == i - p
  <2>1. k \in 0 .. n - 1 /\ i = p + k
    BY <1>1, <1>5, <1>6, <1>7
  <2> HIDE DEF k
  <2>2. i % buf_size = first + k
    BY <1>3, <2>1
  <2>3. /\ first + k \in first .. first + n - 1 /\ (first + k) - first + 1 = k + 1
        /\ k + 1 \in 1 .. n /\ p + (k + 1) - 1 = i
    BY <1>1, <2>1
  <2>4. b[first + k] = s[(first + k) - first + 1]
    BY <1>2, <1>6, <2>2, <2>3
  <2>5. s[k + 1] = str[i]
    BY <1>3, <2>3
  <2>. QED BY <2>2, <2>3, <2>4, <2>5
<1>8. CASE i < p
  <2>1. i \in r .. p - 1
    BY <1>5, <1>6, <1>8
  <2>2. i % buf_size \notin first .. first + n - 1
    <3>1. SUFFICES ASSUME i % buf_size \in first .. first + n - 1
                   PROVE  FALSE
      OBVIOUS
    <3> DEFINE k == (i % buf_size) - first
               j == p + k
    <3>2. k \in 0 .. n - 1 /\ i % buf_size = first + k
      BY <1>1, <1>6, <3>1, Sizes DEF Cell
    <3>3. j % buf_size = first + k
      BY <1>3, <3>2
    <3> HIDE DEF k
    <3>4. j \in Nat /\ i < j /\ j < i + buf_size
      BY <1>1, <1>3, <1>6, <1>8, <2>1, <3>2, Sizes
    <3> HIDE DEF j
    <3>. QED BY <1>6, <3>2, <3>3, <3>4, CellApart
  <2>3. b[i % buf_size] = to[i % buf_size]
    BY <1>2, <1>6, <2>2
  <2>. QED BY <1>4, <2>1, <2>3
<1>. QED BY <1>6, <1>7, <1>8

\* The first copy of put adds the bytes before the wrap to those in the ring.
LEMMA PutFirstHolds ==
    ASSUME NEW w \in Nat, NEW r \in Nat, in = w % Modulus, out = r % Modulus,
           r <= w, w <= r + buf_size, NEW str \in [Nat -> Byte],
           wbuf \in Seq(Byte), w + Len(wbuf) <= r + buf_size, Bytes(wbuf, str, w),
           buffer \in [Cell -> Byte], Holds(buffer, str, r, w)
    PROVE  /\ PutFirst \in [Cell -> Byte]
           /\ Holds(PutFirst, str, r, w + Unwrapped(Len(wbuf), w))
<1> DEFINE n == Len(wbuf)
           u == Unwrapped(n, w)
           d == w % buf_size
           s == SubSeq(wbuf, 1, u)
<1>1. n \in Nat /\ n \in 0 .. buf_size
  BY Sizes
<1>2. PutLen = n
  BY <1>1, PutLenIs
<1>3. Unwrapped(PutLen, in) = u /\ in % buf_size = d
  BY <1>2, CellOf
<1>4. PutFirst = Copied(buffer, d, s)
  BY <1>3 DEF PutFirst
<1>5. u \in 0 .. n /\ d \in Cell /\ \A i \in 0 .. u - 1 : (w + i) % buf_size = d + i
  BY <1>1, CellsFrom
<1> HIDE DEF u, d
<1>6. d \in Int
  BY <1>5, Sizes DEF Cell
<1>7. 1 \in 1 .. n + 1 /\ u \in 1 - 1 .. n /\ u - 1 + 1 = u
  BY <1>1, <1>5
<1>8. s \in Seq(Byte) /\ Len(s) = u /\ \A i \in 1 .. u : s[i] = wbuf[1 + i - 1]
  BY <1>7, SliceFacts
<1> HIDE DEF s
<1>9. Bytes(s, str, w)
  <2>1. ASSUME NEW i \in 1 .. u PROVE s[i] = str[w + i - 1]
    <3>1. i \in 1 .. n /\ 1 + i - 1 = i
      BY <1>1, <1>5
    <3>2. wbuf[i] = str[w + i - 1]
      BY <3>1 DEF Bytes, n
    <3>. QED BY <1>8, <3>1, <3>2
  <2>. QED BY <1>8, <2>1 DEF Bytes
<1>10. w + Len(s) <= r + buf_size
  BY <1>1, <1>5, <1>8, Sizes
<1>11. Copied(buffer, d, s) \in [Cell -> Byte]
  BY <1>6, <1>8, CopiedFacts
<1>12. Holds(Copied(buffer, d, s), str, r, w + Len(s))
  BY <1>5, <1>6, <1>8, <1>9, <1>10, CopyHolds
<1>. QED BY <1>4, <1>8, <1>11, <1>12 DEF u, n

\* The second copy of put adds the bytes after the wrap.
LEMMA PutSecondHolds ==
    ASSUME NEW w \in Nat, NEW r \in Nat, in = w % Modulus, out = r % Modulus,
           r <= w, w <= r + buf_size, NEW str \in [Nat -> Byte],
           wbuf \in Seq(Byte), w + Len(wbuf) <= r + buf_size, Bytes(wbuf, str, w),
           NEW to \in [Cell -> Byte], Holds(to, str, r, w + Unwrapped(Len(wbuf), w))
    PROVE  /\ PutSecond(to) \in [Cell -> Byte]
           /\ Holds(PutSecond(to), str, r, w + Len(wbuf))
<1> DEFINE n == Len(wbuf)
           u == Unwrapped(n, w)
           p == w + u
           s == SubSeq(wbuf, u + 1, n)
           z == 0
<1>1. n \in Nat /\ n \in 0 .. buf_size
  BY Sizes
<1>2. PutLen = n
  BY <1>1, PutLenIs
<1>3. Unwrapped(PutLen, in) = u
  BY <1>2, CellOf
<1>4. PutSecond(to) = Copied(to, z, s)
  BY <1>2, <1>3 DEF PutSecond
<1>5. u \in 0 .. n /\ \A i \in u .. n - 1 : (w + i) % buf_size = i - u
  BY <1>1, CellsFrom
<1>6. Holds(to, str, r, p)
  OBVIOUS
<1> HIDE DEF u
<1>7. u + 1 \in 1 .. n + 1 /\ n \in (u + 1) - 1 .. n /\ n - (u + 1) + 1 = n - u
  BY <1>1, <1>5
<1>8. s \in Seq(Byte) /\ Len(s) = n - u /\ \A i \in 1 .. n - u : s[i] = wbuf[u + 1 + i - 1]
  BY <1>7, SliceFacts
<1> HIDE DEF s
<1>9. p \in Nat /\ r <= p
  BY <1>1, <1>5
<1>10. Bytes(s, str, p)
  <2>1. ASSUME NEW i \in 1 .. n - u PROVE s[i] = str[p + i - 1]
    <3> DEFINE k == u + i
    <3>1. k \in 1 .. n /\ u + 1 + i - 1 = k /\ w + k - 1 = p + i - 1
      BY <1>1, <1>5
    <3>2. wbuf[k] = str[w + k - 1]
      BY <3>1 DEF Bytes, n
    <3>. QED BY <1>8, <3>1, <3>2
  <2>. QED BY <1>8, <2>1 DEF Bytes
<1>11. p + Len(s) = w + n /\ p + Len(s) <= r + buf_size
  BY <1>1, <1>5, <1>8, Sizes
<1>12. ASSUME NEW i \in 0 .. Len(s) - 1
       PROVE  (p + i) % buf_size = z + i
  <2> DEFINE k == u + i
  <2>1. k \in u .. n - 1 /\ w + k = p + i /\ k - u = z + i
    BY <1>1, <1>5, <1>8, <1>12
  <2>2. (w + k) % buf_size = k - u
    BY <1>5, <2>1
  <2>. QED BY <2>1, <2>2
<1>13. z \in Int
  OBVIOUS
<1> HIDE DEF p, z
<1>14. Copied(to, z, s) \in [Cell -> Byte]
  BY <1>8, <1>13, CopiedFacts
<1>15. Holds(Copied(to, z, s), str, r, p + Len(s))
  BY <1>13, <1>6, <1>8, <1>9, <1>10, <1>11, <1>12, CopyHolds
<1>. QED BY <1>4, <1>11, <1>14, <1>15 DEF n

\* A function on 1 .. n is a sequence of length n.
LEMMA FcnIsSeq ==
    ASSUME NEW n \in Nat, NEW f \in [1 .. n -> Byte]
    PROVE  f \in Seq(Byte) /\ Len(f) = n
OBVIOUS

\* get reads the stream from position r: in its first copy up to the wrap, in
\* its second the rest.
LEMMA GetReads ==
    ASSUME NEW w \in Nat, NEW r \in Nat, in = w % Modulus, out = r % Modulus,
           r <= w, w <= r + buf_size, NEW str \in [Nat -> Byte],
           rlen \in 0 .. buf_size, r + rlen <= w,
           buffer \in [Cell -> Byte], Holds(buffer, str, r, w)
    PROVE  /\ Unwrapped(rlen, r) \in 0 .. rlen
           /\ GetFirst \in Seq(Byte) /\ Len(GetFirst) = Unwrapped(rlen, r)
           /\ Bytes(GetFirst, str, r)
           /\ GetSecond \in Seq(Byte) /\ Len(GetSecond) = rlen - Unwrapped(rlen, r)
           /\ Bytes(GetSecond, str, r + Unwrapped(rlen, r))
<1> DEFINE u == Unwrapped(rlen, r)
           d == r % buf_size
<1>1. GetLen = rlen
  BY GetLenIs, Sizes
<1>2. Unwrapped(GetLen, out) = u /\ out % buf_size = d
  BY <1>1, CellOf
<1>3. /\ GetFirst = [i \in 1 .. u |-> buffer[d + i - 1]]
      /\ GetSecond = [i \in 1 .. rlen - u |-> buffer[i - 1]]
  BY <1>1, <1>2 DEF GetFirst, GetSecond
<1>4. /\ u \in 0 .. rlen /\ d \in Cell /\ d + u <= buf_size
      /\ \A i \in 0 .. u - 1 : (r + i) % buf_size = d + i
      /\ \A i \in u .. rlen - 1 : (r + i) % buf_size = i - u
  BY CellsFrom
<1>5. \A i \in r .. w - 1 : buffer[i % buf_size] = str[i]
  BY DEF Holds
<1> HIDE DEF u, d
<1>6. ASSUME NEW i \in 1 .. u
      PROVE  buffer[d + i - 1] = str[r + i - 1] /\ str[r + i - 1] \in Byte
  <2> DEFINE k == i - 1
             j == r + k
  <2>1. k \in 0 .. u - 1 /\ j \in r .. w - 1 /\ j \in Nat
    BY <1>4, <1>6, Sizes
  <2>2. j % buf_size = d + k /\ d + i - 1 = d + k /\ r + i - 1 = j
    BY <1>4, <2>1, Sizes DEF Cell
  <2> HIDE DEF j, k
  <2>3. buffer[j % buf_size] = str[j] /\ str[j] \in Byte
    BY <1>5, <2>1
  <2>. QED BY <2>2, <2>3
<1>7. ASSUME NEW i \in 1 .. rlen - u
      PROVE  buffer[i - 1] = str[r + u + i - 1] /\ str[r + u + i - 1] \in Byte
  <2> DEFINE k == u + i - 1
             j == r + k
  <2>1. k \in u .. rlen - 1 /\ j \in r .. w - 1 /\ j \in Nat
    BY <1>4, <1>7, Sizes
  <2>2. k - u = i - 1 /\ r + u + i - 1 = j
    BY <1>4
  <2>3. j % buf_size = k - u
    BY <1>4, <2>1
  <2>4. j % buf_size = i - 1 /\ r + u + i - 1 = j
    BY <2>2, <2>3
  <2> HIDE DEF j, k
  <2>5. buffer[j % buf_size] = str[j] /\ str[j] \in Byte
    BY <1>5, <2>1
  <2>. QED BY <2>4, <2>5
<1>8. u \in Nat /\ rlen - u \in Nat
  BY <1>4
<1>9. GetFirst \in [1 .. u -> Byte] /\ \A i \in 1 .. u : GetFirst[i] = str[r + i - 1]
  BY <1>3, <1>6
<1>10. /\ GetSecond \in [1 .. rlen - u -> Byte]
       /\ \A i \in 1 .. rlen - u : GetSecond[i] = str[r + u + i - 1]
  BY <1>3, <1>7
<1>11. GetFirst \in Seq(Byte) /\ Len(GetFirst) = u
  BY <1>8, <1>9, FcnIsSeq
<1>12. GetSecond \in Seq(Byte) /\ Len(GetSecond) = rlen - u
  BY <1>8, <1>10, FcnIsSeq
<1>13. Bytes(GetFirst, str, r) /\ Bytes(GetSecond, str, r + u)
  BY <1>9, <1>10, <1>11, <1>12 DEF Bytes
<1>. QED BY <1>4, <1>11, <1>12, <1>13 DEF u

\* Adjacent parts of the stream, one after the other.
LEMMA BytesConcat ==
    ASSUME NEW str \in [Nat -> Byte], NEW p \in Nat, NEW s \in Seq(Byte), NEW t \in Seq(Byte),
           Bytes(s, str, p), Bytes(t, str, p + Len(s))
    PROVE  /\ s \o t \in Seq(Byte) /\ Len(s \o t) = Len(s) + Len(t)
           /\ Bytes(s \o t, str, p)
<1> DEFINE m == Len(s)
           n == Len(t)
           c == s \o t
<1>1. m \in Nat /\ n \in Nat
  OBVIOUS
<1>2. /\ c \in Seq(Byte) /\ Len(c) = m + n
      /\ \A i \in 1 .. m + n : c[i] = IF i <= m THEN s[i] ELSE t[i - m]
  OBVIOUS
<1>3. /\ \A i \in 1 .. m : s[i] = str[p + i - 1]
      /\ \A i \in 1 .. n : t[i] = str[p + m + i - 1]
  BY DEF Bytes
<1> HIDE DEF m, n, c
<1>4. ASSUME NEW i \in 1 .. m + n PROVE c[i] = str[p + i - 1]
  <2>1. CASE i <= m
    BY <1>1, <1>2, <1>3, <2>1
  <2>2. CASE i > m
    <3> DEFINE k == i - m
    <3>1. k \in 1 .. n /\ p + m + k - 1 = p + i - 1
      BY <1>1, <2>2
    <3>2. t[k] = str[p + m + k - 1]
      BY <1>3, <3>1
    <3>3. c[i] = t[k]
      BY <1>1, <1>2, <2>2
    <3>. QED BY <3>1, <3>2, <3>3
  <2>. QED BY <1>1, <2>1, <2>2
<1>5. Bytes(c, str, p)
  BY <1>2, <1>4 DEF Bytes
<1>. QED BY <1>2, <1>5 DEF c, m, n

-----------------------------------------------------------------------------
(* Headers and bodies *)

\* A header is Header bytes.
LEMMA EncodeType ==
    ASSUME NEW n \in Nat
    PROVE  Encode(n) \in Seq(Byte) /\ Len(Encode(n)) = Header
<1>1. ASSUME NEW i \in 1 .. Header
      PROVE  (n \div (Base ^ (i - 1))) % Base \in Byte
  <2> DEFINE b == Base ^ (i - 1)
             q == n \div b
  <2>1. i - 1 \in 0 .. Header
    BY Sizes
  <2>2. b \in Nat \ {0}
    BY <2>1, CodecAssumption
  <2> HIDE DEF b
  <2>3. q \in Int
    BY <2>2, ModType
  <2> HIDE DEF q
  <2>4. q % Base \in 0 .. Base - 1
    BY <2>3, Sizes, ModType
  <2>. QED BY <2>4 DEF q, b, Byte
<1>2. Encode(n) \in [1 .. Header -> Byte]
  BY <1>1 DEF Encode
<1>. QED BY <1>2, FcnIsSeq, Sizes

\* Reading back the bytes of a length gives that length.
LEMMA DecodeEncode ==
    ASSUME NEW n \in 0 .. Limit - 1
    PROVE  Decode(Encode(n)) = n
<1> DEFINE D == 0 .. Limit - 1
<1>1. \A a, b \in D : Encode(a) = Encode(b) => a = b
  BY CodecAssumption
<1>2. n \in D
  OBVIOUS
<1>3. Decode(Encode(n)) = CHOOSE k \in D : Encode(k) = Encode(n)
  BY DEF Decode
<1> HIDE DEF D
<1>4. \E k \in D : Encode(k) = Encode(n)
  BY <1>2
<1>5. Decode(Encode(n)) \in D /\ Encode(Decode(Encode(n))) = Encode(n)
  BY <1>3, <1>4
<1>. QED BY <1>1, <1>2, <1>5

\* The body that goes with a message's header is a beginning of the message.
LEMMA BodyFacts ==
    ASSUME NEW m \in Message
    PROVE  /\ BodyLen(m) \in Nat /\ BodyLen(m) \in 0 .. Limit - 1
           /\ Body(m) \in Seq(Byte) /\ Len(Body(m)) = BodyLen(m)
<1> DEFINE n == Len(m)
           l == Limit
           k == n % l
<1>1. m \in Seq(Byte) /\ n \in Nat /\ l \in Nat \ {0}
  BY Sizes, LimitType
<1> HIDE DEF n, l
<1>2. k \in 0 .. l - 1 /\ k <= n /\ k \in Nat
  <2>1. n \in Int /\ n % l \in 0 .. l - 1
    BY <1>1, ModType
  <2>2. n < l => n % l = n
    BY <1>1
  <2>. QED BY <1>1, <2>1, <2>2
<1> HIDE DEF k
<1>3. 1 \in 1 .. n + 1 /\ k \in 1 - 1 .. n /\ k - 1 + 1 = k
  BY <1>1, <1>2
<1>4. SubSeq(m, 1, k) \in Seq(Byte) /\ Len(SubSeq(m, 1, k)) = k
  BY <1>1, <1>3, SliceFacts DEF n
<1>. QED BY <1>2, <1>4 DEF BodyLen, Body, n, l, k

\* Byte sequences that are the same part of the stream are equal.
LEMMA BytesEqual ==
    ASSUME NEW s \in Seq(Byte), NEW t \in Seq(Byte), Len(s) = Len(t), NEW str, NEW p,
           Bytes(s, str, p), Bytes(t, str, p)
    PROVE  s = t
BY DEF Bytes

\* The frame of message n, spelled out.
LEMMA FrameFacts ==
    ASSUME TypeOK, NEW str \in [Nat -> Byte], NEW off \in [Nat -> Nat], Framed(str, off),
           NEW n \in Nat, n < Len(sent)
    PROVE  /\ sent[n + 1] \in Message /\ BodyLen(sent[n + 1]) \in Nat
           /\ off[n] \in Nat /\ off[n + 1] = off[n] + Header + BodyLen(sent[n + 1])
           /\ off[n + 1] <= off[Len(sent)]
           /\ Bytes(Encode(BodyLen(sent[n + 1])), str, off[n])
           /\ Bytes(Body(sent[n + 1]), str, off[n] + Header)
<1> DEFINE ns == Len(sent)
           k == n + 1
<1>1. sent \in Seq(Message) /\ ns \in Nat
  BY DEF TypeOK
<1>2. k \in 1 .. ns /\ k - 1 = n /\ k \in 0 .. ns /\ ns \in 0 .. ns /\ k <= ns
  BY <1>1
<1>3. sent[k] \in Message
  BY <1>1, <1>2
<1>4. Frame(k, str, off) /\ off[k] <= off[ns]
  BY <1>2 DEF Framed
<1>5. BodyLen(sent[k]) \in Nat
  BY <1>3, BodyFacts
<1>. QED BY <1>2, <1>3, <1>4, <1>5 DEF Frame

\* No bytes are a part of the stream anywhere.
LEMMA BytesEmpty ==
    ASSUME NEW str, NEW p
    PROVE  Bytes(<<>>, str, p)
BY DEF Bytes

\* A slice of a part of the stream is a part of the stream.
LEMMA BytesSlice ==
    ASSUME NEW str, NEW p \in Nat, NEW s \in Seq(Byte), Bytes(s, str, p),
           NEW m \in 1 .. Len(s) + 1, NEW n \in m - 1 .. Len(s)
    PROVE  Bytes(SubSeq(s, m, n), str, p + m - 1)
<1> DEFINE l == Len(s)
           t == SubSeq(s, m, n)
<1>1. l \in Nat /\ m \in 1 .. l + 1 /\ n \in m - 1 .. l
  OBVIOUS
<1>2. Len(t) = n - m + 1 /\ \A i \in 1 .. n - m + 1 : t[i] = s[m + i - 1]
  BY SliceFacts
<1>3. \A i \in 1 .. l : s[i] = str[p + i - 1]
  BY DEF Bytes
<1> HIDE DEF l, t
<1>4. ASSUME NEW i \in 1 .. n - m + 1 PROVE t[i] = str[p + m - 1 + i - 1]
  <2> DEFINE k == m + i - 1
  <2>1. k \in 1 .. l /\ p + k - 1 = p + m - 1 + i - 1
    BY <1>1
  <2>2. t[i] = s[k]
    BY <1>2
  <2> HIDE DEF k
  <2>. QED BY <1>3, <2>1, <2>2
<1>5. Bytes(t, str, p + m - 1)
  BY <1>2, <1>4 DEF Bytes
<1>. QED BY <1>5 DEF t

\* The types of the two ends' chunks.
LEMMA ChunkTypes ==
    ASSUME TypeOK
    PROVE  /\ m_buf_size["sender"] \in 1 .. buf_size /\ buf_size % m_buf_size["sender"] = 0
           /\ m_buf_size["receiver"] \in 1 .. buf_size /\ buf_size % m_buf_size["receiver"] = 0
<1>1. /\ m_buf_size["sender"] \in Chunk \cup {buf_size}
      /\ m_buf_size["receiver"] \in Chunk \cup {buf_size}
  BY DEF TypeOK
<1>. QED BY <1>1, ChunkFacts

\* The types of the sequences, and of their lengths.
LEMMA SeqTypes ==
    ASSUME TypeOK
    PROVE  /\ wbuf \in Seq(Byte) /\ wrest \in Seq(Byte) /\ Len(wbuf) \in Nat /\ Len(wrest) \in Nat
           /\ rbuf \in Seq(Byte) /\ body \in Seq(Byte) /\ Len(rbuf) \in Nat /\ Len(body) \in Nat
           /\ sent \in Seq(Message) /\ Len(sent) \in Nat
           /\ received \in Seq(Seq(Byte)) /\ Len(received) \in Nat
<1>1. /\ wbuf \in Seq(Byte) /\ wrest \in Seq(Byte)
      /\ rbuf \in Seq(Byte) /\ body \in Seq(Byte)
      /\ sent \in Seq(Message) /\ received \in Seq(Seq(Byte))
  BY DEF TypeOK
<1>. QED BY <1>1

\* After a write, send calls write again for the next chunk or returns.
LEMMA NextWriteStep ==
    ASSUME TypeOK, NEW w \in Nat, NEW r \in Nat, NEW str \in [Nat -> Byte], NEW off \in [Nat -> Nat],
           LeftToWrite(w, str, off), NextWrite(wrest), UNCHANGED m_buf_size
    PROVE  /\ sent' = sent /\ wpc' \in {"idle", "write"}
           /\ wbuf' \in Seq(Byte) /\ wrest' \in Seq(Byte)
           /\ WriterAt(w, r, str, off)'
<1> DEFINE n == Len(wrest)
           c == m_buf_size["sender"]
           k == Smaller(c, n)
           e == off[Len(sent)]
<1>1. wrest \in Seq(Byte) /\ n \in Nat /\ wbuf \in Seq(Byte)
  BY DEF TypeOK
<1>2. Len(sent) > 0 /\ w + n = e /\ Bytes(wrest, str, w) /\ (wrest = <<>> \/ WriteAligned(w, off))
  BY DEF LeftToWrite
<1>3. CASE wrest = <<>>
  <2>1. wpc' = "idle" /\ UNCHANGED <<wbuf, wrest, sent>>
    BY <1>3 DEF NextWrite
  <2>2. n = 0
    BY <1>3
  <2>3. w = off[Len(sent)]
    BY <1>2, <2>2
  <2>4. WriterAt(w, r, str, off)'
    BY <2>1, <2>3 DEF WriterAt
  <2>. QED BY <1>1, <2>1, <2>4
<1>4. CASE wrest # <<>>
  <2>1. /\ wpc' = "write" /\ sent' = sent
        /\ wbuf' = SubSeq(wrest, 1, k) /\ wrest' = SubSeq(wrest, k + 1, n)
    BY <1>4 DEF NextWrite
  <2>2. n >= 1
    BY <1>1, <1>4
  <2>3. c \in 1 .. buf_size /\ buf_size \in Nat
    BY ChunkTypes, Sizes
  <2> HIDE DEF n, c, e
  <2>4. e - w = n
    BY <1>1, <1>2
  <2>5. k = Smaller(c, e - w)
    BY <2>4
  <2>6. k \in 1 .. buf_size /\ k \in 1 .. n
    BY <1>1, <2>2, <2>3 DEF Smaller
  <2> HIDE DEF k
  <2>7. /\ 1 \in 1 .. n + 1 /\ k \in 1 - 1 .. n /\ k - 1 + 1 = k /\ w + 1 - 1 = w
        /\ k + 1 \in 1 .. n + 1 /\ n \in (k + 1) - 1 .. n /\ n - (k + 1) + 1 = n - k
        /\ w + (k + 1) - 1 = w + k
    BY <1>1, <2>6
  <2>8. wbuf' \in Seq(Byte) /\ Len(wbuf') = k /\ Bytes(wbuf', str, w)
    BY <1>1, <1>2, <2>1, <2>7, SliceFacts, BytesSlice DEF n
  <2>9. wrest' \in Seq(Byte) /\ Len(wrest') = n - k /\ Bytes(wrest', str, w + k)
    BY <1>1, <1>2, <2>1, <2>7, SliceFacts, BytesSlice DEF n
  <2>10. WriteAligned(w, off)'
    BY <1>2, <1>4, <2>1 DEF WriteAligned
  <2>11. w + k + (n - k) = e
    BY <1>1, <1>2, <2>6
  <2>12. Writing(w, str, off)'
    <3>1. Len(sent') > 0 /\ Len(wbuf') \in 1 .. buf_size
      BY <1>2, <2>1, <2>6, <2>8
    <3>2. w + Len(wbuf') + Len(wrest') = off[Len(sent')]
      BY <2>1, <2>8, <2>9, <2>11 DEF e
    <3>3. Bytes(wbuf', str, w) /\ Bytes(wrest', str, w + Len(wbuf'))
      BY <2>8, <2>9
    <3>4. Len(wbuf') = Smaller(m_buf_size'["sender"], off[Len(sent')] - w)
      BY <2>1, <2>8, <2>5 DEF c, e
    <3>. QED BY <2>10, <3>1, <3>2, <3>3, <3>4 DEF Writing, Bytes
  <2>13. WriterAt(w, r, str, off)'
    BY <2>1, <2>12 DEF WriterAt
  <2>. QED BY <2>1, <2>8, <2>9, <2>13
<1>. QED BY <1>3, <1>4

\* After a write of the bytes from position w, what is left begins behind them.
LEMMA WrittenLeft ==
    ASSUME TypeOK, NEW w \in Nat, NEW str \in [Nat -> Byte], NEW off \in [Nat -> Nat],
           Writing(w, str, off)
    PROVE  LeftToWrite(w + Len(wbuf), str, off)
<1> DEFINE c == m_buf_size["sender"]
           n == Len(wbuf)
           z == Len(wrest)
           e == off[Len(sent)]
           b == off[Len(sent) - 1] + Header
<1>1. wrest \in Seq(Byte) /\ n \in Nat /\ z \in Nat /\ Len(sent) \in Nat
  BY SeqTypes
<1>2. Len(sent) > 0 /\ w + n + z = e /\ Bytes(wrest, str, w + n)
  BY DEF Writing
<1>3. c \in Int /\ b \in Int
  <2>1. Len(sent) - 1 \in Nat
    BY <1>1, <1>2
  <2> DEFINE o == off[Len(sent) - 1]
  <2>2. o \in Nat
    BY <2>1
  <2>3. buf_size \in Int /\ Header \in 1 .. buf_size /\ c \in 1 .. buf_size
    BY ChunkTypes, Sizes
  <2>4. Header \in Int /\ c \in Int
    BY <2>3
  <2>5. b = o + Header
    OBVIOUS
  <2> HIDE DEF o, b
  <2>6. b \in Int
    BY <2>2, <2>4, <2>5
  <2>. QED BY <2>4, <2>6
<1>4. wrest = <<>> \/ WriteAligned(w + n, off)
  <2>1. CASE w = off[Len(sent) - 1] /\ n = Header
    <3>1. w + n = b
      BY <2>1
    <3> HIDE DEF b, c
    <3>2. w + n = b + c * 0
      BY <1>3, <3>1
    <3>. QED BY <3>2 DEF WriteAligned, b, c
  <2>2. CASE WriteAligned(w, off) /\ n = Smaller(c, e - w)
    <3>1. PICK k \in Nat : w = b + c * k
      BY <2>2 DEF WriteAligned
    <3>2. e \in Int
      BY <1>1, <1>2
    <3>3. n = c \/ n = e - w
      BY <2>2 DEF Smaller
    <3>4. CASE n = c
      <4> HIDE DEF b, c, n
      <4>1. c * (k + 1) = c * k + c * 1 /\ c * 1 = c
        BY <1>3, Distribute
      <4>2. w + n = b + c * (k + 1) /\ k + 1 \in Nat
        BY <1>3, <3>1, <3>4, <4>1
      <4>. QED BY <4>2 DEF WriteAligned, b, c
    <3>5. CASE n = e - w
      <4>1. z = 0
        BY <1>1, <1>2, <3>2, <3>5
      <4>. QED BY <1>1, <4>1
    <3>. QED BY <3>3, <3>4, <3>5
  <2>. QED BY <2>1, <2>2 DEF Writing
<1>. QED BY <1>2, <1>4 DEF LeftToWrite

\* recv returns the body of the oldest message not received: BodiesInOrder is kept.
LEMMA ReceiveOne ==
    ASSUME TypeOK, BodiesInOrder, Len(received) < Len(sent), sent' = sent,
           received' = Append(received, Body(sent[Len(received) + 1]))
    PROVE  /\ received' \in Seq(Seq(Byte)) /\ Len(received') = Len(received) + 1
           /\ BodiesInOrder'
<1> DEFINE n == Len(received)
           ns == Len(sent)
           b == Body(sent[n + 1])
<1>1. n \in Nat /\ ns \in Nat /\ received \in Seq(Seq(Byte)) /\ sent \in Seq(Message)
  BY SeqTypes
<1>2. n + 1 \in 1 .. ns
  BY <1>1
<1>3. sent[n + 1] \in Message
  BY <1>1, <1>2
<1>4. b \in Seq(Byte)
  BY <1>3, BodyFacts
<1>5. \A i \in 1 .. n : received[i] = Body(sent[i])
  BY DEF BodiesInOrder
<1> DEFINE t == received'
<1>6. t = Append(received, b)
  OBVIOUS
<1>7. t \in Seq(Seq(Byte)) /\ Len(t) = n + 1
  BY <1>1, <1>4, <1>6
<1>8. \A i \in 1 .. n + 1 : t[i] = IF i <= n THEN received[i] ELSE b
  BY <1>1, <1>4, <1>6
<1>9. ASSUME NEW i \in 1 .. n + 1 PROVE t[i] = Body(sent[i])
  <2>1. i = n + 1 \/ i \in 1 .. n
    BY <1>1
  <2>2. CASE i \in 1 .. n
    BY <1>1, <1>5, <1>8, <2>2
  <2>3. CASE i = n + 1
    <3>1. t[i] = b
      BY <1>1, <1>8, <2>3
    <3>. QED BY <2>3, <3>1
  <2>. QED BY <2>1, <2>2, <2>3
<1>10. n + 1 <= ns
  BY <1>1
<1>11. Len(t) <= Len(sent') /\ \A i \in 1 .. Len(t) : t[i] = Body(sent'[i])
  BY <1>7, <1>9, <1>10
<1>. QED BY <1>7, <1>11 DEF BodiesInOrder

\* After a read of the bytes from position p, recv calls read again for the next
\* chunk or returns the body of the oldest message not received.
LEMMA NextReadStep ==
    ASSUME TypeOK, NEW p \in Nat, NEW w \in Nat, NEW str \in [Nat -> Byte], NEW off \in [Nat -> Nat],
           Framed(str, off), BodiesInOrder, ReadingHeader(p, off) \/ ReadingBody(p, str, off),
           Bytes(rbuf, str, p), Len(rbuf) = rlen, NEW q \in Nat, q = p + rlen, q <= w, w <= off[Len(sent)],
           NextRead(rbuf), UNCHANGED <<sent, m_buf_size>>
    PROVE  /\ rpc' \in {"idle", "read"} /\ rlen' \in 0 .. buf_size /\ rbuf' = <<>>
           /\ need' \in -1 .. Limit - 1 /\ body' \in Seq(Byte)
           /\ received' \in Seq(Seq(Byte)) /\ BodiesInOrder'
           /\ ReaderAt(w, q, str, off)'
<1> DEFINE n == Len(received)
           ns == Len(sent)
           l == BodyLen(sent[n + 1])
           c == m_buf_size["receiver"]
           lim == Limit
<1>1. n \in Nat /\ ns \in Nat /\ n <= ns
  BY SeqTypes DEF BodiesInOrder
<1>2. rbuf \in Seq(Byte) /\ body \in Seq(Byte) /\ rlen \in Nat
  BY SeqTypes
<1>3. c \in 1 .. buf_size /\ buf_size \in Nat \ {0} /\ Header \in Nat \ {0} /\ lim \in Nat \ {0}
  BY ChunkTypes, Sizes, LimitType
<1>4. ReadNext(rbuf, c)
  BY DEF NextRead
<1>5. n < ns
  <2>1. CASE ReadingBody(p, str, off)
    BY <2>1 DEF ReadingBody
  <2>2. CASE ReadingHeader(p, off)
    <3>1. p = off[n] /\ rlen = Header
      BY <2>2 DEF ReadingHeader
    <3>2. n # ns
      BY <1>2, <1>3, <3>1
    <3>. QED BY <1>1, <3>2
  <2>. QED BY <2>1, <2>2
<1>6. /\ sent[n + 1] \in Message
      /\ off[n] \in Nat /\ off[n + 1] = off[n] + Header + l
      /\ Bytes(Encode(l), str, off[n])
      /\ Bytes(Body(sent[n + 1]), str, off[n] + Header)
  BY <1>1, <1>5, FrameFacts
<1>7. /\ l \in Nat /\ l \in 0 .. lim - 1
      /\ Body(sent[n + 1]) \in Seq(Byte) /\ Len(Body(sent[n + 1])) = l
  BY <1>6, BodyFacts
<1> DEFINE all  == IF need < 0 THEN <<>> ELSE body \o rbuf
           left == IF need < 0 THEN Decode(rbuf) ELSE need - Len(rbuf)
           a == Len(all)
<1> HIDE DEF l, lim, c
<1>8. off[n] + Header \in Nat
  <2> DEFINE o == off[n]
  <2>1. o \in Nat
    BY <1>6
  <2> HIDE DEF o
  <2>2. o + Header \in Nat
    BY <2>1, <1>3
  <2>. QED BY <2>2 DEF o
\* all is what is read of the body, left what is not
<1>9. /\ all \in Seq(Byte) /\ left \in Nat /\ a \in Nat /\ a + left = l
      /\ q = off[n] + Header + a
      /\ Bytes(all, str, off[n] + Header)
      /\ left # 0 => \E k \in Nat : a = c * k
  <2>1. CASE ReadingHeader(p, off)
    <3>1. need = -1 /\ rlen = Header /\ p = off[n]
      BY <2>1 DEF ReadingHeader
    <3>2. Encode(l) \in Seq(Byte) /\ Len(Encode(l)) = Header
      BY <1>7, EncodeType
    <3>3. rbuf = Encode(l)
      <4>1. Len(rbuf) = Len(Encode(l)) /\ Bytes(rbuf, str, off[n])
        BY <3>1, <3>2
      <4>. QED BY <1>2, <1>6, <3>2, <4>1, BytesEqual
    <3>4. Decode(rbuf) = l
      BY <1>7, <3>3, DecodeEncode DEF lim
    <3>5. all = <<>> /\ left = l
      BY <3>1, <3>4
    <3>6. a = 0
      BY <3>5
    <3>7. Bytes(all, str, off[n] + Header) /\ all \in Seq(Byte)
      <4> HIDE DEF all
      <4>. QED BY <3>5, BytesEmpty
    <3>8. c * 0 = 0
      BY <1>3
    <3> HIDE DEF all, left, a
    <3>9. \E k \in Nat : a = c * k
      BY <3>6, <3>8
    <3>10. left \in Nat /\ a \in Nat /\ a + left = l /\ q = off[n] + Header + a
      BY <1>3, <1>6, <1>7, <3>1, <3>5, <3>6
    <3>. QED BY <3>7, <3>9, <3>10
  <2>2. CASE ReadingBody(p, str, off)
    <3> DEFINE m == Len(body)
    <3>1. /\ need > 0 /\ m + need = l
          /\ p = off[n] + Header + m /\ Bytes(body, str, off[n] + Header)
          /\ rlen = Smaller(c, need)
      BY <2>2 DEF ReadingBody, l, c
    <3>2. \E k \in Nat : m = c * k
      BY <2>2 DEF ReadingBody, c
    <3>3. need \in Int /\ m \in Nat
      BY SeqTypes, <1>3 DEF TypeOK, lim
    <3>4. all = body \o rbuf /\ left = need - rlen
      <4>1. ~(need < 0)
        BY <3>1, <3>3
      <4>. QED BY <4>1
    <3> HIDE DEF all, left
    <3>5. all \in Seq(Byte) /\ a = m + rlen /\ Bytes(all, str, off[n] + Header)
      <4> DEFINE h == off[n] + Header
      <4>1. h \in Nat /\ Bytes(body, str, h) /\ p = h + Len(body)
        BY <1>8, <3>1
      <4> HIDE DEF h
      <4>2. Bytes(rbuf, str, h + Len(body))
        BY <4>1
      <4>3. /\ body \o rbuf \in Seq(Byte) /\ Len(body \o rbuf) = Len(body) + Len(rbuf)
            /\ Bytes(body \o rbuf, str, h)
        BY <1>2, <4>1, <4>2, BytesConcat
      <4>. QED BY <3>4, <4>3 DEF h
    <3> HIDE DEF a, m
    <3>6. rlen <= need /\ (rlen # need => rlen = c)
      BY <1>3, <3>1, <3>3 DEF Smaller
    <3>7. left \in Nat /\ a \in Nat /\ a + left = l /\ q = off[n] + Header + a
      <4> DEFINE h == off[n] + Header
      <4>1. h \in Nat /\ p = h + m
        BY <1>8, <3>1
      <4> HIDE DEF h
      <4>2. /\ rlen \in Nat /\ need \in Int /\ m \in Nat /\ left = need - rlen /\ rlen <= need
            /\ a = m + rlen /\ m + need = l
        BY <1>2, <3>1, <3>3, <3>4, <3>5, <3>6
      <4>3. left \in Nat /\ a \in Nat /\ a + left = l /\ q = h + a
        BY <4>1, <4>2
      <4>. QED BY <4>3 DEF h
    <3>8. ASSUME left # 0 PROVE \E k \in Nat : a = c * k
      <4>1. PICK k \in Nat : m = c * k
        BY <3>2
      <4>2. rlen = c
        BY <1>2, <3>3, <3>4, <3>6, <3>8
      <4>3. c \in Int /\ c * (k + 1) = c * k + c * 1
        BY <1>3, Distribute
      <4>4. a = c * (k + 1) /\ k + 1 \in Nat
        BY <3>5, <4>1, <4>2, <4>3
      <4>. QED BY <4>4
    <3>. QED BY <3>5, <3>7, <3>8
  <2>. QED BY <2>1, <2>2
<1>10. IF left = 0
      THEN /\ rpc' = "idle" /\ received' = Append(received, all)
           /\ need' = 0 /\ body' = <<>> /\ rlen' = 0 /\ rbuf' = <<>>
      ELSE /\ rpc' = "read" /\ received' = received
           /\ need' = left /\ body' = all
           /\ rlen' = Smaller(c, left) /\ rbuf' = <<>>
  BY <1>4 DEF ReadNext
<1> HIDE DEF all, left
<1>11. CASE left = 0
  <2>1. /\ rpc' = "idle" /\ received' = Append(received, all)
        /\ need' = 0 /\ body' = <<>> /\ rlen' = 0 /\ rbuf' = <<>>
    BY <1>10, <1>11
  <2>2. a = l
    BY <1>7, <1>9, <1>11
  <2>3. all = Body(sent[n + 1])
    BY <1>6, <1>7, <1>9, <2>2, BytesEqual
  <2>4. received' \in Seq(Seq(Byte)) /\ Len(received') = n + 1 /\ BodiesInOrder'
    BY <1>5, <2>1, <2>3, ReceiveOne
  <2>5. q = off[Len(received')]
    BY <1>6, <1>9, <2>2, <2>4
  <2>6. ReaderAt(w, q, str, off)'
    BY <2>1, <2>5 DEF ReaderAt
  <2>7. 0 \in 0 .. buf_size /\ 0 \in -1 .. lim - 1
    BY <1>3
  <2>. QED BY <2>1, <2>4, <2>6, <2>7 DEF lim
<1>12. CASE left # 0
  <2>1. /\ rpc' = "read" /\ received' = received /\ need' = left /\ body' = all
        /\ rlen' = Smaller(c, left) /\ rbuf' = <<>>
    BY <1>10, <1>12
  <2>2. rlen' \in 0 .. buf_size /\ need' \in -1 .. lim - 1
    <3>1. left \in Nat /\ left <= l
      BY <1>7, <1>9
    <3>2. Smaller(c, left) \in 0 .. buf_size
      BY <1>3, <3>1 DEF Smaller
    <3>3. left \in -1 .. lim - 1
      BY <1>3, <1>7, <3>1
    <3>. QED BY <2>1, <3>2, <3>3
  <2>3. received' \in Seq(Seq(Byte)) /\ BodiesInOrder'
    BY <2>1, SeqTypes DEF BodiesInOrder
  <2>4. /\ need' > 0 /\ Len(received') < Len(sent')
        /\ Len(body') + need' = BodyLen(sent'[Len(received') + 1])
        /\ q = off[Len(received')] + Header + Len(body')
        /\ Bytes(body', str, off[Len(received')] + Header)
        /\ rlen' = Smaller(m_buf_size'["receiver"], need')
        /\ \E k \in Nat : Len(body') = m_buf_size'["receiver"] * k
    BY <1>5, <1>9, <1>12, <2>1 DEF l, c
  <2>5. ReadingBody(q, str, off)'
    BY <2>4 DEF ReadingBody, Bytes, BodyLen
  <2>6. Bytes(rbuf', str, q)
    BY <2>1 DEF Bytes
  <2>7. ReadSoFar(q, w, str)'
    BY <2>1, <2>6 DEF ReadSoFar, Bytes
  <2>8. ReaderAt(w, q, str, off)'
    BY <2>1, <2>5, <2>7 DEF ReaderAt, Reading, ReadFrom
  <2>9. rpc' \in {"idle", "read"} /\ rbuf' = <<>> /\ body' \in Seq(Byte)
    BY <1>9, <2>1
  <2>. QED BY <2>2, <2>3, <2>8, <2>9 DEF lim
<1>. QED BY <1>11, <1>12

-----------------------------------------------------------------------------
(* What the steps of one side leave of the invariant of the other *)

\* The parts of the invariant that speak of sent only.
LEMMA FramedKept ==
    ASSUME NEW str, NEW off, Framed(str, off), sent' = sent
    PROVE  Framed(str, off)'
BY DEF Framed, Frame, Bytes

\* A step of the sender, which may add bytes, leaves the reader what it had.
LEMMA ReaderKept ==
    ASSUME NEW w \in Nat, NEW v \in Nat, w <= v, NEW r \in Nat, NEW str, NEW off,
           ReaderAt(w, r, str, off), BodiesInOrder, UNCHANGED <<receiver, sent, m_buf_size>>,
           rpc # "idle" => rlen \in Nat
    PROVE  ReaderAt(v, r, str, off)' /\ BodiesInOrder'
<1>1. UNCHANGED <<rpc, rlen, rbuf, need, body, received, sent, m_buf_size>>
  BY DEF receiver
<1>2. BodiesInOrder'
  BY <1>1 DEF BodiesInOrder
<1>3. CASE rpc = "idle"
  BY <1>1, <1>2, <1>3 DEF ReaderAt
<1>4. CASE rpc # "idle"
  <2> DEFINE p == IF rpc = "signal" THEN r - rlen ELSE r
  <2>1. Reading(p, w, str, off) /\ p \in Int /\ rlen \in Nat
    BY <1>4 DEF ReaderAt, ReadFrom
  <2>2. ReadingHeader(p, off) \/ ReadingBody(p, str, off)
    BY <2>1 DEF Reading
  <2>3. ReadSoFar(p, w, str)
    BY <2>1 DEF Reading
  <2>4. p' = p
    BY <1>1
  <2> SUFFICES ASSUME NEW x, x = p PROVE ReaderAt(v, r, str, off)'
    BY <1>2
  <2>5. ReadingHeader(x, off)' \/ ReadingBody(x, str, off)'
    BY <1>1, <2>2 DEF ReadingHeader, ReadingBody, Bytes
  <2> HIDE DEF p
  <2>6. ReadSoFar(x, v, str)'
    BY <1>1, <2>1, <2>3 DEF ReadSoFar, Bytes
  <2>7. Reading(x, v, str, off)'
    BY <2>5, <2>6 DEF Reading
  <2>8. ReadFrom(r)' = x
    BY <2>4 DEF ReadFrom, p
  <2>. QED BY <1>1, <1>4, <2>7, <2>8 DEF ReaderAt
<1>. QED BY <1>3, <1>4

\* A step of the receiver, which may make room, leaves the writer what it had.
LEMMA WriterKept ==
    ASSUME TypeOK, NEW w \in Nat, NEW r \in Nat, NEW x \in Nat, r <= x, NEW str, NEW off,
           WriterAt(w, r, str, off), Holds(buffer, str, r, Stored(w)),
           UNCHANGED <<sender, m_buf_size, buffer>>
    PROVE  WriterAt(w, x, str, off)' /\ Holds(buffer, str, x, Stored(w))'
<1>1. UNCHANGED <<wpc, wbuf, wrest, sent, m_buf_size, buffer>>
  BY DEF sender
<1>2. Len(wbuf) \in Nat /\ buf_size \in Nat
  BY SeqTypes, Sizes
<1>3. Writing(w, str, off) => Writing(w, str, off)'
  BY <1>1 DEF Writing, WriteAligned, Bytes
<1>4. LeftToWrite(w, str, off) => LeftToWrite(w, str, off)'
  BY <1>1 DEF LeftToWrite, WriteAligned, Bytes
<1>5. w + Len(wbuf) <= r + buf_size => w + Len(wbuf) <= x + buf_size
  BY <1>2
<1>6. WriterAt(w, x, str, off)'
  BY <1>1, <1>3, <1>4, <1>5 DEF WriterAt
<1>7. Stored(w)' = Stored(w)
  BY <1>1 DEF Stored, Unwrapped, Smaller
<1> DEFINE hi == Stored(w)
<1>8. \A i \in r .. hi - 1 : buffer[i % buf_size] = str[i]
  BY DEF Holds
<1>9. ASSUME NEW i \in x .. hi - 1 PROVE i \in r .. hi - 1
  <2>1. hi \in Int
    <3>1. w % buf_size \in Int
      BY Sizes, ModType
    <3>. QED BY <1>2, <3>1 DEF Stored, Unwrapped, Smaller
  <2> HIDE DEF hi
  <2>. QED BY <2>1, <1>9
<1> HIDE DEF hi
<1>10. \A i \in x .. hi - 1 : buffer[i % buf_size] = str[i]
  BY <1>8, <1>9
<1>11. Holds(buffer, str, x, Stored(w))'
  BY <1>1, <1>7, <1>10 DEF Holds, hi
<1>. QED BY <1>6, <1>11

\* Parts of the stream before a position from which on it is changed.
LEMMA BytesAgree ==
    ASSUME NEW str, NEW new, NEW e \in Int, \A i \in Nat : i < e => new[i] = str[i],
           NEW p \in Nat, NEW s \in Seq(Byte), Bytes(s, str, p), p + Len(s) <= e
    PROVE  Bytes(s, new, p)
<1> DEFINE n == Len(s)
<1>1. n \in Nat /\ p + n <= e
  OBVIOUS
<1>2. \A i \in 1 .. n : s[i] = str[p + i - 1]
  BY DEF Bytes
<1> HIDE DEF n
<1>3. ASSUME NEW i \in 1 .. n PROVE s[i] = new[p + i - 1]
  <2> DEFINE k == p + i - 1
  <2>1. k \in Nat /\ k < e
    BY <1>1
  <2>2. s[i] = str[k]
    BY <1>2
  <2> HIDE DEF k
  <2>3. s[i] = new[k]
    BY <2>1, <2>2
  <2>. QED BY <2>3 DEF k
<1>. QED BY <1>3 DEF Bytes, n

-----------------------------------------------------------------------------
(* The steps of the receiver *)

\* The ranges of a position's counter and cell.
LEMMA CounterRange ==
    ASSUME NEW p \in Nat
    PROVE  p % buf_size \in 0 .. buf_size - 1 /\ p % Modulus \in 0 .. Modulus - 1
<1>1. p \in Int /\ buf_size \in Nat \ {0} /\ Modulus \in Nat \ {0}
  BY Sizes
<1>. QED BY <1>1, ModType

\* What the invariant says of the ring.
LEMMA RingParts ==
    ASSUME TypeOK, NEW w \in Nat, NEW r \in Nat, NEW str \in [Nat -> Byte], NEW off \in [Nat -> Nat],
           RingAt(w, r, str, off)
    PROVE  /\ in = w % Modulus /\ out = r % Modulus
           /\ r <= w /\ w <= r + buf_size /\ w <= off[Len(sent)]
           /\ Framed(str, off) /\ WriterAt(w, r, str, off) /\ ReaderAt(w, r, str, off) /\ BodiesInOrder
           /\ Holds(buffer, str, r, Stored(w)) /\ Holds(buffer, str, r, w)
           /\ buffer \in [Cell -> Byte] /\ rlen \in 0 .. buf_size /\ rlen \in Nat
<1>1. /\ Positions(w, r, off) /\ Framed(str, off) /\ WriterAt(w, r, str, off)
      /\ Holds(buffer, str, r, Stored(w)) /\ ReaderAt(w, r, str, off) /\ BodiesInOrder
  BY DEF RingAt
<1>2. buffer \in [Cell -> Byte] /\ rlen \in 0 .. buf_size
  BY DEF TypeOK
<1>3. rlen \in Nat
  BY <1>2, Sizes
<1>4. Stored(w) \in Int /\ Stored(w) >= w
  <2>1. Len(wbuf) \in Nat
    BY SeqTypes
  <2>2. Unwrapped(Len(wbuf), w) \in Nat
    <3> DEFINE d == w % buf_size
    <3>1. d \in 0 .. buf_size - 1 /\ buf_size \in Nat
      BY CounterRange, Sizes
    <3> HIDE DEF d
    <3>2. buf_size - d \in Nat
      BY <3>1
    <3> DEFINE n == Len(wbuf)
               m == buf_size - d
    <3>3. Unwrapped(Len(wbuf), w) = IF n <= m THEN n ELSE m
      BY DEF Unwrapped, Smaller, d
    <3>4. n \in Nat /\ m \in Nat
      BY <2>1, <3>2
    <3> HIDE DEF n, m
    <3>. QED BY <3>3, <3>4
  <2> DEFINE n == Len(wbuf)
             u == Unwrapped(n, w)
             hi == Stored(w)
  <2>3. hi = w + u \/ hi = w + n \/ hi = w
    BY DEF Stored
  <2> HIDE DEF n, u, hi
  <2>4. n \in Nat /\ u \in Nat
    BY <2>1, <2>2 DEF n, u
  <2>5. hi \in Int /\ hi >= w
    BY <2>3, <2>4
  <2>. QED BY <2>5 DEF hi
<1>5. \A i \in r .. Stored(w) - 1 : buffer[i % buf_size] = str[i]
  BY <1>1 DEF Holds
<1>6. \A i \in r .. w - 1 : buffer[i % buf_size] = str[i]
  <2> DEFINE hi == Stored(w)
  <2> HIDE DEF hi
  <2>1. hi \in Int /\ hi >= w
    BY <1>4 DEF hi
  <2>2. \A i \in r .. hi - 1 : buffer[i % buf_size] = str[i]
    BY <1>5 DEF hi
  <2>3. \A i \in r .. w - 1 : i \in r .. hi - 1
    BY <2>1
  <2>. QED BY <2>2, <2>3
<1>7. Holds(buffer, str, r, w)
  BY <1>6 DEF Holds
<1>. QED BY <1>1, <1>2, <1>3, <1>7 DEF Positions

\* The invariant after a step of the receiver that moves the end of the bytes in
\* the ring to position x.
LEMMA ReceiverStepKeeps ==
    ASSUME TypeOK, NEW w \in Nat, NEW r \in Nat, NEW str \in [Nat -> Byte], NEW off \in [Nat -> Nat],
           RingAt(w, r, str, off), UNCHANGED <<fixed, buffer, in, sender>>,
           waiting' \subseteq {"sender", "receiver"},
           NEW x \in Nat, r <= x, x <= w, out' = x % Modulus,
           rpc' \in {"idle", "read", "signal", "second", "publish"},
           rlen' \in 0 .. buf_size, rbuf' \in Seq(Byte),
           need' \in -1 .. Limit - 1, body' \in Seq(Byte),
           received' \in Seq(Seq(Byte)), BodiesInOrder', ReaderAt(w, x, str, off)'
    PROVE  TypeOK' /\ RingInv'
<1>1. /\ in = w % Modulus /\ r <= w /\ w <= r + buf_size /\ w <= off[Len(sent)]
      /\ Framed(str, off) /\ WriterAt(w, r, str, off) /\ Holds(buffer, str, r, Stored(w))
  BY RingParts
<1>2. UNCHANGED <<enable_cv, m_buf_size, buffer, in, wpc, wbuf, wrest, sent>>
  BY DEF fixed, sender
<1>3. WriterAt(w, x, str, off)' /\ Holds(buffer, str, x, Stored(w))'
  BY <1>1, <1>2, WriterKept
<1>4. Framed(str, off)'
  BY <1>1, <1>2, FramedKept
<1>5. w <= x + buf_size
  BY <1>1, Sizes
<1>6. Positions(w, x, off)'
  BY <1>1, <1>2, <1>5 DEF Positions
<1>7. RingAt(w, x, str, off)'
  BY <1>3, <1>4, <1>6 DEF RingAt
<1>8. RingInv'
  BY <1>7 DEF RingInv
<1>9. out' \in 0 .. Modulus - 1 /\ in \in 0 .. Modulus - 1
  BY <1>1, CounterRange
<1>10. TypeOK'
  <2>1. /\ enable_cv' \in BOOLEAN
        /\ m_buf_size' \in [{"sender", "receiver"} -> Chunk \cup {buf_size}]
        /\ buffer' \in [Cell -> Byte]
        /\ wpc' \in {"idle", "write", "signal", "second", "publish"}
        /\ wbuf' \in Seq(Byte) /\ wrest' \in Seq(Byte) /\ sent' \in Seq(Message)
    BY <1>2 DEF TypeOK
  <2>2. {in', out'} \subseteq 0 .. Modulus - 1
    BY <1>2, <1>9
  <2>. QED BY <2>1, <2>2 DEF TypeOK
<1>. QED BY <1>8, <1>10

\* The bytes read lie before the next message to be read: their position is a
\* number.
LEMMA ReadPosition ==
    ASSUME TypeOK, NEW p, NEW str, NEW off \in [Nat -> Nat],
           ReadingHeader(p, off) \/ ReadingBody(p, str, off)
    PROVE  p \in Nat
<1> DEFINE o == off[Len(received)]
           k == Len(body)
<1>1. o \in Nat /\ k \in Nat
  BY SeqTypes
<1>2. p = o \/ p = o + Header + k
  BY DEF ReadingHeader, ReadingBody
<1>3. Header \in Nat
  BY Sizes
<1> HIDE DEF o, k
<1>. QED BY <1>1, <1>2, <1>3

\* What the receiver is at, in a read.
LEMMA ReaderParts ==
    ASSUME TypeOK, NEW w \in Nat, NEW r \in Nat, NEW str \in [Nat -> Byte], NEW off \in [Nat -> Nat],
           RingAt(w, r, str, off), rpc # "idle"
    PROVE  /\ ReadFrom(r) \in Nat
           /\ ReadingHeader(ReadFrom(r), off) \/ ReadingBody(ReadFrom(r), str, off)
           /\ ReadSoFar(ReadFrom(r), w, str)
           /\ rpc = "signal" => ReadFrom(r) + rlen = r
           /\ rpc # "signal" => ReadFrom(r) = r
<1>1. Reading(ReadFrom(r), w, str, off) /\ rlen \in Nat
  BY RingParts DEF ReaderAt
<1>2. /\ ReadingHeader(ReadFrom(r), off) \/ ReadingBody(ReadFrom(r), str, off)
      /\ ReadSoFar(ReadFrom(r), w, str)
  BY <1>1 DEF Reading
<1>3. ReadFrom(r) \in Nat
  BY <1>2, ReadPosition
<1>4. /\ rpc = "signal" => ReadFrom(r) + rlen = r
      /\ rpc # "signal" => ReadFrom(r) = r
  BY <1>1 DEF ReadFrom
<1>. QED BY <1>2, <1>3, <1>4

\* Recv: read is called for the header of the next message.
LEMMA RecvStep ==
    ASSUME TypeOK, NEW w \in Nat, NEW r \in Nat, NEW str \in [Nat -> Byte], NEW off \in [Nat -> Nat],
           RingAt(w, r, str, off), Recv
    PROVE  TypeOK' /\ RingInv'
<1>1. /\ rpc = "idle" /\ rpc' = "read" /\ rlen' = Header /\ need' = -1
      /\ UNCHANGED <<fixed, view, waiting, sender, rbuf, body, received>>
  BY DEF Recv
<1>2. /\ out = r % Modulus /\ r <= w /\ ReaderAt(w, r, str, off) /\ BodiesInOrder
  BY RingParts
<1>3. r = off[Len(received)] /\ rbuf = <<>> /\ body = <<>>
  BY <1>1, <1>2 DEF ReaderAt
<1>4. UNCHANGED <<buffer, in, out, waiting, sent, rbuf, body, received>>
  BY <1>1 DEF view, sender
<1>5. ReadingHeader(r, off)'
  BY <1>1, <1>3, <1>4 DEF ReadingHeader
<1>6. Bytes(rbuf', str, r)
  BY <1>3, <1>4, BytesEmpty
<1>7. ReadSoFar(r, w, str)'
  BY <1>1, <1>3, <1>4, <1>6 DEF ReadSoFar, Bytes
<1>8. ReaderAt(w, r, str, off)'
  BY <1>1, <1>5, <1>7 DEF ReaderAt, Reading, ReadFrom
<1>9. BodiesInOrder'
  BY <1>2, <1>4 DEF BodiesInOrder
<1>10. /\ waiting' \subseteq {"sender", "receiver"}
       /\ rbuf' \in Seq(Byte) /\ body' \in Seq(Byte) /\ received' \in Seq(Seq(Byte))
  BY <1>4 DEF TypeOK
<1>11. rlen' \in 0 .. buf_size /\ need' \in -1 .. Limit - 1
  <2> DEFINE lim == Limit
  <2>1. lim \in Nat \ {0}
    BY LimitType
  <2> HIDE DEF lim
  <2>2. Header \in 0 .. buf_size /\ -1 \in -1 .. lim - 1
    BY <2>1, Sizes
  <2>. QED BY <1>1, <2>2 DEF lim
<1>12. /\ UNCHANGED <<fixed, buffer, in, sender>> /\ r <= r /\ r <= w /\ out' = r % Modulus
       /\ rpc' \in {"idle", "read", "signal", "second", "publish"}
  BY <1>1, <1>2, <1>4
<1>. QED BY <1>8, <1>9, <1>10, <1>11, <1>12, ReceiverStepKeeps

\* What NextRead leaves, as the end of a step that moves the end of the bytes in
\* the ring to position x, behind the bytes read.
LEMMA ReadReturns ==
    ASSUME TypeOK, NEW w \in Nat, NEW r \in Nat, NEW str \in [Nat -> Byte], NEW off \in [Nat -> Nat],
           RingAt(w, r, str, off), rpc \in {"publish", "signal"}, NextRead(rbuf),
           UNCHANGED <<fixed, buffer, in, sender>>, waiting' \subseteq {"sender", "receiver"},
           NEW x \in Nat, x = ReadFrom(r) + rlen, r <= x, out' = x % Modulus
    PROVE  TypeOK' /\ RingInv'
<1> DEFINE p == ReadFrom(r)
<1>1. /\ p \in Nat /\ (ReadingHeader(p, off) \/ ReadingBody(p, str, off))
      /\ ReadSoFar(p, w, str)
  BY ReaderParts
<1>2. w <= off[Len(sent)] /\ Framed(str, off) /\ BodiesInOrder
  BY RingParts
<1>3. UNCHANGED <<sent, m_buf_size>>
  BY DEF sender, fixed
<1>4. Bytes(rbuf, str, p) /\ Len(rbuf) = rlen /\ p + rlen <= w
  BY <1>1 DEF ReadSoFar
<1> HIDE DEF p
<1>5. x = p + rlen /\ x <= w
  BY <1>4 DEF p
<1>6. /\ rpc' \in {"idle", "read"} /\ rlen' \in 0 .. buf_size /\ rbuf' = <<>>
      /\ need' \in -1 .. Limit - 1 /\ body' \in Seq(Byte)
      /\ received' \in Seq(Seq(Byte)) /\ BodiesInOrder'
      /\ ReaderAt(w, x, str, off)'
  BY <1>1, <1>2, <1>3, <1>4, <1>5, NextReadStep
<1>7. /\ rpc' \in {"idle", "read", "signal", "second", "publish"} /\ rbuf' \in Seq(Byte)
  BY <1>6
<1>. QED BY <1>5, <1>6, <1>7, ReceiverStepKeeps

\* A step within a read, which moves the end of the bytes in the ring to position
\* x: the receiver is at the same position of the stream.
LEMMA ReadContinues ==
    ASSUME TypeOK, NEW w \in Nat, NEW r \in Nat, NEW str \in [Nat -> Byte], NEW off \in [Nat -> Nat],
           RingAt(w, r, str, off), rpc \in {"read", "second"}, rpc' \in {"signal", "second", "publish"},
           UNCHANGED <<fixed, buffer, in, sender, rlen, need, body, received>>,
           waiting' \subseteq {"sender", "receiver"},
           NEW x \in Nat, x = (IF rpc' = "signal" THEN r + rlen ELSE r), out' = x % Modulus,
           r + rlen <= w, rbuf' \in Seq(Byte), Bytes(rbuf', str, r),
           Len(rbuf') = (IF rpc' = "second" THEN Unwrapped(rlen, r) ELSE rlen)
    PROVE  TypeOK' /\ RingInv'
<1>1. ReadingHeader(r, off) \/ ReadingBody(r, str, off)
  <2>1. rpc # "idle" /\ rpc # "signal"
    OBVIOUS
  <2>2. ReadFrom(r) = r
    BY <2>1, ReaderParts
  <2>3. ReadingHeader(ReadFrom(r), off) \/ ReadingBody(ReadFrom(r), str, off)
    BY <2>1, ReaderParts
  <2>. QED BY <2>2, <2>3
<1>2. rlen \in Nat /\ BodiesInOrder
  BY RingParts
<1>3. UNCHANGED <<sent, m_buf_size, rlen, need, body, received>>
  BY DEF sender, fixed
<1>4. ReadingHeader(r, off)' \/ ReadingBody(r, str, off)'
  BY <1>1, <1>3 DEF ReadingHeader, ReadingBody, Bytes
<1>5. ReadSoFar(r, w, str)'
  BY <1>3 DEF ReadSoFar, Bytes, Unwrapped, Smaller
<1>6. Reading(r, w, str, off)'
  BY <1>4, <1>5 DEF Reading
<1>7. ReadFrom(x)' = r
  BY <1>2, <1>3 DEF ReadFrom
<1>8. ReaderAt(w, x, str, off)'
  BY <1>6, <1>7 DEF ReaderAt
<1>9. BodiesInOrder'
  BY <1>2, <1>3 DEF BodiesInOrder
<1>10. r <= x /\ x <= w
  BY <1>2
<1>11. /\ rlen' \in 0 .. buf_size /\ need' \in -1 .. Limit - 1
       /\ body' \in Seq(Byte) /\ received' \in Seq(Seq(Byte))
  BY <1>3 DEF TypeOK
<1>12. rpc' \in {"idle", "read", "signal", "second", "publish"}
  OBVIOUS
<1>13. UNCHANGED <<fixed, buffer, in, sender>>
  OBVIOUS
<1>. QED BY <1>8, <1>9, <1>10, <1>11, <1>12, <1>13, ReceiverStepKeeps

\* The next value of a counter that moves by len.
LEMMA Moved ==
    ASSUME NEW c, NEW p \in Nat, NEW len \in Nat, c = p % Modulus
    PROVE  (c + len) % Modulus = (p + len) % Modulus /\ p + len \in Nat
<1>1. p \in Int /\ len \in Int /\ Modulus \in Nat \ {0}
  BY Sizes
<1>2. ((p % Modulus) + len) % Modulus = (p + len) % Modulus
  BY <1>1, ModSum
<1>. QED BY <1>2

\* ReadCv: the bytes are copied and out is moved, or the receiver waits.
LEMMA ReadCvStep ==
    ASSUME TypeOK, NEW w \in Nat, NEW r \in Nat, NEW str \in [Nat -> Byte], NEW off \in [Nat -> Nat],
           RingAt(w, r, str, off), ReadCv
    PROVE  TypeOK' /\ RingInv'
<1>1. /\ rpc = "read"
      /\ UNCHANGED <<fixed, buffer, in, rlen, need, body, received, sender>>
  BY DEF ReadCv
<1>2. /\ in = w % Modulus /\ out = r % Modulus /\ r <= w /\ w <= r + buf_size
      /\ Holds(buffer, str, r, w) /\ ReaderAt(w, r, str, off) /\ BodiesInOrder
      /\ buffer \in [Cell -> Byte] /\ rlen \in 0 .. buf_size /\ rlen \in Nat
  BY RingParts
<1>3. can_get(rlen) <=> r + rlen <= w
  <2>1. rlen \in Int
    BY <1>2
  <2>. QED BY <1>2, <2>1, CanGetIs
<1>4. waiting \subseteq {"sender", "receiver"}
  BY DEF TypeOK
<1>5. CASE can_get(rlen)
  <2>1. /\ rbuf' = GetFirst \o GetSecond /\ out' = (out + GetLen) % Modulus
        /\ rpc' = "signal" /\ UNCHANGED waiting
    BY <1>5 DEF ReadCv
  <2>2. r + rlen <= w
    BY <1>3, <1>5
  <2> DEFINE u == Unwrapped(rlen, r)
  <2>3. /\ u \in 0 .. rlen
        /\ GetFirst \in Seq(Byte) /\ Len(GetFirst) = u /\ Bytes(GetFirst, str, r)
        /\ GetSecond \in Seq(Byte) /\ Len(GetSecond) = rlen - u /\ Bytes(GetSecond, str, r + u)
    BY <1>2, <2>2, GetReads
  <2> HIDE DEF u
  <2>4. Bytes(GetSecond, str, r + Len(GetFirst))
    BY <2>3
  <2>5. rbuf' \in Seq(Byte) /\ Len(rbuf') = u + (rlen - u) /\ Bytes(rbuf', str, r)
    BY <2>1, <2>3, <2>4, BytesConcat
  <2>6. Len(rbuf') = rlen
    BY <1>2, <2>3, <2>5
  <2>7. GetLen = rlen
    BY <1>2, <2>2, GetLenIs
  <2>8. out' = (r + rlen) % Modulus /\ r + rlen \in Nat
    BY <1>2, <2>1, <2>7, Moved
  <2> DEFINE x == r + rlen
  <2>9. x \in Nat /\ out' = x % Modulus /\ x = IF rpc' = "signal" THEN r + rlen ELSE r
    BY <2>1, <2>8
  <2>10. /\ rpc \in {"read", "second"} /\ rpc' \in {"signal", "second", "publish"}
         /\ waiting' \subseteq {"sender", "receiver"}
         /\ Len(rbuf') = IF rpc' = "second" THEN Unwrapped(rlen, r) ELSE rlen
    BY <1>1, <1>4, <2>1, <2>6
  <2> HIDE DEF x
  <2>. QED BY <1>1, <2>2, <2>5, <2>9, <2>10, ReadContinues
<1>6. CASE ~can_get(rlen)
  <2>1. waiting' = waiting \cup {"receiver"} /\ UNCHANGED <<rbuf, out, rpc>>
    BY <1>6 DEF ReadCv
  <2>2. waiting' \subseteq {"sender", "receiver"} /\ UNCHANGED <<sent, m_buf_size>>
    BY <1>1, <1>4, <2>1 DEF sender, fixed
  <2>3. UNCHANGED <<receiver, sent, m_buf_size>>
    BY <1>1, <2>1, <2>2 DEF receiver
  <2>4. w <= w
    OBVIOUS
  <2>5. ReaderAt(w, r, str, off)' /\ BodiesInOrder'
    BY <1>2, <2>3, <2>4, ReaderKept
  <2>6. /\ rpc' \in {"idle", "read", "signal", "second", "publish"}
        /\ rlen' \in 0 .. buf_size /\ rbuf' \in Seq(Byte)
        /\ need' \in -1 .. Limit - 1 /\ body' \in Seq(Byte)
        /\ received' \in Seq(Seq(Byte))
    BY <2>3 DEF receiver, TypeOK
  <2>7. r <= r /\ r <= w /\ out' = r % Modulus /\ UNCHANGED <<fixed, buffer, in, sender>>
    BY <1>1, <1>2, <2>1
  <2>. QED BY <2>2, <2>5, <2>6, <2>7, ReceiverStepKeeps
<1>. QED BY <1>5, <1>6

\* ReadSignal: a waiting side is woken and read returns.
LEMMA ReadSignalStep ==
    ASSUME TypeOK, NEW w \in Nat, NEW r \in Nat, NEW str \in [Nat -> Byte], NEW off \in [Nat -> Nat],
           RingAt(w, r, str, off), ReadSignal
    PROVE  TypeOK' /\ RingInv'
<1>1. /\ rpc = "signal" /\ Signal /\ NextRead(rbuf) /\ UNCHANGED <<fixed, view, sender>>
  BY DEF ReadSignal
<1>2. UNCHANGED <<fixed, buffer, in, sender>> /\ out' = out
  BY <1>1 DEF view
<1>3. waiting' \subseteq {"sender", "receiver"}
  BY <1>1 DEF Signal, TypeOK
<1>4. out' = r % Modulus
  BY <1>2, RingParts
<1>5. r = ReadFrom(r) + rlen /\ r <= r
  <2>1. rpc # "idle" /\ rpc = "signal"
    BY <1>1
  <2>2. ReadFrom(r) + rlen = r
    BY <2>1, ReaderParts
  <2>. QED BY <2>2
<1>6. rpc \in {"publish", "signal"}
  BY <1>1
<1>. QED BY <1>1, <1>2, <1>3, <1>4, <1>5, <1>6, ReadReturns

\* ReadSpin: the bytes before the wrap are copied.
LEMMA ReadSpinStep ==
    ASSUME TypeOK, NEW w \in Nat, NEW r \in Nat, NEW str \in [Nat -> Byte], NEW off \in [Nat -> Nat],
           RingAt(w, r, str, off), ReadSpin
    PROVE  TypeOK' /\ RingInv'
<1>1. /\ rpc = "read" /\ can_get(rlen) /\ rbuf' = GetFirst /\ rpc' = "second"
      /\ UNCHANGED <<fixed, view, waiting, rlen, need, body, received, sender>>
  BY DEF ReadSpin
<1>2. /\ in = w % Modulus /\ out = r % Modulus /\ r <= w /\ w <= r + buf_size
      /\ Holds(buffer, str, r, w)
      /\ buffer \in [Cell -> Byte] /\ rlen \in 0 .. buf_size /\ rlen \in Nat
  BY RingParts
<1>3. r + rlen <= w
  <2>1. rlen \in Int
    BY <1>2
  <2>. QED BY <1>1, <1>2, <2>1, CanGetIs
<1>4. rbuf' \in Seq(Byte) /\ Len(rbuf') = Unwrapped(rlen, r) /\ Bytes(rbuf', str, r)
  BY <1>1, <1>2, <1>3, GetReads
<1>5. /\ UNCHANGED <<fixed, buffer, in, sender, rlen, need, body, received>>
      /\ rpc \in {"read", "second"} /\ rpc' \in {"signal", "second", "publish"}
      /\ r = (IF rpc' = "signal" THEN r + rlen ELSE r) /\ out' = r % Modulus
      /\ Len(rbuf') = (IF rpc' = "second" THEN Unwrapped(rlen, r) ELSE rlen)
  BY <1>1, <1>2, <1>4 DEF view
<1>6. waiting' \subseteq {"sender", "receiver"}
  BY <1>1 DEF TypeOK
<1>. QED BY <1>3, <1>4, <1>5, <1>6, ReadContinues

\* ReadSecond: the bytes after the wrap are copied.
LEMMA ReadSecondStep ==
    ASSUME TypeOK, NEW w \in Nat, NEW r \in Nat, NEW str \in [Nat -> Byte], NEW off \in [Nat -> Nat],
           RingAt(w, r, str, off), ReadSecond
    PROVE  TypeOK' /\ RingInv'
<1>1. /\ rpc = "second" /\ rbuf' = rbuf \o GetSecond /\ rpc' = "publish"
      /\ UNCHANGED <<fixed, view, waiting, rlen, need, body, received, sender>>
  BY DEF ReadSecond
<1>2. /\ in = w % Modulus /\ out = r % Modulus /\ r <= w /\ w <= r + buf_size
      /\ Holds(buffer, str, r, w)
      /\ buffer \in [Cell -> Byte] /\ rlen \in 0 .. buf_size /\ rlen \in Nat
  BY RingParts
<1>3. Bytes(rbuf, str, r) /\ Len(rbuf) = Unwrapped(rlen, r) /\ r + rlen <= w
  <2>1. rpc # "idle" /\ rpc # "signal"
    BY <1>1
  <2>2. ReadFrom(r) = r /\ ReadSoFar(ReadFrom(r), w, str)
    BY <2>1, ReaderParts
  <2>. QED BY <1>1, <2>2 DEF ReadSoFar
<1> DEFINE u == Unwrapped(rlen, r)
<1>4. /\ u \in 0 .. rlen
      /\ GetSecond \in Seq(Byte) /\ Len(GetSecond) = rlen - u /\ Bytes(GetSecond, str, r + u)
  BY <1>2, <1>3, GetReads
<1>5. rbuf \in Seq(Byte) /\ Len(rbuf) = u
  BY <1>3, SeqTypes
<1> HIDE DEF u
<1>6. Bytes(GetSecond, str, r + Len(rbuf))
  BY <1>4, <1>5
<1>7. rbuf' \in Seq(Byte) /\ Len(rbuf') = u + (rlen - u) /\ Bytes(rbuf', str, r)
  BY <1>1, <1>3, <1>4, <1>5, <1>6, BytesConcat
<1>8. Len(rbuf') = rlen
  BY <1>2, <1>4, <1>7
<1>9. /\ UNCHANGED <<fixed, buffer, in, sender, rlen, need, body, received>>
      /\ rpc \in {"read", "second"} /\ rpc' \in {"signal", "second", "publish"}
      /\ r = (IF rpc' = "signal" THEN r + rlen ELSE r) /\ out' = r % Modulus
      /\ Len(rbuf') = (IF rpc' = "second" THEN Unwrapped(rlen, r) ELSE rlen)
  BY <1>1, <1>2, <1>8 DEF view
<1>10. waiting' \subseteq {"sender", "receiver"}
  BY <1>1 DEF TypeOK
<1>. QED BY <1>3, <1>7, <1>9, <1>10, ReadContinues

\* ReadPublish: out is moved and read returns.
LEMMA ReadPublishStep ==
    ASSUME TypeOK, NEW w \in Nat, NEW r \in Nat, NEW str \in [Nat -> Byte], NEW off \in [Nat -> Nat],
           RingAt(w, r, str, off), ReadPublish
    PROVE  TypeOK' /\ RingInv'
<1>1. /\ rpc = "publish" /\ out' = (out + GetLen) % Modulus /\ NextRead(rbuf)
      /\ UNCHANGED <<fixed, buffer, in, waiting, sender>>
  BY DEF ReadPublish
<1>2. /\ in = w % Modulus /\ out = r % Modulus /\ r <= w /\ w <= r + buf_size
      /\ rlen \in Nat
  BY RingParts
<1>3. ReadFrom(r) = r /\ r + rlen <= w
  <2>1. rpc # "idle" /\ rpc # "signal"
    BY <1>1
  <2>2. ReadFrom(r) = r /\ ReadSoFar(ReadFrom(r), w, str)
    BY <2>1, ReaderParts
  <2>. QED BY <1>1, <2>2 DEF ReadSoFar
<1>4. GetLen = rlen
  BY <1>2, <1>3, GetLenIs
<1>5. out' = (r + rlen) % Modulus /\ r + rlen \in Nat
  BY <1>1, <1>2, <1>4, Moved
<1> DEFINE x == r + rlen
<1>6. out' = x % Modulus /\ x \in Nat /\ x = ReadFrom(r) + rlen /\ r <= x
  BY <1>2, <1>3, <1>5
<1> HIDE DEF x
<1>7. rpc \in {"publish", "signal"} /\ waiting' \subseteq {"sender", "receiver"}
  BY <1>1 DEF TypeOK
<1>. QED BY <1>1, <1>6, <1>7, ReadReturns

-----------------------------------------------------------------------------
(* The steps of the sender *)

\* The invariant after a step of the sender within a message, which moves the
\* beginning of the free cells to position v.
LEMMA SenderStepKeeps ==
    ASSUME TypeOK, NEW w \in Nat, NEW r \in Nat, NEW str \in [Nat -> Byte], NEW off \in [Nat -> Nat],
           RingAt(w, r, str, off), UNCHANGED <<fixed, out, sent, receiver>>,
           waiting' \subseteq {"sender", "receiver"},
           NEW v \in Nat, w <= v, v <= r + buf_size, v <= off[Len(sent)], in' = v % Modulus,
           buffer' \in [Cell -> Byte], Holds(buffer, str, r, Stored(v))',
           wpc' \in {"idle", "write", "signal", "second", "publish"},
           wbuf' \in Seq(Byte), wrest' \in Seq(Byte), WriterAt(v, r, str, off)'
    PROVE  TypeOK' /\ RingInv'
<1>1. /\ out = r % Modulus /\ r <= w
      /\ Framed(str, off) /\ ReaderAt(w, r, str, off) /\ BodiesInOrder /\ rlen \in Nat
  BY RingParts
<1>2. UNCHANGED <<enable_cv, m_buf_size, out, sent, rpc, rlen, rbuf, need, body, received>>
  BY DEF fixed, receiver
<1>3. ReaderAt(v, r, str, off)' /\ BodiesInOrder'
  BY <1>1, <1>2, ReaderKept
<1>4. Framed(str, off)'
  BY <1>1, <1>2, FramedKept
<1>5. Positions(v, r, off)'
  BY <1>1, <1>2 DEF Positions
<1>6. RingAt(v, r, str, off)'
  BY <1>3, <1>4, <1>5 DEF RingAt
<1>7. RingInv'
  BY <1>6 DEF RingInv
<1>8. in' \in 0 .. Modulus - 1 /\ out' \in 0 .. Modulus - 1
  BY <1>1, <1>2, CounterRange
<1>9. TypeOK'
  <2>1. /\ enable_cv' \in BOOLEAN
        /\ m_buf_size' \in [{"sender", "receiver"} -> Chunk \cup {buf_size}]
        /\ rpc' \in {"idle", "read", "signal", "second", "publish"}
        /\ rlen' \in 0 .. buf_size /\ rbuf' \in Seq(Byte)
        /\ need' \in -1 .. Limit - 1 /\ body' \in Seq(Byte)
        /\ sent' \in Seq(Message) /\ received' \in Seq(Seq(Byte))
    BY <1>2 DEF TypeOK
  <2>2. {in', out'} \subseteq 0 .. Modulus - 1
    BY <1>8
  <2>. QED BY <2>1, <2>2 DEF TypeOK
<1>. QED BY <1>7, <1>9

\* What the sender is at, in a write.
LEMMA WriterParts ==
    ASSUME TypeOK, NEW w \in Nat, NEW r \in Nat, NEW str \in [Nat -> Byte], NEW off \in [Nat -> Nat],
           RingAt(w, r, str, off), wpc \in {"write", "second", "publish"}
    PROVE  /\ Writing(w, str, off) /\ Bytes(wbuf, str, w)
           /\ Len(wbuf) \in 0 .. buf_size /\ Len(wbuf) \in Nat /\ wbuf \in Seq(Byte)
           /\ w + Len(wbuf) <= off[Len(sent)]
           /\ LeftToWrite(w + Len(wbuf), str, off)
           /\ wpc # "write" => w + Len(wbuf) <= r + buf_size
<1>1. WriterAt(w, r, str, off)
  BY RingParts
<1>2. Writing(w, str, off) /\ (wpc # "write" => w + Len(wbuf) <= r + buf_size)
  BY <1>1 DEF WriterAt
<1> DEFINE n == Len(wbuf)
           z == Len(wrest)
<1>3. n \in Nat /\ z \in Nat /\ wbuf \in Seq(Byte)
  BY SeqTypes
<1>4. n \in 1 .. buf_size /\ w + n + z = off[Len(sent)] /\ Bytes(wbuf, str, w)
  BY <1>2 DEF Writing
<1>5. LeftToWrite(w + Len(wbuf), str, off)
  BY <1>2, WrittenLeft
<1> HIDE DEF n, z
<1>6. n \in 0 .. buf_size /\ w + n <= off[Len(sent)]
  BY <1>3, <1>4, Sizes
<1>. QED BY <1>2, <1>3, <1>4, <1>5, <1>6 DEF n

\* WriteCv: the bytes are copied and in is moved, or the sender waits.
LEMMA WriteCvStep ==
    ASSUME TypeOK, NEW w \in Nat, NEW r \in Nat, NEW str \in [Nat -> Byte], NEW off \in [Nat -> Nat],
           RingAt(w, r, str, off), WriteCv
    PROVE  TypeOK' /\ RingInv'
<1> DEFINE n == Len(wbuf)
<1>1. /\ wpc = "write" /\ UNCHANGED <<fixed, out, wbuf, wrest, sent, receiver>>
  BY DEF WriteCv
<1>2. /\ in = w % Modulus /\ out = r % Modulus /\ r <= w /\ w <= r + buf_size
      /\ w <= off[Len(sent)] /\ WriterAt(w, r, str, off)
      /\ Holds(buffer, str, r, w) /\ buffer \in [Cell -> Byte]
  BY RingParts
<1>3. /\ n \in 0 .. buf_size /\ n \in Nat /\ wbuf \in Seq(Byte) /\ Bytes(wbuf, str, w)
      /\ w + n <= off[Len(sent)] /\ LeftToWrite(w + n, str, off)
  BY <1>1, WriterParts
<1>4. can_put(n) <=> w + n <= r + buf_size
  BY <1>2, <1>3, CanPutIs
<1>5. wbuf' \in Seq(Byte) /\ wrest' \in Seq(Byte) /\ waiting \subseteq {"sender", "receiver"}
  BY <1>1, SeqTypes DEF TypeOK
<1>6. m_buf_size' = m_buf_size
  BY <1>1 DEF fixed
<1>7. CASE can_put(n)
  <2>1. /\ buffer' = PutSecond(PutFirst) /\ in' = (in + PutLen) % Modulus
        /\ wpc' = "signal" /\ UNCHANGED waiting
    BY <1>7 DEF WriteCv
  <2>2. w + n <= r + buf_size
    BY <1>4, <1>7
  <2>3. PutFirst \in [Cell -> Byte] /\ Holds(PutFirst, str, r, w + Unwrapped(n, w))
    BY <1>2, <1>3, <2>2, PutFirstHolds
  <2>4. buffer' \in [Cell -> Byte] /\ Holds(buffer', str, r, w + n)
    BY <1>2, <1>3, <2>1, <2>2, <2>3, PutSecondHolds
  <2>5. PutLen = n
    BY <1>2, <1>3, <2>2, PutLenIs
  <2>6. in' = (w + n) % Modulus /\ w + n \in Nat
    BY <1>2, <1>3, <2>1, <2>5, Moved
  <2>7. w <= w + n
    BY <1>3
  <2>8. PICK v \in Nat : v = w + n
    BY <2>6
  <2>9. w <= v /\ v <= r + buf_size /\ v <= off[Len(sent)] /\ in' = v % Modulus
        /\ LeftToWrite(v, str, off) /\ Holds(buffer', str, r, v)
    BY <1>3, <2>2, <2>4, <2>6, <2>7, <2>8
  <2> HIDE DEF n
  <2>10. WriterAt(v, r, str, off)'
    BY <1>1, <1>6, <2>1, <2>9 DEF WriterAt, LeftToWrite, WriteAligned, Bytes
  <2>11. Holds(buffer, str, r, Stored(v))'
    BY <2>1, <2>9 DEF Holds, Stored
  <2>12. waiting' \subseteq {"sender", "receiver"}
    BY <1>5, <2>1
  <2>13. /\ UNCHANGED <<fixed, out, sent, receiver>>
         /\ wpc' \in {"idle", "write", "signal", "second", "publish"}
    BY <1>1, <1>5, <2>1
  <2>. QED BY <1>5, <2>4, <2>9, <2>10, <2>11, <2>13, <2>12, SenderStepKeeps
<1>8. CASE ~can_put(n)
  <2>1. waiting' = waiting \cup {"sender"} /\ UNCHANGED <<buffer, in, wpc>>
    BY <1>8 DEF WriteCv
  <2>2. WriterAt(w, r, str, off)'
    <3>1. Writing(w, str, off)
      BY <1>1, WriterParts
    <3>2. Writing(w, str, off)'
      BY <1>1, <1>6, <3>1 DEF Writing, WriteAligned, Bytes
    <3>. QED BY <1>1, <2>1, <3>2 DEF WriterAt
  <2>3. Holds(buffer, str, r, Stored(w))'
    BY <1>1, <1>2, <2>1 DEF Holds, Stored
  <2>4. /\ UNCHANGED <<fixed, out, sent, receiver>>
        /\ wpc' \in {"idle", "write", "signal", "second", "publish"}
        /\ in' = w % Modulus /\ buffer' \in [Cell -> Byte]
    BY <1>1, <1>2, <2>1
  <2>5. waiting' \subseteq {"sender", "receiver"}
    BY <1>5, <2>1
  <2>6. w <= w
    OBVIOUS
  <2>. QED BY <1>2, <1>5, <2>2, <2>3, <2>4, <2>5, <2>6, SenderStepKeeps
<1>. QED BY <1>7, <1>8

\* WriteSignal: a waiting side is woken; send goes on to the next chunk or returns.
LEMMA WriteSignalStep ==
    ASSUME TypeOK, NEW w \in Nat, NEW r \in Nat, NEW str \in [Nat -> Byte], NEW off \in [Nat -> Nat],
           RingAt(w, r, str, off), WriteSignal
    PROVE  TypeOK' /\ RingInv'
<1>1. /\ wpc = "signal" /\ Signal /\ NextWrite(wrest) /\ UNCHANGED <<fixed, view, receiver>>
  BY DEF WriteSignal
<1>2. /\ in = w % Modulus /\ w <= r + buf_size /\ w <= off[Len(sent)]
      /\ WriterAt(w, r, str, off) /\ Holds(buffer, str, r, w) /\ buffer \in [Cell -> Byte]
  BY RingParts
<1>3. UNCHANGED <<fixed, out, receiver, m_buf_size, buffer, in>>
  BY <1>1 DEF view, fixed
<1>4. waiting' \subseteq {"sender", "receiver"}
  BY <1>1 DEF Signal, TypeOK
<1>5. LeftToWrite(w, str, off)
  BY <1>1, <1>2 DEF WriterAt
<1>6. /\ sent' = sent /\ wpc' \in {"idle", "write"}
      /\ wbuf' \in Seq(Byte) /\ wrest' \in Seq(Byte) /\ WriterAt(w, r, str, off)'
  BY <1>1, <1>3, <1>5, NextWriteStep
<1>7. Holds(buffer, str, r, Stored(w))'
  BY <1>2, <1>3, <1>6 DEF Holds, Stored
<1>8. /\ UNCHANGED <<fixed, out, sent, receiver>> /\ buffer' \in [Cell -> Byte]
      /\ in' = w % Modulus /\ wpc' \in {"idle", "write", "signal", "second", "publish"}
  BY <1>1, <1>2, <1>3, <1>6
<1>9. w <= w
  OBVIOUS
<1>. QED BY <1>2, <1>4, <1>6, <1>7, <1>8, <1>9, SenderStepKeeps

\* A copy of write without the mutex: in, and what send is at, stay.
LEMMA WriteContinues ==
    ASSUME TypeOK, NEW w \in Nat, NEW r \in Nat, NEW str \in [Nat -> Byte], NEW off \in [Nat -> Nat],
           RingAt(w, r, str, off), wpc \in {"write", "second"}, wpc' \in {"second", "publish"},
           UNCHANGED <<fixed, in, out, waiting, wbuf, wrest, sent, receiver>>,
           w + Len(wbuf) <= r + buf_size,
           buffer' \in [Cell -> Byte], Holds(buffer, str, r, Stored(w))'
    PROVE  TypeOK' /\ RingInv'
<1>1. in = w % Modulus /\ w <= r + buf_size /\ w <= off[Len(sent)]
  BY RingParts
<1>2. Writing(w, str, off)
  BY WriterParts
<1>3. UNCHANGED <<m_buf_size, wbuf, wrest, sent>>
  BY DEF fixed
<1>4. Writing(w, str, off)'
  BY <1>2, <1>3 DEF Writing, WriteAligned, Bytes
<1>5. WriterAt(w, r, str, off)'
  BY <1>3, <1>4 DEF WriterAt
<1>6. wbuf' \in Seq(Byte) /\ wrest' \in Seq(Byte)
  BY <1>3, SeqTypes
<1>7. waiting' \subseteq {"sender", "receiver"}
  BY DEF TypeOK
<1>8. /\ UNCHANGED <<fixed, out, sent, receiver>> /\ w <= w /\ in' = w % Modulus
      /\ wpc' \in {"idle", "write", "signal", "second", "publish"}
  BY <1>1
<1>. QED BY <1>1, <1>5, <1>6, <1>7, <1>8, SenderStepKeeps

\* WriteSpin: the bytes before the wrap are copied.
LEMMA WriteSpinStep ==
    ASSUME TypeOK, NEW w \in Nat, NEW r \in Nat, NEW str \in [Nat -> Byte], NEW off \in [Nat -> Nat],
           RingAt(w, r, str, off), WriteSpin
    PROVE  TypeOK' /\ RingInv'
<1>1. /\ wpc = "write" /\ can_put(Len(wbuf)) /\ buffer' = PutFirst /\ wpc' = "second"
      /\ UNCHANGED <<fixed, in, out, waiting, wbuf, wrest, sent, receiver>>
  BY DEF WriteSpin
<1>2. /\ in = w % Modulus /\ out = r % Modulus /\ r <= w /\ w <= r + buf_size
      /\ Holds(buffer, str, r, w) /\ buffer \in [Cell -> Byte]
  BY RingParts
<1>3. Len(wbuf) \in 0 .. buf_size /\ wbuf \in Seq(Byte) /\ Bytes(wbuf, str, w)
  BY <1>1, WriterParts
<1>4. w + Len(wbuf) <= r + buf_size
  BY <1>1, <1>2, <1>3, CanPutIs
<1>5. buffer' \in [Cell -> Byte] /\ Holds(buffer', str, r, w + Unwrapped(Len(wbuf), w))
  BY <1>1, <1>2, <1>3, <1>4, PutFirstHolds
<1>6. Stored(w)' = w + Unwrapped(Len(wbuf), w)
  BY <1>1 DEF Stored, Unwrapped, Smaller
<1>7. Holds(buffer, str, r, Stored(w))'
  BY <1>5, <1>6 DEF Holds
<1>8. wpc \in {"write", "second"} /\ wpc' \in {"second", "publish"}
  BY <1>1
<1>. QED BY <1>1, <1>4, <1>5, <1>7, <1>8, WriteContinues

\* WriteSecond: the bytes after the wrap are copied.
LEMMA WriteSecondStep ==
    ASSUME TypeOK, NEW w \in Nat, NEW r \in Nat, NEW str \in [Nat -> Byte], NEW off \in [Nat -> Nat],
           RingAt(w, r, str, off), WriteSecond
    PROVE  TypeOK' /\ RingInv'
<1>1. /\ wpc = "second" /\ buffer' = PutSecond(buffer) /\ wpc' = "publish"
      /\ UNCHANGED <<fixed, in, out, waiting, wbuf, wrest, sent, receiver>>
  BY DEF WriteSecond
<1>2. /\ in = w % Modulus /\ out = r % Modulus /\ r <= w /\ w <= r + buf_size
      /\ Holds(buffer, str, r, Stored(w)) /\ buffer \in [Cell -> Byte]
  BY RingParts
<1>3. Stored(w) = w + Unwrapped(Len(wbuf), w)
  BY <1>1 DEF Stored
<1>4. wbuf \in Seq(Byte) /\ Bytes(wbuf, str, w) /\ w + Len(wbuf) <= r + buf_size
  BY <1>1, WriterParts
<1>5. buffer' \in [Cell -> Byte] /\ Holds(buffer', str, r, w + Len(wbuf))
  BY <1>1, <1>2, <1>3, <1>4, PutSecondHolds
<1>6. Stored(w)' = w + Len(wbuf)
  BY <1>1 DEF Stored
<1>7. Holds(buffer, str, r, Stored(w))'
  BY <1>5, <1>6 DEF Holds
<1>8. wpc \in {"write", "second"} /\ wpc' \in {"second", "publish"}
  BY <1>1
<1>. QED BY <1>1, <1>4, <1>5, <1>7, <1>8, WriteContinues

\* WritePublish: in is moved; send goes on to the next chunk or returns.
LEMMA WritePublishStep ==
    ASSUME TypeOK, NEW w \in Nat, NEW r \in Nat, NEW str \in [Nat -> Byte], NEW off \in [Nat -> Nat],
           RingAt(w, r, str, off), WritePublish
    PROVE  TypeOK' /\ RingInv'
<1>1. /\ wpc = "publish" /\ in' = (in + PutLen) % Modulus /\ NextWrite(wrest)
      /\ UNCHANGED <<fixed, buffer, out, waiting, receiver>>
  BY DEF WritePublish
<1>2. /\ in = w % Modulus /\ out = r % Modulus /\ r <= w /\ w <= r + buf_size
      /\ Holds(buffer, str, r, Stored(w)) /\ buffer \in [Cell -> Byte]
  BY RingParts
<1>3. /\ Len(wbuf) \in Nat /\ w + Len(wbuf) <= r + buf_size
      /\ w + Len(wbuf) <= off[Len(sent)] /\ LeftToWrite(w + Len(wbuf), str, off)
  BY <1>1, WriterParts
<1>4. PutLen = Len(wbuf)
  BY <1>2, <1>3, PutLenIs
<1>5. in' = (w + Len(wbuf)) % Modulus /\ w + Len(wbuf) \in Nat
  BY <1>1, <1>2, <1>3, <1>4, Moved
<1>6. Stored(w) = w + Len(wbuf)
  BY <1>1 DEF Stored
<1>7. PICK v \in Nat : v = w + Len(wbuf)
  BY <1>5
<1>8. /\ v <= r + buf_size /\ v <= off[Len(sent)] /\ in' = v % Modulus
      /\ LeftToWrite(v, str, off) /\ Holds(buffer, str, r, v) /\ w <= v
  BY <1>2, <1>3, <1>5, <1>6, <1>7
<1>9. m_buf_size' = m_buf_size
  BY <1>1 DEF fixed
<1>10. /\ sent' = sent /\ wpc' \in {"idle", "write"}
       /\ wbuf' \in Seq(Byte) /\ wrest' \in Seq(Byte) /\ WriterAt(v, r, str, off)'
  BY <1>1, <1>8, <1>9, NextWriteStep
<1>11. Holds(buffer, str, r, Stored(v))'
  BY <1>1, <1>8, <1>10 DEF Holds, Stored
<1>12. /\ UNCHANGED <<fixed, out, sent, receiver>> /\ buffer' \in [Cell -> Byte]
       /\ wpc' \in {"idle", "write", "signal", "second", "publish"}
  BY <1>1, <1>2, <1>10
<1>13. waiting' \subseteq {"sender", "receiver"}
  BY <1>1 DEF TypeOK
<1>. QED BY <1>8, <1>10, <1>11, <1>12, <1>13, SenderStepKeeps

\* The stream with two sequences put at position e.
LEMMA Extend ==
    ASSUME NEW str \in [Nat -> Byte], NEW e \in Nat, NEW s \in Seq(Byte), NEW t \in Seq(Byte)
    PROVE  \E new \in [Nat -> Byte] :
              /\ \A i \in Nat : i < e => new[i] = str[i]
              /\ Bytes(s, new, e) /\ Bytes(t, new, e + Len(s))
<1> DEFINE m == Len(s)
           n == Len(t)
           val(i) == IF i < e THEN str[i] ELSE IF i < e + m THEN s[i - e + 1]
                     ELSE IF i < e + m + n THEN t[i - e - m + 1] ELSE str[i]
           new == [i \in Nat |-> val(i)]
<1>1. /\ m \in Nat /\ n \in Nat
      /\ \A i \in 1 .. m : s[i] \in Byte
      /\ \A i \in 1 .. n : t[i] \in Byte
  OBVIOUS
<1> HIDE DEF m, n
<1>2. ASSUME NEW i \in Nat PROVE val(i) \in Byte
  <2>1. CASE i < e
    BY <2>1
  <2>2. CASE i >= e /\ i < e + m
    <3>1. i - e + 1 \in 1 .. m
      BY <1>1, <2>2
    <3>2. val(i) = s[i - e + 1]
      BY <2>2
    <3>. QED BY <1>1, <3>1, <3>2
  <2>3. CASE i >= e + m /\ i < e + m + n
    <3>1. i - e - m + 1 \in 1 .. n
      BY <1>1, <2>3
    <3>2. val(i) = t[i - e - m + 1]
      BY <1>1, <2>3
    <3>. QED BY <1>1, <3>1, <3>2
  <2>4. CASE i >= e + m + n
    <3>1. val(i) = str[i]
      BY <1>1, <2>4
    <3>. QED BY <3>1
  <2>. QED BY <1>1, <2>1, <2>2, <2>3, <2>4
<1>3. new \in [Nat -> Byte]
  BY <1>2
<1>4. \A i \in Nat : i < e => new[i] = str[i]
  OBVIOUS
<1>5. ASSUME NEW i \in 1 .. m PROVE s[i] = new[e + i - 1]
  <2> DEFINE k == e + i - 1
  <2>1. k \in Nat /\ ~(k < e) /\ k < e + m /\ k - e + 1 = i
    BY <1>1
  <2>2. val(k) = s[k - e + 1]
    BY <2>1
  <2>. QED BY <2>1, <2>2
<1>6. ASSUME NEW i \in 1 .. n PROVE t[i] = new[e + m + i - 1]
  <2> DEFINE k == e + m + i - 1
  <2>1. k \in Nat /\ ~(k < e) /\ ~(k < e + m) /\ k < e + m + n /\ k - e - m + 1 = i
    BY <1>1
  <2>2. val(k) = t[k - e - m + 1]
    BY <2>1
  <2>. QED BY <2>1, <2>2
<1> HIDE DEF new
<1>7. Bytes(s, new, e) /\ Bytes(t, new, e + Len(s))
  BY <1>5, <1>6 DEF Bytes, m, n
<1>. QED BY <1>3, <1>4, <1>7

\* Send: the stream is extended by the new message's frame.
LEMMA SendStep ==
    ASSUME TypeOK, NEW w \in Nat, NEW r \in Nat, NEW str \in [Nat -> Byte], NEW off \in [Nat -> Nat],
           RingAt(w, r, str, off), Send
    PROVE  TypeOK' /\ RingInv'
<1> DEFINE ns == Len(sent)
           n == Len(received)
           e == off[ns]
<1>1. PICK m \in Message :
         /\ wbuf' = Encode(BodyLen(m)) /\ wrest' = Body(m) /\ sent' = Append(sent, m)
  BY DEF Send, BodyLen, Body
<1>2. /\ wpc = "idle" /\ wpc' = "write" /\ UNCHANGED <<fixed, view, waiting, receiver>>
  BY DEF Send
<1>3. UNCHANGED <<enable_cv, m_buf_size, buffer, in, out, waiting,
                  rpc, rlen, rbuf, need, body, received>>
  BY <1>2 DEF fixed, view, receiver
<1>4. /\ in = w % Modulus /\ out = r % Modulus /\ r <= w /\ w <= r + buf_size
      /\ Framed(str, off) /\ WriterAt(w, r, str, off) /\ ReaderAt(w, r, str, off) /\ BodiesInOrder
      /\ Holds(buffer, str, r, w) /\ rlen \in Nat
  BY RingParts
<1>5. w = e
  BY <1>2, <1>4 DEF WriterAt
<1> DEFINE l == BodyLen(m)
           s == Encode(l)
           t == Body(m)
<1>6. l \in Nat /\ t \in Seq(Byte) /\ Len(t) = l /\ s \in Seq(Byte) /\ Len(s) = Header
  BY BodyFacts, EncodeType
<1>7. ns \in Nat /\ n \in Nat /\ n <= ns
  BY <1>4, SeqTypes DEF BodiesInOrder
<1>8. sent \in Seq(Message) /\ rbuf \in Seq(Byte) /\ body \in Seq(Byte)
  BY SeqTypes
<1>9. /\ sent' \in Seq(Message) /\ Len(sent') = ns + 1 /\ sent'[ns + 1] = m
      /\ \A i \in 1 .. ns : sent'[i] = sent[i]
  BY <1>1, <1>8
<1>10. PICK new \in [Nat -> Byte] :
         /\ \A i \in Nat : i < e => new[i] = str[i]
         /\ Bytes(s, new, e) /\ Bytes(t, new, e + Header)
  BY <1>5, <1>6, Extend
<1> HIDE DEF ns, n, e, l, s, t
<1> DEFINE end == e + Header + l
<1>11. e \in Nat /\ end \in Nat /\ e <= end /\ Header \in Nat
  <2>1. e \in Nat /\ Header \in Nat /\ l \in Nat
    BY <1>5, <1>6, Sizes
  <2>. QED BY <2>1
<1> HIDE DEF end
<1>12. PICK ends \in [Nat -> Nat] :
          ends[ns + 1] = end /\ \A i \in Nat : i # ns + 1 => ends[i] = off[i]
  <2> DEFINE f == [i \in Nat |-> IF i = ns + 1 THEN end ELSE off[i]]
  <2>1. ns + 1 \in Nat
    BY <1>7
  <2>2. f \in [Nat -> Nat]
    BY <1>11
  <2>3. f[ns + 1] = end
    BY <2>1
  <2>4. \A i \in Nat : i # ns + 1 => f[i] = off[i]
    OBVIOUS
  <2> HIDE DEF f
  <2>. QED BY <2>2, <2>3, <2>4
<1>13. /\ \A i \in 0 .. ns : ends[i] = off[i]
       /\ ends[ns] = e /\ ends[ns + 1] = end
  <2>1. ASSUME NEW i \in 0 .. ns PROVE i \in Nat /\ i # ns + 1
    BY <1>7
  <2>2. \A i \in 0 .. ns : ends[i] = off[i]
    BY <1>12, <2>1
  <2>3. ns \in 0 .. ns
    BY <1>7
  <2>. QED BY <1>12, <2>2, <2>3 DEF e
<1>14. Framed(new, ends)'
  <2>1. ends[0] = 0
    BY <1>4, <1>7, <1>13 DEF Framed
  <2>2. ASSUME NEW i \in 1 .. ns PROVE Frame(i, new, ends)'
    <3> DEFINE h == i - 1
               b == BodyLen(sent[h + 1])
    <3>1. h \in Nat /\ h < ns /\ h + 1 = i /\ h \in 0 .. ns /\ i \in 0 .. ns
      BY <1>7
    <3>2. /\ sent[h + 1] \in Message /\ b \in Nat
          /\ off[h] \in Nat /\ off[h + 1] = off[h] + Header + b /\ off[h + 1] <= e
          /\ Bytes(Encode(b), str, off[h]) /\ Bytes(Body(sent[h + 1]), str, off[h] + Header)
      BY <1>4, <3>1, FrameFacts DEF ns, e
    <3>3. /\ Encode(b) \in Seq(Byte) /\ Len(Encode(b)) = Header
          /\ Body(sent[h + 1]) \in Seq(Byte) /\ Len(Body(sent[h + 1])) = b
      BY <3>2, EncodeType, BodyFacts
    <3> DEFINE o == off[h]
               x == Encode(b)
               y == Body(sent[h + 1])
    <3>4. /\ x \in Seq(Byte) /\ Len(x) = Header /\ y \in Seq(Byte) /\ Len(y) = b
          /\ o \in Nat /\ b \in Nat /\ o + Header + b <= e
          /\ Bytes(x, str, o) /\ Bytes(y, str, o + Header)
      BY <3>2, <3>3
    <3> HIDE DEF o, x, y, b
    <3>5. o + Header \in Nat /\ o + Len(x) <= e /\ (o + Header) + Len(y) <= e /\ e \in Int
      BY <1>11, <3>4
    <3>6. Bytes(x, new, o)
      BY <1>10, <3>4, <3>5, BytesAgree
    <3>7. Bytes(y, new, o + Header)
      BY <1>10, <3>4, <3>5, BytesAgree
    <3>8. sent'[i] = sent[h + 1] /\ ends[i] = off[h + 1] /\ ends[i - 1] = o
      BY <1>9, <1>13, <3>1 DEF o
    <3>9. ends[i] = o + Header + b
      BY <3>2, <3>8 DEF o
    <3>. QED BY <3>6, <3>7, <3>8, <3>9 DEF Frame, x, y, b, Bytes
  <2>3. ASSUME NEW k, k = ns + 1 PROVE Frame(k, new, ends)'
    <3>1. k - 1 = ns
      BY <1>7, <2>3
    <3>2. sent'[ns + 1] = m /\ ends[ns + 1] = ends[ns] + Header + l /\ ends[ns] = e
      BY <1>9, <1>13 DEF end
    <3>3. Bytes(Encode(l), new, ends[ns]) /\ Bytes(Body(m), new, ends[ns] + Header)
      BY <1>10, <3>2 DEF s, t
    <3>4. sent'[k] = m /\ ends[k] = ends[k - 1] + Header + l
      BY <2>3, <3>1, <3>2
    <3>5. Bytes(Encode(l), new, ends[k - 1]) /\ Bytes(Body(m), new, ends[k - 1] + Header)
      BY <3>1, <3>3
    <3>. QED BY <3>4, <3>5 DEF Frame, Bytes, l
  <2>4. \A j, k \in 0 .. ns + 1 : j <= k => ends[j] <= ends[k]
    <3>1. SUFFICES ASSUME NEW j \in 0 .. ns + 1, NEW k \in 0 .. ns + 1, j <= k
                   PROVE  ends[j] <= ends[k]
      OBVIOUS
    <3>2. \A a, b \in 0 .. ns : a <= b => off[a] <= off[b]
      BY <1>4 DEF Framed, ns
    <3>3. CASE k \in 0 .. ns
      <4>1. j \in 0 .. ns
        BY <1>7, <3>1, <3>3
      <4>. QED BY <1>13, <3>1, <3>2, <3>3, <4>1
    <3>4. CASE k = ns + 1 /\ j = ns + 1
      BY <1>11, <1>13, <3>4
    <3>5. CASE k = ns + 1 /\ j \in 0 .. ns
      <4>1. ns \in 0 .. ns /\ j <= ns
        BY <1>7, <3>5
      <4>2. ends[j] = off[j] /\ off[j] <= off[ns] /\ off[ns] = e
        BY <1>13, <3>2, <3>5, <4>1 DEF e
      <4>3. off[j] \in Nat
        <5>1. j \in Nat
          BY <1>7, <3>5
        <5>. QED BY <5>1
      <4>. QED BY <1>11, <1>13, <3>5, <4>2, <4>3
    <3>. QED BY <1>7, <3>1, <3>3, <3>4, <3>5
  <2>5. ASSUME NEW i \in 1 .. ns + 1 PROVE Frame(i, new, ends)'
    <3>1. i \in 1 .. ns \/ i = ns + 1
      BY <1>7
    <3>2. CASE i \in 1 .. ns
      BY <2>2, <3>2
    <3>3. CASE i = ns + 1
      BY <2>3, <3>3
    <3>. QED BY <3>1, <3>2, <3>3
  <2>. QED BY <1>9, <2>1, <2>4, <2>5 DEF Framed
<1>15. WriterAt(w, r, new, ends)'
  <2>1. Len(wbuf') = Header /\ Len(wrest') = l /\ Bytes(wbuf', new, w) /\ Bytes(wrest', new, w + Header)
    <3>1. wbuf' = s /\ wrest' = t
      BY <1>1 DEF l, s, t
    <3>2. Len(wbuf') = Header /\ Len(wrest') = l
      BY <1>6, <3>1
    <3>3. Bytes(s, new, w) /\ Bytes(t, new, w + Header)
      BY <1>5, <1>10
    <3>4. Bytes(wbuf', new, w)
      BY <3>1, <3>3
    <3>5. Bytes(wrest', new, w + Header)
      BY <3>1, <3>3
    <3>. QED BY <3>2, <3>4, <3>5
  <2>2. Len(sent') > 0 /\ Len(sent') - 1 = ns /\ Header \in 1 .. buf_size
    <3>1. Len(sent') = ns + 1
      BY <1>9
    <3>2. Len(sent') > 0 /\ Len(sent') - 1 = ns
      BY <1>7, <3>1
    <3>. QED BY <3>2, Sizes
  <2>3. w = ends[Len(sent') - 1] /\ w + Header + l = ends[Len(sent')]
    BY <1>5, <1>9, <1>13, <2>2 DEF end
  <2>4. Writing(w, new, ends)'
    BY <2>1, <2>2, <2>3 DEF Writing, Bytes
  <2>. QED BY <1>2, <2>4 DEF WriterAt
<1>16. n \in 0 .. ns /\ ends[n] = off[n]
  BY <1>7, <1>13
<1>17. ReaderAt(w, r, new, ends)'
  <2>1. CASE rpc = "idle"
    <3>1. r = off[n] /\ rbuf = <<>> /\ body = <<>>
      BY <1>4, <2>1 DEF ReaderAt, n
    <3>. QED BY <1>3, <1>16, <2>1, <3>1 DEF ReaderAt, n
  <2>2. CASE rpc # "idle"
    <3>1. /\ ReadFrom(r) \in Nat
          /\ ReadingHeader(ReadFrom(r), off) \/ ReadingBody(ReadFrom(r), str, off)
          /\ ReadSoFar(ReadFrom(r), w, str)
          /\ rpc = "signal" => ReadFrom(r) + rlen = r
          /\ rpc # "signal" => ReadFrom(r) = r
      BY <2>2, ReaderParts
    <3>2. PICK p \in Nat : p = ReadFrom(r)
      BY <3>1
    <3>3. p <= e
      BY <1>4, <1>5, <3>1, <3>2
    <3>4. ReadFrom(r)' = p
      BY <1>3, <3>2 DEF ReadFrom
    <3>5. ReadingHeader(p, off) => ReadingHeader(p, ends)'
      <4> SUFFICES ASSUME ReadingHeader(p, off) PROVE ReadingHeader(p, ends)'
        OBVIOUS
      <4>1. need = -1 /\ rlen = Header /\ body = <<>> /\ p = off[n]
        BY DEF ReadingHeader, n
      <4>2. ends[Len(received')] = off[n]
        BY <1>3, <1>16 DEF n
      <4>. QED BY <1>3, <4>1, <4>2 DEF ReadingHeader
    <3>6. ReadingBody(p, str, off) => ReadingBody(p, new, ends)'
      <4>1. SUFFICES ASSUME ReadingBody(p, str, off) PROVE ReadingBody(p, new, ends)'
        OBVIOUS
      <4>2. /\ need > 0 /\ n < ns
            /\ Len(body) + need = BodyLen(sent[n + 1])
            /\ p = off[n] + Header + Len(body)
            /\ Bytes(body, str, off[n] + Header)
            /\ rlen = Smaller(m_buf_size["receiver"], need)
            /\ \E k \in Nat : Len(body) = m_buf_size["receiver"] * k
        BY <4>1 DEF ReadingBody, n, ns
      <4> DEFINE o == off[n] + Header
      <4>3. o \in Nat
        <5>1. off[n] \in Nat
          BY <1>7
        <5> DEFINE q == off[n]
        <5> HIDE DEF q
        <5>2. q + Header \in Nat
          BY <1>11, <5>1 DEF q
        <5>. QED BY <5>2 DEF q
      <4>4. o + Len(body) <= e /\ Bytes(body, str, o) /\ e \in Int
        BY <1>11, <3>3, <4>2
      <4> HIDE DEF o
      <4>5. Bytes(body, new, o)
        BY <1>8, <1>10, <4>3, <4>4, BytesAgree
      <4>6. n + 1 \in 1 .. ns /\ n < ns + 1
        BY <1>7, <4>2
      <4>7. sent'[n + 1] = sent[n + 1] /\ n < Len(sent')
        BY <1>9, <4>6
      <4>8. /\ Len(received') < Len(sent')
            /\ Len(body') + need' = BodyLen(sent'[Len(received') + 1])
            /\ p = ends[Len(received')] + Header + Len(body')
            /\ Bytes(body', new, ends[Len(received')] + Header)
        BY <1>3, <1>16, <4>2, <4>5, <4>7 DEF o, n
      <4>. QED BY <1>3, <4>2, <4>8 DEF ReadingBody, Bytes
    <3>7. ReadingHeader(p, ends)' \/ ReadingBody(p, new, ends)'
      BY <3>1, <3>2, <3>5, <3>6
    <3>8. Bytes(rbuf, new, p)
      <4>1. ReadSoFar(p, w, str)
        BY <3>1, <3>2
      <4>2. CASE rbuf = <<>>
        BY <4>2, BytesEmpty
      <4>3. CASE rbuf # <<>>
        <5>1. Len(rbuf) <= rlen /\ p + rlen <= w
          <6>1. rpc \in {"second", "publish", "signal"}
            BY <2>2, <4>1, <4>3 DEF ReadSoFar, TypeOK
          <6>2. Unwrapped(rlen, p) <= rlen
            BY CellsFrom, <1>4 DEF TypeOK
          <6>3. p + rlen <= w /\ (Len(rbuf) = rlen \/ Len(rbuf) = Unwrapped(rlen, p))
            BY <4>1, <6>1 DEF ReadSoFar
          <6>4. rlen \in Nat
            BY <1>4
          <6> DEFINE k == Len(rbuf)
                     u == Unwrapped(rlen, p)
          <6>5. p + rlen <= w /\ (k = rlen \/ k = u) /\ u <= rlen
            BY <6>2, <6>3
          <6> HIDE DEF k, u
          <6>6. k <= rlen /\ p + rlen <= w
            BY <6>4, <6>5
          <6>. QED BY <6>6 DEF k
        <5>2. Len(rbuf) \in Nat
          BY SeqTypes
        <5>3. p + Len(rbuf) <= e /\ Bytes(rbuf, str, p) /\ e \in Int
          BY <1>4, <1>5, <1>11, <4>1, <5>1, <5>2 DEF ReadSoFar
        <5>. QED BY <1>8, <1>10, <5>3, BytesAgree
      <4>. QED BY <4>2, <4>3
    <3>9. ReadSoFar(p, w, new)'
      <4>1. ReadSoFar(p, w, str)
        BY <3>1, <3>2
      <4>. QED BY <1>3, <3>8, <4>1 DEF ReadSoFar, Bytes, Unwrapped, Smaller
    <3>10. Reading(p, w, new, ends)'
      BY <3>7, <3>9 DEF Reading
    <3>. QED BY <1>3, <2>2, <3>4, <3>10 DEF ReaderAt
  <2>. QED BY <2>1, <2>2
<1>18. BodiesInOrder'
  <2>1. n <= ns + 1 /\ \A i \in 1 .. n : i \in 1 .. ns
    BY <1>7
  <2>2. \A i \in 1 .. n : received[i] = Body(sent[i])
    BY <1>4 DEF BodiesInOrder, n
  <2>3. \A i \in 1 .. n : received'[i] = Body(sent'[i])
    BY <1>3, <1>9, <2>1, <2>2
  <2>. QED BY <1>3, <1>9, <2>1, <2>3 DEF BodiesInOrder, n
<1>19. Holds(buffer, new, r, Stored(w))'
  <2>1. \A i \in r .. w - 1 : buffer[i % buf_size] = str[i]
    BY <1>4 DEF Holds
  <2>2. \A i \in r .. w - 1 : i \in Nat /\ i < e
    BY <1>5
  <2>3. \A i \in r .. w - 1 : buffer[i % buf_size] = new[i]
    BY <1>10, <2>1, <2>2
  <2>4. Stored(w)' = w
    BY <1>2 DEF Stored
  <2>. QED BY <1>3, <2>3, <2>4 DEF Holds
<1>20. Positions(w, r, ends)'
  BY <1>3, <1>4, <1>5, <1>9, <1>11, <1>13 DEF Positions
<1>21. RingAt(w, r, new, ends)'
  BY <1>14, <1>15, <1>17, <1>18, <1>19, <1>20 DEF RingAt
<1>22. RingInv'
  BY <1>21 DEF RingInv
<1>23. wbuf' \in Seq(Byte) /\ wrest' \in Seq(Byte)
  BY <1>1, <1>6 DEF s, t, l
<1>24. TypeOK'
  BY <1>2, <1>3, <1>9, <1>23 DEF TypeOK
<1>. QED BY <1>22, <1>24

-----------------------------------------------------------------------------
(* The invariant *)

\* The types, and the positions, stream and ends that explain the ring.
IInv == TypeOK /\ RingInv

\* Initially nothing is in the ring.
LEMMA InitInv == Init => IInv
<1> SUFFICES ASSUME Init PROVE IInv
  OBVIOUS
<1>1. /\ enable_cv \in BOOLEAN
      /\ m_buf_size \in [{"sender", "receiver"} -> Chunk \cup {buf_size}]
      /\ buffer = [c \in Cell |-> 0] /\ in = 0 /\ out = 0 /\ waiting = {}
      /\ wpc = "idle" /\ wbuf = <<>> /\ wrest = <<>>
      /\ rpc = "idle" /\ rlen = 0 /\ rbuf = <<>> /\ need = 0 /\ body = <<>>
      /\ sent = <<>> /\ received = <<>>
  BY DEF Init
<1>2. /\ 0 \in Byte /\ 0 \in 0 .. Modulus - 1 /\ 0 \in 0 .. buf_size
  BY Sizes DEF Byte
<1>3. 0 \in -1 .. Limit - 1
  <2> DEFINE lim == Limit
  <2>1. lim \in Nat \ {0}
    BY LimitType
  <2> HIDE DEF lim
  <2>2. 0 \in -1 .. lim - 1
    BY <2>1
  <2>. QED BY <2>2 DEF lim
<1>4. buffer \in [Cell -> Byte]
  BY <1>1, <1>2
<1>5. TypeOK
  BY <1>1, <1>2, <1>3, <1>4 DEF TypeOK
<1> DEFINE str == [i \in Nat |-> 0]
           off == [n \in Nat |-> 0]
           z == 0
<1>6. str \in [Nat -> Byte] /\ off \in [Nat -> Nat] /\ off[z] = 0 /\ z \in Nat
  BY <1>2
<1>7. Len(sent) = 0 /\ Len(received) = 0 /\ Len(sent) = z /\ Len(received) = z
  BY <1>1
<1>8. 0 % Modulus = 0
  <2>1. Modulus \in Nat \ {0} /\ 0 < Modulus
    BY Sizes
  <2>. QED BY <2>1
<1> HIDE DEF str, off
<1>9. Positions(z, z, off)
  BY <1>1, <1>6, <1>7, <1>8, Sizes DEF Positions
<1>10. Framed(str, off)
  <2>1. \A n \in 1 .. Len(sent) : FALSE
    BY <1>7
  <2>2. \A j, k \in 0 .. Len(sent) : off[j] <= off[k]
    <3>1. \A j \in 0 .. Len(sent) : j = 0
      BY <1>7
    <3>2. off[0] <= off[0]
      BY <1>6
    <3>. QED BY <3>1, <3>2
  <2>. QED BY <1>6, <2>1, <2>2 DEF Framed
<1>11. WriterAt(z, z, str, off) /\ ReaderAt(z, z, str, off)
  BY <1>1, <1>6, <1>7 DEF WriterAt, ReaderAt
<1>12. Stored(z) = z
  BY <1>1 DEF Stored
<1>13. Holds(buffer, str, z, Stored(z))
  <2>1. \A i \in z .. z - 1 : FALSE
    OBVIOUS
  <2>. QED BY <1>12, <2>1 DEF Holds
<1>14. BodiesInOrder
  BY <1>7 DEF BodiesInOrder
<1>15. RingAt(z, z, str, off)
  BY <1>9, <1>10, <1>11, <1>13, <1>14 DEF RingAt
<1>16. RingInv
  BY <1>6, <1>15 DEF RingInv
<1>. QED BY <1>5, <1>16 DEF IInv

\* Every step keeps the invariant.
LEMMA NextInv == IInv /\ [Next]_vars => IInv'
<1> SUFFICES ASSUME IInv, [Next]_vars PROVE IInv'
  OBVIOUS
<1>1. TypeOK /\ RingInv
  BY DEF IInv
<1>2. PICK w \in Nat, r \in Nat, str \in [Nat -> Byte], off \in [Nat -> Nat] :
         RingAt(w, r, str, off)
  BY <1>1 DEF RingInv
<1>3. CASE SenderStep
  <2>1. CASE Send
    BY <1>1, <1>2, <2>1, SendStep DEF IInv
  <2>2. CASE WriteCv
    BY <1>1, <1>2, <2>2, WriteCvStep DEF IInv
  <2>3. CASE WriteSignal
    BY <1>1, <1>2, <2>3, WriteSignalStep DEF IInv
  <2>4. CASE WriteSpin
    BY <1>1, <1>2, <2>4, WriteSpinStep DEF IInv
  <2>5. CASE WriteSecond
    BY <1>1, <1>2, <2>5, WriteSecondStep DEF IInv
  <2>6. CASE WritePublish
    BY <1>1, <1>2, <2>6, WritePublishStep DEF IInv
  <2>. QED BY <1>3, <2>1, <2>2, <2>3, <2>4, <2>5, <2>6 DEF SenderStep
<1>4. CASE ReceiverStep
  <2>1. CASE Recv
    BY <1>1, <1>2, <2>1, RecvStep DEF IInv
  <2>2. CASE ReadCv
    BY <1>1, <1>2, <2>2, ReadCvStep DEF IInv
  <2>3. CASE ReadSignal
    BY <1>1, <1>2, <2>3, ReadSignalStep DEF IInv
  <2>4. CASE ReadSpin
    BY <1>1, <1>2, <2>4, ReadSpinStep DEF IInv
  <2>5. CASE ReadSecond
    BY <1>1, <1>2, <2>5, ReadSecondStep DEF IInv
  <2>6. CASE ReadPublish
    BY <1>1, <1>2, <2>6, ReadPublishStep DEF IInv
  <2>. QED BY <1>4, <2>1, <2>2, <2>3, <2>4, <2>5, <2>6 DEF ReceiverStep
<1>5. CASE UNCHANGED <<fixed, view, sender, receiver>> /\ waiting' \subseteq {"sender", "receiver"}
  <2>1. UNCHANGED <<enable_cv, m_buf_size, buffer, in, out, wpc, wbuf, wrest,
                    rpc, rlen, rbuf, need, body, sent, received>>
    BY <1>5 DEF fixed, view, sender, receiver
  <2>2. TypeOK'
    BY <1>1, <1>5, <2>1 DEF TypeOK
  <2>3. rpc # "idle" => rlen \in Nat
    BY <1>1, <1>2, RingParts
  <2>4. /\ Framed(str, off) /\ WriterAt(w, r, str, off) /\ ReaderAt(w, r, str, off) /\ BodiesInOrder
        /\ Positions(w, r, off) /\ Holds(buffer, str, r, Stored(w))
    BY <1>2 DEF RingAt
  <2>5. Framed(str, off)'
    BY <2>1, <2>4, FramedKept
  <2>6. r <= r /\ w <= w /\ UNCHANGED <<sender, m_buf_size, buffer>>
        /\ UNCHANGED <<receiver, sent, m_buf_size>>
    BY <1>5, <2>1
  <2>7. WriterAt(w, r, str, off)' /\ Holds(buffer, str, r, Stored(w))'
    BY <1>1, <2>4, <2>6, WriterKept
  <2>8. ReaderAt(w, r, str, off)' /\ BodiesInOrder'
    BY <2>3, <2>4, <2>6, ReaderKept
  <2>9. Positions(w, r, off)'
    BY <2>1, <2>4 DEF Positions
  <2>10. RingAt(w, r, str, off)'
    BY <2>5, <2>7, <2>8, <2>9 DEF RingAt
  <2>11. RingInv'
    BY <2>10 DEF RingInv
  <2>. QED BY <2>2, <2>11 DEF IInv
<1>6. CASE SpuriousWakeup
  <2>1. waiting \subseteq {"sender", "receiver"}
    BY <1>1 DEF TypeOK
  <2>2. UNCHANGED <<fixed, view, sender, receiver>> /\ waiting' \subseteq {"sender", "receiver"}
    BY <1>6, <2>1 DEF SpuriousWakeup
  <2>. QED BY <1>5, <2>2
<1>7. CASE UNCHANGED vars
  <2>1. waiting \subseteq {"sender", "receiver"}
    BY <1>1 DEF TypeOK
  <2>2. UNCHANGED <<fixed, view, sender, receiver>> /\ waiting' \subseteq {"sender", "receiver"}
    BY <1>7, <2>1 DEF vars
  <2>. QED BY <1>5, <2>2
<1>8. CASE Done
  BY <1>7, <1>8 DEF Done
<1>. QED BY <1>3, <1>4, <1>6, <1>7, <1>8 DEF Next

\* The invariant holds in every state of every behaviour.
THEOREM RingIsStream == Spec => []IInv
BY InitInv, NextInv, PTL DEF Spec

\* The variables have their types.
THEOREM MemTypeCorrect == Spec => []TypeOK
<1>1. IInv => TypeOK
  BY DEF IInv
<1>. QED BY <1>1, RingIsStream, PTL

-----------------------------------------------------------------------------
(* What follows from the invariant *)

\* write and read move all the bytes they were called for.
LEMMA InvNothingCut == IInv => NothingCut
<1> SUFFICES ASSUME IInv PROVE NothingCut
  OBVIOUS
<1>1. TypeOK /\ RingInv
  BY DEF IInv
<1>2. PICK w \in Nat, r \in Nat, str \in [Nat -> Byte], off \in [Nat -> Nat] :
         RingAt(w, r, str, off)
  BY <1>1 DEF RingInv
<1>3. /\ in = w % Modulus /\ out = r % Modulus /\ r <= w /\ w <= r + buf_size
      /\ rlen \in Nat
  BY <1>1, <1>2, RingParts
<1>4. ASSUME wpc \in {"second", "publish"} \/ (wpc = "write" /\ can_put(Len(wbuf)))
      PROVE  PutLen = Len(wbuf)
  <2> DEFINE n == Len(wbuf)
  <2>1. /\ n \in 0 .. buf_size /\ n \in Nat
        /\ wpc # "write" => w + n <= r + buf_size
    BY <1>1, <1>2, <1>4, WriterParts
  <2>2. can_put(n) <=> w + n <= r + buf_size
    BY <1>3, <2>1, CanPutIs
  <2>3. w + n <= r + buf_size
    BY <1>4, <2>1, <2>2
  <2>. QED BY <1>3, <2>1, <2>3, PutLenIs
<1>5. ASSUME rpc \in {"second", "publish"} \/ (rpc = "read" /\ can_get(rlen))
      PROVE  GetLen = rlen
  <2>1. ReadFrom(r) = r /\ ReadSoFar(ReadFrom(r), w, str)
    BY <1>1, <1>2, <1>5, ReaderParts
  <2>2. rlen \in Int
    BY <1>3
  <2>3. can_get(rlen) <=> r + rlen <= w
    BY <1>3, <2>2, CanGetIs
  <2>4. r + rlen <= w
    BY <1>5, <2>1, <2>3 DEF ReadSoFar
  <2>. QED BY <1>3, <2>4, GetLenIs
<1>. QED BY <1>4, <1>5 DEF NothingCut

\* put and get never cut the length they are given, although they could and
\* write and read would not notice.
THEOREM NothingIsCut == Spec => []NothingCut
BY InvNothingCut, RingIsStream, PTL

\* The header of a message whose length it has room for is that length.
LEMMA ShortLength ==
    ASSUME NEW m \in Message, Len(m) < Limit
    PROVE  BodyLen(m) = Len(m)
<1> DEFINE n == Len(m)
           l == Limit
<1>1. m \in Seq(Byte) /\ n \in Nat /\ l \in Nat \ {0} /\ n < l
  BY Sizes, LimitType
<1> HIDE DEF n, l
<1>2. n % l = n
  BY <1>1
<1>. QED BY <1>2 DEF BodyLen, n, l

\* Such a message is sent whole.
LEMMA ShortBody ==
    ASSUME NEW m \in Message, Len(m) < Limit
    PROVE  Body(m) = m
<1>1. m \in Seq(Byte) /\ Body(m) = SubSeq(m, 1, Len(m))
  BY Sizes, ShortLength DEF Body
<1>2. SubSeq(m, 1, Len(m)) = m
  BY <1>1
<1>. QED BY <1>1, <1>2

\* What recv has returned is what was sent, message by message: whole when shorter
\* than 2 GiB, and of one of 4 GiB or more the remainder its header says.
THEOREM MessagesArrive == Spec => []RecvInOrder
<1>1. ASSUME IInv PROVE RecvInOrder
  <2>1. TypeOK /\ BodiesInOrder
    BY <1>1 DEF IInv, RingInv, RingAt
  <2>2. /\ Len(received) \in Nat /\ Len(sent) \in Nat /\ sent \in Seq(Message)
        /\ Len(received) <= Len(sent)
        /\ \A i \in 1 .. Len(received) : received[i] = Body(sent[i])
    BY <2>1, SeqTypes DEF BodiesInOrder
  <2>3. ASSUME NEW i \in 1 .. Len(received), Len(sent[i]) < Limit
        PROVE  received[i] = sent[i]
    <3>1. i \in 1 .. Len(sent)
      BY <2>2
    <3>2. sent[i] \in Message
      BY <2>2, <3>1
    <3>. QED BY <2>2, <2>3, <3>2, ShortBody
  <2>. QED BY <2>2, <2>3 DEF RecvInOrder
<1>. QED BY <1>1, RingIsStream, PTL

-----------------------------------------------------------------------------
(* The ring implements the FIFO queue *)

\* What a step does to the two histories: send adds to the one, the last read of
\* a recv to the other.
LEMMA HistoryStep ==
    ASSUME [Next]_vars
    PROVE  \/ Send
           \/ UNCHANGED <<sent, received>>
           \/ UNCHANGED sent /\ \E x : received' = Append(received, x)
<1>1. ASSUME NEW s, NEW c, ReadNext(s, c)
      PROVE  UNCHANGED received \/ \E x : received' = Append(received, x)
  BY <1>1 DEF ReadNext
<1>2. CASE SenderStep
  BY <1>2 DEF SenderStep, WriteCv, WriteSignal, WriteSpin, WriteSecond, WritePublish,
              NextWrite, receiver
<1>3. CASE ReceiverStep
  <2>1. CASE ReadSignal \/ ReadPublish
    <3>1. NextRead(rbuf) /\ UNCHANGED sender
      BY <2>1 DEF ReadSignal, ReadPublish
    <3>. QED BY <1>1, <3>1 DEF NextRead, sender
  <2>2. CASE Recv \/ ReadCv \/ ReadSpin \/ ReadSecond
    BY <2>2 DEF Recv, ReadCv, ReadSpin, ReadSecond, sender
  <2>. QED BY <1>3, <2>1, <2>2 DEF ReceiverStep
<1>4. CASE SpuriousWakeup
  BY <1>4 DEF SpuriousWakeup, sender, receiver
<1>5. CASE Done \/ UNCHANGED vars
  BY <1>5 DEF Done, vars, sender, receiver
<1>. QED BY <1>2, <1>3, <1>4, <1>5 DEF Next

\* Send is the queue's Send.
LEMMA SendRefines ==
    ASSUME TypeOK, Send
    PROVE  Fifo!Send("sender")
<1>1. PICK m \in Message : sent' = Append(sent, m)
  BY DEF Send
<1>2. UNCHANGED received
  BY DEF Send, receiver
<1>3. At("receiver", received)' = At("receiver", received)
  BY <1>2 DEF At
<1>4. Bodies' = Append(Bodies, Body(m))
  <2> DEFINE n == Len(sent)
  <2>1. n \in Nat /\ sent \in Seq(Message)
    BY SeqTypes
  <2>2. Len(sent') = n + 1 /\ sent'[n + 1] = m /\ \A i \in 1 .. n : sent'[i] = sent[i]
    BY <1>1, <2>1
  <2>3. Bodies' = [i \in 1 .. n + 1 |-> Body(sent'[i])]
    BY <2>2 DEF Bodies, Body, BodyLen
  <2>4. Bodies = [i \in 1 .. n |-> Body(sent[i])]
    BY DEF Bodies
  <2>5. \A i \in 1 .. n : Body(sent[i]) \in Seq(Byte)
    BY <2>1, BodyFacts
  <2>6. Body(m) \in Seq(Byte)
    BY BodyFacts
  <2> HIDE DEF n
  <2>7. Bodies \in Seq(Seq(Byte)) /\ Len(Bodies) = n /\ \A i \in 1 .. n : Bodies[i] = Body(sent[i])
    <3> DEFINE f == Bodies
    <3>1. f = [i \in 1 .. n |-> Body(sent[i])]
      BY <2>4
    <3>2. f \in [1 .. n -> Seq(Byte)] /\ \A i \in 1 .. n : f[i] = Body(sent[i])
      BY <2>5, <3>1
    <3> HIDE DEF f
    <3>3. f \in Seq(Seq(Byte)) /\ Len(f) = n
      BY <2>1, <3>2
    <3>. QED BY <3>2, <3>3 DEF f
  <2> DEFINE b == Bodies
             t == Append(b, Body(m))
             u == Bodies'
  <2> HIDE DEF b
  <2>8. /\ b \in Seq(Seq(Byte)) /\ Len(b) = n /\ \A i \in 1 .. n : b[i] = Body(sent[i])
    BY <2>7 DEF b
  <2>9. /\ t \in Seq(Seq(Byte)) /\ Len(t) = n + 1 /\ t[n + 1] = Body(m)
        /\ \A i \in 1 .. n : t[i] = Body(sent[i])
    BY <2>1, <2>6, <2>8
  <2> HIDE DEF t, u
  <2>10. DOMAIN t = 1 .. n + 1 /\ t = [i \in DOMAIN t |-> t[i]]
    BY <2>1, <2>9
  <2>11. ASSUME NEW i \in 1 .. n + 1 PROVE Body(sent'[i]) = t[i]
    <3>1. CASE i = n + 1
      BY <2>2, <2>9, <3>1
    <3>2. CASE i # n + 1
      <4>1. i \in 1 .. n
        BY <2>1, <3>2
      <4>. QED BY <2>2, <2>9, <4>1
    <3>. QED BY <3>1, <3>2
  <2>12. u = t
    BY <2>3, <2>10, <2>11 DEF u
  <2>. QED BY <2>12 DEF t, u, b
<1>5. At("sender", Bodies)' = [At("sender", Bodies) EXCEPT !["sender"] = Append(@, Body(m))]
  BY <1>4 DEF At
<1>. QED BY <1>3, <1>5 DEF Fifo!Send

\* The step that ends recv is the queue's Recv.
LEMMA RecvRefines ==
    ASSUME TypeOK, BodiesInOrder', UNCHANGED sent, NEW x, received' = Append(received, x)
    PROVE  Fifo!Recv("receiver")
<1> DEFINE n == Len(received)
<1>1. n \in Nat /\ received \in Seq(Seq(Byte)) /\ Len(sent) \in Nat
  BY SeqTypes
<1>2. Len(received') = n + 1 /\ received'[n + 1] = x
  BY <1>1
<1>3. n + 1 \in 1 .. Len(received') /\ n + 1 <= Len(sent)
  BY <1>1, <1>2 DEF BodiesInOrder
<1>4. x = Body(sent[n + 1])
  BY <1>2, <1>3 DEF BodiesInOrder, Body, BodyLen
<1>5. Len(Bodies) = Len(sent) /\ Bodies[n + 1] = x
  <2>1. n + 1 \in 1 .. Len(sent)
    BY <1>1, <1>3
  <2>. QED BY <1>1, <1>4, <2>1 DEF Bodies
<1> DEFINE g == At("receiver", received)
           s == At("sender", Bodies)
<1>6. g["receiver"] = received /\ s["sender"] = Bodies
  BY DEF At
<1>7. s' = s
  BY DEF At, Bodies, Body, BodyLen
<1>8. g' = [g EXCEPT !["receiver"] = Append(@, Bodies[n + 1])]
  BY <1>5 DEF At
<1>9. n < Len(Bodies)
  BY <1>1, <1>3, <1>5
<1>. QED BY <1>6, <1>7, <1>8, <1>9 DEF Fifo!Recv

\* send and recv implement the FIFO queue of ReliableFifo: the step of send that
\* notes the message is its Send, the one that ends recv its Recv, and all other
\* steps, the copies and the waiting, are invisible.
THEOREM MemRefinement == Spec => IsFifo
<1>1. Init => Fifo!Init
  <2> SUFFICES ASSUME Init PROVE Fifo!Init
    OBVIOUS
  <2>1. sent = <<>> /\ received = <<>>
    BY DEF Init
  <2>2. Bodies = <<>>
    BY <2>1 DEF Bodies
  <2>. QED BY <2>1, <2>2 DEF Fifo!Init, At
<1>2. ASSUME TypeOK, BodiesInOrder', [Next]_vars
      PROVE  [Fifo!Next]_<<At("sender", Bodies), At("receiver", received)>>
  <2>1. CASE Send
    BY <1>2, <2>1, SendRefines DEF Fifo!Next
  <2>2. CASE UNCHANGED <<sent, received>>
    BY <2>2 DEF At, Bodies, Body, BodyLen
  <2>3. CASE UNCHANGED sent /\ \E x : received' = Append(received, x)
    <3>1. PICK x : received' = Append(received, x)
      BY <2>3
    <3>2. Fifo!Recv("receiver")
      BY <1>2, <2>3, <3>1, RecvRefines
    <3>. QED BY <3>2 DEF Fifo!Next
  <2>. QED BY <1>2, <2>1, <2>2, <2>3, HistoryStep
<1>3. IInv => TypeOK /\ BodiesInOrder
  BY DEF IInv, RingInv, RingAt
<1>. QED BY <1>1, <1>2, <1>3, RingIsStream, PTL DEF Spec, IsFifo, Fifo!Spec

-----------------------------------------------------------------------------
(* The two sides never wait for each other *)

\* Of two multiples of c the larger one is larger by c at least.
LEMMA MultipleBelow ==
    ASSUME NEW c \in Nat \ {0}, NEW x \in Int, NEW y \in Int, c * x < c * y
    PROVE  c * x + c <= c * y
<1> DEFINE e == y - x
           a == c * x
           b == c * y
           f == c * e
<1>1. e \in Int /\ a \in Int /\ b \in Int /\ a < b
  OBVIOUS
<1>2. f = b - a
  BY Distribute
<1> HIDE DEF a, b, e
<1>3. e <= 0 => f <= 0
  BY <1>1, SMTT(30)
<1>4. e >= 1 => f >= c
  BY <1>1, SMTT(30)
<1> HIDE DEF f
<1>5. a + c <= b
  BY <1>1, <1>2, <1>3, <1>4
<1>. QED BY <1>5 DEF a, b

\* Within the body of one message, where one side's chunk is the whole ring and
\* the other side's divides it: if a chunk is not there yet, the next one fits.
LEMMA ChunkFits ==
    ASSUME NEW size \in Nat \ {0}, NEW cs \in 1 .. size, NEW cr \in 1 .. size,
           size % cs = 0, size % cr = 0, size \in {cs, cr},
           NEW base \in Nat, NEW k \in Nat, NEW j \in Nat, NEW w \in Nat, NEW r \in Nat,
           w = base + cs * k, r = base + cr * j, r <= w,
           NEW lw \in Nat, lw <= cs, NEW lr \in Nat, lr <= cr, w < r + lr
    PROVE  w + lw <= r + size
<1>1. cs \in Nat \ {0} /\ cr \in Nat \ {0} /\ size \in Int
  OBVIOUS
<1>2. CASE size = cs
  <2> DEFINE q == size \div cr
             y == q * k
             z == 0
  <2>1. q \in Int /\ size = cr * q
    <3>1. q \in Int /\ size = cr * q + (size % cr)
      BY <1>1, ModType
    <3>2. cr * q \in Int
      BY <1>1, <3>1
    <3>. QED BY <3>1, <3>2
  <2> HIDE DEF q
  <2>2. y \in Int /\ cs * k = cr * y
    BY <1>1, <1>2, <2>1, SMTT(30)
  <2> HIDE DEF y
  <2>3. cr * j = cr * y
    <3> DEFINE a == cr * j
               b == cr * y
    <3>1. a \in Int /\ b \in Int /\ a <= b /\ b < a + cr
      BY <1>1, <2>2
    <3>2. a < b => a + cr <= b
      BY <1>1, <2>2, MultipleBelow
    <3> HIDE DEF a, b
    <3>3. a = b
      BY <1>1, <3>1, <3>2
    <3>. QED BY <3>3 DEF a, b
  <2>4. w = r
    BY <2>2, <2>3
  <2>. QED BY <1>1, <1>2, <2>4
<1>3. CASE size = cr
  <2> DEFINE q == size \div cs
             x == q * j
             y == x + q
  <2>1. q \in Int /\ size = cs * q
    <3>1. q \in Int /\ size = cs * q + (size % cs)
      BY <1>1, ModType
    <3>2. cs * q \in Int
      BY <1>1, <3>1
    <3>. QED BY <3>1, <3>2
  <2> HIDE DEF q
  <2>2. x \in Int /\ cr * j = cs * x
    BY <1>1, <1>3, <2>1, SMTT(30)
  <2>3. cs * y = cs * x + cs * q
    BY <1>1, <2>1, <2>2, Distribute
  <2>4. y \in Int /\ cs * y = cr * j + size
    BY <2>1, <2>2, <2>3
  <2> HIDE DEF x, y
  <2> DEFINE a == cs * k
             b == cs * y
             d == cr * j
  <2>5. a \in Int /\ b \in Int /\ d \in Int /\ b = d + size
    BY <1>1, <2>4
  <2>6. w = base + a /\ r = base + d
    OBVIOUS
  <2>7. a < b => a + cs <= b
    BY <1>1, <2>4, MultipleBelow
  <2> HIDE DEF a, b, d
  <2>8. a < b
    BY <1>1, <1>3, <2>5, <2>6
  <2>. QED BY <1>1, <2>5, <2>6, <2>7, <2>8
<1>. QED BY <1>2, <1>3

\* The end that creates the segments gives them the size of its chunks.
Creator == buf_size \in {m_buf_size["sender"], m_buf_size["receiver"]}

\* m_buf_size never changes.
LEMMA CreatorHolds == Spec => []Creator
<1>1. Init => Creator
  BY DEF Init, Creator
<1>2. ASSUME Creator, [Next]_vars PROVE Creator'
  <2>1. SenderStep => UNCHANGED fixed
    BY DEF SenderStep, Send, WriteCv, WriteSignal, WriteSpin, WriteSecond, WritePublish
  <2>2. ReceiverStep => UNCHANGED fixed
    BY DEF ReceiverStep, Recv, ReadCv, ReadSignal, ReadSpin, ReadSecond, ReadPublish
  <2>3. SpuriousWakeup \/ Done \/ UNCHANGED vars => UNCHANGED fixed
    BY DEF SpuriousWakeup, Done, vars
  <2>4. UNCHANGED fixed
    BY <1>2, <2>1, <2>2, <2>3 DEF Next
  <2>. QED BY <1>2, <2>4 DEF Creator, fixed
<1>. QED BY <1>1, <1>2, PTL DEF Spec

\* A reader that lacks bytes has reached the message the sender is writing.
LEMMA ReaderLacks ==
    ASSUME TypeOK, NEW w \in Nat, NEW r \in Nat, NEW str \in [Nat -> Byte], NEW off \in [Nat -> Nat],
           RingAt(w, r, str, off), Writing(w, str, off),
           ReadingHeader(r, off) \/ ReadingBody(r, str, off), w < r + rlen
    PROVE  Len(received) = Len(sent) - 1
<1> DEFINE ns == Len(sent)
           n == Len(received)
           i == ns - 1
           k == n + 1
           lw == Len(wbuf)
           lr == Len(wrest)
<1>1. ns \in Nat /\ n \in Nat /\ ns > 0 /\ n <= ns /\ lw \in Nat /\ lr \in Nat /\ Header \in Nat
  <2>1. ns \in Nat /\ n \in Nat /\ lw \in Nat /\ lr \in Nat
    BY SeqTypes
  <2>2. ns > 0
    BY DEF Writing
  <2>3. n <= ns
    BY RingParts DEF BodiesInOrder
  <2>4. Header \in Nat
    BY Sizes
  <2>. QED BY <2>1, <2>2, <2>3, <2>4
<1>2. Framed(str, off)
  BY RingParts
<1>3. ASSUME n < ns
      PROVE  /\ off[k] = off[n] + Header + BodyLen(sent[k]) /\ BodyLen(sent[k]) \in Nat
             /\ off[n] \in Nat
  <2>1. n \in Nat /\ n < Len(sent)
    BY <1>1, <1>3
  <2> HIDE DEF n
  <2>. QED BY <1>2, <2>1, FrameFacts
<1>4. r <= w
  BY RingParts
<1> HIDE DEF ns, n
<1>5. i \in 0 .. ns /\ i \in Nat /\ n \in 0 .. ns /\ i < ns /\ i + 1 = ns /\ ns \in 0 .. ns
  BY <1>1
<1>6. \A a, b \in 0 .. ns : a <= b => off[a] <= off[b]
  BY <1>2 DEF Framed, ns
<1>7. off[i] <= w /\ w < off[ns]
  <2> DEFINE o == off[i]
             e == off[ns]
  <2>1. /\ lw \in 1 .. buf_size /\ w + lw + lr = e
        /\ w = o \/ \E q \in Nat : w = o + Header + m_buf_size["sender"] * q
    BY DEF Writing, WriteAligned, ns
  <2>2. o \in Nat /\ e \in Nat
    BY <1>5
  <2>3. lw >= 1
    BY <2>1, Sizes
  <2>4. w < e
    <3>1. w + lw + lr = e
      BY <2>1
    <3> HIDE DEF lw, lr, e
    <3>. QED BY <1>1, <2>2, <2>3, <3>1
  <2>5. o <= w
    <3>1. CASE w = o
      BY <3>1
    <3>2. CASE \E q \in Nat : w = o + Header + m_buf_size["sender"] * q
      <4>1. PICK q \in Nat : w = o + Header + m_buf_size["sender"] * q
        BY <3>2
      <4> DEFINE c == m_buf_size["sender"]
                 f == c * q
      <4>2. c \in Nat
        <5>1. c \in 1 .. buf_size /\ buf_size \in Nat
          BY ChunkTypes, Sizes
        <5>. QED BY <5>1
      <4> HIDE DEF c
      <4>3. f \in Nat
        BY <4>2, SMTT(30)
      <4>4. w = o + Header + f
        BY <4>1 DEF c
      <4> HIDE DEF f, o
      <4>. QED BY <1>1, <2>2, <4>3, <4>4
    <3>. QED BY <2>1, <3>1, <3>2
  <2>. QED BY <2>4, <2>5
<1>8. CASE ReadingHeader(r, off)
  <2>1. r = off[n] /\ rlen = Header /\ r <= w
    BY <1>8, <1>4 DEF ReadingHeader, n
  <2>2. n # ns
    <3>1. n = ns => w < r
      BY <1>7, <2>1
    <3>. QED BY <2>1, <3>1
  <2>3. ASSUME n < i PROVE FALSE
    <3>1. k \in 0 .. ns /\ k <= i /\ n < ns
      BY <1>1, <2>3
    <3>2. /\ off[k] = off[n] + Header + BodyLen(sent[k]) /\ BodyLen(sent[k]) \in Nat
          /\ off[n] \in Nat
      BY <1>3, <3>1
    <3>3. off[k] <= off[i]
      BY <1>5, <1>6, <3>1
    <3> DEFINE o == off[i]
               x == off[k]
               l == BodyLen(sent[k])
    <3>4. /\ x = r + Header + l /\ l \in Nat /\ x <= o /\ o <= w /\ w < r + Header /\ o \in Nat
      BY <1>5, <1>7, <2>1, <3>2, <3>3
    <3> HIDE DEF o, x, l
    <3>. QED BY <1>1, <3>4
  <2>4. n = ns - 1
    BY <1>1, <2>2, <2>3
  <2>. QED BY <2>4 DEF ns, n
<1>9. CASE ReadingBody(r, str, off)
  <2>1. /\ n < ns /\ Len(body) + need = BodyLen(sent[k])
        /\ r = off[n] + Header + Len(body) /\ need > 0
        /\ rlen = Smaller(m_buf_size["receiver"], need)
    BY <1>9 DEF ReadingBody, n, ns
  <2>2. /\ off[k] = off[n] + Header + BodyLen(sent[k]) /\ BodyLen(sent[k]) \in Nat
        /\ off[n] \in Nat
    BY <1>3, <2>1
  <2>3. w < off[k]
    <3> DEFINE o == off[n]
               x == off[k]
               l == BodyLen(sent[k])
               b == Len(body)
               c == m_buf_size["receiver"]
    <3>1. /\ r = o + Header + b /\ x = o + Header + l /\ b + need = l /\ l \in Nat
          /\ rlen = Smaller(c, need) /\ need > 0 /\ o \in Nat
      BY <2>1, <2>2
    <3>2. b \in Nat /\ c \in 1 .. buf_size /\ buf_size \in Nat
      BY SeqTypes, ChunkTypes, Sizes
    <3> HIDE DEF o, x, l, b, c
    <3>3. need \in Int
      <4>1. need \in -1 .. Limit - 1
        BY DEF TypeOK
      <4> DEFINE lim == Limit
      <4>2. lim \in Int /\ need \in -1 .. lim - 1
        BY <4>1, LimitType
      <4> HIDE DEF lim
      <4>. QED BY <4>2
    <3>4. rlen <= need /\ rlen \in Int
      BY <3>1, <3>2, <3>3 DEF Smaller
    <3>5. w < x
      BY <1>1, <3>1, <3>2, <3>4, <3>3
    <3>. QED BY <3>5 DEF x
  <2>4. ~(k <= i)
    <3>1. ASSUME k <= i PROVE FALSE
      <4>1. k \in 0 .. ns
        BY <1>1, <2>1
      <4>2. off[k] <= off[i]
        BY <1>5, <1>6, <3>1, <4>1
      <4> DEFINE o == off[i]
                 x == off[k]
      <4>3. x <= o /\ o <= w /\ w < x /\ x \in Nat /\ o \in Nat
        BY <1>5, <1>7, <2>3, <4>1, <4>2
      <4> HIDE DEF o, x
      <4>. QED BY <4>3
    <3>. QED BY <3>1
  <2>5. n = ns - 1
    BY <1>1, <2>1, <2>4
  <2>. QED BY <2>5 DEF ns, n
<1>. QED BY <1>8, <1>9

\* When the reader lacks bytes, there is room for the sender's write.
LEMMA RoomForSender ==
    ASSUME TypeOK, Creator,
           NEW w \in Nat, NEW r \in Nat, NEW str \in [Nat -> Byte], NEW off \in [Nat -> Nat],
           RingAt(w, r, str, off), Writing(w, str, off),
           ReadingHeader(r, off) \/ ReadingBody(r, str, off), w < r + rlen
    PROVE  w + Len(wbuf) <= r + buf_size
<1> DEFINE ns == Len(sent)
           i == ns - 1
           o == off[i]
           e == off[ns]
           lw == Len(wbuf)
           cs == m_buf_size["sender"]
           cr == m_buf_size["receiver"]
           base == o + Header
<1>1. Len(received) = i
  BY ReaderLacks
<1>2. ns > 0 /\ ns \in Nat
  BY SeqTypes DEF Writing
<1>3. /\ cs \in 1 .. buf_size /\ buf_size % cs = 0
      /\ cr \in 1 .. buf_size /\ buf_size % cr = 0
  BY ChunkTypes
<1>4. /\ lw \in 1 .. buf_size
      /\ \/ w = o /\ lw = Header
         \/ (\E k \in Nat : w = base + cs * k) /\ lw = Smaller(cs, e - w)
  BY DEF Writing, WriteAligned
<1>5. r <= w /\ rlen \in Nat
  BY RingParts
<1>6. /\ ReadingHeader(r, off) => r = o /\ rlen = Header
      /\ ReadingBody(r, str, off) =>
            /\ r = base + Len(body) /\ rlen = Smaller(cr, need) /\ need > 0
            /\ \E j \in Nat : Len(body) = cr * j
  BY <1>1 DEF ReadingHeader, ReadingBody
<1>7. o \in Nat /\ e \in Nat /\ base \in Nat /\ base > o
  <2>1. i \in Nat
    BY <1>2
  <2> HIDE DEF i
  <2>2. o \in Nat /\ e \in Nat
    BY <1>2, <2>1
  <2> HIDE DEF o
  <2>. QED BY <2>2, Sizes
<1>8. buf_size \in {cs, cr} /\ buf_size \in Nat \ {0} /\ Header \in 1 .. buf_size
  BY Sizes DEF Creator
<1>9. need \in Int
  <2>1. need \in -1 .. Limit - 1
    BY DEF TypeOK
  <2> DEFINE lim == Limit
  <2>2. lim \in Int /\ need \in -1 .. lim - 1
    BY <2>1, LimitType
  <2> HIDE DEF lim
  <2>. QED BY <2>2
<1>10. Len(body) \in Nat
  BY SeqTypes
<1> DEFINE b == Len(body)
<1> HIDE DEF ns, i, o, e, lw, cs, cr, base, b
<1>11. lw \in Nat /\ lw <= buf_size
  BY <1>4, <1>8
<1>12. CASE w = r
  BY <1>5, <1>8, <1>11, <1>12 DEF lw
<1>13. CASE w # r /\ ReadingHeader(r, off)
  <2>1. r = o /\ rlen = Header
    BY <1>6, <1>13
  <2>2. PICK k \in Nat : w = base + cs * k
    BY <1>4, <1>13, <2>1
  <2>3. cs * k \in Nat
    BY <1>3, <1>8, SMTT(30)
  <2>4. base = o + Header
    BY DEF base
  <2> DEFINE f == cs * k
  <2>5. f \in Nat /\ w = base + f
    BY <2>2, <2>3
  <2> HIDE DEF f
  <2>6. FALSE
    BY <1>5, <1>7, <1>8, <2>1, <2>4, <2>5
  <2>. QED BY <2>6
<1>14. CASE w # r /\ ReadingBody(r, str, off)
  <2>1. r = base + b /\ rlen = Smaller(cr, need) /\ need > 0
    BY <1>6, <1>14 DEF b
  <2>2. PICK j \in Nat : b = cr * j
    BY <1>6, <1>14 DEF b
  <2>3. w # o
    BY <1>5, <1>7, <1>10, <2>1 DEF b
  <2>4. PICK k \in Nat : w = base + cs * k
    BY <1>4, <2>3
  <2>5. lw = Smaller(cs, e - w)
    BY <1>4, <2>3
  <2>6. cs \in Int /\ cr \in Int
    BY <1>3, <1>8
  <2>7. lw <= cs /\ rlen <= cr
    BY <1>7, <1>9, <2>1, <2>5, <2>6 DEF Smaller
  <2>8. r = base + cr * j
    BY <2>1, <2>2
  <2>9. w + lw <= r + buf_size
    BY <1>3, <1>5, <1>7, <1>8, <1>11, <2>4, <2>7, <2>8, ChunkFits
  <2>. QED BY <2>9 DEF lw
<1>. QED BY <1>12, <1>13, <1>14

\* The sides never wait for each other: when the reader lacks bytes, the sender
\* has room.
THEOREM NobodyIsStuck == Spec => []NeverStuck
<1>1. ASSUME IInv, Creator PROVE NeverStuck
  <2> SUFFICES ASSUME wpc = "write", rpc = "read", ~can_get(rlen)
               PROVE  can_put(Len(wbuf))
    BY DEF NeverStuck
  <2>1. TypeOK /\ RingInv
    BY <1>1 DEF IInv
  <2>2. PICK w \in Nat, r \in Nat, str \in [Nat -> Byte], off \in [Nat -> Nat] :
           RingAt(w, r, str, off)
    BY <2>1 DEF RingInv
  <2>3. /\ in = w % Modulus /\ out = r % Modulus /\ r <= w /\ w <= r + buf_size
        /\ rlen \in Nat
    BY <2>1, <2>2, RingParts
  <2> DEFINE n == Len(wbuf)
  <2>4. Writing(w, str, off) /\ n \in 0 .. buf_size
    BY <2>1, <2>2, WriterParts
  <2>5. ReadingHeader(r, off) \/ ReadingBody(r, str, off)
    <3>1. /\ ReadingHeader(ReadFrom(r), off) \/ ReadingBody(ReadFrom(r), str, off)
          /\ ReadFrom(r) = r
      BY <2>1, <2>2, ReaderParts
    <3>. QED BY <3>1
  <2>6. w < r + rlen
    <3>1. rlen \in Int
      BY <2>3
    <3>2. can_get(rlen) <=> r + rlen <= w
      BY <2>3, <3>1, CanGetIs
    <3>. QED BY <2>3, <3>2
  <2>7. w + n <= r + buf_size
    BY <1>1, <2>1, <2>2, <2>4, <2>5, <2>6, RoomForSender
  <2>. QED BY <2>3, <2>4, <2>7, CanPutIs
<1>. QED BY <1>1, RingIsStream, CreatorHolds, PTL

-----------------------------------------------------------------------------
(* The header *)

\* A header that has been read is the length of the oldest message not received.
LEMMA HeaderRead ==
    ASSUME TypeOK, NEW p \in Nat, NEW w \in Nat, NEW str \in [Nat -> Byte], NEW off \in [Nat -> Nat],
           Framed(str, off), BodiesInOrder, ReadingHeader(p, off),
           Bytes(rbuf, str, p), Len(rbuf) = rlen, p + rlen <= w, w <= off[Len(sent)]
    PROVE  /\ Len(received) < Len(sent) /\ sent[Len(received) + 1] \in Message
           /\ Decode(rbuf) = BodyLen(sent[Len(received) + 1])
<1> DEFINE n == Len(received)
           ns == Len(sent)
           l == BodyLen(sent[n + 1])
           lim == Limit
<1>1. n \in Nat /\ ns \in Nat /\ n <= ns /\ rbuf \in Seq(Byte)
  BY SeqTypes DEF BodiesInOrder
<1>2. rlen = Header /\ p = off[n] /\ Header \in Nat \ {0}
  BY Sizes DEF ReadingHeader
<1>3. n # ns
  BY <1>2
<1>4. n < ns
  BY <1>1, <1>3
<1>5. sent[n + 1] \in Message /\ Bytes(Encode(l), str, off[n])
  BY <1>1, <1>4, FrameFacts
<1>6. l \in 0 .. lim - 1 /\ l \in Nat
  BY <1>5, BodyFacts
<1> HIDE DEF l, lim
<1>7. Encode(l) \in Seq(Byte) /\ Len(Encode(l)) = Header
  BY <1>6, EncodeType
<1>8. rbuf = Encode(l)
  <2>1. Len(rbuf) = Len(Encode(l)) /\ Bytes(rbuf, str, off[n])
    BY <1>2, <1>7
  <2>. QED BY <1>1, <1>5, <1>7, <2>1, BytesEqual
<1>9. Decode(rbuf) = l
  BY <1>6, <1>8, DecodeEncode DEF lim
<1>. QED BY <1>4, <1>5, <1>9 DEF l

\* The assertion of recv holds for messages whose length the header has room for:
\* the length it is given, which is the message's, is the one in the header.
\* (Of those BodyAssumption leaves the ones shorter than 2 GiB.)
THEOREM LengthHolds == Spec => []LengthAsserted
<1>1. ASSUME IInv PROVE LengthAsserted
  <2> DEFINE m == sent[Len(received) + 1]
  <2> SUFFICES ASSUME rpc \in {"signal", "publish"}, need = -1
               PROVE  Len(received) < Len(sent) /\ (Len(m) < Limit => Decode(rbuf) = Len(m))
    BY DEF LengthAsserted
  <2>1. TypeOK /\ RingInv
    BY <1>1 DEF IInv
  <2>2. PICK w \in Nat, r \in Nat, str \in [Nat -> Byte], off \in [Nat -> Nat] :
           RingAt(w, r, str, off)
    BY <2>1 DEF RingInv
  <2>3. Framed(str, off) /\ BodiesInOrder /\ w <= off[Len(sent)]
    BY <2>1, <2>2, RingParts
  <2>4. /\ ReadFrom(r) \in Nat
        /\ ReadingHeader(ReadFrom(r), off) \/ ReadingBody(ReadFrom(r), str, off)
        /\ ReadSoFar(ReadFrom(r), w, str)
    BY <2>1, <2>2, ReaderParts
  <2>5. PICK p \in Nat : p = ReadFrom(r)
    BY <2>4
  <2>6. ReadingHeader(p, off)
    <3>1. ~ReadingBody(p, str, off)
      BY DEF ReadingBody
    <3>. QED BY <2>4, <2>5, <3>1
  <2>7. Bytes(rbuf, str, p) /\ Len(rbuf) = rlen /\ p + rlen <= w
    BY <2>4, <2>5 DEF ReadSoFar
  <2>8. Len(received) < Len(sent) /\ m \in Message /\ Decode(rbuf) = BodyLen(m)
    BY <2>1, <2>3, <2>6, <2>7, HeaderRead
  <2> HIDE DEF m
  <2>9. Len(m) < Limit => BodyLen(m) = Len(m)
    BY <2>8, ShortLength
  <2>. QED BY <2>8, <2>9
<1>. QED BY <1>1, RingIsStream, PTL
=============================================================================
