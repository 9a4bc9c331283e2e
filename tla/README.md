# gaia-net in TLA+

gaia-net moves messages between two parties of a computation. An application
holds an `IChannel` (`send`, `recv`, `flush`) and does not know whether it is
a `channel` over gRPC and redis or a `MemChannel` over shared memory. The
repository has one assertion for both: what `recv` hands out is what the peer
passed to `send`. This project models the two channels, the thread pool and
the thread and event classes, checks the models with TLC and proves most of
their safety with TLAPS.

## Inventory

| Part | State | Operations | What is hard |
|---|---|---|---|
| `channel` (channel.cpp) | `m_client`, `m_rcv_client`, retry counter of a call | constructor, `send`, `recv`, `flush`, `client_finish`, destructor | 120 retries, each of which closes the client, opens another one and hands over its state; exceptions in the middle of that |
| `RpcClient` (grpc_client.cpp) | versions, `m_seq`, `m_recv_idx`, `m_notack_queue`, the stream, the acknowledgement thread | `Send`, `Recv`, `wait_flush`, `get_/set_continue_status`, `finish` | two threads per client; acknowledgements that race with the queue; streams that break with packets in flight; a format that is guessed from the data |
| gRPC server and redis (external) | handlers of streams, one list per receiver | `push`, `push_v2`, `get_version`, `brpop` | a handler outlives the client's stream; redis may lose an element |
| `MemChannel` (memchannel.cpp) | two rings in shared memory | `send`, `recv`, create, attach, remove | copies without a lock, counters that wrap, one condition variable for both sides, segments left by another process |
| `ThreadPool`, `SafeQueue` | queue, `m_shutdown`, workers | `submit`, `shutdown` | notifications that nobody waits for |
| `CThread`, `CLock`, `CEvent` (gaiathread.cpp) | a flag, a thread | `Set`, `Wait`, `Reset` | `notify_one` after the unlock; a flag that is set after the thread runs |
| `RedisClient` (redis_client.cpp) | one connection | `brpop`, `lpush`, `hset` | which errors a timeout becomes depends on the kind of server |
| helpers, lz4, statistics | none that matters here | | |

A `channel` calls its `RpcClient`; the client's thread shares `m_notack_queue`
with it under `m_mtx`. The client writes to the server next to the *peer*,
which pushes to the list the peer pops from. A reply travels through the other
server, so the two directions are independent, except that one thread of each
application serves both.

What makes each part correct: the two channels are FIFO queues without loss or
repetition; a flush that returns true means delivery; a client is never
destroyed under its thread; every call returns when connections can be
re-established; the ring never overwrites what was not read, nor do its sides
wait for each other; every task of the pool runs once, in order, and the pool
stops. PROJECT.json lists the hazards, each at its line.

## Modules

| Module | Models |
|---|---|
| `RpcChannel` | both parties, their applications, clients and acknowledgement threads, the server, the network and redis |
| `ReliableFifo` | what a channel promises: one queue per direction. `RpcChannel!IsFifo` is the refinement by the gRPC channel, its mapping the identity on the history variables `sent` and `got`; `MemChannel!IsFifo` the one by the ring, of whose ends one only sends and the other only receives |
| `MCRpcChannel` | scripts and versions for TLC |
| `ChannelLifetime` | one channel object: which clients exist, what points to them, where the queue is; redis and pull mode |
| `MemChannel`, `MCMemChannel` | one direction of the shared memory channel: ring, counters, condition variable |
| `ShmLifecycle` | how the two ends of a `MemChannel` create, find and remove the segments, over several sessions |
| `ThreadPool` | the pool over `SafeQueue` |
| `EventThread` | `CEvent` and `CThread` together |
| `RpcChannelProofs`, `RpcAckProofs`, `RpcDeliveryProofs` | theorems on `RpcChannel`: types and control, acknowledgements, delivery; each extends the one before |
| `MemChannelProofs` | theorems on `MemChannel` |
| `ChannelLifetimeProofs`, `ShmLifecycleProofs`, `ThreadPoolProofs`, `EventThreadProofs` | theorems on the other modules |

`RpcChannel` and `ChannelLifetime` are two views of channel.cpp. The first has
the packets and the two threads and stops following a party whose call threw;
the second has no packets, only their number, and follows the object through
every sequence of calls, exceptions and retries to the destructor. `MemChannel`
starts where `ShmLifecycle` ends: both ends use the same two segments.

### RpcChannel

Variables keep the names of the fields. `pc` is where the caller's thread is:

    idle -> send -> wrote -> idle          Send; wrote: between m_seq++ and emplace_back
    idle -> recv | flush -> idle
    send, recv, flush -> finish -> join -> reconnect -> resend -> the call again
    idle -> close -> finish -> join -> closed          the destructor
    noclient, terminated, segv: create_channel threw, std::terminate, null m_sender

`tpc` is where the acknowledgement thread is: `new` (created, has not run),
`read`, `acked` (read an acknowledgement, waits until the queue is not empty),
`pop`, `done`. `m_recv_thread_status` is a function of it. `m_mtx` protects
single operations, which are single steps; only the resend loop holds it over
several, so "the mutex is free" is `pc # "resend"`.

`up[p][k]` is what is under way to the server on the k-th stream of p, `down[p]`
the acknowledgements on the current one, `redis[q]` the list q pops from. `sent`
and `got` are history.

External assumptions, from how the client uses the server:

- the handler of a stream takes its packets in order, pushes each to redis and
  then acknowledges it; it goes on with what it has received when the client
  has given the stream up, and then pushes the command -1;
- when a connection breaks, a suffix of what is under way is lost in each
  direction; a `Write` that returns false was not delivered;
- the first element of a list, and no other, starts with the magic string if
  the receiving server speaks version 2;
- `Finish` on an unbroken stream returns when the server has read everything;
- gRPC flow control: a stream holds `Window` packets in one direction and
  `Window` acknowledgements in the other; `Write` waits for room, and so does
  the server before it acknowledges. A new stream has the window of the old one.

`RedisKind` is the choice of RedisClient's constructor (`CPP_REDIS_CLUSTER_MODE`
and `CPP_REDIS_USE_THREE_FACTORS`). Over a sentinel connection the socket times
out before `brpop` does, which is an exception and not an empty answer, so
`Recv` does not get to its test for a resend (`brpop_returns_empty`).

Abstractions: messages are model values; the 120 retries are `MaxRetry`, the
20 of `get_version` are one step that succeeds or fails; times are left out, so
a timeout may happen at any moment if `MayTimeOut`; an application whose call
threw makes no further call. Statistics and metadata are left out.

### ChannelLifetime

A pointer is a natural number, the clients are numbered in the order of `new`,
`live` are those not deleted; -1 is a member that was never assigned, 0 is
`nullptr`. `pc` is `new` before the constructor, `idle` between calls, the name
of the call in a call, then `destroy`, `create`, `restore` in a retry, `gone`
after the destructor, `crash` after an access through a bad pointer. `told` is
what the application knows: nothing, that a call failed, that connecting
failed, or that it called `client_finish` itself; the last two stick. The queue
is its length, `notack`, in the client, and `continue_status.notack` in the local
variable of a retry. The application may go on after any exception, a failed
connect included, and after `client_finish`: a call through `m_client` then ends
in `badcall`, while `crash` is a bad access by the channel's own retry, its
`client_finish` or its destructor.

Three history variables count packets and calls. `accepted` counts the packets of
every `send` that returned normally, `acked` those the thread removed from the
queue (version 2 only: version 1 keeps nothing and has no acknowledgement, so
nothing is promised for it), and `exhausted` the calls whose last try failed and
that returned normally all the same, because the result of the resend took the
place of their own.

### ShmLifecycle

An end is a role and a session; sessions are uses of one task id, the next one
starting when the ends of the one before have met. Segments are known by the
session that created them, 0 being a run that crashed. `name` is what
`shm_open` finds, `fd` and `view` what an end opened and uses. The file lock is
modelled as it is built: an open (which may create the file, hence `inodes`),
an `fcntl` lock that belongs to a process and a file, the mutex of the process
with its use counter, and the removal of the file after the unlock. The ends
are threads of one process or two processes, chosen in `Init`. Calls of
`shm_open`, `ftruncate` with `init`, `mmap`, `shm_unlink`, and each count of
`client_attached` are steps. `MayStart` assumes that, with segments of a crashed
run left over, the attaching end is constructed after the creator has replaced
them; started before, it would take an old segment, and `SameSegments` fails.

### MemChannel

A ring of `buf_size` cells, `in` and `out` modulo `Modulus` (2^32), a header of
`Header` digits in base `Base` for the `uint32_t` length. In cv mode an access
is one step under the mutex and the signal after the unlock another one; in
spin mode each of the two `memcpy` and the update of the counter are steps of
their own, since the other side may look in between. `RingAssumption` asks for
`Modulus > 2 * buf_size`, which an `int` buffer size guarantees: without it
`can_put` would be true of a full ring. The creator's `m_buf_size` is the size
of the ring; the other end may have been given another power of two, since the
check in `attach_shm` is commented out (a larger one is excluded: its chunks
would never fit).

A length is cut to the header's width, `Limit` values: `BodyLen` is what the
header says and `Body` what send's loop copies, the whole message if it is
shorter than `Limit` (4 GiB), the remainder otherwise. `BodyAssumption` leaves out
bodies of half of `Limit` and more (messages of 2 to 4 GiB among them), where the code's `int pos` overflows and the copy leaves the caller's
buffer. `CodecAssumption` has the two facts of arithmetic the proofs need of the
encoding, that powers are numbers and that different lengths below `Limit` have
different digits; both are evaluated by TLC on each run.

### ThreadPool

The queue has its own mutex, so `empty`, `enqueue` and `dequeue` are steps. A
worker's `while` test, its lock with `empty`, its `wait`, its waking up, its
`dequeue` and its task are steps; `notify_one` removes some waiting worker, if
there is one.

### EventThread

The methods of `CEvent` run under `mutex_` and are single steps, but for the
block in `Wait` and the notification of `Set`, which comes after the unlock; a
waiting thread may wake up for no reason. `seen` is history: a `Wait` has returned
since the event was last set. An owner starts each `CThread` and
joins it; the new thread may run before `m_bRunning` is set.

## Runs

| Run | Shows |
|---|---|
| `stream` | Two sends and a flush against two receives, two breaks on each side, three tries per call, connections that may fail: FIFO (`InOrder`, `IsFifo`), nothing dropped that has not arrived (`NothingLost`), no gap, acknowledgements in step with the queue, the join ends, flush delivers |
| `echo` | Request and reply: every call returns, with a break on each side |
| `faults` | Two messages in each direction, a flush between the replies, servers of version 3 and 1, a sentinel, with every fault there is: numbered data have no hole (`NoSilentLoss`), data without numbers stay in order and nothing comes twice (`PlainInOrder`) |
| `window` | Four messages through windows of one: the resend that holds `m_mtx`, the server and the thread never wait for each other |
| `lifetime` | No bad pointer but in three known sequences, no client left over; a call returns normally without having done its work only after `MaxRetry` breaks of its own (`OnlyAfterAllTries`); with version 2 no packet is dropped unless the application knows, but one for each such send (`NoQuietDrop`) |
| `send_exhausted` | *violated*: the last retry returns the wrong result |
| `terminates` | *violated*: the thread may be left unjoined |
| `mem` | Both modes, equal and unequal chunks, messages longer than the ring and than a header can say: messages in order, each with its length (`RecvInOrder`, `LengthAsserted`, `IsFifo`); no copy cut short; no mutual wait; no lost signal |
| `shm` | The ends meet on the same, initialised segments; every name is removed by the right end; locks and counters hold |
| `pool` | Tasks in order, once; at most one per worker after shutdown; with two workers every task starts |
| `pool_lost_wakeup` | *violated* with one worker, the default |
| `event` | One `Wait` per `Set` of an automatic event, no lost wakeup, join means the thread ended |

The violated runs state what a test, a comment or an assertion of the
repository says; the findings in PROJECT.json quote it.

Some behaviours are in the models and in the hazards but not claimed by a run:

- a version 1 client that reconnects gets its version back but no stream, and
  its next `Send` or `finish` goes through a null `m_sender`; a pull-mode
  channel whose reconnect failed keeps an `m_rcv_client` that was deleted; and
  `send`, `recv` and `flush` after a failed connect or `client_finish` go through
  a null `m_client`. These are the three exceptions `NoDanglingUse` names;
- with `RedisMayLose` and version 2 servers `InOrder` fails when the element
  that is lost carries the magic string: the list is then taken for one without
  numbers. `NoSilentLoss` speaks of lists whose format was recognised;
- of a message of 4 GiB or more over shared memory only the remainder modulo
  4 GiB is sent, and recv's `assert(body_len == length)` fails: `RecvInOrder`,
  `LengthAsserted` and `IsFifo` are about the part that is sent, and say that the
  messages behind it arrive;
- in `echo` with `ClusterMode = "sentinel"` and `ThreeFactors = TRUE`
  `AllCallsReturn` fails: both sides wait in `recv`;
- `shutdown` of the pool may wait for ever: a worker between its test of
  `m_shutdown` and `wait` misses `notify_all`;
- the loop around the pull-mode `recv` never repeats, since `Recv` there
  returns true or throws;
- a `Set` of a manual event wakes one waiter, and the others may sleep on while
  the event is set. `SetIsSeen` says that as long as no `Wait` has returned since
  the event was set (`seen`), some waiter is awake or the notification still to
  come; it does not say that all waiters wake up.

Bounds. Two messages are the least that can be reordered or leave a gap, two
breaks the least for a resend that is itself broken off, and three tries one
more than the breaks, so that the passing runs separate what retrying achieves
from what happens when it ends. With more tries than breaks a call never runs
out of them, which is the reading of "120"; `send_exhausted` sets them equal.
`faults` has one break per side and all other faults without a limit; two
messages in the direction without numbers are the least that can be swapped or
doubled, and the flush between the numbered replies makes the second one a
packet of its own, with a break, a resend or a loss before it. As a call has more tries than breaks there, it says nothing of a recv
whose loop is used up. `window`
has four messages because a packet in each window, one in the server and one in
the thread are as many as can be under way. `lifetime` has six breaks and
three tries, so that two calls run out of them and a client is replaced six
times. The ring holds 4 cells and its messages 0, 1, 4, 7 and 18 bytes, so that a
message fills it, exceeds it and wraps in the middle of a copy; the counters
wrap at 16. A header has two digits in base 4, so that it can say lengths below
16; of the fifth message, 18 bytes, it has room for 2. `shm` has three sessions: the destructor of the first may meet the
creation of the second and of the third. `event` has three threads, so that a
latecomer can overtake two waiters. Messages are symmetric in `stream` and
`faults`.

Fairness. `RpcChannel!FairSpec`: weak fairness of each caller, each
acknowledgement thread and each server, which a scheduler and a live server
give; none for breaks, timeouts and failures, which need not happen.
`MemChannel`: weak fairness of both processes; a side blocked on the condition
variable is not enabled, and nobody may count on a spurious wakeup.
`ShmLifecycle`: weak fairness of each end's steps within a constructor, an
attach or a destructor; nobody has to construct or destroy a channel.
`ThreadPool!FairSpec`: weak fairness of the workers and of the notifications,
and strong fairness of taking `m_conditional_mutex`, since a mutex that is
released again and again is in the end given to everyone who asks.

Deadlock is checked everywhere but in the pool, which stands still when idle,
and in `event`, whose threads may wait for a `Set` that nobody makes.
`Stopped`, `Done` and `Ended` mark the ends that are meant.

## Proofs

Every theorem holds for all values of the constants that satisfy the module's
named assumption: any scripts, messages, windows, versions, numbers of breaks,
sessions, threads. TLC checked each inductive invariant on the runs' instances
before it was proved. What each theorem needs beyond the module's assumption
is in its statement.

| Theorem | States | Hypotheses |
|---|---|---|
| `RpcChannelProofs!TypeCorrect` | `TypeOK` | none |
| `RpcAckProofs!AcksMatch`, `JoinReturns`, `ResendGoesOn` | `AckMatchesFront`, `JoinEnds`, `ResendNeverStuck` | none |
| `RpcDeliveryProofs!NeverLost`, `NeverAhead` | `NothingLost`, `NoGap` | numbered servers, redis loses nothing |
| `RpcDeliveryProofs!RetriesLast` | `TriesLeft` | numbered servers, fewer breaks than tries |
| `RpcDeliveryProofs!NeverSilentlyLost` | `NoSilentLoss` | numbered servers, `[]TriesLeft` |
| `RpcDeliveryProofs!DeliveredInOrder`, `FlushMeansDelivered`, `Refinement` | `InOrder`, `FlushDelivers`, `IsFifo` | numbered servers, redis loses nothing, `[]TriesLeft` |
| `RpcDeliveryProofs!DeliversWithFewBreaks` | the same three | numbered servers, redis loses nothing, fewer breaks than tries |
| `ChannelLifetimeProofs!LifetimeTypes`, `PointersSafe`, `ClientsOwned`, `ReturnsAreTrue`, `PacketsKept` | `TypeOK`, `NoDanglingUse`, `NoOrphan`, `OnlyAfterAllTries`, `NoQuietDrop` | none |
| `ShmLifecycleProofs!ShmTypes`, `MutexStaysAlive`, `MapsWhatIsReady`, `AssertsOnlyQuit`, `NamesAreRemoved`, `SegmentsAreShared`, `OnlyOwnNamesRemoved` | `TypeOK`, `MutexAlive`, `MappedWhenReady`, `AssertHolds`, `NothingLeft`, `SameSegments`, `OnlyOwnNames` (an action property) | none |
| `MemChannelProofs!MemTypeCorrect`, `NothingIsCut`, `NobodyIsStuck`, `MessagesArrive`, `LengthHolds`, `MemRefinement` | `TypeOK`, `NothingCut`, `NeverStuck`, `RecvInOrder`, `LengthAsserted`, `IsFifo` | none |
| `ThreadPoolProofs!PoolTypes`, `PoolFifo`, `PoolStopsSoon` | `TypeOK`, `FifoOnce`, `ShutdownSoon` | none |
| `EventThreadProofs!EventTypes`, `OneWaitPerSet`, `JoinedThreadsAreDone`, `NoSetUnseen` | `TypeOK`, `OnePerSet`, `JoinMeansDone`, `SetIsSeen` | none |

**RpcChannel, types.** `TypeOK` is not inductive: that `cur` stays within the
streams needs that a stream is opened only when the one before broke, that a
resent packet has a body needs that a failed `Send` gives its content back, and
that `Tail` of the queue is a sequence needs that the thread pops only what it
saw. The strengthening is `ControlInv`: the call in progress is the script's
(`CallInv`), streams follow breaks (`StreamInv`), a thread at `pop` has
something to pop (`PopInv`). Since a step of p changes the control state of p
only, `ControlFrame` reduces each action to p itself; the types are split into
groups of variables (`TypeParts`), each proved for the actions that touch it.

**RpcChannel, acknowledgements.** RpcClient's thread removes the front of the
queue at each acknowledgement without comparing numbers. `AckInv` says why that
is right: the queue is the run of numbers that ends at `m_seq - 1`; the
acknowledgement in hand has the queue's first number, those under way the
following ones (`NumberInv`); what the server has not read of an open stream
goes on from there to what the resend loop has written (`UpInv`). So the
numbers in the queue are split, in order, into in hand, under way back, under
way out. A break cuts the two middle parts from their ends, and the resend
starts from the queue's front again. That the join of `finish` ends follows from
`NumberInv`; that a resend under `m_mtx` does not wait for ever needs
`WindowInv` too: the packets not yet popped are at most two windows and one.

**RpcChannel, delivery.** `NothingLost` and `NoGap` rest on `OrderInv`: what is
acknowledged has reached the list, and in front of each number in any stream
(also one given up, whose server may still push) and in the list every smaller
number has been pushed before or stands before it. So neither an old stream nor
a resend overtakes, and duplicates are all that recv has to skip. Contents are
`ContentInv`: a number stands for the same message in the queue, in every
stream and in the list (`BodyInv`), the next number for the message being sent
(`CallsInv`), and what recv has returned is the first `m_recv_idx + 1` messages
(`GotInv`). For the refinement, `send` is `Fifo!Send`, the delivery of a packet
`Fifo!Recv`, and every other step stutters.

The hypotheses are not there to make the proofs easier; each is needed:

- *Numbered servers* (`ServerVersion >= v2`): a version 1 server numbers
  nothing and acknowledges nothing, so a packet may be lost without notice
  (`PlainInOrder`, checked by run `faults`, is what is left).
- *Redis loses nothing*: `brpop` may fail after redis has removed the element.
  `NeverSilentlyLost` does not assume this, and says that a loss is noticed.
- *`[]TriesLeft`*: the last iteration of a retry loop in channel.cpp returns
  the result of the failed attempt (finding of the run `send_exhausted`), and for
  `recv` that is a string nobody sent. `RetriesLast` derives `TriesLeft` from
  `MaxBreaks < MaxRetry`: every iteration that resends has opened a stream of
  its own, so `TriesInv` bounds the tries of a call by the breaks. The
  equality that the run `send_exhausted` sets shows that the bound is sharp.

**ChannelLifetime.** None of the properties is inductive. `LifeInv` adds
what makes them so, for each place of the code: `Places`, which clients exist
there (two during a call, at most the receiving one after the old sender is
deleted, none when `create_channel` is about to run); `Pointers`, that nothing
else exists and the two are different objects, so deleting both never deletes
one twice; `Version`, that a client with a version 1 server and no stream is one
a retry made, and that only version 2 has a queue; and `Queue`, that the queue
is with the client or with the retry and never with both. One lemma per group of
actions; `CreateChannelInv` serves the constructor and the retry, `CrashInv` the
two known sequences that end in `crash`. `OnlyAfterAllTries` has an invariant of its own,
`TriesInv`: the tries of the calls whose loop was used up, those of the call in
progress and the stream that is dead now are together no more than the breaks.
`TriesKept` is for the steps that start or fail nothing, `TriesSpent` for the end
of a try.

**ShmLifecycle.** Any number of sessions use the same two names, in one process
or two. `Inv` has these parts. Which segments the two ends of a session have
opened, initialised and attached to at each place of the code (`CreatorInv`,
`AttacherInv`, `ViewInv`); what `client_attached` counts (`AttachInv`); that a
name is there only from `shm_open` to the end that counts first (`NameInv`);
that ends are under way in one session at a time (`OrderInv`, with
`OldNameInv` for the leftovers of a crash): from these, `NamesOf` shows that a
constructor, an attach or a destructor only ever meets names of its own
session. That the segment is mapped after it was initialised is mutual
exclusion, once by the key mutex (`MutexInv`) and once by the lock file: since
the file is removed after the unlock, two processes could lock different files
of the same name, and `FileLockInv` says that they do not, because the file is
removed only by the end that attached to the segment, when the creator cannot
have it open any more. The mutex itself is alive while it is used because the
counter is at least the number of users (`CounterInv`, a cardinality).
`Course` lists from where to where each end can step; `SessionFrame` leaves
one lemma per action for the session that moves; `AbortStep` is the failing
assertion, which ends all threads of its process.

**ThreadPool.** `FifoOnce` is inductive with the types; `ShutdownSoon` needs
`LateInv`: a worker that took a task after the flag was set can only be running
it, be back at the loop, or have left, so it reads the flag before it could take
another one.

**EventThread.** `OnePerSet` compares a number of threads with a number of
`Set`s and needs `ControlInv`, that who sleeps is in `Wait`; `SetIsSeen` is
inductive with it, for an automatic event because a `Wait` that returns clears
the event, for a manual one up to the first `Wait` that returns after the `Set`; `JoinMeansDone` is the part of `ControlInv` about the owner,
who waits until `ThreadMain` has returned.

**MemChannel.** Not even `TypeOK` is inductive by itself: that `need` is below
`Limit` needs that the bytes read are the encoding of a length, hence the
contents of the ring. `RingInv` says that there are

- positions `w` and `r`, natural numbers without a bound, with `in` and `out`
  their remainders modulo 2^32 and `r <= w <= r + buf_size`;
- a stream `str` of bytes, in which each message sent follows its header
  (`Framed`), and `off`, where message n ends;

such that the cells hold the stream from `r` to `Stored(w)`, which runs ahead of
`w` while a sender without the mutex has copied and not yet moved `in`
(`Holds`); the writer is in the last message, at its header or a number of
chunks behind it (`WriterAt`); the reader is at the header of the oldest message
not received or a number of its own chunks behind it, and has read the stream so
far (`ReaderAt`); and each message received is the body of the one sent
(`BodiesInOrder`). Only `Send` changes the stream: it appends a frame
(`Extend`). The other steps move `w` or `r` along it, and two lemmas,
`WriterKept` and `ReaderKept`, say that a step of one side leaves the other
side its part.

The arithmetic is in a few lemmas. `CanPutIs`, `CanGetIs`, `PutLenIs` and
`GetLenIs`: what the code computes modulo 2^32 is what it would compute with the
positions, because `Modulus > 2 * buf_size`. `CellsFrom` and `CopyHolds`: a copy
in two parts puts position i into cell `i % buf_size` and into no cell that is
still to be read. `NothingCut` and `RecvInOrder` follow directly,
the latter because a message below `Limit` is its own body.

`NeverStuck` follows with `Creator`, that one side's chunk is the whole ring: a
reader that lacks bytes has reached the message being written (`ReaderLacks`);
there both sides are at multiples of their chunks, of which one divides the
other, so that less than a chunk between them means room for the next one
(`ChunkFits`). That the chunks divide the ring is used here; with other sizes
the two sides can wait for each other.

In the refinement the queue holds the bodies; `Send` is its `Send`, the last read
of a recv its `Recv`, and every copy, wait and signal stutters.

Only model-checked: `PlainInOrder`, the order of data without numbers, and
liveness (`AllCallsReturn`, `AllReceived`, `Meets`, `EveryTaskRuns`), which is
out of the prover's reach.

## Not modelled

- lz4 framing, `fast_resize`, byte counters, statistics and metadata, helpers
  and random strings: no state another part reads.
- The key of a redis list (grpc_client.cpp:290): party ids and task id are
  joined without separators, so different parties may share a list. The model
  has one pair of parties.
- The overflow of `m_seq` and `m_recv_idx` after 2^31 packets: beyond any
  instance.
- Bodies of 2 GiB and more over shared memory (memchannel.cpp:391): excluded by
  `BodyAssumption`.
- A `MemChannel` end with a larger buffer than the segment (memchannel.cpp:279):
  excluded by `RingAssumption`.
- Windows that shrink between two streams: `ResendNeverStuck` rests on a new
  stream having the windows of the old one.

## Plan

1. The core, the type theorem and the safety of the pool: done.
2. `ShmLifecycle`, `EventThread`, `ChannelLifetime`, pull mode, flow-control
   windows, kinds of redis, the theorems on `ChannelLifetime`: done.
3. Acknowledgements, delivery and the refinement of `ReliableFifo`; the event;
   the segments of shared memory: done.
4. The ring of `MemChannel`, its invariant and its refinement of `ReliableFifo`:
   done.
