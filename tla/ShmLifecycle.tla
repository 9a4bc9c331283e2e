--------------------------- MODULE ShmLifecycle ---------------------------
(***************************************************************************)
(* How the two ends of a MemChannel (memchannel.cpp) find each other: the  *)
(* shared memory segments, their names, and the file and key locks that    *)
(* protect them.  The end with the smaller party id creates both segments  *)
(* in its constructor; the other end attaches at its first send or recv    *)
(* and removes the names.  The ends may be threads of one process or two   *)
(* processes.  A task id may be used again: session s + 1 starts when the  *)
(* ends of session s have met, whether or not they are destroyed by then.  *)
(***************************************************************************)
EXTENDS Integers

CONSTANTS
    MaxSession,     \* bound: how often the task id is used
    MayQuit         \* the creator may be destroyed before the other end attached

ASSUME ShmAssumption == MaxSession \in Nat \ {0} /\ MayQuit \in BOOLEAN

Session == 1 .. MaxSession
End     == {"creator", "attacher"} \X Session
C(s)    == <<"creator", s>>
A(s)    == <<"attacher", s>>
Dir     == {"send", "recv"}
Process == {"creator", "attacher", "both"}

\* get_shm_key: key 1 is the creator's way to the other end, 2 the way back
Key == {1, 2}
\* Mutant: both ends join the ids in the same order
get_shm_key_ordered(e, d) == IF d = "send" THEN 1 ELSE 2
get_shm_key(e, d) == IF (e[1] = "creator") = (d = "send") THEN 1 ELSE 2

\* A segment is known by the session whose creator made it (0: an earlier
\* run that crashed) and its key.
None == <<>>
Seg  == (0 .. MaxSession) \X Key

VARIABLES
    together,               \* the ends are threads of one process, for good
    pc, dir,                \* where an end is, and with which of its segments
    name,                   \* the segment shm_open finds under a key
    inited, client_attached,    \* SharedMemoryView
    fd, view,               \* the segment an end has opened, those it uses
    lockfile, inodes,       \* the lock file of a key (0: none), how many there were
    lock_fd, locked,        \* what an end has opened; <<process, key, file>> with fcntl lock
    counter                 \* s_key_lock_global_map: users of a process's key mutex

shm   == <<name, inited, client_attached, fd, view>>
locks == <<lockfile, inodes, lock_fd, locked, counter>>
vars  == <<together, pc, dir, shm, locks>>

proc(e) == IF together THEN "both" ELSE e[1]
key(e)  == get_shm_key(e, dir[e])

\* Leftovers of an earlier run are destroyed by the first constructor.
Init ==
    /\ together \in BOOLEAN
    /\ pc = [e \in End |-> "off"] /\ dir = [e \in End |-> "send"]
    /\ name \in [Key -> {None} \cup {<<0, k>> : k \in Key}]
    /\ \A k \in Key : name[k] \in {None, <<0, k>>}
    /\ inited = {<<0, k>> : k \in Key}
    /\ client_attached = [g \in Seg |-> 0]
    /\ fd = [e \in End |-> None] /\ view = [e \in End |-> [d \in Dir |-> None]]
    /\ lockfile = [k \in Key |-> 0] /\ inodes = [k \in Key |-> 0]
    /\ lock_fd = [e \in End |-> 0] /\ locked = {}
    /\ counter = [p \in Process |-> [k \in Key |-> 0]]

Goto(e, l) == pc' = [pc EXCEPT ![e] = l] /\ UNCHANGED <<together, dir>>

\* The same for the second segment, or on to l
NextDir(e, again, l) ==
    /\ pc' = [pc EXCEPT ![e] = IF dir[e] = "send" THEN again ELSE l]
    /\ dir' = [dir EXCEPT ![e] = IF @ = "send" THEN "recv" ELSE "send"]
    /\ UNCHANGED together

unlinked(k) == name' = [name EXCEPT ![k] = None]

-----------------------------------------------------------------------------
(* The application *)

Met(s) == pc[A(s)] \in {"up", "gone"} /\ pc[C(s)] \in {"up", "drop", "gone"}

\* The first pair is not started the other way round when an earlier run
\* left segments: the attaching end would take one of them.
MayStart(e) ==
    /\ e[2] > 1 => Met(e[2] - 1)
    /\ e = A(1) => \A k \in Key : name[k] # <<0, k>>

Construct(e) ==
    /\ pc[e] = "off" /\ MayStart(e)
    /\ Goto(e, IF e[1] = "creator" THEN "destroy" ELSE "poll")
    /\ UNCHANGED <<shm, locks>>

-----------------------------------------------------------------------------
(* get_file_lock and free_file_lock *)

\* open with O_CREAT
OpenLockFile(e) ==
    /\ pc[e] = "lockfile"
    /\ inodes' = [inodes EXCEPT ![key(e)] = IF lockfile[key(e)] = 0 THEN @ + 1 ELSE @]
    /\ lockfile' = [lockfile EXCEPT ![key(e)] = IF @ = 0 THEN inodes[key(e)] + 1 ELSE @]
    /\ lock_fd' = [lock_fd EXCEPT ![e] = lockfile'[key(e)]]
    /\ Goto(e, "fcntl")
    /\ UNCHANGED <<shm, locked, counter>>

FcntlIf(e, free) ==
    /\ pc[e] = "fcntl" /\ free
    /\ locked' = locked \cup {<<proc(e), key(e), lock_fd[e]>>}
    /\ Goto(e, "count")
    /\ UNCHANGED <<shm, lockfile, inodes, lock_fd, counter>>

\* Mutant: F_SETLK, whose result is not looked at
FcntlNoWait(e) == FcntlIf(e, TRUE)

\* F_SETLKW waits for other processes only
Fcntl(e) == FcntlIf(e, \A p \in Process \ {proc(e)} : <<p, key(e), lock_fd[e]>> \notin locked)

\* get_key_lock: the entry is counted under the global mutex ...
CountKeyLock(e) ==
    /\ pc[e] = "count"
    /\ counter' = [counter EXCEPT ![proc(e)][key(e)] = @ + 1]
    /\ Goto(e, "keylock")
    /\ UNCHANGED <<shm, lockfile, inodes, lock_fd, locked>>

\* ... and its mutex is locked after that
Critical == {"create", "init", "attach", "unlink", "free"}
KeyLock(e) ==
    /\ pc[e] = "keylock"
    /\ \A x \in End \ {e} : proc(x) = proc(e) /\ key(x) = key(e) => pc[x] \notin Critical
    /\ Goto(e, IF e[1] = "creator" THEN "create" ELSE "attach")
    /\ UNCHANGED <<shm, locks>>

FreeKey(e, left) ==
    /\ pc[e] = "free"
    /\ counter' = [counter EXCEPT ![proc(e)][key(e)] = left]
    /\ Goto(e, "close")
    /\ UNCHANGED <<shm, lockfile, inodes, lock_fd, locked>>

\* Mutant: the entry is erased whoever waits for its mutex
FreeKeyLockErases(e) == FreeKey(e, 0)
\* Mutant: counted down twice
FreeKeyLockTwice(e) == FreeKey(e, counter[proc(e)][key(e)] - 2)

\* free_key_lock: at 0 the entry and its mutex are erased
FreeKeyLock(e) == FreeKey(e, counter[proc(e)][key(e)] - 1)

\* close drops every fcntl lock this process has on the file
CloseLockFile(e) ==
    /\ pc[e] = "close"
    /\ locked' = locked \ {<<proc(e), key(e), lock_fd[e]>>}
    /\ IF e[1] = "creator" THEN NextDir(e, "lockfile", "up") ELSE Goto(e, "delete")
    /\ UNCHANGED <<shm, lockfile, inodes, lock_fd, counter>>

-----------------------------------------------------------------------------
(* The constructor that creates: destroy_shm twice, create_shm twice *)

destroy_shm(e) ==
    /\ pc[e] = "destroy"
    /\ unlinked(key(e))
    /\ NextDir(e, "destroy", "lockfile")
    /\ UNCHANGED <<inited, client_attached, fd, view, locks>>

\* shm_open with O_EXCL, or without if the name exists
CreateShm(e) ==
    /\ pc[e] = "create"
    /\ name' = [name EXCEPT ![key(e)] = IF @ = None THEN <<e[2], key(e)>> ELSE @]
    /\ fd' = [fd EXCEPT ![e] = name'[key(e)]]
    /\ Goto(e, "init")
    /\ UNCHANGED <<inited, client_attached, view, locks>>

\* ftruncate, mmap and SharedMemoryView::init
InitView(e) ==
    /\ pc[e] = "init"
    /\ inited' = inited \cup {fd[e]}
    /\ client_attached' = [client_attached EXCEPT ![fd[e]] = 0]
    /\ view' = [view EXCEPT ![e][dir[e]] = fd[e]]
    /\ Goto(e, "free")
    /\ UNCHANGED <<name, fd, locks>>

-----------------------------------------------------------------------------
(* attach_shm *)

\* Mutant: shm_open's result is tested the wrong way round
OpenShmNever(e) == pc[e] = "poll" /\ name[key(e)] # None /\ UNCHANGED vars

OpenAs(e, g) ==
    /\ pc[e] = "poll" /\ name[key(e)] # None
    /\ fd' = [fd EXCEPT ![e] = g]
    /\ Goto(e, "lockfile")
    /\ UNCHANGED <<name, inited, client_attached, view, locks>>

\* Mutant: the descriptor of the first segment is used for the second
OpenShmReusing(e) == OpenAs(e, IF dir[e] = "send" THEN name[key(e)] ELSE fd[e])

\* shm_open found the name, before any lock; otherwise sleep and try again
OpenShm(e) == OpenAs(e, name[key(e)])

\* assert fails: the process ends, and its fcntl locks with it
Abort(e) ==
    /\ pc' = [x \in End |-> IF proc(x) = proc(e) THEN "aborted" ELSE pc[x]]
    /\ locked' = {l \in locked : l[1] # proc(e)}
    /\ UNCHANGED <<together, dir, view, lockfile, inodes, lock_fd, counter>>

\* Mutant: NDEBUG, where assert(++client_attached == 1) is not evaluated
AttachViewNDEBUG(e) ==
    /\ pc[e] = "attach"
    /\ view' = [view EXCEPT ![e][dir[e]] = fd[e]]
    /\ Goto(e, "unlink")
    /\ UNCHANGED <<name, inited, client_attached, fd, locks>>

\* mmap and attach_init
AttachView(e) ==
    /\ pc[e] = "attach"
    /\ client_attached' = [client_attached EXCEPT ![fd[e]] = @ + 1]
    /\ IF client_attached'[fd[e]] = 1
       THEN /\ view' = [view EXCEPT ![e][dir[e]] = fd[e]]
            /\ Goto(e, "unlink") /\ UNCHANGED locks
       ELSE Abort(e)
    /\ UNCHANGED <<name, inited, fd>>

UnlinkShm(e) ==
    /\ pc[e] = "unlink"
    /\ unlinked(key(e))
    /\ Goto(e, "free")
    /\ UNCHANGED <<inited, client_attached, fd, view, locks>>

delete_file_lock(e) ==
    /\ pc[e] = "delete"
    /\ lockfile' = [lockfile EXCEPT ![key(e)] = 0]
    /\ NextDir(e, "poll", "up")
    /\ UNCHANGED <<shm, inodes, lock_fd, locked, counter>>

-----------------------------------------------------------------------------
(* The destructor *)

Destroy(e) ==
    /\ pc[e] = "up"
    /\ e[1] = "creator" /\ ~MayQuit => pc[A(e[2])] \in {"up", "gone"}
    /\ Goto(e, IF e[1] = "creator" THEN "drop" ELSE "gone")
    /\ UNCHANGED <<shm, locks>>

DropIf(e, first) ==
    /\ pc[e] = "drop"
    /\ client_attached' = [client_attached EXCEPT ![view[e][dir[e]]] = @ + 1]
    /\ IF first THEN unlinked(key(e)) ELSE UNCHANGED name
    /\ NextDir(e, "drop", "gone")
    /\ UNCHANGED <<inited, fd, view, locks>>

\* Mutant: the name is always left to the other end
DropKeeping(e) == DropIf(e, FALSE)

\* The creator removes the name of a segment nobody has attached to.
DropShm(e) == DropIf(e, client_attached[view[e][dir[e]]] = 0)

-----------------------------------------------------------------------------
Step(e) ==
    \/ OpenLockFile(e) \/ Fcntl(e) \/ CountKeyLock(e) \/ KeyLock(e)
    \/ FreeKeyLock(e) \/ CloseLockFile(e)
    \/ destroy_shm(e) \/ CreateShm(e) \/ InitView(e)
    \/ OpenShm(e) \/ AttachView(e) \/ UnlinkShm(e) \/ delete_file_lock(e)
    \/ DropShm(e)

\* All is over, or attach_shm polls for a creator that is gone
Stopped ==
    /\ \A e \in End :
          \/ pc[e] \in {"gone", "aborted"}
          \/ pc[e] = "off" /\ ~MayStart(e)
          \/ pc[e] = "poll" /\ name[key(e)] = None
    /\ UNCHANGED vars

Next == Stopped \/ \E e \in End : Construct(e) \/ Step(e) \/ Destroy(e)

\* Threads run; nobody has to construct or destroy a channel.
Spec == Init /\ [][Next]_vars /\ \A e \in End : WF_vars(Step(e))

-----------------------------------------------------------------------------
(* Properties *)

\* The type of every variable.
TypeOK ==
    /\ together \in BOOLEAN
    /\ pc \in [End -> {"off", "destroy", "poll", "lockfile", "fcntl", "count", "keylock",
                       "close", "delete", "up", "drop", "gone", "aborted"} \cup Critical]
    /\ dir \in [End -> Dir]
    /\ name \in [Key -> Seg \cup {None}] /\ inited \subseteq Seg
    /\ client_attached \in [Seg -> Nat]
    /\ fd \in [End -> Seg \cup {None}] /\ view \in [End -> [Dir -> Seg \cup {None}]]
    /\ lockfile \in [Key -> Nat] /\ inodes \in [Key -> Nat] /\ lock_fd \in [End -> Nat]
    /\ locked \subseteq Process \X Key \X Nat
    /\ counter \in [Process -> [Key -> Nat]]

\* Two ends that have met use the same two segments, crosswise, and no end of
\* another session does.
SameSegments ==
    \A s \in Session : Met(s) =>
        /\ view[A(s)]["send"] = view[C(s)]["recv"]
        /\ view[A(s)]["recv"] = view[C(s)]["send"]
        /\ \A e \in End, d, c \in Dir : view[e][d] = view[C(s)][c] => e[2] = s

\* attach_shm opens a segment before it has the lock, so perhaps before the
\* creator has sized it; when it maps the segment, that has happened.
MappedWhenReady == \A s \in Session : pc[A(s)] = "attach" => fd[A(s)] \in inited

\* attach_init's assert(++client_attached == 1) fails only when the creator
\* has been destroyed since shm_open found the name: no segment is found twice.
AssertHolds ==
    \A s \in Session : pc[A(s)] = "attach" =>
        client_attached[fd[A(s)]] = 0 \/ pc[C(s)] \in {"drop", "gone"}

\* free_key_lock never erases the entry of a mutex somebody holds or waits for.
MutexAlive ==
    \A e \in End : pc[e] \in {"keylock"} \cup Critical => counter[proc(e)][key(e)] > 0

\* When the creator is destroyed no name of its segments is left, but for the
\* one the other end is about to remove: of the two ends, who counts first
\* removes the name.
NothingLeft ==
    \A s \in Session, k \in Key : pc[C(s)] = "gone" /\ name[k] = <<s, k>> =>
        pc[A(s)] = "unlink" /\ fd[A(s)] = <<s, k>>

\* A name is removed only when its segment has been attached to, or given up
\* by its own creator: the destructor of an earlier session takes no name
\* away that the other end still has to find.
OnlyOwnNames ==
    [][\A k \in Key : name[k] # None /\ name'[k] = None =>
          name[k] = <<0, k>> \/ client_attached'[name[k]] > 0]_vars

\* Once both ends exist the other one attaches, unless the creator is
\* destroyed before.
Meets ==
    \A s \in Session :
        (pc[C(s)] = "up" /\ pc[A(s)] \notin {"off", "aborted"})
        ~> (pc[A(s)] \in {"up", "gone"} \/ pc[C(s)] \in {"drop", "gone", "aborted"})
=============================================================================
